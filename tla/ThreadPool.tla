----------------------------- MODULE ThreadPool -----------------------------
(***************************************************************************)
(* The thread pool of lib/threadpool (ThreadPool.h, ThreadPool.cpp).        *)
(*                                                                         *)
(* Every task gets a boost::thread of its own as soon as it is added; the   *)
(* pool only limits how many of these threads run their task at the same    *)
(* time.  A thread that finds the pool full sleeps on task_queue_cond and   *)
(* tries again when it is woken.                                            *)
(*                                                                         *)
(* Granularity.  The critical sections under _running_lock contain no       *)
(* blocking call and no other lock, so each is one step.  _mutex_queue is   *)
(* only ever held from the call of condition_variable::wait on (which       *)
(* releases it while it sleeps) and from the return of wait to the end of   *)
(* the loop body; notify_all is called without it.  It excludes nothing     *)
(* that this model could tell apart, so it has no variable.  What matters   *)
(* is kept: the check of _runnum and the call of wait are two steps.        *)
(***************************************************************************)
EXTENDS Naturals, Sequences, FiniteSets

CONSTANTS Thread,    \* the threads that may be created, one per task
          PoolSize   \* _poolSize

ASSUME ThreadAssumption == IsFiniteSet(Thread)
ASSUME PoolSizeAssumption == PoolSize \in Nat

VARIABLES
    runnum,    \* _runnum
    errors,    \* _errors
    threads,   \* _threads, in the order of creation
    pc,        \* where each thread is in ThreadPoolTask::operator()
    owner,     \* what the thread that owns the pool object is doing
    joined,    \* how many elements of _threads the current wait() has joined
    thrown     \* history: the threads whose pooled task ended with an exception

vars == <<runnum, errors, threads, pc, owner, joined, thrown>>

(***************************************************************************)
(* absent   not created                                                     *)
(* check    at the top of the loop, about to look at _runnum                *)
(* full     saw _runnum >= _poolSize, has not yet called wait               *)
(* asleep   in task_queue_cond.wait                                         *)
(* run      holds a slot, in ( *_task)()                                     *)
(* threw    in catch(...), has not yet counted the error                    *)
(* release  about to decrement _runnum                                      *)
(* notify   about to call notify_all                                        *)
(* single   in the task of addSingleThread, outside of the pool             *)
(* done     the thread function has returned                                *)
(***************************************************************************)
ThreadStates == {"absent", "check", "full", "asleep", "run", "threw",
                 "release", "notify", "single", "done"}

OwnerStates == {"active", "waiting", "destroying", "destroyed", "aborted"}

Goto(t, s) == pc' = [pc EXCEPT ![t] = s]

\* An uncaught exception in a thread ends the process: nothing moves any more.
Alive == owner # "aborted"

-----------------------------------------------------------------------------
(* Slips that the runs must notice; none of these is part of Spec. *)

\* runnum <= _poolSize instead of <.
HasRoomOffByOne == runnum <= PoolSize

\* One slot is never handed out.
HasRoomTooStrict == runnum + 1 < PoolSize

\* The catch block gives the slot back as well.
CountErrorReleases(t) == /\ Alive
                         /\ pc[t] = "threw"
                         /\ errors' = errors + 1
                         /\ runnum' = runnum - 1
                         /\ Goto(t, "release")
                         /\ UNCHANGED <<threads, owner, joined, thrown>>

\* The catch block leaves the function without giving the slot back.
CountErrorLeaks(t) == /\ Alive
                      /\ pc[t] = "threw"
                      /\ errors' = errors + 1
                      /\ Goto(t, "notify")
                      /\ UNCHANGED <<runnum, threads, owner, joined, thrown>>

\* The catch block swallows the exception.
CountErrorForgets(t) == /\ Alive
                        /\ pc[t] = "threw"
                        /\ Goto(t, "release")
                        /\ UNCHANGED <<runnum, errors, threads, owner, joined, thrown>>

\* A thread counts as joined as soon as its task has ended.
JoinTaskOnly == /\ owner \in {"waiting", "destroying"}
                /\ joined < Len(threads)
                /\ pc[threads[joined + 1]] \in {"release", "notify", "done"}
                /\ joined' = joined + 1
                /\ UNCHANGED <<runnum, errors, threads, pc, owner, thrown>>

-----------------------------------------------------------------------------
Init == /\ runnum = 0
        /\ errors = 0
        /\ threads = <<>>
        /\ pc = [t \in Thread |-> "absent"]
        /\ owner = "active"
        /\ joined = 0
        /\ thrown = {}

\* ThreadPool::add and ThreadPool::addSingleThread differ in the functor only.
Create(t, start) == /\ owner = "active"
                    /\ pc[t] = "absent"
                    /\ Goto(t, start)
                    /\ threads' = Append(threads, t)
                    /\ UNCHANGED <<runnum, errors, owner, joined, thrown>>

Add(t) == Create(t, "check")

AddSingleThread(t) == Create(t, "single")

HasRoom == runnum < PoolSize

\* The body of the loop's critical section: take a slot, or leave the lock.
TakeSlot(t) == /\ Alive
               /\ pc[t] = "check"
               /\ HasRoom
               /\ runnum' = runnum + 1
               /\ Goto(t, "run")
               /\ UNCHANGED <<errors, threads, owner, joined, thrown>>

SeeFull(t) == /\ Alive
              /\ pc[t] = "check"
              /\ ~ HasRoom
              /\ Goto(t, "full")
              /\ UNCHANGED <<runnum, errors, threads, owner, joined, thrown>>

\* lock(_mutex_queue); task_queue_cond.wait(lock) -- no predicate.
Sleep(t) == /\ Alive
            /\ pc[t] = "full"
            /\ Goto(t, "asleep")
            /\ UNCHANGED <<runnum, errors, threads, owner, joined, thrown>>

\* condition_variable::wait may return without a notification.
SpuriousWakeup(t) == /\ Alive
                     /\ pc[t] = "asleep"
                     /\ Goto(t, "check")
                     /\ UNCHANGED <<runnum, errors, threads, owner, joined, thrown>>

TaskReturns(t) == /\ Alive
                  /\ pc[t] = "run"
                  /\ Goto(t, "release")
                  /\ UNCHANGED <<runnum, errors, threads, owner, joined, thrown>>

TaskThrows(t) == /\ Alive
                 /\ pc[t] = "run"
                 /\ Goto(t, "threw")
                 /\ thrown' = thrown \cup {t}
                 /\ UNCHANGED <<runnum, errors, threads, owner, joined>>

CountError(t) == /\ Alive
                 /\ pc[t] = "threw"
                 /\ errors' = errors + 1
                 /\ Goto(t, "release")
                 /\ UNCHANGED <<runnum, threads, owner, joined, thrown>>

ReleaseSlot(t) == /\ Alive
                  /\ pc[t] = "release"
                  /\ runnum' = runnum - 1
                  /\ Goto(t, "notify")
                  /\ UNCHANGED <<errors, threads, owner, joined, thrown>>

\* notify_all wakes the threads that sleep now, and the thread ends.
NotifyAll(t) == /\ Alive
                /\ pc[t] = "notify"
                /\ pc' = [u \in Thread |-> IF u = t THEN "done"
                                           ELSE IF pc[u] = "asleep" THEN "check"
                                           ELSE pc[u]]
                /\ UNCHANGED <<runnum, errors, threads, owner, joined, thrown>>

SingleReturns(t) == /\ Alive
                    /\ pc[t] = "single"
                    /\ Goto(t, "done")
                    /\ UNCHANGED <<runnum, errors, threads, owner, joined, thrown>>

\* ThreadPoolTaskRunner has no catch: std::terminate.
SingleThrows(t) == /\ Alive
                   /\ pc[t] = "single"
                   /\ owner' = "aborted"
                   /\ UNCHANGED <<runnum, errors, threads, pc, joined, thrown>>

\* wait() called by the owner, or by the destructor.
CallWait(caller) == /\ owner = "active"
                    /\ owner' = caller
                    /\ joined' = 0
                    /\ UNCHANGED <<runnum, errors, threads, pc, thrown>>

JoinNext == /\ owner \in {"waiting", "destroying"}
            /\ joined < Len(threads)
            /\ pc[threads[joined + 1]] = "done"
            /\ joined' = joined + 1
            /\ UNCHANGED <<runnum, errors, threads, pc, owner, thrown>>

WaitReturns == /\ owner \in {"waiting", "destroying"}
               /\ joined = Len(threads)
               /\ owner' = IF owner = "waiting" THEN "active" ELSE "destroyed"
               /\ UNCHANGED <<runnum, errors, threads, pc, joined, thrown>>

\* The process has ended or the pool object is gone.
Stopped == owner \in {"destroyed", "aborted"} /\ UNCHANGED vars

ThreadStep(t) == \/ TakeSlot(t) \/ SeeFull(t) \/ Sleep(t)
                 \/ TaskReturns(t) \/ TaskThrows(t) \/ CountError(t)
                 \/ ReleaseSlot(t) \/ NotifyAll(t)
                 \/ SingleReturns(t) \/ SingleThrows(t)

Next == \/ \E t \in Thread : \/ Add(t) \/ AddSingleThread(t)
                             \/ ThreadStep(t) \/ SpuriousWakeup(t)
        \/ \E caller \in {"waiting", "destroying"} : CallWait(caller)
        \/ JoinNext
        \/ WaitReturns
        \/ Stopped

Spec == Init /\ [][Next]_vars

(***************************************************************************)
(* The scheduler of the operating system runs every thread that can run,    *)
(* and tasks end.  Nothing obliges a condition variable to wake spuriously. *)
(***************************************************************************)
Fairness == /\ \A t \in Thread : WF_vars(ThreadStep(t))
            /\ WF_vars(JoinNext \/ WaitReturns)

FairSpec == Spec /\ Fairness

-----------------------------------------------------------------------------
SlotHolders == {t \in Thread : pc[t] \in {"run", "threw", "release"}}
Finished == {t \in Thread : pc[t] = "done"}

\* Type invariant of the pool's fields and of the threads' positions.
TypeOK == /\ runnum \in Nat
          /\ errors \in Nat
          /\ threads \in Seq(Thread)
          /\ pc \in [Thread -> ThreadStates]
          /\ owner \in OwnerStates
          /\ joined \in 0 .. Len(threads)
          /\ thrown \subseteq Thread

\* _runnum is exact whatever the interleaving of the threads and whatever way
\* their tasks end, never wraps below zero, and never lets more than _poolSize
\* tasks run at once (ThreadPool.h: "task pool maximum size").
SlotsExact == /\ runnum = Cardinality(SlotHolders)
              /\ runnum <= PoolSize

\* getErrors() is the number of tasks that ended with an exception, apart from
\* those whose catch block has not reached the counter yet.
ErrorsExact == errors = Cardinality({t \in thrown : pc[t] # "threw"})

\* Both counters, which tasks that end with and without an exception change in
\* different places, always say what they stand for.
CountersExact == SlotsExact /\ ErrorsExact

\* Once the destructor has returned no thread can touch the pool's mutexes,
\* counters or condition variable again, not even a thread between its last
\* decrement and its notify_all.
QuietAfterDestruction ==
    owner = "destroyed" => \A t \in Thread : pc[t] \in {"absent", "done"}

\* Every slot that is taken is given back in the end, on the exception path
\* too: a leaked slot would shrink the pool for the rest of the run.
SlotsComeBack == (runnum > 0) ~> (runnum = 0 \/ owner = "aborted")

\* How far the pool gets at least, however the threads and the wakeups
\* interleave: when k <= _poolSize tasks are added then k tasks end.
PoolSizeTasksFinish ==
    \A k \in 1 .. PoolSize :
        (Len(threads) >= k) ~> (Cardinality(Finished) >= k \/ owner = "aborted")

\* ThreadPool.h: the destructor "wait[s] end of all added thread", and wait()
\* waits "until the threads are terminated": both return.
WaitTerminates ==
    (owner \in {"waiting", "destroying"}) ~> (owner \notin {"waiting", "destroying"})

\* The refinement mapping to TaskSlots: the positions before the slot is taken
\* are one phase, the positions where the slot is held are one phase, and a
\* task has finished when its slot is free again.
PhaseOf(s) == CASE s = "absent" -> "absent"
                [] s \in {"check", "full", "asleep"} -> "pending"
                [] s \in {"run", "threw", "release"} -> "running"
                [] s = "single" -> "alone"
                [] s \in {"notify", "done"} -> "finished"

Slots == INSTANCE TaskSlots WITH phase <- [t \in Thread |-> PhaseOf(pc[t])]

\* The pool implements TaskSlots: at most PoolSize tasks run at a time, each
\* added task runs at most once, wait() returns only when all have finished.
ImplementsTaskSlots == Slots!Spec

=============================================================================
