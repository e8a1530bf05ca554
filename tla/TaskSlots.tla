------------------------------ MODULE TaskSlots ------------------------------
(***************************************************************************)
(* What a thread pool promises, without threads, locks or wakeups.          *)
(*                                                                         *)
(* A submitted task waits for one of PoolSize slots, runs once and          *)
(* finishes; a task submitted alone runs at once and uses no slot.  The     *)
(* owner may wait for, and at the end always waits for, everything it       *)
(* submitted.  ThreadPool.tla is shown to implement this specification.     *)
(***************************************************************************)
EXTENDS Naturals, FiniteSets

CONSTANTS Thread,    \* identities of the submitted tasks, one thread each
          PoolSize   \* number of slots

VARIABLES phase,     \* [Thread -> what became of the task]
          owner      \* what the owner of the pool is doing

vars == <<phase, owner>>

Phases == {"absent", "pending", "running", "alone", "finished"}
OwnerStates == {"active", "waiting", "destroying", "destroyed", "aborted"}

Running == {t \in Thread : phase[t] = "running"}
AllFinished == \A t \in Thread : phase[t] \in {"absent", "finished"}

-----------------------------------------------------------------------------

Init == /\ phase = [t \in Thread |-> "absent"]
        /\ owner = "active"

Become(t, p) == phase' = [phase EXCEPT ![t] = p]

Submit(t) == /\ owner = "active"
             /\ phase[t] = "absent"
             /\ \E p \in {"pending", "alone"} : Become(t, p)
             /\ UNCHANGED owner

Start(t) == /\ owner # "aborted"
            /\ phase[t] = "pending"
            /\ Cardinality(Running) < PoolSize
            /\ Become(t, "running")
            /\ UNCHANGED owner

Finish(t) == /\ owner # "aborted"
             /\ phase[t] \in {"running", "alone"}
             /\ Become(t, "finished")
             /\ UNCHANGED owner

\* A task that runs alone takes the process down when it fails.
Abort(t) == /\ owner # "aborted"
            /\ phase[t] = "alone"
            /\ owner' = "aborted"
            /\ UNCHANGED phase

BeginWait == /\ owner = "active"
             /\ owner' \in {"waiting", "destroying"}
             /\ UNCHANGED phase

EndWait == /\ owner \in {"waiting", "destroying"}
           /\ AllFinished
           /\ owner' = IF owner = "waiting" THEN "active" ELSE "destroyed"
           /\ UNCHANGED phase

Next == \/ \E t \in Thread : Submit(t) \/ Start(t) \/ Finish(t) \/ Abort(t)
        \/ BeginWait
        \/ EndWait

Spec == Init /\ [][Next]_vars

=============================================================================
