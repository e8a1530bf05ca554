-------------------------- MODULE ThreadPoolProofs --------------------------
(***************************************************************************)
(* Proofs about the thread pool, for every finite set of threads and every  *)
(* pool size.                                                               *)
(***************************************************************************)
EXTENDS ThreadPool, FiniteSetTheorems, TLAPS

-----------------------------------------------------------------------------
(* The type invariant. *)

\* A new pool has values of the right types.
LEMMA InitTypeOK == Init => TypeOK
BY DEF Init, TypeOK, ThreadStates, OwnerStates

\* An exception is on record exactly while and after its thread handles it.
ThrownHandled == \A t \in Thread :
                    /\ pc[t] = "threw" => t \in thrown
                    /\ t \in thrown => pc[t] \in {"threw", "release", "notify", "done"}

\* The type invariant alone is not inductive: the decrement keeps runnum a
\* natural number only because the slot was counted.
PoolInv == /\ TypeOK
           /\ SlotsExact
           /\ ErrorsExact
           /\ ThrownHandled

-----------------------------------------------------------------------------
(* Counting: the sets behind the two counters change by one thread. *)

Counted == {t \in thrown : pc[t] # "threw"}

\* There are finitely many slot holders: their number can be counted.
LEMMA HoldersFinite == IsFiniteSet(SlotHolders)
BY ThreadAssumption, FS_Subset DEF SlotHolders

\* ... and finitely many threads whose exception has been counted.
LEMMA CountedFinite == TypeOK => IsFiniteSet(Counted)
<1> SUFFICES ASSUME TypeOK PROVE IsFiniteSet(Counted)
    OBVIOUS
<1>1. Counted \subseteq Thread
    BY DEF Counted, TypeOK
<1> QED BY <1>1, ThreadAssumption, FS_Subset

\* An empty pool has counted nothing.
LEMMA InitPoolInv == Init => PoolInv
<1> SUFFICES ASSUME Init PROVE PoolInv
    OBVIOUS
<1>1. TypeOK
    BY InitTypeOK
<1>2. SlotHolders = {} /\ Counted = {}
    BY DEF Init, SlotHolders, Counted
<1>3. SlotsExact /\ ErrorsExact
    BY <1>2, FS_EmptySet, PoolSizeAssumption DEF Init, SlotsExact, ErrorsExact, Counted
<1> QED BY <1>1, <1>3 DEF Init, PoolInv, ThrownHandled

-----------------------------------------------------------------------------
(* One lemma per way of moving the counters. *)

\* Neither counter and neither of the sets it counts changes.
LEMMA CountsKept ==
    ASSUME PoolInv, runnum' = runnum, errors' = errors,
           SlotHolders' = SlotHolders, Counted' = Counted
    PROVE  SlotsExact' /\ ErrorsExact'
BY DEF PoolInv, SlotsExact, ErrorsExact, Counted

\* Taking a slot: the counter and the set of holders grow by one, below the limit.
LEMMA TakeSlotStep ==
    ASSUME PoolInv, NEW t \in Thread, TakeSlot(t)
    PROVE  PoolInv'
<1>1. TypeOK'
    BY DEF PoolInv, TypeOK, TakeSlot, Goto, ThreadStates
<1>2. SlotHolders' = SlotHolders \cup {t} /\ t \notin SlotHolders
    BY DEF PoolInv, TypeOK, TakeSlot, Goto, SlotHolders
<1>3. Cardinality(SlotHolders') = Cardinality(SlotHolders) + 1
    BY <1>2, HoldersFinite, FS_AddElement
<1>4. SlotsExact'
    BY <1>3, PoolSizeAssumption DEF PoolInv, TypeOK, SlotsExact, TakeSlot, HasRoom
<1>5. Counted' = Counted
    BY DEF PoolInv, TypeOK, TakeSlot, Goto, Counted
<1>6. ErrorsExact'
    BY <1>5 DEF PoolInv, ErrorsExact, Counted, TakeSlot
<1>7. ThrownHandled'
    BY DEF PoolInv, TypeOK, TakeSlot, Goto, ThrownHandled
<1> QED BY <1>1, <1>4, <1>6, <1>7 DEF PoolInv

\* Giving the slot back: both shrink by one, and the counter was not zero.
LEMMA ReleaseSlotStep ==
    ASSUME PoolInv, NEW t \in Thread, ReleaseSlot(t)
    PROVE  PoolInv'
<1>1. SlotHolders' = SlotHolders \ {t} /\ t \in SlotHolders
    BY DEF PoolInv, TypeOK, ReleaseSlot, Goto, SlotHolders
<1>2. /\ Cardinality(SlotHolders') = Cardinality(SlotHolders) - 1
      /\ Cardinality(SlotHolders') \in Nat
    BY <1>1, HoldersFinite, FS_RemoveElement, FS_CardinalityType
<1>3. SlotsExact' /\ runnum' \in Nat
    BY <1>2, PoolSizeAssumption DEF PoolInv, TypeOK, SlotsExact, ReleaseSlot
<1>4. TypeOK'
    BY <1>3 DEF PoolInv, TypeOK, ReleaseSlot, Goto, ThreadStates
<1>5. Counted' = Counted
    BY DEF PoolInv, TypeOK, ReleaseSlot, Goto, Counted
<1>6. ErrorsExact'
    BY <1>5 DEF PoolInv, ErrorsExact, Counted, ReleaseSlot
<1>7. ThrownHandled'
    BY DEF PoolInv, TypeOK, ReleaseSlot, Goto, ThrownHandled
<1> QED BY <1>3, <1>4, <1>6, <1>7 DEF PoolInv

\* The catch block: the thread moves into the set that _errors counts.
LEMMA CountErrorStep ==
    ASSUME PoolInv, NEW t \in Thread, CountError(t)
    PROVE  PoolInv'
<1>1. TypeOK'
    BY DEF PoolInv, TypeOK, CountError, Goto, ThreadStates
<1>2. Counted' = Counted \cup {t} /\ t \notin Counted
    BY DEF PoolInv, TypeOK, CountError, Goto, Counted, ThrownHandled
<1>3. Cardinality(Counted') = Cardinality(Counted) + 1
    BY <1>2, CountedFinite, FS_AddElement DEF PoolInv
<1>4. ErrorsExact'
    BY <1>3 DEF PoolInv, ErrorsExact, Counted, CountError
<1>5. SlotHolders' = SlotHolders
    BY DEF PoolInv, TypeOK, CountError, Goto, SlotHolders
<1>6. SlotsExact'
    BY <1>5 DEF PoolInv, SlotsExact, CountError
<1>7. ThrownHandled'
    BY DEF PoolInv, TypeOK, CountError, Goto, ThrownHandled
<1> QED BY <1>1, <1>4, <1>6, <1>7 DEF PoolInv

\* An exception makes its thread a counted one only when the catch block runs.
LEMMA TaskThrowsStep ==
    ASSUME PoolInv, NEW t \in Thread, TaskThrows(t)
    PROVE  PoolInv'
<1>1. TypeOK'
    BY DEF PoolInv, TypeOK, TaskThrows, Goto, ThreadStates
<1>2. SlotHolders' = SlotHolders
    BY DEF PoolInv, TypeOK, TaskThrows, Goto, SlotHolders
<1>3. Counted' = Counted
    BY DEF PoolInv, TypeOK, TaskThrows, Goto, Counted, ThrownHandled
<1>4. ThrownHandled'
    BY DEF PoolInv, TypeOK, TaskThrows, Goto, ThrownHandled
<1>5. SlotsExact' /\ ErrorsExact'
    BY <1>2, <1>3, CountsKept DEF TaskThrows
<1> QED BY <1>1, <1>4, <1>5 DEF PoolInv

\* Waking the sleepers moves no thread into or out of the holders.
LEMMA NotifyAllStep ==
    ASSUME PoolInv, NEW t \in Thread, NotifyAll(t)
    PROVE  PoolInv'
<1>1. TypeOK'
    BY DEF PoolInv, TypeOK, NotifyAll, ThreadStates
<1>2. SlotHolders' = SlotHolders
    BY DEF PoolInv, TypeOK, NotifyAll, SlotHolders
<1>3. Counted' = Counted
    BY DEF PoolInv, TypeOK, NotifyAll, Counted
<1>4. ThrownHandled'
    BY DEF PoolInv, TypeOK, NotifyAll, ThrownHandled
<1>5. SlotsExact' /\ ErrorsExact'
    BY <1>2, <1>3, CountsKept DEF NotifyAll
<1> QED BY <1>1, <1>4, <1>5 DEF PoolInv

\* The steps of a thread that move it between two positions of the same kind.
LEMMA MoveStep ==
    ASSUME PoolInv, NEW t \in Thread,
           \/ SeeFull(t) \/ Sleep(t) \/ SpuriousWakeup(t)
           \/ TaskReturns(t) \/ SingleReturns(t)
    PROVE  PoolInv'
<1>1. TypeOK'
    BY DEF PoolInv, TypeOK, ThreadStates, Goto,
           SeeFull, Sleep, SpuriousWakeup, TaskReturns, SingleReturns
<1>2. SlotHolders' = SlotHolders
    BY DEF PoolInv, TypeOK, SlotHolders, Goto,
           SeeFull, Sleep, SpuriousWakeup, TaskReturns, SingleReturns
<1>3. Counted' = Counted
    BY DEF PoolInv, TypeOK, Counted, Goto,
           SeeFull, Sleep, SpuriousWakeup, TaskReturns, SingleReturns
<1>4. ThrownHandled'
    BY DEF PoolInv, TypeOK, ThrownHandled, Goto,
           SeeFull, Sleep, SpuriousWakeup, TaskReturns, SingleReturns
<1>5. SlotsExact' /\ ErrorsExact'
    BY <1>2, <1>3, CountsKept
    DEF SeeFull, Sleep, SpuriousWakeup, TaskReturns, SingleReturns
<1> QED BY <1>1, <1>4, <1>5 DEF PoolInv

\* A new thread holds no slot and has thrown nothing.
LEMMA CreateStep ==
    ASSUME PoolInv, NEW t \in Thread, Add(t) \/ AddSingleThread(t)
    PROVE  PoolInv'
<1>1. TypeOK'
    BY DEF PoolInv, TypeOK, ThreadStates, Goto, Create, Add, AddSingleThread
<1>2. SlotHolders' = SlotHolders
    BY DEF PoolInv, TypeOK, SlotHolders, Goto, Create, Add, AddSingleThread
<1>3. Counted' = Counted
    BY DEF PoolInv, TypeOK, Counted, Goto, Create, Add, AddSingleThread
<1>4. ThrownHandled'
    BY DEF PoolInv, TypeOK, ThrownHandled, Goto, Create, Add, AddSingleThread
<1>5. SlotsExact' /\ ErrorsExact'
    BY <1>2, <1>3, CountsKept DEF Create, Add, AddSingleThread
<1> QED BY <1>1, <1>4, <1>5 DEF PoolInv

\* The owner's steps do not touch pc, thrown or the counters.
LEMMA OwnerStep ==
    ASSUME PoolInv,
           \/ \E caller \in {"waiting", "destroying"} : CallWait(caller)
           \/ JoinNext \/ WaitReturns \/ Stopped
           \/ \E t \in Thread : SingleThrows(t)
           \/ UNCHANGED vars
    PROVE  PoolInv'
<1>1. TypeOK'
    BY DEF PoolInv, TypeOK, OwnerStates, vars,
           CallWait, JoinNext, WaitReturns, Stopped, SingleThrows
<1>2. UNCHANGED <<runnum, errors, pc, thrown>>
    BY DEF vars, CallWait, JoinNext, WaitReturns, Stopped, SingleThrows
<1>3. SlotHolders' = SlotHolders /\ Counted' = Counted
    BY <1>2 DEF SlotHolders, Counted
<1>4. ThrownHandled'
    BY <1>2 DEF PoolInv, ThrownHandled
<1>5. SlotsExact' /\ ErrorsExact'
    BY <1>2, <1>3, CountsKept
<1> QED BY <1>1, <1>4, <1>5 DEF PoolInv

-----------------------------------------------------------------------------
(* The invariant. *)

\* The inductive invariant of the two counters holds in every behaviour of the
\* pool: types, _runnum, _errors, and that only threads that threw are caught.
THEOREM PoolInvariant == Spec => []PoolInv
<1>1. PoolInv /\ [Next]_vars => PoolInv'
  <2> SUFFICES ASSUME PoolInv, [Next]_vars PROVE PoolInv'
      OBVIOUS
  <2>1. CASE \E t \in Thread : Add(t) \/ AddSingleThread(t)
      BY <2>1, CreateStep
  <2>2. CASE \E t \in Thread : TakeSlot(t)
      BY <2>2, TakeSlotStep
  <2>3. CASE \E t \in Thread : \/ SeeFull(t) \/ Sleep(t) \/ SpuriousWakeup(t)
                               \/ TaskReturns(t) \/ SingleReturns(t)
      BY <2>3, MoveStep
  <2>4. CASE \E t \in Thread : TaskThrows(t)
      BY <2>4, TaskThrowsStep
  <2>5. CASE \E t \in Thread : CountError(t)
      BY <2>5, CountErrorStep
  <2>6. CASE \E t \in Thread : ReleaseSlot(t)
      BY <2>6, ReleaseSlotStep
  <2>7. CASE \E t \in Thread : NotifyAll(t)
      BY <2>7, NotifyAllStep
  <2>8. CASE \/ \E caller \in {"waiting", "destroying"} : CallWait(caller)
             \/ JoinNext \/ WaitReturns \/ Stopped
             \/ \E t \in Thread : SingleThrows(t)
             \/ UNCHANGED vars
      BY <2>8, OwnerStep
  <2> QED BY <2>1, <2>2, <2>3, <2>4, <2>5, <2>6, <2>7, <2>8 DEF Next, ThreadStep
<1> QED BY <1>1, InitPoolInv, PTL DEF Spec

\* The pool's fields and the threads' positions keep their types; for _runnum
\* this says that the unsigned counter never wraps below zero.
THEOREM TypeCorrect == Spec => []TypeOK
<1>1. PoolInv => TypeOK
    BY DEF PoolInv
<1> QED BY <1>1, PoolInvariant, PTL

\* For every number of threads and every pool size, _runnum is the number of
\* threads between their increment and their decrement, and at most _poolSize.
THEOREM SlotsAreExact == Spec => []SlotsExact
<1>1. PoolInv => SlotsExact
    BY DEF PoolInv
<1> QED BY <1>1, PoolInvariant, PTL

\* getErrors() counts every exception once.
THEOREM ErrorsAreExact == Spec => []ErrorsExact
<1>1. PoolInv => ErrorsExact
    BY DEF PoolInv
<1> QED BY <1>1, PoolInvariant, PTL

\* Both counters are exact in every reachable state.
THEOREM CountersAreExact == Spec => []CountersExact
BY SlotsAreExact, ErrorsAreExact, PTL DEF CountersExact

-----------------------------------------------------------------------------
(* wait() and the destructor. *)

\* Every thread that was created is in _threads, the first "joined" of them
\* have ended, and the destructor has returned only after joining all.
JoinInv == /\ \A t \in Thread : pc[t] = "absent" \/ \E i \in 1 .. Len(threads) : threads[i] = t
           /\ \A i \in 1 .. joined : pc[threads[i]] = "done"
           /\ owner = "destroyed" => joined = Len(threads)

\* Adding a thread extends _threads and leaves the joined prefix alone.
LEMMA CreateJoinInv ==
    ASSUME TypeOK, JoinInv, NEW t \in Thread, Add(t) \/ AddSingleThread(t)
    PROVE  JoinInv'
<1> USE DEF Add, AddSingleThread, Create, Goto
<1>1. /\ Len(threads') = Len(threads) + 1
      /\ threads'[Len(threads) + 1] = t
      /\ \A i \in 1 .. Len(threads) : threads'[i] = threads[i]
    BY DEF TypeOK
<1>2. \A u \in Thread : pc'[u] = "absent" \/ \E i \in 1 .. Len(threads') : threads'[i] = u
  <2> SUFFICES ASSUME NEW u \in Thread, pc'[u] # "absent"
               PROVE  \E i \in 1 .. Len(threads') : threads'[i] = u
      OBVIOUS
  <2>1. CASE u = t
      BY <2>1, <1>1 DEF TypeOK
  <2>2. CASE u # t
    <3>1. pc[u] # "absent"
        BY <2>2 DEF TypeOK
    <3>2. PICK i \in 1 .. Len(threads) : threads[i] = u
        BY <3>1 DEF JoinInv
    <3> QED BY <3>2, <1>1 DEF TypeOK
  <2> QED BY <2>1, <2>2
<1>3. \A i \in 1 .. joined' : pc'[threads'[i]] = "done"
  <2> SUFFICES ASSUME NEW i \in 1 .. joined PROVE pc'[threads'[i]] = "done"
      OBVIOUS
  <2>1. i \in 1 .. Len(threads) /\ threads[i] \in Thread
      BY DEF TypeOK
  <2>2. pc[threads[i]] = "done" /\ pc[t] = "absent"
      BY DEF JoinInv
  <2> QED BY <1>1, <2>1, <2>2 DEF TypeOK
<1> QED BY <1>2, <1>3 DEF JoinInv

\* No step of a thread undoes its creation or its end.
LEMMA ThreadJoinInv ==
    ASSUME TypeOK, JoinInv, NEW t \in Thread, ThreadStep(t) \/ SpuriousWakeup(t)
    PROVE  JoinInv'
<1>1. /\ threads' = threads /\ joined' = joined
      /\ owner' = owner \/ owner' = "aborted"
    BY DEF ThreadStep, SpuriousWakeup, TakeSlot, SeeFull, Sleep, TaskReturns, TaskThrows,
           CountError, ReleaseSlot, NotifyAll, SingleReturns, SingleThrows
<1>2. \A u \in Thread : /\ pc'[u] = "absent" <=> pc[u] = "absent"
                        /\ pc[u] = "done" => pc'[u] = "done"
    BY DEF TypeOK, Goto,
           ThreadStep, SpuriousWakeup, TakeSlot, SeeFull, Sleep, TaskReturns, TaskThrows,
           CountError, ReleaseSlot, NotifyAll, SingleReturns, SingleThrows
<1>3. \A i \in 1 .. joined : threads[i] \in Thread
    BY DEF TypeOK
<1> QED BY <1>1, <1>2, <1>3 DEF JoinInv

\* The owner joins _threads in order and returns only at the end of it.
LEMMA OwnerJoinInv ==
    ASSUME TypeOK, JoinInv,
           \/ \E caller \in {"waiting", "destroying"} : CallWait(caller)
           \/ JoinNext \/ WaitReturns \/ Stopped \/ UNCHANGED vars
    PROVE  JoinInv'
<1>1. threads' = threads /\ pc' = pc
    BY DEF CallWait, JoinNext, WaitReturns, Stopped, vars
<1>2. \A i \in 1 .. joined' : pc[threads[i]] = "done"
    BY DEF TypeOK, JoinInv, CallWait, JoinNext, WaitReturns, Stopped, vars
<1>3. owner' = "destroyed" => joined' = Len(threads)
    BY DEF JoinInv, CallWait, JoinNext, WaitReturns, Stopped, vars
<1> QED BY <1>1, <1>2, <1>3 DEF JoinInv

\* _threads holds exactly the threads that were created, and the first "joined"
\* of them have ended: what wait() has established when its loop is over.
THEOREM JoinInvariant == Spec => []JoinInv
<1>1. Init => JoinInv
    BY DEF Init, JoinInv
<1>2. TypeOK /\ JoinInv /\ [Next]_vars => JoinInv'
  <2> SUFFICES ASSUME TypeOK, JoinInv, [Next]_vars PROVE JoinInv'
      OBVIOUS
  <2>1. CASE \E t \in Thread : Add(t) \/ AddSingleThread(t)
      BY <2>1, CreateJoinInv
  <2>2. CASE \E t \in Thread : ThreadStep(t) \/ SpuriousWakeup(t)
      BY <2>2, ThreadJoinInv
  <2>3. CASE \/ \E caller \in {"waiting", "destroying"} : CallWait(caller)
             \/ JoinNext \/ WaitReturns \/ Stopped \/ UNCHANGED vars
      BY <2>3, OwnerJoinInv
  <2> QED BY <2>1, <2>2, <2>3 DEF Next
<1> QED BY <1>1, <1>2, TypeCorrect, PTL DEF Spec

\* When the destructor has returned, every thread of the pool has ended: none
\* of them can touch the destroyed mutexes, counters or condition variable.
THEOREM QuietOnceDestroyed == Spec => []QuietAfterDestruction
<1>1. TypeOK /\ JoinInv => QuietAfterDestruction
  <2> SUFFICES ASSUME TypeOK, JoinInv, owner = "destroyed", NEW t \in Thread, pc[t] # "absent"
               PROVE  pc[t] = "done"
      BY DEF QuietAfterDestruction
  <2>1. PICK i \in 1 .. Len(threads) : threads[i] = t
      BY DEF JoinInv
  <2> QED BY <2>1 DEF JoinInv
<1> QED BY <1>1, TypeCorrect, JoinInvariant, PTL

-----------------------------------------------------------------------------
(* The pool implements TaskSlots. *)

Phase == [t \in Thread |-> PhaseOf(pc[t])]

\* A new pool is an abstract pool with no tasks.
LEMMA PhaseInit == Init => Slots!Init
BY DEF Init, Slots!Init, PhaseOf

\* A step that moves one thread moves one phase.
LEMMA PhaseMoves ==
    ASSUME TypeOK, NEW t \in Thread, NEW s, Goto(t, s)
    PROVE  Phase' = [Phase EXCEPT ![t] = PhaseOf(s)]
<1>1. \A u \in Thread : pc'[u] = IF u = t THEN s ELSE pc[u]
    BY DEF TypeOK, Goto
<1> QED BY <1>1 DEF Phase

\* add and addSingleThread submit a task.
LEMMA CreateRefines ==
    ASSUME TypeOK, NEW t \in Thread, Add(t) \/ AddSingleThread(t)
    PROVE  Slots!Next
<1>1. /\ owner = "active" /\ owner' = owner
      /\ Phase[t] = "absent"
    BY DEF Add, AddSingleThread, Create, PhaseOf, Phase
<1>2. \E p \in {"pending", "alone"} : Phase' = [Phase EXCEPT ![t] = p]
    BY PhaseMoves DEF Add, AddSingleThread, Create, PhaseOf
<1>3. Slots!Submit(t)
    BY <1>1, <1>2 DEF Slots!Submit, Slots!Become, Phase
<1> QED BY <1>3 DEF Slots!Next

\* Taking a slot starts a task, and there is a free slot for it.
LEMMA TakeSlotRefines ==
    ASSUME PoolInv, NEW t \in Thread, TakeSlot(t)
    PROVE  Slots!Next
<1>1. Slots!Running = SlotHolders
    BY DEF Slots!Running, SlotHolders, PhaseOf, PoolInv, TypeOK, ThreadStates
<1>2. Slots!Cardinality(Slots!Running) < PoolSize
  <2>1. Slots!Cardinality(SlotHolders) = Cardinality(SlotHolders)
      BY DEF Slots!Cardinality, Cardinality, Slots!IsFiniteSet, IsFiniteSet
  <2> QED BY <1>1, <2>1 DEF PoolInv, SlotsExact, TakeSlot, HasRoom
<1>3. Phase[t] = "pending" /\ owner # "aborted" /\ owner' = owner
    BY DEF TakeSlot, Alive, PhaseOf, Phase
<1>4. Phase' = [Phase EXCEPT ![t] = "running"]
    BY PhaseMoves DEF TakeSlot, PhaseOf, PoolInv
<1>5. Slots!Start(t)
    BY <1>2, <1>3, <1>4 DEF Slots!Start, Slots!Become, Phase
<1> QED BY <1>5 DEF Slots!Next

\* Giving the slot back, or the end of a single thread, finishes the task.
LEMMA EndRefines ==
    ASSUME TypeOK, NEW t \in Thread,
           ReleaseSlot(t) \/ SingleReturns(t)
    PROVE  Slots!Next
<1>1. Phase[t] \in {"running", "alone"} /\ owner # "aborted" /\ owner' = owner
    BY DEF ReleaseSlot, SingleReturns, Alive, PhaseOf, Phase
<1>2. Phase' = [Phase EXCEPT ![t] = "finished"]
    BY PhaseMoves DEF ReleaseSlot, SingleReturns, PhaseOf
<1>3. Slots!Finish(t)
    BY <1>1, <1>2 DEF Slots!Finish, Slots!Become, Phase
<1> QED BY <1>3 DEF Slots!Next

\* The other steps of a thread stay within a phase.
LEMMA InnerStepStutters ==
    ASSUME TypeOK, NEW t \in Thread,
           \/ SeeFull(t) \/ Sleep(t) \/ SpuriousWakeup(t) \/ TaskReturns(t)
           \/ TaskThrows(t) \/ CountError(t) \/ NotifyAll(t)
    PROVE  UNCHANGED Slots!vars
<1>1. \A u \in Thread : PhaseOf(pc'[u]) = PhaseOf(pc[u])
  <2>1. CASE NotifyAll(t)
      BY <2>1 DEF NotifyAll, PhaseOf, TypeOK
  <2>2. CASE \/ SeeFull(t) \/ Sleep(t) \/ SpuriousWakeup(t) \/ TaskReturns(t)
             \/ TaskThrows(t) \/ CountError(t)
    <3>1. PICK s \in ThreadStates : Goto(t, s) /\ PhaseOf(s) = PhaseOf(pc[t])
        BY <2>2 DEF SeeFull, Sleep, SpuriousWakeup, TaskReturns, TaskThrows, CountError,
                    PhaseOf, ThreadStates
    <3>2. \A u \in Thread : pc'[u] = IF u = t THEN s ELSE pc[u]
        BY <3>1 DEF TypeOK, Goto
    <3> QED BY <3>1, <3>2
  <2> QED BY <2>1, <2>2
<1>2. owner' = owner
    BY DEF SeeFull, Sleep, SpuriousWakeup, TaskReturns, TaskThrows, CountError, NotifyAll
<1> QED BY <1>1, <1>2 DEF Slots!vars

\* Calls and returns of wait() and the destructor begin and end the waiting.
LEMMA OwnerRefines ==
    ASSUME TypeOK, JoinInv, QuietAfterDestruction,
           \/ \E caller \in {"waiting", "destroying"} : CallWait(caller)
           \/ JoinNext \/ WaitReturns \/ Stopped \/ UNCHANGED vars
           \/ \E t \in Thread : SingleThrows(t)
    PROVE  [Slots!Next]_(Slots!vars)
<1>1. pc' = pc /\ Phase' = Phase
    BY DEF CallWait, JoinNext, WaitReturns, Stopped, SingleThrows, vars, Phase
<1>2. CASE \E caller \in {"waiting", "destroying"} : CallWait(caller)
  <2>1. Slots!BeginWait
      BY <1>1, <1>2 DEF CallWait, Slots!BeginWait, Phase
  <2> QED BY <2>1 DEF Slots!Next
<1>3. CASE WaitReturns
  <2>1. \A t \in Thread : pc[t] \in {"absent", "done"}
    <3> SUFFICES ASSUME NEW t \in Thread, pc[t] # "absent" PROVE pc[t] = "done"
        OBVIOUS
    <3>1. PICK i \in 1 .. Len(threads) : threads[i] = t
        BY DEF JoinInv
    <3> QED BY <3>1, <1>3 DEF JoinInv, WaitReturns
  <2>2. Slots!AllFinished
      BY <2>1 DEF Slots!AllFinished, PhaseOf
  <2>3. Slots!EndWait
      BY <1>1, <1>3, <2>2 DEF WaitReturns, Slots!EndWait, Phase
  <2> QED BY <2>3 DEF Slots!Next
<1>4. CASE \E t \in Thread : SingleThrows(t)
  <2>1. PICK t \in Thread : SingleThrows(t)
      BY <1>4
  <2>2. Phase[t] = "alone" /\ owner # "aborted" /\ owner' = "aborted"
      BY <2>1 DEF SingleThrows, Alive, PhaseOf, Phase
  <2>3. Slots!Abort(t)
      BY <1>1, <2>2 DEF Slots!Abort, Phase
  <2> QED BY <2>3 DEF Slots!Next
<1>5. CASE JoinNext \/ Stopped \/ UNCHANGED vars
  <2>1. owner' = owner
      BY <1>5 DEF JoinNext, Stopped, vars
  <2> QED BY <1>1, <2>1 DEF Slots!vars, Phase
<1> QED BY <1>2, <1>3, <1>4, <1>5

\* Whatever the number of threads, the pool size, the interleaving and the
\* wakeups: at most PoolSize tasks run at a time, none runs twice or before it
\* was added, and wait() and the destructor return only when all have finished.
THEOREM PoolImplementsTaskSlots == Spec => ImplementsTaskSlots
<1>1. PoolInv /\ JoinInv /\ QuietAfterDestruction /\ [Next]_vars => [Slots!Next]_(Slots!vars)
  <2> SUFFICES ASSUME PoolInv, JoinInv, QuietAfterDestruction, [Next]_vars
               PROVE  [Slots!Next]_(Slots!vars)
      OBVIOUS
  <2> USE DEF PoolInv
  <2>1. CASE \E t \in Thread : Add(t) \/ AddSingleThread(t)
      BY <2>1, CreateRefines
  <2>2. CASE \E t \in Thread : TakeSlot(t)
      BY <2>2, TakeSlotRefines
  <2>3. CASE \E t \in Thread : ReleaseSlot(t) \/ SingleReturns(t)
      BY <2>3, EndRefines
  <2>4. CASE \E t \in Thread :
               \/ SeeFull(t) \/ Sleep(t) \/ SpuriousWakeup(t) \/ TaskReturns(t)
               \/ TaskThrows(t) \/ CountError(t) \/ NotifyAll(t)
      BY <2>4, InnerStepStutters
  <2>5. CASE \/ \E caller \in {"waiting", "destroying"} : CallWait(caller)
             \/ JoinNext \/ WaitReturns \/ Stopped \/ UNCHANGED vars
             \/ \E t \in Thread : SingleThrows(t)
      BY <2>5, OwnerRefines
  <2> QED BY <2>1, <2>2, <2>3, <2>4, <2>5 DEF Next, ThreadStep
<1> QED BY <1>1, PhaseInit, PoolInvariant, JoinInvariant, QuietOnceDestroyed, PTL
        DEF Spec, ImplementsTaskSlots, Slots!Spec

=============================================================================
