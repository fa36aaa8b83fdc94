------------------------- MODULE SessionPoolProofs -------------------------
(***************************************************************************)
(* Proofs about SessionPool, for every finite set of calls and every       *)
(* quota: the type invariant, the conservation of slots, that work is      *)
(* covered by a slot, that the sweeper spares owned sessions, and that the *)
(* pool implements SlotPool.  With reliable closes and no cancellation:    *)
(* that the provider shows no more sessions than there are slots, and that *)
(* no abandoned session stays tracked.                                     *)
(***************************************************************************)
EXTENDS SessionPool, FiniteSetTheorems, TLAPS

\* A call that has not left the queue has touched nothing yet.
FreshIsUntouched ==
  \A c \in Calls : pc[c] \in {"idle", "slot"} =>
    /\ c \notin flagged \cup transferred
    /\ thread[c] = "none"
    /\ provider[c] = "none"
    /\ c \notin listed \cup orphans

\* The session of a call that attaches or uses it is tracked.
OwnedIsTracked ==
  \A c \in Calls : pc[c] \in {"attach", "ready"} => c \in live

\* What the listing under way can condemn is not being created.
ListedTwiceIsNotCreating ==
  \A c \in listed \cap candidates : pc[c] # "create"

\* The inductive invariant.
IInv ==
  /\ TypeOK
  /\ QuotaConserved
  /\ SlotCoversWork
  /\ FreshIsUntouched
  /\ OwnedIsTracked
  /\ ListedTwiceIsNotCreating
  /\ SweeperSparesOwned
-----------------------------------------------------------------------------
(* Every step treats the slots in one of five ways. *)

TakesSlot(c) ==
  /\ pc[c] = "slot"
  /\ pc'[c] = "create"
  /\ c \notin flagged \cup transferred
  /\ slots > 0
  /\ slots' = slots - 1
  /\ flagged' = flagged \cup {c}
  /\ transferred' = transferred

StateReturnsSlot(c) ==
  /\ c \in flagged
  /\ slots' = slots + 1
  /\ flagged' = flagged \ {c}
  /\ transferred' = transferred

TaskReturnsSlot(c) ==
  /\ c \in transferred
  /\ slots' = slots + 1
  /\ flagged' = flagged
  /\ transferred' = transferred \ {c}

HandsSlotOver(c) ==
  /\ c \in flagged
  /\ slots' = slots
  /\ flagged' = flagged \ {c}
  /\ transferred' = transferred \cup {c}

\* ReleaseSlot returns the slot of a flagged state and is a stutter otherwise.
LEMMA ReleaseSlotEffect ==
  ASSUME TypeOK, NEW c \in Calls, ReleaseSlot(c)
  PROVE  StateReturnsSlot(c) \/ UNCHANGED slotVars
BY DEF TypeOK, ReleaseSlot, StateReturnsSlot, slotVars

\* The end of a working task returns the slot it owns.
LEMMA EndTaskEffect ==
  ASSUME TypeOK, SlotCoversWork, NEW c \in Calls, NEW how,
         task[c] \in Working, EndTask(c, how)
  PROVE  TaskReturnsSlot(c)
BY DEF TypeOK, SlotCoversWork, EndTask, TaskReturnsSlot

\* What a step of a call does to the slots.
LEMMA CallStepEffect ==
  ASSUME IInv, NEW c \in Calls,
         EnterSetup(c) \/ CallStep(c) \/ LeaveReset(c) \/ Cancel(c)
  PROVE  \/ TakesSlot(c) \/ StateReturnsSlot(c) \/ HandsSlotOver(c)
         \/ UNCHANGED slotVars
<1> USE DEF IInv
<1>1. CASE AcquireSlot(c)
  BY <1>1 DEF AcquireSlot, TakesSlot, FreshIsUntouched, TypeOK, Goto
<1>2. CASE CreateRaises(c)
  BY <1>2, ReleaseSlotEffect
  DEF CreateRaises, HandOver, HandsSlotOver, SlotCoversWork
<1>3. CASE CreateTimesOut(c)
  BY <1>3 DEF CreateTimesOut, HandOver, HandsSlotOver, SlotCoversWork
<1>4. CASE SetupClose(c)
  BY <1>4, ReleaseSlotEffect DEF SetupClose
<1>5. CASE BeginCleanup(c)
  BY <1>5, ReleaseSlotEffect DEF BeginCleanup, FinishCleanup
<1>6. CASE CleanupClose(c)
  BY <1>6, ReleaseSlotEffect DEF CleanupClose, HandOver, HandsSlotOver
<1>7. CASE Cancel(c)
  BY <1>7, ReleaseSlotEffect
  DEF Cancel, HandOver, HandsSlotOver, SlotCoversWork
<1>8. CASE EnterSetup(c) \/ CreateReturns(c) \/ CreateReturnsNoUrl(c)
            \/ Attach(c) \/ CdpClosed(c) \/ LeaveReset(c)
  BY <1>8 DEF EnterSetup, CreateReturns, CreateReturnsNoUrl, Attach, CdpClosed,
              LeaveReset
<1> QED
  BY <1>1, <1>2, <1>3, <1>4, <1>5, <1>6, <1>7, <1>8 DEF CallStep

\* What a step of a background task does to the slots.
LEMMA TaskStepEffect ==
  ASSUME IInv, NEW c \in Calls, TaskStep(c)
  PROVE  TaskReturnsSlot(c) \/ UNCHANGED slotVars
<1> USE EndTaskEffect DEF IInv, Working
<1>1. CASE LateCreateEnds(c)
  BY <1>1 DEF LateCreateEnds
<1>2. CASE LateClose(c)
  BY <1>2 DEF LateClose
<1>3. CASE RetryClose(c)
  BY <1>3 DEF RetryClose, AttemptFails
<1>4. CASE DeleteOrphan(c)
  BY <1>4 DEF DeleteOrphan, AttemptFails
<1> QED
  BY <1>1, <1>2, <1>3, <1>4, TaskStep(c) DEF TaskStep

\* The provider, the create threads and the sweeper never touch a slot.
LEMMA OthersKeepSlots ==
  ASSUME NEW c \in Calls,
         \/ Allocate(c) \/ ProviderMoves(c) \/ ThreadEnds(c) \/ SweepDelete(c)
         \/ Sweep
  PROVE  UNCHANGED slotVars
BY DEF Allocate, ProviderMoves, ThreadEnds, SweepDelete, Sweep, SweepList,
       SweepCompare, SweepSleep
-----------------------------------------------------------------------------
(* Type correctness *)

LEMMA InitTypeOK == Init => TypeOK
BY SessionPoolAssumption DEF Init, TypeOK, Points, Outcomes, Sessions, Tasks

\* Whatever the page shows is active, whether the listing fits it or not.
LEMMA ListingIsActive == SweepList => listed' \subseteq ActiveSessions
BY DEF SweepList

LEMMA NextTypeOK == TypeOK /\ [Next]_vars => TypeOK'
<1> SUFFICES ASSUME TypeOK, [Next]_vars PROVE TypeOK'
  OBVIOUS
<1> USE SessionPoolAssumption
    DEF TypeOK, Points, Outcomes, Sessions, Tasks, Working, Goto, slotVars,
        callVars, taskVars, sweeperVars
<1>1. ASSUME NEW c \in Calls, EnterSetup(c) PROVE TypeOK'
  BY <1>1 DEF EnterSetup
<1>2. ASSUME NEW c \in Calls, CallStep(c) PROVE TypeOK'
  <2>1. CASE AcquireSlot(c)
    BY <2>1 DEF AcquireSlot
  <2>2. CASE CreateReturns(c) \/ CreateReturnsNoUrl(c) \/ Attach(c)
    BY <2>2 DEF CreateReturns, CreateReturnsNoUrl, Attach
  <2>3. CASE CreateRaises(c) \/ CreateTimesOut(c)
    BY <2>3 DEF CreateRaises, CreateTimesOut, HandOver, ReleaseSlot
  <2>4. CASE SetupClose(c)
    BY <2>4 DEF SetupClose, CloseConfirmed, CloseUnconfirmed, ReleaseSlot
  <2>5. CASE BeginCleanup(c)
    BY <2>5 DEF BeginCleanup, FinishCleanup, ReleaseSlot
  <2>6. CASE CdpClosed(c)
    BY <2>6 DEF CdpClosed
  <2>7. CASE CleanupClose(c)
    BY <2>7 DEF CleanupClose, CloseConfirmed, CloseUnconfirmed, ReleaseSlot,
                HandOver
  <2> QED
    BY <1>2, <2>1, <2>2, <2>3, <2>4, <2>5, <2>6, <2>7 DEF CallStep
<1>3. ASSUME NEW c \in Calls, LeaveReset(c) PROVE TypeOK'
  BY <1>3 DEF LeaveReset
<1>4. ASSUME NEW c \in Calls, Cancel(c) PROVE TypeOK'
  BY <1>4 DEF Cancel, HandOver, ReleaseSlot
<1>5. ASSUME NEW c \in Calls, TaskStep(c) PROVE TypeOK'
  <2>1. CASE LateCreateEnds(c)
    BY <2>1 DEF LateCreateEnds, EndTask
  <2>2. CASE LateClose(c)
    BY <2>2 DEF LateClose, CloseConfirmed, CloseUnconfirmed, EndTask
  <2>3. CASE RetryClose(c)
    BY <2>3 DEF RetryClose, CloseConfirmed, AttemptFails, EndTask
  <2>4. CASE DeleteOrphan(c)
    BY <2>4 DEF DeleteOrphan, CloseConfirmed, AttemptFails, EndTask
  <2> QED
    BY <1>5, <2>1, <2>2, <2>3, <2>4 DEF TaskStep
<1>6. ASSUME NEW c \in Calls,
             Allocate(c) \/ ProviderMoves(c) \/ ThreadEnds(c) \/ SweepDelete(c)
      PROVE TypeOK'
  BY <1>6 DEF Allocate, ProviderMoves, ThreadEnds, SweepDelete
<1>7. CASE Sweep
  <2>1. CASE SweepList
    BY <2>1, ListingIsActive DEF SweepList, ActiveSessions
  <2>2. CASE SweepCompare \/ SweepSleep
    BY <2>2 DEF SweepCompare, SweepSleep
  <2> QED
    BY <1>7, <2>1, <2>2 DEF Sweep
<1>8. CASE UNCHANGED vars
  BY <1>8 DEF vars
<1> QED
  BY <1>1, <1>2, <1>3, <1>4, <1>5, <1>6, <1>7, <1>8 DEF Next

\* Every variable of the pool keeps its type in every reachable state.
THEOREM TypeCorrect == Spec => []TypeOK
BY InitTypeOK, NextTypeOK, PTL DEF Spec

-----------------------------------------------------------------------------
(* The conjuncts of the inductive invariant, one lemma each *)

\* The step's effect on the slots, for every step.
LEMMA SlotEffect ==
  ASSUME IInv, [Next]_vars
  PROVE  \/ \E c \in Calls : \/ TakesSlot(c) \/ StateReturnsSlot(c)
                            \/ TaskReturnsSlot(c) \/ HandsSlotOver(c)
         \/ UNCHANGED slotVars
<1>1. ASSUME NEW c \in Calls,
             EnterSetup(c) \/ CallStep(c) \/ LeaveReset(c) \/ Cancel(c)
      PROVE  \/ TakesSlot(c) \/ StateReturnsSlot(c) \/ HandsSlotOver(c)
             \/ UNCHANGED slotVars
  BY <1>1, CallStepEffect
<1>2. ASSUME NEW c \in Calls, TaskStep(c)
      PROVE  TaskReturnsSlot(c) \/ UNCHANGED slotVars
  BY <1>2, TaskStepEffect
<1>3. ASSUME NEW c \in Calls,
             \/ Allocate(c) \/ ProviderMoves(c) \/ ThreadEnds(c)
             \/ SweepDelete(c)
      PROVE  UNCHANGED slotVars
  BY <1>3, OthersKeepSlots
<1>4. ASSUME Sweep PROVE UNCHANGED slotVars
  BY <1>4 DEF Sweep, SweepList, SweepCompare, SweepSleep
<1>5. UNCHANGED vars => UNCHANGED slotVars
  BY DEF vars
<1> QED
  BY <1>1, <1>2, <1>3, <1>4, <1>5 DEF Next

\* No step loses or invents a slot.
LEMMA QuotaStep ==
  ASSUME IInv, [Next]_vars PROVE QuotaConserved'
<1> USE DEF QuotaConserved
<1>1. IsFiniteSet(flagged) /\ IsFiniteSet(transferred)
  BY FS_Subset, SessionPoolAssumption DEF IInv, TypeOK
<1>2. Cardinality(flagged) \in Nat /\ Cardinality(transferred) \in Nat
  BY <1>1, FS_CardinalityType
<1>3. slots \in Nat /\ MaxConcurrent \in Nat
  BY SessionPoolAssumption DEF IInv, TypeOK
<1>4. ASSUME NEW c \in Calls, TakesSlot(c) PROVE QuotaConserved'
  <2>1. Cardinality(flagged') = Cardinality(flagged) + 1
    BY <1>1, <1>4, FS_AddElement DEF TakesSlot
  <2> QED
    BY <1>2, <1>3, <1>4, <2>1 DEF TakesSlot, IInv
<1>5. ASSUME NEW c \in Calls, StateReturnsSlot(c) PROVE QuotaConserved'
  <2>1. Cardinality(flagged') = Cardinality(flagged) - 1
    BY <1>1, <1>5, FS_RemoveElement DEF StateReturnsSlot
  <2> QED
    BY <1>2, <1>3, <1>5, <2>1 DEF StateReturnsSlot, IInv
<1>6. ASSUME NEW c \in Calls, TaskReturnsSlot(c) PROVE QuotaConserved'
  <2>1. Cardinality(transferred') = Cardinality(transferred) - 1
    BY <1>1, <1>6, FS_RemoveElement DEF TaskReturnsSlot
  <2> QED
    BY <1>2, <1>3, <1>6, <2>1 DEF TaskReturnsSlot, IInv
<1>7. ASSUME NEW c \in Calls, HandsSlotOver(c) PROVE QuotaConserved'
  <2>1. Cardinality(flagged') = Cardinality(flagged) - 1
    BY <1>1, <1>7, FS_RemoveElement DEF HandsSlotOver
  <2>2. Cardinality(transferred') = Cardinality(transferred) + 1
    BY <1>1, <1>7, FS_AddElement DEF HandsSlotOver, IInv
  <2> QED
    BY <1>2, <1>3, <1>7, <2>1, <2>2 DEF HandsSlotOver, IInv
<1>8. CASE UNCHANGED slotVars
  BY <1>8 DEF slotVars, IInv
<1> QED
  BY SlotEffect, <1>4, <1>5, <1>6, <1>7, <1>8

\* Work stays covered: a point that needs the flag is entered with it, and only
\* a task that starts receives a slot, only one that ends returns it.
LEMMA CoverStep ==
  ASSUME IInv, [Next]_vars PROVE SlotCoversWork'
<1> USE DEF IInv, TypeOK, SlotCoversWork, Working, Goto, slotVars, callVars,
            taskVars, Points, Tasks
<1>1. ASSUME NEW c \in Calls, EnterSetup(c) PROVE SlotCoversWork'
  BY <1>1 DEF EnterSetup
<1>2. ASSUME NEW c \in Calls, CallStep(c) PROVE SlotCoversWork'
  <2>1. CASE AcquireSlot(c)
    BY <2>1 DEF AcquireSlot
  <2>2. CASE CreateReturns(c) \/ CreateReturnsNoUrl(c) \/ Attach(c)
    BY <2>2 DEF CreateReturns, CreateReturnsNoUrl, Attach
  <2>3. CASE CreateRaises(c)
    BY <2>3 DEF CreateRaises, HandOver, ReleaseSlot
  <2>4. CASE CreateTimesOut(c)
    BY <2>4 DEF CreateTimesOut, HandOver
  <2>5. CASE SetupClose(c)
    BY <2>5 DEF SetupClose, ReleaseSlot
  <2>6. CASE BeginCleanup(c)
    BY <2>6 DEF BeginCleanup, FinishCleanup, ReleaseSlot
  <2>7. CASE CdpClosed(c)
    BY <2>7 DEF CdpClosed
  <2>8. CASE CleanupClose(c)
    BY <2>8 DEF CleanupClose, ReleaseSlot, HandOver
  <2> QED
    BY <1>2, <2>1, <2>2, <2>3, <2>4, <2>5, <2>6, <2>7, <2>8 DEF CallStep
<1>3. ASSUME NEW c \in Calls, LeaveReset(c) PROVE SlotCoversWork'
  BY <1>3 DEF LeaveReset
<1>4. ASSUME NEW c \in Calls, Cancel(c) PROVE SlotCoversWork'
  BY <1>4 DEF Cancel, HandOver, ReleaseSlot
<1>5. ASSUME NEW c \in Calls, TaskStep(c) PROVE SlotCoversWork'
  <2>1. CASE LateCreateEnds(c)
    BY <2>1 DEF LateCreateEnds, EndTask
  <2>2. CASE LateClose(c)
    BY <2>2 DEF LateClose, EndTask
  <2>3. CASE RetryClose(c)
    BY <2>3 DEF RetryClose, AttemptFails, EndTask
  <2>4. CASE DeleteOrphan(c)
    BY <2>4 DEF DeleteOrphan, AttemptFails, EndTask
  <2> QED
    BY <1>5, <2>1, <2>2, <2>3, <2>4 DEF TaskStep
<1>6. ASSUME NEW c \in Calls,
             Allocate(c) \/ ProviderMoves(c) \/ ThreadEnds(c) \/ SweepDelete(c)
      PROVE SlotCoversWork'
  BY <1>6 DEF Allocate, ProviderMoves, ThreadEnds, SweepDelete
<1>7. CASE Sweep
  BY <1>7 DEF Sweep, SweepList, SweepCompare, SweepSleep
<1>8. CASE UNCHANGED vars
  BY <1>8 DEF vars
<1> QED
  BY <1>1, <1>2, <1>3, <1>4, <1>5, <1>6, <1>7, <1>8 DEF Next

\* The conjuncts that protect owned sessions from the sweeper, in one name.
SweeperSafety ==
  /\ FreshIsUntouched
  /\ OwnedIsTracked
  /\ ListedTwiceIsNotCreating
  /\ SweeperSparesOwned

\* A call that works has no background task.
LEMMA WorkExcludesTask ==
  ASSUME IInv, NEW c \in Calls,
         pc[c] \in {"idle", "slot", "create", "attach", "ready"}
  PROVE  task[c] \notin Working
BY DEF IInv, SlotCoversWork, QuotaConserved, FreshIsUntouched

\* Steps of the calls preserve it.
LEMMA SweeperSafetyCall ==
  ASSUME IInv, NEW c \in Calls,
         EnterSetup(c) \/ CallStep(c) \/ LeaveReset(c) \/ Cancel(c)
  PROVE  SweeperSafety'
<1> USE DEF IInv, TypeOK, SweeperSafety, FreshIsUntouched, OwnedIsTracked,
            ListedTwiceIsNotCreating, SweeperSparesOwned, Goto, slotVars,
            taskVars, sweeperVars
<1>1. CASE EnterSetup(c)
  BY <1>1 DEF EnterSetup
<1>2. CASE AcquireSlot(c)
  BY <1>2 DEF AcquireSlot
<1>3. CASE CreateReturns(c) \/ CreateReturnsNoUrl(c) \/ Attach(c)
  BY <1>3 DEF CreateReturns, CreateReturnsNoUrl, Attach
<1>4. CASE CreateRaises(c) \/ CreateTimesOut(c)
  BY <1>4 DEF CreateRaises, CreateTimesOut, HandOver, ReleaseSlot
<1>5. CASE SetupClose(c)
  BY <1>5 DEF SetupClose, CloseConfirmed, CloseUnconfirmed, ReleaseSlot
<1>6. CASE BeginCleanup(c)
  BY <1>6 DEF BeginCleanup, FinishCleanup, ReleaseSlot
<1>7. CASE CdpClosed(c)
  BY <1>7 DEF CdpClosed
<1>8. CASE CleanupClose(c)
  BY <1>8 DEF CleanupClose, CloseConfirmed, CloseUnconfirmed, ReleaseSlot, HandOver
<1>9. CASE LeaveReset(c)
  BY <1>9 DEF LeaveReset
<1>10. CASE Cancel(c)
  BY <1>10 DEF Cancel, HandOver, ReleaseSlot
<1> QED
  BY <1>1, <1>2, <1>3, <1>4, <1>5, <1>6, <1>7, <1>8, <1>9, <1>10 DEF CallStep

\* Steps of the background tasks preserve it: they never untrack the session of
\* a call that still works.
LEMMA SweeperSafetyTask ==
  ASSUME IInv, NEW c \in Calls, TaskStep(c) PROVE SweeperSafety'
<1> USE DEF IInv, TypeOK, SweeperSafety, FreshIsUntouched, OwnedIsTracked,
            ListedTwiceIsNotCreating, SweeperSparesOwned, slotVars, callVars,
            sweeperVars
<1>0. task[c] \in Working
  BY TaskStep(c) DEF TaskStep, LateCreateEnds, LateClose, RetryClose,
                     DeleteOrphan, Working
<1>1. pc[c] \notin {"idle", "slot", "create", "attach", "ready"}
  BY <1>0, WorkExcludesTask
<1>2. CASE LateCreateEnds(c)
  BY <1>2 DEF LateCreateEnds, EndTask
<1>3. CASE LateClose(c)
  BY <1>1, <1>3 DEF LateClose, CloseConfirmed, CloseUnconfirmed, EndTask
<1>4. CASE RetryClose(c)
  BY <1>1, <1>4 DEF RetryClose, CloseConfirmed, AttemptFails, EndTask
<1>5. CASE DeleteOrphan(c)
  BY <1>1, <1>5 DEF DeleteOrphan, CloseConfirmed, AttemptFails, EndTask
<1> QED
  BY <1>2, <1>3, <1>4, <1>5, TaskStep(c) DEF TaskStep

\* So do the provider, the create threads and the sweeper itself: this is where
\* the two sightings and the comparison with the live set count.
LEMMA SweeperSafetyOther ==
  ASSUME IInv, NEW c \in Calls,
         \/ Allocate(c) \/ ProviderMoves(c) \/ ThreadEnds(c) \/ SweepDelete(c)
         \/ Sweep
  PROVE  SweeperSafety'
<1> USE DEF IInv, TypeOK, SweeperSafety, FreshIsUntouched, OwnedIsTracked,
            ListedTwiceIsNotCreating, SweeperSparesOwned, slotVars, callVars,
            taskVars
<1>1. CASE Allocate(c)
  BY <1>1 DEF Allocate, sweeperVars
<1>2. CASE ProviderMoves(c)
  BY <1>2 DEF ProviderMoves, sweeperVars
<1>3. CASE ThreadEnds(c)
  BY <1>3 DEF ThreadEnds, sweeperVars
<1>4. CASE SweepDelete(c)
  BY <1>4 DEF SweepDelete
<1>5. CASE SweepList
  BY <1>5, ListingIsActive DEF SweepList, GraceHolds, ActiveSessions
<1>6. CASE SweepCompare
  BY <1>6 DEF SweepCompare, Points
<1>7. CASE SweepSleep
  BY <1>7 DEF SweepSleep
<1> QED
  BY <1>1, <1>2, <1>3, <1>4, <1>5, <1>6, <1>7 DEF Sweep

-----------------------------------------------------------------------------
(* The invariance theorems *)

LEMMA InitIInv == Init => IInv
<1> SUFFICES ASSUME Init PROVE IInv
  OBVIOUS
<1>1. QuotaConserved
  BY FS_EmptySet, SessionPoolAssumption DEF Init, QuotaConserved
<1>2. SlotCoversWork /\ FreshIsUntouched /\ OwnedIsTracked
      /\ ListedTwiceIsNotCreating /\ SweeperSparesOwned
  BY DEF Init, SlotCoversWork, Working, FreshIsUntouched, OwnedIsTracked,
         ListedTwiceIsNotCreating, SweeperSparesOwned
<1> QED
  BY <1>1, <1>2, InitTypeOK DEF IInv

LEMMA NextIInv == IInv /\ [Next]_vars => IInv'
<1> SUFFICES ASSUME IInv, [Next]_vars PROVE IInv'
  OBVIOUS
<1>1. TypeOK'
  BY NextTypeOK DEF IInv
<1>2. QuotaConserved' /\ SlotCoversWork'
  BY QuotaStep, CoverStep
<1>3. SweeperSafety'
  <2>1. ASSUME NEW c \in Calls,
               EnterSetup(c) \/ CallStep(c) \/ LeaveReset(c) \/ Cancel(c)
        PROVE SweeperSafety'
    BY <2>1, SweeperSafetyCall
  <2>2. ASSUME NEW c \in Calls, TaskStep(c) PROVE SweeperSafety'
    BY <2>2, SweeperSafetyTask
  <2>3. ASSUME NEW c \in Calls,
               \/ Allocate(c) \/ ProviderMoves(c) \/ ThreadEnds(c)
               \/ SweepDelete(c)
        PROVE SweeperSafety'
    BY <2>3, SweeperSafetyOther
  <2>4. ASSUME Sweep PROVE SweeperSafety'
    <3>1. CASE Calls = {}
      BY <2>4, <3>1 DEF IInv, TypeOK, Sweep, SweepList, SweepCompare, SweepSleep,
         SweeperSafety, FreshIsUntouched, OwnedIsTracked,
         ListedTwiceIsNotCreating, SweeperSparesOwned
    <3>2. CASE Calls # {}
      BY <2>4, <3>2, SweeperSafetyOther
    <3> QED
      BY <3>1, <3>2
  <2>5. CASE UNCHANGED vars
    BY <2>5 DEF vars, slotVars, callVars, sweeperVars, IInv, SweeperSafety,
       FreshIsUntouched, OwnedIsTracked, ListedTwiceIsNotCreating,
       SweeperSparesOwned
  <2> QED
    BY <2>1, <2>2, <2>3, <2>4, <2>5 DEF Next
<1> QED
  BY <1>1, <1>2, <1>3 DEF IInv, SweeperSafety

LEMMA Invariance == Spec => []IInv
BY InitIInv, NextIInv, PTL DEF Spec

\* No path of setup, cleanup, cancellation or background work loses a slot or
\* returns one twice, whatever the quota and the number of calls.
THEOREM QuotaIsConserved == Spec => []QuotaConserved
BY Invariance, PTL DEF IInv

\* Creating, attaching and using a session is always covered by a slot, and a
\* background task owns a slot exactly while it works.
THEOREM WorkIsCovered == Spec => []SlotCoversWork
BY Invariance, PTL DEF IInv

\* The orphan sweeper never condemns a session that a call creates or uses.
THEOREM OwnedAreSpared == Spec => []SweeperSparesOwned
BY Invariance, PTL DEF IInv

-----------------------------------------------------------------------------
(* When every close is confirmed *)

\* The provider answers every request and no reset is cancelled.
Reliable == Faults = {} /\ ~BudgetExpires

\* A session that the provider shows is paid for with a slot.
VisibleHoldsSlot ==
  \A c \in Calls : provider[c] \in {"creating", "active"} => c \in flagged \cup transferred

\* A setup that raised has released its slot or handed it over.
RaisedHoldsNone == \A c \in Calls : pc[c] = "raised" => c \notin flagged

\* A create under way is waited for by its call, or by the late-cleanup task.
RunningIsAwaited ==
  \A c \in Calls : thread[c] = "running" => pc[c] = "create" \/ task[c] = "late"

\* An error that names no session leaves none.
ErrorLeavesNothing == \A c \in Calls : thread[c] = "error" => provider[c] \in {"none", "gone"}

BoundInv == VisibleHoldsSlot /\ RaisedHoldsNone /\ RunningIsAwaited /\ ErrorLeavesNothing

LEMMA BoundInit == Init => BoundInv
BY DEF Init, BoundInv, VisibleHoldsSlot, RaisedHoldsNone, RunningIsAwaited, ErrorLeavesNothing

\* Every release of a slot finds the session gone, or never there.
LEMMA BoundCall ==
  ASSUME IInv, BoundInv, Reliable, NEW c \in Calls,
         EnterSetup(c) \/ CallStep(c) \/ LeaveReset(c) \/ Cancel(c)
  PROVE  BoundInv'
<1> USE DEF IInv, TypeOK, Reliable, BoundInv, VisibleHoldsSlot, RaisedHoldsNone,
            RunningIsAwaited, ErrorLeavesNothing, Goto, slotVars, taskVars
<1>1. CASE EnterSetup(c)
  BY <1>1 DEF EnterSetup
<1>2. CASE AcquireSlot(c)
  BY <1>2 DEF AcquireSlot
<1>3. CASE CreateReturns(c) \/ CreateReturnsNoUrl(c) \/ Attach(c)
  BY <1>3 DEF CreateReturns, CreateReturnsNoUrl, Attach
<1>4. CASE CreateRaises(c)
  BY <1>4 DEF CreateRaises, HandOver, ReleaseSlot
<1>5. CASE CreateTimesOut(c)
  BY <1>5 DEF CreateTimesOut, HandOver
<1>6. CASE SetupClose(c)
  BY <1>6 DEF SetupClose, CloseConfirmed, CloseUnconfirmed, ReleaseSlot
<1>7. CASE BeginCleanup(c)
  BY <1>7 DEF BeginCleanup, FinishCleanup, ReleaseSlot
<1>8. CASE CdpClosed(c)
  BY <1>8 DEF CdpClosed
<1>9. CASE CleanupClose(c)
  <2>0. pc' = [pc EXCEPT ![c] = "done"] /\ UNCHANGED thread
    BY <1>9 DEF CleanupClose
  <2>1. CASE CloseConfirmed(c) /\ ReleaseSlot(c) /\ UNCHANGED taskVars
    BY <2>0, <2>1, <1>9 DEF CleanupClose, CloseConfirmed, ReleaseSlot
  <2>2. CASE CloseUnconfirmed(c) /\ c \in flagged /\ HandOver(c, "retry")
    <3>1. task[c] # "late"
      BY <2>2 DEF SlotCoversWork, QuotaConserved, Working
    <3> QED  BY <2>0, <2>2, <3>1, <1>9 DEF CleanupClose, CloseUnconfirmed, HandOver
  <2>3. CASE CloseUnconfirmed(c) /\ UNCHANGED <<slotVars, taskVars>>
    BY <2>0, <2>3, <1>9 DEF CleanupClose, CloseUnconfirmed
  <2> QED  BY <2>1, <2>2, <2>3, <1>9 DEF CleanupClose
<1>10. CASE LeaveReset(c)
  BY <1>10 DEF LeaveReset
<1>11. CASE Cancel(c)
  BY <1>11 DEF Cancel
<1> QED
  BY <1>1, <1>2, <1>3, <1>4, <1>5, <1>6, <1>7, <1>8, <1>9, <1>10, <1>11 DEF CallStep

LEMMA BoundTask ==
  ASSUME IInv, BoundInv, Reliable, NEW c \in Calls, TaskStep(c)
  PROVE  BoundInv'
<1> USE DEF IInv, TypeOK, Reliable, BoundInv, VisibleHoldsSlot, RaisedHoldsNone,
            RunningIsAwaited, ErrorLeavesNothing, slotVars, callVars
<1>1. CASE LateCreateEnds(c)
  BY <1>1 DEF LateCreateEnds, EndTask
<1>2. CASE LateClose(c)
  BY <1>2 DEF LateClose, CloseConfirmed, CloseUnconfirmed, EndTask
<1>3. CASE RetryClose(c)
  BY <1>3 DEF RetryClose, CloseConfirmed, AttemptFails, EndTask
<1>4. CASE DeleteOrphan(c)
  BY <1>4 DEF DeleteOrphan, CloseConfirmed, EndTask
<1> QED
  BY <1>1, <1>2, <1>3, <1>4, TaskStep(c) DEF TaskStep

\* The provider shows a session only while its create runs, under a slot.
LEMMA BoundOther ==
  ASSUME IInv, BoundInv, Reliable, NEW c \in Calls,
         Allocate(c) \/ ProviderMoves(c) \/ ThreadEnds(c) \/ SweepDelete(c)
  PROVE  BoundInv'
<1> USE DEF IInv, TypeOK, Reliable, BoundInv, VisibleHoldsSlot, RaisedHoldsNone,
            RunningIsAwaited, ErrorLeavesNothing, slotVars, callVars, taskVars
<1>1. CASE Allocate(c)
  <2>1. c \in flagged \cup transferred
    BY <1>1 DEF Allocate, SlotCoversWork, Working
  <2> QED  BY <1>1, <2>1 DEF Allocate
<1>2. CASE ProviderMoves(c)
  BY <1>2 DEF ProviderMoves
<1>3. CASE ThreadEnds(c)
  BY <1>3 DEF ThreadEnds
<1>4. CASE SweepDelete(c)
  BY <1>4 DEF SweepDelete
<1> QED
  BY <1>1, <1>2, <1>3, <1>4

LEMMA BoundStep ==
  ASSUME Reliable
  PROVE  IInv /\ BoundInv /\ [Next]_vars => BoundInv'
<1> SUFFICES ASSUME IInv, BoundInv, [Next]_vars PROVE BoundInv'
  OBVIOUS
<1>1. ASSUME NEW c \in Calls, EnterSetup(c) \/ CallStep(c) \/ LeaveReset(c) \/ Cancel(c)
      PROVE  BoundInv'
  BY <1>1, BoundCall
<1>2. ASSUME NEW c \in Calls, TaskStep(c) PROVE BoundInv'
  BY <1>2, BoundTask
<1>3. ASSUME NEW c \in Calls,
             Allocate(c) \/ ProviderMoves(c) \/ ThreadEnds(c) \/ SweepDelete(c)
      PROVE  BoundInv'
  BY <1>3, BoundOther
<1>4. CASE Sweep
  BY <1>4 DEF Sweep, SweepList, SweepCompare, SweepSleep, BoundInv, VisibleHoldsSlot,
              RaisedHoldsNone, RunningIsAwaited, ErrorLeavesNothing, slotVars, callVars, taskVars
<1>5. CASE UNCHANGED vars
  BY <1>5 DEF vars, BoundInv, VisibleHoldsSlot, RaisedHoldsNone, RunningIsAwaited,
              ErrorLeavesNothing, slotVars, callVars, taskVars
<1> QED
  BY <1>1, <1>2, <1>3, <1>4, <1>5 DEF Next

\* No more sessions are shown than slots are taken.
LEMMA BoundFollows == IInv /\ BoundInv => ProviderBound
<1> SUFFICES ASSUME IInv, BoundInv PROVE ProviderBound
  OBVIOUS
<1>1. Visible \subseteq flagged \cup transferred
  BY DEF BoundInv, VisibleHoldsSlot, Visible
<1>2. IsFiniteSet(flagged) /\ IsFiniteSet(transferred)
  BY FS_Subset, SessionPoolAssumption DEF IInv, TypeOK
<1>3. /\ IsFiniteSet(flagged \cup transferred)
      /\ Cardinality(flagged \cup transferred) =
           Cardinality(flagged) + Cardinality(transferred) - Cardinality(flagged \cap transferred)
  BY <1>2, FS_Union
<1>4. Cardinality(flagged \cap transferred) = 0
  BY FS_EmptySet DEF IInv, QuotaConserved
<1>5. Cardinality(Visible) <= Cardinality(flagged \cup transferred)
  BY <1>1, <1>3, FS_Subset
<1>6. /\ Cardinality(flagged) \in Nat /\ Cardinality(transferred) \in Nat
      /\ Cardinality(Visible) \in Nat /\ Cardinality(flagged \cup transferred) \in Nat
  BY <1>1, <1>2, <1>3, FS_Subset, FS_CardinalityType
<1>7. slots \in Nat /\ slots + Cardinality(flagged) + Cardinality(transferred) = MaxConcurrent
  BY DEF IInv, TypeOK, QuotaConserved
<1> QED
  BY <1>3, <1>4, <1>5, <1>6, <1>7, SessionPoolAssumption DEF ProviderBound

\* README, session lifecycle: where the provider answers every request and no
\* reset is cancelled, the sessions it shows never exceed
\* LEXMOUNT_MAX_CONCURRENT_SESSIONS, for every number of calls and every quota.
\* The sweeper, late creates and background closes are part of it.
THEOREM ProviderStaysBounded ==
  ASSUME Reliable
  PROVE  Spec => []ProviderBound
<1>1. IInv /\ BoundInv /\ [Next]_vars => BoundInv'
  BY BoundStep
<1>2. Spec => []BoundInv
  BY <1>1, BoundInit, Invariance, PTL DEF Spec
<1> QED  BY <1>2, Invariance, BoundFollows, PTL

-----------------------------------------------------------------------------
(* When every close is confirmed, but creates may fail *)

\* Closes succeed and no reset is cancelled; the answer to a create may be lost.
ClosesSucceed == "close" \notin Faults /\ ~BudgetExpires

\* Somebody will act on a tracked session, unless it is gone.
LiveIsResponsible ==
  \A c \in Calls : c \in live => Responsible(c) \/ provider[c] = "gone"

\* A session is tracked only when its create has answered.
UnknownIsUntracked ==
  \A c \in Calls : pc[c] \in {"idle", "slot", "create"} \/ task[c] = "late" => c \notin live

TrackInv == LiveIsResponsible /\ UnknownIsUntracked

LEMMA TrackInit == Init => TrackInv
BY DEF Init, TrackInv, LiveIsResponsible, UnknownIsUntracked

LEMMA TrackCall ==
  ASSUME IInv, TrackInv, ClosesSucceed, NEW c \in Calls,
         EnterSetup(c) \/ CallStep(c) \/ LeaveReset(c) \/ Cancel(c)
  PROVE  TrackInv'
<1> USE DEF IInv, TypeOK, ClosesSucceed, TrackInv, LiveIsResponsible, UnknownIsUntracked,
            Responsible, Working, Goto, slotVars, taskVars
<1>1. CASE EnterSetup(c)
  BY <1>1 DEF EnterSetup
<1>2. CASE AcquireSlot(c)
  BY <1>2 DEF AcquireSlot
<1>3. CASE CreateReturns(c)
  <2>1. task[c] \notin Working
    BY <1>3, WorkExcludesTask DEF CreateReturns
  <2> QED  BY <1>3, <2>1 DEF CreateReturns
<1>4. CASE CreateReturnsNoUrl(c) \/ Attach(c)
  BY <1>4 DEF CreateReturnsNoUrl, Attach
<1>5. CASE CreateRaises(c)
  BY <1>5 DEF CreateRaises, HandOver, ReleaseSlot
<1>6. CASE CreateTimesOut(c)
  BY <1>6 DEF CreateTimesOut, HandOver
<1>7. CASE SetupClose(c)
  BY <1>7 DEF SetupClose, CloseConfirmed, CloseUnconfirmed, ReleaseSlot
<1>8. CASE BeginCleanup(c)
  BY <1>8 DEF BeginCleanup, FinishCleanup, ReleaseSlot
<1>9. CASE CdpClosed(c)
  BY <1>9 DEF CdpClosed
<1>10. CASE CleanupClose(c)
  BY <1>10 DEF CleanupClose, CloseConfirmed, CloseUnconfirmed, ReleaseSlot, HandOver
<1>11. CASE LeaveReset(c)
  BY <1>11 DEF LeaveReset
<1>12. CASE Cancel(c)
  BY <1>12 DEF Cancel
<1> QED
  BY <1>1, <1>2, <1>3, <1>4, <1>5, <1>6, <1>7, <1>8, <1>9, <1>10, <1>11, <1>12 DEF CallStep

LEMMA TrackTask ==
  ASSUME IInv, TrackInv, ClosesSucceed, NEW c \in Calls, TaskStep(c)
  PROVE  TrackInv'
<1> USE DEF IInv, TypeOK, ClosesSucceed, TrackInv, LiveIsResponsible, UnknownIsUntracked,
            Responsible, Working, slotVars, callVars
<1>0. pc[c] \notin {"idle", "slot", "create"}
  BY WorkExcludesTask, TaskStep(c)
  DEF TaskStep, LateCreateEnds, LateClose, RetryClose, DeleteOrphan
<1>1. CASE LateCreateEnds(c)
  BY <1>0, <1>1 DEF LateCreateEnds, EndTask
<1>2. CASE LateClose(c)
  BY <1>0, <1>2 DEF LateClose, CloseConfirmed, CloseUnconfirmed, EndTask
<1>3. CASE RetryClose(c)
  BY <1>0, <1>3 DEF RetryClose, CloseConfirmed, AttemptFails, EndTask
<1>4. CASE DeleteOrphan(c)
  BY <1>0, <1>4 DEF DeleteOrphan, CloseConfirmed, EndTask
<1> QED
  BY <1>1, <1>2, <1>3, <1>4, TaskStep(c) DEF TaskStep

LEMMA TrackOther ==
  ASSUME IInv, TrackInv, NEW c \in Calls,
         Allocate(c) \/ ProviderMoves(c) \/ ThreadEnds(c) \/ SweepDelete(c)
  PROVE  TrackInv'
<1> USE DEF IInv, TypeOK, TrackInv, LiveIsResponsible, UnknownIsUntracked,
            Responsible, callVars, taskVars
<1>1. CASE Allocate(c)
  BY <1>1 DEF Allocate
<1>2. CASE ProviderMoves(c)
  BY <1>2 DEF ProviderMoves
<1>3. CASE ThreadEnds(c)
  BY <1>3 DEF ThreadEnds
<1>4. CASE SweepDelete(c)
  BY <1>4 DEF SweepDelete
<1> QED
  BY <1>1, <1>2, <1>3, <1>4

LEMMA TrackStep ==
  ASSUME ClosesSucceed
  PROVE  IInv /\ TrackInv /\ [Next]_vars => TrackInv'
<1> SUFFICES ASSUME IInv, TrackInv, [Next]_vars PROVE TrackInv'
  OBVIOUS
<1>1. ASSUME NEW c \in Calls, EnterSetup(c) \/ CallStep(c) \/ LeaveReset(c) \/ Cancel(c)
      PROVE  TrackInv'
  BY <1>1, TrackCall
<1>2. ASSUME NEW c \in Calls, TaskStep(c) PROVE TrackInv'
  BY <1>2, TrackTask
<1>3. ASSUME NEW c \in Calls,
             Allocate(c) \/ ProviderMoves(c) \/ ThreadEnds(c) \/ SweepDelete(c)
      PROVE  TrackInv'
  BY <1>3, TrackOther
<1>4. CASE Sweep
  BY <1>4 DEF Sweep, SweepList, SweepCompare, SweepSleep, TrackInv, LiveIsResponsible,
              UnknownIsUntracked, Responsible, callVars, taskVars
<1>5. CASE UNCHANGED vars
  BY <1>5 DEF vars, TrackInv, LiveIsResponsible, UnknownIsUntracked, Responsible,
              callVars, taskVars
<1> QED
  BY <1>1, <1>2, <1>3, <1>4, <1>5 DEF Next

\* Where closes succeed and no reset is cancelled, a session that nobody acts on
\* any more is not claimed as live, so that the sweeper can see it: also when the
\* answer to its create was lost.
THEOREM AbandonedAreReclaimable ==
  ASSUME ClosesSucceed
  PROVE  Spec => []AbandonedIsReclaimable
<1>1. IInv /\ TrackInv /\ [Next]_vars => TrackInv'
  BY TrackStep
<1>2. Spec => []TrackInv
  BY <1>1, TrackInit, Invariance, PTL DEF Spec
<1>3. TrackInv => AbandonedIsReclaimable
  BY DEF TrackInv, LiveIsResponsible, AbandonedIsReclaimable
<1> QED  BY <1>2, <1>3, PTL

-----------------------------------------------------------------------------
(* The pool implements the abstract slot pool *)

LEMMA PoolInitMaps == Init => Pool!PoolInit
BY DEF Init, Pool!PoolInit

\* The calls that have left the queue.
Left == {c \in Calls : pc[c] \notin {"idle", "slot"}}

\* A call leaves the queue by acquiring a slot or by being cancelled there.
LEMMA QueueEffect ==
  ASSUME IInv, [Next]_vars
  PROVE  \/ \E c \in Calls : AcquireSlot(c)
         \/ \E c \in Calls : /\ c \notin Left
                            /\ Left' = Left \cup {c}
                            /\ UNCHANGED slotVars
         \/ Left' = Left
<1> USE DEF IInv, TypeOK, Left, Goto, callVars
<1>1. ASSUME NEW c \in Calls, EnterSetup(c) \/ LeaveReset(c) PROVE Left' = Left
  BY <1>1 DEF EnterSetup, LeaveReset
<1>2. ASSUME NEW c \in Calls, CallStep(c)
      PROVE  AcquireSlot(c) \/ Left' = Left
  BY <1>2 DEF CallStep, CreateReturns, CreateReturnsNoUrl, CreateRaises,
     CreateTimesOut, Attach, SetupClose, BeginCleanup, FinishCleanup, CdpClosed,
     CleanupClose
<1>3. ASSUME NEW c \in Calls, Cancel(c)
      PROVE  \/ /\ c \notin Left
                /\ Left' = Left \cup {c}
                /\ UNCHANGED slotVars
             \/ Left' = Left
  <2>1. CASE pc[c] = "slot"
    BY <1>3, <2>1 DEF Cancel
  <2>2. CASE pc[c] # "slot"
    BY <1>3, <2>2 DEF Cancel
  <2> QED
    BY <2>1, <2>2
<1>4. ASSUME NEW c \in Calls,
             \/ TaskStep(c) \/ Allocate(c) \/ ProviderMoves(c) \/ ThreadEnds(c)
             \/ SweepDelete(c) \/ Sweep
      PROVE  Left' = Left
  BY <1>4 DEF TaskStep, LateCreateEnds, LateClose, RetryClose, DeleteOrphan,
     Allocate, ProviderMoves, ThreadEnds, SweepDelete, Sweep, SweepList,
     SweepCompare, SweepSleep
<1>5. ASSUME Sweep \/ UNCHANGED vars PROVE Left' = Left
  BY <1>5 DEF vars, Sweep, SweepList, SweepCompare, SweepSleep
<1> QED
  BY <1>1, <1>2, <1>3, <1>4, <1>5 DEF Next

\* Taking, returning and giving up map to the abstract steps; a hand-over from
\* a state to a task leaves the abstract pool as it is.
LEMMA PoolStepMaps ==
  ASSUME IInv, [Next]_vars PROVE [Pool!PoolNext]_(Pool!slotVars)
<1> DEFINE Held  == flagged \cup transferred
           Spent == Left \ Held
<1> USE DEF Pool!slotVars, Pool!PoolNext, Left
<1>0. \A c \in Calls : c \in Held => c \in Left
  BY DEF IInv, FreshIsUntouched
<1>1. ASSUME NEW c \in Calls, AcquireSlot(c) PROVE Pool!Take(c)
  BY <1>1 DEF AcquireSlot, Goto, IInv, TypeOK, FreshIsUntouched, Pool!Take
<1>2. ASSUME NEW c \in Calls, c \notin Left, Left' = Left \cup {c},
             UNCHANGED slotVars
      PROVE  Pool!GiveUp(c)
  BY <1>0, <1>2 DEF slotVars, Pool!GiveUp
<1>3. ASSUME Left' = Left PROVE [Pool!PoolNext]_(Pool!slotVars)
  <2>1. ASSUME NEW c \in Calls, StateReturnsSlot(c) \/ TaskReturnsSlot(c)
        PROVE  Pool!Give(c)
    BY <1>0, <1>3, <2>1 DEF StateReturnsSlot, TaskReturnsSlot, Pool!Give, IInv,
       TypeOK, QuotaConserved
  <2>2. ASSUME NEW c \in Calls, HandsSlotOver(c) PROVE UNCHANGED Pool!slotVars
    BY <1>3, <2>2 DEF HandsSlotOver
  <2>3. ASSUME NEW c \in Calls PROVE ~TakesSlot(c)
    BY <1>3 DEF TakesSlot
  <2>4. CASE UNCHANGED slotVars
    BY <1>3, <2>4 DEF slotVars
  <2> QED
    BY <2>1, <2>2, <2>3, <2>4, <1>3, SlotEffect
<1> QED
  BY <1>1, <1>2, <1>3, QueueEffect

\* The pool of slots that setup_state, cleanup_session and the background tasks
\* share behaves as one semaphore with at most one slot per call.
THEOREM PoolImplementsSlotPool == Spec => ImplementsPool
<1>1. Init => Pool!PoolInit
  BY PoolInitMaps
<1>2. IInv /\ [Next]_vars => [Pool!PoolNext]_(Pool!slotVars)
  BY PoolStepMaps
<1> QED
  BY <1>1, <1>2, Invariance, PTL DEF Spec, ImplementsPool, Pool!PoolSpec
=============================================================================
