---------------------------- MODULE SessionPool ----------------------------
(***************************************************************************)
(* The provider-session pool of the training service: LexmountDOMMode      *)
(* (setup_state, cleanup_session, the background close and delete tasks,   *)
(* the orphan sweeper) with the reset handler that calls it.               *)
(*                                                                         *)
(* A call c is one setup_state invocation and the state dict it fills: the *)
(* reset handler builds a fresh dict per attempt, so a call creates at     *)
(* most one provider session and takes at most one slot.  The event loop   *)
(* is single-threaded: an action runs from one await to the next.  The     *)
(* SDK's create runs in a worker thread that asyncio cannot cancel.        *)
(***************************************************************************)
EXTENDS Naturals, FiniteSets

CONSTANTS
  Calls,          \* the setup_state calls
  MaxConcurrent,  \* LEXMOUNT_MAX_CONCURRENT_SESSIONS
  Attempts,       \* attempts=3 of the delete and close retries
  PageSize,       \* sessions on the one page of sessions.list that is read
  Faults,         \* provider requests that may fail or lose their answer
  BudgetExpires   \* may the reset budget cancel a call

ASSUME SessionPoolAssumption ==
  /\ IsFiniteSet(Calls)
  /\ MaxConcurrent \in Nat \ {0}
  /\ Attempts \in Nat \ {0}
  /\ PageSize \in Nat \ {0}
  /\ Faults \subseteq {"create", "close"}
  /\ BudgetExpires \in BOOLEAN

VARIABLES
  slots,        \* value of self._slots
  flagged,      \* calls whose state has lexbrowser_slot_acquired
  transferred,  \* calls whose slot a background task will release
  pc,           \* await at which each call's task stands
  inReset,      \* calls still inside the reset's asyncio.timeout block
  inState,      \* calls whose state holds lexmount_session
  thread,       \* the create thread: its outcome
  provider,     \* the session at the provider
  live,         \* self._live_session_ids
  task,         \* the call's background task
  tries,        \* attempts its retry loop has used
  candidates,   \* self._sweeper_candidates
  sweep,        \* await at which the sweeper stands
  listed,       \* the listing its thread returned
  orphans       \* confirmed_orphans it has yet to delete

callVars    == <<pc, inReset, inState>>
slotVars    == <<slots, flagged, transferred>>
sweeperVars == <<candidates, sweep, listed, orphans>>
taskVars    == <<task, tries>>
vars == <<slotVars, callVars, thread, provider, live, taskVars, sweeperVars>>

Points   == {"idle", "slot", "create", "attach", "setup_close", "raised",
             "ready", "cdp_close", "close", "done"}
Outcomes == {"none", "running", "ok", "error_id", "error"}
Sessions == {"none", "creating", "active", "gone"}
Working  == {"late", "late_close", "orphan", "retry"}
Tasks    == Working \cup {"none", "over", "leaked"}

TypeOK ==
  /\ slots \in Nat
  /\ flagged \subseteq Calls
  /\ transferred \subseteq Calls
  /\ pc \in [Calls -> Points]
  /\ inReset \subseteq Calls
  /\ inState \subseteq Calls
  /\ thread \in [Calls -> Outcomes]
  /\ provider \in [Calls -> Sessions]
  /\ live \subseteq Calls
  /\ task \in [Calls -> Tasks]
  /\ tries \in [Calls -> 0..(Attempts - 1)]
  /\ candidates \subseteq Calls
  /\ sweep \in {"asleep", "listing", "deleting"}
  /\ listed \subseteq Calls
  /\ orphans \subseteq Calls

Init ==
  /\ slots = MaxConcurrent
  /\ flagged = {}
  /\ transferred = {}
  /\ pc = [c \in Calls |-> "idle"]
  /\ inReset = Calls
  /\ inState = {}
  /\ thread = [c \in Calls |-> "none"]
  /\ provider = [c \in Calls |-> "none"]
  /\ live = {}
  /\ task = [c \in Calls |-> "none"]
  /\ tries = [c \in Calls |-> 0]
  /\ candidates = {}
  /\ sweep = "asleep"
  /\ listed = {}
  /\ orphans = {}

-----------------------------------------------------------------------------
(* Slots and provider answers *)

Goto(c, point) == pc' = [pc EXCEPT ![c] = point]

\* Mutant: the flag is not tested, a slot can be returned twice.
ReleaseSlotTwice(c) ==
  /\ slots' = slots + 1
  /\ flagged' = flagged \ {c}
  /\ UNCHANGED transferred

\* _release_slot: returns the slot only if the state still carries the flag.
ReleaseSlot(c) ==
  /\ slots' = IF c \in flagged THEN slots + 1 ELSE slots
  /\ flagged' = flagged \ {c}
  /\ UNCHANGED transferred

\* Mutant: the flag is read but stays in the state.
HandOverKeepsFlag(c, kind) ==
  /\ flagged' = flagged
  /\ transferred' = IF c \in flagged THEN transferred \cup {c} ELSE transferred
  /\ task' = [task EXCEPT ![c] = kind]
  /\ UNCHANGED <<slots, tries>>

\* A background task takes over the slot with the flag, and starts.
HandOver(c, kind) ==
  /\ flagged' = flagged \ {c}
  /\ transferred' = IF c \in flagged THEN transferred \cup {c} ELSE transferred
  /\ task' = [task EXCEPT ![c] = kind]
  /\ UNCHANGED <<slots, tries>>

\* Mutant: the slot is released only on success, not in a finally.
EndTaskNoFinally(c, how) ==
  /\ task' = [task EXCEPT ![c] = how]
  /\ slots' = IF c \in transferred /\ how = "over" THEN slots + 1 ELSE slots
  /\ transferred' = IF how = "over" THEN transferred \ {c} ELSE transferred
  /\ UNCHANGED <<flagged, tries>>

\* The finally of a background task: it ends and returns the slot it owns.
EndTask(c, how) ==
  /\ task' = [task EXCEPT ![c] = how]
  /\ slots' = IF c \in transferred THEN slots + 1 ELSE slots
  /\ transferred' = transferred \ {c}
  /\ UNCHANGED <<flagged, tries>>

\* _close_lexmount_session: close, then delete, each for at most 30 seconds.
\* Confirmed, the session is gone and untracked.  It stays unconfirmed when
\* both requests fail; both also raise for a session that is already gone
\* (delete: SessionNotFoundError), which this function counts as a failure.
CloseConfirmed(c) ==
  /\ provider' = [provider EXCEPT ![c] = "gone"]
  /\ live' = live \ {c}

CloseUnconfirmed(c) ==
  /\ "close" \in Faults \/ provider[c] = "gone"
  /\ UNCHANGED <<provider, live>>

-----------------------------------------------------------------------------
(* setup_state *)

\* setup_state queues for a slot.
EnterSetup(c) ==
  /\ pc[c] = "idle"
  /\ Goto(c, "slot")
  /\ UNCHANGED <<slotVars, inReset, inState, thread, provider, live, taskVars,
                 sweeperVars>>

\* The slot is acquired and flagged, the create thread starts.
AcquireSlot(c) ==
  /\ pc[c] = "slot"
  /\ slots > 0
  /\ slots' = slots - 1
  /\ flagged' = flagged \cup {c}
  /\ thread' = [thread EXCEPT ![c] = "running"]
  /\ Goto(c, "create")
  /\ UNCHANGED <<transferred, inReset, inState, provider, live, taskVars,
                 sweeperVars>>

\* create returns a session with a CDP URL: store it, track it, attach.
CreateReturns(c) ==
  /\ pc[c] = "create"
  /\ thread[c] = "ok"
  /\ inState' = inState \cup {c}
  /\ live' = live \cup {c}
  /\ Goto(c, "attach")
  /\ UNCHANGED <<slotVars, inReset, thread, provider, taskVars, sweeperVars>>

\* create returns a session without a CDP URL: RuntimeError before the session
\* is stored or tracked, so the exception path closes the local variable.
CreateReturnsNoUrl(c) ==
  /\ pc[c] = "create"
  /\ thread[c] = "ok"
  /\ Goto(c, "setup_close")
  /\ UNCHANGED <<slotVars, inReset, inState, thread, provider, live, taskVars,
                 sweeperVars>>

\* create raises.  An error that names the session hands its slot to a task
\* deleting the orphan; any other error releases the slot.
CreateRaises(c) ==
  /\ pc[c] = "create"
  /\ \/ /\ thread[c] = "error_id"
        /\ HandOver(c, "orphan")
     \/ /\ thread[c] = "error"
        /\ ReleaseSlot(c)
        /\ UNCHANGED taskVars
  /\ Goto(c, "raised")
  /\ UNCHANGED <<inReset, inState, thread, provider, live, sweeperVars>>

\* Mutant: the abandoned create gives its slot back at once.
CreateTimesOutReleases(c) ==
  /\ pc[c] = "create"
  /\ ReleaseSlot(c)
  /\ task' = [task EXCEPT ![c] = "late"]
  /\ Goto(c, "raised")
  /\ UNCHANGED <<tries, inReset, inState, thread, provider, live, sweeperVars>>

\* The wait for create times out: the slot goes to the late-cleanup task.
CreateTimesOut(c) ==
  /\ pc[c] = "create"
  /\ HandOver(c, "late")
  /\ Goto(c, "raised")
  /\ UNCHANGED <<inReset, inState, thread, provider, live, sweeperVars>>

\* The CDP attach ends: the session is ready, or the exception path closes it.
Attach(c) ==
  /\ pc[c] = "attach"
  /\ Goto(c, "ready") \/ Goto(c, "setup_close")
  /\ UNCHANGED <<slotVars, inReset, inState, thread, provider, live, taskVars,
                 sweeperVars>>

\* except BaseException of setup_state: whatever the close answers, the slot is
\* released.  The session stays in the state.
SetupClose(c) ==
  /\ pc[c] = "setup_close"
  /\ CloseConfirmed(c) \/ CloseUnconfirmed(c)
  /\ ReleaseSlot(c)
  /\ Goto(c, "raised")
  /\ UNCHANGED <<inReset, inState, thread, taskVars, sweeperVars>>

-----------------------------------------------------------------------------
(* The reset handler and cleanup_session *)

\* The reset's timeout block is left with a usable session: it is registered,
\* or the budget expired just then and cleanup_session(state) follows.
LeaveReset(c) ==
  /\ pc[c] = "ready"
  /\ c \in inReset
  /\ inReset' = inReset \ {c}
  /\ UNCHANGED <<slotVars, pc, inState, thread, provider, live, taskVars,
                 sweeperVars>>

\* The end of cleanup_session: the finally releases a slot still flagged.
FinishCleanup(c) ==
  /\ ReleaseSlot(c)
  /\ Goto(c, "done")

\* cleanup_session is called: for a raised state by the reset's attempt loop or
\* by its handler of the expired budget; for a usable session only once the
\* timeout block is left, since nothing in it raises after setup_state.
BeginCleanup(c) ==
  /\ \/ /\ pc[c] = "ready"
        /\ c \notin inReset
        /\ Goto(c, "cdp_close")
        /\ UNCHANGED <<slotVars, inState>>
     \/ /\ pc[c] = "raised"
        /\ c \in inState
        /\ inState' = inState \ {c}
        /\ Goto(c, "close")
        /\ UNCHANGED slotVars
     \/ /\ pc[c] = "raised"
        /\ c \notin inState
        /\ FinishCleanup(c)
        /\ UNCHANGED inState
  /\ UNCHANGED <<inReset, thread, provider, live, taskVars, sweeperVars>>

\* Mutant: closing the CDP connection is taken for closing the session.
CdpClosedOnly(c) ==
  /\ pc[c] = "cdp_close"
  /\ inState' = inState \ {c}
  /\ FinishCleanup(c)
  /\ UNCHANGED <<inReset, thread, provider, live, taskVars, sweeperVars>>

\* The CDP connection is closed: pop the session and close it.
CdpClosed(c) ==
  /\ pc[c] = "cdp_close"
  /\ inState' = inState \ {c}
  /\ Goto(c, "close")
  /\ UNCHANGED <<slotVars, inReset, thread, provider, live, taskVars,
                 sweeperVars>>

\* The close answers.  Unconfirmed, a slot still flagged moves to a retry task.
CleanupClose(c) ==
  /\ pc[c] = "close"
  /\ \/ /\ CloseConfirmed(c)
        /\ ReleaseSlot(c)
        /\ UNCHANGED taskVars
     \/ /\ CloseUnconfirmed(c)
        /\ c \in flagged
        /\ HandOver(c, "retry")
     \/ /\ CloseUnconfirmed(c)
        /\ c \notin flagged
        /\ UNCHANGED <<slotVars, taskVars>>
  /\ Goto(c, "done")
  /\ UNCHANGED <<inReset, inState, thread, sweeperVars>>

\* The reset budget expires and CancelledError enters the pending await; the
\* handler then calls cleanup_session(state) outside the timeout block.
Cancel(c) ==
  /\ BudgetExpires
  /\ c \in inReset
  /\ inReset' = inReset \ {c}
  /\ \/ /\ pc[c] = "slot"
        /\ Goto(c, "raised")
        /\ UNCHANGED <<slotVars, taskVars>>
     \/ /\ pc[c] = "create"
        /\ HandOver(c, "late")
        /\ Goto(c, "raised")
     \/ /\ pc[c] = "attach"
        /\ Goto(c, "setup_close")
        /\ UNCHANGED <<slotVars, taskVars>>
     \/ \* inside the except block: its _release_slot is skipped
        /\ pc[c] = "setup_close"
        /\ Goto(c, "raised")
        /\ UNCHANGED <<slotVars, taskVars>>
     \/ \* inside the attempt loop's cleanup_session: only its finally runs
        /\ pc[c] = "close"
        /\ ReleaseSlot(c)
        /\ Goto(c, "raised")
        /\ UNCHANGED taskVars
  /\ UNCHANGED <<inState, thread, provider, live, sweeperVars>>

-----------------------------------------------------------------------------
(* The background tasks *)

\* _cleanup_late_session_create: the abandoned create ends after all.
LateCreateEnds(c) ==
  /\ task[c] = "late"
  /\ \/ /\ thread[c] = "ok"
        /\ live' = live \cup {c}
        /\ task' = [task EXCEPT ![c] = "late_close"]
        /\ UNCHANGED <<slotVars, tries>>
     \/ /\ thread[c] = "error_id"
        /\ task' = [task EXCEPT ![c] = "orphan"]
        /\ UNCHANGED <<slotVars, tries, live>>
     \/ /\ thread[c] = "error"
        /\ EndTask(c, "over")
        /\ UNCHANGED live
  /\ UNCHANGED <<callVars, thread, provider, sweeperVars>>

\* Its close of the late session; unconfirmed, the retry loop takes over.
LateClose(c) ==
  /\ task[c] = "late_close"
  /\ \/ /\ CloseConfirmed(c)
        /\ EndTask(c, "over")
     \/ /\ CloseUnconfirmed(c)
        /\ task' = [task EXCEPT ![c] = "retry"]
        /\ UNCHANGED <<slotVars, tries>>
  /\ UNCHANGED <<callVars, thread, sweeperVars>>

\* Mutant: one attempt too many.
AttemptFailsLate(c) ==
  IF tries[c] < Attempts
  THEN /\ tries' = [tries EXCEPT ![c] = @ + 1]
       /\ UNCHANGED <<task, slotVars>>
  ELSE EndTask(c, "leaked")

\* One more failed attempt of a retry loop; the last one gives up, and the
\* session counts as leaked.
AttemptFails(c) ==
  IF tries[c] + 1 < Attempts
  THEN /\ tries' = [tries EXCEPT ![c] = @ + 1]
       /\ UNCHANGED <<task, slotVars>>
  ELSE EndTask(c, "leaked")

\* _retry_unconfirmed_close: a leaked session is no longer tracked, so that
\* the sweeper can see it.
RetryClose(c) ==
  /\ task[c] = "retry"
  /\ \/ /\ CloseConfirmed(c)
        /\ EndTask(c, "over")
     \/ /\ "close" \in Faults \/ provider[c] = "gone"
        /\ AttemptFails(c)
        /\ live' = IF task'[c] = "leaked" THEN live \ {c} ELSE live
        /\ UNCHANGED provider
  /\ UNCHANGED <<callVars, thread, sweeperVars>>

\* _delete_orphan_then_release: here SessionNotFoundError is a success.
DeleteOrphan(c) ==
  /\ task[c] = "orphan"
  /\ \/ /\ CloseConfirmed(c)
        /\ EndTask(c, "over")
     \/ /\ "close" \in Faults
        /\ AttemptFails(c)
        /\ UNCHANGED <<provider, live>>
  /\ UNCHANGED <<callVars, thread, sweeperVars>>

-----------------------------------------------------------------------------
(* The create thread and the provider *)

\* The provider accepts the create: the session exists, not yet active.
Allocate(c) ==
  /\ thread[c] = "running"
  /\ provider[c] = "none"
  /\ provider' = [provider EXCEPT ![c] = "creating"]
  /\ UNCHANGED <<slotVars, callVars, thread, live, taskVars, sweeperVars>>

\* The provider moves the session on: it becomes active, or it ends (TTL,
\* create_failed, a close whose caller had stopped waiting).
ProviderMoves(c) ==
  /\ \/ /\ provider[c] = "creating"
        /\ provider' = [provider EXCEPT ![c] = "active"]
     \/ /\ provider[c] \in {"creating", "active"}
        /\ provider' = [provider EXCEPT ![c] = "gone"]
  /\ UNCHANGED <<slotVars, callVars, thread, live, taskVars, sweeperVars>>

\* sessions.create ends: it saw the session active, or raised an error that
\* names it (activation timeout, create_failed), or one that does not (the
\* request was refused or, under faults, its answer was lost).
ThreadEnds(c) ==
  /\ thread[c] = "running"
  /\ \/ /\ provider[c] = "active"
        /\ thread' = [thread EXCEPT ![c] = "ok"]
     \/ /\ provider[c] # "none"
        /\ thread' = [thread EXCEPT ![c] = "error_id"]
     \/ /\ provider[c] = "none" \/ "create" \in Faults
        /\ thread' = [thread EXCEPT ![c] = "error"]
  /\ UNCHANGED <<slotVars, callVars, provider, live, taskVars, sweeperVars>>

-----------------------------------------------------------------------------
(* The orphan sweeper *)

\* The timing the two-sweep rule rests on: no create whose caller still waits
\* stays active and unregistered over two listings (LEXMOUNT_SWEEP_INTERVAL_S
\* is at least the time from activation to registration).
GraceHolds ==
  \A c \in candidates : ~(pc[c] = "create" /\ provider[c] = "active")

\* A worker thread lists the active sessions, the first page of them only and
\* in an order of the provider's.  A failed listing leaves every variable
\* unchanged: run_orphan_sweeper logs it and sleeps again.
ActiveSessions == {c \in Calls : provider[c] = "active"}
FitsOnePage    == Cardinality(ActiveSessions) <= PageSize

SweepList ==
  /\ sweep = "asleep"
  /\ GraceHolds
  /\ listed' \in IF FitsOnePage
                  THEN {ActiveSessions}
                  ELSE {page \in SUBSET ActiveSessions : Cardinality(page) = PageSize}
  /\ sweep' = "listing"
  /\ UNCHANGED <<candidates, orphans, slotVars, callVars, thread, provider, live,
                 taskVars>>

\* Mutant: the first sighting is enough.
SweepCompareOnce ==
  /\ sweep = "listing"
  /\ orphans' = listed \ live
  /\ candidates' = {}
  /\ listed' = {}
  /\ sweep' = "deleting"
  /\ UNCHANGED <<slotVars, callVars, thread, provider, live, taskVars>>

\* Mutant: the candidates of this sweep are not kept for the next.
SweepCompareForgets ==
  /\ sweep = "listing"
  /\ orphans' = (listed \ live) \cap candidates
  /\ candidates' = {}
  /\ listed' = {}
  /\ sweep' = "deleting"
  /\ UNCHANGED <<slotVars, callVars, thread, provider, live, taskVars>>

\* Back on the event loop: unknown ids seen by two sweeps in a row are orphans.
SweepCompare ==
  /\ sweep = "listing"
  /\ LET unknown == listed \ live
     IN  /\ orphans' = unknown \cap candidates
         /\ candidates' = unknown \ candidates
  /\ listed' = {}
  /\ sweep' = "deleting"
  /\ UNCHANGED <<slotVars, callVars, thread, provider, live, taskVars>>

\* One orphan is deleted; a failed delete is logged and skipped.
SweepDelete(c) ==
  /\ sweep = "deleting"
  /\ c \in orphans
  /\ orphans' = orphans \ {c}
  /\ \/ provider' = [provider EXCEPT ![c] = "gone"]
     \/ /\ "close" \in Faults
        /\ UNCHANGED provider
  /\ UNCHANGED <<candidates, sweep, listed, slotVars, callVars, thread, live,
                 taskVars>>

SweepSleep ==
  /\ sweep = "deleting"
  /\ orphans = {}
  /\ sweep' = "asleep"
  /\ UNCHANGED <<candidates, listed, orphans, slotVars, callVars, thread,
                 provider, live, taskVars>>

-----------------------------------------------------------------------------
\* The steps of the process that must go on once a call has begun.
CallStep(c) ==
  \/ AcquireSlot(c) \/ CreateReturns(c) \/ CreateReturnsNoUrl(c)
  \/ CreateRaises(c) \/ CreateTimesOut(c) \/ Attach(c) \/ SetupClose(c)
  \/ BeginCleanup(c) \/ CdpClosed(c) \/ CleanupClose(c)

TaskStep(c) ==
  LateCreateEnds(c) \/ LateClose(c) \/ RetryClose(c) \/ DeleteOrphan(c)

Sweep == SweepList \/ SweepCompare \/ SweepSleep

Next ==
  \/ \E c \in Calls :
       \/ EnterSetup(c) \/ CallStep(c) \/ LeaveReset(c) \/ Cancel(c)
       \/ TaskStep(c) \/ Allocate(c) \/ ProviderMoves(c) \/ ThreadEnds(c)
       \/ SweepDelete(c)
  \/ Sweep

Spec == Init /\ [][Next]_vars

\* Awaits are bounded (30 s, 60 s, the SDK's poll timeout, the expiry task), so
\* every step of a started call, a task, a thread and the sweeper is fair.
\* Deletes fail, but not for ever: the fair step is the successful one.
Fairness ==
  /\ \A c \in Calls :
       /\ WF_vars(CallStep(c) \/ LeaveReset(c))
       /\ WF_vars(TaskStep(c))
       /\ WF_vars(ThreadEnds(c))
       /\ SF_vars(SweepDelete(c) /\ provider'[c] = "gone")
  /\ WF_vars(Sweep)

FairSpec == Spec /\ Fairness
-----------------------------------------------------------------------------
(* Properties *)

\* Somebody in this process will still act on c's session.
Responsible(c) ==
  \/ pc[c] \in {"create", "attach", "setup_close", "ready", "cdp_close", "close"}
  \/ pc[c] = "raised" /\ c \in inState
  \/ task[c] \in Working

\* Every slot is in the semaphore, in one state's flag or in one task's hand:
\* no path of setup_state, cleanup_session, their cancellation and their
\* background tasks loses a slot, or releases it twice and raises the quota.
QuotaConserved ==
  /\ flagged \cap transferred = {}
  /\ slots + Cardinality(flagged) + Cardinality(transferred) = MaxConcurrent

\* Nobody creates, attaches or uses a session without a slot, and a background
\* task owns a slot exactly while it works.
SlotCoversWork ==
  \A c \in Calls :
    /\ pc[c] \in {"create", "attach", "ready"} => c \in flagged
    /\ task[c] \in Working <=> c \in transferred

\* The sweeper never holds for deletion a session that a call is creating,
\* attaching or using: the stale listing, the live set and the two-sweep rule
\* together protect it.
SweeperSparesOwned ==
  \A c \in orphans : pc[c] \notin {"create", "attach", "ready"}

\* README, session lifecycle: sessions visible at the provider never exceed
\* LEXMOUNT_MAX_CONCURRENT_SESSIONS.
Visible == {c \in Calls : provider[c] \in {"creating", "active"}}
ProviderBound == Cardinality(Visible) <= MaxConcurrent

\* A session that nobody will act on any more is not tracked: a tracked id is
\* invisible to the sweeper (comment in _retry_unconfirmed_close).
AbandonedIsReclaimable ==
  \A c \in Calls : provider[c] = "active" /\ ~Responsible(c) => c \notin live

\* The pool implements the abstract slot pool: a hand-over is a stutter.
Pool == INSTANCE SlotPool WITH
          free  <- slots,
          held  <- flagged \cup transferred,
          spent <- {c \in Calls : pc[c] \notin {"idle", "slot"}}
                     \ (flagged \cup transferred)
ImplementsPool == Pool!PoolSpec

\* A slot in a background task's hand comes back to the pool.
SlotReturned == \A c \in Calls : c \in transferred ~> c \notin transferred

\* No call queues for a slot for ever.
NoStarvation == \A c \in Calls : pc[c] = "slot" ~> pc[c] # "slot"

\* Where the active sessions come to fit the one page the sweeper reads, each
\* that nobody tracks or acts on is eventually deleted.  While they do not, an
\* orphan may be on no two pages in a row: _list_provider_session_ids says
\* itself that its coverage is then reduced.
Reclaimed ==
  <>[]FitsOnePage =>
    \A c \in Calls :
      provider[c] = "active" /\ ~Responsible(c) /\ c \notin live
        ~> provider[c] = "gone"
=============================================================================
