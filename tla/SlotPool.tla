------------------------------ MODULE SlotPool ------------------------------
(***************************************************************************)
(* What the client-side session quota promises: a pool of MaxConcurrent    *)
(* slots (the asyncio.Semaphore of LexmountDOMMode) of which every setup   *)
(* call holds at most one, takes it once and gives it back once.  The      *)
(* semaphore is not a BoundedSemaphore: nothing in it stops a second       *)
(* release from raising the quota, so the promise is the callers' to keep. *)
(***************************************************************************)
EXTENDS Naturals

CONSTANTS Calls,         \* the setup_state calls (one state dict each)
          MaxConcurrent  \* LEXMOUNT_MAX_CONCURRENT_SESSIONS

VARIABLES free,  \* value of the semaphore
          held,  \* the calls holding a slot
          spent  \* the calls that will never take a slot (again)

slotVars == <<free, held, spent>>

PoolInit ==
  /\ free = MaxConcurrent
  /\ held = {}
  /\ spent = {}

\* A call that never held a slot takes a free one.
Take(c) ==
  /\ free > 0
  /\ c \notin held \cup spent
  /\ free' = free - 1
  /\ held' = held \cup {c}
  /\ UNCHANGED spent

\* The holder of a slot gives it back, exactly once.
Give(c) ==
  /\ c \in held
  /\ free' = free + 1
  /\ held' = held \ {c}
  /\ spent' = spent \cup {c}

\* A call is cancelled while it queues for a slot.
GiveUp(c) ==
  /\ c \notin held \cup spent
  /\ spent' = spent \cup {c}
  /\ UNCHANGED <<free, held>>

PoolNext == \E c \in Calls : Take(c) \/ Give(c) \/ GiveUp(c)

PoolSpec == PoolInit /\ [][PoolNext]_slotVars
=============================================================================
