----------------------------- MODULE BrowserTools -----------------------------
(***************************************************************************)
(* The tools of one browser session on the server.  A tool handler runs    *)
(* its CDP calls in a worker thread and waits for it with a timeout; a     *)
(* timeout abandons the thread, it does not stop it.  All threads of a     *)
(* session share one websocket and the counter _next_id, against which     *)
(* call() matches the replies it receives.                                 *)
(*                                                                         *)
(* reset navigates to the task's site; steps run the policy's tools one at *)
(* a time under the record's lock; close captures the final page in a      *)
(* thread of its own, without the lock, and closes the session.            *)
(***************************************************************************)
EXTENDS Naturals, Sequences

CONSTANTS
  Ops,          \* operations the policy may ask for
  MaxCalls,     \* bound on the calls of an episode
  MaxRepeated,  \* max_repeated_tool_calls
  Workers       \* worker threads this session may occupy

NoWorker == "none"

\* Neither the client nor the request model checks the operation: the policy may
\* ask for one that does not exist.
Tools == Ops \ {"unknown"}

\* setup_webserver gives the server far more threads than a session ever
\* occupies: a new one next to the tool's or the one its timeout left, the one the
\* capture left, and close's.
ASSUME ToolsAssumption ==
  /\ Ops \subseteq {"navigate", "observe", "fill", "click", "fill_click", "unknown"}
  /\ MaxCalls \in Nat \ {0}
  /\ MaxRepeated \in Nat \ {0}
  /\ NoWorker \notin Workers
  /\ \A a, b, c \in Workers \cup {NoWorker} : Workers \ {a, b, c} # {}

VARIABLES
  client,    \* the policy's side: reset, idle, waiting for a step, gone
  heard,     \* what it heard last
  calls,     \* calls it made
  phase,     \* the session's record: setup, open, capture, cleanup, closed
  steps,     \* step handlers that hold or wait for the record's lock
  tool,      \* the tool that runs, and the thread it waits for
  events,    \* the record's events of tools that exist
  guard,     \* TrajectoryGuard
  final,     \* what the capture found
  settled,   \* no tool was left behind when close began (history)
  threads,   \* the worker threads
  socket,    \* is the websocket open
  page,      \* is the target alive
  inflight   \* requests whose replies no thread has taken from the socket

clientVars == <<client, heard, calls>>
serverVars == <<phase, steps, tool, events, guard, final, settled>>
wireVars   == <<socket, page, inflight>>
vars == <<clientVars, serverVars, threads, wireVars>>

NoTool == [op |-> "none", worker |-> NoWorker, stage |-> 1, own |-> TRUE]
Idle   == [role |-> "none", todo |-> <<>>, point |-> "idle", own |-> TRUE]

Requests == {"navigate", "poll", "observe", "fill", "text", "click", "closeTarget"}
Results  == {"own", "foreign", "error", "blocked"}

TypeOK ==
  /\ client \in {"reset", "idle", "waiting", "gone"}
  /\ heard \in Results \cup {"none"}
  /\ calls \in 0..MaxCalls
  /\ phase \in {"setup", "open", "capture", "cleanup", "closed"}
  /\ steps \in Seq(Ops)
  /\ tool \in [op : Tools \cup {"navigate", "none"}, worker : Workers \cup {NoWorker},
               stage : {1, 2}, own : BOOLEAN]
  /\ events \in Seq([op : Tools, result : Results])
  /\ guard \in [reason : {"none", "timeout", "no_progress"},
                last : Tools \cup {"navigate", "none"}, repeated : 0..MaxRepeated]
  /\ final \in {"none", "own", "foreign", "fallback"}
  /\ settled \in BOOLEAN
  /\ threads \in [Workers -> [role : {"none", "tool", "abandoned", "capture", "close"},
                              todo : Seq(Requests),
                              point : {"idle", "ready", "numbered", "await", "done", "raised"},
                              own : BOOLEAN]]
  /\ tool = NoTool \/ threads[tool.worker].role = "tool"
  /\ socket \in BOOLEAN
  /\ page \in BOOLEAN
  /\ inflight \in SUBSET [from : Workers \cup {NoWorker}, kind : Requests, newest : BOOLEAN]

Init ==
  /\ client = "reset" /\ heard = "none" /\ calls = 0
  /\ phase = "setup" /\ steps = <<>> /\ tool = NoTool /\ events = <<>>
  /\ guard = [reason |-> "none", last |-> "none", repeated |-> 0]
  /\ final = "none" /\ settled = FALSE
  /\ threads = [w \in Workers |-> Idle]
  /\ socket = TRUE /\ page = TRUE
  /\ inflight = {}

-----------------------------------------------------------------------------
(* Worker threads: LexmountCDPSession.call *)

Alive(w) == threads[w].point \in {"ready", "numbered", "await"}

\* The code's pool is larger than the threads that are ever alive.
FreeWorker == CHOOSE w \in Workers : threads[w] = Idle

\* The requests that the threads of a tool make in turn: navigate waits in a
\* second thread for a usable document, a click reads the page in one.  A loop
\* of polls counts as one request.
PageProgram(op, stage) ==
  IF op = "observe" THEN <<"observe">>
  ELSE IF stage = 1 THEN <<"navigate">> ELSE <<"poll">>

\* act: an instruction may fill, click, or fill and then click; a click looks at
\* the page before and after it.
ActProgram(op, stage) ==
  LET click == <<"text", "click", "poll">>
  IN  IF stage = 2 THEN <<"text">>
      ELSE CASE op = "fill"       -> <<"fill">>
             [] op = "click"      -> click
             [] op = "fill_click" -> <<"fill">> \o click

Acts == {"fill", "click", "fill_click"}
Program(op, stage) == IF op \in Acts THEN ActProgram(op, stage) ELSE PageProgram(op, stage)

HasSecondThread(op) == op \in {"navigate", "click", "fill_click"}

\* Mutant: close does not close the target.
CloseProgramKeepsPage == <<"text">>

\* LexmountCDPSession.close: it closes the target, then the socket.
CloseProgram == <<"closeTarget">>

\* asyncio.to_thread.
Started(w, role, todo, table) ==
  [table EXCEPT ![w] = [role |-> role, todo |-> todo, point |-> "ready", own |-> TRUE]]

\* Mutant: the result of a thread is lost.
EndForgotten(w, point, own, unread) ==
  /\ threads' = [threads EXCEPT ![w] = Idle]
  /\ inflight' = unread
  /\ UNCHANGED socket

\* The thread ends: its waiter finds the result; an abandoned one just goes;
\* the one that runs LexmountCDPSession.close closes the socket at its end.
End(w, point, own, unread) ==
  /\ threads' = [threads EXCEPT ![w] =
                   IF @.role = "abandoned" THEN Idle
                   ELSE [@ EXCEPT !.point = point, !.own = own]]
  /\ IF threads[w].role = "close"
     THEN socket' = FALSE /\ inflight' = {}
     ELSE /\ inflight' = {[r EXCEPT !.from = IF @ = w THEN NoWorker ELSE @] : r \in unread}
          /\ UNCHANGED socket

Raise(w, unread) == End(w, "raised", threads[w].own, unread)

\* call: self._next_id += 1.  No request that is under way has the newest number
\* any more (of _next_id nothing else matters), so nobody will take its reply.
Number(w) ==
  /\ threads[w].point = "ready"
  /\ inflight' = {[r EXCEPT !.newest = FALSE, !.from = NoWorker] : r \in inflight}
  /\ threads' = [threads EXCEPT ![w].point = "numbered"]
  /\ UNCHANGED <<clientVars, serverVars, socket, page>>

\* call: the request takes the counter as it is now, which another thread may
\* have moved on; send raises on a closed socket.
Send(w) ==
  /\ threads[w].point = "numbered"
  /\ IF socket
     THEN /\ inflight' = inflight \cup
               {[from |-> w, kind |-> Head(threads[w].todo), newest |-> TRUE]}
          /\ threads' = [threads EXCEPT ![w].point = "await"]
          /\ UNCHANGED socket
     ELSE Raise(w, inflight)
  /\ UNCHANGED <<clientVars, serverVars, page>>

\* The browser executes a request to close the target.
CloseTarget(r) ==
  /\ r.kind = "closeTarget" /\ page
  /\ page' = FALSE
  /\ UNCHANGED <<clientVars, serverVars, threads, socket, inflight>>

\* Mutant: call takes the first reply that comes.
MatchesAny(reply) == TRUE

\* call: response.get("id") != self._next_id
Matches(reply) == reply.newest

\* The browser has answered a request, in whatever order, and a thread in recv
\* takes the frame.  It drops a reply to another number.  A reply that fits may
\* be an error, show a page that is of no use, or belong to another thread's
\* request and not parse; else the thread goes on to its next request.
Receive(w, reply) ==
  /\ threads[w].point = "await"
  /\ reply.kind = "closeTarget" => ~page
  /\ LET own    == threads[w].own /\ reply.from = w
         rest   == Tail(threads[w].todo)
         unread == inflight \ {reply}
     IN \/ /\ ~Matches(reply)
           /\ inflight' = unread
           /\ UNCHANGED <<threads, socket>>
        \/ /\ Matches(reply)
           /\ Raise(w, unread)
        \/ /\ Matches(reply) /\ rest = <<>>
           /\ End(w, "done", own, unread)
        \/ /\ Matches(reply) /\ rest # <<>>
           /\ inflight' = unread
           /\ threads' = [threads EXCEPT ![w] =
                [@ EXCEPT !.todo = rest, !.point = "ready", !.own = own]]
           /\ UNCHANGED socket
  /\ UNCHANGED <<clientVars, serverVars, page>>

\* The websocket's own timeout (30 s without a frame) is longer than a tool's
\* (25 s): it ends only threads nobody waits for, and close's.
RecvTimeout(w) ==
  /\ threads[w].point = "await"
  /\ threads[w].role \in {"abandoned", "close"}
  /\ Raise(w, inflight)
  /\ UNCHANGED <<clientVars, serverVars, page>>

\* The socket was closed under a waiting thread.
Broken(w) ==
  /\ threads[w].point = "await"
  /\ ~socket
  /\ Raise(w, inflight)
  /\ UNCHANGED <<clientVars, serverVars, page>>

Work(w) ==
  \/ Number(w) \/ Send(w) \/ Broken(w)
  \/ \E reply \in inflight : Receive(w, reply)

\* asyncio.wait_for gives up on a thread.
Abandoned(w) ==
  [threads EXCEPT ![w] = IF Alive(w) THEN [@ EXCEPT !.role = "abandoned"] ELSE Idle]

-----------------------------------------------------------------------------
(* TrajectoryGuard *)

\* before_tool: the call is counted against the one before it.
Counted(op) ==
  LET repeated == IF guard.last = op THEN guard.repeated + 1 ELSE 0
  IN  [reason   |-> IF repeated >= MaxRepeated THEN "no_progress" ELSE guard.reason,
       last     |-> op,
       repeated |-> repeated]

\* Mutant: the guard counts the timeout and lets the trajectory go on.
TimedOutOpen == guard

\* infrastructure_timeout
TimedOut == [guard EXCEPT !.reason = "timeout"]

-----------------------------------------------------------------------------
(* The handlers *)

\* A step answers and leaves the lock; the client hears it if it still waits for
\* this step.
Reply(result) ==
  /\ steps' = Tail(steps)
  /\ IF client = "waiting" /\ Len(steps) = 1
     THEN client' = "idle" /\ heard' = result
     ELSE UNCHANGED <<client, heard>>

\* A tool has its result.  In reset nobody looks at it: the session is
\* registered; the client may have lost reset's answer.  In a step it is an
\* event, and the answer.
Finish(op, result) ==
  /\ tool' = NoTool
  /\ IF phase = "setup"
     THEN /\ phase' = "open"
          /\ client' \in {"idle", "gone"}
          /\ UNCHANGED <<steps, events, heard>>
     ELSE /\ events' = Append(events, [op |-> op, result |-> result])
          /\ Reply(result)
          /\ UNCHANGED phase

\* reset: mode.navigate(start_url).
NavigateSetup ==
  /\ phase = "setup" /\ tool = NoTool
  /\ tool' = [op |-> "navigate", worker |-> FreeWorker, stage |-> 1, own |-> TRUE]
  /\ threads' = Started(FreeWorker, "tool", Program("navigate", 1), threads)
  /\ guard' = Counted("navigate")
  /\ UNCHANGED <<clientVars, phase, steps, events, final, settled, wireVars>>

\* The policy calls a tool: /step.
Call(op) ==
  /\ client = "idle"
  /\ calls < MaxCalls
  /\ calls' = calls + 1
  /\ client' = "waiting"
  /\ steps' = Append(steps, op)
  /\ UNCHANGED <<heard, phase, tool, events, guard, final, settled, threads,
                 wireVars>>

\* The client's step timeout (35 s), below the server's (two of 25 s): the
\* policy is told of an error, the handler goes on.
GiveUp ==
  /\ client = "waiting"
  /\ client' = "idle"
  /\ heard' = "error"
  /\ UNCHANGED <<calls, serverVars, threads, wireVars>>

\* Mutant: step does not hold the record's lock while its tool runs.
LockFreeAlways == TRUE

\* async with record["lock"]
LockFree == tool = NoTool

\* Mutant: the guard takes such a call for one more, and so for the end of a run.
RefuseOperationCounted ==
  /\ phase \in {"open", "capture"} /\ LockFree /\ steps # <<>>
  /\ Head(steps) \notin Tools
  /\ guard' = Counted(Head(steps))
  /\ Reply("error")
  /\ UNCHANGED <<calls, phase, tool, events, final, settled, threads, wireVars>>

\* An operation that does not exist is answered with ERROR_POLICY_TOOL: the guard
\* is not asked, terminated or not, and no thread starts.  Its event says nothing
\* of the browser, and is left out of events.
RefuseOperation ==
  /\ phase \in {"open", "capture"} /\ LockFree /\ steps # <<>>
  /\ Head(steps) \notin Tools
  /\ Reply("error")
  /\ UNCHANGED <<calls, phase, tool, events, guard, final, settled, threads,
                 wireVars>>

\* The guard refuses: it is terminated already, or its deadline has passed
\* (later than the client's own, so nobody waits), or the call is one
\* repetition too many.
Block ==
  /\ phase \in {"open", "capture"} /\ LockFree /\ steps # <<>>
  /\ Head(steps) \in Tools
  /\ LET op == Head(steps)
     IN  /\ \/ guard.reason # "none" /\ UNCHANGED guard
            \/ guard.reason = "none" /\ client = "gone" /\ guard' = TimedOut
            \/ /\ guard.reason = "none"
               /\ guard' = Counted(op)
               /\ guard'.reason # "none"
         /\ Finish(op, "blocked")
  /\ UNCHANGED <<calls, final, settled, threads, wireVars>>

\* A step gets the lock and the guard's leave, and starts its tool.
StartTool ==
  /\ phase \in {"open", "capture"} /\ LockFree /\ steps # <<>>
  /\ Head(steps) \in Tools
  /\ LET op == Head(steps)
     IN  /\ guard.reason = "none"
         /\ guard' = Counted(op)
         /\ guard'.reason = "none"
         /\ tool' = [op |-> op, worker |-> FreeWorker, stage |-> 1, own |-> TRUE]
         /\ threads' = Started(FreeWorker, "tool", Program(op, 1), threads)
  /\ UNCHANGED <<clientVars, phase, steps, events, final, settled, wireVars>>

\* act: no observed control matches the instruction (ValueError, before any
\* request).
NoControl(w) ==
  /\ threads[w].role = "tool" /\ threads[w].point = "ready"
  /\ tool.worker = w /\ tool.stage = 1
  /\ tool.op \in Acts
  /\ threads[w].todo = Program(tool.op, 1)
  /\ Raise(w, inflight)
  /\ UNCHANGED <<clientVars, serverVars, page>>

\* The handler goes on when its thread has ended: to its second thread, or to
\* its result.
ToolGoesOn ==
  /\ tool # NoTool
  /\ LET w == tool.worker
         own == tool.own /\ threads[w].own
     IN  \/ /\ threads[w].point = "raised"
            /\ Finish(tool.op, "error")
            /\ threads' = [threads EXCEPT ![w] = Idle]
         \/ /\ threads[w].point = "done"
            /\ tool.stage = 1 /\ HasSecondThread(tool.op)
            /\ tool' = [tool EXCEPT !.worker = FreeWorker, !.stage = 2, !.own = own]
            /\ threads' = Started(FreeWorker, "tool", Program(tool.op, 2),
                                  [threads EXCEPT ![w] = Idle])
            /\ UNCHANGED <<client, heard, phase, steps, events>>
         \/ /\ threads[w].point = "done"
            /\ tool.stage = 2 \/ ~HasSecondThread(tool.op)
            /\ Finish(tool.op, IF own THEN "own" ELSE "foreign")
            /\ threads' = [threads EXCEPT ![w] = Idle]
  /\ UNCHANGED <<calls, guard, final, settled, wireVars>>

\* per_tool_timeout_s: the guard ends the trajectory, the thread goes on.
ToolTimesOut ==
  /\ tool # NoTool
  /\ guard' = TimedOut
  /\ threads' = Abandoned(tool.worker)
  /\ Finish(tool.op, "error")
  /\ UNCHANGED <<calls, final, settled, wireVars>>

\* cleanup_session has popped the browser: a step that waited raises.
StepRaises ==
  /\ phase \in {"cleanup", "closed"} /\ tool = NoTool /\ steps # <<>>
  /\ steps' = Tail(steps)
  /\ UNCHANGED <<clientVars, phase, tool, events, guard, final, settled, threads,
                 wireVars>>

\* cleanup_session starts the thread that closes the session.
StartCleanup(table) ==
  /\ phase' = "cleanup"
  /\ threads' = Started(FreeWorker, "close", CloseProgram, table)

\* The reset budget expires inside the setup navigation.
CancelSetup ==
  /\ phase = "setup" /\ tool # NoTool
  /\ tool' = NoTool
  /\ client' = "gone"
  /\ StartCleanup(Abandoned(tool.worker))
  /\ UNCHANGED <<heard, calls, steps, events, guard, final, settled, wireVars>>

\* The record of a client that lost reset's answer expires.
Expire ==
  /\ phase = "open" /\ client = "gone"
  /\ StartCleanup(threads)
  /\ UNCHANGED <<clientVars, steps, tool, events, guard, final, settled, wireVars>>

\* No tool is left of the episode: none waits or runs, no thread lives on.
NothingLeft ==
  /\ steps = <<>>
  /\ \A w \in Workers : ~Alive(w)

\* The episode ends (also while a step is pending): /close captures the page.
Close ==
  /\ phase = "open" /\ client \in {"idle", "waiting"}
  /\ client' = "gone"
  /\ phase' = "capture"
  /\ settled' = NothingLeft
  /\ threads' = Started(FreeWorker, "capture", Program("observe", 1), threads)
  /\ UNCHANGED <<heard, calls, steps, tool, events, guard, final, wireVars>>

\* The capture has its snapshot, or failed or timed out (25 s), and the last
\* observation in the events has to do.
CaptureEnds(w) ==
  /\ phase = "capture" /\ threads[w].role = "capture"
  /\ \/ /\ threads[w].point = "done"
        /\ final' = IF threads[w].own THEN "own" ELSE "foreign"
        /\ StartCleanup([threads EXCEPT ![w] = Idle])
     \/ /\ final' = "fallback"
        /\ StartCleanup(Abandoned(w))
  /\ UNCHANGED <<clientVars, steps, tool, events, guard, settled, wireVars>>

\* cleanup_session goes on when its thread has ended (there is no timeout).
CleanupEnds(w) ==
  /\ phase = "cleanup"
  /\ threads[w].role = "close" /\ ~Alive(w)
  /\ phase' = "closed"
  /\ threads' = [threads EXCEPT ![w] = Idle]
  /\ UNCHANGED <<clientVars, steps, tool, events, guard, final, settled, wireVars>>

-----------------------------------------------------------------------------
Handler ==
  \/ NavigateSetup \/ RefuseOperation \/ Block \/ StartTool \/ ToolGoesOn \/ StepRaises \/ Expire
  \/ \E w \in Workers : CaptureEnds(w) \/ CleanupEnds(w)

Next ==
  \/ Handler \/ ToolTimesOut \/ CancelSetup
  \/ \E op \in Ops : Call(op)
  \/ GiveUp \/ Close
  \/ \E w \in Workers : Work(w) \/ NoControl(w) \/ RecvTimeout(w)
  \/ \E r \in inflight : CloseTarget(r)

Spec == Init /\ [][Next]_vars

\* Handlers and threads go on, timeouts fire, the browser executes a request to
\* close its target, the episode ends.  The page may send frames for ever, so
\* recv's timeout is only certain once the target is closed.
FairSpec ==
  /\ Spec
  /\ WF_vars(Handler)
  /\ WF_vars(ToolTimesOut)
  /\ WF_vars(Close)
  /\ \A w \in Workers : WF_vars(Work(w)) /\ WF_vars(~page /\ RecvTimeout(w))
  /\ WF_vars(\E r \in inflight : CloseTarget(r))

-----------------------------------------------------------------------------
(* Properties *)

\* The policy never hears a success made of replies to another thread's
\* requests, whatever timeouts and abandoned threads came before it (call, and
\* the guard that ends a trajectory at its first timeout).
HeardIsOwn == heard # "foreign"

\* While the policy holds a success, nothing of an earlier tool is under way:
\* no thread of one lives, no request of one may still change the page.
SuccessIsSettled ==
  client = "idle" /\ heard = "own" =>
    inflight = {} /\ \A w \in Workers : ~Alive(w)

\* The final page that the judge sees is the browser's answer to the capture,
\* or an older observation, unless the episode left a tool behind.
EvidenceIsOwn == settled => final # "foreign"

\* Unless a timeout ends the trajectory, the guard ends it exactly when one tool
\* was called MaxRepeated + 1 times in a row, the setup navigation included:
\* never earlier, and from then on every tool call is refused (docstring of
\* TrajectoryGuard: a per-episode circuit breaker).  Operations that do not exist
\* neither count nor break a run.
NoProgressIsARun ==
  LET counted == <<"navigate">> \o [i \in DOMAIN events |-> events[i].op]
      Run(j)  == /\ j > MaxRepeated
                 /\ \A k \in (j - MaxRepeated)..j : counted[k] = counted[j]
  IN  guard.reason # "timeout" =>
        \A i \in DOMAIN events :
          events[i].result = "blocked" <=> \E j \in 1..(i + 1) : Run(j)

\* A session that is being closed is closed in the end and leaves no thread in
\* the executor, although cleanup_session waits for close without a timeout and
\* another thread may take close's reply.
ThreadsReturn ==
  (phase \in {"capture", "cleanup"}) ~>
    (phase = "closed" /\ threads = [w \in Workers |-> Idle])
=============================================================================
