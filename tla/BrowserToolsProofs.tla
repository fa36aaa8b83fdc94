-------------------------- MODULE BrowserToolsProofs --------------------------
(***************************************************************************)
(* Proofs about BrowserTools, for every set of tools, every bound on the   *)
(* calls and the repetitions, and any number of worker threads from four.  *)
(*                                                                         *)
(* The argument: a thread that a timeout leaves behind can confuse another *)
(* one's replies only through the shared socket and _next_id, and the      *)
(* guard ends the trajectory at the first timeout.  So as long as a        *)
(* success can still be reported, the tool that runs is alone on the       *)
(* socket (OnlyTheTool); and so is the capture of an episode that left     *)
(* nothing behind (OnlyTheCapture).                                        *)
(***************************************************************************)
EXTENDS BrowserTools, Integers, SequenceTheorems, TLAPS

-----------------------------------------------------------------------------
(* The inductive invariant *)

Busy(w) == threads[w] # Idle

\* A worker without a role is idle, an abandoned thread still works, and a thread
\* that works has a request to make.
ThreadsInShape ==
  \A w \in Workers :
    /\ threads[w].role = "none" => ~Busy(w)
    /\ threads[w].role = "abandoned" => Alive(w)
    /\ Alive(w) => threads[w].todo # <<>>

\* Each thread has its waiter: the tool, the capture of this phase, or the close
\* of this phase.
ThreadsAwaited ==
  /\ tool # NoTool => tool.worker \in Workers /\ threads[tool.worker].role = "tool"
  /\ \A w \in Workers :
       /\ threads[w].role = "tool" => tool # NoTool /\ tool.worker = w
       /\ threads[w].role = "capture" => phase = "capture"
       /\ threads[w].role = "close" => phase = "cleanup"
  /\ \A v, w \in Workers :
       threads[v].role = threads[w].role /\ threads[v].role \in {"capture", "close"} => v = w

\* At most one thread was abandoned by a tool, and then no tool starts any more,
\* and at most one by the capture.
FewAbandoned ==
  \E a, b \in Workers \cup {NoWorker} :
    /\ \A w \in Workers : threads[w].role = "abandoned" => w \in {a, b}
    /\ a # NoWorker =>
         tool = NoTool /\ (guard.reason = "timeout" \/ phase \in {"cleanup", "closed"})
    /\ b # NoWorker => phase \in {"cleanup", "closed"}

\* The policy's side, the lock and the record agree.
HandlersAgree ==
  /\ client = "reset" <=> phase = "setup"
  /\ client \in {"idle", "waiting"} => phase = "open"
  /\ phase = "setup" =>
       steps = <<>> /\ events = <<>> /\ heard = "none" /\ guard.reason = "none"
  /\ tool # NoTool =>
       /\ guard.reason = "none"
       /\ phase = "setup" => tool.op = "navigate"
       /\ phase # "setup" => steps # <<>> /\ tool.op = Head(steps)
  /\ phase \in {"setup", "open", "capture"} => final = "none"
  /\ phase \in {"setup", "open"} => ~settled

\* Until a timeout or the end of the episode only the tool's thread uses the
\* socket, so that whatever is under way there is its own.
OnlyTheTool ==
  phase \in {"setup", "open"} /\ guard.reason # "timeout" =>
    /\ socket
    /\ tool.own
    /\ \A w \in Workers : threads[w].own /\ (Busy(w) => w = tool.worker)
    /\ \A r \in inflight :
         r.from \in Workers /\ r.from = tool.worker /\ threads[r.from].point = "await"
    /\ \A r, s \in inflight : r = s

\* A success that the policy holds was the last step's.
SuccessIsLast ==
  client = "idle" /\ heard = "own" =>
    tool = NoTool /\ steps = <<>> /\ guard.reason # "timeout"

\* After an episode that left nothing behind only the capture uses the socket.
OnlyTheCapture ==
  settled /\ phase = "capture" =>
    /\ steps = <<>> /\ tool = NoTool
    /\ \A w \in Workers :
         /\ Busy(w) => threads[w].role = "capture"
         /\ threads[w].own
         /\ threads[w].point \in {"numbered", "await"} =>
              \A r \in inflight : r.newest => r.from = w

\* The calls that the guard has counted while it counts: the setup navigation,
\* the calls of the events, the tool that runs.
Count ==
  IF phase = "setup" THEN IF tool = NoTool THEN 0 ELSE 1
  ELSE Len(events) + IF tool = NoTool THEN 1 ELSE 2

History ==
  [k \in 1..Count |-> IF k = 1 THEN "navigate"
                      ELSE IF k <= Len(events) + 1 THEN events[k - 1].op ELSE tool.op]

\* A call that came MaxRepeated + 1 times in a row.
RunAt(c, j) ==
  /\ j > MaxRepeated
  /\ \A k \in (j - MaxRepeated)..j : c[k] = c[j]

\* last is the last of the n calls c, and came for the repeated-th time again.
Streak(c, n, last, repeated) ==
  IF n = 0 THEN last = "none" /\ repeated = 0
  ELSE /\ last = c[n]
       /\ repeated \in 0..(n - 1)
       /\ \A k \in (n - repeated)..n : c[k] = c[n]
       /\ repeated < n - 1 => c[n - repeated - 1] # c[n]

GuardCounts ==
  /\ guard.reason = "none" =>
       /\ guard.repeated < MaxRepeated
       /\ Streak(History, Count, guard.last, guard.repeated)
       /\ \A j \in 1..Count : ~RunAt(History, j)
       /\ \A i \in DOMAIN events : events[i].result # "blocked"
  /\ guard.reason = "no_progress" =>
       /\ \A i \in DOMAIN events :
            events[i].result = "blocked" <=> \E j \in 1..(i + 1) : RunAt(History, j)
       /\ \E j \in 1..Count : RunAt(History, j)

IInv ==
  /\ TypeOK
  /\ ThreadsInShape
  /\ ThreadsAwaited
  /\ FewAbandoned
  /\ HandlersAgree
  /\ OnlyTheTool
  /\ SuccessIsLast
  /\ OnlyTheCapture
  /\ GuardCounts
  /\ HeardIsOwn
  /\ EvidenceIsOwn

-----------------------------------------------------------------------------
(* Threads *)

Thread == [role : {"none", "tool", "abandoned", "capture", "close"},
           todo : Seq(Requests),
           point : {"idle", "ready", "numbered", "await", "done", "raised"},
           own : BOOLEAN]

Request == [from : Workers \cup {NoWorker}, kind : Requests, newest : BOOLEAN]

AtWork(t) == t.point \in {"ready", "numbered", "await"}

\* A program is not empty.
LEMMA ProgramType ==
  ASSUME NEW op \in Tools \cup {"navigate"}, NEW stage \in {1, 2}
  PROVE  Program(op, stage) \in Seq(Requests) /\ Program(op, stage) # <<>>
<1>1. /\ <<"observe">> \in Seq(Requests) /\ <<"navigate">> \in Seq(Requests)
      /\ <<"poll">> \in Seq(Requests) /\ <<"text">> \in Seq(Requests)
      /\ <<"fill">> \in Seq(Requests) /\ <<"text", "click", "poll">> \in Seq(Requests)
  BY DEF Requests
<1>2. /\ <<"fill">> \o <<"text", "click", "poll">> \in Seq(Requests)
      /\ <<"fill">> \o <<"text", "click", "poll">> # <<>>
  BY <1>1
<1>3. op \in Acts => op = "fill" \/ op = "click" \/ op = "fill_click"
  BY DEF Acts
<1> QED  BY <1>1, <1>2, <1>3 DEF Program, ActProgram, PageProgram

LEMMA CloseProgramType == CloseProgram \in Seq(Requests) /\ CloseProgram # <<>>
BY DEF CloseProgram, Requests

LEMMA IdleType == Idle \in Thread /\ ~AtWork(Idle) /\ Idle.role = "none" /\ Idle.own
<1>1. <<>> \in Seq(Requests)
  OBVIOUS
<1> QED  BY <1>1 DEF Idle, Thread, AtWork

LEMMA NoToolFacts ==
  ASSUME TypeOK
  PROVE  /\ tool.own \in BOOLEAN /\ tool.stage \in {1, 2}
         /\ tool.op \in Tools \cup {"navigate", "none"}
         /\ tool.worker \in Workers \cup {NoWorker}
         /\ tool = NoTool => tool.op = "none" /\ tool.worker = NoWorker /\ tool.own
BY DEF TypeOK, NoTool

\* There is always a free worker.
LEMMA FreeWorkerIsIdle ==
  ASSUME IInv
  PROVE  FreeWorker \in Workers /\ threads[FreeWorker] = Idle
<1>1. PICK a, b \in Workers \cup {NoWorker} :
        /\ \A w \in Workers : threads[w].role = "abandoned" => w \in {a, b}
        /\ a # NoWorker => tool = NoTool
        /\ b # NoWorker => phase \in {"cleanup", "closed"}
  BY DEF IInv, FewAbandoned
<1>2. PICK x \in Workers \cup {NoWorker} :
        \A w \in Workers : threads[w].role = "tool" => w = x
  BY NoToolFacts DEF IInv, ThreadsAwaited
<1>3. x # NoWorker /\ a # NoWorker => \A w \in Workers : threads[w].role # "tool"
  BY <1>1, <1>2 DEF IInv, ThreadsAwaited
<1>4. PICK y \in Workers \cup {NoWorker} :
        \A w \in Workers : threads[w].role = "capture" => w = y
  BY DEF IInv, ThreadsAwaited
<1>5. PICK z \in Workers \cup {NoWorker} :
        \A w \in Workers : threads[w].role = "close" => w = z
  BY DEF IInv, ThreadsAwaited
<1>6. b # NoWorker => \A w \in Workers : threads[w].role # "capture"
  BY <1>1 DEF IInv, ThreadsAwaited
<1>7. PICK p, q \in Workers \cup {NoWorker} :
        \A w \in Workers : threads[w].role # "none" => w \in {p, q, z}
  <2>1. \A w \in Workers : threads[w].role \in {"none", "tool", "abandoned", "capture", "close"}
    BY DEF IInv, TypeOK
  <2>2. a = NoWorker \/ \A w \in Workers : threads[w].role # "tool"
    BY <1>2, <1>3, ToolsAssumption
  <2>3. \E p \in Workers \cup {NoWorker} :
          \A w \in Workers : threads[w].role = "tool" \/ (threads[w].role = "abandoned" /\ w = a) => w = p
    <3>1. a = NoWorker => \A w \in Workers :
            threads[w].role = "tool" \/ (threads[w].role = "abandoned" /\ w = a) => w = x
      BY <1>2, ToolsAssumption
    <3>2. a # NoWorker => \A w \in Workers :
            threads[w].role = "tool" \/ (threads[w].role = "abandoned" /\ w = a) => w = a
      BY <2>2
    <3> QED  BY <3>1, <3>2
  <2>4. \E q \in Workers \cup {NoWorker} :
          \A w \in Workers : threads[w].role = "capture" \/ (threads[w].role = "abandoned" /\ w = b) => w = q
    <3>1. b = NoWorker => \A w \in Workers :
            threads[w].role = "capture" \/ (threads[w].role = "abandoned" /\ w = b) => w = y
      BY <1>4, ToolsAssumption
    <3>2. b # NoWorker => \A w \in Workers :
            threads[w].role = "capture" \/ (threads[w].role = "abandoned" /\ w = b) => w = b
      BY <1>6
    <3> QED  BY <3>1, <3>2
  <2>5. PICK p \in Workers \cup {NoWorker} :
          \A w \in Workers : threads[w].role = "tool" \/ (threads[w].role = "abandoned" /\ w = a) => w = p
    BY <2>3
  <2>6. PICK q \in Workers \cup {NoWorker} :
          \A w \in Workers : threads[w].role = "capture" \/ (threads[w].role = "abandoned" /\ w = b) => w = q
    BY <2>4
  <2>7. ASSUME NEW w \in Workers, threads[w].role # "none" PROVE w \in {p, q, z}
    <3>1. threads[w].role \in {"tool", "capture", "close", "abandoned"}
      BY <2>1, <2>7
    <3>2. threads[w].role = "abandoned" => w = a \/ w = b
      BY <1>1
    <3> QED  BY <1>5, <2>5, <2>6, <3>1, <3>2
  <2> QED  BY <2>7
<1>8. PICK w \in Workers : w \notin {p, q, z}
  <2>1. Workers \ {p, q, z} # {}
    BY ToolsAssumption
  <2> QED  BY <2>1
<1>9. threads[w] = Idle
  BY <1>7, <1>8 DEF IInv, ThreadsInShape, Busy
<1> QED  BY <1>9 DEF FreeWorker

-----------------------------------------------------------------------------
(* The steps of a thread *)

\* A thread that is at work becomes t, and nothing but the wires changes.
ThreadStep(w, t) ==
  /\ AtWork(threads[w]) /\ t \in Thread
  /\ threads' = [threads EXCEPT ![w] = t]
  /\ t.role = threads[w].role \/ (threads[w].role = "abandoned" /\ t = Idle)
  /\ AtWork(t) => t.todo # <<>>
  /\ t.role = "abandoned" => AtWork(t)
  /\ inflight' \in SUBSET Request /\ socket' \in BOOLEAN
  /\ UNCHANGED <<client, heard, calls, phase, steps, tool, events, guard, final,
                 settled, page>>

LEMMA ThreadFacts ==
  ASSUME IInv, NEW w \in Workers
  PROVE  /\ threads[w] \in Thread
         /\ inflight \in SUBSET Request
         /\ AtWork(threads[w]) => /\ threads[w].todo # <<>> /\ threads[w].role # "none"
                                  /\ Head(threads[w].todo) \in Requests
                                  /\ Tail(threads[w].todo) \in Seq(Requests)
         /\ Alive(w) <=> AtWork(threads[w])
<1>1. threads[w] \in Thread /\ inflight \in SUBSET Request
  BY DEF IInv, TypeOK, Thread, Request
<1>2. Alive(w) <=> AtWork(threads[w])
  BY DEF Alive, AtWork
<1>3. threads[w].todo \in Seq(Requests)
  BY <1>1 DEF Thread
<1>4. AtWork(threads[w]) => threads[w].todo # <<>>
  BY <1>2 DEF IInv, ThreadsInShape
<1>5. AtWork(threads[w]) => threads[w].role # "none"
  BY IdleType DEF IInv, ThreadsInShape, Busy
<1>6. threads[w].todo # <<>> =>
        Head(threads[w].todo) \in Requests /\ Tail(threads[w].todo) \in Seq(Requests)
  BY <1>3
<1> QED  BY <1>1, <1>2, <1>4, <1>5, <1>6

\* What the guard knows does not change with the rest of the state.
LEMMA GuardKept ==
  ASSUME GuardCounts, UNCHANGED <<guard, events>>, Count' = Count, History' = History
  PROVE  GuardCounts'
BY DEF GuardCounts, RunAt, Streak

\* What a thread's step leaves to be shown of the invariant.
LEMMA ThreadStepKeeps ==
  ASSUME IInv, NEW w \in Workers, NEW t, ThreadStep(w, t), OnlyTheTool', OnlyTheCapture'
  PROVE  IInv'
<1>1. threads \in [Workers -> Thread]
  BY DEF IInv, TypeOK, Thread
<1>2. \A v \in Workers : threads'[v] = IF v = w THEN t ELSE threads[v]
  BY <1>1 DEF ThreadStep
<1>3. threads' \in [Workers -> Thread]
  BY <1>1 DEF ThreadStep
<1>4. UNCHANGED <<client, heard, calls, phase, steps, tool, events, guard, final,
                  settled, page>>
  BY DEF ThreadStep
<1>5. threads[w].role # "none"
  BY ThreadFacts DEF ThreadStep
<1>6. ThreadsInShape'
  BY <1>2, <1>4, IdleType DEF IInv, ThreadsInShape, ThreadStep, Busy, Alive, AtWork
<1>7. ThreadsAwaited'
  BY <1>2, <1>4, <1>5, IdleType DEF IInv, ThreadsAwaited, ThreadStep
<1>8. FewAbandoned'
  <2>1. \A v \in Workers : threads'[v].role = "abandoned" => threads[v].role = "abandoned"
    BY <1>2, IdleType DEF ThreadStep
  <2> QED  BY <1>4, <2>1 DEF IInv, FewAbandoned
<1>9. TypeOK'
  <2>1. tool' = NoTool \/ threads'[tool'.worker].role = "tool"
    BY <1>7, <1>4 DEF ThreadsAwaited
  <2> QED  BY <1>3, <1>4, <2>1 DEF IInv, TypeOK, ThreadStep, Thread, Request
<1>10. HandlersAgree' /\ SuccessIsLast' /\ HeardIsOwn' /\ EvidenceIsOwn'
  BY <1>4 DEF IInv, HandlersAgree, SuccessIsLast, HeardIsOwn, EvidenceIsOwn
<1>11. GuardCounts'
  <2>1. Count' = Count /\ History' = History
    BY <1>4 DEF Count, History
  <2> QED  BY <1>4, <2>1, GuardKept DEF IInv
<1> QED  BY <1>6, <1>7, <1>8, <1>9, <1>10, <1>11 DEF IInv

\* Who uses the socket while only one thread does.
LEMMA AloneFacts ==
  ASSUME IInv, NEW w \in Workers, AtWork(threads[w])
  PROVE  /\ phase \in {"setup", "open"} /\ guard.reason # "timeout" =>
              /\ w = tool.worker /\ threads[w].role = "tool" /\ socket
              /\ threads[w].own
              /\ \A r \in inflight : r.from = w /\ threads[w].point = "await"
         /\ settled /\ phase = "capture" =>
              /\ threads[w].role = "capture" /\ threads[w].own
              /\ threads[w].point \in {"numbered", "await"} =>
                   \A r \in inflight : r.newest => r.from = w
              /\ \A v \in Workers : Busy(v) => v = w
<1>1. Busy(w)
  BY IdleType DEF Busy
<1>2. phase \in {"setup", "open"} /\ guard.reason # "timeout" =>
        w = tool.worker /\ threads[w].role = "tool"
  BY <1>1, NoToolFacts, ToolsAssumption DEF IInv, OnlyTheTool, ThreadsAwaited
<1>3. settled /\ phase = "capture" => threads[w].role = "capture"
  BY <1>1 DEF IInv, OnlyTheCapture
<1>4. settled /\ phase = "capture" => \A v \in Workers : Busy(v) => v = w
  BY <1>3 DEF IInv, OnlyTheCapture, ThreadsAwaited
<1> QED  BY <1>2, <1>3, <1>4 DEF IInv, OnlyTheTool, OnlyTheCapture

\* Nothing is shown of the sockets' use when more than one thread may use it.
LEMMA AloneKept ==
  ASSUME IInv, NEW w \in Workers, NEW t, ThreadStep(w, t),
         phase \in {"setup", "open"} /\ guard.reason # "timeout" =>
           /\ socket' /\ t.own
           /\ \A r \in inflight' : r.from = w /\ t.point = "await"
           /\ \A r, s \in inflight' : r = s,
         settled /\ phase = "capture" =>
           /\ t.own
           /\ t.point \in {"numbered", "await"} => \A r \in inflight' : r.newest => r.from = w
  PROVE  OnlyTheTool' /\ OnlyTheCapture'
<1>1. \A v \in Workers : threads'[v] = IF v = w THEN t ELSE threads[v]
  BY DEF ThreadStep, IInv, TypeOK
<1>2. AtWork(threads[w]) /\ UNCHANGED <<phase, steps, tool, guard, settled>>
  BY DEF ThreadStep
<1>3. t # Idle => t.role = threads[w].role
  BY DEF ThreadStep
<1>4. \A v \in Workers \ {w} : Busy(v)' <=> Busy(v)
  BY <1>1 DEF Busy
<1>5. OnlyTheTool'
  <2> SUFFICES ASSUME phase \in {"setup", "open"}, guard.reason # "timeout"
               PROVE  /\ socket' /\ tool.own
                      /\ \A v \in Workers : threads'[v].own /\ (Busy(v)' => v = tool.worker)
                      /\ \A r \in inflight' :
                           /\ r.from \in Workers /\ r.from = tool.worker
                           /\ threads'[r.from].point = "await"
                      /\ \A r, s \in inflight' : r = s
    BY <1>2 DEF OnlyTheTool
  <2>1. w = tool.worker
    BY <1>2, AloneFacts
  <2>2. tool.own /\ \A v \in Workers : threads[v].own /\ (Busy(v) => v = tool.worker)
    BY DEF IInv, OnlyTheTool
  <2> QED  BY <1>1, <1>4, <2>1, <2>2
<1>6. OnlyTheCapture'
  <2> SUFFICES ASSUME settled, phase = "capture"
               PROVE  /\ steps = <<>> /\ tool = NoTool
                      /\ \A v \in Workers :
                           /\ Busy(v)' => threads'[v].role = "capture"
                           /\ threads'[v].own
                           /\ threads'[v].point \in {"numbered", "await"} =>
                                \A r \in inflight' : r.newest => r.from = v
    BY <1>2 DEF OnlyTheCapture
  <2>1. /\ steps = <<>> /\ tool = NoTool
        /\ \A v \in Workers : threads[v].own
    BY DEF IInv, OnlyTheCapture
  <2>2. threads[w].role = "capture" /\ \A v \in Workers : Busy(v) => v = w
    BY <1>2, AloneFacts
  <2>3. \A v \in Workers \ {w} : ~Busy(v)' /\ threads'[v] = Idle
    BY <1>1, <2>2 DEF Busy
  <2>4. Busy(w)' => threads'[w].role = "capture"
    BY <1>1, <1>3, <2>2 DEF Busy
  <2> QED  BY <1>1, <2>1, <2>3, <2>4 DEF Idle
<1> QED  BY <1>5, <1>6

LEMMA NumberKeeps ==
  ASSUME IInv, NEW w \in Workers, Number(w)
  PROVE  IInv'
<1> DEFINE t == [threads[w] EXCEPT !.point = "numbered"]
<1>1. threads[w] \in Thread /\ inflight \in SUBSET Request /\ AtWork(threads[w])
  BY ThreadFacts DEF Number, AtWork
<1>2. t \in Thread /\ t.role = threads[w].role /\ t.todo = threads[w].todo
      /\ t.point = "numbered" /\ t.own = threads[w].own
  BY <1>1 DEF Thread
<1>3. \A r \in inflight :
        LET s == [r EXCEPT !.newest = FALSE, !.from = NoWorker]
        IN  s \in Request /\ ~s.newest
  BY <1>1 DEF Request
<1>4. inflight' \in SUBSET Request /\ (\A r \in inflight' : ~r.newest)
  BY <1>3 DEF Number
<1>5. inflight = {} => inflight' = {}
  BY DEF Number
<1>6. ThreadStep(w, t)
  <2>1. socket' \in BOOLEAN
    BY DEF Number, IInv, TypeOK
  <2>2. threads' = [threads EXCEPT ![w] = t]
    BY DEF Number
  <2>3. threads[w].todo # <<>>
    BY <1>1, ThreadFacts
  <2> HIDE DEF t
  <2> QED  BY <1>1, <1>2, <1>4, <2>1, <2>2, <2>3
           DEF Number, ThreadStep, AtWork, clientVars, serverVars
<1>7. threads[w].point = "ready"
  BY DEF Number
<1>8. phase \in {"setup", "open"} /\ guard.reason # "timeout" =>
        inflight' = {} /\ socket' /\ t.own
  BY <1>1, <1>2, <1>5, <1>7, AloneFacts DEF Number
<1>9. settled /\ phase = "capture" => t.own
  BY <1>1, <1>2, AloneFacts
<1> HIDE DEF t
<1>10. OnlyTheTool' /\ OnlyTheCapture'
  BY <1>4, <1>6, <1>8, <1>9, AloneKept
<1> QED  BY <1>6, <1>10, ThreadStepKeeps

\* The end of a thread keeps the invariant, when it ends alone with nothing left
\* to receive and with its own results.
LEMMA EndKeeps ==
  ASSUME IInv, NEW w \in Workers, AtWork(threads[w]), NEW point \in {"done", "raised"},
         NEW own \in BOOLEAN, NEW unread \in SUBSET inflight, End(w, point, own, unread),
         UNCHANGED <<client, heard, calls, phase, steps, tool, events, guard, final,
                     settled, page>>,
         phase \in {"setup", "open"} /\ guard.reason # "timeout" => unread = {} /\ own,
         settled /\ phase = "capture" => own
  PROVE  IInv'
<1> DEFINE t == IF threads[w].role = "abandoned" THEN Idle
                ELSE [threads[w] EXCEPT !.point = point, !.own = own]
<1>1. threads[w] \in Thread /\ inflight \in SUBSET Request
  BY ThreadFacts
<1>2. threads' = [threads EXCEPT ![w] = t]
  BY DEF End
<1>3. t \in Thread /\ ~AtWork(t) /\ t.own \in {own, TRUE}
  BY <1>1, IdleType DEF Thread, AtWork
<1>4. t.role = threads[w].role \/ (threads[w].role = "abandoned" /\ t = Idle)
  BY <1>1 DEF Thread
<1>5. t.role # "abandoned"
  BY <1>4, IdleType
<1>6. /\ ThreadStep(w, t)
      /\ threads[w].role # "close" => socket' = socket
      /\ unread = {} => inflight' = {}
  <2>1. CASE threads[w].role = "close"
    <3>1. socket' = FALSE /\ inflight' = {}
      BY <2>1 DEF End
    <3> QED  BY <1>2, <1>3, <1>4, <1>5, <2>1, <3>1 DEF ThreadStep
  <2>2. CASE threads[w].role # "close"
    <3>1. /\ socket' = socket
          /\ inflight' = {[r EXCEPT !.from = IF @ = w THEN NoWorker ELSE @] : r \in unread}
      BY <2>2 DEF End
    <3>2. \A s \in unread : [s EXCEPT !.from = IF @ = w THEN NoWorker ELSE @] \in Request
      BY <1>1 DEF Request
    <3>3. inflight' \in SUBSET Request
      BY <3>1, <3>2
    <3>4. socket' \in BOOLEAN
      BY <3>1 DEF IInv, TypeOK
    <3>5. ThreadStep(w, t)
      BY <1>2, <1>3, <1>4, <1>5, <3>3, <3>4 DEF ThreadStep
    <3> QED  BY <2>2, <3>1, <3>5
  <2> QED  BY <2>1, <2>2
<1> HIDE DEF t
<1>7. phase \in {"setup", "open"} /\ guard.reason # "timeout" => socket'
  BY <1>6, AloneFacts
<1>8. t.point \notin {"numbered", "await"} /\ (own => t.own)
  BY <1>3 DEF AtWork
<1>9. phase \in {"setup", "open"} /\ guard.reason # "timeout" =>
        socket' /\ t.own /\ inflight' = {}
  BY <1>6, <1>7, <1>8
<1>10. settled /\ phase = "capture" => t.own
  BY <1>8
<1>11. OnlyTheTool' /\ OnlyTheCapture'
  BY <1>6, <1>8, <1>9, <1>10, AloneKept
<1> QED  BY <1>6, <1>11, ThreadStepKeeps

LEMMA RaiseKeeps ==
  ASSUME IInv, NEW w \in Workers, AtWork(threads[w]), NEW unread \in SUBSET inflight,
         Raise(w, unread), UNCHANGED <<clientVars, serverVars, page>>,
         phase \in {"setup", "open"} /\ guard.reason # "timeout" => unread = {}
  PROVE  IInv'
<1>1. PICK own \in BOOLEAN : own = threads[w].own
  BY ThreadFacts DEF Thread
<1>2. End(w, "raised", own, unread)
  BY <1>1 DEF Raise
<1>3. UNCHANGED <<client, heard, calls, phase, steps, tool, events, guard, final,
                  settled, page>>
  BY DEF clientVars, serverVars
<1>4. phase \in {"setup", "open"} /\ guard.reason # "timeout" => unread = {} /\ own
  BY <1>1, AloneFacts
<1>5. settled /\ phase = "capture" => own
  BY <1>1, AloneFacts
<1> QED  BY <1>2, <1>3, <1>4, <1>5, EndKeeps

LEMMA SendKeeps ==
  ASSUME IInv, NEW w \in Workers, Send(w)
  PROVE  IInv'
<1>1. threads[w] \in Thread /\ inflight \in SUBSET Request /\ AtWork(threads[w])
      /\ threads[w].point = "numbered"
  BY ThreadFacts DEF Send, AtWork
<1>2. phase \in {"setup", "open"} /\ guard.reason # "timeout" => inflight = {} /\ socket
  BY <1>1, AloneFacts
<1>3. CASE socket
  <2> DEFINE t == [threads[w] EXCEPT !.point = "await"]
             request == [from |-> w, kind |-> Head(threads[w].todo), newest |-> TRUE]
  <2>1. t \in Thread /\ t.role = threads[w].role /\ t.todo = threads[w].todo
        /\ t.point = "await" /\ t.own = threads[w].own
    BY <1>1 DEF Thread
  <2>2. request \in Request /\ request.from = w
    BY <1>1, ThreadFacts DEF Request
  <2>3. inflight' = inflight \cup {request} /\ socket' = socket
        /\ threads' = [threads EXCEPT ![w] = t]
    BY <1>3 DEF Send
  <2>4. threads[w].todo # <<>>
    BY <1>1, ThreadFacts
  <2>5. UNCHANGED <<client, heard, calls, phase, steps, tool, events, guard, final,
                    settled, page>>
    BY DEF Send, clientVars, serverVars
  <2> HIDE DEF t, request
  <2>6. inflight' \in SUBSET Request
    BY <1>1, <2>2, <2>3
  <2>7. ThreadStep(w, t)
    BY <1>1, <1>3, <2>1, <2>3, <2>4, <2>5, <2>6 DEF ThreadStep, AtWork
  <2>8. phase \in {"setup", "open"} /\ guard.reason # "timeout" =>
          inflight' = {request} /\ t.own
    BY <1>1, <1>2, <2>1, <2>3, AloneFacts
  <2>9. settled /\ phase = "capture" =>
          t.own /\ \A r \in inflight' : r.newest => r.from = w
    BY <1>1, <2>1, <2>2, <2>3, AloneFacts
  <2>10. OnlyTheTool' /\ OnlyTheCapture'
    BY <1>3, <2>1, <2>2, <2>3, <2>7, <2>8, <2>9, AloneKept
  <2> QED  BY <2>7, <2>10, ThreadStepKeeps
<1>4. CASE ~socket
  <2>1. Raise(w, inflight) /\ UNCHANGED <<clientVars, serverVars, page>>
    BY <1>4 DEF Send
  <2> QED  BY <1>1, <1>2, <1>4, <2>1, RaiseKeeps
<1> QED  BY <1>3, <1>4

LEMMA ReceiveKeeps ==
  ASSUME IInv, NEW w \in Workers, NEW reply \in inflight, Receive(w, reply)
  PROVE  IInv'
<1> DEFINE own == threads[w].own /\ reply.from = w
           unread == inflight \ {reply}
<1>1. threads[w] \in Thread /\ inflight \in SUBSET Request /\ AtWork(threads[w])
      /\ threads[w].point = "await"
  BY ThreadFacts DEF Receive, AtWork
<1>2. own \in BOOLEAN /\ unread \in SUBSET inflight
  BY <1>1 DEF Thread
<1>3. phase \in {"setup", "open"} /\ guard.reason # "timeout" =>
        unread = {} /\ own /\ socket
  <2>1. phase \in {"setup", "open"} /\ guard.reason # "timeout" =>
          \A r, s \in inflight : r = s
    BY DEF IInv, OnlyTheTool
  <2> QED  BY <1>1, <2>1, AloneFacts
<1>4. settled /\ phase = "capture" =>
        /\ threads[w].own
        /\ \A r \in inflight : r.newest => r.from = w
  BY <1>1, AloneFacts
<1>5. settled /\ phase = "capture" /\ Matches(reply) => own
  BY <1>4 DEF Matches
<1>6. UNCHANGED <<clientVars, serverVars, page>>
  BY DEF Receive
<1>7. UNCHANGED <<client, heard, calls, phase, steps, tool, events, guard, final,
                  settled, page>>
  BY <1>6 DEF clientVars, serverVars
<1>8. CASE ~Matches(reply) /\ inflight' = unread /\ UNCHANGED <<threads, socket>>
  <2>1. threads' = [threads EXCEPT ![w] = threads[w]]
    BY <1>8 DEF IInv, TypeOK
  <2>2. threads[w].todo # <<>> /\ threads[w].own \in BOOLEAN
    BY <1>1, ThreadFacts DEF Thread
  <2>3. inflight' \in SUBSET Request /\ socket' \in BOOLEAN
    BY <1>1, <1>8 DEF IInv, TypeOK
  <2>4. ThreadStep(w, threads[w])
    BY <1>1, <1>7, <1>8, <2>1, <2>2, <2>3 DEF ThreadStep
  <2>5. phase \in {"setup", "open"} /\ guard.reason # "timeout" =>
          inflight' = {} /\ socket' /\ threads[w].own
    BY <1>3, <1>8
  <2>6. settled /\ phase = "capture" =>
          threads[w].own /\ \A r \in inflight' : r.newest => r.from = w
    BY <1>4, <1>8
  <2>7. OnlyTheTool' /\ OnlyTheCapture'
    BY <2>4, <2>5, <2>6, AloneKept
  <2> QED  BY <2>4, <2>7, ThreadStepKeeps
<1>9. CASE Matches(reply) /\ Raise(w, unread)
  <2> HIDE DEF own, unread
  <2> QED  BY <1>1, <1>2, <1>3, <1>6, <1>9, RaiseKeeps
<1>10. CASE Matches(reply) /\ End(w, "done", own, unread)
  <2> HIDE DEF own, unread
  <2> QED  BY <1>1, <1>2, <1>3, <1>5, <1>7, <1>10, EndKeeps
<1>11. CASE /\ Matches(reply) /\ Tail(threads[w].todo) # <<>> /\ inflight' = unread
            /\ threads' = [threads EXCEPT ![w] =
                 [@ EXCEPT !.todo = Tail(threads[w].todo), !.point = "ready", !.own = own]]
            /\ UNCHANGED socket
  <2> DEFINE t == [threads[w] EXCEPT !.todo = Tail(threads[w].todo), !.point = "ready",
                                     !.own = own]
  <2>1. Tail(threads[w].todo) \in Seq(Requests)
    BY <1>1, ThreadFacts
  <2>2. t \in Thread /\ t.role = threads[w].role /\ t.todo # <<>>
        /\ t.point = "ready" /\ t.own = own
    BY <1>1, <1>2, <1>11, <2>1 DEF Thread
  <2>3. threads' = [threads EXCEPT ![w] = t]
    BY <1>11
  <2>4. inflight' \in SUBSET Request /\ socket' \in BOOLEAN
    BY <1>1, <1>11 DEF IInv, TypeOK
  <2> HIDE DEF t
  <2>5. ThreadStep(w, t)
    BY <1>1, <1>7, <2>2, <2>3, <2>4 DEF ThreadStep, AtWork
  <2>6. phase \in {"setup", "open"} /\ guard.reason # "timeout" =>
          inflight' = {} /\ socket' /\ t.own
    BY <1>3, <1>11, <2>2
  <2>7. settled /\ phase = "capture" => t.own
    BY <1>5, <1>11, <2>2
  <2>8. OnlyTheTool' /\ OnlyTheCapture'
    BY <2>2, <2>5, <2>6, <2>7, AloneKept
  <2> QED  BY <2>5, <2>8, ThreadStepKeeps
<1> QED  BY <1>8, <1>9, <1>10, <1>11 DEF Receive

LEMMA RecvTimeoutKeeps ==
  ASSUME IInv, NEW w \in Workers, RecvTimeout(w)
  PROVE  IInv'
<1>1. AtWork(threads[w]) /\ threads[w].role \in {"abandoned", "close"}
  BY DEF RecvTimeout, AtWork
<1>2. Raise(w, inflight) /\ UNCHANGED <<clientVars, serverVars, page>>
  BY DEF RecvTimeout
<1>3. ~(phase \in {"setup", "open"} /\ guard.reason # "timeout")
  BY <1>1, AloneFacts
<1> QED  BY <1>1, <1>2, <1>3, RaiseKeeps

LEMMA BrokenKeeps ==
  ASSUME IInv, NEW w \in Workers, Broken(w)
  PROVE  IInv'
<1>1. AtWork(threads[w]) /\ ~socket
  BY DEF Broken, AtWork
<1>2. Raise(w, inflight) /\ UNCHANGED <<clientVars, serverVars, page>>
  BY DEF Broken
<1>3. ~(phase \in {"setup", "open"} /\ guard.reason # "timeout")
  BY <1>1, AloneFacts
<1> QED  BY <1>1, <1>2, <1>3, RaiseKeeps

LEMMA NoControlKeeps ==
  ASSUME IInv, NEW w \in Workers, NoControl(w)
  PROVE  IInv'
<1>1. AtWork(threads[w]) /\ threads[w].point = "ready"
  BY DEF NoControl, AtWork
<1>2. Raise(w, inflight) /\ UNCHANGED <<clientVars, serverVars, page>>
  BY DEF NoControl
<1>3. phase \in {"setup", "open"} /\ guard.reason # "timeout" => inflight = {}
  BY <1>1, AloneFacts
<1> QED  BY <1>1, <1>2, <1>3, RaiseKeeps

-----------------------------------------------------------------------------
(* The calls that the guard counts *)

LEMMA GuardType ==
  ASSUME IInv
  PROVE  /\ guard \in [reason : {"none", "timeout", "no_progress"},
                       last : Tools \cup {"navigate", "none"}, repeated : 0..MaxRepeated]
         /\ Len(events) \in Nat /\ Count \in Nat
         /\ \A op : guard.reason = "none" =>
              /\ guard.repeated < MaxRepeated
              /\ Counted(op).last = op
              /\ Counted(op).repeated = IF guard.last = op THEN guard.repeated + 1 ELSE 0
              /\ Counted(op).reason = IF Counted(op).repeated >= MaxRepeated
                                      THEN "no_progress" ELSE "none"
         /\ \A op \in Tools \cup {"navigate"} : guard.reason = "none" =>
              Counted(op) \in [reason : {"none", "timeout", "no_progress"},
                               last : Tools \cup {"navigate", "none"},
                               repeated : 0..MaxRepeated]
<1>1. /\ guard \in [reason : {"none", "timeout", "no_progress"},
                    last : Tools \cup {"navigate", "none"}, repeated : 0..MaxRepeated]
      /\ Len(events) \in Nat
  BY DEF IInv, TypeOK
<1>2. Count \in Nat
  BY <1>1 DEF Count
<1>3. MaxRepeated \in Nat /\ guard.repeated \in 0..MaxRepeated
  BY <1>1, ToolsAssumption
<1>4. guard.reason = "none" => guard.repeated < MaxRepeated
  BY DEF IInv, GuardCounts
<1> QED  BY <1>1, <1>2, <1>3, <1>4 DEF Counted

\* One more call: before_tool goes on counting, and finds a run exactly when the
\* call came once too often.
LEMMA StreakGrows ==
  ASSUME NEW n \in Nat, NEW c, NEW d, \A k \in 1..n : d[k] = c[k],
         NEW last, NEW repeated \in Nat, Streak(c, n, last, repeated),
         repeated < MaxRepeated, d[n + 1] # "none",
         NEW again \in Nat, again = IF last = d[n + 1] THEN repeated + 1 ELSE 0
  PROVE  /\ Streak(d, n + 1, d[n + 1], again)
         /\ RunAt(d, n + 1) <=> again >= MaxRepeated
<1>1. MaxRepeated \in Nat /\ MaxRepeated > 0
  BY ToolsAssumption
<1>2. again \in 0..n /\ repeated \in 0..n
  BY DEF Streak
<1>3. ASSUME NEW k \in (n + 1 - again)..(n + 1) PROVE d[k] = d[n + 1]
  <2>1. CASE k = n + 1
    BY <2>1
  <2>2. CASE k # n + 1
    <3>1. k \in 1..n /\ n > 0 /\ again # 0
      BY <1>2, <2>2
    <3>2. last = d[n + 1] /\ again = repeated + 1 /\ last = c[n]
      BY <3>1 DEF Streak
    <3>3. k \in (n - repeated)..n
      BY <1>2, <3>1, <3>2
    <3>4. c[k] = c[n]
      BY <3>1, <3>3 DEF Streak
    <3> QED  BY <3>1, <3>2, <3>4
  <2> QED  BY <2>1, <2>2
<1>4. ASSUME again < n PROVE d[n - again] # d[n + 1]
  <2>1. n > 0 /\ n - again \in 1..n /\ n \in 1..n
    BY <1>2, <1>4
  <2>2. CASE last = d[n + 1]
    <3>1. again = repeated + 1 /\ repeated < n - 1 /\ last = c[n]
      BY <1>2, <1>4, <2>1, <2>2 DEF Streak
    <3>2. c[n - repeated - 1] # c[n]
      BY <2>1, <3>1 DEF Streak
    <3>3. n - repeated - 1 = n - again
      BY <1>2, <3>1
    <3> QED  BY <2>1, <2>2, <3>1, <3>2, <3>3
  <2>3. CASE last # d[n + 1]
    <3>1. again = 0 /\ last = c[n]
      BY <2>1, <2>3 DEF Streak
    <3>2. n - again = n
      BY <3>1
    <3> QED  BY <2>1, <2>3, <3>1, <3>2
  <2> QED  BY <2>2, <2>3
<1>5. Streak(d, n + 1, d[n + 1], again)
  <2>1. n + 1 # 0 /\ again \in 0..(n + 1 - 1)
    BY <1>2
  <2>2. again < n + 1 - 1 => d[n + 1 - again - 1] # d[n + 1]
    <3>1. n + 1 - again - 1 = n - again
      BY <1>2
    <3> QED  BY <1>2, <1>4, <3>1
  <2> QED  BY <1>3, <2>1, <2>2 DEF Streak
<1>6. ASSUME again >= MaxRepeated PROVE RunAt(d, n + 1)
  <2>1. n + 1 > MaxRepeated
    BY <1>1, <1>2, <1>6
  <2>2. ASSUME NEW k \in ((n + 1) - MaxRepeated)..(n + 1) PROVE d[k] = d[n + 1]
    <3>1. k \in (n + 1 - again)..(n + 1)
      BY <1>1, <1>2, <1>6
    <3> QED  BY <1>3, <3>1
  <2> QED  BY <2>1, <2>2, Zenon DEF RunAt
<1>7. ASSUME again < MaxRepeated, RunAt(d, n + 1) PROVE FALSE
  <2>1. /\ n + 1 > MaxRepeated
        /\ \A k \in ((n + 1) - MaxRepeated)..(n + 1) : d[k] = d[n + 1]
    BY <1>7, Zenon DEF RunAt
  <2>2. again < n /\ n - again \in ((n + 1) - MaxRepeated)..(n + 1)
    BY <1>1, <1>2, <1>7, <2>1
  <2>3. d[n - again] = d[n + 1]
    BY <2>1, <2>2, Zenon
  <2> QED  BY <1>4, <2>2, <2>3
<1>8. again >= MaxRepeated \/ again < MaxRepeated
  BY <1>1
<1> QED  BY <1>5, <1>6, <1>7, <1>8

\* Whether a run ends at a call depends on that call and the ones before it.
LEMMA RunDependsOnPast ==
  ASSUME NEW n \in Nat, NEW c, NEW d, \A k \in 1..n : d[k] = c[k], NEW j \in 1..n
  PROVE  RunAt(d, j) <=> RunAt(c, j)
<1>1. MaxRepeated \in Nat
  BY ToolsAssumption
<1>2. j > MaxRepeated => \A k \in (j - MaxRepeated)..j : k \in 1..n
  BY <1>1
<1> QED  BY <1>2 DEF RunAt

\* One more call, while the guard has refused none.
LEMMA CountedGrows ==
  ASSUME IInv, guard.reason = "none", NEW op \in Tools \cup {"navigate"},
         Count' = Count + 1, \A k \in 1..Count : History'[k] = History[k],
         History'[Count + 1] = op
  PROVE  /\ \A j \in 1..Count : ~RunAt(History', j)
         /\ Counted(op).reason = "none" =>
              /\ Counted(op).repeated < MaxRepeated
              /\ Streak(History', Count', op, Counted(op).repeated)
              /\ ~RunAt(History', Count')
         /\ Counted(op).reason # "none" =>
              Counted(op).reason = "no_progress" /\ RunAt(History', Count')
<1>1. /\ guard.repeated < MaxRepeated /\ guard.repeated \in Nat /\ MaxRepeated \in Nat
      /\ Streak(History, Count, guard.last, guard.repeated)
      /\ \A j \in 1..Count : ~RunAt(History, j)
  BY GuardType, ToolsAssumption DEF IInv, GuardCounts
<1>2. Count \in Nat /\ op # "none"
  BY GuardType, ToolsAssumption DEF Tools
<1>3. /\ Counted(op).repeated = IF guard.last = op THEN guard.repeated + 1 ELSE 0
      /\ Counted(op).reason = IF Counted(op).repeated >= MaxRepeated
                              THEN "no_progress" ELSE "none"
  BY GuardType
<1>4. PICK again \in Nat : again = IF guard.last = op THEN guard.repeated + 1 ELSE 0
  BY <1>1
<1>5. PICK n \in Nat : n = Count
  BY <1>2
<1>6. PICK d : d = History'
  OBVIOUS
<1>7. PICK c : c = History
  OBVIOUS
<1>8. \A k \in 1..n : d[k] = c[k]
  BY <1>5, <1>6, <1>7
<1>9. Streak(d, n + 1, op, again) /\ (RunAt(d, n + 1) <=> again >= MaxRepeated)
  <2>1. d[n + 1] = op /\ Streak(c, n, guard.last, guard.repeated)
    BY <1>1, <1>5, <1>6, <1>7
  <2>2. d[n + 1] # "none" /\ again = IF guard.last = d[n + 1] THEN guard.repeated + 1 ELSE 0
    BY <1>2, <1>4, <2>1
  <2>3. PICK last : last = guard.last
    OBVIOUS
  <2>4. PICK repeated \in Nat : repeated = guard.repeated
    BY <1>1
  <2>5. /\ again = IF last = d[n + 1] THEN repeated + 1 ELSE 0
        /\ Streak(c, n, last, repeated) /\ repeated < MaxRepeated
    BY <1>1, <2>1, <2>2, <2>3, <2>4
  <2>6. Streak(d, n + 1, d[n + 1], again) /\ (RunAt(d, n + 1) <=> again >= MaxRepeated)
    BY <1>8, <2>2, <2>5, StreakGrows
  <2> QED  BY <2>1, <2>6
<1>10. \A j \in 1..n : ~RunAt(d, j)
  BY <1>1, <1>5, <1>7, <1>8, RunDependsOnPast
<1> QED  BY <1>1, <1>3, <1>4, <1>5, <1>6, <1>9, <1>10

-----------------------------------------------------------------------------
(* The handlers that leave the threads alone *)

LEMMA CloseTargetKeeps ==
  ASSUME IInv, NEW r \in inflight, CloseTarget(r)
  PROVE  IInv'
<1>1. UNCHANGED <<client, heard, calls, phase, steps, tool, events, guard, final, settled,
                  threads, socket, inflight>> /\ page' = FALSE /\ page' \in BOOLEAN
  BY DEF CloseTarget, clientVars, serverVars
<1>2. TypeOK'
  BY <1>1 DEF IInv, TypeOK
<1>3. ThreadsInShape' /\ ThreadsAwaited' /\ FewAbandoned'
  BY <1>1 DEF IInv, ThreadsInShape, ThreadsAwaited, FewAbandoned, Busy, Alive
<1>4. HandlersAgree' /\ SuccessIsLast' /\ HeardIsOwn' /\ EvidenceIsOwn'
  BY <1>1 DEF IInv, HandlersAgree, SuccessIsLast, HeardIsOwn, EvidenceIsOwn
<1>5. OnlyTheTool' /\ OnlyTheCapture'
  BY <1>1 DEF IInv, OnlyTheTool, OnlyTheCapture, Busy
<1>6. Count' = Count /\ History' = History
  BY <1>1 DEF Count, History
<1> QED  BY <1>1, <1>2, <1>3, <1>4, <1>5, <1>6, GuardKept DEF IInv

LEMMA GiveUpKeeps ==
  ASSUME IInv, GiveUp
  PROVE  IInv'
<1>1. /\ UNCHANGED <<calls, phase, steps, tool, events, guard, final, settled,
                     threads, socket, page, inflight>>
      /\ client = "waiting" /\ client' = "idle" /\ heard' = "error"
  BY DEF GiveUp, serverVars, wireVars
<1>2. TypeOK'
  BY <1>1 DEF IInv, TypeOK, Results
<1>3. ThreadsInShape' /\ ThreadsAwaited' /\ FewAbandoned'
  BY <1>1 DEF IInv, ThreadsInShape, ThreadsAwaited, FewAbandoned, Busy, Alive
<1>4. HandlersAgree' /\ SuccessIsLast' /\ HeardIsOwn' /\ EvidenceIsOwn'
  BY <1>1 DEF IInv, HandlersAgree, SuccessIsLast, HeardIsOwn, EvidenceIsOwn
<1>5. OnlyTheTool' /\ OnlyTheCapture'
  BY <1>1 DEF IInv, OnlyTheTool, OnlyTheCapture, Busy
<1>6. Count' = Count /\ History' = History
  BY <1>1 DEF Count, History
<1> QED  BY <1>1, <1>2, <1>3, <1>4, <1>5, <1>6, GuardKept DEF IInv

LEMMA CallKeeps ==
  ASSUME IInv, NEW op \in Ops, Call(op)
  PROVE  IInv'
<1>1. /\ UNCHANGED <<heard, phase, tool, events, guard, final, settled,
                     threads, socket, page, inflight>>
      /\ client = "idle" /\ client' = "waiting" /\ calls < MaxCalls /\ calls' = calls + 1
      /\ steps' = Append(steps, op)
  BY DEF Call, wireVars
<1>2. phase = "open" /\ steps \in Seq(Ops)
  BY <1>1 DEF IInv, HandlersAgree, TypeOK
<1>3. /\ steps' \in Seq(Ops) /\ steps' # <<>>
      /\ steps # <<>> => Head(steps') = Head(steps)
  BY <1>1, <1>2
<1>4. TypeOK'
  <2>1. calls' \in 0..MaxCalls
    BY <1>1, ToolsAssumption DEF IInv, TypeOK
  <2> QED  BY <1>1, <1>3, <2>1 DEF IInv, TypeOK
<1>5. ThreadsInShape' /\ ThreadsAwaited' /\ FewAbandoned'
  BY <1>1 DEF IInv, ThreadsInShape, ThreadsAwaited, FewAbandoned, Busy, Alive
<1>6. HandlersAgree' /\ SuccessIsLast' /\ HeardIsOwn' /\ EvidenceIsOwn'
  BY <1>1, <1>2, <1>3 DEF IInv, HandlersAgree, SuccessIsLast, HeardIsOwn, EvidenceIsOwn
<1>7. OnlyTheTool' /\ OnlyTheCapture'
  BY <1>1, <1>2 DEF IInv, OnlyTheTool, OnlyTheCapture, Busy
<1>8. Count' = Count /\ History' = History
  BY <1>1 DEF Count, History
<1> QED  BY <1>1, <1>4, <1>5, <1>6, <1>7, <1>8, GuardKept DEF IInv

LEMMA StepRaisesKeeps ==
  ASSUME IInv, StepRaises
  PROVE  IInv'
<1>1. /\ UNCHANGED <<client, heard, calls, phase, tool, events, guard, final, settled,
                     threads, socket, page, inflight>>
      /\ phase \in {"cleanup", "closed"} /\ tool = NoTool /\ steps # <<>>
      /\ steps' = Tail(steps)
  BY DEF StepRaises, clientVars, wireVars
<1>2. client \notin {"idle", "waiting"} /\ steps' \in Seq(Ops)
  BY <1>1 DEF IInv, HandlersAgree, TypeOK
<1>3. TypeOK'
  BY <1>1, <1>2 DEF IInv, TypeOK
<1>4. ThreadsInShape' /\ ThreadsAwaited' /\ FewAbandoned'
  BY <1>1 DEF IInv, ThreadsInShape, ThreadsAwaited, FewAbandoned, Busy, Alive
<1>5. HandlersAgree' /\ SuccessIsLast' /\ HeardIsOwn' /\ EvidenceIsOwn'
  BY <1>1, <1>2 DEF IInv, HandlersAgree, SuccessIsLast, HeardIsOwn, EvidenceIsOwn
<1>6. OnlyTheTool' /\ OnlyTheCapture'
  BY <1>1 DEF IInv, OnlyTheTool, OnlyTheCapture, Busy
<1>7. Count' = Count /\ History' = History
  BY <1>1 DEF Count, History
<1> QED  BY <1>1, <1>3, <1>4, <1>5, <1>6, <1>7, GuardKept DEF IInv

LEMMA RefuseOperationKeeps ==
  ASSUME IInv, RefuseOperation
  PROVE  IInv'
<1>1. /\ UNCHANGED <<calls, phase, tool, events, guard, final, settled, threads, socket, page,
                     inflight>>
      /\ phase \in {"open", "capture"} /\ tool = NoTool /\ steps # <<>>
      /\ steps' = Tail(steps)
      /\ \/ client = "waiting" /\ client' = "idle" /\ heard' = "error"
         \/ UNCHANGED <<client, heard>>
  BY DEF RefuseOperation, Reply, LockFree, wireVars
<1>2. steps \in Seq(Ops) /\ steps' \in Seq(Ops)
  BY <1>1 DEF IInv, TypeOK
<1>3. TypeOK'
  BY <1>1, <1>2 DEF IInv, TypeOK, Results
<1>4. ThreadsInShape' /\ ThreadsAwaited' /\ FewAbandoned'
  BY <1>1 DEF IInv, ThreadsInShape, ThreadsAwaited, FewAbandoned, Busy, Alive
<1>5. SuccessIsLast'
  <2>1. client = "idle" /\ heard = "own" => steps = <<>>
    BY DEF IInv, SuccessIsLast
  <2> QED  BY <1>1, <2>1 DEF IInv, SuccessIsLast
<1>6. HandlersAgree' /\ HeardIsOwn' /\ EvidenceIsOwn'
  BY <1>1 DEF IInv, HandlersAgree, HeardIsOwn, EvidenceIsOwn
<1>7. OnlyTheTool'
  BY <1>1 DEF IInv, OnlyTheTool, Busy
<1>8. OnlyTheCapture'
  <2>1. settled /\ phase = "capture" => steps = <<>>
    BY DEF IInv, OnlyTheCapture
  <2> QED  BY <1>1, <2>1 DEF IInv, OnlyTheCapture, Busy
<1>9. Count' = Count /\ History' = History
  BY <1>1 DEF Count, History
<1> QED  BY <1>1, <1>3, <1>4, <1>5, <1>6, <1>7, <1>8, <1>9, GuardKept DEF IInv

-----------------------------------------------------------------------------
(* The steps *)

\* The history grows by the call that is refused or starts.
LEMMA HistoryGrows ==
  ASSUME IInv, phase \in {"open", "capture"}, phase' = phase, tool = NoTool, NEW op \in Tools,
         NEW result \in Results,
         \/ events' = Append(events, [op |-> op, result |-> result]) /\ tool' = NoTool
         \/ events' = events /\ tool' # NoTool /\ tool'.op = op
  PROVE  /\ Count = Len(events) + 1 /\ Count' = Count + 1
         /\ \A k \in 1..Count : History'[k] = History[k]
         /\ History'[Count + 1] = op
<1>1. events \in Seq([op : Tools, result : Results]) /\ Len(events) \in Nat
  BY GuardType DEF IInv, TypeOK
<1>2. Count = Len(events) + 1 /\ phase # "setup" /\ phase' # "setup"
  BY DEF Count
<1>3. CASE events' = Append(events, [op |-> op, result |-> result]) /\ tool' = NoTool
  <2>1. /\ Len(events') = Len(events) + 1
        /\ \A k \in 1..Len(events) : events'[k] = events[k]
        /\ events'[Len(events) + 1].op = op
    BY <1>1, <1>3
  <2>2. Count' = Count + 1
    BY <1>1, <1>2, <1>3, <2>1 DEF Count
  <2>3. ASSUME NEW k \in 1..Count PROVE History'[k] = History[k]
    <3>1. k \in 1..Count' /\ k <= Len(events) + 1 /\ k <= Len(events') + 1
      BY <1>1, <1>2, <2>1, <2>2
    <3>2. /\ History[k] = IF k = 1 THEN "navigate" ELSE events[k - 1].op
          /\ History'[k] = IF k = 1 THEN "navigate" ELSE events'[k - 1].op
      BY <3>1 DEF History
    <3>3. k # 1 => k - 1 \in 1..Len(events)
      BY <1>1, <3>1
    <3> QED  BY <2>1, <3>2, <3>3
  <2>4. History'[Count + 1] = op
    BY <1>1, <1>2, <2>1, <2>2 DEF History
  <2> QED  BY <1>2, <2>2, <2>3, <2>4
<1>4. CASE events' = events /\ tool' # NoTool /\ tool'.op = op
  <2>1. Count' = Count + 1
    BY <1>1, <1>2, <1>4 DEF Count
  <2>2. \A k \in 1..Count : History'[k] = History[k]
    BY <1>1, <1>2, <1>4, <2>1 DEF History
  <2>3. History'[Count + 1] = op
    BY <1>1, <1>2, <1>4, <2>1 DEF History
  <2> QED  BY <1>2, <2>1, <2>2, <2>3
<1> QED  BY <1>3, <1>4

LEMMA BlockCounts ==
  ASSUME IInv, phase \in {"open", "capture"}, phase' = phase, tool = NoTool, tool' = NoTool,
         NEW op \in Tools, events' = Append(events, [op |-> op, result |-> "blocked"]),
         \/ guard.reason # "none" /\ guard' = guard
         \/ guard'.reason = "timeout"
         \/ guard.reason = "none" /\ guard' = Counted(op) /\ guard'.reason # "none"
  PROVE  GuardCounts'
<1>1. /\ events \in Seq([op : Tools, result : Results]) /\ Len(events) \in Nat
      /\ DOMAIN events = 1..Len(events)
  BY GuardType DEF IInv, TypeOK
<1>2. /\ DOMAIN events' = 1..(Len(events) + 1)
      /\ \A i \in 1..Len(events) : events'[i] = events[i]
      /\ events'[Len(events) + 1].result = "blocked"
  BY <1>1
<1>3. /\ Count = Len(events) + 1 /\ Count' = Len(events) + 2
      /\ \A k \in 1..Count : History'[k] = History[k]
      /\ History'[Count + 1] = op
  <2>1. "blocked" \in Results
    BY DEF Results
  <2> QED  BY <1>1, <2>1, HistoryGrows
<1>4. \A j \in 1..Count : RunAt(History', j) <=> RunAt(History, j)
  <2>1. PICK n \in Nat : n = Count
    BY GuardType
  <2>2. PICK d : d = History'
    OBVIOUS
  <2>3. PICK c : c = History
    OBVIOUS
  <2>4. \A j \in 1..n : RunAt(d, j) <=> RunAt(c, j)
    BY <1>3, <2>1, <2>2, <2>3, RunDependsOnPast
  <2> QED  BY <2>1, <2>2, <2>3, <2>4
<1>5. CASE guard'.reason = "timeout"
  BY <1>5 DEF GuardCounts
<1>6. ASSUME guard'.reason = "no_progress", \E j \in 1..Count' : RunAt(History', j),
             \A i \in 1..Len(events) :
               events[i].result = "blocked" <=> \E j \in 1..(i + 1) : RunAt(History', j)
      PROVE  GuardCounts'
  <2>1. \A i \in DOMAIN events' :
          events'[i].result = "blocked" <=> \E j \in 1..(i + 1) : RunAt(History', j)
    <3> SUFFICES ASSUME NEW i \in 1..(Len(events) + 1)
                 PROVE  events'[i].result = "blocked" <=> \E j \in 1..(i + 1) : RunAt(History', j)
      BY <1>2
    <3>1. CASE i \in 1..Len(events)
      BY <1>2, <1>6, <3>1
    <3>2. CASE i = Len(events) + 1
      <4>1. i + 1 = Count'
        BY <1>1, <1>3, <3>2
      <4> QED  BY <1>2, <1>6, <3>2, <4>1
    <3> QED  BY <1>1, <3>1, <3>2
  <2> QED  BY <1>6, <2>1 DEF GuardCounts
<1>7. CASE guard.reason = "no_progress" /\ guard' = guard
  <2>1. /\ \A i \in DOMAIN events :
             events[i].result = "blocked" <=> \E j \in 1..(i + 1) : RunAt(History, j)
        /\ \E j \in 1..Count : RunAt(History, j)
    BY <1>7 DEF IInv, GuardCounts
  <2>2. \E j \in 1..Count' : RunAt(History', j)
    <3>1. 1..Count \subseteq 1..Count'
      BY <1>1, <1>3
    <3> QED  BY <1>4, <2>1, <3>1
  <2>3. \A i \in 1..Len(events) :
          events[i].result = "blocked" <=> \E j \in 1..(i + 1) : RunAt(History', j)
    <3> TAKE i \in 1..Len(events)
    <3>1. 1..(i + 1) \subseteq 1..Count
      BY <1>1, <1>3
    <3> QED  BY <1>1, <1>4, <2>1, <3>1
  <2> QED  BY <1>6, <1>7, <2>2, <2>3
<1>8. CASE guard.reason = "none" /\ guard' = Counted(op) /\ guard'.reason # "none"
  <2>1. /\ \A j \in 1..Count : ~RunAt(History', j)
        /\ guard'.reason = "no_progress" /\ RunAt(History', Count')
    <3>1. Count' = Count + 1 /\ op \in Tools \cup {"navigate"}
      BY <1>1, <1>3
    <3> QED  BY <1>3, <1>8, <3>1, CountedGrows
  <2>2. \E j \in 1..Count' : RunAt(History', j)
    <3>1. Count' \in 1..Count'
      BY <1>1, <1>3
    <3> QED  BY <2>1, <3>1
  <2>3. \A i \in 1..Len(events) :
          events[i].result = "blocked" <=> \E j \in 1..(i + 1) : RunAt(History', j)
    <3> TAKE i \in 1..Len(events)
    <3>1. 1..(i + 1) \subseteq 1..Count
      BY <1>1, <1>3
    <3>2. events[i].result # "blocked"
      BY <1>1, <1>8 DEF IInv, GuardCounts
    <3> QED  BY <2>1, <3>1, <3>2
  <2> QED  BY <1>6, <2>1, <2>2, <2>3
<1>9. guard.reason \in {"none", "timeout", "no_progress"}
  BY GuardType
<1> QED  BY <1>5, <1>7, <1>8, <1>9

LEMMA BlockKeeps ==
  ASSUME IInv, Block
  PROVE  IInv'
<1> DEFINE op == Head(steps)
           event == [op |-> op, result |-> "blocked"]
<1>1. /\ phase \in {"open", "capture"} /\ tool = NoTool /\ steps # <<>>
      /\ UNCHANGED <<calls, final, settled, threads, socket, page, inflight>>
      /\ op \in Tools /\ Finish(op, "blocked")
  BY DEF Block, LockFree, wireVars
<1>2. \/ guard.reason # "none" /\ guard' = guard
      \/ guard.reason = "none" /\ guard' = TimedOut
      \/ guard.reason = "none" /\ guard' = Counted(op) /\ guard'.reason # "none"
  BY DEF Block
<1>3. op \in Tools /\ steps \in Seq(Ops) /\ Tail(steps) \in Seq(Ops)
  BY <1>1 DEF IInv, TypeOK
<1>4. /\ phase' = phase /\ tool' = NoTool /\ events' = Append(events, event)
      /\ steps' = Tail(steps)
      /\ \/ client' = "idle" /\ heard' = "blocked" /\ client = "waiting"
         \/ client' = client /\ heard' = heard
  BY <1>1 DEF Finish, Reply
<1>5. /\ guard' \in [reason : {"none", "timeout", "no_progress"},
                     last : Tools \cup {"navigate", "none"}, repeated : 0..MaxRepeated]
      /\ guard.reason = "timeout" => guard'.reason = "timeout"
      /\ guard'.reason # "none"
  <2>1. TimedOut \in [reason : {"none", "timeout", "no_progress"},
                      last : Tools \cup {"navigate", "none"}, repeated : 0..MaxRepeated]
        /\ TimedOut.reason = "timeout"
    BY GuardType DEF TimedOut
  <2> HIDE DEF op
  <2> QED  BY <1>2, <1>3, <2>1, GuardType
<1>6. event \in [op : Tools, result : Results]
  BY <1>3 DEF Results
<1>7. GuardCounts'
  <2>1. TimedOut.reason = "timeout"
    BY GuardType DEF TimedOut
  <2> HIDE DEF op
  <2> QED  BY <1>1, <1>2, <1>3, <1>4, <2>1, BlockCounts
<1> HIDE DEF op, event
<1>8. events' \in Seq([op : Tools, result : Results])
  BY <1>4, <1>6 DEF IInv, TypeOK
<1>9. TypeOK'
  <2>1. client' \in {"reset", "idle", "waiting", "gone"} /\ heard' \in Results \cup {"none"}
    BY <1>4 DEF IInv, TypeOK, Results
  <2>2. tool' \in [op : Tools \cup {"navigate", "none"}, worker : Workers \cup {NoWorker},
                   stage : {1, 2}, own : BOOLEAN]
    BY <1>1, <1>4 DEF IInv, TypeOK
  <2> QED  BY <1>1, <1>3, <1>4, <1>5, <1>8, <2>1, <2>2 DEF IInv, TypeOK
<1>10. ThreadsInShape' /\ ThreadsAwaited'
  BY <1>1, <1>4 DEF IInv, ThreadsInShape, ThreadsAwaited, Busy, Alive
<1>11. FewAbandoned'
  BY <1>1, <1>4, <1>5 DEF IInv, FewAbandoned
<1>12. HandlersAgree'
  BY <1>1, <1>4 DEF IInv, HandlersAgree
<1>13. SuccessIsLast' /\ HeardIsOwn'
  BY <1>1, <1>4 DEF IInv, SuccessIsLast, HeardIsOwn
<1>14. OnlyTheTool' /\ OnlyTheCapture' /\ EvidenceIsOwn'
  BY <1>1, <1>4, <1>5 DEF IInv, OnlyTheTool, OnlyTheCapture, EvidenceIsOwn, Busy
<1> QED  BY <1>7, <1>9, <1>10, <1>11, <1>12, <1>13, <1>14 DEF IInv

-----------------------------------------------------------------------------
(* Threads that start and end *)

InShape(t) ==
  /\ t \in Thread
  /\ t.role = "none" => t = Idle
  /\ t.role = "abandoned" => AtWork(t)
  /\ AtWork(t) => t.todo # <<>>

LEMMA ThreadInShape ==
  ASSUME IInv
  PROVE  threads \in [Workers -> Thread] /\ \A w \in Workers : InShape(threads[w])
<1>1. threads \in [Workers -> Thread]
  BY DEF IInv, TypeOK, Thread
<1> QED  BY <1>1 DEF IInv, ThreadsInShape, Busy, Alive, InShape, AtWork

LEMMA ShapeKept ==
  ASSUME threads' \in [Workers -> Thread], \A w \in Workers : InShape(threads'[w])
  PROVE  ThreadsInShape'
BY DEF ThreadsInShape, Busy, Alive, InShape, AtWork

\* A thread starts on the free worker.
LEMMA StartedFacts ==
  ASSUME IInv, NEW role \in {"tool", "capture", "close"}, NEW todo \in Seq(Requests),
         todo # <<>>, NEW table \in [Workers -> Thread], \A w \in Workers : InShape(table[w]),
         threads' = Started(FreeWorker, role, todo, table)
  PROVE  /\ threads' \in [Workers -> Thread] /\ ThreadsInShape'
         /\ FreeWorker \in Workers /\ threads[FreeWorker] = Idle
         /\ threads'[FreeWorker].role = role /\ threads'[FreeWorker].point = "ready"
         /\ threads'[FreeWorker].own
         /\ \A w \in Workers : w # FreeWorker => threads'[w] = table[w]
<1> DEFINE t == [role |-> role, todo |-> todo, point |-> "ready", own |-> TRUE]
<1>1. InShape(t) /\ t.role = role /\ t.point = "ready" /\ t.own
  BY DEF InShape, Thread, AtWork
<1>2. threads' = [table EXCEPT ![FreeWorker] = t]
  BY DEF Started
<1>3. t \in Thread
  BY <1>1 DEF InShape
<1> HIDE DEF t
<1>4. FreeWorker \in Workers /\ threads[FreeWorker] = Idle
  BY FreeWorkerIsIdle
<1>5. PICK f \in Workers : f = FreeWorker
  BY <1>4
<1>6. /\ threads' \in [Workers -> Thread]
      /\ \A w \in Workers : threads'[w] = IF w = f THEN t ELSE table[w]
  BY <1>2, <1>3, <1>5
<1>7. \A w \in Workers : InShape(threads'[w])
  BY <1>1, <1>6
<1> QED  BY <1>1, <1>4, <1>5, <1>6, <1>7, ShapeKept

\* What the table of threads is when one of them has ended.
LEMMA EndedFacts ==
  ASSUME IInv, NEW w \in Workers
  PROVE  LET table == [threads EXCEPT ![w] = Idle]
         IN  /\ table \in [Workers -> Thread] /\ \A v \in Workers : InShape(table[v])
             /\ \A v \in Workers : table[v] = IF v = w THEN Idle ELSE threads[v]
<1>1. InShape(Idle) /\ Idle \in Thread
  BY IdleType DEF InShape
<1>2. threads \in [Workers -> Thread] /\ \A v \in Workers : InShape(threads[v])
  BY ThreadInShape
<1> HIDE DEF Idle
<1> QED  BY <1>1, <1>2

\* A tool's thread starts.
LEMMA ToolThreadStarts ==
  ASSUME IInv, ~(settled /\ phase = "capture"),
         tool = NoTool => phase \in {"setup", "open", "capture"},
         UNCHANGED <<phase, settled, socket, inflight>>,
         guard.reason = "none", guard'.reason = "none",
         NEW op \in Tools \cup {"navigate"}, NEW stage \in {1, 2}, NEW own \in BOOLEAN,
         phase \in {"setup", "open"} => own,
         tool' = [op |-> op, worker |-> FreeWorker, stage |-> stage, own |-> own],
         NEW table, threads' = Started(FreeWorker, "tool", Program(op, stage), table),
         \/ tool = NoTool /\ table = threads
         \/ /\ tool # NoTool /\ threads[tool.worker].point = "done"
            /\ table = [threads EXCEPT ![tool.worker] = Idle]
  PROVE  /\ threads' \in [Workers -> Thread] /\ ThreadsInShape' /\ ThreadsAwaited'
         /\ FewAbandoned' /\ OnlyTheTool' /\ OnlyTheCapture'
         /\ tool' # NoTool
<1>1. tool # NoTool => tool.worker \in Workers
  BY DEF IInv, ThreadsAwaited
<1>2. /\ table \in [Workers -> Thread] /\ \A v \in Workers : InShape(table[v])
      /\ \A v \in Workers : table[v] = IF v = tool.worker THEN Idle ELSE threads[v]
  <2>1. CASE tool = NoTool
    <3>1. \A v \in Workers : v # tool.worker
      BY <2>1, NoToolFacts, ToolsAssumption DEF IInv
    <3> QED  BY <2>1, <3>1, ThreadInShape
  <2>2. CASE tool # NoTool
    BY <1>1, <2>2, EndedFacts
  <2> QED  BY <2>1, <2>2
<1>3. Program(op, stage) \in Seq(Requests) /\ Program(op, stage) # <<>>
  BY ProgramType
<1>4. PICK f : f = FreeWorker
  OBVIOUS
<1>5. /\ threads' \in [Workers -> Thread] /\ ThreadsInShape'
      /\ f \in Workers /\ threads[f] = Idle
      /\ threads'[f].role = "tool" /\ threads'[f].point = "ready" /\ threads'[f].own
      /\ \A w \in Workers : w # f => threads'[w] = table[w]
  BY <1>2, <1>3, <1>4, StartedFacts
<1>6. \A w \in Workers : w # f => threads'[w] = IF w = tool.worker THEN Idle ELSE threads[w]
  BY <1>2, <1>5
<1>7. tool'.worker = f /\ tool' # NoTool /\ (phase \in {"setup", "open"} => tool'.own)
  BY <1>4, <1>5, ToolsAssumption DEF NoTool
<1>8. \A w \in Workers : threads[w].role = "tool" => w = tool.worker
  BY DEF IInv, ThreadsAwaited
<1>9. ThreadsAwaited'
  <2>1. \A w \in Workers : w # f => threads'[w].role # "tool"
    BY <1>6, <1>8, IdleType
  <2>2. \A w \in Workers : threads'[w].role \in {"capture", "close"} =>
          w # f /\ threads'[w] = threads[w]
    BY <1>5, <1>6, IdleType
  <2>3. tool'.worker \in Workers /\ threads'[tool'.worker].role = "tool"
    BY <1>5, <1>7
  <2>4. \A v \in Workers :
          /\ threads'[v].role = "tool" => tool' # NoTool /\ tool'.worker = v
          /\ threads'[v].role = "capture" => phase' = "capture"
          /\ threads'[v].role = "close" => phase' = "cleanup"
    BY <1>7, <2>1, <2>2 DEF IInv, ThreadsAwaited
  <2>5. \A v, w \in Workers :
          threads'[v].role = threads'[w].role /\ threads'[v].role \in {"capture", "close"} => v = w
    BY <2>2 DEF IInv, ThreadsAwaited
  <2> QED  BY <2>3, <2>4, <2>5 DEF ThreadsAwaited
<1>10. FewAbandoned'
  <2>1. PICK a, b \in Workers \cup {NoWorker} :
    /\ \A w \in Workers : threads[w].role = "abandoned" => w \in {a, b}
    /\ a # NoWorker =>
         tool = NoTool /\ (guard.reason = "timeout" \/ phase \in {"cleanup", "closed"})
    /\ b # NoWorker => phase \in {"cleanup", "closed"}
    BY DEF IInv, FewAbandoned
  <2>2. \A w \in Workers : threads[w].role = "abandoned" => w = b
    BY <2>1, ToolsAssumption
  <2>3. \A w \in Workers : threads'[w].role = "abandoned" => w = b
    BY <1>5, <1>6, <2>2, IdleType
  <2>4. \A w \in Workers : threads'[w].role = "abandoned" => w \in {NoWorker, b}
    BY <2>3
  <2> QED  BY <2>1, <2>4 DEF FewAbandoned
<1>11. OnlyTheTool'
  <2> SUFFICES ASSUME phase \in {"setup", "open"} PROVE OnlyTheTool'
    BY DEF OnlyTheTool
  <2>1. /\ socket
        /\ \A w \in Workers : threads[w].own /\ (Busy(w) => w = tool.worker)
        /\ \A r \in inflight :
             r.from \in Workers /\ r.from = tool.worker /\ threads[r.from].point = "await"
    BY DEF IInv, OnlyTheTool
  <2>2. inflight' = {}
    <3>1. tool = NoTool => tool.worker \notin Workers
      BY NoToolFacts, ToolsAssumption DEF IInv
    <3> QED  BY <2>1, <3>1
  <2>3. \A w \in Workers : threads'[w].own /\ (w # f => threads'[w] = Idle)
    BY <1>5, <1>6, <2>1, IdleType DEF Busy
  <2> QED  BY <1>7, <2>1, <2>2, <2>3 DEF OnlyTheTool, Busy
<1>12. OnlyTheCapture'
  BY DEF OnlyTheCapture
<1> QED  BY <1>5, <1>7, <1>9, <1>10, <1>11, <1>12

\* The guard counts a call that it lets pass.
LEMMA StartCounts ==
  ASSUME IInv, guard.reason = "none", NEW op \in Tools \cup {"navigate"},
         Count' = Count + 1, \A k \in 1..Count : History'[k] = History[k],
         History'[Count + 1] = op,
         guard' = Counted(op), guard'.reason = "none", events' = events
  PROVE  GuardCounts'
<1>1. /\ \A j \in 1..Count : ~RunAt(History', j)
      /\ guard'.repeated < MaxRepeated
      /\ Streak(History', Count', op, guard'.repeated)
      /\ ~RunAt(History', Count')
  BY CountedGrows
<1>2. guard'.last = op
  BY GuardType
<1>3. \A j \in 1..Count' : j \in 1..Count \/ j = Count'
  BY GuardType
<1>4. \A j \in 1..Count' : ~RunAt(History', j)
  BY <1>1, <1>3
<1>5. \A i \in DOMAIN events : events[i].result # "blocked"
  BY DEF IInv, GuardCounts
<1> QED  BY <1>1, <1>2, <1>4, <1>5 DEF GuardCounts

\* What the start of a tool, or of a tool's second thread, leaves to be shown.
LEMMA ToolStartKeeps ==
  ASSUME IInv, ~(settled /\ phase = "capture"),
         tool = NoTool => phase \in {"setup", "open", "capture"},
         UNCHANGED <<client, heard, calls, phase, steps, events, final, settled, socket, page,
                     inflight>>,
         guard.reason = "none", guard'.reason = "none",
         guard' \in [reason : {"none", "timeout", "no_progress"},
                     last : Tools \cup {"navigate", "none"}, repeated : 0..MaxRepeated],
         NEW op \in Tools \cup {"navigate"}, NEW stage \in {1, 2}, NEW own \in BOOLEAN,
         phase \in {"setup", "open"} => own,
         IF phase = "setup" THEN op = "navigate" ELSE steps # <<>> /\ op = Head(steps),
         tool' = [op |-> op, worker |-> FreeWorker, stage |-> stage, own |-> own],
         NEW table, threads' = Started(FreeWorker, "tool", Program(op, stage), table),
         \/ tool = NoTool /\ table = threads
         \/ /\ tool # NoTool /\ threads[tool.worker].point = "done"
            /\ table = [threads EXCEPT ![tool.worker] = Idle],
         GuardCounts'
  PROVE  IInv'
<1>1. /\ threads' \in [Workers -> Thread] /\ ThreadsInShape' /\ ThreadsAwaited'
      /\ FewAbandoned' /\ OnlyTheTool' /\ OnlyTheCapture'
      /\ tool' # NoTool
  BY ToolThreadStarts
<1>2. tool' \in [op : Tools \cup {"navigate", "none"}, worker : Workers \cup {NoWorker},
                 stage : {1, 2}, own : BOOLEAN]
  BY FreeWorkerIsIdle
<1>3. threads'[tool'.worker].role = "tool"
  BY <1>1 DEF ThreadsAwaited
<1>4. TypeOK'
  BY <1>1, <1>2, <1>3 DEF IInv, TypeOK, Thread
<1>5. tool'.op = op
  OBVIOUS
<1>6. HandlersAgree'
  BY <1>5 DEF IInv, HandlersAgree
<1>7. SuccessIsLast' /\ HeardIsOwn' /\ EvidenceIsOwn'
  <2>1. client = "idle" /\ heard = "own" => steps = <<>> /\ phase = "open"
    BY DEF IInv, SuccessIsLast, HandlersAgree
  <2> QED  BY <2>1 DEF IInv, SuccessIsLast, HeardIsOwn, EvidenceIsOwn
<1> QED  BY <1>1, <1>4, <1>6, <1>7 DEF IInv

LEMMA NavigateSetupKeeps ==
  ASSUME IInv, NavigateSetup
  PROVE  IInv'
<1>1. /\ phase = "setup" /\ tool = NoTool /\ guard' = Counted("navigate")
      /\ tool' = [op |-> "navigate", worker |-> FreeWorker, stage |-> 1, own |-> TRUE]
      /\ threads' = Started(FreeWorker, "tool", Program("navigate", 1), threads)
      /\ UNCHANGED <<client, heard, calls, phase, steps, events, final, settled, socket, page,
                     inflight>>
  BY DEF NavigateSetup, clientVars, wireVars
<1>2. guard.reason = "none" /\ events = <<>>
  BY <1>1 DEF IInv, HandlersAgree
<1>3. Count = 0 /\ guard.last = "none" /\ guard.repeated = 0
  <2>1. Count = 0
    BY <1>1 DEF Count
  <2> QED  BY <1>2, <2>1 DEF IInv, GuardCounts, Streak
<1>4. guard'.reason = "none"
  <2>1. guard'.repeated = 0
    BY <1>1, <1>2, <1>3, GuardType
  <2>2. guard'.reason = IF guard'.repeated >= MaxRepeated THEN "no_progress" ELSE "none"
    BY <1>1, <1>2, GuardType
  <2> QED  BY <2>1, <2>2, ToolsAssumption
<1>5. guard' \in [reason : {"none", "timeout", "no_progress"},
                  last : Tools \cup {"navigate", "none"}, repeated : 0..MaxRepeated]
  BY <1>1, <1>2, GuardType
<1>6. tool' # NoTool
  BY <1>1 DEF NoTool
<1>7. Count' = 1 /\ History'[1] = "navigate"
  <2>1. Count' = 1
    BY <1>1, <1>6 DEF Count
  <2> QED  BY <2>1 DEF History
<1>8. GuardCounts'
  <2>1. Count' = Count + 1 /\ History'[Count + 1] = "navigate"
        /\ \A k \in 1..Count : History'[k] = History[k]
    BY <1>3, <1>7
  <2> QED  BY <1>1, <1>2, <1>4, <2>1, StartCounts
<1> QED  BY <1>1, <1>2, <1>4, <1>5, <1>8, ToolStartKeeps

LEMMA StartToolKeeps ==
  ASSUME IInv, StartTool
  PROVE  IInv'
<1>1. PICK op : op = Head(steps)
  OBVIOUS
<1>2. /\ phase \in {"open", "capture"} /\ tool = NoTool /\ steps # <<>>
      /\ guard.reason = "none" /\ guard' = Counted(op) /\ guard'.reason = "none"
      /\ tool' = [op |-> op, worker |-> FreeWorker, stage |-> 1, own |-> TRUE]
      /\ threads' = Started(FreeWorker, "tool", Program(op, 1), threads)
      /\ UNCHANGED <<client, heard, calls, phase, steps, events, final, settled, socket, page,
                     inflight>>
  BY <1>1 DEF StartTool, LockFree, clientVars, wireVars
<1>3. op \in Tools
  BY <1>1 DEF StartTool
<1>4. ~(settled /\ phase = "capture")
  BY <1>2 DEF IInv, OnlyTheCapture
<1>5. guard' \in [reason : {"none", "timeout", "no_progress"},
                  last : Tools \cup {"navigate", "none"}, repeated : 0..MaxRepeated]
  BY <1>2, <1>3, GuardType
<1>6. tool' # NoTool /\ tool'.op = op
  <2>1. op # "none"
    BY <1>3, ToolsAssumption DEF Tools
  <2> QED  BY <1>2, <2>1 DEF NoTool
<1>7. GuardCounts'
  <2>1. "own" \in Results
    BY DEF Results
  <2>2. /\ Count' = Count + 1
        /\ \A k \in 1..Count : History'[k] = History[k]
        /\ History'[Count + 1] = op
    BY <1>2, <1>3, <1>6, <2>1, HistoryGrows
  <2> QED  BY <1>2, <1>3, <2>2, StartCounts
<1> QED  BY <1>1, <1>2, <1>3, <1>4, <1>5, <1>7, ToolStartKeeps

\* A tool ends: with its result, or by a timeout that may leave its thread.
ToolEnd(result, old) ==
  /\ tool # NoTool
  /\ Finish(tool.op, result)
  /\ UNCHANGED <<calls, final, settled, socket, page, inflight>>
  /\ threads' = [threads EXCEPT ![tool.worker] = old]
  /\ result = "foreign" => ~(tool.own /\ threads[tool.worker].own)
  /\ \/ /\ guard' = guard /\ old = Idle
        /\ threads[tool.worker].point \in {"done", "raised"}
     \/ /\ guard' = TimedOut /\ result = "error"
        /\ old = Idle \/ old.role = "abandoned"

LEMMA ToolEndFacts ==
  ASSUME IInv, NEW result \in {"own", "foreign", "error"}, NEW old, InShape(old),
         ToolEnd(result, old)
  PROVE  /\ tool.worker \in Workers /\ threads[tool.worker].role = "tool"
         /\ guard.reason = "none" /\ guard'.reason \in {"none", "timeout"}
         /\ guard'.reason = "timeout" => guard' = TimedOut
         /\ guard' \in [reason : {"none", "timeout", "no_progress"},
                        last : Tools \cup {"navigate", "none"}, repeated : 0..MaxRepeated]
         /\ tool' = NoTool
         /\ phase' = IF phase = "setup" THEN "open" ELSE phase
         /\ \A v \in Workers : threads'[v] = IF v = tool.worker THEN old ELSE threads[v]
         /\ threads' \in [Workers -> Thread]
         /\ ThreadsInShape'
<1>1. /\ tool.worker \in Workers /\ threads[tool.worker].role = "tool"
      /\ guard.reason = "none"
  BY DEF IInv, ThreadsAwaited, HandlersAgree, ToolEnd
<1>2. /\ TimedOut \in [reason : {"none", "timeout", "no_progress"},
                       last : Tools \cup {"navigate", "none"}, repeated : 0..MaxRepeated]
      /\ TimedOut.reason = "timeout"
  BY GuardType DEF TimedOut
<1>3. guard' = guard \/ guard' = TimedOut
  BY DEF ToolEnd
<1>4. tool' = NoTool /\ phase' = IF phase = "setup" THEN "open" ELSE phase
  BY DEF ToolEnd, Finish, Reply
<1>5. /\ threads \in [Workers -> Thread] /\ \A v \in Workers : InShape(threads[v])
      /\ old \in Thread /\ threads' = [threads EXCEPT ![tool.worker] = old]
  BY ThreadInShape DEF InShape, ToolEnd
<1>6. /\ \A v \in Workers : threads'[v] = IF v = tool.worker THEN old ELSE threads[v]
      /\ threads' \in [Workers -> Thread]
  BY <1>1, <1>5
<1>7. ThreadsInShape'
  <2>1. \A v \in Workers : InShape(threads'[v])
    BY <1>5, <1>6
  <2> QED  BY <1>6, <2>1, ShapeKept
<1>8. guard'.reason \in {"none", "timeout"} /\ (guard'.reason = "timeout" => guard' = TimedOut)
  BY <1>1, <1>2, <1>3
<1>9. guard' \in [reason : {"none", "timeout", "no_progress"},
                  last : Tools \cup {"navigate", "none"}, repeated : 0..MaxRepeated]
  BY <1>2, <1>3, GuardType
<1> QED  BY <1>1, <1>4, <1>6, <1>7, <1>8, <1>9

\* The call of a tool that ends was counted when it started.
LEMMA ToolEndCounts ==
  ASSUME IInv, NEW result \in {"own", "foreign", "error"}, NEW old, InShape(old),
         ToolEnd(result, old)
  PROVE  GuardCounts' /\ events' \in Seq([op : Tools, result : Results])
<1>1. /\ guard.reason = "none" /\ guard'.reason \in {"none", "timeout"}
      /\ guard'.reason = "timeout" => guard' = TimedOut
      /\ tool # NoTool /\ tool' = NoTool
      /\ phase' = IF phase = "setup" THEN "open" ELSE phase
      /\ Finish(tool.op, result)
  BY ToolEndFacts DEF ToolEnd
<1>2. guard'.reason = "none" => guard' = guard
  <2>1. TimedOut.reason = "timeout"
    BY GuardType DEF TimedOut
  <2>2. guard' = guard \/ guard' = TimedOut
    BY DEF ToolEnd
  <2> QED  BY <2>1, <2>2
<1>3. events \in Seq([op : Tools, result : Results]) /\ Len(events) \in Nat
      /\ DOMAIN events = 1..Len(events)
  BY DEF IInv, TypeOK
<1>4. \A i \in DOMAIN events : events[i].result # "blocked"
  BY <1>1 DEF IInv, GuardCounts
<1>5. CASE phase = "setup"
  <2>1. events' = events /\ events = <<>> /\ tool.op = "navigate"
    BY <1>1, <1>5 DEF Finish, Reply, IInv, HandlersAgree
  <2>2. Count' = Count /\ Count = 1
    BY <1>1, <1>5, <2>1 DEF Count
  <2>3. History' = History
    BY <2>1, <2>2 DEF History
  <2> QED  BY <1>1, <1>2, <1>3, <2>1, <2>2, <2>3 DEF IInv, GuardCounts
<1>6. CASE phase # "setup"
  <2>1. events' = Append(events, [op |-> tool.op, result |-> result]) /\ tool.op \in Tools
    <3>1. steps # <<>> /\ tool.op = Head(steps) /\ steps \in Seq(Ops)
      BY <1>1, <1>6 DEF IInv, HandlersAgree, TypeOK
    <3>2. Head(steps) \in Tools
      <4>1. tool.op \in Tools \cup {"navigate", "none"}
        BY NoToolFacts DEF IInv
      <4>2. Head(steps) \in Ops
        BY <3>1
      <4> QED  BY <3>1, <4>1, <4>2, ToolsAssumption DEF Tools
    <3> QED  BY <1>1, <1>6, <3>1, <3>2 DEF Finish, Reply
  <2>2. [op |-> tool.op, result |-> result] \in [op : Tools, result : Results]
    BY <2>1 DEF Results
  <2>3. /\ events' \in Seq([op : Tools, result : Results])
        /\ Len(events') = Len(events) + 1 /\ DOMAIN events' = 1..(Len(events) + 1)
        /\ \A i \in 1..Len(events) : events'[i] = events[i]
        /\ events'[Len(events) + 1] = [op |-> tool.op, result |-> result]
    BY <1>3, <2>1, <2>2
  <2>4. Count' = Count /\ Count = Len(events) + 2
    BY <1>1, <1>3, <1>6, <2>3 DEF Count
  <2>5. ASSUME NEW k \in 1..Count
        PROVE  (IF k = 1 THEN "navigate"
                ELSE IF k <= Len(events') + 1 THEN events'[k - 1].op ELSE tool'.op)
               = (IF k = 1 THEN "navigate"
                  ELSE IF k <= Len(events) + 1 THEN events[k - 1].op ELSE tool.op)
    <3>1. k - 1 \in 0..(Len(events) + 1) /\ k <= Len(events') + 1
      BY <1>3, <2>3, <2>4
    <3>2. CASE k = 1
      BY <3>2
    <3>3. CASE k # 1 /\ k <= Len(events) + 1
      <4>1. k - 1 \in 1..Len(events)
        BY <1>3, <3>3
      <4> QED  BY <2>3, <3>1, <3>3, <4>1
    <3>4. CASE k # 1 /\ ~(k <= Len(events) + 1)
      <4>1. k - 1 = Len(events) + 1
        BY <1>3, <2>4, <3>4
      <4> QED  BY <2>3, <3>1, <3>4, <4>1
    <3> QED  BY <3>2, <3>3, <3>4
  <2>6. History' = History
    BY <2>4, <2>5 DEF History
  <2>7. \A i \in DOMAIN events' : events'[i].result # "blocked"
    BY <1>3, <1>4, <2>3
  <2>8. GuardCounts'
    BY <1>1, <1>2, <2>4, <2>6, <2>7 DEF IInv, GuardCounts
  <2> QED  BY <2>3, <2>8
<1> QED  BY <1>5, <1>6

LEMMA NoToolType ==
  NoTool \in [op : Tools \cup {"navigate", "none"}, worker : Workers \cup {NoWorker},
             stage : {1, 2}, own : BOOLEAN]
BY DEF NoTool

\* After a tool has ended no thread waits for one, and only a timeout leaves one.
LEMMA ToolEndThreads ==
  ASSUME IInv, NEW result \in {"own", "foreign", "error"}, NEW old, InShape(old),
         ToolEnd(result, old)
  PROVE  ThreadsAwaited' /\ FewAbandoned' /\ OnlyTheTool' /\ OnlyTheCapture'
<1> DEFINE w == tool.worker
<1>1. /\ w \in Workers /\ threads[w].role = "tool"
      /\ guard.reason = "none" /\ guard'.reason \in {"none", "timeout"}
      /\ tool' = NoTool /\ phase' = IF phase = "setup" THEN "open" ELSE phase
      /\ \A v \in Workers : threads'[v] = IF v = w THEN old ELSE threads[v]
  BY ToolEndFacts
<1>2. /\ tool # NoTool /\ UNCHANGED <<settled, socket, inflight>>
      /\ \/ old = Idle /\ threads[w].point \in {"done", "raised"} /\ guard' = guard
         \/ (old = Idle \/ old.role = "abandoned") /\ guard' = TimedOut
  BY DEF ToolEnd
<1>3. TimedOut.reason = "timeout"
  BY GuardType DEF TimedOut
<1>4. old.role \in {"none", "abandoned"} /\ (old.role = "abandoned" => guard'.reason = "timeout")
  BY <1>2, <1>3, IdleType
<1> HIDE DEF w
<1>5. ThreadsAwaited'
  <2>1. \A v \in Workers : threads[v].role = "tool" => v = w
    BY <1>1 DEF w, IInv, ThreadsAwaited
  <2>2. \A v \in Workers : threads'[v].role # "tool"
    BY <1>1, <1>4, <2>1
  <2>3. \A v \in Workers : threads'[v].role \in {"capture", "close"} => threads'[v] = threads[v]
    BY <1>1, <1>4
  <2>4. phase # "setup" => phase' = phase
    BY <1>1
  <2>5. \A v \in Workers :
          /\ threads'[v].role = "capture" => phase' = "capture"
          /\ threads'[v].role = "close" => phase' = "cleanup"
    BY <2>3, <2>4 DEF IInv, ThreadsAwaited
  <2>6. \A u, v \in Workers :
          threads'[u].role = threads'[v].role /\ threads'[u].role \in {"capture", "close"} => u = v
    BY <2>3 DEF IInv, ThreadsAwaited
  <2> QED  BY <1>1, <2>2, <2>5, <2>6 DEF ThreadsAwaited
<1>6. FewAbandoned'
  <2>1. PICK a, b \in Workers \cup {NoWorker} :
    /\ \A v \in Workers : threads[v].role = "abandoned" => v \in {a, b}
    /\ a # NoWorker => tool = NoTool
    /\ b # NoWorker => phase \in {"cleanup", "closed"}
    BY DEF IInv, FewAbandoned
  <2>2. \A v \in Workers : threads[v].role = "abandoned" => v = b
    BY <1>2, <2>1, ToolsAssumption
  <2>3. b # NoWorker => phase' \in {"cleanup", "closed"}
    BY <1>1, <2>1
  <2>4. CASE old.role = "abandoned"
    <3>1. \A v \in Workers : threads'[v].role = "abandoned" => v \in {w, b}
      BY <1>1, <2>2
    <3>2. w # NoWorker => tool' = NoTool /\ guard'.reason = "timeout"
      BY <1>1, <1>4, <2>4
    <3> QED  BY <1>1, <2>3, <3>1, <3>2 DEF FewAbandoned
  <2>5. CASE old.role = "none"
    <3>1. \A v \in Workers : threads'[v].role = "abandoned" => v \in {NoWorker, b}
      BY <1>1, <2>2, <2>5
    <3> QED  BY <2>3, <3>1 DEF FewAbandoned
  <2> QED  BY <1>4, <2>4, <2>5
<1>7. OnlyTheTool'
  <2> SUFFICES ASSUME phase \in {"setup", "open"}, guard'.reason # "timeout"
               PROVE  OnlyTheTool'
    BY <1>1 DEF OnlyTheTool
  <2>1. old = Idle /\ threads[w].point \in {"done", "raised"}
    BY <1>2, <1>3
  <2>2. /\ socket
        /\ \A v \in Workers : threads[v].own /\ (Busy(v) => v = w)
        /\ \A r \in inflight : r.from = w /\ threads[r.from].point = "await"
    BY <1>1 DEF w, IInv, OnlyTheTool
  <2>3. inflight' = {}
    BY <1>2, <2>1, <2>2
  <2>4. \A v \in Workers : threads'[v] = Idle
    BY <1>1, <2>1, <2>2 DEF Busy
  <2>5. NoTool.own /\ socket'
    BY <1>2, <2>2 DEF NoTool
  <2> QED  BY <1>1, <2>3, <2>4, <2>5, IdleType DEF OnlyTheTool, Busy
<1>8. OnlyTheCapture'
  <2>1. ~(settled' /\ phase' = "capture")
    BY <1>1, <1>2 DEF IInv, OnlyTheCapture
  <2> QED  BY <2>1 DEF OnlyTheCapture
<1> QED  BY <1>5, <1>6, <1>7, <1>8

LEMMA ToolEndKeeps ==
  ASSUME IInv, NEW result \in {"own", "foreign", "error"}, NEW old, InShape(old),
         ToolEnd(result, old)
  PROVE  IInv'
<1>1. /\ guard.reason = "none" /\ guard'.reason \in {"none", "timeout"}
      /\ guard' \in [reason : {"none", "timeout", "no_progress"},
                     last : Tools \cup {"navigate", "none"}, repeated : 0..MaxRepeated]
      /\ tool' = NoTool /\ phase' = IF phase = "setup" THEN "open" ELSE phase
      /\ threads' \in [Workers -> Thread] /\ ThreadsInShape'
  BY ToolEndFacts
<1>2. /\ tool # NoTool /\ UNCHANGED <<calls, final, settled, socket, page, inflight>>
      /\ result = "foreign" => ~(tool.own /\ threads[tool.worker].own)
      /\ guard'.reason = "timeout" => result = "error"
  <2>1. guard' = TimedOut => result = "error"
    BY <1>1 DEF ToolEnd, TimedOut
  <2> QED  BY <2>1, ToolEndFacts DEF ToolEnd
<1>3. GuardCounts' /\ events' \in Seq([op : Tools, result : Results])
  BY ToolEndCounts
<1>4. ThreadsAwaited' /\ FewAbandoned' /\ OnlyTheTool' /\ OnlyTheCapture'
  BY ToolEndThreads
<1>5. CASE phase = "setup"
  <2>1. client' \in {"idle", "gone"} /\ UNCHANGED <<steps, events, heard>>
    BY <1>5 DEF ToolEnd, Finish, Reply
  <2>2. steps = <<>> /\ events = <<>> /\ heard = "none" /\ final = "none" /\ ~settled
    BY <1>5 DEF IInv, HandlersAgree
  <2>3. HandlersAgree'
    BY <1>1, <1>2, <1>5, <2>1, <2>2 DEF HandlersAgree
  <2>4. SuccessIsLast' /\ HeardIsOwn' /\ EvidenceIsOwn'
    BY <1>2, <2>1, <2>2 DEF SuccessIsLast, HeardIsOwn, EvidenceIsOwn
  <2>5. TypeOK'
    BY <1>1, <1>2, <1>3, <2>1, NoToolType DEF IInv, TypeOK, Thread
  <2> QED  BY <1>1, <1>3, <1>4, <2>3, <2>4, <2>5 DEF IInv
<1>6. CASE phase # "setup"
  <2>1. /\ steps' = Tail(steps) /\ phase' = phase
        /\ \/ /\ client = "waiting" /\ Len(steps) = 1
              /\ client' = "idle" /\ heard' = result
           \/ client' = client /\ heard' = heard
    BY <1>6 DEF ToolEnd, Finish, Reply
  <2>2. steps # <<>> /\ steps \in Seq(Ops)
    BY <1>2, <1>6 DEF IInv, HandlersAgree, TypeOK
  <2>3. steps' \in Seq(Ops) /\ (Len(steps) = 1 => steps' = <<>>)
    BY <2>1, <2>2
  <2>4. HandlersAgree'
    BY <1>1, <1>2, <1>6, <2>1 DEF IInv, HandlersAgree
  <2>5. /\ client' \in {"reset", "idle", "waiting", "gone"} /\ heard' \in Results \cup {"none"}
        /\ SuccessIsLast' /\ HeardIsOwn'
    <3>1. CASE client = "waiting" /\ Len(steps) = 1 /\ client' = "idle" /\ heard' = result
      <4>1. phase = "open"
        BY <3>1 DEF IInv, HandlersAgree
      <4>2. tool.own /\ threads[tool.worker].own
        BY <1>1, <4>1, ToolEndFacts DEF IInv, OnlyTheTool
      <4>3. HeardIsOwn'
        BY <1>2, <3>1, <4>2 DEF HeardIsOwn
      <4>4. SuccessIsLast'
        BY <1>1, <1>2, <2>3, <3>1 DEF SuccessIsLast
      <4>5. client' \in {"reset", "idle", "waiting", "gone"} /\ heard' \in Results \cup {"none"}
        BY <3>1 DEF Results
      <4> QED  BY <4>3, <4>4, <4>5
    <3>2. CASE client' = client /\ heard' = heard
      BY <1>2, <3>2 DEF IInv, SuccessIsLast, HeardIsOwn, TypeOK
    <3> QED  BY <2>1, <3>1, <3>2
  <2>6. EvidenceIsOwn'
    BY <1>2 DEF IInv, EvidenceIsOwn
  <2>7. TypeOK'
    BY <1>1, <1>2, <1>3, <2>1, <2>3, <2>5, NoToolType DEF IInv, TypeOK, Thread
  <2> QED  BY <1>1, <1>3, <1>4, <2>4, <2>5, <2>6, <2>7 DEF IInv
<1> QED  BY <1>5, <1>6

\* asyncio.wait_for leaves a thread that still works.
Left(w) == IF Alive(w) THEN [threads[w] EXCEPT !.role = "abandoned"] ELSE Idle

LEMMA LeftFacts ==
  ASSUME IInv, NEW w \in Workers
  PROVE  /\ InShape(Left(w)) /\ (Left(w) = Idle \/ Left(w).role = "abandoned")
         /\ Abandoned(w) = [threads EXCEPT ![w] = Left(w)]
<1>1. threads[w] \in Thread /\ threads \in [Workers -> Thread] /\ InShape(threads[w])
  BY ThreadInShape
<1>2. CASE Alive(w)
  <2> DEFINE t == [threads[w] EXCEPT !.role = "abandoned"]
  <2>1. t \in Thread /\ t.role = "abandoned" /\ t.point = threads[w].point
        /\ t.todo = threads[w].todo
    BY <1>1 DEF Thread
  <2>2. Left(w) = t
    BY <1>2 DEF Left
  <2>3. Abandoned(w) = [threads EXCEPT ![w] = t]
    BY <1>2 DEF Abandoned
  <2> HIDE DEF t
  <2>4. InShape(t)
    BY <1>1, <1>2, <2>1 DEF InShape, AtWork, Alive
  <2> QED  BY <2>1, <2>2, <2>3, <2>4
<1>3. CASE ~Alive(w)
  <2>1. Left(w) = Idle /\ Abandoned(w) = [threads EXCEPT ![w] = Idle]
    BY <1>3 DEF Left, Abandoned
  <2>2. InShape(Idle)
    BY IdleType DEF InShape
  <2> QED  BY <2>1, <2>2
<1> QED  BY <1>2, <1>3

LEMMA ToolGoesOnKeeps ==
  ASSUME IInv, ToolGoesOn
  PROVE  IInv'
<1> DEFINE w == tool.worker
<1>1. /\ tool # NoTool
      /\ UNCHANGED <<calls, guard, final, settled, socket, page, inflight>>
  BY DEF ToolGoesOn, wireVars
<1>2. w \in Workers /\ threads[w].role = "tool" /\ guard.reason = "none"
  BY <1>1 DEF IInv, ThreadsAwaited, HandlersAgree
<1>3. tool.own \in BOOLEAN /\ threads[w].own \in BOOLEAN
  BY <1>2, ThreadFacts, NoToolFacts DEF Thread, IInv
<1>4. InShape(Idle)
  BY IdleType DEF InShape
<1>5. CASE /\ threads[w].point = "raised"
           /\ Finish(tool.op, "error")
           /\ threads' = [threads EXCEPT ![w] = Idle]
  <2>1. ToolEnd("error", Idle)
    BY <1>1, <1>5 DEF ToolEnd
  <2> QED  BY <1>4, <2>1, ToolEndKeeps
<1>6. CASE /\ threads[w].point = "done"
           /\ Finish(tool.op, IF tool.own /\ threads[w].own THEN "own" ELSE "foreign")
           /\ threads' = [threads EXCEPT ![w] = Idle]
  <2>1. CASE tool.own /\ threads[w].own
    <3>1. ToolEnd("own", Idle)
      BY <1>1, <1>6, <2>1 DEF ToolEnd
    <3> QED  BY <1>4, <3>1, ToolEndKeeps
  <2>2. CASE ~(tool.own /\ threads[w].own)
    <3>1. ToolEnd("foreign", Idle)
      BY <1>1, <1>6, <2>2 DEF ToolEnd
    <3> QED  BY <1>4, <3>1, ToolEndKeeps
  <2> QED  BY <2>1, <2>2
<1>7. CASE /\ threads[w].point = "done"
           /\ tool.stage = 1 /\ HasSecondThread(tool.op)
           /\ tool' = [tool EXCEPT !.worker = FreeWorker, !.stage = 2,
                                   !.own = tool.own /\ threads[w].own]
           /\ threads' = Started(FreeWorker, "tool", Program(tool.op, 2),
                                 [threads EXCEPT ![w] = Idle])
           /\ UNCHANGED <<client, heard, phase, steps, events>>
  <2>1. PICK own \in BOOLEAN : own = (tool.own /\ threads[w].own)
    BY <1>3
  <2>2. tool' = [op |-> tool.op, worker |-> FreeWorker, stage |-> 2, own |-> own]
    BY <1>7, <2>1 DEF IInv, TypeOK
  <2>3. PICK op : op = tool.op
    OBVIOUS
  <2>4. op \in Tools \cup {"navigate"}
    BY <1>7, <2>3, ToolsAssumption DEF HasSecondThread, IInv, TypeOK
  <2>5. tool' # NoTool
    BY <2>2 DEF NoTool
  <2>6. Count' = Count /\ History' = History
    <3>1. Count' = Count
      BY <1>1, <1>7, <2>5 DEF Count
    <3>2. tool'.op = tool.op
      BY <2>2
    <3> QED  BY <1>7, <3>1, <3>2 DEF History
  <2>7. GuardCounts'
    BY <1>1, <1>7, <2>6, GuardKept DEF IInv
  <2>8. IF phase = "setup" THEN op = "navigate" ELSE steps # <<>> /\ op = Head(steps)
    BY <1>1, <2>3 DEF IInv, HandlersAgree
  <2>9. phase \in {"setup", "open"} => own
    BY <1>2, <2>1 DEF IInv, OnlyTheTool
  <2>10. ~(settled /\ phase = "capture")
    BY <1>1 DEF IInv, OnlyTheCapture
  <2>11. PICK table : table = [threads EXCEPT ![tool.worker] = Idle]
    OBVIOUS
  <2>12. /\ tool' = [op |-> op, worker |-> FreeWorker, stage |-> 2, own |-> own]
         /\ threads' = Started(FreeWorker, "tool", Program(op, 2), table)
         /\ threads[tool.worker].point = "done"
    BY <1>7, <2>2, <2>3, <2>11
  <2>13. guard' = guard /\ guard' \in [reason : {"none", "timeout", "no_progress"},
                last : Tools \cup {"navigate", "none"}, repeated : 0..MaxRepeated]
    BY <1>1, GuardType
  <2> QED  BY <1>1, <1>2, <1>7, <2>4, <2>7, <2>8, <2>9, <2>10, <2>11, <2>12, <2>13,
              ToolStartKeeps
<1> QED  BY <1>5, <1>6, <1>7 DEF ToolGoesOn

LEMMA ToolTimesOutKeeps ==
  ASSUME IInv, ToolTimesOut
  PROVE  IInv'
<1>1. tool # NoTool
  BY DEF ToolTimesOut
<1>2. tool.worker \in Workers
  BY <1>1 DEF IInv, ThreadsAwaited
<1>3. ToolEnd("error", Left(tool.worker))
  BY <1>2, LeftFacts DEF ToolTimesOut, ToolEnd, wireVars
<1> QED  BY <1>2, <1>3, LeftFacts, ToolEndKeeps

-----------------------------------------------------------------------------
(* The end of the session *)

\* What the start of cleanup_session leaves to be shown: it leaves at most one
\* thread, the tool's of a reset or the capture's.
LEMMA CleanupStartKeeps ==
  ASSUME IInv, phase \in {"setup", "open", "capture"}, phase' = "cleanup",
         UNCHANGED <<heard, calls, steps, events, guard, settled, socket, page, inflight>>,
         client' = "gone", final' \in {"none", "own", "foreign", "fallback"},
         settled => final' # "foreign",
         NEW table \in [Workers -> Thread],
         threads' = Started(FreeWorker, "close", CloseProgram, table),
         NEW w \in Workers \cup {NoWorker}, NEW old, InShape(old),
         old.role \in {"none", "abandoned"},
         \A v \in Workers : table[v] = IF v = w THEN old ELSE threads[v],
         IF phase = "setup" THEN tool # NoTool /\ tool' = NoTool /\ w = tool.worker
         ELSE tool' = tool /\ (w \in Workers => threads[w].role = "capture"),
         phase = "capture" => w \in Workers
  PROVE  IInv'
<1>1. \A v \in Workers : InShape(threads[v]) /\ InShape(table[v])
  BY ThreadInShape
<1>2. PICK f : f = FreeWorker
  OBVIOUS
<1>3. /\ threads' \in [Workers -> Thread] /\ ThreadsInShape'
      /\ f \in Workers /\ threads[f] = Idle /\ threads'[f].role = "close"
      /\ \A v \in Workers : v # f => threads'[v] = IF v = w THEN old ELSE threads[v]
  <2>1. "close" \in {"tool", "capture", "close"}
    OBVIOUS
  <2>2. /\ threads' \in [Workers -> Thread] /\ ThreadsInShape'
        /\ FreeWorker \in Workers /\ threads[FreeWorker] = Idle
        /\ threads'[FreeWorker].role = "close"
        /\ \A v \in Workers : v # FreeWorker => threads'[v] = table[v]
    BY <1>1, <2>1, CloseProgramType, StartedFacts
  <2> QED  BY <1>2, <2>2
<1>4. ThreadsAwaited'
  <2>1. \A v \in Workers : threads'[v].role = "tool" =>
          v # f /\ v # w /\ threads'[v] = threads[v]
    BY <1>3
  <2>2. \A v \in Workers : threads'[v].role # "capture"
    <3>1. \A v \in Workers : threads[v].role = "capture" => v = w
      BY DEF IInv, ThreadsAwaited
    <3> QED  BY <1>3, <3>1
  <2>3. \A v \in Workers : threads'[v].role = "close" => v = f
    <3>1. \A v \in Workers : threads[v].role # "close"
      BY DEF IInv, ThreadsAwaited
    <3> QED  BY <1>3, <3>1
  <2>4. \A v \in Workers : threads'[v].role = "tool" => tool' # NoTool /\ tool'.worker = v
    BY <2>1 DEF IInv, ThreadsAwaited
  <2>5. tool' # NoTool => tool'.worker \in Workers /\ threads'[tool'.worker].role = "tool"
    <3> SUFFICES ASSUME tool' # NoTool
                 PROVE  tool'.worker \in Workers /\ threads'[tool'.worker].role = "tool"
      OBVIOUS
    <3>1. tool' = tool /\ (w \in Workers => threads[w].role = "capture")
      OBVIOUS
    <3>2. tool.worker \in Workers /\ threads[tool.worker].role = "tool"
      BY <3>1 DEF IInv, ThreadsAwaited
    <3>3. tool.worker # f /\ tool.worker # w
      BY <1>3, <3>1, <3>2, IdleType
    <3> QED  BY <1>3, <3>1, <3>2, <3>3
  <2> QED  BY <2>2, <2>3, <2>4, <2>5 DEF ThreadsAwaited
<1>5. FewAbandoned'
  <2>1. PICK a, b \in Workers \cup {NoWorker} :
    /\ \A v \in Workers : threads[v].role = "abandoned" => v \in {a, b}
    /\ a # NoWorker => tool = NoTool
    /\ b # NoWorker => phase \in {"cleanup", "closed"}
    BY DEF IInv, FewAbandoned
  <2>2. b = NoWorker
    BY <2>1
  <2>3. \A v \in Workers : threads'[v].role = "abandoned" => v \in {a, w}
    BY <1>3, <2>1, <2>2, ToolsAssumption
  <2>4. a # NoWorker => tool' = NoTool
    BY <2>1
  <2> QED  BY <2>1, <2>3, <2>4 DEF FewAbandoned
<1>6. tool' = tool \/ tool' = NoTool
  OBVIOUS
<1>7. TypeOK'
  <2>1. tool' = NoTool \/ threads'[tool'.worker].role = "tool"
    BY <1>4 DEF ThreadsAwaited
  <2> QED  BY <1>3, <1>6, <2>1, NoToolType DEF IInv, TypeOK, Thread
<1>8. HandlersAgree'
  BY DEF IInv, HandlersAgree
<1>9. OnlyTheTool' /\ OnlyTheCapture'
  BY DEF OnlyTheTool, OnlyTheCapture
<1>10. SuccessIsLast' /\ HeardIsOwn' /\ EvidenceIsOwn'
  BY DEF IInv, SuccessIsLast, HeardIsOwn, EvidenceIsOwn
<1>11. Count' = Count /\ History' = History
  <2>1. CASE phase = "setup"
    <3>1. events = <<>> /\ Len(events) = 0
      BY <2>1 DEF IInv, HandlersAgree
    <3>2. Count' = 1 /\ Count = 1
      BY <2>1, <3>1 DEF Count
    <3> QED  BY <3>1, <3>2 DEF History
  <2>2. CASE phase # "setup"
    <3>1. Count' = Count
      BY <2>2 DEF Count
    <3> QED  BY <2>2, <3>1 DEF History
  <2> QED  BY <2>1, <2>2
<1>12. GuardCounts'
  BY <1>11, GuardKept DEF IInv
<1> QED  BY <1>3, <1>4, <1>5, <1>7, <1>8, <1>9, <1>10, <1>12 DEF IInv

LEMMA CancelSetupKeeps ==
  ASSUME IInv, CancelSetup
  PROVE  IInv'
<1>1. /\ phase = "setup" /\ tool # NoTool /\ tool' = NoTool /\ client' = "gone"
      /\ phase' = "cleanup"
      /\ threads' = Started(FreeWorker, "close", CloseProgram, Abandoned(tool.worker))
      /\ UNCHANGED <<heard, calls, steps, events, guard, final, settled, socket, page, inflight>>
  BY DEF CancelSetup, StartCleanup, wireVars
<1>2. PICK w \in Workers : w = tool.worker
  BY <1>1 DEF IInv, ThreadsAwaited
<1>3. PICK table : table = Abandoned(w)
  OBVIOUS
<1>4. PICK old : old = Left(w)
  OBVIOUS
<1>5. /\ InShape(old) /\ old \in Thread /\ old.role \in {"none", "abandoned"}
      /\ table \in [Workers -> Thread]
      /\ \A v \in Workers : table[v] = IF v = w THEN old ELSE threads[v]
  <2>1. InShape(old) /\ old.role \in {"none", "abandoned"} /\ table = [threads EXCEPT ![w] = old]
    BY <1>3, <1>4, LeftFacts, IdleType
  <2>2. old \in Thread
    BY <2>1 DEF InShape
  <2> QED  BY <2>1, <2>2, ThreadInShape
<1>6. final = "none" /\ final' = final
  BY <1>1 DEF IInv, HandlersAgree
<1>7. threads' = Started(FreeWorker, "close", CloseProgram, table)
  BY <1>1, <1>2, <1>3
<1> QED  BY <1>1, <1>2, <1>5, <1>6, <1>7, CleanupStartKeeps

LEMMA ExpireKeeps ==
  ASSUME IInv, Expire
  PROVE  IInv'
<1>1. /\ phase = "open" /\ client = "gone" /\ phase' = "cleanup"
      /\ threads' = Started(FreeWorker, "close", CloseProgram, threads)
      /\ UNCHANGED <<client, heard, calls, steps, tool, events, guard, final, settled,
                     socket, page, inflight>>
  BY DEF Expire, StartCleanup, clientVars, wireVars
<1>2. PICK table : table = threads
  OBVIOUS
<1>3. PICK old : old = Idle
  OBVIOUS
<1>4. /\ InShape(old) /\ old.role \in {"none", "abandoned"}
      /\ table \in [Workers -> Thread]
      /\ \A v \in Workers : table[v] = IF v = NoWorker THEN old ELSE threads[v]
  BY <1>2, <1>3, IdleType, ThreadInShape, ToolsAssumption DEF InShape
<1>5. final = "none" /\ final' = final
  BY <1>1 DEF IInv, HandlersAgree
<1>6. threads' = Started(FreeWorker, "close", CloseProgram, table)
  BY <1>1, <1>2
<1>7. PICK w \in Workers \cup {NoWorker} : w = NoWorker
  OBVIOUS
<1>8. \A v \in Workers : table[v] = IF v = w THEN old ELSE threads[v]
  BY <1>4, <1>7
<1>9. w \notin Workers
  BY <1>7, ToolsAssumption
<1> QED  BY <1>1, <1>4, <1>5, <1>6, <1>8, <1>9, CleanupStartKeeps

LEMMA CloseKeeps ==
  ASSUME IInv, Close
  PROVE  IInv'
<1>1. /\ phase = "open" /\ client \in {"idle", "waiting"} /\ client' = "gone"
      /\ phase' = "capture" /\ settled' = NothingLeft
      /\ threads' = Started(FreeWorker, "capture", Program("observe", 1), threads)
      /\ UNCHANGED <<heard, calls, steps, tool, events, guard, final, socket, page, inflight>>
  BY DEF Close, wireVars
<1>2. PICK f : f = FreeWorker
  OBVIOUS
<1>3. /\ threads' \in [Workers -> Thread] /\ ThreadsInShape'
      /\ f \in Workers /\ threads[f] = Idle
      /\ threads'[f].role = "capture" /\ threads'[f].point = "ready" /\ threads'[f].own
      /\ \A v \in Workers : v # f => threads'[v] = threads[v]
  <2>1. Program("observe", 1) = <<"observe">>
    BY DEF Program, PageProgram, Acts
  <2>2. <<"observe">> \in Seq(Requests) /\ <<"observe">> # <<>>
    BY DEF Requests
  <2>3. "capture" \in {"tool", "capture", "close"}
    OBVIOUS
  <2>4. threads' = Started(FreeWorker, "capture", <<"observe">>, threads)
    BY <1>1, <2>1
  <2>5. /\ threads' \in [Workers -> Thread] /\ ThreadsInShape'
        /\ FreeWorker \in Workers /\ threads[FreeWorker] = Idle
        /\ threads'[FreeWorker].role = "capture" /\ threads'[FreeWorker].point = "ready"
        /\ threads'[FreeWorker].own
        /\ \A v \in Workers : v # FreeWorker => threads'[v] = threads[v]
    BY <2>2, <2>3, <2>4, ThreadInShape, StartedFacts
  <2> QED  BY <1>2, <2>5
<1>4. ThreadsAwaited'
  <2>1. \A v \in Workers : threads[v].role \notin {"capture", "close"}
    BY <1>1 DEF IInv, ThreadsAwaited
  <2>2. \A v \in Workers : threads'[v].role \in {"capture", "close"} =>
          v = f /\ threads'[v].role = "capture"
    BY <1>3, <2>1
  <2>3. \A v \in Workers : threads'[v].role = "tool" => threads'[v] = threads[v]
    BY <1>3
  <2>4. tool # NoTool => tool.worker \in Workers /\ tool.worker # f
    BY <1>3, IdleType DEF IInv, ThreadsAwaited
  <2> QED  BY <1>1, <1>3, <2>2, <2>3, <2>4 DEF IInv, ThreadsAwaited
<1>5. FewAbandoned'
  <2>1. \A v \in Workers : threads'[v].role = "abandoned" => threads[v].role = "abandoned"
    BY <1>3
  <2>2. PICK a, b \in Workers \cup {NoWorker} :
    /\ \A v \in Workers : threads[v].role = "abandoned" => v \in {a, b}
    /\ a # NoWorker =>
         tool = NoTool /\ (guard.reason = "timeout" \/ phase \in {"cleanup", "closed"})
    /\ b # NoWorker => phase \in {"cleanup", "closed"}
    BY DEF IInv, FewAbandoned
  <2> QED  BY <1>1, <2>1, <2>2 DEF FewAbandoned
<1>6. settled' \in BOOLEAN
  BY <1>1 DEF NothingLeft
<1>7. TypeOK'
  <2>1. tool' = NoTool \/ threads'[tool'.worker].role = "tool"
    BY <1>4 DEF ThreadsAwaited
  <2> QED  BY <1>1, <1>3, <1>6, <2>1 DEF IInv, TypeOK, Thread
<1>8. final = "none"
  BY <1>1 DEF IInv, HandlersAgree
<1>9. HandlersAgree'
  BY <1>1 DEF IInv, HandlersAgree
<1>10. SuccessIsLast' /\ HeardIsOwn' /\ EvidenceIsOwn'
  BY <1>1, <1>8 DEF IInv, SuccessIsLast, HeardIsOwn, EvidenceIsOwn
<1>11. OnlyTheTool'
  BY <1>1 DEF OnlyTheTool
<1>12. OnlyTheCapture'
  <2> SUFFICES ASSUME NothingLeft PROVE OnlyTheCapture'
    BY <1>1 DEF OnlyTheCapture
  <2>1. steps = <<>> /\ \A v \in Workers : ~Alive(v)
    BY DEF NothingLeft
  <2>2. tool = NoTool
    BY <1>1, <2>1 DEF IInv, HandlersAgree
  <2>3. \A v \in Workers : threads[v] = Idle
    <3>1. \A v \in Workers : threads[v].role \notin {"tool", "capture", "close", "abandoned"}
      BY <1>1, <2>1, <2>2 DEF IInv, ThreadsAwaited, ThreadsInShape
    <3>2. \A v \in Workers :
            threads[v].role \in {"none", "tool", "abandoned", "capture", "close"}
      BY DEF IInv, TypeOK
    <3> QED  BY <3>1, <3>2 DEF IInv, ThreadsInShape, Busy
  <2>4. \A v \in Workers : v # f => threads'[v] = Idle
    BY <1>3, <2>3
  <2>5. Idle.own /\ Idle.point = "idle"
    BY DEF Idle
  <2> QED  BY <1>1, <1>3, <2>1, <2>2, <2>4, <2>5 DEF OnlyTheCapture, Busy
<1>13. Count' = Count /\ History' = History
  BY <1>1 DEF Count, History
<1>14. GuardCounts'
  BY <1>1, <1>13, GuardKept DEF IInv
<1> QED  BY <1>3, <1>4, <1>5, <1>7, <1>9, <1>10, <1>11, <1>12, <1>14 DEF IInv

LEMMA CaptureEndsKeeps ==
  ASSUME IInv, NEW w \in Workers, CaptureEnds(w)
  PROVE  IInv'
<1>1. /\ phase = "capture" /\ threads[w].role = "capture" /\ phase' = "cleanup"
      /\ UNCHANGED <<client, heard, calls, steps, tool, events, guard, settled,
                     socket, page, inflight>>
  BY DEF CaptureEnds, StartCleanup, clientVars, wireVars
<1>2. client' = "gone"
  BY <1>1 DEF IInv, HandlersAgree, TypeOK
<1>3. settled => threads[w].own
  BY <1>1 DEF IInv, OnlyTheCapture
<1>4. PICK old :
        /\ InShape(old) /\ old.role \in {"none", "abandoned"}
        /\ threads' = Started(FreeWorker, "close", CloseProgram, [threads EXCEPT ![w] = old])
        /\ final' \in {"none", "own", "foreign", "fallback"}
        /\ settled => final' # "foreign"
  <2>1. CASE /\ threads[w].point = "done"
             /\ final' = IF threads[w].own THEN "own" ELSE "foreign"
             /\ StartCleanup([threads EXCEPT ![w] = Idle])
    <3>1. InShape(Idle) /\ Idle.role = "none"
      BY IdleType DEF InShape
    <3>2. threads' = Started(FreeWorker, "close", CloseProgram, [threads EXCEPT ![w] = Idle])
      BY <2>1 DEF StartCleanup
    <3> QED  BY <1>3, <2>1, <3>1, <3>2
  <2>2. CASE final' = "fallback" /\ StartCleanup(Abandoned(w))
    <3>1. InShape(Left(w)) /\ Left(w).role \in {"none", "abandoned"}
      BY LeftFacts, IdleType
    <3>2. threads' = Started(FreeWorker, "close", CloseProgram, [threads EXCEPT ![w] = Left(w)])
      BY <2>2, LeftFacts DEF StartCleanup
    <3> QED  BY <2>2, <3>1, <3>2
  <2> QED  BY <2>1, <2>2 DEF CaptureEnds
<1>5. PICK table : table = [threads EXCEPT ![w] = old]
  OBVIOUS
<1>6. /\ table \in [Workers -> Thread]
      /\ \A v \in Workers : table[v] = IF v = w THEN old ELSE threads[v]
  <2>1. old \in Thread
    BY <1>4 DEF InShape
  <2> QED  BY <1>5, <2>1, ThreadInShape
<1>7. threads' = Started(FreeWorker, "close", CloseProgram, table)
  BY <1>4, <1>5
<1>8. /\ final' \in {"none", "own", "foreign", "fallback"}
      /\ settled => final' # "foreign"
      /\ InShape(old) /\ old.role \in {"none", "abandoned"}
  BY <1>4
<1>9. UNCHANGED <<heard, calls, steps, events, guard, settled, socket, page, inflight>>
      /\ tool' = tool
  BY <1>1
<1> QED  BY <1>1, <1>2, <1>6, <1>7, <1>8, <1>9, CleanupStartKeeps

LEMMA CleanupEndsKeeps ==
  ASSUME IInv, NEW w \in Workers, CleanupEnds(w)
  PROVE  IInv'
<1>1. /\ phase = "cleanup" /\ threads[w].role = "close" /\ phase' = "closed"
      /\ threads' = [threads EXCEPT ![w] = Idle]
      /\ UNCHANGED <<client, heard, calls, steps, tool, events, guard, final, settled,
                     socket, page, inflight>>
  BY DEF CleanupEnds, clientVars, wireVars
<1>2. /\ threads' \in [Workers -> Thread] /\ \A v \in Workers : InShape(threads'[v])
      /\ \A v \in Workers : threads'[v] = IF v = w THEN Idle ELSE threads[v]
  BY <1>1, EndedFacts
<1>3. ThreadsInShape'
  BY <1>2, ShapeKept
<1>4. ThreadsAwaited'
  <2>1. \A v \in Workers : threads[v].role = "close" => v = w
    BY <1>1 DEF IInv, ThreadsAwaited
  <2>2. \A v \in Workers : threads'[v].role \notin {"capture", "close"}
    BY <1>1, <1>2, <2>1, IdleType DEF IInv, ThreadsAwaited
  <2>3. \A v \in Workers : threads'[v].role = "tool" => threads'[v] = threads[v]
    BY <1>2, IdleType
  <2>4. tool # NoTool => tool.worker \in Workers /\ tool.worker # w
    BY <1>1 DEF IInv, ThreadsAwaited
  <2> QED  BY <1>1, <1>2, <2>2, <2>3, <2>4 DEF IInv, ThreadsAwaited
<1>5. FewAbandoned'
  <2>1. \A v \in Workers : threads'[v].role = "abandoned" => threads[v].role = "abandoned"
    BY <1>2, IdleType
  <2>2. PICK a, b \in Workers \cup {NoWorker} :
    /\ \A v \in Workers : threads[v].role = "abandoned" => v \in {a, b}
    /\ a # NoWorker => tool = NoTool
    BY DEF IInv, FewAbandoned
  <2> QED  BY <1>1, <2>1, <2>2 DEF FewAbandoned
<1>6. TypeOK'
  <2>1. tool' = NoTool \/ threads'[tool'.worker].role = "tool"
    BY <1>4 DEF ThreadsAwaited
  <2> QED  BY <1>1, <1>2, <2>1 DEF IInv, TypeOK, Thread
<1>7. HandlersAgree' /\ SuccessIsLast' /\ HeardIsOwn' /\ EvidenceIsOwn'
  BY <1>1 DEF IInv, HandlersAgree, SuccessIsLast, HeardIsOwn, EvidenceIsOwn
<1>8. OnlyTheTool' /\ OnlyTheCapture'
  BY <1>1 DEF OnlyTheTool, OnlyTheCapture
<1>9. Count' = Count /\ History' = History
  BY <1>1 DEF Count, History
<1>10. GuardCounts'
  BY <1>1, <1>9, GuardKept DEF IInv
<1> QED  BY <1>3, <1>4, <1>5, <1>6, <1>7, <1>8, <1>10 DEF IInv

-----------------------------------------------------------------------------
(* The invariant *)

LEMMA InitHolds ==
  ASSUME Init
  PROVE  IInv
<1>1. /\ client = "reset" /\ heard = "none" /\ calls = 0
      /\ phase = "setup" /\ steps = <<>> /\ tool = NoTool /\ events = <<>>
      /\ guard = [reason |-> "none", last |-> "none", repeated |-> 0]
      /\ final = "none" /\ settled = FALSE /\ threads = [w \in Workers |-> Idle]
      /\ socket = TRUE /\ page = TRUE /\ inflight = {}
  BY DEF Init
<1>2. \A w \in Workers : threads[w] = Idle
  BY <1>1
<1>3. threads \in [Workers -> Thread]
  BY <1>1, IdleType
<1>4. TypeOK
  <2>1. calls \in 0..MaxCalls /\ 0 \in 0..MaxRepeated
    BY <1>1, ToolsAssumption
  <2>2. steps \in Seq(Ops) /\ events \in Seq([op : Tools, result : Results])
    BY <1>1
  <2> QED  BY <1>1, <1>3, <2>1, <2>2, NoToolType DEF TypeOK, Thread
<1>5. ThreadsInShape /\ ThreadsAwaited
  BY <1>1, <1>2, IdleType DEF ThreadsInShape, ThreadsAwaited, Busy, Alive, AtWork
<1>6. FewAbandoned
  <2>1. \A w \in Workers : threads[w].role # "abandoned"
    BY <1>2, IdleType
  <2> QED  BY <2>1 DEF FewAbandoned
<1>7. HandlersAgree /\ SuccessIsLast /\ HeardIsOwn /\ EvidenceIsOwn
  BY <1>1 DEF HandlersAgree, SuccessIsLast, HeardIsOwn, EvidenceIsOwn
<1>8. OnlyTheTool /\ OnlyTheCapture
  <2>1. NoTool.own
    BY DEF NoTool
  <2> QED  BY <1>1, <1>2, <2>1, IdleType DEF OnlyTheTool, OnlyTheCapture, Busy
<1>9. GuardCounts
  <2>1. Count = 0
    BY <1>1 DEF Count
  <2>2. \A i \in DOMAIN events : FALSE
    BY <1>1
  <2> QED  BY <1>1, <2>1, <2>2, ToolsAssumption DEF GuardCounts, Streak
<1> QED  BY <1>4, <1>5, <1>6, <1>7, <1>8, <1>9 DEF IInv

LEMMA StepKeeps ==
  ASSUME IInv, [Next]_vars
  PROVE  IInv'
<1>1. CASE Handler
  BY <1>1, NavigateSetupKeeps, RefuseOperationKeeps, BlockKeeps, StartToolKeeps, ToolGoesOnKeeps,
     StepRaisesKeeps, ExpireKeeps, CaptureEndsKeeps, CleanupEndsKeeps DEF Handler
<1>2. CASE ToolTimesOut \/ CancelSetup \/ GiveUp \/ Close \/ \E op \in Ops : Call(op)
  BY <1>2, ToolTimesOutKeeps, CancelSetupKeeps, GiveUpKeeps, CloseKeeps, CallKeeps
<1>3. CASE \E w \in Workers : Work(w)
  BY <1>3, NumberKeeps, SendKeeps, BrokenKeeps, ReceiveKeeps DEF Work
<1>4. CASE \E w \in Workers : NoControl(w) \/ RecvTimeout(w)
  BY <1>4, NoControlKeeps, RecvTimeoutKeeps
<1>5. CASE \E r \in inflight : CloseTarget(r)
  BY <1>5, CloseTargetKeeps
<1>6. CASE UNCHANGED vars
  <2>1. UNCHANGED <<client, heard, calls, phase, steps, tool, events, guard, final, settled,
                    threads, socket, page, inflight>>
    BY <1>6 DEF vars, clientVars, serverVars, wireVars
  <2>2. Count' = Count /\ History' = History
    BY <2>1 DEF Count, History
  <2>3. GuardCounts'
    BY <2>1, <2>2, GuardKept DEF IInv
  <2>4. TypeOK'
    BY <2>1 DEF IInv, TypeOK
  <2> QED  BY <2>1, <2>3, <2>4
           DEF IInv, ThreadsInShape, ThreadsAwaited, FewAbandoned, HandlersAgree, OnlyTheTool,
               SuccessIsLast, OnlyTheCapture, HeardIsOwn, EvidenceIsOwn, Busy, Alive
<1> QED  BY <1>1, <1>2, <1>3, <1>4, <1>5, <1>6 DEF Next

LEMMA Invariance == Spec => []IInv
  BY InitHolds, StepKeeps, PTL DEF Spec

-----------------------------------------------------------------------------
\* Every reachable state is well typed: among others a running tool always has
\* its thread, and the guard never counts beyond its limit.
THEOREM TypeCorrect == Spec => []TypeOK
<1>1. IInv => TypeOK
  BY DEF IInv
<1> QED  BY <1>1, Invariance, PTL

\* asyncio.to_thread always finds a thread: a session that asks for one occupies at
\* most three.
THEOREM WorkersSuffice == Spec => [](\E w \in Workers : threads[w] = Idle)
<1>1. IInv => \E w \in Workers : threads[w] = Idle
  BY FreeWorkerIsIdle
<1> QED  BY <1>1, Invariance, PTL

\* However often tools time out and leave their threads on the shared websocket,
\* no success that the policy hears rests on a reply to another thread's request.
THEOREM SuccessesAreOwn == Spec => []HeardIsOwn
<1>1. IInv => HeardIsOwn
  BY DEF IInv
<1> QED  BY <1>1, Invariance, PTL

\* While the policy holds a success, nothing of an earlier tool is under way: no
\* thread of the session lives, and no request is left whose reply it could confuse
\* or whose effect could still change the page under the policy.
THEOREM SuccessesAreSettled == Spec => []SuccessIsSettled
<1>1. IInv => SuccessIsSettled
  <2> SUFFICES ASSUME IInv, client = "idle", heard = "own"
               PROVE  inflight = {} /\ \A w \in Workers : ~Alive(w)
    BY DEF SuccessIsSettled
  <2>1. tool = NoTool /\ guard.reason # "timeout" /\ phase = "open"
    BY DEF IInv, SuccessIsLast, HandlersAgree
  <2>2. tool.worker \notin Workers
    BY <2>1, NoToolFacts, ToolsAssumption DEF IInv
  <2>3. inflight = {} /\ \A w \in Workers : threads[w] = Idle
    BY <2>1, <2>2 DEF IInv, OnlyTheTool, Busy
  <2> QED  BY <2>3, IdleType DEF Alive, AtWork
<1> QED  BY <1>1, Invariance, PTL

\* If no tool was left behind when close began, the final page is the browser's
\* answer to the capture's own request, or the fallback to the last observation.
\* Nothing is said of an episode that left a thread behind.
THEOREM EvidenceOfTheCapture == Spec => []EvidenceIsOwn
<1>1. IInv => EvidenceIsOwn
  BY DEF IInv
<1> QED  BY <1>1, Invariance, PTL

\* The guard refuses a tool call for no progress exactly from the first run of
\* MaxRepeated + 1 equal tool calls on, the setup navigation being the first call,
\* and operations that do not exist left out of the run; unless a timeout has ended
\* the trajectory.
THEOREM RunsEndTheTrajectory == Spec => []NoProgressIsARun
<1>1. IInv => NoProgressIsARun
  <2> SUFFICES ASSUME IInv, guard.reason # "timeout", NEW i \in DOMAIN events
               PROVE  LET counted == <<"navigate">> \o [k \in DOMAIN events |-> events[k].op]
                      IN  events[i].result = "blocked" <=>
                            \E j \in 1..(i + 1) : RunAt(counted, j)
    BY DEF NoProgressIsARun, RunAt
  <2> DEFINE ops == [k \in DOMAIN events |-> events[k].op]
             counted == <<"navigate">> \o ops
  <2>1. events \in Seq([op : Tools, result : Results]) /\ Len(events) \in Nat
        /\ DOMAIN events = 1..Len(events)
    BY DEF IInv, TypeOK
  <2>2. PICK n \in Nat : n = Len(events) + 1
    BY <2>1
  <2>3. phase # "setup"
    BY <2>1 DEF IInv, HandlersAgree
  <2>4. 1..n \subseteq 1..Count
    BY <2>1, <2>2, <2>3 DEF Count
  <2>5. ASSUME NEW k \in 1..n PROVE counted[k] = History[k]
    <3>1. ops \in Seq(Tools) /\ Len(ops) = Len(events)
      <4>1. ops = [m \in 1..Len(events) |-> events[m].op]
        BY <2>1
      <4>2. ASSUME NEW m \in 1..Len(events) PROVE events[m].op \in Tools
        <5>1. events[m] \in [op : Tools, result : Results]
          BY <2>1, ElementOfSeq
        <5> QED  BY <5>1
      <4> QED  BY <2>1, <4>1, <4>2
    <3>2. History[k] = IF k = 1 THEN "navigate" ELSE events[k - 1].op
      BY <2>1, <2>2, <2>4 DEF History
    <3>3. k # 1 => k - 1 \in 1..Len(events)
      BY <2>1, <2>2
    <3>4. k # 1 => ops[k - 1] = events[k - 1].op
      BY <2>1, <3>3
    <3>5. counted[k] = IF k = 1 THEN "navigate" ELSE ops[k - 1]
      <4> HIDE DEF ops
      <4> QED  BY <2>1, <2>2, <3>1, <3>3
    <3> QED  BY <3>2, <3>4, <3>5
  <2> HIDE DEF counted
  <2>6. ASSUME NEW j \in 1..(i + 1)
        PROVE  (RunAt(counted, j) <=> RunAt(History, j)) /\ j \in 1..Count
    <3>1. j \in 1..n
      BY <2>1, <2>2
    <3>2. PICK h : h = History
      OBVIOUS
    <3>3. \A k \in 1..n : counted[k] = h[k]
      BY <2>5, <3>2
    <3>4. RunAt(counted, j) <=> RunAt(h, j)
      BY <3>1, <3>3, RunDependsOnPast
    <3> QED  BY <2>4, <3>1, <3>2, <3>4
  <2>7. events[i].result = "blocked" <=> \E j \in 1..(i + 1) : RunAt(History, j)
    <3>1. CASE guard.reason = "none"
      BY <2>6, <3>1 DEF IInv, GuardCounts
    <3>2. CASE guard.reason = "no_progress"
      BY <3>2 DEF IInv, GuardCounts
    <3> QED  BY <3>1, <3>2, GuardType
  <2>8. events[i].result = "blocked" <=> \E j \in 1..(i + 1) : RunAt(counted, j)
    BY <2>6, <2>7
  <2> QED  BY <2>8 DEF counted
<1> QED  BY <1>1, Invariance, PTL
=============================================================================
