-------------------------- MODULE EpisodeProtocol --------------------------
(***************************************************************************)
(* One rollout against the browser service: the agent loop (run,           *)
(* _run_episode, BrowserTool) and the resources server (reset, step, close *)
(* and expiry) that it calls over HTTP.  run() plays up to MaxAttempts     *)
(* episodes in turn, each under a fresh session id; an episode whose       *)
(* result is environment-invalid is played again.                          *)
(*                                                                         *)
(* A handler goes on after its client has given up: an answer reaches the  *)
(* client only if the client still waits for that very call.               *)
(***************************************************************************)
EXTENDS Naturals

CONSTANTS
  MaxAttempts,  \* 1 + LEXBROWSER_ENV_FAILURE_RETRIES
  MaxSteps,     \* bound on the tool calls of an episode
  Lossy,        \* may a connection to the service break
  DeadlineHits  \* awaits of the loop at which the episode deadline may expire

ASSUME EpisodeAssumption ==
  /\ MaxAttempts \in Nat \ {0}
  /\ MaxSteps \in Nat \ {0}
  /\ Lossy \in BOOLEAN
  /\ DeadlineHits \subseteq {"policy", "reset", "step"}

VARIABLES
  client,      \* await at which the agent loop stands in each episode
  record,      \* the BrowserTool._sessions entry: none, ok, reset_error
  calls,       \* tool calls the policy made
  tries,       \* /close calls the client made
  outcome,     \* what finalize reports
  reset,       \* the server's reset handler
  registered,  \* episodes with a record in the server's _sessions
  browser,     \* the browser of that record
  pending,     \* step handlers queued on or holding the record's lock
  events,      \* events appended to the record
  seen,        \* step results the policy received
  closing,     \* the close invocation that executes, with its in-flight future
  transcript,  \* events the rendered transcript contains
  cached,      \* _close_results
  answers      \* answers close has given (history)

clientVars == <<client, record, calls, tries, outcome>>
stepVars   == <<pending, events, seen>>
closeVars  == <<closing, transcript, cached, answers>>
vars == <<clientVars, reset, registered, browser, stepVars, closeVars>>

Episodes == 1..MaxAttempts
Verdicts == {"judge_yes", "judge_no", "judge_error", "no_tool_calls"}
\* Results that enter the GRPO baseline; the others carry
\* lexbrowser_invalid_sample.
Valid    == {"judge_yes", "judge_no", "no_tool_calls", "no_browser_session"}
Invalid  == {"reset_failed", "unknown_session", "judge_failed",
             "close_rpc_failed", "generation_aborted_timeout"}

TypeOK ==
  /\ client \in [Episodes -> {"idle", "policy", "reset", "step", "close", "retry",
                          "done"}]
  /\ record \in [Episodes -> {"none", "ok", "reset_error"}]
  /\ calls \in [Episodes -> 0..MaxSteps]
  /\ tries \in [Episodes -> 0..2]
  /\ outcome \in [Episodes -> Valid \cup Invalid \cup {"none"}]
  /\ reset \in [Episodes -> {"none", "running", "refusing", "over"}]
  /\ registered \subseteq Episodes
  /\ browser \in [Episodes -> {"none", "up", "gone"}]
  /\ pending \in [Episodes -> 0..MaxSteps]
  /\ events \in [Episodes -> 0..MaxSteps]
  /\ seen \in [Episodes -> 0..MaxSteps]
  /\ closing \in [Episodes -> {"none", "capture", "cleanup", "judge", "over"}]
  /\ transcript \in [Episodes -> 0..MaxSteps]
  /\ cached \in [Episodes -> Verdicts \cup {"none"}]
  /\ answers \in [Episodes -> SUBSET (Verdicts \cup {"unknown", "raised"})]

Init ==
  /\ client = [e \in Episodes |-> "idle"]
  /\ record = [e \in Episodes |-> "none"]
  /\ calls = [e \in Episodes |-> 0]
  /\ tries = [e \in Episodes |-> 0]
  /\ outcome = [e \in Episodes |-> "none"]
  /\ reset = [e \in Episodes |-> "none"]
  /\ registered = {}
  /\ browser = [e \in Episodes |-> "none"]
  /\ pending = [e \in Episodes |-> 0]
  /\ events = [e \in Episodes |-> 0]
  /\ seen = [e \in Episodes |-> 0]
  /\ closing = [e \in Episodes |-> "none"]
  /\ transcript = [e \in Episodes |-> 0]
  /\ cached = [e \in Episodes |-> "none"]
  /\ answers = [e \in Episodes |-> {}]

Goto(e, point) == client' = [client EXCEPT ![e] = point]

-----------------------------------------------------------------------------
(* finalize: the classification of a result *)

\* Mutant: the reset_error branch of the classification is missing.
ClassifyNoReset(e, answer) ==
  CASE answer = "unknown"     -> "unknown_session"
    [] answer = "judge_error" -> "judge_failed"
    [] OTHER                  -> answer

Classify(e, answer) ==
  IF record[e] = "reset_error" THEN "reset_failed"
  ELSE CASE answer = "unknown"     -> "unknown_session"
         [] answer = "judge_error" -> "judge_failed"
         [] OTHER                  -> answer

\* finalize returns: the episode is over.
Finish(e, result) ==
  /\ outcome' = [outcome EXCEPT ![e] = result]
  /\ Goto(e, "done")

\* The client's try-th /close has failed.
CloseFailed(e, try) ==
  \/ try < 2 /\ Goto(e, "retry") /\ UNCHANGED outcome
  \/ try = 2 /\ Finish(e, "close_rpc_failed")

\* close answers.  Only a client that still waits for a close hears it.
Answer(e, answer) ==
  /\ answers' = [answers EXCEPT ![e] = @ \cup {answer}]
  /\ IF client[e] = "close"
     THEN Finish(e, Classify(e, answer))
     ELSE UNCHANGED <<client, outcome>>

\* Mutant: a retry does not join the invocation in flight, it finds no record.
ReceiveCloseNoJoin(e, try) ==
  /\ tries' = [tries EXCEPT ![e] = try]
  /\ \/ /\ e \in registered
        /\ registered' = registered \ {e}
        /\ closing' = [closing EXCEPT ![e] = "capture"]
        /\ transcript' = [transcript EXCEPT ![e] = events[e]]
        /\ Goto(e, "close")
        /\ UNCHANGED <<outcome, answers>>
     \/ /\ e \notin registered
        /\ LET answer == IF cached[e] # "none" THEN cached[e] ELSE "unknown"
           IN  /\ answers' = [answers EXCEPT ![e] = @ \cup {answer}]
               /\ Finish(e, Classify(e, answer))
        /\ UNCHANGED <<registered, closing, transcript>>
  /\ UNCHANGED cached

\* The server receives the client's try-th /close.  It replays a cached result,
\* or joins the invocation in flight, or executes: it pops the record and
\* renders the transcript, or answers unknown_browser_session.
ReceiveClose(e, try) ==
  /\ tries' = [tries EXCEPT ![e] = try]
  /\ \/ /\ cached[e] # "none"
        /\ answers' = [answers EXCEPT ![e] = @ \cup {cached[e]}]
        /\ Finish(e, Classify(e, cached[e]))
        /\ UNCHANGED <<registered, closing, transcript>>
     \/ /\ cached[e] = "none"
        /\ closing[e] \in {"capture", "cleanup", "judge"}
        /\ Goto(e, "close")
        /\ UNCHANGED <<outcome, answers, registered, closing, transcript>>
     \/ /\ cached[e] = "none"
        /\ closing[e] \in {"none", "over"}
        /\ e \in registered
        /\ registered' = registered \ {e}
        /\ closing' = [closing EXCEPT ![e] = "capture"]
        /\ transcript' = [transcript EXCEPT ![e] = events[e]]
        /\ Goto(e, "close")
        /\ UNCHANGED <<outcome, answers>>
     \/ /\ cached[e] = "none"
        /\ closing[e] \in {"none", "over"}
        /\ e \notin registered
        /\ answers' = [answers EXCEPT ![e] = @ \cup {"unknown"}]
        /\ Finish(e, Classify(e, "unknown"))
        /\ UNCHANGED <<registered, closing, transcript>>
  /\ UNCHANGED cached

\* The client posts its try-th /close; on a broken connection nothing reaches the
\* server.
PostClose(e, try) ==
  \/ ReceiveClose(e, try)
  \/ /\ Lossy
     /\ tries' = [tries EXCEPT ![e] = try]
     /\ CloseFailed(e, try)
     /\ UNCHANGED <<registered, closeVars>>

\* Mutant: an episode cut off early is played again and no attempt is counted.
FinalizeUncounted(e, generated) ==
  IF record[e] = "none"
  THEN /\ IF generated THEN Finish(e, "no_browser_session")
                       ELSE Goto(e, "idle") /\ UNCHANGED outcome
       /\ UNCHANGED <<tries, registered, closeVars>>
  ELSE PostClose(e, 1)

\* _run_episode leaves its loop.  Without an entry in _sessions nothing is
\* closed; an episode cut off before its first token is excluded.
Finalize(e, generated) ==
  IF record[e] = "none"
  THEN /\ Finish(e, IF generated THEN "no_browser_session"
                                 ELSE "generation_aborted_timeout")
       /\ UNCHANGED <<tries, registered, closeVars>>
  ELSE PostClose(e, 1)

-----------------------------------------------------------------------------
(* The agent loop *)

\* run() starts an episode: the first, or the retry of an invalid one.
Begin(e) ==
  /\ client[e] = "idle"
  /\ e > 1 => outcome[e - 1] \in Invalid
  /\ Goto(e, "policy")
  /\ UNCHANGED <<record, calls, tries, outcome, reset, registered, browser,
                 stepVars, closeVars>>

\* execute posts /step.  A tool error answers the policy at once when the session
\* is not known (404), or on a broken connection.
PostStep(e, known) ==
  \/ /\ known
     /\ pending' = [pending EXCEPT ![e] = @ + 1]
     /\ Goto(e, "step")
  \/ /\ ~known \/ Lossy
     /\ Goto(e, "policy")
     /\ UNCHANGED pending

\* The policy calls the browser tool: the first call posts /reset, a failed
\* reset answers every call itself, otherwise the call is a step.  A /reset lost
\* on its way is for the client one that the server refuses: its record says
\* reset_error and no session exists.
CallTool(e) ==
  /\ client[e] = "policy"
  /\ calls[e] < MaxSteps
  /\ calls' = [calls EXCEPT ![e] = @ + 1]
  /\ \/ /\ record[e] = "none"
        /\ reset' = [reset EXCEPT ![e] = "running"]
        /\ Goto(e, "reset")
        /\ UNCHANGED pending
     \/ /\ record[e] = "reset_error"
        /\ UNCHANGED <<reset, client, pending>>
     \/ /\ record[e] = "ok"
        /\ PostStep(e, e \in registered)
        /\ UNCHANGED reset
  /\ UNCHANGED <<record, tries, outcome, registered, browser, events, seen,
                 closeVars>>

\* The policy stops: a final answer, or no further tool call.
Stop(e) ==
  /\ client[e] = "policy"
  /\ Finalize(e, TRUE)
  /\ UNCHANGED <<record, calls, reset, browser, stepVars>>

\* LEXMOUNT_AGENT_EPISODE_TIMEOUT_S expires.  In a pending reset the
\* CancelledError passes _state before it stores its entry.
EpisodeTimeout(e) ==
  /\ client[e] \in DeadlineHits
  /\ Finalize(e, calls[e] > 0)
  /\ UNCHANGED <<record, calls, reset, browser, stepVars>>

\* The /reset call fails on the client: its deadline (after the server's own
\* budget) or a broken connection.
ResetRpcFails(e) ==
  /\ client[e] = "reset"
  /\ Lossy \/ reset[e] = "refusing"
  /\ record' = [record EXCEPT ![e] = "reset_error"]
  /\ Goto(e, "policy")
  /\ UNCHANGED <<calls, tries, outcome, reset, registered, browser, stepVars,
                 closeVars>>

\* The /step call times out on the client (35 s).
StepRpcFails(e) ==
  /\ client[e] = "step"
  /\ Goto(e, "policy")
  /\ UNCHANGED <<record, calls, tries, outcome, reset, registered, browser,
                 stepVars, closeVars>>

\* Mutant: one retry too many.
CloseRpcFailsTwice(e) ==
  /\ client[e] = "close"
  /\ Goto(e, "retry")
  /\ UNCHANGED <<record, calls, tries, outcome, reset, registered, browser,
                 stepVars, closeVars>>

\* The /close call times out on the client (90 s): one retry, then give up.
CloseRpcFails(e) ==
  /\ client[e] = "close"
  /\ CloseFailed(e, tries[e])
  /\ UNCHANGED <<record, calls, tries, reset, registered, browser, stepVars,
                 closeVars>>

\* The client retries /close; meanwhile the first invocation may have ended.
RetryClose(e) ==
  /\ client[e] = "retry"
  /\ PostClose(e, tries[e] + 1)
  /\ UNCHANGED <<record, calls, reset, browser, stepVars>>

-----------------------------------------------------------------------------
(* The resources server *)

\* reset registers its session; a client that still waits goes on to its step.
ResetSucceeds(e) ==
  /\ reset[e] = "running"
  /\ reset' = [reset EXCEPT ![e] = "over"]
  /\ registered' = registered \cup {e}
  /\ browser' = [browser EXCEPT ![e] = "up"]
  /\ IF client[e] = "reset"
     THEN /\ record' = [record EXCEPT ![e] = "ok"]
          /\ PostStep(e, TRUE)
     ELSE UNCHANGED <<record, pending, client>>
  /\ UNCHANGED <<calls, tries, outcome, events, seen, closeVars>>

\* Every attempt failed or the budget is spent: reset cleans up, which may
\* outlast the client, and refuses.
ResetFails(e) ==
  /\ \/ /\ reset[e] = "running"
        /\ reset' = [reset EXCEPT ![e] = "refusing"]
        /\ UNCHANGED <<record, client>>
     \/ /\ reset[e] = "refusing"
        /\ reset' = [reset EXCEPT ![e] = "over"]
        /\ IF client[e] = "reset"
           THEN /\ record' = [record EXCEPT ![e] = "reset_error"]
                /\ Goto(e, "policy")
           ELSE UNCHANGED <<record, client>>
  /\ UNCHANGED <<calls, tries, outcome, registered, browser, stepVars, closeVars>>

\* Mutant: the event is appended after the answer, here never.
StepEndsUnrecorded(e) ==
  /\ pending[e] > 0
  /\ pending' = [pending EXCEPT ![e] = @ - 1]
  /\ IF client[e] = "step" /\ pending[e] = 1
     THEN /\ seen' = [seen EXCEPT ![e] = @ + 1]
          /\ Goto(e, "policy")
     ELSE UNCHANGED <<seen, client>>
  /\ UNCHANGED <<record, calls, tries, outcome, reset, registered, browser,
                 events, closeVars>>

\* A step handler ends.  With the browser up it appended its event or raised;
\* once cleanup_session has popped the browser it can only raise.  Handlers of
\* one record run in order, so the client waits for the last one.
StepEnds(e) ==
  /\ pending[e] > 0
  /\ pending' = [pending EXCEPT ![e] = @ - 1]
  /\ LET heard == client[e] = "step" /\ pending[e] = 1
     IN  /\ \/ /\ browser[e] = "up"
               /\ events' = [events EXCEPT ![e] = @ + 1]
               /\ seen' = IF heard THEN [seen EXCEPT ![e] = @ + 1] ELSE seen
            \/ UNCHANGED <<events, seen>>
         /\ IF heard THEN Goto(e, "policy") ELSE UNCHANGED client
  /\ UNCHANGED <<record, calls, tries, outcome, reset, registered, browser,
                 closeVars>>

\* The executing close has captured the final state (at most 25 s).
Capture(e) ==
  /\ closing[e] = "capture"
  /\ closing' = [closing EXCEPT ![e] = "cleanup"]
  /\ UNCHANGED <<clientVars, reset, registered, browser, stepVars, transcript,
                 cached, answers>>

\* It releases the browser, before the judge runs.
Cleanup(e) ==
  /\ closing[e] = "cleanup"
  /\ browser' = [browser EXCEPT ![e] = "gone"]
  /\ closing' = [closing EXCEPT ![e] = "judge"]
  /\ UNCHANGED <<clientVars, reset, registered, stepVars, transcript, cached,
                 answers>>

\* The judge decides, unless there is nothing to judge; the result is cached,
\* the future resolves and every joined call is answered.
Judge(e) ==
  /\ closing[e] = "judge"
  /\ \E verdict \in IF transcript[e] = 0 THEN {"no_tool_calls"}
                    ELSE {"judge_yes", "judge_no", "judge_error"} :
       /\ cached' = [cached EXCEPT ![e] = verdict]
       /\ Answer(e, verdict)
  /\ closing' = [closing EXCEPT ![e] = "over"]
  /\ UNCHANGED <<record, calls, tries, reset, registered, browser, stepVars,
                 transcript>>

\* Mutant: a raising close puts the record back for the retry.
CloseRaisesRestores(e) ==
  /\ closing[e] \in {"cleanup", "judge"}
  /\ closing' = [closing EXCEPT ![e] = "over"]
  /\ browser' = [browser EXCEPT ![e] = "gone"]
  /\ registered' = registered \cup {e}
  /\ answers' = [answers EXCEPT ![e] = @ \cup {"raised"}]
  /\ IF client[e] = "close" THEN CloseFailed(e, tries[e]) ELSE UNCHANGED <<client, outcome>>
  /\ UNCHANGED <<record, calls, tries, reset, stepVars, transcript, cached>>

\* The executing close raises: the future carries the exception, nothing is
\* cached.  A waiting client counts a failed call.
CloseRaises(e) ==
  /\ closing[e] \in {"cleanup", "judge"}
  /\ closing' = [closing EXCEPT ![e] = "over"]
  /\ browser' = [browser EXCEPT ![e] = "gone"]
  /\ answers' = [answers EXCEPT ![e] = @ \cup {"raised"}]
  /\ IF client[e] = "close" THEN CloseFailed(e, tries[e]) ELSE UNCHANGED <<client, outcome>>
  /\ UNCHANGED <<record, calls, tries, reset, registered, stepVars, transcript,
                 cached>>

\* Mutant: expiry drops the record and forgets the browser.
ExpireWithoutCleanup(e) ==
  /\ e \in registered
  /\ client[e] \in {"close", "retry", "done"} \/ record[e] = "reset_error"
  /\ registered' = registered \ {e}
  /\ UNCHANGED <<clientVars, reset, browser, stepVars, closeVars>>

\* The record expires (LEXMOUNT_AGENT_EPISODE_TIMEOUT_S after registration): the
\* client's own deadline started earlier, so its episode is past its loop.
Expire(e) ==
  /\ e \in registered
  /\ client[e] \in {"close", "retry", "done"} \/ record[e] = "reset_error"
  /\ registered' = registered \ {e}
  /\ browser' = [browser EXCEPT ![e] = "gone"]
  /\ UNCHANGED <<clientVars, reset, stepVars, closeVars>>

-----------------------------------------------------------------------------
ServerStep(e) ==
  \/ ResetSucceeds(e) \/ ResetFails(e) \/ StepEnds(e)
  \/ Capture(e) \/ Cleanup(e) \/ Judge(e) \/ CloseRaises(e)

Deadline(e) ==
  EpisodeTimeout(e) \/ ResetRpcFails(e) \/ StepRpcFails(e) \/ CloseRpcFails(e)

ClientStep(e) == Begin(e) \/ CallTool(e) \/ Stop(e) \/ RetryClose(e)

\* run() returns the last episode's result.
Returned ==
  \/ \E e \in Episodes : outcome[e] \in Valid
  \/ outcome[MaxAttempts] # "none"

Next ==
  \E e \in Episodes :
    ClientStep(e) \/ Deadline(e) \/ ServerStep(e) \/ Expire(e)

Spec == Init /\ [][Next]_vars

\* Handlers end (every await in them is bounded), deadlines fire, the loop goes
\* on to its next episode, records expire.
FairSpec ==
  /\ Spec
  /\ \A e \in Episodes :
       /\ WF_vars(Begin(e))
       /\ WF_vars(Stop(e) \/ EpisodeTimeout(e))
       /\ WF_vars(ServerStep(e))
       /\ WF_vars(CloseRpcFails(e) \/ RetryClose(e))
       /\ WF_vars(Expire(e))

-----------------------------------------------------------------------------
(* Properties *)

\* /close is idempotent: whatever the timing of timeouts and retries, all calls
\* that get an answer get the same one.
CloseIsIdempotent ==
  \A e \in Episodes :
    \A a, b \in answers[e] \ {"raised"} :
      a # b => "raised" \in answers[e]

\* The judge's transcript contains every step result the policy saw.
SeenIsJudged ==
  \A e \in Episodes :
    closing[e] \in {"capture", "cleanup", "judge"} \/ cached[e] # "none"
      => seen[e] <= transcript[e]

\* The deadline cut a pending reset: its CancelledError passed _state before the
\* entry was stored, so finalize does not know that the policy asked.
CutOff(e) == record[e] = "none" /\ reset[e] # "none"

\* Nothing of the session reached the policy: every /step failed, and close found
\* no event to judge.
Unheard(e) ==
  outcome[e] = "no_tool_calls" /\ record[e] = "ok" /\ calls[e] > 0 /\ seen[e] = 0

\* A reward that enters the baseline is the judge's verdict on the episode's own
\* session, or the policy never asked for a browser.
Earned(e) ==
  \/ outcome[e] = "no_browser_session" /\ reset[e] = "none"
  \/ /\ outcome[e] \in {"judge_yes", "judge_no"}
     /\ record[e] = "ok"
     /\ cached[e] = outcome[e]

\* Every reward that enters the baseline is earned (comment in finalize: a
\* reward=0 from infrastructure must be distinguishable).
InfraIsInvalid == \A e \in Episodes : outcome[e] \in Valid => Earned(e)

\* Whatever breaks or times out, every reward that enters the baseline is
\* earned, except in two gaps: the deadline cut a pending reset, or no step of a
\* session that came up was ever answered.
OutageIsInvalid ==
  \A e \in Episodes : outcome[e] \in Valid => Earned(e) \/ CutOff(e) \/ Unheard(e)

\* Neither /close of the client reached the server.
Unreached(e) == outcome[e] = "close_rpc_failed" /\ closing[e] = "none"

\* Once the client has its result nobody is left to step or close a session.
\* One that is registered then was opened by a reset whose answer the client did
\* not wait for or lost (comment in _state on the reset deadline), or belongs to
\* an excluded result none of whose /close requests arrived: a close that did
\* arrive leaves nothing registered, however it ends.
NoOrphanRegistered ==
  \A e \in Episodes :
    client[e] = "done" /\ e \in registered
      => record[e] = "reset_error" \/ CutOff(e) \/ Unreached(e)

\* Every browser that a reset brought up is released, the ones whose client is
\* gone by the expiry task.
BrowserReleased ==
  \A e \in Episodes : browser[e] = "up" ~> browser[e] = "gone"

\* The rollout ends: run() returns.
RolloutEnds == <>Returned
=============================================================================
