----------------------- MODULE EpisodeProtocolProofs -----------------------
(***************************************************************************)
(* Proofs about EpisodeProtocol, for every number of episodes and of tool  *)
(* calls, with and without broken connections and slow resets: the types,  *)
(* and the four safety properties of its run.                              *)
(*                                                                         *)
(* An action of an episode leaves the other episodes alone, so the         *)
(* invariant is a conjunction over episodes, and the proofs show for each  *)
(* action what it does to its own.                                         *)
(***************************************************************************)
EXTENDS EpisodeProtocol, Integers, TLAPS

InLoop  == {"idle", "policy", "reset", "step"}
Closing == {"capture", "cleanup", "judge"}

\* Every step handler and every event stems from a tool call of its own, and the
\* policy sees events only.
CallsCounted(e) ==
  /\ pending[e] + events[e] + (IF client[e] = "reset" THEN 1 ELSE 0) <= calls[e]
  /\ seen[e] <= events[e]

\* What the client knows of its reset, and the server of the session.
ResetKnown(e) ==
  /\ record[e] = "none" /\ client[e] \in {"idle", "policy"} => reset[e] = "none"
  /\ client[e] = "reset" => record[e] = "none" /\ calls[e] > 0
  /\ record[e] # "none" => calls[e] > 0
  /\ client[e] = "step" => record[e] = "ok"
  /\ client[e] \in {"close", "retry"} => record[e] # "none"
  /\ record[e] = "ok" => reset[e] = "over"
  /\ e \in registered \/ closing[e] # "none" => reset[e] = "over"

\* The first /close is the first call that may pop the record.
CloseKnown(e) ==
  /\ client[e] \in InLoop => closing[e] = "none" /\ answers[e] = {} /\ tries[e] = 0
  /\ client[e] = "close" => closing[e] \in Closing /\ tries[e] \in {1, 2}
  /\ client[e] = "retry" => tries[e] = 1 /\ (closing[e] = "none" => answers[e] = {})
  /\ client[e] # "done" => outcome[e] = "none"
  /\ closing[e] # "none" => e \notin registered

\* An invocation answers nothing before it ends, and then its result only.
AnswersAgree(e) ==
  /\ closing[e] = "none" => cached[e] = "none" /\ answers[e] \subseteq {"unknown"}
  /\ closing[e] \in Closing => cached[e] = "none" /\ answers[e] = {}
  /\ closing[e] = "over" =>
       \/ cached[e] # "none" /\ answers[e] \subseteq {cached[e]}
       \/ cached[e] = "none" /\ "raised" \in answers[e]

\* With nothing to judge, the policy had seen nothing.
Judged(e) ==
  /\ closing[e] \in Closing \/ cached[e] # "none" => seen[e] <= transcript[e]
  /\ cached[e] = "no_tool_calls" => seen[e] = 0

Rewarded(e) ==
  outcome[e] \in Valid => Earned(e) \/ CutOff(e) \/ Unheard(e)

Released(e) ==
  client[e] = "done" /\ e \in registered
    => record[e] = "reset_error" \/ CutOff(e) \/ Unreached(e)

Good(e) ==
  /\ CallsCounted(e)
  /\ ResetKnown(e)
  /\ CloseKnown(e)
  /\ AnswersAgree(e)
  /\ Judged(e)
  /\ Rewarded(e)
  /\ Released(e)

IInv == TypeOK /\ \A e \in Episodes : Good(e)

\* The other episodes are as they were.
Others(e) ==
  \A f \in Episodes \ {e} :
    /\ client'[f] = client[f] /\ record'[f] = record[f] /\ calls'[f] = calls[f]
    /\ tries'[f] = tries[f] /\ outcome'[f] = outcome[f] /\ reset'[f] = reset[f]
    /\ f \in registered' <=> f \in registered
    /\ browser'[f] = browser[f] /\ pending'[f] = pending[f]
    /\ events'[f] = events[f] /\ seen'[f] = seen[f] /\ closing'[f] = closing[f]
    /\ transcript'[f] = transcript[f] /\ cached'[f] = cached[f]
    /\ answers'[f] = answers[f]

\* The invariant of an episode, after an action of it, and the others' state.
Kept(e) == TypeOK' /\ Others(e) /\ Good(e)'

LEMMA BoundsAreNaturals ==
  MaxAttempts \in Nat \ {0} /\ MaxSteps \in Nat \ {0}
BY EpisodeAssumption DEF EpisodeAssumption

-----------------------------------------------------------------------------
(* Each action keeps its own episode good; in the order of the module *)

LEMMA BeginKeeps ==
  ASSUME TypeOK, NEW e \in Episodes, Good(e), Begin(e)
  PROVE  Kept(e)
<1> USE BoundsAreNaturals
    DEF Episodes, Verdicts, Valid, Invalid, Begin, Goto, stepVars, closeVars
<1>1. TypeOK'
  BY DEF TypeOK
<1>2. Others(e)
  BY DEF TypeOK, Others
<1>3. Good(e)'
  BY SMTT(30) DEF TypeOK, Good, InLoop, Closing, CallsCounted, ResetKnown, CloseKnown,
     AnswersAgree, Judged, Rewarded, Released, Earned, CutOff, Unheard, Unreached
<1> QED  BY <1>1, <1>2, <1>3 DEF Kept

LEMMA CallToolKeeps ==
  ASSUME TypeOK, NEW e \in Episodes, Good(e), CallTool(e)
  PROVE  Kept(e)
<1> USE BoundsAreNaturals DEF Episodes, Verdicts, Valid, Invalid
<1>1. CASE record[e] = "none"
  <2>1. /\ client' = [client EXCEPT ![e] = "reset"]
        /\ calls' = [calls EXCEPT ![e] = @ + 1]
        /\ reset' = [reset EXCEPT ![e] = "running"]
        /\ UNCHANGED <<record, tries, outcome, registered, browser, pending,
                       events, seen, closing, transcript, cached,
                       answers>>
    BY <1>1 DEF TypeOK, clientVars, stepVars, closeVars, CallTool, PostStep, Goto
  <2>2. /\ client[e] = "policy"
        /\ calls[e] < MaxSteps
        /\ calls[e] + 1 \in 0..MaxSteps
    BY <1>1 DEF TypeOK, CallTool
  <2>3. TypeOK'
    <3> HIDE DEF Episodes, Verdicts, Valid, Invalid
    <3> QED  BY <2>1, <2>2 DEF TypeOK
  <2>4. Others(e)
    BY <2>1 DEF TypeOK, Others
  <2>5. Good(e)'
    BY SMTT(30), <1>1, <2>1, <2>2 DEF TypeOK, InLoop, Closing, Good, CallsCounted,
       ResetKnown, CloseKnown, AnswersAgree, Judged, Rewarded, Released, Earned,
       CutOff, Unheard, Unreached
  <2> QED  BY <2>3, <2>4, <2>5 DEF Kept
<1>2. CASE record[e] = "reset_error"
  <2>1. /\ calls' = [calls EXCEPT ![e] = @ + 1]
        /\ UNCHANGED <<client, record, tries, outcome, reset, registered,
                       browser, pending, events, seen, closing,
                       transcript, cached, answers>>
    BY <1>2 DEF TypeOK, clientVars, stepVars, closeVars, CallTool, PostStep, Goto
  <2>2. /\ client[e] = "policy"
        /\ calls[e] < MaxSteps
        /\ calls[e] + 1 \in 0..MaxSteps
    BY SMTT(30), <1>2 DEF TypeOK, CallTool
  <2>3. TypeOK'
    <3> HIDE DEF Episodes, Verdicts, Valid, Invalid
    <3> QED  BY <2>1, <2>2 DEF TypeOK
  <2>4. Others(e)
    BY <2>1 DEF TypeOK, Others
  <2>5. Good(e)'
    BY SMTT(30), <1>2, <2>1, <2>2 DEF TypeOK, InLoop, Closing, Good, CallsCounted,
       ResetKnown, CloseKnown, AnswersAgree, Judged, Rewarded, Released, Earned,
       CutOff, Unheard, Unreached
  <2> QED  BY <2>3, <2>4, <2>5 DEF Kept
<1>3. CASE record[e] = "ok" /\ client'[e] = "step"
  <2>1. /\ client' = [client EXCEPT ![e] = "step"]
        /\ calls' = [calls EXCEPT ![e] = @ + 1]
        /\ pending' = [pending EXCEPT ![e] = @ + 1]
        /\ UNCHANGED <<record, tries, outcome, reset, registered, browser,
                       events, seen, closing, transcript, cached,
                       answers>>
    BY <1>3 DEF TypeOK, clientVars, stepVars, closeVars, CallTool, PostStep, Goto
  <2>2. /\ client[e] = "policy"
        /\ calls[e] + 1 \in 0..MaxSteps
        /\ pending[e] + 1 \in 0..MaxSteps
    BY SMTT(30), <1>3 DEF TypeOK, Good, CallsCounted, CallTool
  <2>3. TypeOK'
    <3> HIDE DEF Episodes, Verdicts, Valid, Invalid
    <3> QED  BY <2>1, <2>2 DEF TypeOK
  <2>4. Others(e)
    BY <2>1 DEF TypeOK, Others
  <2>5. CallsCounted(e)'
    <3>1. /\ pending'[e] = pending[e] + 1 /\ calls'[e] = calls[e] + 1
          /\ events'[e] = events[e] /\ seen'[e] = seen[e] /\ client'[e] = "step"
      BY <2>1 DEF TypeOK
    <3>2. calls[e] \in Int /\ pending[e] \in Int /\ events[e] \in Int
      BY DEF TypeOK
    <3>3. pending[e] + events[e] <= calls[e] /\ seen[e] <= events[e]
      BY <2>2, <3>2 DEF Good, CallsCounted
    <3> QED  BY <3>1, <3>2, <3>3 DEF CallsCounted
  <2>6. Good(e)'
    BY SMTT(30), <1>3, <2>1, <2>2, <2>5 DEF TypeOK, InLoop, Closing, Good, ResetKnown,
       CloseKnown,
       AnswersAgree, Judged, Rewarded, Released, Earned, CutOff, Unheard, Unreached
  <2> QED  BY <2>3, <2>4, <2>6 DEF Kept
<1>4. CASE record[e] = "ok" /\ client'[e] # "step"
  <2>1. /\ client' = [client EXCEPT ![e] = "policy"]
        /\ calls' = [calls EXCEPT ![e] = @ + 1]
        /\ UNCHANGED <<record, tries, outcome, reset, registered, browser,
                       pending, events, seen, closing, transcript,
                       cached, answers>>
    BY <1>4 DEF TypeOK, clientVars, stepVars, closeVars, CallTool, PostStep, Goto
  <2>2. /\ client[e] = "policy"
        /\ calls[e] + 1 \in 0..MaxSteps
    BY SMTT(30), <1>4 DEF TypeOK, CallTool
  <2>3. TypeOK'
    <3> HIDE DEF Episodes, Verdicts, Valid, Invalid
    <3> QED  BY <2>1, <2>2 DEF TypeOK
  <2>4. Others(e)
    BY <2>1 DEF TypeOK, Others
  <2>5. Good(e)'
    BY SMTT(30), <1>4, <2>1, <2>2 DEF TypeOK, InLoop, Closing, Good, CallsCounted,
       ResetKnown, CloseKnown, AnswersAgree, Judged, Rewarded, Released, Earned,
       CutOff, Unheard, Unreached
  <2> QED  BY <2>3, <2>4, <2>5 DEF Kept
<1> QED  BY <1>1, <1>2, <1>3, <1>4 DEF CallTool, PostStep, Goto

\* A /close that the server receives, from finalize or as its retry.
LEMMA CloseReceived ==
  ASSUME TypeOK, NEW e \in Episodes, Good(e), NEW try \in {1, 2},
         ReceiveClose(e, try), record[e] # "none",
         client[e] \in {"policy", "step", "retry"},
         UNCHANGED <<record, calls, reset, browser, pending, events, seen>>
  PROVE  Kept(e)
<1> USE BoundsAreNaturals DEF Episodes, Verdicts, Valid, Invalid
<1>0. try \in 0..2
  OBVIOUS
<1>1. CASE cached[e] # "none"
  <2>1. /\ client' = [client EXCEPT ![e] = "done"]
        /\ tries' = [tries EXCEPT ![e] = try]
        /\ outcome' = [outcome EXCEPT ![e] = Classify(e, cached[e])]
        /\ answers' = [answers EXCEPT ![e] = @ \cup {cached[e]}]
        /\ UNCHANGED <<record, calls, reset, registered, browser, pending,
                       events, seen, closing, transcript, cached>>
    BY <1>1 DEF Closing, TypeOK, ReceiveClose, Finish, Goto
  <2>2. /\ cached[e] \in Verdicts
        /\ Classify(e, cached[e]) \in Valid \cup Invalid
    BY <1>1 DEF TypeOK, Classify
  <2>3. TypeOK'
    <3> HIDE DEF Episodes, Verdicts, Valid, Invalid
    <3> QED  BY <1>0, <2>1, <2>2 DEF TypeOK
  <2>4. Others(e)
    BY <2>1 DEF TypeOK, Others
  <2>5. Good(e)'
    BY SMTT(30), <1>1, <2>1, <2>2 DEF TypeOK, Classify, InLoop, Closing, Good,
       CallsCounted, ResetKnown, CloseKnown,
       AnswersAgree, Judged, Rewarded, Released, Earned, CutOff, Unheard, Unreached
  <2> QED  BY <2>3, <2>4, <2>5 DEF Kept
<1>2. CASE cached[e] = "none" /\ closing[e] \in Closing
  <2>1. /\ client' = [client EXCEPT ![e] = "close"]
        /\ tries' = [tries EXCEPT ![e] = try]
        /\ UNCHANGED <<record, calls, outcome, reset, registered, browser,
                       pending, events, seen, closing, transcript,
                       cached, answers>>
    BY <1>2 DEF Closing, TypeOK, ReceiveClose, Finish, Goto
  <2>2. client[e] = "retry"
    BY <1>2 DEF Good, CloseKnown, InLoop, Closing
  <2>3. TypeOK'
    <3> HIDE DEF Episodes, Verdicts, Valid, Invalid
    <3> QED  BY <1>0, <2>1 DEF TypeOK
  <2>4. Others(e)
    BY <2>1 DEF TypeOK, Others
  <2>5. Good(e)'
    BY SMTT(30), <1>2, <2>1, <2>2 DEF TypeOK, Classify, InLoop, Closing, Good,
       CallsCounted, ResetKnown, CloseKnown,
       AnswersAgree, Judged, Rewarded, Released, Earned, CutOff, Unheard, Unreached
  <2> QED  BY <2>3, <2>4, <2>5 DEF Kept
<1>3. CASE cached[e] = "none" /\ closing[e] \notin Closing /\ e \in registered
  <2>1. /\ client' = [client EXCEPT ![e] = "close"]
        /\ tries' = [tries EXCEPT ![e] = try]
        /\ registered' = registered \ {e}
        /\ closing' = [closing EXCEPT ![e] = "capture"]
        /\ transcript' = [transcript EXCEPT ![e] = events[e]]
        /\ UNCHANGED <<record, calls, outcome, reset, browser, pending, events,
                       seen, cached, answers>>
    BY <1>3 DEF Closing, TypeOK, ReceiveClose, Finish, Goto
  <2>2. /\ seen[e] <= events[e]
        /\ closing[e] = "none"
        /\ answers[e] = {}
        /\ events[e] \in 0..MaxSteps
    BY <1>3 DEF TypeOK, Good, CallsCounted, CloseKnown, InLoop
  <2>3. TypeOK'
    <3> HIDE DEF Episodes, Verdicts, Valid, Invalid
    <3> QED  BY <1>0, <2>1, <2>2 DEF TypeOK
  <2>4. Others(e)
    BY <2>1 DEF TypeOK, Others
  <2>5. Good(e)'
    BY SMTT(30), <1>3, <2>1, <2>2 DEF TypeOK, Classify, InLoop, Closing, Good,
       CallsCounted, ResetKnown, CloseKnown,
       AnswersAgree, Judged, Rewarded, Released, Earned, CutOff, Unheard, Unreached
  <2> QED  BY <2>3, <2>4, <2>5 DEF Kept
<1>4. CASE cached[e] = "none" /\ closing[e] \notin Closing /\ e \notin registered
  <2>1. /\ client' = [client EXCEPT ![e] = "done"]
        /\ tries' = [tries EXCEPT ![e] = try]
        /\ outcome' = [outcome EXCEPT ![e] = Classify(e, "unknown")]
        /\ answers' = [answers EXCEPT ![e] = @ \cup {"unknown"}]
        /\ UNCHANGED <<record, calls, reset, registered, browser, pending,
                       events, seen, closing, transcript, cached>>
    BY <1>4 DEF Closing, TypeOK, ReceiveClose, Finish, Goto
  <2>2. Classify(e, "unknown") \in Invalid
    BY <1>4 DEF Classify
  <2>3. TypeOK'
    <3> HIDE DEF Episodes, Verdicts, Valid, Invalid
    <3> QED  BY <1>0, <2>1, <2>2 DEF TypeOK
  <2>4. Others(e)
    BY <2>1 DEF TypeOK, Others
  <2>5. Good(e)'
    BY SMTT(30), <1>4, <2>1, <2>2 DEF TypeOK, Classify, InLoop, Closing, Good,
       CallsCounted, ResetKnown, CloseKnown,
       AnswersAgree, Judged, Rewarded, Released, Earned, CutOff, Unheard, Unreached
  <2> QED  BY <2>3, <2>4, <2>5 DEF Kept
<1> QED  BY <1>1, <1>2, <1>3, <1>4

\* A /close that the client posts: the server receives it, or it is lost.
LEMMA ClosePosted ==
  ASSUME TypeOK, NEW e \in Episodes, Good(e), NEW try \in {1, 2},
         PostClose(e, try), record[e] # "none",
         \/ client[e] \in {"policy", "step"} /\ try = 1
         \/ client[e] = "retry" /\ try = 2,
         UNCHANGED <<record, calls, reset, browser, pending, events, seen>>
  PROVE  Kept(e)
<1> USE BoundsAreNaturals DEF Episodes, Verdicts, Valid, Invalid
<1>1. CASE ReceiveClose(e, try)
  BY <1>1, CloseReceived
<1>2. CASE try = 1 /\ ~ReceiveClose(e, try)
  <2>1. /\ client' = [client EXCEPT ![e] = "retry"]
        /\ tries' = [tries EXCEPT ![e] = 1]
        /\ UNCHANGED <<record, calls, outcome, reset, registered, browser,
                       pending, events, seen, closing, transcript, cached,
                       answers>>
    BY <1>2 DEF PostClose, CloseFailed, Finish, Goto, closeVars
  <2>2. client[e] \in InLoop /\ 1 \in 0..2
    BY <1>2 DEF InLoop
  <2>3. TypeOK'
    <3> HIDE DEF Episodes, Verdicts, Valid, Invalid
    <3> QED  BY <2>1, <2>2 DEF TypeOK
  <2>4. Others(e)
    BY <2>1 DEF TypeOK, Others
  <2>5. Good(e)'
    BY SMTT(30), <2>1, <2>2 DEF TypeOK, InLoop, Closing, Good, CallsCounted, ResetKnown,
       CloseKnown, AnswersAgree, Judged, Rewarded, Released, Earned, CutOff,
       Unheard, Unreached
  <2> QED  BY <2>3, <2>4, <2>5 DEF Kept
<1>3. CASE try = 2 /\ ~ReceiveClose(e, try)
  <2>1. /\ client' = [client EXCEPT ![e] = "done"]
        /\ tries' = [tries EXCEPT ![e] = 2]
        /\ outcome' = [outcome EXCEPT ![e] = "close_rpc_failed"]
        /\ UNCHANGED <<record, calls, reset, registered, browser, pending,
                       events, seen, closing, transcript, cached, answers>>
    BY <1>3 DEF PostClose, CloseFailed, Finish, Goto, closeVars
  <2>2. client[e] = "retry" /\ 2 \in 0..2
    BY <1>3
  <2>3. TypeOK'
    <3>1. client' \in [Episodes -> {"idle", "policy", "reset", "step", "close", "retry",
                                    "done"}]
      BY <2>1 DEF TypeOK
    <3>2. tries' \in [Episodes -> 0..2]
      BY <2>1, <2>2 DEF TypeOK
    <3>3. outcome' \in [Episodes -> Valid \cup Invalid \cup {"none"}]
      BY <2>1 DEF TypeOK
    <3>4. /\ record' = record /\ calls' = calls /\ reset' = reset
          /\ registered' = registered /\ browser' = browser /\ pending' = pending
          /\ events' = events /\ seen' = seen /\ closing' = closing
          /\ transcript' = transcript /\ cached' = cached /\ answers' = answers
      BY <2>1
    <3> HIDE DEF Episodes, Verdicts, Valid, Invalid
    <3> QED  BY ONLY TypeOK, <3>1, <3>2, <3>3, <3>4 DEF TypeOK
  <2>4. Others(e)
    BY <2>1 DEF TypeOK, Others
  <2>5. Good(e)'
    BY SMTT(30), <2>1, <2>2 DEF TypeOK, InLoop, Closing, Good, CallsCounted, ResetKnown,
       CloseKnown, AnswersAgree, Judged, Rewarded, Released, Earned, CutOff,
       Unheard, Unreached
  <2> QED  BY <2>3, <2>4, <2>5 DEF Kept
<1> QED  BY <1>1, <1>2, <1>3

\* finalize, when the policy stops or the deadline ends its loop.
LEMMA FinalizeKeeps ==
  ASSUME TypeOK, NEW e \in Episodes, Good(e), NEW generated \in BOOLEAN,
         Finalize(e, generated), client[e] \in {"policy", "step", "reset"},
         UNCHANGED <<record, calls, reset, browser, pending, events, seen>>
  PROVE  Kept(e)
<1> USE BoundsAreNaturals DEF Episodes, Verdicts, Valid, Invalid
<1>1. CASE record[e] # "none"
  <2>1. client[e] # "reset"
    BY <1>1 DEF Good, ResetKnown
  <2> QED  BY <1>1, <2>1, ClosePosted DEF Finalize
<1>2. CASE record[e] = "none"
  <2>1. PICK result \in {"no_browser_session", "generation_aborted_timeout"} :
          /\ client' = [client EXCEPT ![e] = "done"]
          /\ outcome' = [outcome EXCEPT ![e] = result]
          /\ UNCHANGED <<record, calls, tries, reset, registered, browser, pending,
                         events, seen, closing, transcript, cached, answers>>
    BY <1>2 DEF Finalize, Finish, Goto, closeVars
  <2>2. TypeOK'
    <3>1. result \in Valid \cup Invalid
      OBVIOUS
    <3> HIDE DEF Episodes, Verdicts, Valid, Invalid
    <3> QED  BY <2>1, <3>1 DEF TypeOK
  <2>3. Others(e)
    BY <2>1 DEF TypeOK, Others
  <2>4. Good(e)'
    BY SMTT(30), <1>2, <2>1 DEF TypeOK, InLoop, Closing, Good, CallsCounted, ResetKnown,
       CloseKnown,
       AnswersAgree, Judged, Rewarded, Released, Earned, CutOff, Unheard, Unreached
  <2> QED  BY <2>2, <2>3, <2>4 DEF Kept
<1> QED  BY <1>1, <1>2

LEMMA StopKeeps ==
  ASSUME TypeOK, NEW e \in Episodes, Good(e), Stop(e)
  PROVE  Kept(e)
BY FinalizeKeeps DEF Stop, stepVars

LEMMA EpisodeTimeoutKeeps ==
  ASSUME TypeOK, NEW e \in Episodes, Good(e), EpisodeTimeout(e)
  PROVE  Kept(e)
<1> DEFINE generated == calls[e] > 0
<1>0. DeadlineHits \subseteq {"policy", "reset", "step"}
  BY EpisodeAssumption DEF EpisodeAssumption
<1>1. client[e] \in {"policy", "step", "reset"}
  BY <1>0 DEF EpisodeTimeout
<1>3. generated \in BOOLEAN
  OBVIOUS
<1>2. /\ Finalize(e, generated)
      /\ UNCHANGED <<record, calls, reset, browser, pending, events, seen>>
  BY DEF EpisodeTimeout, stepVars
<1> HIDE DEF generated
<1> QED  BY <1>1, <1>2, <1>3, FinalizeKeeps

LEMMA ResetRpcFailsKeeps ==
  ASSUME TypeOK, NEW e \in Episodes, Good(e), ResetRpcFails(e)
  PROVE  Kept(e)
<1> USE BoundsAreNaturals
    DEF Episodes, Verdicts, Valid, Invalid, ResetRpcFails, Goto, stepVars, closeVars
<1>1. TypeOK'
  BY DEF TypeOK
<1>2. Others(e)
  BY DEF TypeOK, Others
<1>3. Good(e)'
  BY SMTT(30) DEF TypeOK, Good, InLoop, Closing, CallsCounted, ResetKnown, CloseKnown,
     AnswersAgree, Judged, Rewarded, Released, Earned, CutOff, Unheard, Unreached
<1> QED  BY <1>1, <1>2, <1>3 DEF Kept

LEMMA StepRpcFailsKeeps ==
  ASSUME TypeOK, NEW e \in Episodes, Good(e), StepRpcFails(e)
  PROVE  Kept(e)
<1> USE BoundsAreNaturals
    DEF Episodes, Verdicts, Valid, Invalid, StepRpcFails, Goto, stepVars, closeVars
<1>1. TypeOK'
  BY DEF TypeOK
<1>2. Others(e)
  BY DEF TypeOK, Others
<1>3. Good(e)'
  BY SMTT(30) DEF TypeOK, Good, InLoop, Closing, CallsCounted, ResetKnown, CloseKnown,
     AnswersAgree, Judged, Rewarded, Released, Earned, CutOff, Unheard, Unreached
<1> QED  BY <1>1, <1>2, <1>3 DEF Kept

LEMMA CloseRpcFailsKeeps ==
  ASSUME TypeOK, NEW e \in Episodes, Good(e), CloseRpcFails(e)
  PROVE  Kept(e)
<1> USE BoundsAreNaturals DEF Episodes, Verdicts, Valid, Invalid
<1>1. CASE tries[e] < 2
  <2>1. /\ client' = [client EXCEPT ![e] = "retry"]
        /\ UNCHANGED <<record, calls, tries, outcome, reset, registered, browser,
                       pending, events, seen, closing, transcript,
                       cached, answers>>
    BY <1>1 DEF TypeOK, clientVars, stepVars, closeVars, CloseRpcFails,
       CloseFailed, Finish, Goto
  <2>2. client[e] = "close"
    BY <1>1 DEF CloseRpcFails
  <2>3. TypeOK'
    <3> HIDE DEF Episodes, Verdicts, Valid, Invalid
    <3> QED  BY <2>1, <2>2 DEF TypeOK
  <2>4. Others(e)
    BY <2>1 DEF TypeOK, Others
  <2>5. Good(e)'
    BY SMTT(30), <1>1, <2>1, <2>2 DEF TypeOK, InLoop, Closing, Good, CallsCounted,
       ResetKnown, CloseKnown, AnswersAgree, Judged, Rewarded, Released, Earned,
       CutOff, Unheard, Unreached
  <2> QED  BY <2>3, <2>4, <2>5 DEF Kept
<1>2. CASE tries[e] = 2
  <2>1. /\ client' = [client EXCEPT ![e] = "done"]
        /\ outcome' = [outcome EXCEPT ![e] = "close_rpc_failed"]
        /\ UNCHANGED <<record, calls, tries, reset, registered, browser, pending,
                       events, seen, closing, transcript, cached,
                       answers>>
    BY <1>2 DEF TypeOK, clientVars, stepVars, closeVars, CloseRpcFails,
       CloseFailed, Finish, Goto
  <2>2. client[e] = "close"
    BY <1>2 DEF CloseRpcFails
  <2>3. TypeOK'
    <3>1. "close_rpc_failed" \in Invalid
      OBVIOUS
    <3> HIDE DEF Episodes, Verdicts, Valid, Invalid
    <3> QED  BY <2>1, <2>2, <3>1 DEF TypeOK
  <2>4. Others(e)
    BY <2>1 DEF TypeOK, Others
  <2>5. Good(e)'
    BY SMTT(30), <1>2, <2>1, <2>2 DEF TypeOK, InLoop, Closing, Good, CallsCounted,
       ResetKnown, CloseKnown, AnswersAgree, Judged, Rewarded, Released, Earned,
       CutOff, Unheard, Unreached
  <2> QED  BY <2>3, <2>4, <2>5 DEF Kept
<1> QED  BY <1>1, <1>2 DEF CloseRpcFails, CloseFailed, Finish, Goto

LEMMA RetryCloseKeeps ==
  ASSUME TypeOK, NEW e \in Episodes, Good(e), RetryClose(e)
  PROVE  Kept(e)
<1>1. tries[e] + 1 = 2 /\ record[e] # "none"
  BY DEF RetryClose, Good, CloseKnown, ResetKnown
<1> QED  BY <1>1, ClosePosted DEF RetryClose, stepVars

LEMMA ResetSucceedsKeeps ==
  ASSUME TypeOK, NEW e \in Episodes, Good(e), ResetSucceeds(e)
  PROVE  Kept(e)
<1> USE BoundsAreNaturals DEF Episodes, Verdicts, Valid, Invalid
<1>1. CASE client[e] = "reset" /\ client'[e] = "step"
  <2>1. /\ client' = [client EXCEPT ![e] = "step"]
        /\ record' = [record EXCEPT ![e] = "ok"]
        /\ reset' = [reset EXCEPT ![e] = "over"]
        /\ registered' = registered \cup {e}
        /\ browser' = [browser EXCEPT ![e] = "up"]
        /\ pending' = [pending EXCEPT ![e] = @ + 1]
        /\ UNCHANGED <<calls, tries, outcome, events, seen, closing, transcript,
                       cached, answers>>
    BY <1>1 DEF TypeOK, clientVars, stepVars, closeVars, ResetSucceeds,
       PostStep, Goto
  <2>2. /\ reset[e] = "running"
        /\ pending[e] + 1 \in 0..MaxSteps
    BY SMTT(30), <1>1 DEF TypeOK, Good, CallsCounted, ResetSucceeds
  <2>3. TypeOK'
    <3> HIDE DEF Episodes, Verdicts, Valid, Invalid
    <3> QED  BY <2>1, <2>2 DEF TypeOK
  <2>4. Others(e)
    BY <2>1 DEF TypeOK, Others
  <2>5. Good(e)'
    BY SMTT(30), <1>1, <2>1, <2>2 DEF TypeOK, InLoop, Closing, Good, CallsCounted,
       ResetKnown, CloseKnown, AnswersAgree, Judged, Rewarded, Released, Earned,
       CutOff, Unheard, Unreached
  <2> QED  BY <2>3, <2>4, <2>5 DEF Kept
<1>2. CASE client[e] # "reset"
  <2>1. /\ reset' = [reset EXCEPT ![e] = "over"]
        /\ registered' = registered \cup {e}
        /\ browser' = [browser EXCEPT ![e] = "up"]
        /\ UNCHANGED <<client, record, calls, tries, outcome, pending, events,
                       seen, closing, transcript, cached, answers>>
    BY <1>2 DEF TypeOK, clientVars, stepVars, closeVars, ResetSucceeds, Goto
  <2>2. reset[e] = "running"
    BY <1>2 DEF ResetSucceeds
  <2>3. TypeOK'
    <3> HIDE DEF Episodes, Verdicts, Valid, Invalid
    <3> QED  BY <2>1, <2>2 DEF TypeOK
  <2>4. Others(e)
    BY <2>1 DEF TypeOK, Others
  <2>5. Good(e)'
    BY SMTT(30), <1>2, <2>1, <2>2 DEF TypeOK, InLoop, Closing, Good, CallsCounted,
       ResetKnown, CloseKnown, AnswersAgree, Judged, Rewarded, Released, Earned,
       CutOff, Unheard, Unreached
  <2> QED  BY <2>3, <2>4, <2>5 DEF Kept
<1>3. CASE client[e] = "reset" /\ client'[e] # "step"
  <2>1. /\ client' = [client EXCEPT ![e] = "policy"]
        /\ record' = [record EXCEPT ![e] = "ok"]
        /\ reset' = [reset EXCEPT ![e] = "over"]
        /\ registered' = registered \cup {e}
        /\ browser' = [browser EXCEPT ![e] = "up"]
        /\ UNCHANGED <<calls, tries, outcome, pending, events, seen, closing, transcript,
                       cached, answers>>
    BY <1>3 DEF TypeOK, clientVars, stepVars, closeVars, ResetSucceeds,
       PostStep, Goto
  <2>2. reset[e] = "running"
    BY <1>3 DEF ResetSucceeds
  <2>3. TypeOK'
    <3> HIDE DEF Episodes, Verdicts, Valid, Invalid
    <3> QED  BY <2>1, <2>2 DEF TypeOK
  <2>4. Others(e)
    BY <2>1 DEF TypeOK, Others
  <2>5. Good(e)'
    BY SMTT(30), <1>3, <2>1, <2>2 DEF TypeOK, InLoop, Closing, Good, CallsCounted,
       ResetKnown, CloseKnown, AnswersAgree, Judged, Rewarded, Released, Earned,
       CutOff, Unheard, Unreached
  <2> QED  BY <2>3, <2>4, <2>5 DEF Kept
<1> QED  BY <1>1, <1>2, <1>3

LEMMA ResetFailsKeeps ==
  ASSUME TypeOK, NEW e \in Episodes, Good(e), ResetFails(e)
  PROVE  Kept(e)
<1> USE BoundsAreNaturals DEF Episodes, Verdicts, Valid, Invalid
<1>1. CASE reset[e] = "running"
  <2>1. /\ reset' = [reset EXCEPT ![e] = "refusing"]
        /\ UNCHANGED <<client, record, calls, tries, outcome, registered,
                       browser, pending, events, seen, closing,
                       transcript, cached, answers>>
    BY <1>1 DEF TypeOK, clientVars, stepVars, closeVars, ResetFails, Goto
  <2>2. reset[e] = "running"
    BY <1>1 DEF ResetFails
  <2>3. TypeOK'
    <3> HIDE DEF Episodes, Verdicts, Valid, Invalid
    <3> QED  BY <2>1, <2>2 DEF TypeOK
  <2>4. Others(e)
    BY <2>1 DEF TypeOK, Others
  <2>5. Good(e)'
    BY SMTT(30), <1>1, <2>1, <2>2 DEF TypeOK, InLoop, Closing, Good, CallsCounted,
       ResetKnown, CloseKnown, AnswersAgree, Judged, Rewarded, Released, Earned,
       CutOff, Unheard, Unreached
  <2> QED  BY <2>3, <2>4, <2>5 DEF Kept
<1>2. CASE reset[e] = "refusing" /\ client[e] = "reset"
  <2>1. /\ client' = [client EXCEPT ![e] = "policy"]
        /\ record' = [record EXCEPT ![e] = "reset_error"]
        /\ reset' = [reset EXCEPT ![e] = "over"]
        /\ UNCHANGED <<calls, tries, outcome, registered, browser, pending,
                       events, seen, closing, transcript, cached,
                       answers>>
    BY <1>2 DEF TypeOK, clientVars, stepVars, closeVars, ResetFails, Goto
  <2>2. reset[e] = "refusing"
    BY <1>2 DEF ResetFails
  <2>3. TypeOK'
    <3> HIDE DEF Episodes, Verdicts, Valid, Invalid
    <3> QED  BY <2>1, <2>2 DEF TypeOK
  <2>4. Others(e)
    BY <2>1 DEF TypeOK, Others
  <2>5. Good(e)'
    BY SMTT(30), <1>2, <2>1, <2>2 DEF TypeOK, InLoop, Closing, Good, CallsCounted,
       ResetKnown, CloseKnown, AnswersAgree, Judged, Rewarded, Released, Earned,
       CutOff, Unheard, Unreached
  <2> QED  BY <2>3, <2>4, <2>5 DEF Kept
<1>3. CASE reset[e] = "refusing" /\ client[e] # "reset"
  <2>1. /\ reset' = [reset EXCEPT ![e] = "over"]
        /\ UNCHANGED <<client, record, calls, tries, outcome, registered,
                       browser, pending, events, seen, closing,
                       transcript, cached, answers>>
    BY <1>3 DEF TypeOK, clientVars, stepVars, closeVars, ResetFails, Goto
  <2>2. reset[e] = "refusing"
    BY <1>3 DEF ResetFails
  <2>3. TypeOK'
    <3> HIDE DEF Episodes, Verdicts, Valid, Invalid
    <3> QED  BY <2>1, <2>2 DEF TypeOK
  <2>4. Others(e)
    BY <2>1 DEF TypeOK, Others
  <2>5. Good(e)'
    BY SMTT(30), <1>3, <2>1, <2>2 DEF TypeOK, InLoop, Closing, Good, CallsCounted,
       ResetKnown, CloseKnown, AnswersAgree, Judged, Rewarded, Released, Earned,
       CutOff, Unheard, Unreached
  <2> QED  BY <2>3, <2>4, <2>5 DEF Kept
<1> QED  BY <1>1, <1>2, <1>3 DEF ResetFails, Goto

LEMMA StepEndsKeeps ==
  ASSUME TypeOK, NEW e \in Episodes, Good(e), StepEnds(e)
  PROVE  Kept(e)
<1> USE BoundsAreNaturals DEF Episodes, Verdicts, Valid, Invalid
<1>1. /\ pending[e] \in 1..MaxSteps
      /\ events[e] \in 0..MaxSteps /\ seen[e] \in 0..MaxSteps
  BY DEF TypeOK, StepEnds
<1>2. pending[e] + events[e] <= MaxSteps /\ seen[e] <= events[e]
  <2>1. calls[e] \in 0..MaxSteps /\ pending[e] + events[e] <= calls[e]
    BY <1>1 DEF TypeOK, Good, CallsCounted
  <2> QED  BY <1>1, <2>1 DEF Good, CallsCounted
<1>3. /\ pending[e] - 1 \in 0..MaxSteps
      /\ events[e] + 1 \in 0..MaxSteps
      /\ seen[e] + 1 \in 0..MaxSteps
  BY <1>1, <1>2
<1>4. client[e] = "step" => record[e] = "ok" /\ closing[e] = "none"
  BY DEF Good, ResetKnown, CloseKnown, InLoop
<1>5. CASE client[e] = "step" /\ pending[e] = 1
            /\ events' = [events EXCEPT ![e] = @ + 1]
            /\ seen' = [seen EXCEPT ![e] = @ + 1]
  <2>1. /\ client' = [client EXCEPT ![e] = "policy"]
        /\ pending' = [pending EXCEPT ![e] = @ - 1]
        /\ events' = [events EXCEPT ![e] = @ + 1]
        /\ seen' = [seen EXCEPT ![e] = @ + 1]
        /\ UNCHANGED <<record, calls, tries, outcome, reset, registered, browser,
                       closing, transcript, cached, answers>>
    BY <1>5 DEF TypeOK, StepEnds, Goto, closeVars
  <2>2. TypeOK'
    <3> HIDE DEF Episodes, Verdicts, Valid, Invalid
    <3> QED  BY <1>3, <2>1 DEF TypeOK
  <2>3. Others(e)
    BY <2>1 DEF TypeOK, Others
  <2>4. CallsCounted(e)'
    BY SMTT(30), <1>1, <1>5, <2>1 DEF TypeOK, Good, CallsCounted
  <2>5. Judged(e)'
    BY <1>1, <1>4, <1>5, <2>1 DEF TypeOK, Good, CloseKnown, InLoop, AnswersAgree,
       Judged, Closing
  <2>6. Good(e)'
    BY SMTT(30), <1>5, <2>1, <2>4, <2>5 DEF TypeOK, InLoop, Closing, Good, ResetKnown,
       CloseKnown,
       AnswersAgree, Rewarded, Released, Earned, CutOff, Unheard, Unreached
  <2> QED  BY <2>2, <2>3, <2>6 DEF Kept
<1>6. CASE ~(client[e] = "step" /\ pending[e] = 1)
            /\ events' = [events EXCEPT ![e] = @ + 1] /\ seen' = seen
  <2>1. /\ pending' = [pending EXCEPT ![e] = @ - 1]
        /\ events' = [events EXCEPT ![e] = @ + 1]
        /\ UNCHANGED <<client, record, calls, tries, outcome, reset, registered,
                       browser, seen, closing, transcript, cached,
                       answers>>
    BY <1>6 DEF TypeOK, StepEnds, Goto, closeVars
  <2>2. TypeOK'
    <3> HIDE DEF Episodes, Verdicts, Valid, Invalid
    <3> QED  BY <1>3, <2>1 DEF TypeOK
  <2>3. Others(e)
    BY <2>1 DEF TypeOK, Others
  <2>4. CallsCounted(e)'
    BY SMTT(30), <1>1, <1>6, <2>1 DEF TypeOK, Good, CallsCounted
  <2>5. Judged(e)'
    BY <1>1, <1>4, <1>6, <2>1 DEF TypeOK, Good, CloseKnown, InLoop, AnswersAgree,
       Judged, Closing
  <2>6. Good(e)'
    BY SMTT(30), <1>6, <2>1, <2>4, <2>5 DEF TypeOK, InLoop, Closing, Good, ResetKnown,
       CloseKnown,
       AnswersAgree, Rewarded, Released, Earned, CutOff, Unheard, Unreached
  <2> QED  BY <2>2, <2>3, <2>6 DEF Kept
<1>7. CASE client[e] = "step" /\ pending[e] = 1 /\ UNCHANGED <<events, seen>>
  <2>1. /\ client' = [client EXCEPT ![e] = "policy"]
        /\ pending' = [pending EXCEPT ![e] = @ - 1]
        /\ UNCHANGED <<record, calls, tries, outcome, reset, registered, browser,
                       events, seen, closing, transcript, cached,
                       answers>>
    BY <1>7 DEF TypeOK, StepEnds, Goto, closeVars
  <2>2. TypeOK'
    <3> HIDE DEF Episodes, Verdicts, Valid, Invalid
    <3> QED  BY <1>3, <2>1 DEF TypeOK
  <2>3. Others(e)
    BY <2>1 DEF TypeOK, Others
  <2>4. CallsCounted(e)'
    BY SMTT(30), <1>1, <1>7, <2>1 DEF TypeOK, Good, CallsCounted
  <2>5. Judged(e)'
    BY <1>1, <1>4, <1>7, <2>1 DEF TypeOK, Good, CloseKnown, InLoop, AnswersAgree,
       Judged, Closing
  <2>6. Good(e)'
    BY SMTT(30), <1>7, <2>1, <2>4, <2>5 DEF TypeOK, InLoop, Closing, Good, ResetKnown,
       CloseKnown,
       AnswersAgree, Rewarded, Released, Earned, CutOff, Unheard, Unreached
  <2> QED  BY <2>2, <2>3, <2>6 DEF Kept
<1>8. CASE ~(client[e] = "step" /\ pending[e] = 1) /\ UNCHANGED <<events, seen>>
  <2>1. /\ pending' = [pending EXCEPT ![e] = @ - 1]
        /\ UNCHANGED <<client, record, calls, tries, outcome, reset, registered,
                       browser, events, seen, closing, transcript,
                       cached, answers>>
    BY <1>8 DEF TypeOK, StepEnds, Goto, closeVars
  <2>2. TypeOK'
    <3> HIDE DEF Episodes, Verdicts, Valid, Invalid
    <3> QED  BY <1>3, <2>1 DEF TypeOK
  <2>3. Others(e)
    BY <2>1 DEF TypeOK, Others
  <2>4. CallsCounted(e)'
    BY <1>1, <1>8, <2>1, SMTT(60) DEF TypeOK, Good, CallsCounted
  <2>5. Judged(e)'
    BY <1>1, <1>4, <1>8, <2>1 DEF TypeOK, Good, CloseKnown, InLoop, AnswersAgree,
       Judged, Closing
  <2>6. Good(e)'
    BY <1>8, <2>1, <2>4, <2>5 DEF TypeOK, InLoop, Closing, Good, ResetKnown,
       CloseKnown,
       AnswersAgree, Rewarded, Released, Earned, CutOff, Unheard, Unreached
  <2> QED  BY <2>2, <2>3, <2>6 DEF Kept
<1> QED  BY <1>5, <1>6, <1>7, <1>8 DEF StepEnds

LEMMA CaptureKeeps ==
  ASSUME TypeOK, NEW e \in Episodes, Good(e), Capture(e)
  PROVE  Kept(e)
<1> USE BoundsAreNaturals
    DEF Episodes, Verdicts, Valid, Invalid, Capture, clientVars, stepVars
<1>1. TypeOK'
  BY DEF TypeOK
<1>2. Others(e)
  BY DEF TypeOK, Others
<1>3. Good(e)'
  BY SMTT(30) DEF TypeOK, Good, InLoop, Closing, CallsCounted, ResetKnown, CloseKnown,
     AnswersAgree, Judged, Rewarded, Released, Earned, CutOff, Unheard, Unreached
<1> QED  BY <1>1, <1>2, <1>3 DEF Kept

LEMMA CleanupKeeps ==
  ASSUME TypeOK, NEW e \in Episodes, Good(e), Cleanup(e)
  PROVE  Kept(e)
<1> USE BoundsAreNaturals
    DEF Episodes, Verdicts, Valid, Invalid, Cleanup, clientVars, stepVars
<1>1. TypeOK'
  BY DEF TypeOK
<1>2. Others(e)
  BY DEF TypeOK, Others
<1>3. Good(e)'
  BY SMTT(30) DEF TypeOK, Good, InLoop, Closing, CallsCounted, ResetKnown, CloseKnown,
     AnswersAgree, Judged, Rewarded, Released, Earned, CutOff, Unheard, Unreached
<1> QED  BY <1>1, <1>2, <1>3 DEF Kept

LEMMA JudgeKeeps ==
  ASSUME TypeOK, NEW e \in Episodes, Good(e), Judge(e)
  PROVE  Kept(e)
<1> USE BoundsAreNaturals DEF Episodes, Verdicts, Valid, Invalid
<1>1. PICK verdict \in Verdicts :
        /\ cached' = [cached EXCEPT ![e] = verdict]
        /\ Answer(e, verdict)
        /\ verdict = "no_tool_calls" => transcript[e] = 0
  BY DEF Judge
<1>2. /\ closing[e] = "judge"
      /\ Classify(e, verdict) \in Valid \cup Invalid
  BY DEF Judge, Classify
<1>0. verdict = "no_tool_calls" => seen[e] = 0
  BY <1>1, <1>2 DEF Good, Judged, Closing, TypeOK
<1>3. CASE client[e] = "close"
  <2>1. /\ client' = [client EXCEPT ![e] = "done"]
        /\ outcome' = [outcome EXCEPT ![e] = Classify(e, verdict)]
        /\ closing' = [closing EXCEPT ![e] = "over"]
        /\ cached' = [cached EXCEPT ![e] = verdict]
        /\ answers' = [answers EXCEPT ![e] = @ \cup {verdict}]
        /\ UNCHANGED <<record, calls, tries, reset, registered, browser, pending,
                       events, seen, transcript>>
    BY <1>1, <1>3 DEF Judge, Answer, Finish, Goto, stepVars
  <2>2. TypeOK'
    <3> HIDE DEF Episodes, Verdicts, Valid, Invalid
    <3> QED  BY <1>2, <2>1 DEF TypeOK
  <2>3. Others(e)
    BY <2>1 DEF TypeOK, Others
  <2>4. Good(e)'
    BY SMTT(30), <1>0, <1>2, <1>3, <2>1 DEF TypeOK, Classify, InLoop, Closing, Good,
       CallsCounted, ResetKnown, CloseKnown,
       AnswersAgree, Judged, Rewarded, Released, Earned, CutOff, Unheard, Unreached
  <2> QED  BY <2>2, <2>3, <2>4 DEF Kept
<1>4. CASE client[e] # "close"
  <2>1. /\ closing' = [closing EXCEPT ![e] = "over"]
        /\ cached' = [cached EXCEPT ![e] = verdict]
        /\ answers' = [answers EXCEPT ![e] = @ \cup {verdict}]
        /\ UNCHANGED <<client, record, calls, tries, outcome, reset, registered,
                       browser, pending, events, seen, transcript>>
    BY <1>1, <1>4 DEF Judge, Answer, stepVars
  <2>2. TypeOK'
    <3> HIDE DEF Episodes, Verdicts, Valid, Invalid
    <3> QED  BY <1>2, <2>1 DEF TypeOK
  <2>3. Others(e)
    BY <2>1 DEF TypeOK, Others
  <2>4. Good(e)'
    BY SMTT(30), <1>0, <1>2, <1>4, <2>1 DEF TypeOK, InLoop, Closing, Good, CallsCounted,
       ResetKnown, CloseKnown, AnswersAgree, Judged, Rewarded, Released, Earned,
       CutOff, Unheard, Unreached
  <2> QED  BY <2>2, <2>3, <2>4 DEF Kept
<1> QED  BY <1>3, <1>4

LEMMA CloseRaisesKeeps ==
  ASSUME TypeOK, NEW e \in Episodes, Good(e), CloseRaises(e)
  PROVE  Kept(e)
<1> USE BoundsAreNaturals DEF Episodes, Verdicts, Valid, Invalid
<1>1. CASE client[e] = "close" /\ tries[e] < 2
  <2>1. /\ client' = [client EXCEPT ![e] = "retry"]
        /\ browser' = [browser EXCEPT ![e] = "gone"]
        /\ closing' = [closing EXCEPT ![e] = "over"]
        /\ answers' = [answers EXCEPT ![e] = @ \cup {"raised"}]
        /\ UNCHANGED <<record, calls, tries, outcome, reset, registered, pending,
                       events, seen, transcript, cached>>
    BY SMTT(30), <1>1 DEF TypeOK, clientVars, stepVars, closeVars, CloseRaises,
       CloseFailed, Finish, Goto
  <2>2. closing[e] \in {"cleanup", "judge"}
    BY <1>1 DEF CloseRaises
  <2>3. TypeOK'
    <3> HIDE DEF Episodes, Verdicts, Valid, Invalid
    <3> QED  BY <2>1, <2>2 DEF TypeOK
  <2>4. Others(e)
    BY <2>1 DEF TypeOK, Others
  <2>5. Good(e)'
    BY SMTT(30), <1>1, <2>1, <2>2 DEF TypeOK, InLoop, Closing, Good, CallsCounted,
       ResetKnown, CloseKnown, AnswersAgree, Judged, Rewarded, Released, Earned,
       CutOff, Unheard, Unreached
  <2> QED  BY <2>3, <2>4, <2>5 DEF Kept
<1>2. CASE client[e] = "close" /\ tries[e] = 2
  <2>1. /\ client' = [client EXCEPT ![e] = "done"]
        /\ outcome' = [outcome EXCEPT ![e] = "close_rpc_failed"]
        /\ browser' = [browser EXCEPT ![e] = "gone"]
        /\ closing' = [closing EXCEPT ![e] = "over"]
        /\ answers' = [answers EXCEPT ![e] = @ \cup {"raised"}]
        /\ UNCHANGED <<record, calls, tries, reset, registered, pending, events,
                       seen, transcript, cached>>
    BY <1>2 DEF TypeOK, clientVars, stepVars, closeVars, CloseRaises,
       CloseFailed, Finish, Goto
  <2>2. closing[e] \in {"cleanup", "judge"}
    BY <1>2 DEF CloseRaises
  <2>3. TypeOK'
    <3>1. "close_rpc_failed" \in Invalid
      OBVIOUS
    <3> HIDE DEF Episodes, Verdicts, Valid, Invalid
    <3> QED  BY <2>1, <2>2, <3>1 DEF TypeOK
  <2>4. Others(e)
    BY <2>1 DEF TypeOK, Others
  <2>5. Good(e)'
    BY SMTT(30), <1>2, <2>1, <2>2 DEF TypeOK, InLoop, Closing, Good, CallsCounted,
       ResetKnown, CloseKnown, AnswersAgree, Judged, Rewarded, Released, Earned,
       CutOff, Unheard, Unreached
  <2> QED  BY <2>3, <2>4, <2>5 DEF Kept
<1>3. CASE client[e] # "close"
  <2>1. /\ browser' = [browser EXCEPT ![e] = "gone"]
        /\ closing' = [closing EXCEPT ![e] = "over"]
        /\ answers' = [answers EXCEPT ![e] = @ \cup {"raised"}]
        /\ UNCHANGED <<client, record, calls, tries, outcome, reset, registered,
                       pending, events, seen, transcript, cached>>
    BY <1>3 DEF TypeOK, clientVars, stepVars, closeVars, CloseRaises,
       CloseFailed, Finish, Goto
  <2>2. closing[e] \in {"cleanup", "judge"}
    BY <1>3 DEF CloseRaises
  <2>3. TypeOK'
    <3> HIDE DEF Episodes, Verdicts, Valid, Invalid
    <3> QED  BY <2>1, <2>2 DEF TypeOK
  <2>4. Others(e)
    BY <2>1 DEF TypeOK, Others
  <2>5. Good(e)'
    BY SMTT(30), <1>3, <2>1, <2>2 DEF TypeOK, InLoop, Closing, Good, CallsCounted,
       ResetKnown, CloseKnown, AnswersAgree, Judged, Rewarded, Released, Earned,
       CutOff, Unheard, Unreached
  <2> QED  BY <2>3, <2>4, <2>5 DEF Kept
<1> QED  BY <1>1, <1>2, <1>3 DEF CloseRaises, CloseFailed, Finish, Goto

LEMMA ExpireKeeps ==
  ASSUME TypeOK, NEW e \in Episodes, Good(e), Expire(e)
  PROVE  Kept(e)
<1> USE BoundsAreNaturals
    DEF Episodes, Verdicts, Valid, Invalid, Expire, clientVars, stepVars, closeVars
<1>1. TypeOK'
  BY DEF TypeOK
<1>2. Others(e)
  BY DEF TypeOK, Others
<1>3. Good(e)'
  BY SMTT(30) DEF TypeOK, Good, InLoop, Closing, CallsCounted, ResetKnown, CloseKnown,
     AnswersAgree, Judged, Rewarded, Released, Earned, CutOff, Unheard, Unreached
<1> QED  BY <1>1, <1>2, <1>3 DEF Kept

-----------------------------------------------------------------------------
(* The inductive invariant *)

LEMMA InitHolds == Init => IInv
<1> USE BoundsAreNaturals DEF Episodes, Verdicts, Valid, Invalid, Init
<1>1. Init => TypeOK
  BY DEF TypeOK
<1>2. Init => \A e \in Episodes : Good(e)
  BY DEF Good, InLoop, Closing, CallsCounted, ResetKnown, CloseKnown, AnswersAgree,
     Judged, Rewarded, Released, Earned, CutOff, Unheard, Unreached
<1> QED  BY <1>1, <1>2 DEF IInv

\* An action of an episode keeps the others good.
LEMMA OthersStayGood ==
  ASSUME NEW e \in Episodes, Others(e), NEW f \in Episodes \ {e}, Good(f)
  PROVE  Good(f)'
BY DEF Others, Good, CallsCounted, ResetKnown, CloseKnown, AnswersAgree, Judged,
   Rewarded, Released, Earned, CutOff, Unheard, Unreached

LEMMA StepKeeps == IInv /\ [Next]_vars => IInv'
<1> SUFFICES ASSUME IInv, [Next]_vars
             PROVE  IInv'
  OBVIOUS
<1>1. CASE Next
  <2>1. PICK e \in Episodes :
          ClientStep(e) \/ Deadline(e) \/ ServerStep(e) \/ Expire(e)
    BY <1>1 DEF Next
  <2>2. TypeOK /\ Good(e)
    BY DEF IInv
  <2>3. ClientStep(e) => Kept(e)
    BY <2>2, BeginKeeps, CallToolKeeps, StopKeeps, RetryCloseKeeps DEF ClientStep
  <2>4. Deadline(e) => Kept(e)
    BY <2>2, EpisodeTimeoutKeeps, ResetRpcFailsKeeps, StepRpcFailsKeeps,
       CloseRpcFailsKeeps DEF Deadline
  <2>5. ServerStep(e) => Kept(e)
    BY <2>2, ResetSucceedsKeeps, ResetFailsKeeps, StepEndsKeeps, CaptureKeeps,
       CleanupKeeps, JudgeKeeps, CloseRaisesKeeps DEF ServerStep
  <2>6. Expire(e) => Kept(e)
    BY <2>2, ExpireKeeps
  <2>7. Kept(e)
    BY <2>1, <2>3, <2>4, <2>5, <2>6
  <2>8. ASSUME NEW f \in Episodes PROVE Good(f)'
    BY <2>7, OthersStayGood DEF IInv, Kept
  <2> QED  BY <2>7, <2>8 DEF IInv, Kept
<1>2. CASE UNCHANGED vars
  BY <1>2 DEF IInv, TypeOK, Good, CallsCounted, ResetKnown, CloseKnown,
     AnswersAgree,
     Judged, Rewarded, Released, Earned, CutOff, Unheard, Unreached, vars, clientVars, stepVars,
     closeVars
<1> QED  BY <1>1, <1>2

LEMMA Invariance == Spec => []IInv
  BY InitHolds, StepKeeps, PTL DEF Spec

-----------------------------------------------------------------------------
\* Every reachable state is well typed: among others no more step handlers and
\* events than tool calls, and at most two /close calls per episode.
THEOREM TypeCorrect == Spec => []TypeOK
<1>1. IInv => TypeOK
  BY DEF IInv
<1> QED  BY <1>1, Invariance, PTL

\* All answers of /close to one episode agree, whatever the timing of its
\* timeout, its retry and the expiry, unless the invocation raised.
THEOREM IdempotentClose == Spec => []CloseIsIdempotent
<1>1. IInv => CloseIsIdempotent
  BY DEF IInv, TypeOK, Good, AnswersAgree, CloseIsIdempotent, Closing
<1> QED  BY <1>1, Invariance, PTL

\* The judge reads every step result that the policy saw.
THEOREM JudgeSeesAll == Spec => []SeenIsJudged
<1>1. IInv => SeenIsJudged
  BY DEF IInv, Good, Judged, SeenIsJudged, Closing
<1> QED  BY <1>1, Invariance, PTL

\* A reward that enters the baseline is the judge's verdict on the episode's own
\* session, or the policy never asked for one; the two gaps are a reset that the
\* deadline cut off and a session none of whose steps was answered.
THEOREM RewardsAreEarned == Spec => []OutageIsInvalid
<1>1. IInv => OutageIsInvalid
  BY DEF IInv, Good, Rewarded, OutageIsInvalid
<1> QED  BY <1>1, Invariance, PTL

\* A finished episode leaves a registered session behind only where its client
\* never learned of it, or where neither of its /close requests arrived: a close
\* that arrives unregisters the session for good, also when it raises.
THEOREM NothingOrphaned == Spec => []NoOrphanRegistered
<1>1. IInv => NoOrphanRegistered
  BY DEF IInv, Good, Released, NoOrphanRegistered
<1> QED  BY <1>1, Invariance, PTL
=============================================================================
