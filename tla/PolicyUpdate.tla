---------------------------- MODULE PolicyUpdate ----------------------------
(***************************************************************************)
(* The tokens of a training step, from the turns of an episode to the      *)
(* clipped loss: _run_episode cuts an episode's tokens into prompt and     *)
(* response, _agent_loop_postprocess pads them into a row, _postprocess    *)
(* places the score, _balance_batch deals the rows out to the data         *)
(* parallel ranks, an advantage estimator of core_algos scores them, and   *)
(* the policy loss is aggregated over ranks and micro-batches.             *)
(*                                                                         *)
(* A row holds the policy's tokens (mask 1) and between them the tools'    *)
(* observations (mask 0).  Rollouts share nothing before they are          *)
(* collated, so they are played here one after the other.  Advantages are  *)
(* fractions; a division by a standard deviation, a positive factor, is    *)
(* left out.                                                               *)
(*                                                                         *)
(* The estimators are those that need nothing but the rows, and ReMax with *)
(* its greedy rollouts.  Of the other registered ones grpo is in           *)
(* RolloutBatch and gae below; gdpo and the optimal token baselines, which *)
(* need more than one reward or the actor's probabilities, are left out.   *)
(***************************************************************************)
EXTENDS Integers, Sequences, FiniteSets, SequencesExt

CONSTANTS
  NumRollouts,     \* rollouts of the step
  GroupSizes,      \* values of rollout.n
  RankCounts,      \* data parallel sizes
  ResponseLength,  \* data.max_response_length
  TurnTokens,      \* LEXBROWSER_ACTION_MAX_TOKENS
  CalculateLogProbs,  \* rollout.calculate_log_probs
  Estimators,      \* values of algorithm.adv_estimator
  DiscountUnit,    \* gamma and lam are multiples of 1/DiscountUnit
  Unit,            \* the ratio 1, in the steps in which ratios are counted
  ClipLow,         \* clip_ratio_low, in such steps
  ClipHigh,        \* clip_ratio_high
  ClipC            \* clip_ratio_c, a multiple of 1

ASSUME UpdateAssumption ==
  /\ NumRollouts \in Nat \ {0}
  /\ ResponseLength \in Nat \ {0}
  /\ TurnTokens \in Nat \ {0}
  /\ Unit \in Nat /\ ClipLow \in 0..Unit /\ ClipHigh \in Nat
  /\ ClipC \in Nat \ {0, 1} /\ ClipHigh < (ClipC - 1) * Unit
  /\ \A k \in GroupSizes \cup RankCounts : k \in Nat \ {0} /\ NumRollouts % k = 0
  /\ CalculateLogProbs \in BOOLEAN
  /\ DiscountUnit \in Nat \ {0}
  /\ Estimators \subseteq {"grpo_vectorized", "reinforce_plus_plus_baseline", "rloo",
                            "rloo_vectorized", "opo", "gpg", "grpo_passk",
                            "reinforce_plus_plus", "remax"}

VARIABLES
  agent,   \* agent_data of the episode that is played
  rows,    \* the padded rows of the episodes that returned
  order,   \* the rows in the order the ranks receive them, empty before
  dp,      \* data parallel size
  n,       \* rollout.n
  est,     \* the estimator
  adv      \* advantage of each token of each row

vars == <<agent, rows, order, dp, n, est, adv>>

Rollouts  == 1..NumRollouts
Positions == 1..ResponseLength
None      == "none"

\* agent_data of a new episode: the prompt, no response token.
NewAgent == [ids |-> <<"prompt">>, mask |-> <<>>, logprobs |-> <<>>,
             state |-> "generating", timedOut |-> FALSE]

TypeOK ==
  /\ agent.state \in {"generating", "tools", "terminated"}
  /\ Len(agent.ids) = Len(agent.mask) + 1
  /\ Len(rows) <= NumRollouts
  /\ \A i \in DOMAIN rows :
       /\ rows[i].ids \in [Positions -> {"prompt", "policy", "tool", "eos", "pad"}]
       /\ rows[i].attention \in [Positions -> 0..1]
       /\ rows[i].mask \in [Positions -> 0..1]
       /\ rows[i].logprobs \in [Positions -> {"policy", "zero"}] \cup {<<>>}
       /\ rows[i].score \in 0..1
  /\ order = <<>> \/ order \in [Rollouts -> Rollouts]
  /\ dp \in RankCounts \cup {0}
  /\ n \in GroupSizes \cup {0}
  /\ est \in Estimators \cup {None}

Init ==
  /\ agent = NewAgent
  /\ rows = <<>>
  /\ order = <<>>
  /\ dp = 0
  /\ n = 0
  /\ est = None
  /\ adv = None

-----------------------------------------------------------------------------
(* An episode *)

Repeat(x, k) == [j \in 1..k |-> x]

\* agent_data takes over k tokens of a kind.
Grow(a, kind, k) ==
  [a EXCEPT !.ids = @ \o Repeat(kind, k),
            !.mask = @ \o Repeat(IF kind = "policy" THEN 1 ELSE 0, k),
            !.logprobs = @ \o Repeat(IF kind = "policy" THEN "policy" ELSE "zero", k)]

Playing(state) == Len(rows) < NumRollouts /\ agent.state = state

\* A turn of the policy, none to TurnTokens tokens long.  Without a tool call,
\* or when the response is full, the episode ends.
Generate ==
  /\ Playing("generating")
  /\ \E k \in 0..TurnTokens, calls \in BOOLEAN :
       LET a == Grow(agent, "policy", k)
       IN  agent' = [a EXCEPT !.state = IF calls /\ k > 0 /\ Len(a.mask) < ResponseLength
                                        THEN "tools" ELSE "terminated"]
  /\ UNCHANGED <<rows, order, dp, n, est, adv>>

\* A tool's answer joins the row unless it would fill it up.
Observe ==
  /\ Playing("tools")
  /\ agent' = IF Len(agent.mask) + 1 >= ResponseLength
              THEN [agent EXCEPT !.state = "terminated"]
              ELSE [Grow(agent, "tool", 1) EXCEPT !.state = "generating"]
  /\ UNCHANGED <<rows, order, dp, n, est, adv>>

\* The episode deadline cancels the await of a turn or of a tool.
EpisodeTimeout ==
  /\ Len(rows) < NumRollouts
  /\ agent.state # "terminated"
  /\ agent' = [agent EXCEPT !.state = "terminated", !.timedOut = TRUE]
  /\ UNCHANGED <<rows, order, dp, n, est, adv>>

\* Mutant: prompt_ids[-response_length:] also when there is no response token.
ResponseIdsFromEnd(a) ==
  IF Len(a.mask) = 0 THEN a.ids ELSE SubSeq(a.ids, Len(a.ids) - Len(a.mask) + 1, Len(a.ids))

ResponseIds(a) == SubSeq(a.ids, Len(a.ids) - Len(a.mask) + 1, Len(a.ids))

\* Mutant: the response is not cut.
CutNothing(s) == s

Cut(s) == SubSeq(s, 1, IF Len(s) > ResponseLength THEN ResponseLength ELSE Len(s))

\* An engine that returns no log-probabilities leaves agent_data's list empty.
LogProbs(a) == IF CalculateLogProbs THEN Cut(a.logprobs) ELSE <<>>

\* Mutant: the fabricated EOS has no log-probability.
ResponseWithoutPlaceholder(a, invalid) ==
  LET ids == Cut(ResponseIds(a))
      mask == Cut(a.mask)
  IN  IF ids = <<>>
      THEN [ids |-> <<"eos">>, mask |-> <<0>>, logprobs |-> <<>>]
      ELSE [ids |-> ids,
            mask |-> IF invalid THEN Repeat(0, Len(mask)) ELSE mask,
            logprobs |-> LogProbs(a)]

\* The response of an AgentLoopOutput: an empty one gets a fabricated EOS
\* without mask, with a log-probability whether others have one or not; an
\* invalid one no mask at all.
Response(a, invalid) ==
  LET ids == Cut(ResponseIds(a))
      mask == Cut(a.mask)
  IN  IF ids = <<>>
      THEN [ids |-> <<"eos">>, mask |-> <<0>>, logprobs |-> <<"zero">>]
      ELSE [ids |-> ids,
            mask |-> IF invalid THEN Repeat(0, Len(mask)) ELSE mask,
            logprobs |-> LogProbs(a)]

Pad(s, filler) == s \o Repeat(filler, ResponseLength - Len(s))

\* tokenizer.pad fills with the pad token's id, the mask too: some number other
\* than 0.
PadTokenId == 2

\* The row that _agent_loop_postprocess makes of a response; one without
\* log-probabilities has no such column.
Row(r, score) ==
  LET attention == Pad(Repeat(1, Len(r.ids)), 0)
      mask == Pad(r.mask, PadTokenId)
  IN  [ids |-> Pad(r.ids, "pad"),
       attention |-> attention,
       mask |-> [t \in DOMAIN mask |-> mask[t] * attention[t]],
       logprobs |-> IF r.logprobs = <<>> THEN <<>> ELSE Pad(r.logprobs, "zero"),
       score |-> score]

\* finalize scores the episode or finds it environment-invalid, as an episode is
\* that timed out before its first token.
Return ==
  /\ Playing("terminated")
  /\ \E score \in 0..1, invalid \in BOOLEAN :
       /\ invalid => score = 0
       /\ agent.mask = <<>> /\ agent.timedOut => invalid
       /\ rows' = Append(rows, Row(Response(agent, invalid), score))
  /\ agent' = NewAgent
  /\ UNCHANGED <<order, dp, n, est, adv>>

-----------------------------------------------------------------------------
(* The batch *)

Attended(i) == SumFunction(rows[i].attention)
Tokens(i)   == SumFunction(rows[i].mask)

\* Row i's rm_scores: _postprocess puts the score at the last attended token
\* (index -1, the last column, if there is none).
TokenReward(i, t) ==
  IF t = (IF Attended(i) = 0 THEN ResponseLength ELSE Attended(i))
  THEN rows[i].score ELSE 0

Lighter(i, j) ==
  \/ Attended(i) < Attended(j)
  \/ Attended(i) = Attended(j) /\ i < j

Sorted(share) ==
  CHOOSE s \in [1..Cardinality(share) -> share] :
    \A a, b \in DOMAIN s : a < b => Lighter(s[a], s[b])

\* The lighter rows of a rank's share go to both of its ends.
Arranged(share) ==
  LET s == Sorted(share)
  IN  [k \in 1..((Len(s) + 1) \div 2) |-> s[2 * k - 1]]
        \o Reverse([k \in 1..(Len(s) \div 2) |-> s[2 * k]])

\* _postprocess concatenates the log-probabilities if the first row has some, and
\* raises if another has none; rows collated together.
Collated == rows[1].logprobs # <<>> => \A i \in Rollouts : rows[i].logprobs # <<>>

\* _balance_batch: any partition into shares of equal size stands for the one
\* that the workloads decide.
BalanceBatch ==
  /\ Len(rows) = NumRollouts
  /\ Collated
  /\ order = <<>>
  /\ \E k \in RankCounts :
       \E rank \in [Rollouts -> 1..k] :
         LET share(r) == {i \in Rollouts : rank[i] = r}
         IN  /\ \A r \in 1..k : Cardinality(share(r)) * k = NumRollouts
             /\ order' = FlattenSeq([r \in 1..k |-> Arranged(share(r))])
             /\ dp' = k
  /\ UNCHANGED <<agent, rows, n, est, adv>>

-----------------------------------------------------------------------------
(* Fractions; a denominator of zero is not a number. *)

Frac(num, den) == <<num, den>>
Zero == Frac(0, 1)
Plus(a, b) == <<a[1] * b[2] + b[1] * a[2], a[2] * b[2]>>
Minus(a, b) == <<a[1] * b[2] - b[1] * a[2], a[2] * b[2]>>
Times(a, b) == <<a[1] * b[1], a[2] * b[2]>>
Less(a, b) == a[2] * b[2] > 0 /\ a[1] * b[2] < b[1] * a[2]
Same(a, b) == a[2] * b[2] > 0 /\ a[1] * b[2] = b[1] * a[2]

-----------------------------------------------------------------------------
(* Advantage estimators, for rollout.n = k *)

Group(k, i) == {j \in Rollouts : (j - 1) \div k = (i - 1) \div k}

\* Mutant: rewards are masked before they are added up.
ScoreMasked(i) ==
  SumFunction([t \in Positions |-> TokenReward(i, t) * rows[i].mask[t]])

\* scores: token_level_rewards.sum(dim=-1)
Score(i) == SumFunction([t \in Positions |-> TokenReward(i, t)])

GroupScore(k, i) == SumFunctionOnSet([j \in Rollouts |-> Score(j)], Group(k, i))
Mean(k, i) == Frac(GroupScore(k, i), k)

GrpoVectorized(k, i) == Minus(Frac(Score(i), 1), Mean(k, i))

\* The centred score, before it is whitened over the batch's tokens.
BaselineCentred(k, i) ==
  IF k = 1 THEN Frac(Score(i), 1) ELSE Minus(Frac(Score(i), 1), Mean(k, i))

\* The policy tokens of a set of rollouts.
TokensOf(S) == SumFunctionOnSet([j \in Rollouts |-> Tokens(j)], S)

\* masked_whiten: the mean over the batch's policy tokens is subtracted.  The
\* centred scores have the denominator k in common.
ReinforcePlusPlusBaseline(k, i) ==
  LET c(j) == k * Score(j) - (IF k = 1 THEN 0 ELSE GroupScore(k, j))
      weighted == [j \in Rollouts |-> c(j) * Tokens(j)]
  IN  Minus(BaselineCentred(k, i), Frac(SumFunction(weighted), k * TokensOf(Rollouts)))

Rloo(k, i) ==
  IF k = 1 THEN Frac(Score(i), 1)
  ELSE Minus(Frac(Score(i) * k, k - 1), Times(Mean(k, i), Frac(k, k - 1)))

RlooVectorized(k, i) ==
  IF k = 1 THEN Frac(0, 1) ELSE Frac(k * Score(i) - GroupScore(k, i), k - 1)

\* The baseline is the mean score weighted by the number of policy tokens.
Opo(k, i) ==
  LET weighted == [j \in Rollouts |-> Tokens(j) * Score(j)]
  IN  IF k = 1 THEN Frac(Score(i), 1)
      ELSE Minus(Frac(Score(i), 1),
                 Frac(SumFunctionOnSet(weighted, Group(k, i)), TokensOf(Group(k, i))))

\* alpha is the batch size over the number of scores that are not zero.
Gpg(k, i) ==
  LET m == Cardinality({j \in Rollouts : Score(j) # 0})
      alpha == Frac(NumRollouts, IF m = 0 THEN 1 ELSE m)
  IN  Times(alpha, BaselineCentred(k, i))

\* Only the best rollout has an advantage, its lead over the second best.
GrpoPassk(k, i) ==
  LET best == CHOOSE j \in Group(k, i) : \A l \in Group(k, i) : Score(l) <= Score(j)
      second == Max({Score(l) : l \in Group(k, i) \ {best}})
  IN  IF i = best THEN Frac(Score(i) - second, 1) ELSE Frac(0, 1)

Outcome(e, k, i) ==
  CASE e = "grpo_vectorized"              -> GrpoVectorized(k, i)
    [] e = "reinforce_plus_plus_baseline" -> ReinforcePlusPlusBaseline(k, i)
    [] e = "rloo"                         -> Rloo(k, i)
    [] e = "rloo_vectorized"              -> RlooVectorized(k, i)
    [] e = "opo"                          -> Opo(k, i)
    [] e = "gpg"                          -> Gpg(k, i)
    [] e = "grpo_passk"                   -> GrpoPassk(k, i)

\* Mutant: the running return starts anew at the end of the row only.
RunningReturnThroughout(i) ==
  LET f[t \in 1..(ResponseLength + 1)] ==
        IF t > ResponseLength THEN 0 ELSE TokenReward(i, t) + f[t + 1]
  IN  [t \in Positions |-> f[t]]

\* REINFORCE++, with the default discount of 1: the rewards are added up from the
\* last token back; where the mask is 0 the sum starts anew.
RunningReturn(i) ==
  LET f[t \in 1..(ResponseLength + 1)] ==
        IF t > ResponseLength THEN 0
        ELSE TokenReward(i, t)
               + (IF t = ResponseLength THEN 0 ELSE f[t + 1] * rows[i].mask[t + 1])
  IN  [t \in Positions |-> f[t]]

\* The mean over the batch's policy tokens is subtracted.
ReinforcePlusPlus(i, t) ==
  LET returns == [j \in Rollouts |->
        SumFunction([u \in Positions |-> RunningReturn(j)[u] * rows[j].mask[u]])]
      mean == Frac(SumFunction(returns), TokensOf(Rollouts))
  IN  Times(Minus(Frac(RunningReturn(i)[t], 1), mean), Frac(rows[i].mask[t], 1))

\* ReMax: the rewards are masked first, then added up from the last token back;
\* the baseline is what a greedy rollout of the prompt scored.
ReMax(baseline, i, t) ==
  LET masked == [u \in Positions |-> TokenReward(i, u) * rows[i].mask[u]]
      returns == SumFunctionOnSet(masked, t..ResponseLength)
  IN  Frac(returns - baseline[i] * rows[i].mask[t], 1)

\* The other estimators give one advantage to all tokens of a row.
Advantage(e, k, baseline, i, t) ==
  CASE e = "reinforce_plus_plus" -> ReinforcePlusPlus(i, t)
    [] e = "remax"               -> ReMax(baseline, i, t)
    [] OTHER                     -> Times(Outcome(e, k, i), Frac(rows[i].mask[t], 1))

\* The rewards of the greedy rollouts, one per prompt, which only ReMax has.
Baselines(e, k) ==
  {b \in [Rollouts -> IF e = "remax" THEN 0..1 ELSE {0}] :
     \A i, j \in Rollouts : j \in Group(k, i) => b[i] = b[j]}

\* compute_advantage.  Pass@k refuses a group of one.
ComputeAdvantage ==
  /\ order # <<>>
  /\ est = None
  /\ \E e \in Estimators, k \in GroupSizes : \E baseline \in Baselines(e, k) :
       /\ e = "grpo_passk" => k > 1
       /\ est' = e
       /\ n' = k
       /\ adv' = [i \in Rollouts |-> [t \in Positions |-> Advantage(e, k, baseline, i, t)]]
  /\ UNCHANGED <<agent, rows, order, dp>>

Next ==
  \/ Generate
  \/ Observe
  \/ EpisodeTimeout
  \/ Return
  \/ BalanceBatch
  \/ ComputeAdvantage

Spec == Init /\ [][Next]_vars

-----------------------------------------------------------------------------
(* compute_gae_advantage_return, before whitening *)

Discounts == {Frac(d, DiscountUnit) : d \in 0..DiscountUnit}

\* delta: what a token's reward and the value after it come to beyond its own.
Delta(reward, gamma, next, value) == Minus(Plus(reward, Times(gamma, next)), value)

\* Mutant: every observation costs a discount.
GaeDiscountsAll(r, v, m, gamma, lam) ==
  LET f[t \in 1..(ResponseLength + 1)] ==
        IF t > ResponseLength THEN [value |-> Zero, gae |-> Zero]
        ELSE IF m[t] = 0
        THEN [value |-> f[t + 1].value, gae |-> Times(Times(gamma, lam), f[t + 1].gae)]
        ELSE [value |-> v[t],
              gae |-> Plus(Delta(r[t], gamma, f[t + 1].value, v[t]),
                           Times(Times(gamma, lam), f[t + 1].gae))]
  IN  [t \in Positions |-> f[t].gae]

\* The recursion from the last token back; an observation token hands on what
\* it found.
Gae(r, v, m, gamma, lam) ==
  LET f[t \in 1..(ResponseLength + 1)] ==
        IF t > ResponseLength THEN [value |-> Zero, gae |-> Zero]
        ELSE IF m[t] = 0 THEN f[t + 1]
        ELSE [value |-> v[t],
              gae |-> Plus(Delta(r[t], gamma, f[t + 1].value, v[t]),
                           Times(Times(gamma, lam), f[t + 1].gae))]
  IN  [t \in Positions |-> f[t].gae]

-----------------------------------------------------------------------------
(* The policy loss *)

Least(a, b)    == IF a < b THEN a ELSE b
Greatest(a, b) == IF a > b THEN a ELSE b

Clamp(r) == Greatest(Unit - ClipLow, Least(Unit + ClipHigh, r))

\* Mutant: the dual clip bounds every token's loss.
TokenLossDual(a, r) ==
  Least(-a * ClipC * Unit, Greatest(-a * r, -a * Clamp(r)))

\* compute_policy_loss_vanilla: the loss of a token with advantage a at ratio r.
TokenLoss(a, r) ==
  LET clipped == Greatest(-a * r, -a * Clamp(r))
  IN  IF a < 0 THEN Least(-a * ClipC * Unit, clipped) ELSE clipped

\* Mutant: every micro-batch is averaged over its own tokens.
BatchNumTokensLocal(mb) == FoldSeq(+, 0, [k \in DOMAIN mb |-> Tokens(mb[k])])

\* The denominator of token-mean: the policy tokens of all ranks.
BatchNumTokens(mb) == TokensOf(Rollouts)

\* agg_loss: the factor of row i's token t in the loss of a micro-batch.  The
\* global batch is the whole step; a row without policy tokens has no part.
AggWeight(mode, mb, i, t) ==
  LET m == rows[i].mask[t]
  IN  CASE mode = "token-mean"          -> Frac(m * dp, BatchNumTokens(mb))
        [] mode = "seq-mean-token-sum"  -> Frac(m * dp, NumRollouts)
        [] mode = "seq-mean-token-mean" ->
             Frac(m * dp, NumRollouts * Greatest(1, Tokens(i)))

\* What a micro-batch adds to the factor of row i's token t in the gradient, once
\* for each place that the row has in it.
Part(mode, mb, i, t) ==
  Times(Frac(Cardinality({k \in DOMAIN mb : mb[k] = i}), 1), AggWeight(mode, mb, i, t))

\* A rank plays its share in two micro-batches, cut where its token budget says.
RankWeight(mode, cut, i, t, r) ==
  LET size == NumRollouts \div dp
      share == SubSeq(order, (r - 1) * size + 1, r * size)
  IN  Plus(Part(mode, SubSeq(share, 1, cut), i, t),
           Part(mode, SubSeq(share, cut + 1, size), i, t))

\* The token's factor in the step: the gradients are averaged over the ranks.
Weight(mode, cut, i, t) ==
  LET total[r \in 0..dp] ==
        IF r = 0 THEN Frac(0, 1) ELSE Plus(total[r - 1], RankWeight(mode, cut, i, t, r))
  IN  Times(total[dp], Frac(1, dp))

-----------------------------------------------------------------------------
(* Properties *)

\* Whatever the turns, the cut and the padding: a response holds no token of the
\* prompt, an unmasked position is a token the policy generated, next to its own
\* log-probability, and every row has a place for its score.  Where the engine
\* returns log-probabilities they exist consistently across the batch, also when a
\* response is empty and gets a fabricated token (the comment at
\* lexbrowser_verl_agent.py:630).
RowIsAligned ==
  \A i \in DOMAIN rows :
    /\ Attended(i) > 0
    /\ CalculateLogProbs => rows[i].logprobs # <<>>
    /\ \A t \in Positions :
         /\ rows[i].ids[t] # "prompt"
         /\ rows[i].attention[t] = 1 <=> rows[i].ids[t] # "pad"
         /\ rows[i].logprobs # <<>> =>
              (rows[i].ids[t] = "policy" <=> rows[i].logprobs[t] = "policy")
         /\ rows[i].mask[t] = 1 => rows[i].ids[t] = "policy"

\* Which of its policy tokens a row's score gets to, at the last attended token as
\* it is.  Seven estimators add up the whole row first.  ReMax masks first, so an
\* episode that ends on an observation counts as a failure; REINFORCE++ starts
\* anew at each observation, so that only the tokens after the last one count.
ScoreReaches(e, i, t) ==
  CASE e = "remax"               -> rows[i].mask[Attended(i)] = 1
    [] e = "reinforce_plus_plus" -> \A u \in t..Attended(i) : rows[i].mask[u] = 1
    [] OTHER                     -> TRUE

Credit(e, i, t) == IF ScoreReaches(e, i, t) THEN rows[i].score ELSE 0

\* Of two rollouts of a prompt the one with the higher score is reinforced more,
\* on every token of its policy, and equal scores are reinforced equally: where
\* a deadline cut the episode and how many tools it called decide nothing.  That
\* is so of seven estimators; with ReMax and REINFORCE++ a token that the score
\* does not reach is treated as a failure's.  Pass@k reinforces a success without
\* a rival.
BetterIsReinforced ==
  est # None =>
    \A i \in Rollouts : \A t \in {p \in Positions : rows[i].mask[p] = 1} :
      IF est = "grpo_passk"
      THEN LET alone == \A j \in Group(n, i) \ {i} : rows[j].score < rows[i].score
           IN  Less(Zero, adv[i][t]) <=> alone
      ELSE \A j \in Group(n, i) : \A u \in {p \in Positions : rows[j].mask[p] = 1} :
             /\ Credit(est, j, u) < Credit(est, i, t) <=> Less(adv[j][u], adv[i][t])
             /\ Credit(est, j, u) = Credit(est, i, t) <=> Same(adv[j][u], adv[i][t])

\* Each token of the policy is followed by the policy's next one, one discount away,
\* however many observation tokens are between them, and the last of them by
\* nothing.
SeesOnlyThePolicy(r, v, m, gamma, lam) ==
  LET own    == {t \in Positions : m[t] = 1}
      reward == [t \in Positions |-> Frac(r[t], 1)]
      value  == [t \in Positions |-> Frac(v[t], 1)]
      gae    == Gae(reward, value, m, gamma, lam)
      later(t) == {u \in own : u > t}
      Followed(t, nextValue, nextGae) ==
        Same(gae[t], Plus(Delta(reward[t], gamma, nextValue, value[t]),
                          Times(Times(gamma, lam), nextGae)))
  IN  \A t \in own :
        IF later(t) = {} THEN Followed(t, Zero, Zero)
        ELSE LET u == Min(later(t)) IN Followed(t, value[u], gae[u])

\* Rewards, values of the critic, mask and discounts of a response.
Responses ==
  [r : [Positions -> 0..1], v : [Positions -> 0..1], m : [Positions -> 0..1],
   gamma : Discounts, lam : Discounts]

DisturbedMasks ==
  {c.m : c \in {d \in Responses : ~SeesOnlyThePolicy(d.r, d.v, d.m, d.gamma, d.lam)}}

\* To the generalised advantage a tool's answer is not there, whatever the rewards,
\* the critic's values and the discounts: the advantages of a row are those of the
\* policy's tokens alone.
ObservationsAreTransparent ==
  \A i \in DOMAIN rows : rows[i].mask \notin DisturbedMasks

\* agg_loss promises a loss that is invariant to parallelism: however the rows
\* are dealt out to ranks and cut into micro-batches, each enters the step once
\* and each of its policy tokens has the same share of the gradient.
ShareOfTheStep(mode, i, t) ==
  LET m == rows[i].mask[t]
  IN  CASE mode = "token-mean" -> Frac(m, TokensOf(Rollouts))
        [] mode = "seq-mean-token-sum" -> Frac(m, NumRollouts)
        [] mode = "seq-mean-token-mean" -> Frac(m, NumRollouts * Greatest(1, Tokens(i)))

ParallelismIsInvisible ==
  order # <<>> /\ est = None /\ (\E i \in Rollouts : Tokens(i) > 0) =>
    \A mode \in {"token-mean", "seq-mean-token-sum", "seq-mean-token-mean"} :
      \A i \in Rollouts, t \in Positions, cut \in 1..(NumRollouts \div dp) :
        Same(Weight(mode, cut, i, t), ShareOfTheStep(mode, i, t))

\* The loss moves a token's ratio only where its advantage asks for it, and only
\* up to the clip: a reinforced token up to 1 + clip_high, a discouraged one
\* between 1 - clip_low and clip_c, one without advantage never.  (A token that
\* is masked has no share of the loss, whatever advantage ReMax leaves it.)
Ratios == {0, Unit - ClipLow - 1, Unit - ClipLow, Unit, Unit + ClipHigh - 1,
           Unit + ClipHigh, ClipC * Unit - 1, ClipC * Unit}

MovesWithinTheClip ==
  est # None =>
    \A i \in Rollouts, t \in Positions : \A r \in Ratios :
      LET a == adv[i][t][1]
          slope == TokenLoss(a, r + 1) - TokenLoss(a, r)
      IN  /\ slope < 0 <=> a > 0 /\ r < Unit + ClipHigh
          /\ slope > 0 <=> a < 0 /\ Unit - ClipLow <= r /\ r < ClipC * Unit
=============================================================================
