---------------------------- MODULE RolloutBatch ----------------------------
(***************************************************************************)
(* One training step from the rollouts to the policy gradient: the agent   *)
(* loop workers play the rollouts of their chunk concurrently and collate  *)
(* them (generate_sequences, _postprocess), the manager concatenates the   *)
(* workers' batches, and compute_advantage scores every prompt's group     *)
(* with the patched GRPO estimator.                                        *)
(*                                                                         *)
(* Advantages are kept as integers: centred scores times the number of     *)
(* valid rollouts of the group, without the division by std + epsilon.     *)
(* Both factors are positive, so sign and zero are those of the code.      *)
(***************************************************************************)
EXTENDS Integers, FiniteSets

CONSTANTS
  Rollouts,         \* positions of the repeated generation batch
  PromptOf,         \* the prompt (uid) of each rollout
  ChunkSize,        \* rollouts per agent loop worker
  MinValid,         \* LEXBROWSER_GRPO_MIN_VALID_PER_GROUP
  MaxInvalidNum,    \* LEXBROWSER_INVALID_GROUP_MAX_FRACTION
  MaxInvalidDen

ASSUME BatchAssumption ==
  /\ Rollouts \subseteq Nat /\ IsFiniteSet(Rollouts)
  /\ ChunkSize \in Nat \ {0}
  /\ MinValid \in Nat \ {0, 1}
  /\ MaxInvalidNum \in Nat
  /\ MaxInvalidDen \in Nat \ {0}

VARIABLES
  result,    \* what each rollout returned
  collated,  \* the first rollouts of the chunks that are collated
  phase,     \* rollout, batch, update, or crashed (an exception in the driver)
  adv        \* the advantage of each rollout's tokens

vars == <<result, collated, phase, adv>>

\* Results that finalize and _run_episode tell apart.
Judged  == {"yes", "no"}
Failed  == {"judge_error", "lost_session", "close_error", "aborted"}
Results == Judged \cup Failed \cup {"no_browser", "policy_empty"}

TypeOK ==
  /\ result \in [Rollouts -> Results \cup {"running"}]
  /\ collated \subseteq Rollouts
  /\ phase \in {"rollout", "batch", "update", "crashed"}
  /\ adv \in [Rollouts -> Int]

Init ==
  /\ result = [i \in Rollouts |-> "running"]
  /\ collated = {}
  /\ phase = "rollout"
  /\ adv = [i \in Rollouts |-> 0]

-----------------------------------------------------------------------------
(* A rollout's output *)

\* Groups of keys of reward_extra_info: those finalize always sets, the close's
\* timings, the judge's fields, and the invalid flag with its reason.
InfoKeys(r) ==
  CASE r \in Judged          -> {"base", "timing", "judge"}
    [] r = "judge_error"     -> {"base", "timing", "judge", "flag"}
    [] r = "lost_session"    -> {"base", "timing", "flag"}
    [] r = "close_error"     -> {"base", "flag"}
    [] OTHER                 -> {"base"}

Score(r) == IF r = "yes" THEN 1 ELSE 0

\* lexbrowser_invalid_sample, which _run_episode sets on every sample.
Flag(i) == result[i] \in Failed

\* The response mask has a 1: _run_episode clears the mask of an invalid sample
\* and of an empty response.
HasTokens(i) == result[i] \notin Failed \cup {"policy_empty"}

-----------------------------------------------------------------------------
(* Rollouts and collation *)

\* Mutant: gather keeps exceptions as results.
ReturnOrException(i) ==
  /\ phase = "rollout"
  /\ result[i] = "running"
  /\ \E r \in Results \cup {"exception"} : result' = [result EXCEPT ![i] = r]
  /\ UNCHANGED <<collated, phase, adv>>

\* A rollout returns; the others of the chunk go on.
Return(i) ==
  /\ phase = "rollout"
  /\ result[i] = "running"
  /\ \E r \in Results : result' = [result EXCEPT ![i] = r]
  /\ UNCHANGED <<collated, phase, adv>>

Heads == {i \in Rollouts : (i - 1) % ChunkSize = 0}
Chunk(h) == {i \in Rollouts : h <= i /\ i < h + ChunkSize}

\* A worker's gather is complete: _postprocess reads the keys of its first
\* sample's reward_extra_info from every sample.
Collate(h) ==
  /\ phase = "rollout"
  /\ h \in Heads \ collated
  /\ \A i \in Chunk(h) : result[i] # "running"
  /\ IF \A i \in Chunk(h) : InfoKeys(result[h]) \subseteq InfoKeys(result[i])
     THEN collated' = collated \cup {h} /\ UNCHANGED phase
     ELSE phase' = "crashed" /\ UNCHANGED collated
  /\ UNCHANGED <<result, adv>>

\* DataProto.concat joins the workers' batches; columns that only some of them
\* have may be refused.
Concat ==
  /\ phase = "rollout"
  /\ collated = Heads
  /\ \/ phase' = "batch"
     \/ /\ \E g, h \in Heads : InfoKeys(result[g]) # InfoKeys(result[h])
        /\ phase' = "crashed"
  /\ UNCHANGED <<result, collated, adv>>

-----------------------------------------------------------------------------
(* compute_grpo_outcome_advantage *)

\* Mutant: validity is inferred from the response mask.
SampleIsValidByMask(i) == HasTokens(i)

\* With the agent loop's flags the mask fallback does not apply.
SampleIsValid(i) == ~Flag(i)

Group(i) == {j \in Rollouts : PromptOf[j] = PromptOf[i]}

\* Mutant: the baseline is taken over the whole group.
ValidGroupAll(i) == Group(i)

\* id2score
ValidGroup(i) == {j \in Group(i) : SampleIsValid(j)}

\* Mutant: the fraction is compared with >=.
DroppedAtBoundary(i) ==
  LET total == Cardinality(Group(i))
      valid == Cardinality(ValidGroup(i))
  IN  \/ valid < MinValid
      \/ (total - valid) * MaxInvalidDen >= MaxInvalidNum * total

\* dropped_groups
Dropped(i) ==
  LET total == Cardinality(Group(i))
      valid == Cardinality(ValidGroup(i))
  IN  \/ valid < MinValid
      \/ (total - valid) * MaxInvalidDen > MaxInvalidNum * total

\* The score minus the group's mean, times the group's number of scores.
Centred(i) ==
  LET scored == ValidGroup(i)
  IN  Cardinality(scored) * Score(result[i])
        - Cardinality({j \in scored : Score(result[j]) = 1})

\* The estimate of a rollout, multiplied by its response mask.
Estimate(i) ==
  IF ~SampleIsValid(i) \/ Dropped(i) \/ ~HasTokens(i) THEN 0 ELSE Centred(i)

\* The driver computes the advantages of the batch.
ComputeAdvantage ==
  /\ phase = "batch"
  /\ adv' = [i \in Rollouts |-> Estimate(i)]
  /\ phase' = "update"
  /\ UNCHANGED <<result, collated>>

Next ==
  \/ \E i \in Rollouts : Return(i) \/ Collate(i)
  \/ Concat
  \/ ComputeAdvantage

Spec == Init /\ [][Next]_vars

-----------------------------------------------------------------------------
(* Properties *)

\* An environment failure moves no weight: neither its own tokens nor, through
\* the baseline, those of its group.  A rollout's advantage is decided by the
\* rollouts of its prompt that the policy is answerable for: it is above zero
\* exactly if it succeeded where one of them failed, and below zero exactly if
\* it failed where one of them succeeded, by as much as there are such mates.
Answerable(i) == {j \in Group(i) : result[j] \notin Failed}
Beaten(i) ==
  IF result[i] = "yes"
  THEN Cardinality({j \in Answerable(i) : result[j] # "yes"})
  ELSE -Cardinality({j \in Answerable(i) : result[j] = "yes"})

OutageMovesNothing ==
  phase = "update" =>
    \A i \in Rollouts :
      /\ result[i] \in Failed => adv[i] = 0
      /\ adv[i] # 0 => adv[i] = Beaten(i)

\* A group that meets the limits still trains: its policy-empty rollouts count
\* in the baseline and trip nothing (the boundary is not above the limit).
HealthyGroupTrains ==
  phase = "update" =>
    \A i \in Rollouts :
      LET failed == Cardinality(Group(i)) - Cardinality(Answerable(i))
      IN  /\ result[i] \in Judged \cup {"no_browser"}
          /\ failed * MaxInvalidDen <= MaxInvalidNum * Cardinality(Group(i))
          /\ Cardinality(Answerable(i)) >= MinValid
          => adv[i] = Beaten(i)

\* An environment failure is not fatal: a worker collates whatever its rollouts
\* returned (comments in finalize: an invalid sample, not a fatal condition).
CollationSurvives == phase # "crashed"
=============================================================================
