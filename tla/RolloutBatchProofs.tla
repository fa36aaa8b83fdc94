------------------------- MODULE RolloutBatchProofs -------------------------
(***************************************************************************)
(* Proofs about RolloutBatch, for every batch, grouping, chunking and      *)
(* every threshold: the types, that environment failures move no           *)
(* advantage, and that a healthy group trains.                             *)
(***************************************************************************)
EXTENDS RolloutBatch, FiniteSetTheorems, TLAPS

\* The advantages of the batch are the estimates of its results.
AdvIsEstimate ==
  phase = "update" => \A i \in Rollouts : adv[i] = Estimate(i)

IInv == TypeOK /\ AdvIsEstimate

-----------------------------------------------------------------------------
(* The estimator *)

LEMMA ValidIsAnswerable ==
  ASSUME NEW i \in Rollouts
  PROVE  /\ ValidGroup(i) = Answerable(i)
         /\ IsFiniteSet(Group(i))
         /\ IsFiniteSet(Answerable(i))
<1>1. ValidGroup(i) = Answerable(i)
  BY DEF ValidGroup, Answerable, SampleIsValid, Flag
<1>2. IsFiniteSet(Rollouts)
  BY BatchAssumption
<1>3. Group(i) \in SUBSET Rollouts /\ Answerable(i) \in SUBSET Rollouts
  BY DEF Group, Answerable
<1> QED
  BY <1>1, <1>2, <1>3, FS_Subset

\* The centred score counts the mates that did otherwise.
LEMMA CentredIsBeaten ==
  ASSUME NEW i \in Rollouts, SampleIsValid(i)
  PROVE  Centred(i) = Beaten(i)
<1> DEFINE S == Answerable(i)
           Y == {j \in S : result[j] = "yes"}
<1>1. /\ ValidGroup(i) = S
      /\ IsFiniteSet(S)
  BY ValidIsAnswerable
<1>2. {j \in S : Score(result[j]) = 1} = Y
  BY DEF Score
<1>3. /\ Cardinality(S) \in Nat
      /\ IsFiniteSet(Y)
  BY <1>1, FS_CardinalityType, FS_Subset
<1>4. Cardinality(Y) \in Nat
  BY <1>3, FS_CardinalityType
<1>5. Centred(i) = Cardinality(S) * Score(result[i]) - Cardinality(Y)
  BY <1>1, <1>2 DEF Centred
<1>6. CASE result[i] = "yes"
  <2>1. Cardinality(S \ Y) = Cardinality(S) - Cardinality(S \cap Y)
    BY <1>1, FS_Difference
  <2>2. S \cap Y = Y /\ S \ Y = {j \in S : result[j] # "yes"}
    OBVIOUS
  <2>3. Centred(i) = Cardinality(S) - Cardinality(Y)
    BY <1>3, <1>4, <1>5, <1>6 DEF Score
  <2> QED
    BY <1>6, <2>1, <2>2, <2>3 DEF Beaten
<1>7. CASE result[i] # "yes"
  <2>1. Centred(i) = -Cardinality(Y)
    BY <1>3, <1>4, <1>5, <1>7 DEF Score
  <2> QED
    BY <1>7, <2>1 DEF Beaten
<1> QED
  BY <1>6, <1>7

LEMMA EstimateIsInt ==
  ASSUME NEW i \in Rollouts
  PROVE  Estimate(i) \in Int
<1> DEFINE Y == {j \in ValidGroup(i) : Score(result[j]) = 1}
<1>1. IsFiniteSet(ValidGroup(i)) /\ IsFiniteSet(Y)
  BY ValidIsAnswerable, FS_Subset
<1>2. Cardinality(ValidGroup(i)) \in Nat /\ Cardinality(Y) \in Nat
  BY <1>1, FS_CardinalityType
<1>3. Centred(i) \in Int
  BY <1>2 DEF Centred, Score
<1> QED
  BY <1>3 DEF Estimate

-----------------------------------------------------------------------------
(* Invariance *)

LEMMA InitOK == Init => IInv
BY DEF Init, IInv, TypeOK, AdvIsEstimate

LEMMA NextOK == IInv /\ [Next]_vars => IInv'
<1> SUFFICES ASSUME IInv, [Next]_vars PROVE IInv'
  OBVIOUS
<1> USE DEF IInv
<1>1. CASE \E i \in Rollouts : Return(i)
  BY <1>1 DEF Return, TypeOK, AdvIsEstimate
<1>2. CASE \E i \in Rollouts : Collate(i)
  BY <1>2 DEF Collate, TypeOK, AdvIsEstimate, Heads
<1>3. CASE Concat
  BY <1>3 DEF Concat, TypeOK, AdvIsEstimate
<1>4. CASE ComputeAdvantage
  <2>1. TypeOK'
    BY <1>4, EstimateIsInt DEF ComputeAdvantage, TypeOK
  <2>2. \A i \in Rollouts : Estimate(i)' = Estimate(i)
    BY <1>4 DEF ComputeAdvantage, Estimate, SampleIsValid, Flag, Dropped,
                HasTokens, Centred, ValidGroup, Group, Score
  <2>3. AdvIsEstimate'
    BY <1>4, <2>2 DEF ComputeAdvantage, AdvIsEstimate
  <2> QED
    BY <2>1, <2>3
<1>5. CASE UNCHANGED vars
  BY <1>5 DEF vars, TypeOK, AdvIsEstimate, Estimate, SampleIsValid, Flag, Dropped,
              HasTokens, Centred, ValidGroup, Group, Score
<1> QED
  BY <1>1, <1>2, <1>3, <1>4, <1>5 DEF Next

LEMMA InvariantHolds == Spec => []IInv
BY InitOK, NextOK, PTL DEF Spec

\* Every reachable state is well-typed.
THEOREM TypeCorrect == Spec => []TypeOK
<1>1. IInv => TypeOK
  BY DEF IInv
<1> QED
  BY <1>1, InvariantHolds, PTL

\* No environment failure has an advantage or enters the baseline of another
\* rollout (compute_grpo_outcome_advantage with explicit flags).
THEOREM OutagesMoveNothing == Spec => []OutageMovesNothing
<1>1. IInv => OutageMovesNothing
  <2> SUFFICES ASSUME IInv, phase = "update", NEW i \in Rollouts
               PROVE  /\ result[i] \in Failed => adv[i] = 0
                      /\ adv[i] # 0 => adv[i] = Beaten(i)
    BY DEF OutageMovesNothing
  <2>1. adv[i] = Estimate(i)
    BY DEF IInv, AdvIsEstimate
  <2>2. result[i] \in Failed => adv[i] = 0
    BY <2>1 DEF Estimate, SampleIsValid, Flag
  <2>3. adv[i] # 0 => adv[i] = Beaten(i)
    BY <2>1, CentredIsBeaten DEF Estimate
  <2> QED
    BY <2>2, <2>3
<1> QED
  BY <1>1, InvariantHolds, PTL

\* A group within the limits trains on every answerable rollout.
THEOREM HealthyGroupsTrain == Spec => []HealthyGroupTrains
<1>1. IInv => HealthyGroupTrains
  <2> SUFFICES ASSUME IInv, phase = "update", NEW i \in Rollouts,
                      result[i] \in Judged \cup {"no_browser"},
                      (Cardinality(Group(i)) - Cardinality(Answerable(i)))
                        * MaxInvalidDen <= MaxInvalidNum * Cardinality(Group(i)),
                      Cardinality(Answerable(i)) >= MinValid
               PROVE  adv[i] = Beaten(i)
    BY DEF HealthyGroupTrains
  <2>1. adv[i] = Estimate(i)
    BY DEF IInv, AdvIsEstimate
  <2>2. SampleIsValid(i) /\ HasTokens(i)
    BY DEF SampleIsValid, HasTokens, Flag, Judged, Failed
  <2>3. ~Dropped(i)
    <3>1. ValidGroup(i) = Answerable(i)
      BY ValidIsAnswerable
    <3>2. Cardinality(Group(i)) \in Nat /\ Cardinality(Answerable(i)) \in Nat
      BY ValidIsAnswerable, FS_CardinalityType
    <3> DEFINE failed == (Cardinality(Group(i)) - Cardinality(Answerable(i))) * MaxInvalidDen
               limit == MaxInvalidNum * Cardinality(Group(i))
    <3>3. failed \in Int /\ limit \in Int
      BY <3>2, BatchAssumption
    <3>4. ~(failed > limit) /\ ~(Cardinality(Answerable(i)) < MinValid)
      BY <3>2, <3>3, BatchAssumption
    <3> QED
      BY <3>1, <3>4 DEF Dropped
  <2> QED
    BY <2>1, <2>2, <2>3, CentredIsBeaten DEF Estimate
<1> QED
  BY <1>1, InvariantHolds, PTL
=============================================================================
