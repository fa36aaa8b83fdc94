------------------------- MODULE PolicyUpdateProofs -------------------------
(***************************************************************************)
(* Theorems about PolicyUpdate: the rows are aligned, the estimators order *)
(* rollouts by their scores, the loss moves a token within the clip, and   *)
(* the generalised advantage skips what the policy did not write.          *)
(*                                                                         *)
(* The inductive invariant says of the episode that is played how the      *)
(* columns of agent_data go together, of the rows what _postprocess made   *)
(* of them, and of the advantages that they are those of the rows.  The    *)
(* rest is arithmetic: what the sums over a row come to (Sums), and that   *)
(* each estimator gives the rollouts of a group fractions over a common    *)
(* denominator.                                                            *)
(***************************************************************************)
EXTENDS PolicyUpdate, SequenceTheorems, Sums

-----------------------------------------------------------------------------
(* Sequences and rows *)

Kinds == {"prompt", "policy", "tool"}

Marks == {"policy", "zero"}

\* What _agent_loop_postprocess may make of a row, and how its columns go
\* together.
RowShape == [ids : [Positions -> {"prompt", "policy", "tool", "eos", "pad"}],
             attention : [Positions -> 0..1], mask : [Positions -> 0..1],
             logprobs : [Positions -> Marks] \cup {<<>>}, score : 0..1]

RowAligned(w) ==
  /\ \E len \in 1..ResponseLength : \A t \in Positions : w.attention[t] = 1 <=> t <= len
  /\ CalculateLogProbs => w.logprobs # <<>>
  /\ \A t \in Positions :
       /\ w.ids[t] # "prompt"
       /\ w.attention[t] = 1 <=> w.ids[t] # "pad"
       /\ w.logprobs # <<>> => (w.ids[t] = "policy" <=> w.logprobs[t] = "policy")
       /\ w.mask[t] = 1 => w.ids[t] = "policy"

AgentShape == [ids : Seq(Kinds), mask : Seq(0..1), logprobs : Seq(Marks),
               state : {"generating", "tools", "terminated"}, timedOut : BOOLEAN]

\* The columns of agent_data: ids is the prompt and one token per mask bit.
AgentAligned(a) ==
  /\ Len(a.ids) = Len(a.mask) + 1
  /\ Len(a.logprobs) = Len(a.mask)
  /\ \A k \in 1..Len(a.mask) :
       /\ a.ids[k + 1] # "prompt"
       /\ a.mask[k] = 1 <=> a.ids[k + 1] = "policy"
       /\ a.logprobs[k] = "policy" <=> a.ids[k + 1] = "policy"

LEMMA RepeatIsSeq ==
  ASSUME NEW S, NEW x \in S, NEW k \in Nat
  PROVE  /\ Repeat(x, k) \in Seq(S)
         /\ Len(Repeat(x, k)) = k
         /\ \A j \in 1..k : Repeat(x, k)[j] = x
BY DEF Repeat

\* A column is padded up to the response length.
LEMMA PadIsRow ==
  ASSUME NEW S, NEW x \in S, NEW s \in Seq(S), Len(s) <= ResponseLength
  PROVE  /\ Pad(s, x) \in [Positions -> S]
         /\ \A t \in Positions : Pad(s, x)[t] = IF t <= Len(s) THEN s[t] ELSE x
<1>1. ResponseLength \in Nat /\ Len(s) \in Nat
  BY UpdateAssumption, LenProperties
<1> DEFINE k == ResponseLength - Len(s)
           f == Repeat(x, k)
<1>2. k \in Nat
  BY <1>1
<1>3. f \in Seq(S) /\ Len(f) = k /\ \A j \in 1..k : f[j] = x
  BY <1>2, RepeatIsSeq
<1> HIDE DEF f
<1>4. /\ s \o f \in Seq(S)
      /\ Len(s \o f) = Len(s) + Len(f)
      /\ \A t \in 1..(Len(s) + Len(f)) : (s \o f)[t] = IF t <= Len(s) THEN s[t] ELSE f[t - Len(s)]
  BY <1>3, ConcatProperties
<1>5. Len(s \o f) = ResponseLength
  BY <1>4, <1>3, <1>1
<1>6. s \o f \in [Positions -> S]
  BY <1>4, <1>5, LenProperties DEF Positions
<1>7. ASSUME NEW t \in Positions
      PROVE  (s \o f)[t] = IF t <= Len(s) THEN s[t] ELSE x
  <2>1. t \in 1..(Len(s) + Len(f))
    BY <1>5, <1>4 DEF Positions
  <2>2. CASE t <= Len(s)
    BY <2>1, <2>2, <1>4
  <2>3. CASE ~ (t <= Len(s))
    <3>1. t - Len(s) \in 1..k
      BY <2>1, <2>3, <1>1, <1>3 DEF k
    <3> QED  BY <3>1, <2>3, <2>1, <1>4, <1>3
  <2> QED  BY <2>2, <2>3
<1> QED  BY <1>6, <1>7 DEF Pad, f

\* A cut leaves the first tokens.
LEMMA CutIsPrefix ==
  ASSUME NEW S, NEW s \in Seq(S)
  PROVE  /\ Cut(s) \in Seq(S)
         /\ Len(Cut(s)) = IF Len(s) > ResponseLength THEN ResponseLength ELSE Len(s)
         /\ \A k \in 1..Len(Cut(s)) : Cut(s)[k] = s[k]
<1>1. ResponseLength \in Nat /\ Len(s) \in Nat
  BY UpdateAssumption, LenProperties
<1> DEFINE m == IF Len(s) > ResponseLength THEN ResponseLength ELSE Len(s)
<1>2. m \in Nat /\ m <= Len(s)
  BY <1>1
<1>3. \A k \in 1..m : s[k] \in S
  BY <1>2, <1>1, ElementOfSeq
<1>4. 1 <= m => m - 1 + 1 = m
  BY <1>2
<1>5. ~ (1 <= m) => m = 0
  BY <1>2
<1> HIDE DEF m
<1>6. /\ SubSeq(s, 1, m) \in Seq(S)
      /\ Len(SubSeq(s, 1, m)) = IF 1 <= m THEN m - 1 + 1 ELSE 0
      /\ \A k \in 1..(m - 1 + 1) : SubSeq(s, 1, m)[k] = s[1 + k - 1]
  BY <1>2, <1>3, SubSeqProperties
<1>7. Len(SubSeq(s, 1, m)) = m
  BY <1>6, <1>4, <1>5
<1>8. \A k \in 1..m : SubSeq(s, 1, m)[k] = s[k]
  BY <1>6, <1>2
<1> QED  BY <1>6, <1>7, <1>8 DEF Cut, m

LEMMA NewAgentFits == NewAgent \in AgentShape /\ AgentAligned(NewAgent)
<1>1. <<>> \in Seq(0..1) /\ <<>> \in Seq(Marks) /\ Len(<<>>) = 0
  OBVIOUS
<1>2. <<"prompt">> \in Seq(Kinds) /\ Len(<<"prompt">>) = 1
  BY DEF Kinds
<1>3. NewAgent \in AgentShape
  BY <1>1, <1>2 DEF NewAgent, AgentShape
<1>4. NewAgent.ids = <<"prompt">> /\ NewAgent.mask = <<>> /\ NewAgent.logprobs = <<>>
  BY DEF NewAgent
<1> QED  BY <1>1, <1>2, <1>3, <1>4 DEF AgentAligned

\* agent_data stays aligned when it takes over tokens of a kind.
LEMMA GrowFits ==
  ASSUME NEW a \in AgentShape, AgentAligned(a), NEW kind \in {"policy", "tool"}, NEW k \in Nat
  PROVE  /\ Grow(a, kind, k) \in AgentShape
         /\ AgentAligned(Grow(a, kind, k))
<1> DEFINE bit == IF kind = "policy" THEN 1 ELSE 0
           mark == IF kind = "policy" THEN "policy" ELSE "zero"
           ri == Repeat(kind, k)
           rm == Repeat(bit, k)
           rl == Repeat(mark, k)
           L == Len(a.mask)
           g == Grow(a, kind, k)
<1>1. a.ids \in Seq(Kinds) /\ a.mask \in Seq(0..1) /\ a.logprobs \in Seq(Marks)
  BY DEF AgentShape
<1>2. kind \in Kinds /\ bit \in 0..1 /\ mark \in Marks
  BY DEF Kinds, Marks
<1>3. ri \in Seq(Kinds) /\ Len(ri) = k /\ \A j \in 1..k : ri[j] = kind
  BY <1>2, RepeatIsSeq
<1>4. rm \in Seq(0..1) /\ Len(rm) = k /\ \A j \in 1..k : rm[j] = bit
  BY <1>2, RepeatIsSeq
<1>5. rl \in Seq(Marks) /\ Len(rl) = k /\ \A j \in 1..k : rl[j] = mark
  BY <1>2, RepeatIsSeq
<1>6. g = [a EXCEPT !.ids = a.ids \o ri, !.mask = a.mask \o rm, !.logprobs = a.logprobs \o rl]
  BY DEF Grow
<1>7. bit = 1 <=> kind = "policy"
  OBVIOUS
<1>8. mark = "policy" <=> kind = "policy"
  OBVIOUS
<1> HIDE DEF ri, rm, rl, g, bit, mark
<1>9. /\ a.ids \o ri \in Seq(Kinds)
      /\ Len(a.ids \o ri) = Len(a.ids) + Len(ri)
      /\ \A j \in 1..(Len(a.ids) + Len(ri)) :
           (a.ids \o ri)[j] = IF j <= Len(a.ids) THEN a.ids[j] ELSE ri[j - Len(a.ids)]
  BY <1>1, <1>3, ConcatProperties
<1>10. /\ a.mask \o rm \in Seq(0..1)
       /\ Len(a.mask \o rm) = Len(a.mask) + Len(rm)
       /\ \A j \in 1..(Len(a.mask) + Len(rm)) :
            (a.mask \o rm)[j] = IF j <= Len(a.mask) THEN a.mask[j] ELSE rm[j - Len(a.mask)]
  BY <1>1, <1>4, ConcatProperties
<1>11. /\ a.logprobs \o rl \in Seq(Marks)
       /\ Len(a.logprobs \o rl) = Len(a.logprobs) + Len(rl)
       /\ \A j \in 1..(Len(a.logprobs) + Len(rl)) :
            (a.logprobs \o rl)[j] =
              IF j <= Len(a.logprobs) THEN a.logprobs[j] ELSE rl[j - Len(a.logprobs)]
  BY <1>1, <1>5, ConcatProperties
<1>12. /\ g \in AgentShape
       /\ g.ids = a.ids \o ri /\ g.mask = a.mask \o rm /\ g.logprobs = a.logprobs \o rl
  BY <1>6, <1>9, <1>10, <1>11 DEF AgentShape
<1>13. L \in Nat /\ Len(a.ids) = L + 1 /\ Len(a.logprobs) = L
  BY <1>1, LenProperties DEF AgentAligned
<1>14. Len(g.mask) = L + k /\ Len(g.ids) = Len(g.mask) + 1 /\ Len(g.logprobs) = Len(g.mask)
  BY <1>9, <1>10, <1>11, <1>12, <1>13, <1>3, <1>4, <1>5
<1>15. ASSUME NEW j \in 1..Len(g.mask)
       PROVE  /\ g.ids[j + 1] # "prompt"
              /\ g.mask[j] = 1 <=> g.ids[j + 1] = "policy"
              /\ g.logprobs[j] = "policy" <=> g.ids[j + 1] = "policy"
  <2>1. /\ j \in 1..(Len(a.mask) + Len(rm)) /\ j \in 1..(Len(a.logprobs) + Len(rl))
        /\ j + 1 \in 1..(Len(a.ids) + Len(ri))
    BY <1>13, <1>14, <1>3, <1>4, <1>5
  <2>2. CASE j <= L
    <3>1. j + 1 <= Len(a.ids) /\ j <= Len(a.mask) /\ j <= Len(a.logprobs) /\ j \in 1..L
      BY <2>1, <2>2, <1>13
    <3>2. g.ids[j + 1] = a.ids[j + 1]
      BY <3>1, <2>1, <1>9, <1>12
    <3>3. g.mask[j] = a.mask[j]
      BY <3>1, <2>1, <1>10, <1>12
    <3>4. g.logprobs[j] = a.logprobs[j]
      BY <3>1, <2>1, <1>11, <1>12
    <3> QED  BY <3>1, <3>2, <3>3, <3>4 DEF AgentAligned
  <2>3. CASE ~ (j <= L)
    <3>1. /\ ~ (j + 1 <= Len(a.ids)) /\ ~ (j <= Len(a.mask)) /\ ~ (j <= Len(a.logprobs))
          /\ j + 1 - Len(a.ids) = j - L /\ j - L \in 1..k
      BY <2>1, <2>3, <1>13, <1>14
    <3>2. g.ids[j + 1] = kind
      <4>1. PICK p : p = j + 1
        OBVIOUS
      <4>2. p \in 1..(Len(a.ids) + Len(ri)) /\ ~ (p <= Len(a.ids))
        BY <4>1, <2>1, <3>1
      <4>3. g.ids[p] = ri[p - Len(a.ids)]
        BY <4>2, <1>9, <1>12
      <4>4. p - Len(a.ids) = j - L
        BY <4>1, <1>13, <1>14
      <4>5. ri[j - L] = kind
        BY <3>1, <1>3
      <4> QED  BY <4>3, <4>4, <4>5, <4>1
    <3>3. g.mask[j] = bit
      <4>1. g.mask[j] = rm[j - L]
        BY <3>1, <2>1, <1>10, <1>12
      <4> QED  BY <4>1, <3>1, <1>4
    <3>4. g.logprobs[j] = mark
      <4>1. g.logprobs[j] = rl[j - Len(a.logprobs)]
        BY <3>1, <2>1, <1>11, <1>12
      <4> QED  BY <4>1, <3>1, <1>5, <1>13
    <3> QED  BY <3>2, <3>3, <3>4, <1>7, <1>8
  <2> QED  BY <2>2, <2>3
<1> QED  BY <1>12, <1>14, <1>15 DEF AgentAligned, g

\* The response of an episode that is cut, padded and masked is an aligned row.
LEMMA RowFits ==
  ASSUME NEW a \in AgentShape, AgentAligned(a), NEW invalid \in BOOLEAN, NEW score \in 0..1
  PROVE  /\ Row(Response(a, invalid), score) \in RowShape
         /\ RowAligned(Row(Response(a, invalid), score))
<1> DEFINE L == Len(a.mask)
           src == ResponseIds(a)
           ids == Cut(src)
           mask == Cut(a.mask)
           logprobs == LogProbs(a)
           r == Response(a, invalid)
           KK == {"prompt", "policy", "tool", "eos", "pad"}
<1>0. 0 \in 0..1 /\ 1 \in 0..1
  OBVIOUS
<1>1. a.ids \in Seq(Kinds) /\ a.mask \in Seq(0..1) /\ a.logprobs \in Seq(Marks)
  BY DEF AgentShape
<1>2. L \in Nat /\ Len(a.ids) = L + 1 /\ Len(a.logprobs) = L /\ ResponseLength \in Nat \ {0}
  BY <1>1, LenProperties, UpdateAssumption DEF AgentAligned
\* The response holds what follows the prompt.
<1>3. /\ src \in Seq(Kinds) /\ Len(src) = L
      /\ \A k \in 1..L : src[k] = a.ids[k + 1]
  <2>1. src = SubSeq(a.ids, 2, L + 1)
    BY <1>2 DEF ResponseIds
  <2>2. \A k \in 2..(L + 1) : a.ids[k] \in Kinds
    BY <1>1, <1>2, ElementOfSeq
  <2>3. /\ SubSeq(a.ids, 2, L + 1) \in Seq(Kinds)
        /\ Len(SubSeq(a.ids, 2, L + 1)) = IF 2 <= L + 1 THEN L + 1 - 2 + 1 ELSE 0
        /\ \A k \in 1..(L + 1 - 2 + 1) : SubSeq(a.ids, 2, L + 1)[k] = a.ids[2 + k - 1]
    BY <2>2, <1>2, SubSeqProperties
  <2>4. L + 1 - 2 + 1 = L /\ (~ (2 <= L + 1) => L = 0) /\ \A k \in 1..L : 2 + k - 1 = k + 1
    BY <1>2
  <2> HIDE DEF src
  <2> QED  BY <2>1, <2>3, <2>4
<1> HIDE DEF src
<1>4. PICK M : M = IF L > ResponseLength THEN ResponseLength ELSE L
  OBVIOUS
<1>5. M \in Nat /\ M <= ResponseLength /\ M <= L /\ (M = 0 <=> L = 0)
  BY <1>4, <1>2
<1>6. ids \in Seq(Kinds) /\ Len(ids) = M /\ \A k \in 1..M : ids[k] = a.ids[k + 1]
  <2>1. /\ ids \in Seq(Kinds) /\ Len(ids) = IF Len(src) > ResponseLength THEN ResponseLength ELSE Len(src)
        /\ \A k \in 1..Len(ids) : ids[k] = src[k]
    BY <1>3, CutIsPrefix
  <2> HIDE DEF ids
  <2> QED  BY <2>1, <1>3, <1>4, <1>5, <1>2
<1>7. mask \in Seq(0..1) /\ Len(mask) = M /\ \A k \in 1..M : mask[k] = a.mask[k]
  <2>1. /\ mask \in Seq(0..1)
        /\ Len(mask) = IF Len(a.mask) > ResponseLength THEN ResponseLength ELSE Len(a.mask)
        /\ \A k \in 1..Len(mask) : mask[k] = a.mask[k]
    BY <1>1, CutIsPrefix
  <2> HIDE DEF mask
  <2> QED  BY <2>1, <1>4
<1>8. logprobs # <<>> =>
        /\ logprobs \in Seq(Marks) /\ Len(logprobs) = M
        /\ \A k \in 1..M : logprobs[k] = a.logprobs[k]
  <2>1. PICK l : l = Cut(a.logprobs)
    OBVIOUS
  <2>2. /\ l \in Seq(Marks)
        /\ Len(l) = IF Len(a.logprobs) > ResponseLength THEN ResponseLength ELSE Len(a.logprobs)
        /\ \A k \in 1..Len(l) : l[k] = a.logprobs[k]
    BY <1>1, <2>1, CutIsPrefix
  <2>3. logprobs # <<>> => logprobs = l
    BY <2>1 DEF LogProbs
  <2>4. Len(l) = M
    BY <2>2, <1>4, <1>2
  <2> HIDE DEF logprobs
  <2> QED  BY <2>2, <2>3, <2>4
<1>8a. CalculateLogProbs /\ M > 0 => logprobs # <<>>
  <2>1. PICK l : l = Cut(a.logprobs)
    OBVIOUS
  <2>2. Len(l) = IF Len(a.logprobs) > ResponseLength THEN ResponseLength ELSE Len(a.logprobs)
    BY <1>1, <2>1, CutIsPrefix
  <2>3. CalculateLogProbs => logprobs = l
    BY <2>1 DEF LogProbs
  <2>4. M > 0 => l # <<>>
    BY <2>2, <1>4, <1>2
  <2> HIDE DEF logprobs
  <2> QED  BY <2>3, <2>4
<1>9. r = IF ids = <<>>
          THEN [ids |-> <<"eos">>, mask |-> <<0>>, logprobs |-> <<"zero">>]
          ELSE [ids |-> ids, mask |-> IF invalid THEN Repeat(0, Len(mask)) ELSE mask,
                logprobs |-> logprobs]
  BY DEF Response, src
<1> HIDE DEF ids, mask, logprobs, r
\* The three columns of a response.
<1>10. /\ r.ids \in Seq(KK \ {"pad"}) /\ r.mask \in Seq(0..1)
       /\ r.logprobs # <<>> => r.logprobs \in Seq(Marks) /\ Len(r.logprobs) = Len(r.ids)
       /\ CalculateLogProbs => r.logprobs # <<>>
       /\ Len(r.ids) \in 1..ResponseLength
       /\ Len(r.mask) = Len(r.ids)
       /\ \A k \in 1..Len(r.ids) :
            /\ r.ids[k] # "prompt"
            /\ r.mask[k] = 1 => r.ids[k] = "policy"
            /\ r.logprobs # <<>> => (r.ids[k] = "policy" <=> r.logprobs[k] = "policy")
  <2>1. CASE ids = <<>>
    <3>1. r.ids = <<"eos">> /\ r.mask = <<0>> /\ r.logprobs = <<"zero">>
      BY <2>1, <1>9
    <3>2. /\ <<"eos">> \in Seq(KK \ {"pad"}) /\ <<0>> \in Seq(0..1) /\ <<"zero">> \in Seq(Marks)
          /\ Len(<<"eos">>) = 1 /\ Len(<<0>>) = 1 /\ Len(<<"zero">>) = 1
          /\ <<"eos">>[1] = "eos" /\ <<0>>[1] = 0 /\ <<"zero">>[1] = "zero"
      BY DEF Marks
    <3>3. 1 \in 1..ResponseLength /\ (\A k \in 1..1 : k = 1) /\ <<"zero">> # <<>>
      BY <1>2
    <3> QED  BY <3>1, <3>2, <3>3
  <2>2. CASE ids # <<>>
    <3>1. M \in 1..ResponseLength
      BY <2>2, <1>5, <1>6, <1>2, EmptySeq
    <3>2. PICK m : m = IF invalid THEN Repeat(0, Len(mask)) ELSE mask
      OBVIOUS
    <3>3. r.ids = ids /\ r.mask = m /\ r.logprobs = logprobs
      BY <2>2, <1>9, <3>2
    <3>4. m \in Seq(0..1) /\ Len(m) = M /\ \A k \in 1..M : m[k] = 1 => mask[k] = 1
      <4>1. CASE invalid
        <5>1. /\ Repeat(0, M) \in Seq(0..1) /\ Len(Repeat(0, M)) = M
              /\ \A j \in 1..M : Repeat(0, M)[j] = 0
          BY <1>0, <1>5, RepeatIsSeq
        <5> QED  BY <5>1, <4>1, <3>2, <1>7
      <4>2. CASE ~ invalid
        BY <4>2, <3>2, <1>7
      <4> QED  BY <4>1, <4>2
    <3>5. ids \in Seq(KK \ {"pad"})
      <4>1. Kinds \subseteq KK \ {"pad"}
        BY DEF Kinds
      <4> QED  BY <4>1, <1>6, SeqMonotonic
    <3>6. ASSUME NEW k \in 1..M
          PROVE  /\ ids[k] # "prompt"
                 /\ m[k] = 1 => ids[k] = "policy"
                 /\ logprobs # <<>> => (ids[k] = "policy" <=> logprobs[k] = "policy")
      <4>1. k \in 1..L
        BY <1>5, <1>2
      <4>2. /\ a.ids[k + 1] # "prompt"
            /\ a.mask[k] = 1 <=> a.ids[k + 1] = "policy"
            /\ a.logprobs[k] = "policy" <=> a.ids[k + 1] = "policy"
        BY <4>1 DEF AgentAligned
      <4>3. /\ ids[k] = a.ids[k + 1] /\ mask[k] = a.mask[k]
            /\ logprobs # <<>> => logprobs[k] = a.logprobs[k]
        BY <1>6, <1>7, <1>8
      <4> QED  BY <4>2, <4>3, <3>4
    <3>7. CalculateLogProbs => logprobs # <<>>
      BY <3>1, <1>8a
    <3> QED  BY <3>1, <3>3, <3>4, <3>5, <3>6, <3>7, <1>6, <1>8
  <2> QED  BY <2>1, <2>2
<1> DEFINE N == Len(r.ids)
           att == Pad(Repeat(1, N), 0)
           pids == Pad(r.ids, "pad")
           pmask == Pad(r.mask, PadTokenId)
           plog == IF r.logprobs = <<>> THEN <<>> ELSE Pad(r.logprobs, "zero")
           w == Row(r, score)
<1>11. N \in 1..ResponseLength /\ N \in Nat /\ N <= ResponseLength
  BY <1>10, <1>2
<1>12. att \in [Positions -> 0..1] /\ \A t \in Positions : att[t] = IF t <= N THEN 1 ELSE 0
  <2>1. /\ Repeat(1, N) \in Seq(0..1) /\ Len(Repeat(1, N)) = N
        /\ \A j \in 1..N : Repeat(1, N)[j] = 1
    BY <1>0, <1>11, RepeatIsSeq
  <2>2. PICK f : f = Repeat(1, N)
    OBVIOUS
  <2>3. /\ Pad(f, 0) \in [Positions -> 0..1]
        /\ \A t \in Positions : Pad(f, 0)[t] = IF t <= Len(f) THEN f[t] ELSE 0
    <3>1. f \in Seq(0..1) /\ Len(f) <= ResponseLength
      BY <2>1, <2>2, <1>11
    <3> QED  BY <3>1, <1>0, PadIsRow
  <2>4. \A t \in Positions : t <= N => t \in 1..N
    BY <1>11 DEF Positions
  <2> HIDE DEF N
  <2> QED  BY <2>1, <2>2, <2>3, <2>4
<1>13. /\ pids \in [Positions -> KK]
       /\ \A t \in Positions : pids[t] = IF t <= N THEN r.ids[t] ELSE "pad"
  <2>1. r.ids \in Seq(KK) /\ "pad" \in KK
    BY <1>10, SeqMonotonic
  <2>2. Len(r.ids) <= ResponseLength
    BY <1>11
  <2> HIDE DEF KK, N
  <2>3. /\ Pad(r.ids, "pad") \in [Positions -> KK]
        /\ \A t \in Positions : Pad(r.ids, "pad")[t] = IF t <= Len(r.ids) THEN r.ids[t] ELSE "pad"
    BY <2>1, <2>2, PadIsRow
  <2> QED  BY <2>3 DEF N
<1>14. /\ pmask \in [Positions -> 0..2]
       /\ \A t \in Positions : pmask[t] = IF t <= N THEN r.mask[t] ELSE 2
  <2>1. r.mask \in Seq(0..2) /\ Len(r.mask) <= ResponseLength /\ Len(r.mask) = N
    <3>1. 0..1 \subseteq 0..2
      OBVIOUS
    <3> QED  BY <3>1, <1>10, <1>11, SeqMonotonic
  <2>2. PadTokenId = 2 /\ 2 \in 0..2
    BY DEF PadTokenId
  <2> HIDE DEF N
  <2>3. /\ Pad(r.mask, 2) \in [Positions -> 0..2]
        /\ \A t \in Positions : Pad(r.mask, 2)[t] = IF t <= Len(r.mask) THEN r.mask[t] ELSE 2
    BY ZenonT(30), <2>1, <2>2, PadIsRow
  <2> QED  BY <2>1, <2>2, <2>3
<1>15. /\ plog \in [Positions -> Marks] \cup {<<>>}
       /\ plog # <<>> =>
            /\ r.logprobs # <<>>
            /\ \A t \in Positions : plog[t] = IF t <= N THEN r.logprobs[t] ELSE "zero"
       /\ CalculateLogProbs => plog # <<>>
  <2>1. "zero" \in Marks
    BY DEF Marks
  <2>2. CASE r.logprobs = <<>>
    BY <2>2, <1>10
  <2>3. CASE r.logprobs # <<>>
    <3>1. PICK l : l = r.logprobs
      OBVIOUS
    <3>2. l \in Seq(Marks) /\ Len(l) = N /\ Len(l) <= ResponseLength
      BY <3>1, <2>3, <1>10, <1>11
    <3> HIDE DEF N
    <3>3. /\ Pad(l, "zero") \in [Positions -> Marks]
          /\ \A t \in Positions : Pad(l, "zero")[t] = IF t <= Len(l) THEN l[t] ELSE "zero"
      BY <2>1, <3>2, PadIsRow
    <3>4. Pad(l, "zero") # <<>>
      <4>1. 1 \in Positions
        BY <1>2 DEF Positions
      <4>2. DOMAIN Pad(l, "zero") # {}
        BY <3>3, <4>1
      <4> QED  BY <4>2
    <3> QED  BY <3>1, <3>2, <3>3, <3>4, <2>3
  <2> QED  BY <2>2, <2>3
<1>16. w = [ids |-> pids, attention |-> att,
            mask |-> [t \in DOMAIN pmask |-> pmask[t] * att[t]],
            logprobs |-> plog, score |-> score]
  BY DEF Row
<1> HIDE DEF att, pids, pmask, plog, w
<1>17. PICK wm : wm = [t \in Positions |-> pmask[t] * att[t]]
  OBVIOUS
<1>18. DOMAIN pmask = Positions
  BY <1>14
<1>19. /\ w.ids = pids /\ w.attention = att /\ w.mask = wm /\ w.logprobs = plog /\ w.score = score
       /\ w = [ids |-> pids, attention |-> att, mask |-> wm, logprobs |-> plog, score |-> score]
  BY <1>16, <1>17, <1>18
\* The multiplication by the attention mask clears the padding.
<1>20. wm \in [Positions -> 0..1] /\ \A t \in Positions : wm[t] = 1 => t <= N /\ r.mask[t] = 1
  <2>1. ASSUME NEW t \in Positions
        PROVE  wm[t] \in 0..1 /\ (wm[t] = 1 => t <= N /\ r.mask[t] = 1)
    <3>1. wm[t] = pmask[t] * att[t]
      BY <1>17
    <3>2. CASE t <= N
      <4>1. t \in 1..Len(r.mask)
        BY <3>2, <1>11, <1>10 DEF Positions
      <4>2. r.mask[t] \in 0..1
        BY <4>1, <1>10, ElementOfSeq
      <4>3. att[t] = 1 /\ pmask[t] = r.mask[t]
        BY <3>2, <1>12, <1>14
      <4>4. wm[t] = r.mask[t]
        BY <3>1, <4>2, <4>3
      <4> HIDE DEF N
      <4> QED  BY <4>2, <4>4, <3>2
    <3>3. CASE ~ (t <= N)
      <4>1. att[t] = 0 /\ pmask[t] = 2
        BY <3>3, <1>12, <1>14
      <4>2. wm[t] = 0
        BY <3>1, <4>1
      <4> QED  BY <4>2
    <3> QED  BY <3>2, <3>3
  <2> QED  BY <2>1, <1>17
<1>21. w \in RowShape
  BY <1>19, <1>20, <1>12, <1>13, <1>15 DEF RowShape
<1>22. \E len \in 1..ResponseLength : \A t \in Positions : w.attention[t] = 1 <=> t <= len
  <2>1. N \in 1..ResponseLength /\ \A t \in Positions : w.attention[t] = 1 <=> t <= N
    BY <1>11, <1>12, <1>19
  <2> HIDE DEF N
  <2> QED  BY <2>1
<1>23. CalculateLogProbs => w.logprobs # <<>>
  BY <1>15, <1>19
<1>24. ASSUME NEW t \in Positions
       PROVE  /\ w.ids[t] # "prompt"
              /\ w.attention[t] = 1 <=> w.ids[t] # "pad"
              /\ w.logprobs # <<>> => (w.ids[t] = "policy" <=> w.logprobs[t] = "policy")
              /\ w.mask[t] = 1 => w.ids[t] = "policy"
  <2>1. /\ att[t] = IF t <= N THEN 1 ELSE 0
        /\ pids[t] = IF t <= N THEN r.ids[t] ELSE "pad"
        /\ plog # <<>> => r.logprobs # <<>> /\ plog[t] = IF t <= N THEN r.logprobs[t] ELSE "zero"
        /\ wm[t] = 1 => t <= N /\ r.mask[t] = 1
    BY <1>12, <1>13, <1>15, <1>20
  <2>2. CASE t <= N
    <3>1. t \in 1..N
      BY <2>2, <1>11 DEF Positions
    <3>2. r.ids[t] \in KK \ {"pad"}
      BY <3>1, <1>10, ElementOfSeq
    <3>3. /\ r.ids[t] # "prompt"
          /\ r.mask[t] = 1 => r.ids[t] = "policy"
          /\ r.logprobs # <<>> => (r.ids[t] = "policy" <=> r.logprobs[t] = "policy")
      BY <3>1, <1>10
    <3>4. att[t] = 1 /\ pids[t] = r.ids[t] /\ (plog # <<>> => plog[t] = r.logprobs[t])
      BY <2>1, <2>2
    <3>5. (wm[t] = 1 => r.mask[t] = 1) /\ pids[t] # "pad" /\ (plog # <<>> => r.logprobs # <<>>)
      BY <2>1, <3>2, <3>4
    <3>6. /\ pids[t] # "prompt"
          /\ att[t] = 1 <=> pids[t] # "pad"
          /\ plog # <<>> => (pids[t] = "policy" <=> plog[t] = "policy")
          /\ wm[t] = 1 => pids[t] = "policy"
      BY <3>3, <3>4, <3>5
    <3> QED  BY <3>6, <1>19
  <2>3. CASE ~ (t <= N)
    <3>1. att[t] = 0 /\ pids[t] = "pad" /\ (plog # <<>> => plog[t] = "zero") /\ wm[t] # 1
      BY <2>1, <2>3
    <3>2. /\ w.ids[t] = "pad" /\ w.attention[t] = 0 /\ w.mask[t] # 1
          /\ w.logprobs # <<>> => w.logprobs[t] = "zero"
      BY <3>1, <1>19
    <3> QED  BY <3>2
  <2> QED  BY <2>2, <2>3
<1> QED  BY <1>21, <1>22, <1>23, <1>24 DEF RowAligned, w, r

-----------------------------------------------------------------------------
(* The inductive invariant *)

AgentFits == agent \in AgentShape /\ AgentAligned(agent)

RowsFit ==
  /\ rows \in Seq(RowShape)
  /\ Len(rows) <= NumRollouts
  /\ \A i \in 1..Len(rows) : RowAligned(rows[i])

\* Only a full batch is dealt out.
BatchIsFull == order # <<>> => Len(rows) = NumRollouts

AdvantagesOf(e, k, baseline) ==
  [i \in Rollouts |-> [t \in Positions |-> Advantage(e, k, baseline, i, t)]]

\* The advantages are those of the rows as they are.
AdvantagesAreCurrent ==
  est # None =>
    /\ order # <<>>
    /\ est \in Estimators
    /\ n \in GroupSizes
    /\ est = "grpo_passk" => n > 1
    /\ \E baseline \in Baselines(est, n) : adv = AdvantagesOf(est, n, baseline)

IInv == AgentFits /\ RowsFit /\ BatchIsFull /\ AdvantagesAreCurrent

LEMMA InitInv == Init => IInv
<1> SUFFICES ASSUME Init PROVE IInv
  OBVIOUS
<1>1. AgentFits
  BY NewAgentFits DEF Init, AgentFits
<1>2. RowsFit
  <2>1. <<>> \in Seq(RowShape) /\ Len(<<>>) = 0
    OBVIOUS
  <2>2. rows = <<>> /\ NumRollouts \in Nat
    BY UpdateAssumption DEF Init
  <2> QED  BY <2>1, <2>2 DEF RowsFit
<1>3. BatchIsFull /\ AdvantagesAreCurrent
  BY DEF Init, BatchIsFull, AdvantagesAreCurrent
<1> QED  BY <1>1, <1>2, <1>3 DEF IInv

LEMMA AgentStateFits ==
  ASSUME NEW a \in AgentShape, AgentAligned(a), NEW st \in {"generating", "tools", "terminated"}
  PROVE  /\ [a EXCEPT !.state = st] \in AgentShape
         /\ AgentAligned([a EXCEPT !.state = st])
<1> DEFINE b == [a EXCEPT !.state = st]
<1>1. b.ids = a.ids /\ b.mask = a.mask /\ b.logprobs = a.logprobs
  BY DEF AgentShape
<1>2. b \in AgentShape
  BY DEF AgentShape
<1> HIDE DEF b
<1>3. AgentAligned(b)
  BY <1>1 DEF AgentAligned
<1> QED  BY <1>2, <1>3 DEF b

\* While rows are still played, the batch is not dealt out and not scored.
LEMMA PlayedBefore ==
  ASSUME IInv, Len(rows) < NumRollouts
  PROVE  order = <<>> /\ est = None
<1>1. Len(rows) \in Nat /\ NumRollouts \in Nat
  BY LenProperties, UpdateAssumption DEF IInv, RowsFit
<1>2. Len(rows) # NumRollouts
  BY <1>1
<1> QED  BY <1>2 DEF IInv, BatchIsFull, AdvantagesAreCurrent

\* Advantages are computed from the rows and from nothing else.
LEMMA AdvantagesOfRows ==
  ASSUME UNCHANGED rows, NEW e, NEW k, NEW b
  PROVE  AdvantagesOf(e, k, b)' = AdvantagesOf(e, k, b)
BY DEF AdvantagesOf, Advantage, ReinforcePlusPlus, RunningReturn, ReMax, Outcome,
       GrpoVectorized, ReinforcePlusPlusBaseline, Rloo, RlooVectorized, Opo, Gpg,
       GrpoPassk, BaselineCentred, Mean, GroupScore, Group, Score, Tokens, TokensOf,
       TokenReward, Attended

LEMMA StepInv == IInv /\ [Next]_vars => IInv'
<1> SUFFICES ASSUME IInv, [Next]_vars PROVE IInv'
  OBVIOUS
<1>0. AgentFits /\ RowsFit /\ BatchIsFull /\ AdvantagesAreCurrent
  BY DEF IInv
\* A step of an episode disturbs agent alone.
<1>1. ASSUME UNCHANGED <<rows, order, dp, n, est, adv>>, AgentFits'
      PROVE  IInv'
  <2>1. RowsFit'
    BY <1>0, <1>1 DEF RowsFit
  <2>2. BatchIsFull'
    BY <1>0, <1>1 DEF BatchIsFull
  <2>3. AdvantagesAreCurrent'
    <3>1. \A e, k, b : AdvantagesOf(e, k, b)' = AdvantagesOf(e, k, b)
      BY <1>1, AdvantagesOfRows
    <3>2. Baselines(est, n)' = Baselines(est, n)
      BY <1>1 DEF Baselines, Group
    <3> QED  BY <3>1, <3>2, <1>0, <1>1 DEF AdvantagesAreCurrent
  <2> QED  BY <1>1, <2>1, <2>2, <2>3 DEF IInv
<1>2. CASE Generate
  <2>1. PICK k \in 0..TurnTokens, calls \in BOOLEAN :
          LET a == Grow(agent, "policy", k)
          IN  agent' = [a EXCEPT !.state = IF calls /\ k > 0 /\ Len(a.mask) < ResponseLength
                                           THEN "tools" ELSE "terminated"]
    BY <1>2 DEF Generate
  <2>2. PICK a : a = Grow(agent, "policy", k)
    OBVIOUS
  <2>3. PICK st \in {"tools", "terminated"} : agent' = [a EXCEPT !.state = st]
    BY <2>1, <2>2
  <2>4. k \in Nat
    BY UpdateAssumption
  <2>5. a \in AgentShape /\ AgentAligned(a)
    BY <1>0, <2>2, <2>4, GrowFits DEF AgentFits
  <2>6. AgentFits'
    BY <2>3, <2>5, AgentStateFits DEF AgentFits
  <2>7. UNCHANGED <<rows, order, dp, n, est, adv>>
    BY <1>2 DEF Generate
  <2> QED  BY <1>1, <2>6, <2>7
<1>3. CASE Observe
  <2>1. UNCHANGED <<rows, order, dp, n, est, adv>>
    BY <1>3 DEF Observe
  <2>2. CASE agent' = [agent EXCEPT !.state = "terminated"]
    <3>1. AgentFits'
      BY <1>0, <2>2, AgentStateFits DEF AgentFits
    <3> QED  BY <3>1, <2>1, <1>1
  <2>3. CASE agent' = [Grow(agent, "tool", 1) EXCEPT !.state = "generating"]
    <3>1. PICK a : a = Grow(agent, "tool", 1)
      OBVIOUS
    <3>2. a \in AgentShape /\ AgentAligned(a)
      BY <1>0, <3>1, GrowFits DEF AgentFits
    <3>3. AgentFits'
      BY <2>3, <3>1, <3>2, AgentStateFits DEF AgentFits
    <3> QED  BY <3>3, <2>1, <1>1
  <2> QED  BY <1>3, <2>2, <2>3 DEF Observe
<1>4. CASE EpisodeTimeout
  <2>1. UNCHANGED <<rows, order, dp, n, est, adv>>
    BY <1>4 DEF EpisodeTimeout
  <2>2. agent' = [agent EXCEPT !.state = "terminated", !.timedOut = TRUE]
    BY <1>4 DEF EpisodeTimeout
  <2>3. agent' \in AgentShape
    BY <1>0, <2>2 DEF AgentFits, AgentShape
  <2>4. agent'.ids = agent.ids /\ agent'.mask = agent.mask /\ agent'.logprobs = agent.logprobs
    BY <1>0, <2>2 DEF AgentFits, AgentShape
  <2>5. AgentAligned(agent)
    BY <1>0 DEF AgentFits
  <2>6. AgentAligned(agent')
    BY <2>4, <2>5 DEF AgentAligned
  <2>7. AgentFits'
    BY <2>3, <2>6 DEF AgentFits
  <2> QED  BY <2>7, <2>1, <1>1
<1>5. CASE Return
  <2>1. PICK score \in 0..1, invalid \in BOOLEAN :
          rows' = Append(rows, Row(Response(agent, invalid), score))
    BY <1>5 DEF Return
  <2>2. Len(rows) < NumRollouts
    BY <1>5 DEF Return, Playing
  <2>3. agent' = NewAgent /\ UNCHANGED <<order, est>>
    BY <1>5 DEF Return
  <2>4. PICK w : w = Row(Response(agent, invalid), score)
    OBVIOUS
  <2>5. w \in RowShape /\ RowAligned(w)
    BY <2>4, <1>0, RowFits DEF AgentFits
  <2>6. rows \in Seq(RowShape) /\ rows' = Append(rows, w)
    BY <1>0, <2>1, <2>4 DEF RowsFit
  <2>7. /\ Append(rows, w) \in Seq(RowShape)
        /\ Len(Append(rows, w)) = Len(rows) + 1
        /\ \A i \in 1..Len(rows) : Append(rows, w)[i] = rows[i]
        /\ Append(rows, w)[Len(rows) + 1] = w
    BY <2>5, <2>6, AppendProperties
  <2>8. Len(rows) \in Nat /\ NumRollouts \in Nat
    BY <2>6, LenProperties, UpdateAssumption
  <2>9. RowsFit'
    <3>1. Len(rows') <= NumRollouts
      BY <2>2, <2>6, <2>7, <2>8
    <3>2. ASSUME NEW i \in 1..(Len(rows) + 1) PROVE RowAligned(rows'[i])
      <4>1. CASE i \in 1..Len(rows)
        BY <4>1, <2>6, <2>7, <1>0 DEF RowsFit
      <4>2. CASE i = Len(rows) + 1
        BY <4>2, <2>5, <2>6, <2>7
      <4> QED  BY <4>1, <4>2, <2>8
    <3> QED  BY <3>1, <3>2, <2>6, <2>7 DEF RowsFit
  <2>10. AgentFits'
    BY <2>3, NewAgentFits DEF AgentFits
  <2>11. BatchIsFull' /\ AdvantagesAreCurrent'
    <3>1. order = <<>> /\ est = None
      BY <2>2, PlayedBefore
    <3> QED  BY <3>1, <2>3 DEF BatchIsFull, AdvantagesAreCurrent
  <2> QED  BY <2>9, <2>10, <2>11 DEF IInv
<1>6. CASE BalanceBatch
  <2>1. UNCHANGED <<agent, rows, est>> /\ Len(rows) = NumRollouts /\ order = <<>>
    BY <1>6 DEF BalanceBatch
  <2>2. AgentFits' /\ RowsFit' /\ BatchIsFull'
    BY <1>0, <2>1 DEF AgentFits, RowsFit, BatchIsFull
  <2>3. AdvantagesAreCurrent'
    BY <1>0, <2>1 DEF AdvantagesAreCurrent
  <2> QED  BY <2>2, <2>3 DEF IInv
<1>7. CASE ComputeAdvantage
  <2>1. UNCHANGED <<agent, rows, order>> /\ order # <<>>
    BY <1>7 DEF ComputeAdvantage
  <2>2. PICK e \in Estimators, k \in GroupSizes : \E baseline \in Baselines(e, k) :
          /\ e = "grpo_passk" => k > 1
          /\ est' = e
          /\ n' = k
          /\ adv' = AdvantagesOf(e, k, baseline)
    BY <1>7 DEF ComputeAdvantage, AdvantagesOf
  <2>3. AgentFits' /\ RowsFit' /\ BatchIsFull'
    BY <1>0, <2>1 DEF AgentFits, RowsFit, BatchIsFull
  <2>4. /\ \A b : AdvantagesOf(e, k, b)' = AdvantagesOf(e, k, b)
        /\ Baselines(e, k)' = Baselines(e, k)
    BY <2>1, AdvantagesOfRows DEF Baselines, Group
  <2>5. AdvantagesAreCurrent'
    BY <2>1, <2>2, <2>4 DEF AdvantagesAreCurrent
  <2> QED  BY <2>3, <2>5 DEF IInv
<1>8. CASE UNCHANGED vars
  <2>1. UNCHANGED <<rows, order, dp, n, est, adv>> /\ UNCHANGED agent
    BY <1>8 DEF vars
  <2>2. AgentFits'
    BY <1>0, <2>1 DEF AgentFits
  <2> QED  BY <1>1, <2>1, <2>2
<1> QED  BY <1>2, <1>3, <1>4, <1>5, <1>6, <1>7, <1>8 DEF Next

LEMMA Invariance == Spec => []IInv
<1> QED  BY InitInv, StepInv, PTL DEF Spec

-----------------------------------------------------------------------------
(* What the sums over a row come to *)

LEMMA RowColumns ==
  ASSUME RowsFit, NEW i \in 1..Len(rows)
  PROVE  /\ rows[i].ids \in [Positions -> {"prompt", "policy", "tool", "eos", "pad"}]
         /\ rows[i].attention \in [Positions -> 0..1]
         /\ rows[i].mask \in [Positions -> 0..1]
         /\ rows[i].logprobs \in [Positions -> Marks] \cup {<<>>}
         /\ rows[i].score \in 0..1
         /\ RowAligned(rows[i])
<1>1. rows[i] \in RowShape
  BY ElementOfSeq DEF RowsFit
<1>2. RowAligned(rows[i])
  BY DEF RowsFit
<1> QED  BY <1>1, <1>2 DEF RowShape

LEMMA PositionsFinite ==
  /\ IsFiniteSet(Positions) /\ Cardinality(Positions) = ResponseLength
  /\ 1 \in Positions
  /\ \A t \in Positions : t \in Nat
<1>1. ResponseLength \in Nat \ {0}
  BY UpdateAssumption
<1>2. ResponseLength \in Int /\ ~ (1 > ResponseLength) /\ ResponseLength - 1 + 1 = ResponseLength
  BY <1>1
<1>3. IsFiniteSet(1..ResponseLength) /\ Cardinality(1..ResponseLength) = ResponseLength
  BY <1>2, FS_Interval
<1> QED  BY <1>1, <1>3 DEF Positions

\* A row is attended from its first column to column Attended, and the tokens of
\* the policy are among the attended ones.
LEMMA AttendedInRow ==
  ASSUME RowsFit, NEW i \in 1..Len(rows)
  PROVE  /\ Attended(i) \in Positions
         /\ \A t \in Positions : rows[i].attention[t] = 1 <=> t <= Attended(i)
         /\ \A t \in Positions : rows[i].mask[t] = 1 => t <= Attended(i)
<1>1. PICK f : f = rows[i].attention
  OBVIOUS
<1>2. f \in [Positions -> 0..1] /\ RowAligned(rows[i])
  BY <1>1, RowColumns
<1>3. PICK len \in 1..ResponseLength : \A t \in Positions : f[t] = 1 <=> t <= len
  BY <1>1, <1>2 DEF RowAligned
<1>4. Attended(i) = SumFunctionOnSet(f, Positions)
  BY <1>1, <1>2 DEF Attended, SumFunction
<1>5. \A x \in Positions : f[x] \in 0..1
  BY <1>2
<1>6. SumFunctionOnSet(f, Positions) = Cardinality({x \in Positions : f[x] = 1})
  BY <1>5, PositionsFinite, SumCounts
<1>7. {x \in Positions : f[x] = 1} = 1..len
  BY <1>3, UpdateAssumption DEF Positions
<1>8. Cardinality(1..len) = len
  <2>1. 1 \in Int /\ len \in Int /\ ~ (1 > len) /\ len - 1 + 1 = len
    BY <1>3, UpdateAssumption
  <2> QED  BY <2>1, FS_Interval
<1>9. Attended(i) = len /\ len \in Positions
  BY <1>3, <1>4, <1>6, <1>7, <1>8 DEF Positions
<1>10. \A t \in Positions : rows[i].mask[t] = 1 => rows[i].attention[t] = 1
  BY <1>2 DEF RowAligned
<1> QED  BY <1>1, <1>3, <1>9, <1>10

\* The token rewards of a row add up to its score.
LEMMA ScoreOfRow ==
  ASSUME RowsFit, NEW i \in 1..Len(rows)
  PROVE  Score(i) = rows[i].score /\ Score(i) \in 0..1
<1> DEFINE f == [t \in Positions |-> TokenReward(i, t)]
           e == Attended(i)
<1>1. e \in Positions /\ e # 0
  BY AttendedInRow, PositionsFinite DEF Positions
<1>2. rows[i].score \in 0..1
  BY RowColumns
<1>3. f[e] = rows[i].score /\ f[e] \in Int
  BY <1>1, <1>2 DEF TokenReward
<1>4. \A x \in Positions : x # e => f[x] = 0
  BY <1>1 DEF TokenReward
<1>5. Score(i) = SumFunctionOnSet(f, Positions)
  BY DEF Score, SumFunction
<1> HIDE DEF f, e
<1>6. SumFunctionOnSet(f, Positions) = f[e]
  BY <1>1, <1>3, <1>4, PositionsFinite, SumOfOne
<1> QED  BY <1>2, <1>3, <1>5, <1>6

LEMMA TokensOfRow ==
  ASSUME RowsFit, NEW i \in 1..Len(rows)
  PROVE  /\ Tokens(i) \in Nat
         /\ \A t \in Positions : rows[i].mask[t] = 1 => Tokens(i) >= 1
<1> DEFINE f == rows[i].mask
<1>1. f \in [Positions -> 0..1]
  BY RowColumns
<1>2. Tokens(i) = SumFunctionOnSet(f, Positions)
  BY <1>1 DEF Tokens, SumFunction
<1> HIDE DEF f
<1>3. \A x \in Positions : f[x] \in Nat
  BY <1>1
<1>4. /\ SumFunctionOnSet(f, Positions) \in Nat
      /\ \A x \in Positions : f[x] <= SumFunctionOnSet(f, Positions)
  BY <1>3, PositionsFinite, SumOfNaturals
<1> QED  BY <1>2, <1>4 DEF f

\* RowIsAligned: for every response length, length of the turns and course of the
\* episodes, a row's response holds no token of the prompt, the columns of a row
\* belong to the same tokens, and the score has a place to go; where the engine
\* returns log-probabilities, every row has them.
THEOREM RowsAreAligned == Spec => []RowIsAligned
<1>1. IInv => RowIsAligned
  <2> SUFFICES ASSUME IInv, NEW i \in DOMAIN rows
               PROVE  /\ Attended(i) > 0
                      /\ CalculateLogProbs => rows[i].logprobs # <<>>
                      /\ \A t \in Positions :
                           /\ rows[i].ids[t] # "prompt"
                           /\ rows[i].attention[t] = 1 <=> rows[i].ids[t] # "pad"
                           /\ rows[i].logprobs # <<>> =>
                                (rows[i].ids[t] = "policy" <=> rows[i].logprobs[t] = "policy")
                           /\ rows[i].mask[t] = 1 => rows[i].ids[t] = "policy"
    BY DEF RowIsAligned
  <2>1. RowsFit /\ i \in 1..Len(rows)
    BY LenProperties DEF IInv, RowsFit
  <2>2. RowAligned(rows[i])
    BY <2>1, RowColumns
  <2>3. Attended(i) > 0
    BY <2>1, AttendedInRow DEF Positions
  <2> QED  BY <2>2, <2>3 DEF RowAligned
<1> QED  BY <1>1, Invariance, PTL

-----------------------------------------------------------------------------
(* Fractions that are ordered as two scores are *)

IsFrac(a) == a = <<a[1], a[2]>> /\ a[1] \in Int /\ a[2] \in Int

\* The fractions a and b have a positive denominator in common, and are ordered
\* as s and u.
Ordered(a, b, s, u) ==
  /\ IsFrac(a) /\ IsFrac(b)
  /\ a[2] = b[2] /\ a[2] > 0
  /\ a[1] < b[1] <=> s < u
  /\ a[1] = b[1] <=> s = u

LEMMA TimesOrder ==
  ASSUME NEW x \in Int, NEW y \in Int, NEW d \in Int, d > 0
  PROVE  /\ x * d < y * d <=> x < y
         /\ x * d = y * d <=> x = y
<1>1. ASSUME NEW v \in Int, NEW w \in Int, v < w PROVE v * d < w * d
  <2>1. w - v > 0 /\ w - v \in Int
    BY <1>1
  <2>2. (w - v) * d > 0
    BY <2>1
  <2>3. (w - v) * d = w * d - v * d /\ w * d \in Int /\ v * d \in Int
    OBVIOUS
  <2> QED  BY <2>2, <2>3
<1>2. x < y => x * d < y * d
  BY <1>1
<1>3. y < x => y * d < x * d
  BY <1>1
<1>4. x * d \in Int /\ y * d \in Int
  OBVIOUS
<1>5. x < y \/ y < x \/ x = y
  OBVIOUS
<1> QED  BY <1>2, <1>3, <1>4, <1>5

LEMMA PositiveTimes ==
  ASSUME NEW x \in Int, NEW y \in Int, x > 0, y > 0
  PROVE  x * y > 0 /\ x * y \in Int
OBVIOUS

LEMMA FracIsFrac ==
  ASSUME NEW x \in Int, NEW y \in Int
  PROVE  IsFrac(Frac(x, y)) /\ Frac(x, y)[1] = x /\ Frac(x, y)[2] = y
BY DEF IsFrac, Frac

LEMMA MinusIsFrac ==
  ASSUME NEW a, NEW b, IsFrac(a), IsFrac(b)
  PROVE  /\ IsFrac(Minus(a, b))
         /\ Minus(a, b)[1] = a[1] * b[2] - b[1] * a[2]
         /\ Minus(a, b)[2] = a[2] * b[2]
BY DEF IsFrac, Minus

LEMMA TimesIsFrac ==
  ASSUME NEW a, NEW b, IsFrac(a), IsFrac(b)
  PROVE  /\ IsFrac(Times(a, b))
         /\ Times(a, b)[1] = a[1] * b[1]
         /\ Times(a, b)[2] = a[2] * b[2]
BY DEF IsFrac, Times

\* The order of integers, over a common denominator.
LEMMA OrderOfFracs ==
  ASSUME NEW x \in Int, NEW y \in Int, NEW d \in Int, d > 0, NEW s, NEW u,
         x < y <=> s < u, x = y <=> s = u
  PROVE  Ordered(Frac(x, d), Frac(y, d), s, u)
BY FracIsFrac DEF Ordered

\* The same number is taken from both.
LEMMA MinusKeepsOrder ==
  ASSUME NEW a, NEW b, NEW s, NEW u, Ordered(a, b, s, u), NEW f, IsFrac(f), f[2] > 0
  PROVE  Ordered(Minus(a, f), Minus(b, f), s, u)
<1>0. IsFrac(a) /\ IsFrac(b) /\ a[2] = b[2] /\ a[2] > 0
  BY DEF Ordered
<1>1. PICK x : x = a[1]
  OBVIOUS
<1>2. PICK y : y = b[1]
  OBVIOUS
<1>3. PICK d : d = a[2]
  OBVIOUS
<1>4. PICK p : p = f[1]
  OBVIOUS
<1>5. PICK q : q = f[2]
  OBVIOUS
<1>6. x \in Int /\ y \in Int /\ d \in Int /\ p \in Int /\ q \in Int /\ d > 0 /\ q > 0
  BY <1>0, <1>1, <1>2, <1>3, <1>4, <1>5 DEF IsFrac
<1>7. (x < y <=> s < u) /\ (x = y <=> s = u)
  BY <1>1, <1>2 DEF Ordered
<1>8. /\ x * q < y * q <=> x < y
      /\ x * q = y * q <=> x = y
  BY <1>6, TimesOrder
<1>9. /\ x * q - p * d < y * q - p * d <=> x * q < y * q
      /\ x * q - p * d = y * q - p * d <=> x * q = y * q
  <2>1. PICK v : v = x * q
    OBVIOUS
  <2>2. PICK w : w = y * q
    OBVIOUS
  <2>3. PICK z : z = p * d
    OBVIOUS
  <2>4. v \in Int /\ w \in Int /\ z \in Int
    BY <2>1, <2>2, <2>3, <1>6
  <2>5. (v - z < w - z <=> v < w) /\ (v - z = w - z <=> v = w)
    BY <2>4
  <2> QED  BY <2>5, <2>1, <2>2, <2>3
<1>10. d * q > 0 /\ d * q \in Int
  BY <1>6, PositiveTimes
<1>11. /\ IsFrac(Minus(a, f)) /\ Minus(a, f)[1] = x * q - p * d /\ Minus(a, f)[2] = d * q
       /\ IsFrac(Minus(b, f)) /\ Minus(b, f)[1] = y * q - p * d /\ Minus(b, f)[2] = d * q
  BY <1>0, <1>1, <1>2, <1>3, <1>4, <1>5, MinusIsFrac
<1> QED  BY <1>7, <1>8, <1>9, <1>10, <1>11 DEF Ordered

\* Both are multiplied by the same positive number.
LEMMA TimesKeepsOrder ==
  ASSUME NEW a, NEW b, NEW s, NEW u, Ordered(a, b, s, u), NEW f, IsFrac(f), f[1] > 0, f[2] > 0
  PROVE  Ordered(Times(f, a), Times(f, b), s, u)
<1>0. IsFrac(a) /\ IsFrac(b) /\ a[2] = b[2] /\ a[2] > 0
  BY DEF Ordered
<1>1. PICK x : x = a[1]
  OBVIOUS
<1>2. PICK y : y = b[1]
  OBVIOUS
<1>3. PICK d : d = a[2]
  OBVIOUS
<1>4. PICK p : p = f[1]
  OBVIOUS
<1>5. PICK q : q = f[2]
  OBVIOUS
<1>6. x \in Int /\ y \in Int /\ d \in Int /\ p \in Int /\ q \in Int /\ d > 0 /\ q > 0 /\ p > 0
  BY <1>0, <1>1, <1>2, <1>3, <1>4, <1>5 DEF IsFrac
<1>7. (x < y <=> s < u) /\ (x = y <=> s = u)
  BY <1>1, <1>2 DEF Ordered
<1>8. /\ x * p < y * p <=> x < y
      /\ x * p = y * p <=> x = y
  BY <1>6, TimesOrder
<1>9. p * x = x * p /\ p * y = y * p
  BY <1>6
<1>10. q * d > 0 /\ q * d \in Int
  BY <1>6, PositiveTimes
<1>11. /\ IsFrac(Times(f, a)) /\ Times(f, a)[1] = p * x /\ Times(f, a)[2] = q * d
       /\ IsFrac(Times(f, b)) /\ Times(f, b)[1] = p * y /\ Times(f, b)[2] = q * d
  BY <1>0, <1>1, <1>2, <1>3, <1>4, <1>5, TimesIsFrac
<1> QED  BY <1>7, <1>8, <1>9, <1>10, <1>11 DEF Ordered

\* Multiplied by a mask that is set.
LEMMA UnitKeepsOrder ==
  ASSUME NEW a, NEW b, NEW s, NEW u, Ordered(a, b, s, u)
  PROVE  Ordered(Times(a, Frac(1, 1)), Times(b, Frac(1, 1)), s, u)
<1>1. ASSUME NEW c, IsFrac(c) PROVE Times(c, Frac(1, 1)) = c
  <2>1. PICK x, d : x = c[1] /\ d = c[2]
    OBVIOUS
  <2>2. c = <<x, d>> /\ x \in Int /\ d \in Int
    BY <1>1, <2>1 DEF IsFrac
  <2>3. Times(c, Frac(1, 1)) = <<x * 1, d * 1>>
    BY <2>1 DEF Times, Frac
  <2> QED  BY <2>2, <2>3
<1> QED  BY <1>1 DEF Ordered

\* The order of fractions that have their denominator in common.
LEMMA OrderedIsCompared ==
  ASSUME NEW a, NEW b, NEW s, NEW u, Ordered(a, b, s, u)
  PROVE  /\ s < u <=> Less(a, b)
         /\ s = u <=> Same(a, b)
<1>1. PICK x, y, d : x = a[1] /\ y = b[1] /\ d = a[2]
  OBVIOUS
<1>2. /\ x \in Int /\ y \in Int /\ d \in Int /\ d > 0 /\ b[2] = d
      /\ x < y <=> s < u
      /\ x = y <=> s = u
  BY <1>1 DEF Ordered, IsFrac
<1>3. d * d > 0
  BY <1>2, PositiveTimes
<1>4. (x * d < y * d <=> x < y) /\ (x * d = y * d <=> x = y)
  BY <1>2, TimesOrder
<1>5. (Less(a, b) <=> d * d > 0 /\ x * d < y * d) /\ (Same(a, b) <=> d * d > 0 /\ x * d = y * d)
  BY <1>1, <1>2 DEF Less, Same
<1> QED  BY <1>2, <1>3, <1>4, <1>5

-----------------------------------------------------------------------------
(* Groups *)

LEMMA GroupFacts ==
  ASSUME NEW k \in GroupSizes, NEW i \in Rollouts
  PROVE  /\ k \in Nat \ {0}
         /\ Group(k, i) \subseteq Rollouts
         /\ IsFiniteSet(Group(k, i))
         /\ i \in Group(k, i)
         /\ \A j \in Group(k, i) : Group(k, j) = Group(k, i)
         /\ k = 1 => \A j \in Group(k, i) : j = i
<1>1. k \in Nat \ {0} /\ NumRollouts \in Nat
  BY UpdateAssumption
<1>2. IsFiniteSet(Rollouts)
  BY <1>1, FS_Interval DEF Rollouts
<1>3. Group(k, i) \subseteq Rollouts /\ IsFiniteSet(Group(k, i))
  BY <1>2, FS_Subset DEF Group
<1>4. ASSUME k = 1, NEW j \in Group(k, i) PROVE j = i
  <2>1. j \in Nat /\ i \in Nat /\ (j - 1) \div 1 = (i - 1) \div 1
    BY <1>3, <1>4 DEF Group, Rollouts
  <2>2. \A x \in Int : x \div 1 = x
    OBVIOUS
  <2>3. (j - 1) \div 1 = j - 1 /\ (i - 1) \div 1 = i - 1
    BY <2>1, <2>2
  <2> QED  BY <2>1, <2>3
<1> QED  BY <1>1, <1>3, <1>4 DEF Group

\* A group of several has a second member.
LEMMA GroupOfSeveral ==
  ASSUME NEW k \in GroupSizes, k > 1, NEW i \in Rollouts, NEW b
  PROVE  Group(k, i) \ {b} # {}
<1>1. k \in Nat \ {0} /\ NumRollouts \in Nat \ {0} /\ NumRollouts % k = 0
  BY UpdateAssumption
<1>2. PICK q : q = (i - 1) \div k
  OBVIOUS
<1>3. PICK m : m = NumRollouts \div k
  OBVIOUS
<1>4. /\ q \in Int /\ k * q <= i - 1 /\ i - 1 < k * q + k
      /\ m \in Int /\ NumRollouts = k * m
  BY <1>1, <1>2, <1>3 DEF Rollouts
<1>5. q >= 0 /\ q + 1 <= m
  <2>1. CASE q < 0
    <3>1. k * (q + 1) <= 0
      BY <2>1, <1>4, <1>1
    <3>2. k * (q + 1) = k * q + k
      BY <1>4, <1>1
    <3> QED  BY <3>1, <3>2, <1>4, <1>1 DEF Rollouts
  <2>2. CASE q >= m
    <3>1. k * q >= k * m
      <4>1. k * (q - m) >= 0
        BY <2>2, <1>4, <1>1
      <4>2. k * (q - m) = k * q - k * m
        BY <1>4, <1>1
      <4> QED  BY <4>1, <4>2, <1>4, <1>1
    <3> QED  BY <3>1, <1>4, <1>1 DEF Rollouts
  <2> QED  BY <2>1, <2>2, <1>4
<1>6. k * q >= 0 /\ k * q + k <= NumRollouts
  <2>1. k * (m - q - 1) >= 0 /\ k * q >= 0
    BY <1>1, <1>4, <1>5
  <2>2. k * (m - q - 1) = k * m - k * q - k
    BY <1>1, <1>4
  <2> QED  BY <2>1, <2>2, <1>4, <1>1
<1>7. PICK z : z = k * q
  OBVIOUS
<1>8. z \in Int
  BY <1>7, <1>1, <1>4
<1>9. \A r \in 0..(k - 1) : (z + r) \div k = q
  BY <1>7, <1>1, <1>4
<1>10. z \div k = q /\ (z + 1) \div k = q
  <2>1. 0 \in 0..(k - 1) /\ 1 \in 0..(k - 1) /\ z + 0 = z
    BY <1>1, <1>8
  <2> QED  BY <2>1, <1>9
<1>11. z + 1 \in Rollouts /\ z + 2 \in Rollouts
  BY <1>1, <1>6, <1>7, <1>8 DEF Rollouts
<1>12. z + 1 - 1 = z /\ z + 2 - 1 = z + 1 /\ z + 1 # z + 2
  BY <1>8
<1>13. z + 1 \in Group(k, i) /\ z + 2 \in Group(k, i)
  <2>1. PICK x : x = z + 1
    OBVIOUS
  <2>2. PICK y : y = z + 2
    OBVIOUS
  <2>3. x - 1 = z /\ y - 1 = z + 1
    BY <2>1, <2>2, <1>8
  <2>4. (x - 1) \div k = q /\ (y - 1) \div k = q
    BY <2>3, <1>10
  <2>5. \A l \in Rollouts : (l - 1) \div k = q => l \in Group(k, i)
    BY <1>2 DEF Group
  <2>6. x \in Rollouts /\ y \in Rollouts
    BY <2>1, <2>2, <1>11
  <2>7. x \in Group(k, i) /\ y \in Group(k, i)
    BY <2>4, <2>5, <2>6
  <2> QED  BY <2>1, <2>2, <2>7
<1> QED  BY <1>12, <1>13

-----------------------------------------------------------------------------
(* The outcome estimators *)

LEMMA FullBatch ==
  ASSUME RowsFit, Len(rows) = NumRollouts, NEW i \in Rollouts
  PROVE  /\ Score(i) = rows[i].score /\ Score(i) \in 0..1 /\ Score(i) \in Int
         /\ Tokens(i) \in Nat /\ Tokens(i) \in Int
         /\ \A t \in Positions : rows[i].mask[t] \in 0..1
         /\ \A t \in Positions : rows[i].mask[t] = 1 => Tokens(i) > 0
<1>1. i \in 1..Len(rows)
  BY DEF Rollouts
<1>2. Score(i) = rows[i].score /\ Score(i) \in 0..1
  BY <1>1, ScoreOfRow
<1>3. Tokens(i) \in Nat /\ \A t \in Positions : rows[i].mask[t] = 1 => Tokens(i) >= 1
  BY <1>1, TokensOfRow
<1>4. \A t \in Positions : rows[i].mask[t] \in 0..1
  BY <1>1, RowColumns
<1> QED  BY <1>2, <1>3, <1>4

\* The policy tokens of a set of rollouts: no fewer than those of a member.
LEMMA TokensOfSet ==
  ASSUME RowsFit, Len(rows) = NumRollouts, NEW S \in SUBSET Rollouts, IsFiniteSet(S)
  PROVE  /\ TokensOf(S) \in Nat
         /\ \A j \in S : Tokens(j) <= TokensOf(S)
<1> DEFINE f == [j \in Rollouts |-> Tokens(j)]
<1>1. \A j \in S : f[j] = Tokens(j) /\ f[j] \in Nat
  BY FullBatch
<1>2. TokensOf(S) = SumFunctionOnSet(f, S)
  BY DEF TokensOf
<1> HIDE DEF f
<1>3. SumFunctionOnSet(f, S) \in Nat /\ \A x \in S : f[x] <= SumFunctionOnSet(f, S)
  BY <1>1, SumOfNaturals
<1> QED  BY <1>1, <1>2, <1>3

LEMMA GroupScoreIsInt ==
  ASSUME RowsFit, Len(rows) = NumRollouts, NEW k \in GroupSizes, NEW i \in Rollouts
  PROVE  GroupScore(k, i) \in Int
<1> DEFINE f == [j \in Rollouts |-> Score(j)]
<1>1. \A j \in Group(k, i) : f[j] \in Int
  BY GroupFacts, FullBatch
<1>2. GroupScore(k, i) = SumFunctionOnSet(f, Group(k, i))
  BY DEF GroupScore
<1> HIDE DEF f
<1> QED  BY <1>1, <1>2, GroupFacts, SumType

\* The two weighted sums, of whatever integer factors.
LEMMA WeightedIsInt ==
  ASSUME NEW S \in SUBSET Rollouts, IsFiniteSet(S), NEW f, \A j \in S : f[j] \in Int
  PROVE  SumFunctionOnSet(f, S) \in Int
BY SumType

LEMMA MeanIsFrac ==
  ASSUME RowsFit, Len(rows) = NumRollouts, NEW k \in GroupSizes, NEW i \in Rollouts
  PROVE  /\ IsFrac(Mean(k, i)) /\ Mean(k, i)[2] = k
         /\ \A j \in Group(k, i) : Mean(k, j) = Mean(k, i)
<1>1. GroupScore(k, i) \in Int /\ k \in Int
  BY GroupScoreIsInt, GroupFacts
<1>2. ASSUME NEW j \in Group(k, i) PROVE Mean(k, j) = Mean(k, i)
  <2>1. Group(k, j) = Group(k, i)
    BY GroupFacts
  <2> QED  BY <2>1 DEF Mean, GroupScore
<1> QED  BY <1>1, <1>2, FracIsFrac DEF Mean

LEMMA ScoreIsFrac ==
  ASSUME RowsFit, Len(rows) = NumRollouts, NEW i \in Rollouts, NEW j \in Rollouts
  PROVE  /\ IsFrac(Frac(Score(i), 1))
         /\ Ordered(Frac(Score(j), 1), Frac(Score(i), 1), rows[j].score, rows[i].score)
<1>1. /\ Score(i) \in Int /\ Score(j) \in Int
      /\ Score(i) = rows[i].score /\ Score(j) = rows[j].score
  BY FullBatch
<1>2. 1 \in Int /\ 1 > 0
  OBVIOUS
<1>3. /\ Score(j) < Score(i) <=> rows[j].score < rows[i].score
      /\ Score(j) = Score(i) <=> rows[j].score = rows[i].score
  BY <1>1
<1>4. IsFrac(Frac(Score(i), 1))
  BY <1>1, <1>2, FracIsFrac
<1>5. Ordered(Frac(Score(j), 1), Frac(Score(i), 1), rows[j].score, rows[i].score)
  BY <1>1, <1>2, <1>3, OrderOfFracs
<1> QED  BY <1>4, <1>5

LEMMA CentredIsOrdered ==
  ASSUME RowsFit, Len(rows) = NumRollouts, NEW k \in GroupSizes, NEW i \in Rollouts,
         NEW j \in Group(k, i)
  PROVE  /\ IsFrac(BaselineCentred(k, i))
         /\ Ordered(BaselineCentred(k, j), BaselineCentred(k, i), rows[j].score, rows[i].score)
<1>1. j \in Rollouts /\ k \in Nat \ {0}
  BY GroupFacts
<1>2. /\ IsFrac(Frac(Score(i), 1))
      /\ Ordered(Frac(Score(j), 1), Frac(Score(i), 1), rows[j].score, rows[i].score)
  BY <1>1, ScoreIsFrac
<1>3. IsFrac(Mean(k, i)) /\ Mean(k, i)[2] > 0 /\ Mean(k, j) = Mean(k, i)
  BY <1>1, MeanIsFrac
<1>4. /\ IsFrac(Minus(Frac(Score(i), 1), Mean(k, i)))
      /\ Ordered(Minus(Frac(Score(j), 1), Mean(k, i)), Minus(Frac(Score(i), 1), Mean(k, i)),
                 rows[j].score, rows[i].score)
  BY <1>2, <1>3, MinusKeepsOrder DEF Ordered
<1>5. CASE k = 1
  BY <1>5, <1>2 DEF BaselineCentred
<1>6. CASE k # 1
  BY <1>6, <1>3, <1>4 DEF BaselineCentred
<1> QED  BY <1>5, <1>6

\* Each estimator yields a fraction, whose numerator is an integer, and orders
\* the rollouts of a group by their scores.

LEMMA GrpoVectorizedIsOrdered ==
  ASSUME RowsFit, Len(rows) = NumRollouts, NEW k \in GroupSizes, NEW i \in Rollouts,
         NEW j \in Group(k, i)
  PROVE  /\ IsFrac(GrpoVectorized(k, i))
         /\ Ordered(GrpoVectorized(k, j), GrpoVectorized(k, i), rows[j].score, rows[i].score)
<1>1. j \in Rollouts /\ k \in Nat \ {0}
  BY GroupFacts
<1>2. /\ IsFrac(Frac(Score(i), 1))
      /\ Ordered(Frac(Score(j), 1), Frac(Score(i), 1), rows[j].score, rows[i].score)
  BY <1>1, ScoreIsFrac
<1>3. IsFrac(Mean(k, i)) /\ Mean(k, i)[2] > 0 /\ Mean(k, j) = Mean(k, i)
  BY <1>1, MeanIsFrac
<1>4. Ordered(Minus(Frac(Score(j), 1), Mean(k, i)), Minus(Frac(Score(i), 1), Mean(k, i)),
              rows[j].score, rows[i].score)
  BY <1>2, <1>3, MinusKeepsOrder
<1> QED  BY <1>3, <1>4 DEF GrpoVectorized, Ordered

LEMMA ReinforcePlusPlusBaselineIsOrdered ==
  ASSUME RowsFit, Len(rows) = NumRollouts, NEW k \in GroupSizes, NEW i \in Rollouts
  PROVE  /\ IsFrac(ReinforcePlusPlusBaseline(k, i))
         /\ \A j \in Group(k, i) : Tokens(i) > 0 =>
              Ordered(ReinforcePlusPlusBaseline(k, j), ReinforcePlusPlusBaseline(k, i),
                      rows[j].score, rows[i].score)
<1> DEFINE f == [j \in Rollouts |->
                   (k * Score(j) - (IF k = 1 THEN 0 ELSE GroupScore(k, j))) * Tokens(j)]
           W == SumFunctionOnSet(f, Rollouts)
           m == Frac(W, k * TokensOf(Rollouts))
<1>1. k \in Nat \ {0} /\ k \in Int /\ IsFiniteSet(Rollouts) /\ Rollouts \in SUBSET Rollouts
  BY GroupFacts, FS_Interval, UpdateAssumption DEF Rollouts
<1>2. \A j : ReinforcePlusPlusBaseline(k, j) = Minus(BaselineCentred(k, j), m)
  BY DEF ReinforcePlusPlusBaseline, SumFunction
<1>3. W \in Int
  <2>1. ASSUME NEW j \in Rollouts PROVE f[j] \in Int
    <3>1. PICK g : g = IF k = 1 THEN 0 ELSE GroupScore(k, j)
      OBVIOUS
    <3>2. g \in Int /\ Score(j) \in Int /\ Tokens(j) \in Int
      BY <3>1, GroupScoreIsInt, FullBatch
    <3>3. k * Score(j) \in Int
      BY <3>2, <1>1
    <3>4. k * Score(j) - g \in Int
      BY <3>2, <3>3
    <3>5. (k * Score(j) - g) * Tokens(j) \in Int
      BY <3>2, <3>4
    <3> QED  BY <3>1, <3>5
  <2> HIDE DEF f
  <2> QED  BY <2>1, <1>1, WeightedIsInt
<1>4. TokensOf(Rollouts) \in Nat /\ \A j \in Rollouts : Tokens(j) <= TokensOf(Rollouts)
  BY <1>1, TokensOfSet
<1> HIDE DEF W
<1>5. k * TokensOf(Rollouts) \in Int
  BY <1>1, <1>4
<1>6. IsFrac(m) /\ m[2] = k * TokensOf(Rollouts)
  BY <1>3, <1>5, FracIsFrac
<1> HIDE DEF m
<1>7. ASSUME NEW j \in Group(k, i), Tokens(i) > 0
      PROVE  Ordered(ReinforcePlusPlusBaseline(k, j), ReinforcePlusPlusBaseline(k, i),
                     rows[j].score, rows[i].score)
  <2>1. Ordered(BaselineCentred(k, j), BaselineCentred(k, i), rows[j].score, rows[i].score)
    BY CentredIsOrdered
  <2>2. TokensOf(Rollouts) > 0
    BY <1>4, <1>7, FullBatch
  <2>3. m[2] > 0
    BY <1>1, <1>4, <1>6, <2>2, PositiveTimes
  <2>4. Ordered(Minus(BaselineCentred(k, j), m), Minus(BaselineCentred(k, i), m),
                rows[j].score, rows[i].score)
    BY <2>1, <2>3, <1>6, MinusKeepsOrder
  <2> QED  BY <2>4, <1>2
<1>8. IsFrac(ReinforcePlusPlusBaseline(k, i))
  <2>1. IsFrac(BaselineCentred(k, i))
    BY GroupFacts, CentredIsOrdered
  <2>2. IsFrac(Minus(BaselineCentred(k, i), m))
    BY <2>1, <1>6, MinusIsFrac
  <2> QED  BY <2>2, <1>2
<1> QED  BY <1>7, <1>8

LEMMA RlooIsOrdered ==
  ASSUME RowsFit, Len(rows) = NumRollouts, NEW k \in GroupSizes, NEW i \in Rollouts,
         NEW j \in Group(k, i)
  PROVE  /\ IsFrac(Rloo(k, i))
         /\ Ordered(Rloo(k, j), Rloo(k, i), rows[j].score, rows[i].score)
<1>1. j \in Rollouts /\ k \in Nat \ {0} /\ k \in Int
  BY GroupFacts
<1>2. CASE k = 1
  <2>1. /\ IsFrac(Frac(Score(i), 1))
        /\ Ordered(Frac(Score(j), 1), Frac(Score(i), 1), rows[j].score, rows[i].score)
    BY <1>1, ScoreIsFrac
  <2> QED  BY <1>2, <2>1 DEF Rloo
<1>3. CASE k # 1
  <2>1. PICK h : h = k - 1
    OBVIOUS
  <2>2. h \in Int /\ h > 0 /\ k > 0
    BY <1>1, <1>3, <2>1
  <2>3. /\ Score(i) \in Int /\ Score(j) \in Int
        /\ Score(i) = rows[i].score /\ Score(j) = rows[j].score
    BY <1>1, FullBatch
  <2>4. /\ Score(i) * k \in Int /\ Score(j) * k \in Int
        /\ Score(j) * k < Score(i) * k <=> rows[j].score < rows[i].score
        /\ Score(j) * k = Score(i) * k <=> rows[j].score = rows[i].score
    <3>1. /\ Score(j) * k < Score(i) * k <=> Score(j) < Score(i)
          /\ Score(j) * k = Score(i) * k <=> Score(j) = Score(i)
      BY <1>1, <2>2, <2>3, TimesOrder
    <3>2. Score(i) * k \in Int /\ Score(j) * k \in Int
      BY <1>1, <2>3
    <3> QED  BY <3>1, <3>2, <2>3
  <2>5. Ordered(Frac(Score(j) * k, h), Frac(Score(i) * k, h), rows[j].score, rows[i].score)
    <3>1. PICK x : x = Score(j) * k
      OBVIOUS
    <3>2. PICK y : y = Score(i) * k
      OBVIOUS
    <3>3. /\ x \in Int /\ y \in Int /\ (x < y <=> rows[j].score < rows[i].score)
          /\ (x = y <=> rows[j].score = rows[i].score)
      BY <2>4, <3>1, <3>2
    <3>4. Ordered(Frac(x, h), Frac(y, h), rows[j].score, rows[i].score)
      BY <3>3, <2>2, OrderOfFracs
    <3> QED  BY <3>4, <3>1, <3>2
  <2>6. IsFrac(Mean(k, i)) /\ Mean(k, i)[2] = k /\ Mean(k, j) = Mean(k, i)
    BY <1>1, MeanIsFrac
  <2>7. IsFrac(Frac(k, h)) /\ Frac(k, h)[2] = h
    BY <1>1, <2>2, FracIsFrac
  <2>8. PICK m : m = Times(Mean(k, i), Frac(k, h))
    OBVIOUS
  <2>9. IsFrac(m) /\ m[2] > 0
    <3>1. IsFrac(m) /\ m[2] = k * h
      BY <2>6, <2>7, <2>8, TimesIsFrac
    <3>2. k * h > 0
      BY <1>1, <2>2, PositiveTimes
    <3> QED  BY <3>1, <3>2
  <2>10. Ordered(Minus(Frac(Score(j) * k, h), m), Minus(Frac(Score(i) * k, h), m),
                 rows[j].score, rows[i].score)
    BY <2>5, <2>9, MinusKeepsOrder
  <2>11. Rloo(k, i) = Minus(Frac(Score(i) * k, h), m) /\ Rloo(k, j) = Minus(Frac(Score(j) * k, h), m)
    BY <1>3, <2>1, <2>6, <2>8 DEF Rloo
  <2>12. Ordered(Rloo(k, j), Rloo(k, i), rows[j].score, rows[i].score)
    BY <2>10, <2>11
  <2> QED  BY <2>12 DEF Ordered
<1> QED  BY <1>2, <1>3

LEMMA RlooVectorizedIsOrdered ==
  ASSUME RowsFit, Len(rows) = NumRollouts, NEW k \in GroupSizes, NEW i \in Rollouts,
         NEW j \in Group(k, i)
  PROVE  /\ IsFrac(RlooVectorized(k, i))
         /\ Ordered(RlooVectorized(k, j), RlooVectorized(k, i), rows[j].score, rows[i].score)
<1>1. j \in Rollouts /\ k \in Nat \ {0} /\ k \in Int /\ Group(k, j) = Group(k, i)
  BY GroupFacts
<1>2. /\ Score(i) \in Int /\ Score(j) \in Int
      /\ Score(i) = rows[i].score /\ Score(j) = rows[j].score
  BY <1>1, FullBatch
<1>3. CASE k = 1
  <2>1. j = i
    BY <1>3, GroupFacts
  <2>2. PICK s : s = rows[i].score
    OBVIOUS
  <2>3. s \in Int
    BY <1>2, <2>2
  <2>4. 0 \in Int /\ 1 \in Int /\ 1 > 0 /\ (0 < 0 <=> s < s) /\ (0 = 0 <=> s = s)
    BY <2>3
  <2>5. Ordered(Frac(0, 1), Frac(0, 1), s, s)
    BY <2>4, OrderOfFracs
  <2>6. RlooVectorized(k, i) = Frac(0, 1) /\ RlooVectorized(k, j) = Frac(0, 1)
    BY <1>3 DEF RlooVectorized
  <2>7. Ordered(RlooVectorized(k, j), RlooVectorized(k, i), rows[j].score, rows[i].score)
    BY <2>1, <2>2, <2>5, <2>6
  <2> QED  BY <2>7 DEF Ordered
<1>4. CASE k # 1
  <2>1. PICK g : g = GroupScore(k, i)
    OBVIOUS
  <2>2. g \in Int /\ GroupScore(k, j) = g
    BY <2>1, <1>1, GroupScoreIsInt DEF GroupScore
  <2>3. k - 1 \in Int /\ k - 1 > 0 /\ k > 0
    BY <1>1, <1>4
  <2>4. PICK x : x = k * Score(j) - g
    OBVIOUS
  <2>5. PICK y : y = k * Score(i) - g
    OBVIOUS
  <2>6. /\ x \in Int /\ y \in Int
        /\ x < y <=> rows[j].score < rows[i].score
        /\ x = y <=> rows[j].score = rows[i].score
    <3>1. /\ Score(j) * k < Score(i) * k <=> Score(j) < Score(i)
          /\ Score(j) * k = Score(i) * k <=> Score(j) = Score(i)
      BY <1>1, <2>3, <1>2, TimesOrder
    <3>2. Score(i) * k = k * Score(i) /\ Score(j) * k = k * Score(j)
      BY <1>1, <1>2
    <3>3. PICK v : v = k * Score(j)
      OBVIOUS
    <3>4. PICK w : w = k * Score(i)
      OBVIOUS
    <3>5. v \in Int /\ w \in Int /\ (v < w <=> Score(j) < Score(i)) /\ (v = w <=> Score(j) = Score(i))
      BY <3>1, <3>2, <3>3, <3>4, <1>1, <1>2
    <3>6. x = v - g /\ y = w - g
      BY <3>3, <3>4, <2>4, <2>5
    <3> QED  BY <3>5, <3>6, <2>2, <1>2
  <2>7. RlooVectorized(k, i) = Frac(y, k - 1) /\ RlooVectorized(k, j) = Frac(x, k - 1)
    BY <1>4, <2>1, <2>2, <2>4, <2>5 DEF RlooVectorized
  <2>8. Ordered(Frac(x, k - 1), Frac(y, k - 1), rows[j].score, rows[i].score)
    BY <2>3, <2>6, OrderOfFracs
  <2>9. Ordered(RlooVectorized(k, j), RlooVectorized(k, i), rows[j].score, rows[i].score)
    BY <2>7, <2>8
  <2> QED  BY <2>9 DEF Ordered
<1> QED  BY <1>3, <1>4

LEMMA OpoIsOrdered ==
  ASSUME RowsFit, Len(rows) = NumRollouts, NEW k \in GroupSizes, NEW i \in Rollouts
  PROVE  /\ IsFrac(Opo(k, i))
         /\ \A j \in Group(k, i) : Tokens(i) > 0 =>
              Ordered(Opo(k, j), Opo(k, i), rows[j].score, rows[i].score)
<1> DEFINE f == [j \in Rollouts |-> Tokens(j) * Score(j)]
           W == SumFunctionOnSet(f, Group(k, i))
           T == TokensOf(Group(k, i))
           m == Frac(W, T)
<1>1. /\ k \in Nat \ {0} /\ IsFiniteSet(Group(k, i)) /\ Group(k, i) \in SUBSET Rollouts
      /\ i \in Group(k, i)
  BY GroupFacts
<1>2. W \in Int
  <2>1. ASSUME NEW j \in Group(k, i) PROVE f[j] \in Int
    <3>1. j \in Rollouts /\ Tokens(j) \in Int /\ Score(j) \in Int
      BY <1>1, FullBatch
    <3>2. Tokens(j) * Score(j) \in Int
      BY <3>1
    <3> QED  BY <3>1, <3>2
  <2> HIDE DEF f
  <2> QED  BY <2>1, <1>1, WeightedIsInt
<1>3. T \in Nat /\ T \in Int /\ \A j \in Group(k, i) : Tokens(j) <= T
  BY <1>1, TokensOfSet
<1>4. ASSUME k # 1, NEW j \in Group(k, i)
      PROVE  Opo(k, j) = Minus(Frac(Score(j), 1), m)
  <2>1. Group(k, j) = Group(k, i)
    BY GroupFacts
  <2> QED  BY <1>4, <2>1 DEF Opo
<1>5. ASSUME k = 1, NEW j \in Group(k, i)
      PROVE  Opo(k, j) = Frac(Score(j), 1)
  BY <1>5 DEF Opo
<1> HIDE DEF W, T
<1>6. IsFrac(m) /\ m[2] = T
  BY <1>2, <1>3, FracIsFrac
<1> HIDE DEF m
<1>7. IsFrac(Opo(k, i))
  <2>1. IsFrac(Frac(Score(i), 1))
    BY ScoreIsFrac
  <2>2. IsFrac(Minus(Frac(Score(i), 1), m))
    BY <2>1, <1>6, MinusIsFrac
  <2> QED  BY <2>1, <2>2, <1>1, <1>4, <1>5
<1>8. ASSUME NEW j \in Group(k, i), Tokens(i) > 0
      PROVE  Ordered(Opo(k, j), Opo(k, i), rows[j].score, rows[i].score)
  <2>1. Ordered(Frac(Score(j), 1), Frac(Score(i), 1), rows[j].score, rows[i].score)
    BY <1>1, ScoreIsFrac
  <2>2. m[2] > 0
    <3>1. Tokens(i) <= T /\ Tokens(i) \in Int
      BY <1>1, <1>3, FullBatch
    <3> QED  BY <3>1, <1>3, <1>6, <1>8
  <2>3. Ordered(Minus(Frac(Score(j), 1), m), Minus(Frac(Score(i), 1), m),
                rows[j].score, rows[i].score)
    BY <2>1, <2>2, <1>6, MinusKeepsOrder
  <2>4. CASE k = 1
    BY <2>1, <2>4, <1>1, <1>5
  <2>5. CASE k # 1
    BY <2>3, <2>5, <1>1, <1>4
  <2> QED  BY <2>4, <2>5
<1> QED  BY <1>7, <1>8

LEMMA GpgIsOrdered ==
  ASSUME RowsFit, Len(rows) = NumRollouts, NEW k \in GroupSizes, NEW i \in Rollouts,
         NEW j \in Group(k, i)
  PROVE  /\ IsFrac(Gpg(k, i))
         /\ Ordered(Gpg(k, j), Gpg(k, i), rows[j].score, rows[i].score)
<1> DEFINE S == {l \in Rollouts : Score(l) # 0}
           m == Cardinality(S)
           alpha == Frac(NumRollouts, IF m = 0 THEN 1 ELSE m)
<1>1. IsFiniteSet(S)
  <2>1. IsFiniteSet(Rollouts)
    BY FS_Interval, UpdateAssumption DEF Rollouts
  <2> QED  BY <2>1, FS_Subset
<1>2. m \in Nat
  BY <1>1, FS_CardinalityType
<1>3. Gpg(k, i) = Times(alpha, BaselineCentred(k, i)) /\ Gpg(k, j) = Times(alpha, BaselineCentred(k, j))
  BY DEF Gpg
<1> HIDE DEF m
<1>4. PICK d : d = IF m = 0 THEN 1 ELSE m
  OBVIOUS
<1>5. d \in Int /\ d > 0 /\ NumRollouts \in Int /\ NumRollouts > 0
  BY <1>2, <1>4, UpdateAssumption
<1>6. IsFrac(alpha) /\ alpha[1] > 0 /\ alpha[2] > 0
  BY <1>4, <1>5, FracIsFrac
<1> HIDE DEF alpha
<1>7. Ordered(BaselineCentred(k, j), BaselineCentred(k, i), rows[j].score, rows[i].score)
  BY CentredIsOrdered
<1>8. Ordered(Times(alpha, BaselineCentred(k, j)), Times(alpha, BaselineCentred(k, i)),
              rows[j].score, rows[i].score)
  BY <1>6, <1>7, TimesKeepsOrder
<1> QED  BY <1>3, <1>8 DEF Ordered

\* The best of some rollouts whose scores are zero or one.
LEMMA BestExists ==
  ASSUME RowsFit, Len(rows) = NumRollouts, NEW S \in SUBSET Rollouts, S # {}
  PROVE  \E j \in S : \A l \in S : Score(l) <= Score(j)
<1>1. \A l \in S : Score(l) = 0 \/ Score(l) = 1
  BY FullBatch
<1>2. CASE \E j \in S : Score(j) = 1
  <2>1. PICK j \in S : Score(j) = 1
    BY <1>2
  <2>2. \A l \in S : Score(l) <= Score(j)
    BY <2>1, <1>1
  <2> QED  BY <2>2
<1>3. CASE ~ \E j \in S : Score(j) = 1
  BY <1>1, <1>3
<1> QED  BY <1>2, <1>3

\* The lead of pass@k: above zero exactly for a rollout that has no rival.
LEMMA GrpoPasskLead ==
  ASSUME RowsFit, Len(rows) = NumRollouts, NEW k \in GroupSizes, k > 1, NEW i \in Rollouts
  PROVE  /\ IsFrac(GrpoPassk(k, i)) /\ GrpoPassk(k, i)[2] = 1
         /\ GrpoPassk(k, i)[1] > 0 <=>
              \A j \in Group(k, i) \ {i} : rows[j].score < rows[i].score
<1> DEFINE G == Group(k, i)
           best == CHOOSE j \in G : \A l \in G : Score(l) <= Score(j)
           others == G \ {best}
           scores == {Score(l) : l \in others}
           second == Max(scores)
<1>1. G \in SUBSET Rollouts /\ i \in G
  BY GroupFacts
<1>2. \A l \in G : Score(l) = rows[l].score /\ Score(l) \in 0..1 /\ Score(l) \in Int
  BY <1>1, FullBatch
<1>3. \E j \in G : \A l \in G : Score(l) <= Score(j)
  BY <1>1, BestExists
<1>4. GrpoPassk(k, i) = IF i = best THEN Frac(Score(i) - second, 1) ELSE Frac(0, 1)
  BY DEF GrpoPassk
<1> HIDE DEF G
<1>5. best \in G /\ \A l \in G : Score(l) <= Score(best)
  BY <1>3
<1> HIDE DEF best
<1>6. others # {} /\ others \in SUBSET Rollouts
  BY <1>1, GroupOfSeveral DEF G
<1>7. second \in scores /\ \A y \in scores : second >= y
  <2>1. \E j \in others : \A l \in others : Score(l) <= Score(j)
    BY <1>6, BestExists
  <2>2. PICK j \in others : \A l \in others : Score(l) <= Score(j)
    BY <2>1
  <2>3. Score(j) \in scores /\ \A l \in others : Score(j) >= Score(l)
    BY <2>2, <1>2
  <2>4. \A y \in scores : Score(j) >= y
    BY <2>3
  <2> HIDE DEF scores
  <2> QED  BY <2>3, <2>4 DEF Max
<1>8. PICK c \in others : second = Score(c)
  BY <1>7
<1>9. \A l \in others : Score(l) <= Score(c) /\ c \in G /\ c # best
  <2>1. \A l \in others : second >= Score(l)
    BY <1>7
  <2> QED  BY <2>1, <1>8, <1>2
<1> HIDE DEF second
<1>10. CASE i = best
  <2>1. PICK x : x = Score(i) - second
    OBVIOUS
  <2>2. x \in Int /\ GrpoPassk(k, i) = Frac(x, 1)
    BY <1>1, <1>2, <1>4, <1>8, <1>9, <1>10, <2>1
  <2>3. IsFrac(GrpoPassk(k, i)) /\ GrpoPassk(k, i)[2] = 1 /\ GrpoPassk(k, i)[1] = x
    BY <2>2, FracIsFrac
  <2>4. x > 0 <=> Score(c) < Score(i)
    BY <2>1, <1>1, <1>2, <1>8, <1>9
  <2>5. (Score(c) < Score(i)) <=> \A j \in G \ {i} : Score(j) < Score(i)
    <3>1. \A j \in G \ {i} : Score(j) <= Score(c) /\ Score(j) \in Int
      BY <1>9, <1>10, <1>2
    <3>2. c \in G \ {i} /\ Score(c) \in Int /\ Score(i) \in Int
      BY <1>1, <1>2, <1>8, <1>9, <1>10
    <3> QED  BY <3>1, <3>2
  <2>6. (\A j \in G \ {i} : Score(j) < Score(i)) <=> (\A j \in G \ {i} : rows[j].score < rows[i].score)
    BY <1>1, <1>2
  <2> QED  BY <2>3, <2>4, <2>5, <2>6 DEF G
<1>11. CASE i # best
  <2>1. 0 \in Int /\ 1 \in Int /\ ~ (0 > 0)
    OBVIOUS
  <2>2. IsFrac(GrpoPassk(k, i)) /\ GrpoPassk(k, i)[2] = 1 /\ GrpoPassk(k, i)[1] = 0
    BY <1>4, <1>11, <2>1, FracIsFrac
  <2>3. best \in G \ {i} /\ ~ (rows[best].score < rows[i].score)
    <3>1. Score(i) <= Score(best)
      BY <1>1, <1>5
    <3>2. ~ (Score(best) < Score(i))
      BY <3>1, <1>1, <1>2, <1>5
    <3> QED  BY <3>2, <1>1, <1>2, <1>5, <1>11
  <2> QED  BY <2>1, <2>2, <2>3 DEF G
<1> QED  BY <1>10, <1>11

\* The advantage that an estimator gives a row.
LEMMA OutcomeIsFrac ==
  ASSUME RowsFit, Len(rows) = NumRollouts, NEW e \in Estimators, NEW k \in GroupSizes,
         e \notin {"reinforce_plus_plus", "remax"}, e = "grpo_passk" => k > 1, NEW i \in Rollouts
  PROVE  IsFrac(Outcome(e, k, i))
<1>0. i \in Group(k, i)
  BY GroupFacts
<1>1. CASE e = "grpo_vectorized"
  <2>1. Outcome(e, k, i) = GrpoVectorized(k, i)
    BY <1>1 DEF Outcome
  <2> QED  BY <1>0, <2>1, GrpoVectorizedIsOrdered
<1>2. CASE e = "reinforce_plus_plus_baseline"
  <2>1. Outcome(e, k, i) = ReinforcePlusPlusBaseline(k, i)
    BY <1>2 DEF Outcome
  <2> QED  BY <2>1, ReinforcePlusPlusBaselineIsOrdered
<1>3. CASE e = "rloo"
  <2>1. Outcome(e, k, i) = Rloo(k, i)
    BY <1>3 DEF Outcome
  <2> QED  BY <1>0, <2>1, RlooIsOrdered
<1>4. CASE e = "rloo_vectorized"
  <2>1. Outcome(e, k, i) = RlooVectorized(k, i)
    BY <1>4 DEF Outcome
  <2> QED  BY <1>0, <2>1, RlooVectorizedIsOrdered
<1>5. CASE e = "opo"
  <2>1. Outcome(e, k, i) = Opo(k, i)
    BY <1>5 DEF Outcome
  <2> QED  BY <2>1, OpoIsOrdered
<1>6. CASE e = "gpg"
  <2>1. Outcome(e, k, i) = Gpg(k, i)
    BY <1>6 DEF Outcome
  <2> QED  BY <1>0, <2>1, GpgIsOrdered
<1>7. CASE e = "grpo_passk"
  <2>1. Outcome(e, k, i) = GrpoPassk(k, i)
    BY <1>7 DEF Outcome
  <2> QED  BY <1>7, <2>1, GrpoPasskLead
<1> QED  BY <1>1, <1>2, <1>3, <1>4, <1>5, <1>6, <1>7, UpdateAssumption

LEMMA OutcomeIsOrdered ==
  ASSUME RowsFit, Len(rows) = NumRollouts, NEW e \in Estimators, NEW k \in GroupSizes,
         e \notin {"reinforce_plus_plus", "remax", "grpo_passk"},
         NEW i \in Rollouts, NEW j \in Group(k, i), Tokens(i) > 0
  PROVE  Ordered(Outcome(e, k, j), Outcome(e, k, i), rows[j].score, rows[i].score)
<1>1. CASE e = "grpo_vectorized"
  <2>1. \A l : Outcome(e, k, l) = GrpoVectorized(k, l)
    BY <1>1 DEF Outcome
  <2> QED  BY <2>1, GrpoVectorizedIsOrdered
<1>2. CASE e = "reinforce_plus_plus_baseline"
  <2>1. \A l : Outcome(e, k, l) = ReinforcePlusPlusBaseline(k, l)
    BY <1>2 DEF Outcome
  <2> QED  BY <2>1, ReinforcePlusPlusBaselineIsOrdered
<1>3. CASE e = "rloo"
  <2>1. \A l : Outcome(e, k, l) = Rloo(k, l)
    BY <1>3 DEF Outcome
  <2> QED  BY <2>1, RlooIsOrdered
<1>4. CASE e = "rloo_vectorized"
  <2>1. \A l : Outcome(e, k, l) = RlooVectorized(k, l)
    BY <1>4 DEF Outcome
  <2> QED  BY <2>1, RlooVectorizedIsOrdered
<1>5. CASE e = "opo"
  <2>1. \A l : Outcome(e, k, l) = Opo(k, l)
    BY <1>5 DEF Outcome
  <2> QED  BY <2>1, OpoIsOrdered
<1>6. CASE e = "gpg"
  <2>1. \A l : Outcome(e, k, l) = Gpg(k, l)
    BY <1>6 DEF Outcome
  <2> QED  BY <2>1, GpgIsOrdered
<1> QED  BY <1>1, <1>2, <1>3, <1>4, <1>5, <1>6, UpdateAssumption

-----------------------------------------------------------------------------
(* How far the score of a row reaches *)

\* Induction from the last column back.
LEMMA BackwardInduction ==
  ASSUME NEW N \in Nat \ {0}, NEW B, N \in B,
         \A k \in 1..(N - 1) : k + 1 \in B => k \in B
  PROVE  \A k \in 1..N : k \in B
<1> SUFFICES ASSUME NEW k0 \in 1..N, k0 \notin B PROVE FALSE
  OBVIOUS
<1> DEFINE F == {k..N : k \in (1..N) \ B}
<1>1. IsFiniteSet(1..N)
  BY FS_Interval
<1>2. F \in SUBSET SUBSET (1..N) /\ F # {}
  <2>1. \A k \in 1..N : k..N \subseteq 1..N
    OBVIOUS
  <2>2. k0..N \in F
    OBVIOUS
  <2> QED  BY <2>1, <2>2
<1>3. PICK T \in F : \A U \in F : U \subseteq T => U = T
  <2> HIDE DEF F
  <2>1. PICK S, G : S = 1..N /\ G = F
    OBVIOUS
  <2>2. IsFiniteSet(S) /\ G \in SUBSET SUBSET S /\ G # {}
    BY <1>1, <1>2, <2>1
  <2>3. \E T \in G : \A U \in G : U \subseteq T => U = T
    BY <2>2, MinimalSubset
  <2> QED  BY <2>1, <2>3
<1>4. PICK k \in (1..N) \ B : T = k..N
  BY <1>3
<1>5. k # N /\ k \in 1..(N - 1) /\ k + 1 \in 1..N
  BY <1>4
<1>6. k + 1 \notin B
  BY <1>4, <1>5
<1>7. (k + 1)..N \in F
  BY <1>5, <1>6
<1>8. (k + 1)..N \subseteq T /\ k \in T /\ k \notin (k + 1)..N
  BY <1>4, <1>5
<1> QED  BY <1>3, <1>7, <1>8

\* The reward of the last attended token is the score, any other is 0.
LEMMA RewardOfToken ==
  ASSUME RowsFit, Len(rows) = NumRollouts, NEW i \in Rollouts
  PROVE  /\ Attended(i) \in Positions /\ rows[i].score \in Int
         /\ \A t \in Positions : TokenReward(i, t) = IF t = Attended(i) THEN rows[i].score ELSE 0
         /\ \A t \in Positions : rows[i].mask[t] \in {0, 1}
         /\ \A t \in Positions : rows[i].mask[t] = 1 => t <= Attended(i)
<1>1. i \in 1..Len(rows)
  BY DEF Rollouts
<1>2. /\ Attended(i) \in Positions
      /\ \A t \in Positions : rows[i].mask[t] = 1 => t <= Attended(i)
  BY <1>1, AttendedInRow
<1>3. Attended(i) # 0
  BY <1>2 DEF Positions
<1>4. rows[i].score \in 0..1 /\ rows[i].mask \in [Positions -> 0..1]
  BY <1>1, RowColumns
<1> QED  BY <1>2, <1>3, <1>4 DEF TokenReward

\* The recursion of RunningReturn, for the columns from k on.
IsReturn(f, i, k) ==
  f = [t \in k..(ResponseLength + 1) |->
         IF t > ResponseLength THEN 0
         ELSE TokenReward(i, t)
                + (IF t = ResponseLength THEN 0 ELSE f[t + 1] * rows[i].mask[t + 1])]

ReturnStep(i, t, later) ==
  TokenReward(i, t) + (IF t = ResponseLength THEN 0 ELSE later * rows[i].mask[t + 1])

\* The recursion has a solution.
LEMMA ReturnExists ==
  ASSUME NEW i
  PROVE  \E f : IsReturn(f, i, 1)
<1> DEFINE N == ResponseLength + 1
           B == {k \in 1..N : \E f : IsReturn(f, i, k)}
<1>1. ResponseLength \in Nat \ {0} /\ N \in Nat \ {0}
  BY UpdateAssumption
<1>2. N \in B
  <2> DEFINE f == [t \in N..N |-> 0]
  <2>1. \A t \in N..N : t > ResponseLength
    BY <1>1
  <2>2. IsReturn(f, i, N)
    BY <2>1 DEF IsReturn
  <2> QED  BY <1>1, <2>2
<1>3. ASSUME NEW k \in 1..(N - 1), k + 1 \in B PROVE k \in B
  <2>1. PICK f : IsReturn(f, i, k + 1)
    BY <1>3
  <2> DEFINE later == f[k + 1]
             g == [t \in k..N |-> IF t = k THEN ReturnStep(i, k, later) ELSE f[t]]
  <2>2. \A t \in k..N : t # k => t \in (k + 1)..N
    BY <1>1, <1>3
  <2>3. \A t \in k..N : ~ (t > ResponseLength) => t + 1 \in (k + 1)..N /\ t + 1 # k /\ t + 1 \in k..N
    BY <1>1, <1>3
  <2>4. k \in k..N /\ ~ (k > ResponseLength)
    BY <1>1, <1>3
  <2>5. \A t \in (k + 1)..N :
          f[t] = IF t > ResponseLength THEN 0 ELSE ReturnStep(i, t, f[t + 1])
    BY <2>1 DEF IsReturn, ReturnStep
  <2>6. \A t \in k..N : ~ (t > ResponseLength) => g[t + 1] = f[t + 1]
    BY <2>3
  <2>7. ASSUME NEW t \in k..N
        PROVE  g[t] = IF t > ResponseLength THEN 0 ELSE ReturnStep(i, t, g[t + 1])
    <3>1. CASE t = k
      <4>1. g[k] = ReturnStep(i, k, later)
        BY <2>4
      <4>2. g[k + 1] = later
        BY <2>4, <2>6
      <4> HIDE DEF g, later
      <4> QED  BY <3>1, <4>1, <4>2, <2>4
    <3>2. CASE t # k
      <4>1. g[t] = f[t] /\ t \in (k + 1)..N
        BY <3>2, <2>2
      <4>2. ~ (t > ResponseLength) => g[t + 1] = f[t + 1]
        BY <2>6
      <4> HIDE DEF g
      <4> QED  BY <4>1, <4>2, <2>5
    <3> QED  BY <3>1, <3>2
  <2>8. g = [t \in k..N |-> g[t]]
    OBVIOUS
  <2> HIDE DEF g
  <2>9. IsReturn(g, i, k)
    BY <2>7, <2>8 DEF IsReturn, ReturnStep
  <2>10. k \in 1..N
    BY <1>1, <1>3
  <2> QED  BY <2>9, <2>10
<1> HIDE DEF B
<1>4. \A k \in 1..N : k \in B
  <2> HIDE DEF N
  <2> QED  BY <1>1, <1>2, <1>3, BackwardInduction
<1>5. 1 \in 1..N
  BY <1>1
<1> QED  BY <1>4, <1>5 DEF B

\* The running return is the score from the last attended token back to the first
\* column that has a masked one after it.
LEMMA ReturnOfColumn ==
  ASSUME RowsFit, Len(rows) = NumRollouts, NEW i \in Rollouts
  PROVE  \A t \in Positions :
           RunningReturn(i)[t]
             = IF t <= Attended(i) /\ \A u \in (t + 1)..Attended(i) : rows[i].mask[u] = 1
               THEN rows[i].score ELSE 0
<1> DEFINE f == CHOOSE f : IsReturn(f, i, 1)
           N == ResponseLength
<1>1. IsReturn(f, i, 1)
  BY ReturnExists
<1>2. RunningReturn(i) = [t \in Positions |-> f[t]]
  BY DEF RunningReturn, IsReturn
<1> HIDE DEF f
<1>3. N \in Nat \ {0}
  BY UpdateAssumption
<1>4. \A t \in 1..N :
        f[t] = TokenReward(i, t) + (IF t = N THEN 0 ELSE f[t + 1] * rows[i].mask[t + 1])
  BY <1>1, <1>3 DEF IsReturn
<1>5. PICK e, score, m : e = Attended(i) /\ score = rows[i].score /\ m = rows[i].mask
  OBVIOUS
<1>6. /\ e \in 1..N /\ score \in Int
      /\ \A t \in 1..N : TokenReward(i, t) = IF t = e THEN score ELSE 0
      /\ \A t \in 1..N : m[t] \in {0, 1}
  BY <1>5, RewardOfToken DEF Positions
<1> DEFINE reached(t) == t <= e /\ \A u \in (t + 1)..e : m[u] = 1
           B == {k \in 1..N : f[k] = IF reached(k) THEN score ELSE 0}
<1>7. N \in B
  <2>1. f[N] = TokenReward(i, N) + 0
    BY <1>3, <1>4
  <2>2. f[N] = IF N = e THEN score ELSE 0
    BY <2>1, <1>3, <1>6
  <2>3. reached(N) <=> N = e
    BY <1>3, <1>6
  <2> QED  BY <2>2, <2>3, <1>3
<1>8. ASSUME NEW k \in 1..(N - 1), k + 1 \in B PROVE k \in B
  <2>1. k \in 1..N /\ k # N /\ k + 1 \in 1..N
    BY <1>3
  <2>2. f[k] = (IF k = e THEN score ELSE 0) + f[k + 1] * m[k + 1]
    BY <2>1, <1>4, <1>5, <1>6
  <2>3. f[k + 1] = IF reached(k + 1) THEN score ELSE 0
    BY <1>8
  <2>4. f[k + 1] \in Int /\ m[k + 1] \in {0, 1}
    BY <2>1, <2>3, <1>6
  <2>5. CASE k >= e
    <3>1. ~ reached(k + 1) /\ (reached(k) <=> k = e)
      BY <2>5, <2>1, <1>6
    <3>2. f[k + 1] = 0
      BY <2>3, <3>1
    <3>3. f[k + 1] * m[k + 1] = 0
      BY <2>4, <3>2
    <3>4. f[k] = IF k = e THEN score ELSE 0
      BY <2>2, <3>3, <1>6
    <3> QED  BY <2>1, <3>1, <3>4
  <2>6. CASE k < e /\ m[k + 1] = 1
    <3>1. reached(k) <=> reached(k + 1)
      <4>1. (k + 1)..e = {k + 1} \cup (k + 1 + 1)..e /\ k + 1 <= e /\ k <= e
        BY <2>6, <2>1, <1>6
      <4> QED  BY <4>1, <2>6
    <3>2. f[k] = f[k + 1]
      <4>1. f[k + 1] * m[k + 1] = f[k + 1]
        BY <2>4, <2>6
      <4> QED  BY <4>1, <2>2, <2>4, <2>6, <2>1, <1>6
    <3> QED  BY <2>1, <2>3, <3>1, <3>2
  <2>7. CASE k < e /\ m[k + 1] = 0
    <3>1. ~ reached(k)
      <4>1. k + 1 \in (k + 1)..e
        BY <2>7, <2>1, <1>6
      <4> QED  BY <4>1, <2>7
    <3>2. f[k + 1] * m[k + 1] = 0
      BY <2>4, <2>7
    <3>3. f[k] = 0
      BY <3>2, <2>2, <2>7, <2>1, <1>6
    <3> QED  BY <2>1, <3>1, <3>3
  <2> QED  BY <2>4, <2>5, <2>6, <2>7, <2>1, <1>6
<1>9. \A k \in 1..N : k \in B
  <2> HIDE DEF B
  <2> HIDE DEF N
  <2> QED  BY <1>3, <1>7, <1>8, BackwardInduction
<1> QED  BY <1>2, <1>5, <1>9 DEF Positions

LEMMA ReturnIsCredit ==
  ASSUME RowsFit, Len(rows) = NumRollouts, NEW i \in Rollouts, NEW t \in Positions
  PROVE  /\ RunningReturn(i)[t] \in Int
         /\ rows[i].mask[t] = 1 => RunningReturn(i)[t] = Credit("reinforce_plus_plus", i, t)
<1>1. /\ Attended(i) \in Positions /\ rows[i].score \in Int
      /\ rows[i].mask[t] = 1 => t <= Attended(i)
  BY RewardOfToken
<1>2. RunningReturn(i)[t]
        = IF t <= Attended(i) /\ \A u \in (t + 1)..Attended(i) : rows[i].mask[u] = 1
          THEN rows[i].score ELSE 0
  BY ReturnOfColumn
<1>3. ASSUME rows[i].mask[t] = 1
      PROVE  RunningReturn(i)[t] = Credit("reinforce_plus_plus", i, t)
  <2>1. t <= Attended(i) /\ t \in Int /\ Attended(i) \in Int
    BY <1>1, <1>3, PositionsFinite
  <2>2. t..Attended(i) = {t} \cup (t + 1)..Attended(i)
    BY <2>1
  <2>3. (\A u \in t..Attended(i) : rows[i].mask[u] = 1)
          <=> \A u \in (t + 1)..Attended(i) : rows[i].mask[u] = 1
    BY <2>2, <1>3
  <2>4. ScoreReaches("reinforce_plus_plus", i, t)
          <=> \A u \in t..Attended(i) : rows[i].mask[u] = 1
    BY DEF ScoreReaches
  <2> QED  BY <1>2, <2>1, <2>3, <2>4 DEF Credit
<1> QED  BY <1>1, <1>2, <1>3

\* REINFORCE++: the same mean is taken from every return.
LEMMA ReinforcePlusPlusIsOrdered ==
  ASSUME RowsFit, Len(rows) = NumRollouts, NEW i \in Rollouts, NEW t \in Positions
  PROVE  /\ IsFrac(ReinforcePlusPlus(i, t))
         /\ \A j \in Rollouts, u \in Positions :
              rows[i].mask[t] = 1 /\ rows[j].mask[u] = 1 =>
                Ordered(ReinforcePlusPlus(j, u), ReinforcePlusPlus(i, t),
                        Credit("reinforce_plus_plus", j, u), Credit("reinforce_plus_plus", i, t))
<1> DEFINE weighted(j) == [u \in Positions |-> RunningReturn(j)[u] * rows[j].mask[u]]
           returns == [j \in Rollouts |-> SumFunction(weighted(j))]
           mean == Frac(SumFunction(returns), TokensOf(Rollouts))
<1>1. IsFiniteSet(Rollouts)
  BY UpdateAssumption, FS_Interval DEF Rollouts
<1>2. TokensOf(Rollouts) \in Nat /\ \A j \in Rollouts : Tokens(j) <= TokensOf(Rollouts)
  BY <1>1, TokensOfSet
<1>3. ASSUME NEW j \in Rollouts PROVE SumFunction(weighted(j)) \in Int
  <2>1. \A u \in Positions : weighted(j)[u] \in Int
    <3>1. ASSUME NEW u \in Positions PROVE RunningReturn(j)[u] * rows[j].mask[u] \in Int
      <4>1. RunningReturn(j)[u] \in Int /\ rows[j].mask[u] \in {0, 1}
        BY ReturnIsCredit, RewardOfToken
      <4> QED  BY <4>1
    <3> QED  BY <3>1
  <2>2. SumFunction(weighted(j)) = SumFunctionOnSet(weighted(j), Positions)
    BY DEF SumFunction
  <2> HIDE DEF weighted
  <2> QED  BY <2>1, <2>2, PositionsFinite, SumType
<1>4. SumFunction(returns) \in Int
  <2>1. SumFunction(returns) = SumFunctionOnSet(returns, Rollouts)
    BY DEF SumFunction
  <2> HIDE DEF weighted
  <2>2. \A j \in Rollouts : returns[j] \in Int
    BY <1>3
  <2> HIDE DEF returns
  <2> QED  BY <2>1, <2>2, <1>1, SumType
<1>5. ASSUME NEW j \in Rollouts, NEW u \in Positions
      PROVE  ReinforcePlusPlus(j, u)
               = Times(Minus(Frac(RunningReturn(j)[u], 1), mean), Frac(rows[j].mask[u], 1))
  BY DEF ReinforcePlusPlus
<1> HIDE DEF returns, mean
<1>6. IsFrac(mean) /\ mean[2] = TokensOf(Rollouts)
  BY <1>2, <1>4, FracIsFrac DEF mean
<1>7. IsFrac(ReinforcePlusPlus(i, t))
  <2>1. RunningReturn(i)[t] \in Int /\ rows[i].mask[t] \in {0, 1}
    BY ReturnIsCredit, RewardOfToken
  <2>2. PICK a, b : a = Frac(RunningReturn(i)[t], 1) /\ b = Frac(rows[i].mask[t], 1)
    OBVIOUS
  <2>3. IsFrac(a) /\ IsFrac(b)
    BY <2>1, <2>2, FracIsFrac
  <2>4. IsFrac(Minus(a, mean))
    BY <2>3, <1>6, MinusIsFrac
  <2>5. IsFrac(Times(Minus(a, mean), b))
    BY <2>3, <2>4, TimesIsFrac
  <2> QED  BY <1>5, <2>2, <2>5
<1>8. ASSUME NEW j \in Rollouts, NEW u \in Positions, rows[i].mask[t] = 1, rows[j].mask[u] = 1
      PROVE  Ordered(ReinforcePlusPlus(j, u), ReinforcePlusPlus(i, t),
                     Credit("reinforce_plus_plus", j, u), Credit("reinforce_plus_plus", i, t))
  <2>1. PICK x, y : x = RunningReturn(j)[u] /\ y = RunningReturn(i)[t]
    OBVIOUS
  <2>2. /\ x \in Int /\ y \in Int
        /\ x = Credit("reinforce_plus_plus", j, u) /\ y = Credit("reinforce_plus_plus", i, t)
    BY <1>8, <2>1, ReturnIsCredit
  <2>3. Ordered(Frac(x, 1), Frac(y, 1), x, y)
    BY <2>2, OrderOfFracs
  <2>4. mean[2] > 0
    BY <1>2, <1>6, <1>8, FullBatch
  <2>5. Ordered(Minus(Frac(x, 1), mean), Minus(Frac(y, 1), mean), x, y)
    BY <2>3, <2>4, <1>6, MinusKeepsOrder
  <2>6. /\ ReinforcePlusPlus(j, u) = Times(Minus(Frac(x, 1), mean), Frac(1, 1))
        /\ ReinforcePlusPlus(i, t) = Times(Minus(Frac(y, 1), mean), Frac(1, 1))
    BY <1>5, <1>8, <2>1
  <2> QED  BY <2>2, <2>5, <2>6, UnitKeepsOrder
<1> QED  BY <1>7, <1>8

\* ReMax: what is left of the score after the mask, against the prompt's baseline.
LEMMA ReMaxIsOrdered ==
  ASSUME RowsFit, Len(rows) = NumRollouts, NEW k \in GroupSizes,
         NEW baseline \in Baselines("remax", k), NEW i \in Rollouts, NEW t \in Positions
  PROVE  /\ IsFrac(ReMax(baseline, i, t))
         /\ \A j \in Group(k, i), u \in Positions :
              rows[i].mask[t] = 1 /\ rows[j].mask[u] = 1 =>
                Ordered(ReMax(baseline, j, u), ReMax(baseline, i, t),
                        Credit("remax", j, u), Credit("remax", i, t))
<1> DEFINE masked(j) == [u \in Positions |-> TokenReward(j, u) * rows[j].mask[u]]
           returns(j, u) == SumFunctionOnSet(masked(j), u..ResponseLength)
\* The one reward that the mask may leave is that of the last attended token.
<1>1. ASSUME NEW j \in Rollouts, NEW u \in Positions
      PROVE  /\ returns(j, u) \in Int
             /\ rows[j].mask[u] = 1 => returns(j, u) = Credit("remax", j, u)
  <2>1. PICK e, score, m : e = Attended(j) /\ score = rows[j].score /\ m = rows[j].mask
    OBVIOUS
  <2>2. /\ e \in Positions /\ score \in Int
        /\ \A p \in Positions : TokenReward(j, p) = IF p = e THEN score ELSE 0
        /\ \A p \in Positions : m[p] \in {0, 1}
        /\ m[u] = 1 => u <= e
    BY <2>1, RewardOfToken
  <2>3. PICK f : f = masked(j)
    OBVIOUS
  <2>4. ASSUME NEW p \in Positions
        PROVE  f[p] \in Int /\ f[p] = IF p = e /\ m[p] = 1 THEN score ELSE 0
    <3>1. f[p] = TokenReward(j, p) * m[p]
      BY <2>1, <2>3
    <3>2. m[p] \in {0, 1} /\ TokenReward(j, p) = IF p = e THEN score ELSE 0
      BY <2>2
    <3>3. \A z \in Int : z * 0 = 0 /\ z * 1 = z
      OBVIOUS
    <3> QED  BY <3>1, <3>2, <3>3, <2>2
  <2>5. PICK S : S = u..ResponseLength
    OBVIOUS
  <2>6. S \subseteq Positions /\ IsFiniteSet(S) /\ (u <= e => e \in S)
    <3>1. S \subseteq Positions /\ (u <= e => e \in S)
      BY <2>2, <2>5, UpdateAssumption DEF Positions
    <3> QED  BY <3>1, PositionsFinite, FS_Subset
  <2>7. returns(j, u) = SumFunctionOnSet(f, S)
    BY <2>3, <2>5
  <2>8. SumFunctionOnSet(f, S) \in Int
    BY <2>4, <2>6, SumType
  <2>9. ASSUME m[u] = 1 PROVE SumFunctionOnSet(f, S) = Credit("remax", j, u)
    <3>1. e \in S
      BY <2>2, <2>6, <2>9
    <3>2. f[e] \in Int /\ \A p \in S : p # e => f[p] = 0
      BY <2>4, <2>6, <3>1
    <3>3. SumFunctionOnSet(f, S) = f[e]
      BY <2>6, <3>1, <3>2, SumOfOne
    <3>4. f[e] = IF m[e] = 1 THEN score ELSE 0
      BY <2>2, <2>4
    <3>5. Credit("remax", j, u) = IF m[e] = 1 THEN score ELSE 0
      BY <2>1 DEF Credit, ScoreReaches
    <3> QED  BY <3>3, <3>4, <3>5
  <2> HIDE DEF returns
  <2> QED  BY <2>1, <2>7, <2>8, <2>9
<1>2. ASSUME NEW j \in Rollouts, NEW u \in Positions
      PROVE  ReMax(baseline, j, u) = Frac(returns(j, u) - baseline[j] * rows[j].mask[u], 1)
  BY DEF ReMax
<1> HIDE DEF returns
<1>3. baseline \in [Rollouts -> 0..1] /\ \A j \in Group(k, i) : baseline[j] = baseline[i]
  <2>1. /\ baseline \in [Rollouts -> 0..1]
        /\ \A l, j \in Rollouts : j \in Group(k, l) => baseline[l] = baseline[j]
    BY DEF Baselines
  <2>2. Group(k, i) \subseteq Rollouts
    BY GroupFacts
  <2> QED  BY <2>1, <2>2
<1>4. IsFrac(ReMax(baseline, i, t))
  <2>1. returns(i, t) \in Int /\ baseline[i] \in {0, 1} /\ rows[i].mask[t] \in {0, 1}
    BY <1>1, <1>3, RewardOfToken
  <2>2. PICK x : x = returns(i, t) - baseline[i] * rows[i].mask[t]
    OBVIOUS
  <2>3. x \in Int
    BY <2>1, <2>2
  <2> QED  BY <1>2, <2>2, <2>3, FracIsFrac
<1>5. ASSUME NEW j \in Group(k, i), NEW u \in Positions, rows[i].mask[t] = 1, rows[j].mask[u] = 1
      PROVE  Ordered(ReMax(baseline, j, u), ReMax(baseline, i, t),
                     Credit("remax", j, u), Credit("remax", i, t))
  <2>1. j \in Rollouts
    BY GroupFacts
  <2>2. PICK x, y, b : x = returns(j, u) /\ y = returns(i, t) /\ b = baseline[i]
    OBVIOUS
  <2>3. /\ x \in Int /\ y \in Int /\ b \in Int /\ baseline[j] = b
        /\ x = Credit("remax", j, u) /\ y = Credit("remax", i, t)
    BY <1>1, <1>3, <1>5, <2>1, <2>2
  <2>4. ReMax(baseline, j, u) = Frac(x - b, 1) /\ ReMax(baseline, i, t) = Frac(y - b, 1)
    <3>1. /\ ReMax(baseline, j, u) = Frac(x - b * 1, 1)
          /\ ReMax(baseline, i, t) = Frac(y - b * 1, 1)
      BY <1>2, <1>5, <2>1, <2>2, <2>3
    <3>2. b * 1 = b
      BY <2>3
    <3> QED  BY <3>1, <3>2
  <2>5. Ordered(Frac(x - b, 1), Frac(y - b, 1), x, y)
    <3>1. PICK v, w : v = x - b /\ w = y - b
      OBVIOUS
    <3>2. v \in Int /\ w \in Int /\ (v < w <=> x < y) /\ (v = w <=> x = y)
      BY <3>1, <2>3
    <3>3. Ordered(Frac(v, 1), Frac(w, 1), x, y)
      BY <3>2, OrderOfFracs
    <3> QED  BY <3>1, <3>3
  <2> QED  BY <2>3, <2>4, <2>5
<1> QED  BY <1>4, <1>5

-----------------------------------------------------------------------------
(* The advantages of the tokens *)

LEMMA AdvantageIsFrac ==
  ASSUME RowsFit, Len(rows) = NumRollouts, NEW e \in Estimators, NEW k \in GroupSizes,
         e = "grpo_passk" => k > 1, NEW baseline \in Baselines(e, k),
         NEW i \in Rollouts, NEW t \in Positions
  PROVE  IsFrac(Advantage(e, k, baseline, i, t))
<1>1. CASE e = "reinforce_plus_plus"
  BY <1>1, ReinforcePlusPlusIsOrdered DEF Advantage
<1>2. CASE e = "remax"
  BY <1>2, ReMaxIsOrdered DEF Advantage
<1>3. CASE e \notin {"reinforce_plus_plus", "remax"}
  <2>1. PICK o, b : o = Outcome(e, k, i) /\ b = Frac(rows[i].mask[t], 1)
    OBVIOUS
  <2>2. Advantage(e, k, baseline, i, t) = Times(o, b)
    BY <1>3, <2>1 DEF Advantage
  <2>3. IsFrac(o)
    BY <1>3, <2>1, OutcomeIsFrac
  <2>4. IsFrac(b)
    BY <2>1, RewardOfToken, FracIsFrac
  <2> QED  BY <2>2, <2>3, <2>4, TimesIsFrac
<1> QED  BY <1>1, <1>2, <1>3

\* Policy tokens of a group's rows are ordered as what the score does for them.
LEMMA AdvantageIsOrdered ==
  ASSUME RowsFit, Len(rows) = NumRollouts, NEW e \in Estimators, NEW k \in GroupSizes,
         e # "grpo_passk", NEW baseline \in Baselines(e, k),
         NEW i \in Rollouts, NEW t \in Positions, rows[i].mask[t] = 1,
         NEW j \in Group(k, i), NEW u \in Positions, rows[j].mask[u] = 1
  PROVE  Ordered(Advantage(e, k, baseline, j, u), Advantage(e, k, baseline, i, t),
                 Credit(e, j, u), Credit(e, i, t))
<1>0. j \in Rollouts
  BY GroupFacts
<1>1. CASE e = "reinforce_plus_plus"
  BY <1>0, <1>1, ReinforcePlusPlusIsOrdered DEF Advantage
<1>2. CASE e = "remax"
  BY <1>2, ReMaxIsOrdered DEF Advantage
<1>3. CASE e \notin {"reinforce_plus_plus", "remax"}
  <2>1. PICK x, y : x = Outcome(e, k, j) /\ y = Outcome(e, k, i)
    OBVIOUS
  <2>2. Tokens(i) > 0
    BY FullBatch
  <2>3. Ordered(x, y, rows[j].score, rows[i].score)
    BY <1>3, <2>1, <2>2, OutcomeIsOrdered
  <2>4. /\ Advantage(e, k, baseline, j, u) = Times(x, Frac(1, 1))
        /\ Advantage(e, k, baseline, i, t) = Times(y, Frac(1, 1))
    BY <1>3, <2>1 DEF Advantage
  <2>5. Credit(e, j, u) = rows[j].score /\ Credit(e, i, t) = rows[i].score
    BY <1>3 DEF Credit, ScoreReaches
  <2> QED  BY <2>3, <2>4, <2>5, UnitKeepsOrder
<1> QED  BY <1>1, <1>2, <1>3

\* The advantages of a scored batch.
LEMMA AdvantagesOfBatch ==
  ASSUME IInv, est # None
  PROVE  /\ RowsFit /\ Len(rows) = NumRollouts
         /\ est \in Estimators /\ n \in GroupSizes /\ (est = "grpo_passk" => n > 1)
         /\ \E baseline \in Baselines(est, n) : \A i \in Rollouts, t \in Positions :
              adv[i][t] = Advantage(est, n, baseline, i, t)
<1>1. PICK baseline \in Baselines(est, n) : adv = AdvantagesOf(est, n, baseline)
  BY DEF IInv, AdvantagesAreCurrent
<1>2. \A i \in Rollouts, t \in Positions : adv[i][t] = Advantage(est, n, baseline, i, t)
  BY <1>1 DEF AdvantagesOf
<1> QED  BY <1>2 DEF IInv, AdvantagesAreCurrent, BatchIsFull

LEMMA BetterIsReinforcedInv ==
  ASSUME IInv
  PROVE  BetterIsReinforced
<1> SUFFICES ASSUME est # None, NEW i \in Rollouts,
                    NEW t \in {p \in Positions : rows[i].mask[p] = 1}
             PROVE  IF est = "grpo_passk"
                    THEN LET alone == \A j \in Group(n, i) \ {i} : rows[j].score < rows[i].score
                         IN  Less(Zero, adv[i][t]) <=> alone
                    ELSE \A j \in Group(n, i) :
                           \A u \in {p \in Positions : rows[j].mask[p] = 1} :
                             /\ Credit(est, j, u) < Credit(est, i, t) <=> Less(adv[j][u], adv[i][t])
                             /\ Credit(est, j, u) = Credit(est, i, t) <=> Same(adv[j][u], adv[i][t])
  BY DEF BetterIsReinforced
<1>1. /\ RowsFit /\ Len(rows) = NumRollouts
      /\ est \in Estimators /\ n \in GroupSizes /\ (est = "grpo_passk" => n > 1)
  BY AdvantagesOfBatch
<1>2. PICK baseline \in Baselines(est, n) : \A j \in Rollouts, u \in Positions :
        adv[j][u] = Advantage(est, n, baseline, j, u)
  BY AdvantagesOfBatch
<1>3. CASE est = "grpo_passk"
  <2>1. PICK o : o = GrpoPassk(n, i)
    OBVIOUS
  <2>2. /\ IsFrac(o) /\ o[2] = 1
        /\ o[1] > 0 <=> \A j \in Group(n, i) \ {i} : rows[j].score < rows[i].score
    BY <1>1, <1>3, <2>1, GrpoPasskLead
  <2>3. adv[i][t] = Times(o, Frac(1, 1))
    BY <1>2, <1>3, <2>1 DEF Advantage, Outcome
  <2>4. adv[i][t][1] = o[1] * 1 /\ adv[i][t][2] = 1 * 1
    BY <2>2, <2>3 DEF Times, Frac
  <2>5. PICK x, d : x = adv[i][t][1] /\ d = adv[i][t][2]
    OBVIOUS
  <2>6. x = o[1] /\ x \in Int /\ d = 1
    BY <2>2, <2>4, <2>5 DEF IsFrac
  <2>7. Less(Zero, adv[i][t]) <=> (1 * d > 0 /\ 0 * d < x * 1)
    BY <2>5 DEF Less, Zero, Frac
  <2>8. Less(Zero, adv[i][t]) <=> x > 0
    BY <2>6, <2>7
  <2> QED  BY <1>3, <2>2, <2>6, <2>8
<1>4. CASE est # "grpo_passk"
  <2>1. ASSUME NEW j \in Group(n, i), NEW u \in {p \in Positions : rows[j].mask[p] = 1}
        PROVE  /\ Credit(est, j, u) < Credit(est, i, t) <=> Less(adv[j][u], adv[i][t])
               /\ Credit(est, j, u) = Credit(est, i, t) <=> Same(adv[j][u], adv[i][t])
    <3>1. j \in Rollouts
      BY <1>1, GroupFacts
    <3>2. PICK a, b : a = adv[j][u] /\ b = adv[i][t]
      OBVIOUS
    <3>3. /\ a = Advantage(est, n, baseline, j, u)
          /\ b = Advantage(est, n, baseline, i, t)
      BY <1>2, <3>1, <3>2
    <3>4. Ordered(a, b, Credit(est, j, u), Credit(est, i, t))
      BY <1>1, <1>4, <3>3, AdvantageIsOrdered
    <3> QED  BY <3>2, <3>4, OrderedIsCompared
  <2> QED  BY <1>4, <2>1
<1> QED  BY <1>3, <1>4

\* BetterIsReinforced: for every batch, every grouping and each of the nine outcome
\* estimators, policy tokens of a prompt's rollouts are ordered by advantage as they
\* are by the score that reaches them: always the rollout's own with seven of the
\* estimators; with ReMax and REINFORCE++ only where no observation is in its way.
THEOREM ScoresDecide == Spec => []BetterIsReinforced
<1> QED  BY BetterIsReinforcedInv, Invariance, PTL

-----------------------------------------------------------------------------
(* The loss of a token *)

\* A reinforced token: the loss is -a * r up to the upper clip, and constant above.
LEMMA ReinforcedSlope ==
  ASSUME NEW a \in Int, a > 0, NEW r \in Int
  PROVE  TokenLoss(a, r + 1) - TokenLoss(a, r) = IF r < Unit + ClipHigh THEN -a ELSE 0
<1>0. Unit \in Nat /\ ClipLow \in 0..Unit /\ ClipHigh \in Nat
  BY UpdateAssumption
<1> DEFINE E(x) == IF x < Unit + ClipHigh THEN x ELSE Unit + ClipHigh
<1>1. ASSUME NEW x \in Int PROVE TokenLoss(a, x) = -a * E(x)
  <2>1. PICK c : c = Clamp(x)
    OBVIOUS
  <2>2. c \in Int /\ (x < Unit + ClipHigh => c >= x) /\ (~ (x < Unit + ClipHigh) => c = Unit + ClipHigh /\ c <= x)
    BY <1>0, <2>1 DEF Clamp, Greatest, Least
  <2>3. TokenLoss(a, x) = Greatest(-a * x, -a * c)
    BY <2>1 DEF TokenLoss
  <2>4. \A v, w \in Int : v <= w => a * v <= a * w
    <3>1. ASSUME NEW v \in Int, NEW w \in Int, v <= w PROVE a * v <= a * w
      <4>1. a * (w - v) >= 0 /\ a * (w - v) = a * w - a * v
        BY <3>1
      <4> QED  BY <4>1
    <3> QED  BY <3>1
  <2>5. \A v \in Int : -a * v = -(a * v) /\ a * v \in Int
    OBVIOUS
  <2>6. CASE x < Unit + ClipHigh
    <3>1. a * x <= a * c
      BY <2>2, <2>4, <2>6
    <3>2. ~ (-a * x < -a * c)
      BY <3>1, <2>2, <2>5
    <3>3. TokenLoss(a, x) = -a * x
      <4>1. -a * x > -a * c \/ -a * x = -a * c
        BY <3>1, <2>2, <2>5
      <4> QED  BY <4>1, <2>3 DEF Greatest
    <3> QED  BY <3>3, <2>6
  <2>7. CASE ~ (x < Unit + ClipHigh)
    <3>1. a * c <= a * x /\ c = Unit + ClipHigh
      BY <2>2, <2>4, <2>7
    <3>2. ~ (-a * x > -a * c)
      BY <3>1, <2>2, <2>5
    <3>3. TokenLoss(a, x) = -a * c
      BY <3>2, <2>3 DEF Greatest
    <3> QED  BY <3>1, <3>3, <2>7
  <2> QED  BY <2>6, <2>7
<1>2. PICK e : e = E(r)
  OBVIOUS
<1>3. e \in Int /\ E(r + 1) = IF r < Unit + ClipHigh THEN e + 1 ELSE e
  BY <1>0, <1>2
<1>4. TokenLoss(a, r) = -a * e
  BY <1>1, <1>2
<1>5. TokenLoss(a, r + 1) = -a * E(r + 1)
  BY <1>1
<1> HIDE DEF E
<1>6. CASE r < Unit + ClipHigh
  <2>1. TokenLoss(a, r + 1) = -a * (e + 1)
    BY <1>3, <1>5, <1>6
  <2>2. -a * (e + 1) = -a * e + -a /\ -a * e \in Int
    BY <1>3
  <2> QED  BY <2>1, <2>2, <1>4, <1>6
<1>7. CASE ~ (r < Unit + ClipHigh)
  <2>1. TokenLoss(a, r + 1) = -a * e /\ -a * e \in Int
    BY <1>3, <1>5, <1>7
  <2> QED  BY <2>1, <1>4, <1>7
<1> QED  BY <1>6, <1>7

\* A discouraged token: constant below the lower clip, -a * r up to clip_c, and
\* constant from there.
LEMMA DiscouragedSlope ==
  ASSUME NEW a \in Int, a < 0, NEW r \in Int
  PROVE  TokenLoss(a, r + 1) - TokenLoss(a, r) =
           IF Unit - ClipLow <= r /\ r < ClipC * Unit THEN -a ELSE 0
<1>1. PICK b : b = -a
  OBVIOUS
<1>2. b \in Int /\ b > 0
  BY <1>1
<1>3. PICK top : top = ClipC * Unit
  OBVIOUS
<1>4. /\ Unit \in Nat /\ ClipLow \in 0..Unit /\ ClipHigh \in Nat
      /\ top \in Int /\ Unit + ClipHigh < top
  <2>1. ClipC \in Nat /\ Unit \in Nat /\ ClipLow \in 0..Unit /\ ClipHigh \in Nat
        /\ ClipHigh < (ClipC - 1) * Unit
    BY UpdateAssumption
  <2>2. (ClipC - 1) * Unit = ClipC * Unit - Unit /\ ClipC * Unit \in Int
    BY <2>1
  <2> QED  BY <2>1, <2>2, <1>3
<1>5. -a * ClipC * Unit = b * top
  <2>1. ClipC \in Int /\ Unit \in Int
    BY UpdateAssumption
  <2>2. -a * ClipC * Unit = -a * (ClipC * Unit)
    BY <2>1
  <2> QED  BY <2>2, <1>1, <1>3
<1> DEFINE F(x) == IF x < Unit - ClipLow THEN Unit - ClipLow ELSE IF x < top THEN x ELSE top
<1>6. \A v, w \in Int : v < w => b * v < b * w
  <2>1. ASSUME NEW v \in Int, NEW w \in Int, v < w PROVE b * v < b * w
    <3>1. w - v \in Int /\ w - v > 0
      BY <2>1
    <3>2. b * (w - v) > 0
      BY <3>1, <1>2
    <3>3. b * (w - v) = b * w - b * v /\ b * w \in Int /\ b * v \in Int
      BY <1>2
    <3> QED  BY <3>2, <3>3
  <2> QED  BY <2>1
<1>7. ASSUME NEW x \in Int PROVE TokenLoss(a, x) = b * F(x)
  <2>1. PICK c : c = Clamp(x)
    OBVIOUS
  <2>2. /\ c \in Int
        /\ x < Unit - ClipLow => c = Unit - ClipLow
        /\ ~ (x < Unit - ClipLow) => c <= x
        /\ c < top
    BY <1>4, <2>1 DEF Clamp, Greatest, Least
  <2>3. TokenLoss(a, x) = Least(b * top, Greatest(b * x, b * c))
    <3>1. TokenLoss(a, x) = Least(-a * ClipC * Unit, Greatest(-a * x, -a * c))
      BY <2>1 DEF TokenLoss
    <3>2. -a * x = b * x /\ -a * c = b * c
      BY <1>1, <1>2, <2>2
    <3> QED  BY <3>1, <3>2, <1>5
  <2>4. b * x \in Int /\ b * c \in Int /\ b * top \in Int
    BY <1>2, <1>4, <2>2
  <2>5. CASE x < Unit - ClipLow
    <3>1. b * x < b * c /\ b * c < b * top
      BY <1>4, <1>6, <2>2, <2>5
    <3>2. ~ (b * x > b * c) /\ ~ (b * top < b * c)
      BY <3>1, <2>4
    <3>3. TokenLoss(a, x) = b * c
      BY <2>3, <3>2 DEF Least, Greatest
    <3> QED  BY <3>3, <2>2, <2>5
  <2>6. CASE ~ (x < Unit - ClipLow)
    <3>1. Greatest(b * x, b * c) = b * x
      <4>1. c < x \/ c = x
        BY <2>2, <2>6
      <4>2. CASE c < x
        <5>1. b * c < b * x
          BY <4>2, <1>6, <2>2
        <5>2. b * x > b * c
          BY <5>1, <2>4
        <5> QED  BY <5>2 DEF Greatest
      <4>3. CASE c = x
        BY <4>3 DEF Greatest
      <4> QED  BY <4>1, <4>2, <4>3
    <3>2. TokenLoss(a, x) = Least(b * top, b * x)
      BY <3>1, <2>3
    <3>3. CASE x < top
      <4>1. b * x < b * top
        BY <3>3, <1>4, <1>6
      <4>2. ~ (b * top < b * x)
        BY <4>1, <2>4
      <4>3. TokenLoss(a, x) = b * x
        BY <4>2, <3>2 DEF Least
      <4> QED  BY <4>3, <3>3, <2>6
    <3>4. CASE ~ (x < top)
      <4>1. TokenLoss(a, x) = b * top
        <5>1. CASE x = top
          BY <5>1, <3>2 DEF Least
        <5>2. CASE top < x
          <6>1. b * top < b * x
            BY <5>2, <1>4, <1>6
          <6> QED  BY <6>1, <3>2 DEF Least
        <5> QED  BY <5>1, <5>2, <3>4, <1>4
      <4> QED  BY <4>1, <3>4, <2>6
    <3> QED  BY <3>3, <3>4
  <2> QED  BY <2>5, <2>6
<1>8. PICK e : e = F(r)
  OBVIOUS
<1>9. /\ e \in Int
      /\ F(r + 1) = IF Unit - ClipLow <= r /\ r < top THEN e + 1 ELSE e
  BY <1>4, <1>8
<1>10. TokenLoss(a, r) = b * e
  BY <1>7, <1>8
<1>11. TokenLoss(a, r + 1) = b * F(r + 1)
  BY <1>7
<1> HIDE DEF F
<1>12. CASE Unit - ClipLow <= r /\ r < top
  <2>1. TokenLoss(a, r + 1) = b * (e + 1)
    BY <1>9, <1>11, <1>12
  <2>2. b * (e + 1) = b * e + b /\ b * e \in Int
    BY <1>2, <1>9
  <2> QED  BY <2>1, <2>2, <1>1, <1>2, <1>3, <1>10, <1>12
<1>13. CASE ~ (Unit - ClipLow <= r /\ r < top)
  <2>1. TokenLoss(a, r + 1) = b * e /\ b * e \in Int
    BY <1>2, <1>9, <1>11, <1>13
  <2> QED  BY <2>1, <1>3, <1>10, <1>13
<1> QED  BY <1>12, <1>13

LEMMA IdleSlope ==
  ASSUME NEW r \in Int
  PROVE  TokenLoss(0, r + 1) - TokenLoss(0, r) = 0
<1>1. ASSUME NEW x \in Int PROVE TokenLoss(0, x) = 0
  <2>1. PICK c : c = Clamp(x)
    OBVIOUS
  <2>2. c \in Int
    BY <2>1, UpdateAssumption DEF Clamp, Greatest, Least
  <2>3. -0 * x = 0 /\ -0 * c = 0
    BY <2>2
  <2>4. TokenLoss(0, x) = Greatest(-0 * x, -0 * c)
    BY <2>1 DEF TokenLoss
  <2> QED  BY <2>3, <2>4 DEF Greatest
<1> QED  BY <1>1

\* What a step of the ratio from r does to the loss of row i's token t.
MoveAt(i, t, r) ==
  LET a == adv[i][t][1]
      slope == TokenLoss(a, r + 1) - TokenLoss(a, r)
  IN  /\ slope < 0 <=> a > 0 /\ r < Unit + ClipHigh
      /\ slope > 0 <=> a < 0 /\ Unit - ClipLow <= r /\ r < ClipC * Unit

LEMMA MoveIsInClip ==
  ASSUME IInv, est # None, NEW i \in Rollouts, NEW t \in Positions, NEW r \in Int
  PROVE  MoveAt(i, t, r)
<1>1. PICK a : a = adv[i][t][1]
  OBVIOUS
<1>2. a \in Int
  <2>1. PICK baseline \in Baselines(est, n) : adv[i][t] = Advantage(est, n, baseline, i, t)
    BY AdvantagesOfBatch
  <2>2. IsFrac(adv[i][t])
    BY <2>1, AdvantagesOfBatch, AdvantageIsFrac
  <2> QED  BY <1>1, <2>2 DEF IsFrac
<1>3. PICK slope : slope = TokenLoss(a, r + 1) - TokenLoss(a, r)
  OBVIOUS
<1>4. /\ slope < 0 <=> a > 0 /\ r < Unit + ClipHigh
      /\ slope > 0 <=> a < 0 /\ Unit - ClipLow <= r /\ r < ClipC * Unit
  <2>1. CASE a > 0
    <3>1. slope = IF r < Unit + ClipHigh THEN -a ELSE 0
      BY <2>1, <1>2, <1>3, ReinforcedSlope
    <3> QED  BY <3>1, <2>1, <1>2
  <2>2. CASE a < 0
    <3>1. slope = IF Unit - ClipLow <= r /\ r < ClipC * Unit THEN -a ELSE 0
      BY <2>2, <1>2, <1>3, DiscouragedSlope
    <3> QED  BY <3>1, <2>2, <1>2
  <2>3. CASE a = 0
    <3>1. slope = 0
      BY <2>3, <1>3, IdleSlope
    <3> QED  BY <3>1, <2>3
  <2> QED  BY <2>1, <2>2, <2>3, <1>2
<1> QED  BY <1>1, <1>2, <1>3, <1>4 DEF MoveAt

\* MovesWithinTheClip: for every advantage the estimators yield and all settings
\* of the clip, the loss of a token asks for a move only within the clip.
THEOREM ClipBoundsMoves == Spec => []MovesWithinTheClip
<1>1. ASSUME IInv PROVE MovesWithinTheClip
  <2>1. \A r \in Ratios : r \in Int
    <3>1. Unit \in Nat /\ ClipLow \in 0..Unit /\ ClipHigh \in Nat /\ ClipC \in Nat
      BY UpdateAssumption
    <3>2. ClipC * Unit \in Int
      BY <3>1
    <3> QED  BY <3>1, <3>2 DEF Ratios
  <2> SUFFICES ASSUME est # None, NEW i \in Rollouts, NEW t \in Positions, NEW r \in Ratios
               PROVE  MoveAt(i, t, r)
    BY DEF MovesWithinTheClip, MoveAt
  <2> QED  BY <1>1, <2>1, MoveIsInClip
<1> QED  BY <1>1, Invariance, PTL

\* The same at every ratio, not only at those next to the bounds of the clip.
THEOREM ClipBoundsEveryMove ==
  Spec => [](est # None => \A i \in Rollouts, t \in Positions, r \in Int : MoveAt(i, t, r))
<1>1. IInv => (est # None => \A i \in Rollouts, t \in Positions, r \in Int : MoveAt(i, t, r))
  BY MoveIsInClip
<1> QED  BY <1>1, Invariance, PTL

-----------------------------------------------------------------------------
(* Generalised advantages *)

\* The recursion of Gae, for the columns from k on.
GaeStep(r, v, m, gamma, lam, t, later) ==
  IF m[t] = 0 THEN later
  ELSE [value |-> v[t],
        gae |-> Plus(Delta(r[t], gamma, later.value, v[t]), Times(Times(gamma, lam), later.gae))]

IsGae(f, r, v, m, gamma, lam, k) ==
  f = [t \in k..(ResponseLength + 1) |->
         IF t > ResponseLength THEN [value |-> Zero, gae |-> Zero]
         ELSE IF m[t] = 0 THEN f[t + 1]
         ELSE [value |-> v[t],
               gae |-> Plus(Delta(r[t], gamma, f[t + 1].value, v[t]),
                            Times(Times(gamma, lam), f[t + 1].gae))]]

\* The recursion has a solution.
LEMMA GaeExists ==
  ASSUME NEW r, NEW v, NEW m, NEW gamma, NEW lam
  PROVE  \E f : IsGae(f, r, v, m, gamma, lam, 1)
<1> DEFINE N == ResponseLength + 1
           B == {k \in 1..N : \E f : IsGae(f, r, v, m, gamma, lam, k)}
<1>1. ResponseLength \in Nat \ {0} /\ N \in Nat \ {0}
  BY UpdateAssumption
<1>2. N \in B
  <2> DEFINE f == [t \in N..N |-> [value |-> Zero, gae |-> Zero]]
  <2>1. \A t \in N..N : t > ResponseLength
    BY <1>1
  <2>2. IsGae(f, r, v, m, gamma, lam, N)
    BY <2>1 DEF IsGae
  <2> QED  BY <1>1, <2>2
<1>3. ASSUME NEW k \in 1..(N - 1), k + 1 \in B PROVE k \in B
  <2>1. PICK f : IsGae(f, r, v, m, gamma, lam, k + 1)
    BY <1>3
  <2> DEFINE later == f[k + 1]
             g == [t \in k..N |-> IF t = k THEN GaeStep(r, v, m, gamma, lam, k, later) ELSE f[t]]
  <2>2. \A t \in k..N : t # k => t \in (k + 1)..N
    BY <1>1, <1>3
  <2>3. \A t \in k..N : ~ (t > ResponseLength) => t + 1 \in (k + 1)..N /\ t + 1 # k /\ t + 1 \in k..N
    BY <1>1, <1>3
  <2>4. k \in k..N /\ ~ (k > ResponseLength)
    BY <1>1, <1>3
  <2>5. \A t \in (k + 1)..N :
          f[t] = IF t > ResponseLength THEN [value |-> Zero, gae |-> Zero]
                 ELSE IF m[t] = 0 THEN f[t + 1]
                 ELSE [value |-> v[t],
                       gae |-> Plus(Delta(r[t], gamma, f[t + 1].value, v[t]),
                            Times(Times(gamma, lam), f[t + 1].gae))]
    BY <2>1 DEF IsGae
  <2>6. \A t \in k..N : ~ (t > ResponseLength) => g[t + 1] = f[t + 1]
    BY <2>3
  <2>7. ASSUME NEW t \in k..N
        PROVE  g[t] = IF t > ResponseLength THEN [value |-> Zero, gae |-> Zero]
                      ELSE IF m[t] = 0 THEN g[t + 1]
                      ELSE [value |-> v[t],
                            gae |-> Plus(Delta(r[t], gamma, g[t + 1].value, v[t]),
                                         Times(Times(gamma, lam), g[t + 1].gae))]
    <3>1. CASE t = k
      <4>1. g[k] = GaeStep(r, v, m, gamma, lam, k, later)
        BY <2>4
      <4>2. g[k + 1] = later
        BY <2>4, <2>6
      <4> HIDE DEF g, later
      <4> QED  BY <3>1, <4>1, <4>2, <2>4 DEF GaeStep
    <3>2. CASE t # k
      <4>1. g[t] = f[t] /\ t \in (k + 1)..N
        BY <3>2, <2>2
      <4>2. ~ (t > ResponseLength) => g[t + 1] = f[t + 1]
        BY <2>6
      <4> HIDE DEF g
      <4> QED  BY <4>1, <4>2, <2>5
    <3> QED  BY <3>1, <3>2
  <2>8. g = [t \in k..N |-> g[t]]
    OBVIOUS
  <2> HIDE DEF g
  <2>9. IsGae(g, r, v, m, gamma, lam, k)
    BY <2>7, <2>8 DEF IsGae
  <2>10. k \in 1..N
    BY <1>1, <1>3
  <2> QED  BY <2>9, <2>10
<1> HIDE DEF B
<1>4. \A k \in 1..N : k \in B
  <2> HIDE DEF N
  <2> QED  BY <1>1, <1>2, <1>3, BackwardInduction
<1>5. 1 \in 1..N
  BY <1>1
<1> QED  BY <1>4, <1>5 DEF B

\* What Gae computes, column by column.
LEMMA GaeIsStep ==
  ASSUME NEW r, NEW v, NEW m, NEW gamma, NEW lam
  PROVE  \E f : /\ IsGae(f, r, v, m, gamma, lam, 1)
                /\ \A t \in Positions : Gae(r, v, m, gamma, lam)[t] = f[t].gae
<1> DEFINE f == CHOOSE f : IsGae(f, r, v, m, gamma, lam, 1)
<1>1. IsGae(f, r, v, m, gamma, lam, 1)
  BY GaeExists
<1>2. Gae(r, v, m, gamma, lam) = [t \in Positions |-> f[t].gae]
  BY DEF Gae, IsGae
<1> HIDE DEF f
<1> QED  BY <1>1, <1>2

\* The policy's tokens from column k on.
Owned(m, k) == {u \in Positions : m[u] = 1 /\ u >= k}

\* The column at which the tokens from k on start, if there are any.
LEMMA OwnedStart ==
  ASSUME NEW m \in [Positions -> 0..1], NEW k \in Positions
  PROVE  /\ m[k] = 1 => /\ Owned(m, k) = {k} \cup Owned(m, k + 1)
                        /\ k \notin Owned(m, k + 1)
                        /\ Min(Owned(m, k)) = k
         /\ m[k] = 0 => Owned(m, k) = Owned(m, k + 1)
<1>1. ResponseLength \in Nat /\ k \in 1..ResponseLength
  BY UpdateAssumption DEF Positions
<1>2. Positions \subseteq Int
  BY <1>1 DEF Positions
<1>3. k \notin Owned(m, k + 1)
  BY <1>1 DEF Owned
<1> DEFINE own == Owned(m, k)
           later == Owned(m, k + 1)
<1>7. \A u \in Positions : u \in own <=> m[u] = 1 /\ (u = k \/ u >= k + 1)
  BY <1>1, <1>2 DEF Owned
<1>8. \A u \in Positions : u \in later <=> m[u] = 1 /\ u >= k + 1
  BY DEF Owned
<1>9. own \subseteq Positions /\ later \subseteq Positions
  BY DEF Owned
<1> HIDE DEF own, later
<1>4. m[k] = 1 => own = {k} \cup later
  BY <1>7, <1>8, <1>9
<1>5. m[k] = 0 => own = later
  BY <1>7, <1>8, <1>9
<1> USE DEF own, later
<1>6. ASSUME m[k] = 1 PROVE Min(Owned(m, k)) = k
  <2>1. k \in Owned(m, k) /\ \A u \in Owned(m, k) : u \in Int /\ k <= u
    BY <1>1, <1>2, <1>6 DEF Owned
  <2>2. \A x \in Owned(m, k) : (\A y \in Owned(m, k) : x <= y) => x = k
    BY <2>1, <1>1
  <2> QED  BY <2>1, <2>2 DEF Min
<1> QED  BY <1>3, <1>4, <1>5, <1>6

LEMMA OwnedNone ==
  ASSUME NEW m
  PROVE  Owned(m, ResponseLength + 1) = {}
BY UpdateAssumption DEF Owned, Positions

LEMMA OwnedFinite ==
  ASSUME NEW m, NEW k
  PROVE  Owned(m, k) \subseteq Positions /\ IsFiniteSet(Owned(m, k))
<1>1. Owned(m, k) \subseteq Positions
  BY DEF Owned
<1> QED  BY <1>1, PositionsFinite, FS_Subset

\* Whatever holds of all that is owned holds of the first.
LEMMA FirstIsOwned ==
  ASSUME NEW m \in [Positions -> 0..1]
  PROVE  \A k \in 1..(ResponseLength + 1) : Owned(m, k) # {} => Min(Owned(m, k)) \in Owned(m, k)
<1> DEFINE N == ResponseLength + 1
           B == {k \in 1..N : Owned(m, k) # {} => Min(Owned(m, k)) \in Owned(m, k)}
<1>1. N \in Nat \ {0} /\ ResponseLength \in Nat \ {0}
  BY UpdateAssumption
<1>2. N \in B
  BY <1>1, OwnedNone
<1>3. ASSUME NEW k \in 1..(N - 1), k + 1 \in B PROVE k \in B
  <2>1. k \in Positions /\ k \in 1..N
    BY <1>1 DEF Positions
  <2>2. m[k] \in 0..1
    BY <2>1
  <2>3. CASE m[k] = 1
    <3>1. Min(Owned(m, k)) = k /\ k \in Owned(m, k)
      BY <2>1, <2>3, OwnedStart
    <3> QED  BY <2>1, <3>1
  <2>4. CASE m[k] = 0
    <3>1. Owned(m, k) = Owned(m, k + 1)
      BY <2>1, <2>4, OwnedStart
    <3> QED  BY <1>3, <2>1, <3>1
  <2> QED  BY <2>2, <2>3, <2>4
<1> HIDE DEF B
<1>4. \A k \in 1..N : k \in B
  <2> HIDE DEF N
  <2> QED  BY <1>1, <1>2, <1>3, BackwardInduction
<1> QED  BY <1>4 DEF B

\* At each column the recursion holds what it held at the first token of the
\* policy from there on.
LEMMA GaeHandsOn ==
  ASSUME NEW r, NEW v, NEW m \in [Positions -> 0..1], NEW gamma, NEW lam,
         NEW f, IsGae(f, r, v, m, gamma, lam, 1)
  PROVE  \A k \in 1..(ResponseLength + 1) :
           f[k] = IF Owned(m, k) = {} THEN [value |-> Zero, gae |-> Zero]
                  ELSE f[Min(Owned(m, k))]
<1> DEFINE N == ResponseLength + 1
           held(k) == IF Owned(m, k) = {} THEN [value |-> Zero, gae |-> Zero]
                      ELSE f[Min(Owned(m, k))]
           B == {k \in 1..N : f[k] = held(k)}
<1>1. N \in Nat \ {0} /\ ResponseLength \in Nat \ {0}
  BY UpdateAssumption
<1>2. N \in B
  <2>1. N \in 1..N /\ N > ResponseLength
    BY <1>1
  <2>2. f[N] = [value |-> Zero, gae |-> Zero]
    BY <2>1 DEF IsGae
  <2> QED  BY <2>1, <2>2, OwnedNone
<1>3. ASSUME NEW k \in 1..(N - 1), k + 1 \in B PROVE k \in B
  <2>1. k \in Positions /\ k \in 1..N /\ ~ (k > ResponseLength)
    BY <1>1 DEF Positions
  <2>2. m[k] \in 0..1
    BY <2>1
  <2>3. CASE m[k] = 0
    <3>1. f[k] = f[k + 1]
      BY <2>1, <2>3 DEF IsGae
    <3>2. Owned(m, k) = Owned(m, k + 1)
      BY <2>1, <2>3, OwnedStart
    <3>3. f[k + 1] = held(k + 1)
      BY <1>3
    <3> QED  BY <2>1, <3>1, <3>2, <3>3
  <2>4. CASE m[k] = 1
    <3>1. Owned(m, k) # {} /\ Min(Owned(m, k)) = k
      BY <2>1, <2>4, OwnedStart
    <3> QED  BY <2>1, <3>1
  <2> QED  BY <2>2, <2>3, <2>4
<1>4. \A k \in 1..N : k \in B
  <2> HIDE DEF B, N
  <2> QED  BY <1>1, <1>2, <1>3, BackwardInduction
<1> QED  BY <1>4

\* A number: a fraction with a positive denominator.
IsNumber(a) == IsFrac(a) /\ a[2] > 0

LEMMA NumbersAreClosed ==
  ASSUME NEW a, NEW b, IsNumber(a), IsNumber(b)
  PROVE  /\ IsNumber(Plus(a, b)) /\ IsNumber(Minus(a, b)) /\ IsNumber(Times(a, b))
         /\ Same(a, a)
<1>1. PICK x, d, y, e : x = a[1] /\ d = a[2] /\ y = b[1] /\ e = b[2]
  OBVIOUS
<1>2. x \in Int /\ d \in Int /\ d > 0 /\ y \in Int /\ e \in Int /\ e > 0
  BY <1>1 DEF IsNumber, IsFrac
<1>3. d * e > 0 /\ d * e \in Int /\ d * d > 0
  BY <1>2, PositiveTimes
<1>4. x * e \in Int /\ y * d \in Int /\ x * y \in Int
  BY <1>2
<1>5. x * e + y * d \in Int /\ x * e - y * d \in Int
  BY <1>4
<1>6. /\ Plus(a, b) = <<x * e + y * d, d * e>>
      /\ Minus(a, b) = <<x * e - y * d, d * e>>
      /\ Times(a, b) = <<x * y, d * e>>
  BY <1>1 DEF Plus, Minus, Times
<1>7. Same(a, a)
  BY <1>1, <1>3 DEF Same
<1> QED  BY <1>3, <1>4, <1>5, <1>6, <1>7 DEF IsNumber, IsFrac

LEMMA FracIsNumber ==
  ASSUME NEW x \in Int, NEW d \in Int, d > 0
  PROVE  IsNumber(Frac(x, d))
BY FracIsFrac DEF IsNumber

LEMMA ZeroIsNumber == IsNumber(Zero)
BY FracIsNumber DEF Zero

\* What the recursion holds are numbers.
LEMMA GaeIsNumber ==
  ASSUME NEW r, NEW v, \A t \in Positions : IsNumber(r[t]) /\ IsNumber(v[t]),
         NEW m \in [Positions -> 0..1], NEW gamma, NEW lam, IsNumber(gamma), IsNumber(lam),
         NEW f, IsGae(f, r, v, m, gamma, lam, 1)
  PROVE  \A k \in 1..(ResponseLength + 1) : IsNumber(f[k].value) /\ IsNumber(f[k].gae)
<1> DEFINE N == ResponseLength + 1
           B == {k \in 1..N : IsNumber(f[k].value) /\ IsNumber(f[k].gae)}
<1>1. N \in Nat \ {0} /\ ResponseLength \in Nat \ {0}
  BY UpdateAssumption
<1>2. N \in B
  <2>1. N \in 1..N /\ N > ResponseLength
    BY <1>1
  <2>2. f[N] = [value |-> Zero, gae |-> Zero]
    BY <2>1 DEF IsGae
  <2> QED  BY <2>1, <2>2, ZeroIsNumber
<1>3. ASSUME NEW k \in 1..(N - 1), k + 1 \in B PROVE k \in B
  <2>1. k \in Positions /\ k \in 1..N /\ ~ (k > ResponseLength)
    BY <1>1 DEF Positions
  <2>2. PICK x, y : x = f[k + 1].value /\ y = f[k + 1].gae
    OBVIOUS
  <2>3. IsNumber(x) /\ IsNumber(y) /\ IsNumber(r[k]) /\ IsNumber(v[k])
    BY <1>3, <2>1, <2>2
  <2>4. CASE m[k] = 0
    <3>1. f[k] = f[k + 1]
      BY <2>1, <2>4 DEF IsGae
    <3> QED  BY <2>1, <2>2, <2>3, <3>1
  <2>5. CASE m[k] # 0
    <3>1. IsNumber(Delta(r[k], gamma, x, v[k]))
      <4>1. IsNumber(Times(gamma, x))
        BY <2>3, NumbersAreClosed
      <4>2. IsNumber(Plus(r[k], Times(gamma, x)))
        BY <2>3, <4>1, NumbersAreClosed
      <4>3. IsNumber(Minus(Plus(r[k], Times(gamma, x)), v[k]))
        BY <2>3, <4>2, NumbersAreClosed
      <4> QED  BY <4>3 DEF Delta
    <3>2. IsNumber(Times(Times(gamma, lam), y))
      <4>1. IsNumber(Times(gamma, lam))
        BY NumbersAreClosed
      <4> QED  BY <2>3, <4>1, NumbersAreClosed
    <3>3. PICK z : z = Plus(Delta(r[k], gamma, x, v[k]), Times(Times(gamma, lam), y))
      OBVIOUS
    <3>4. IsNumber(z)
      BY <3>1, <3>2, <3>3, NumbersAreClosed
    <3>5. f[k] = [value |-> v[k], gae |-> z]
      BY <2>1, <2>2, <2>5, <3>3 DEF IsGae
    <3> QED  BY <2>1, <2>3, <3>4, <3>5
  <2> QED  BY <2>4, <2>5
<1>4. \A k \in 1..N : k \in B
  <2> HIDE DEF B, N
  <2> QED  BY <1>1, <1>2, <1>3, BackwardInduction
<1> QED  BY <1>4

\* A token of the policy takes up what its successor among the policy's tokens
\* left, and the last of them starts from nothing.
LEMMA GaeOfOwned ==
  ASSUME NEW r, NEW v, \A t \in Positions : IsNumber(r[t]) /\ IsNumber(v[t]),
         NEW m \in [Positions -> 0..1], NEW gamma, NEW lam, IsNumber(gamma), IsNumber(lam),
         NEW t \in Positions, m[t] = 1
  PROVE  LET gae == Gae(r, v, m, gamma, lam)
             Followed(nextValue, nextGae) ==
               Same(gae[t], Plus(Delta(r[t], gamma, nextValue, v[t]),
                                 Times(Times(gamma, lam), nextGae)))
         IN  IF Owned(m, t + 1) = {} THEN Followed(Zero, Zero)
             ELSE Followed(v[Min(Owned(m, t + 1))], gae[Min(Owned(m, t + 1))])
<1>1. PICK f : /\ IsGae(f, r, v, m, gamma, lam, 1)
               /\ \A u \in Positions : Gae(r, v, m, gamma, lam)[u] = f[u].gae
  BY GaeIsStep
<1>2. PICK gae : gae = Gae(r, v, m, gamma, lam)
  OBVIOUS
<1>3. ResponseLength \in Nat \ {0} /\ \A u \in Positions : u \in 1..ResponseLength
  BY UpdateAssumption DEF Positions
<1>4. t \in 1..(ResponseLength + 1) /\ ~ (t > ResponseLength) /\ t + 1 \in 1..(ResponseLength + 1)
  BY <1>3
<1>5. PICK x, y : x = f[t + 1].value /\ y = f[t + 1].gae
  OBVIOUS
<1>6. PICK z : z = Plus(Delta(r[t], gamma, x, v[t]), Times(Times(gamma, lam), y))
  OBVIOUS
<1>7. f[t] = [value |-> v[t], gae |-> z]
  BY <1>1, <1>4, <1>5, <1>6 DEF IsGae
<1>8. IsNumber(f[t].gae)
  BY <1>1, <1>4, GaeIsNumber
<1>9. gae[t] = z /\ Same(gae[t], z)
  BY <1>1, <1>2, <1>7, <1>8, NumbersAreClosed
<1>10. PICK own, u : own = Owned(m, t + 1) /\ u = Min(own)
  OBVIOUS
<1>11. f[t + 1] = IF own = {} THEN [value |-> Zero, gae |-> Zero] ELSE f[u]
  BY <1>1, <1>4, <1>10, GaeHandsOn
<1>12. CASE own = {}
  <2>1. x = Zero /\ y = Zero
    BY <1>5, <1>11, <1>12
  <2> QED  BY <1>2, <1>6, <1>9, <1>10, <1>12, <2>1
<1>13. CASE own # {}
  <2>1. u \in own
    BY <1>4, <1>10, <1>13, FirstIsOwned
  <2>2. u \in Positions /\ m[u] = 1
    BY <1>10, <2>1 DEF Owned
  <2>3. u \in 1..(ResponseLength + 1) /\ ~ (u > ResponseLength)
    BY <1>3, <2>2
  <2>4. f[u].value = v[u]
    BY <1>1, <2>2, <2>3 DEF IsGae
  <2>5. x = v[u] /\ y = gae[u]
    BY <1>1, <1>2, <1>5, <1>11, <1>13, <2>2, <2>4
  <2> QED  BY <1>2, <1>6, <1>9, <1>10, <1>13, <2>5
<1> QED  BY <1>12, <1>13

\* The recursion passes the observations under every mask.
LEMMA GaeSeesThePolicy ==
  ASSUME NEW m \in [Positions -> 0..1], NEW r \in [Positions -> 0..1],
         NEW v \in [Positions -> 0..1],
         NEW gamma \in Discounts, NEW lam \in Discounts
  PROVE  SeesOnlyThePolicy(r, v, m, gamma, lam)
<1>1. PICK reward, value : /\ reward = [t \in Positions |-> Frac(r[t], 1)]
                           /\ value = [t \in Positions |-> Frac(v[t], 1)]
  OBVIOUS
<1>2. ASSUME NEW t \in Positions PROVE IsNumber(reward[t]) /\ IsNumber(value[t])
  <2>1. r[t] \in Int /\ v[t] \in Int
    OBVIOUS
  <2> QED  BY <1>1, <2>1, FracIsNumber
<1>3. IsNumber(gamma) /\ IsNumber(lam)
  <2>1. ASSUME NEW d \in 0..DiscountUnit PROVE IsNumber(Frac(d, DiscountUnit))
    <3>1. d \in Int /\ DiscountUnit \in Int /\ DiscountUnit > 0
      BY UpdateAssumption
    <3> QED  BY <3>1, FracIsNumber
  <2> QED  BY <2>1 DEF Discounts
<1>4. PICK gae : gae = Gae(reward, value, m, gamma, lam)
  OBVIOUS
<1> DEFINE own == {t \in Positions : m[t] = 1}
           later(t) == {u \in own : u > t}
           Followed(t, nextValue, nextGae) ==
             Same(gae[t], Plus(Delta(reward[t], gamma, nextValue, value[t]),
                               Times(Times(gamma, lam), nextGae)))
<1>5. ASSUME NEW t \in own
      PROVE  IF later(t) = {} THEN Followed(t, Zero, Zero)
             ELSE LET u == Min(later(t)) IN Followed(t, value[u], gae[u])
  <2>1. t \in Positions /\ m[t] = 1
    OBVIOUS
  <2>2. later(t) = Owned(m, t + 1)
    <3>1. \A u \in Positions : u > t <=> u >= t + 1
      BY <2>1, PositionsFinite
    <3> QED  BY <3>1 DEF Owned
  <2>3. IF Owned(m, t + 1) = {} THEN Followed(t, Zero, Zero)
        ELSE Followed(t, value[Min(Owned(m, t + 1))], gae[Min(Owned(m, t + 1))])
    <3> HIDE DEF own, later
    <3> QED  BY <1>2, <1>3, <1>4, <2>1, GaeOfOwned
  <2> HIDE DEF own, later, Followed
  <2> QED  BY <2>2, <2>3
<1> HIDE DEF Followed
<1>6. \A t \in own : IF later(t) = {} THEN Followed(t, Zero, Zero)
                     ELSE LET u == Min(later(t)) IN Followed(t, value[u], gae[u])
  BY <1>5
<1> QED  BY <1>1, <1>4, <1>6 DEF Followed, SeesOnlyThePolicy

LEMMA NothingDisturbs == DisturbedMasks = {}
<1>1. ASSUME NEW c \in Responses PROVE SeesOnlyThePolicy(c.r, c.v, c.m, c.gamma, c.lam)
  BY GaeSeesThePolicy DEF Responses
<1> QED  BY <1>1 DEF DisturbedMasks

\* ObservationsAreTransparent: for responses of any length and layout, rewards and
\* values of the critic within the property's range and all discounts gamma and lam
\* that are multiples of 1/DiscountUnit, whatever DiscountUnit is, the advantage of
\* a policy token follows from the policy's next token by one step of the
\* recursion, discounted once.
THEOREM ObservationsStayInvisible == Spec => []ObservationsAreTransparent
<1>1. ObservationsAreTransparent
  BY NothingDisturbs DEF ObservationsAreTransparent
<1> QED  BY <1>1, PTL

=============================================================================
