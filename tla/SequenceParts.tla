---------------------------- MODULE SequenceParts ----------------------------
(* Parts and concatenations of sequences by their elements, for proofs that  *)
(* reason about positions.  Cut and Join are names that keep SubSeq and \o   *)
(* from the SMT solver.                                                      *)
EXTENDS SequenceTheorems, TLAPS

Cut(s, m, k) == SubSeq(s, m + 1, m + k)
Join(s, t) == s \o t

(* The elements of a sequence.                                              *)
LEMMA ElementsIn ==
    ASSUME NEW S, NEW s \in Seq(S)
    PROVE  Len(s) \in Nat /\ \A i \in 1..Len(s) : s[i] \in S
BY ElementOfSeq, LenProperties

(* The k elements behind the first m.                                       *)
LEMMA CutParts ==
    ASSUME NEW S, NEW s \in Seq(S), NEW m \in Nat, NEW k \in Nat, m + k <= Len(s)
    PROVE  /\ Cut(s, m, k) \in Seq(S) /\ Len(Cut(s, m, k)) = k
           /\ \A i \in 1..k : Cut(s, m, k)[i] = s[m + i]
<1> DEFINE from1 == m + 1
           to1 == m + k
<1>1. \A i \in from1..to1 : s[i] \in S
  <2> TAKE i \in from1..to1
  <2>1. i \in 1..Len(s)
    BY ElementsIn
  <2> QED BY <2>1, ElementsIn, Zenon
<1>2. from1 \in Int /\ to1 \in Int
  OBVIOUS
<1>3. /\ SubSeq(s, from1, to1) \in Seq(S)
      /\ Len(SubSeq(s, from1, to1)) = IF from1 <= to1 THEN to1 - from1 + 1 ELSE 0
      /\ \A i \in 1..(to1 - from1 + 1) : SubSeq(s, from1, to1)[i] = s[from1 + i - 1]
  <2> HIDE DEF from1, to1
  <2> QED BY <1>1, <1>2, SubSeqProperties
<1> DEFINE c == SubSeq(s, from1, to1)
<1>4. c = Cut(s, m, k)
  BY DEF Cut
<1>5. c \in Seq(S) /\ Len(c) = k /\ \A i \in 1..k : c[i] = s[m + i]
  <2>1. to1 - from1 + 1 = k /\ (from1 <= to1 => k > 0) /\ (~(from1 <= to1) => k = 0)
    OBVIOUS
  <2>2. \A i \in 1..k : from1 + i - 1 = m + i
    OBVIOUS
  <2> HIDE DEF from1, to1
  <2>3. c \in Seq(S) /\ Len(c) = (IF from1 <= to1 THEN to1 - from1 + 1 ELSE 0)
        /\ \A i \in 1..(to1 - from1 + 1) : c[i] = s[from1 + i - 1]
    BY <1>3
  <2> HIDE DEF c
  <2> QED BY <2>1, <2>2, <2>3
<1> HIDE DEF c
<1> QED BY <1>4, <1>5, Zenon

(* One more element.                                                        *)
LEMMA AppendParts ==
    ASSUME NEW S, NEW s \in Seq(S), NEW x \in S
    PROVE  /\ Append(s, x) \in Seq(S) /\ Len(Append(s, x)) = Len(s) + 1
           /\ \A i \in 1..Len(s) : Append(s, x)[i] = s[i]
           /\ Append(s, x)[Len(s) + 1] = x
BY AppendProperties, ElementsIn
=============================================================================
