------------------------------ MODULE LogLemmas ------------------------------
(* Facts about logs, the sequences of records that journals and histories are, *)
(* and about the largest of a set of their indices.                            *)
EXTENDS Integers, Sequences, FiniteSetsExt, SequenceTheorems, WellFoundedInduction, TLAPS

\* A sequence, whatever it is a sequence of.
IsLog(s) == s \in Seq(Range(s))

LEMMA LogFacts ==
    ASSUME NEW s, IsLog(s)
    PROVE  /\ Len(s) \in Nat
           /\ DOMAIN s = 1..Len(s)
           /\ s # << >> => Len(s) >= 1
BY LenProperties, EmptySeq DEF IsLog

\* Any sequence is a log.
LEMMA SeqIsLog ==
    ASSUME NEW S, NEW s \in Seq(S)
    PROVE  IsLog(s)
<1>1. Len(s) \in Nat /\ s \in [1..Len(s) -> S]
  BY LenProperties
<1>2. s \in [1..Len(s) -> Range(s)]
  BY <1>1 DEF Range
<1>3. QED
  BY <1>1, <1>2, SeqDef DEF IsLog

LEMMA LongerLog ==
    ASSUME NEW s, IsLog(s), NEW e
    PROVE  /\ IsLog(Append(s, e)) /\ Append(s, e) # << >>
           /\ Len(Append(s, e)) = Len(s) + 1
           /\ DOMAIN Append(s, e) = 1..(Len(s) + 1)
           /\ \A i \in 1..Len(s) : Append(s, e)[i] = s[i]
           /\ Append(s, e)[Len(s) + 1] = e
<1> DEFINE S == Range(s) \cup {e}
<1>1. s \in Seq(S)
  <2>1. s \in Seq(Range(s)) /\ Range(s) \subseteq S
    BY DEF IsLog
  <2>2. QED
    BY <2>1, SeqMonotonic
<1>2. e \in S
  OBVIOUS
<1> HIDE DEF S
<1>3. /\ Append(s, e) \in Seq(S) /\ Append(s, e) # << >>
      /\ Len(Append(s, e)) = Len(s) + 1
      /\ \A i \in 1..Len(s) : Append(s, e)[i] = s[i]
      /\ Append(s, e)[Len(s) + 1] = e
  BY <1>1, <1>2, AppendProperties
<1>4. IsLog(Append(s, e))
  BY <1>3, SeqIsLog
<1>5. DOMAIN Append(s, e) = 1..(Len(s) + 1)
  BY <1>3, LenProperties
<1>6. QED
  BY <1>3, <1>4, <1>5

LEMMA PrefixLog ==
    ASSUME NEW s, IsLog(s), NEW n \in 0..Len(s)
    PROVE  /\ IsLog(SubSeq(s, 1, n))
           /\ Len(SubSeq(s, 1, n)) = n
           /\ DOMAIN SubSeq(s, 1, n) = 1..n
           /\ \A i \in 1..n : SubSeq(s, 1, n)[i] = s[i]
<1>1. Len(s) \in Nat /\ \A i \in 1..n : s[i] \in Range(s)
  BY LogFacts DEF Range
<1>2. /\ SubSeq(s, 1, n) \in Seq(Range(s))
      /\ Len(SubSeq(s, 1, n)) = n
      /\ \A i \in 1..n : SubSeq(s, 1, n)[i] = s[i]
  BY <1>1, SubSeqProperties
<1>3. QED
  BY <1>2, SeqIsLog, LenProperties

LEMMA SameLog ==
    ASSUME NEW s, NEW t, IsLog(s), IsLog(t), Len(s) = Len(t),
           \A i \in 1..Len(s) : s[i] = t[i]
    PROVE  s = t
<1>1. s \in Seq(Range(s) \cup Range(t)) /\ t \in Seq(Range(s) \cup Range(t))
  <2>1. s \in Seq(Range(s)) /\ t \in Seq(Range(t))
    BY DEF IsLog
  <2>2. QED
    BY <2>1, SeqMonotonic
<1>2. QED
  BY <1>1, SeqEqual

LEMMA PrefixOfLonger ==
    ASSUME NEW s, IsLog(s), NEW e, NEW n \in 0..Len(s)
    PROVE  SubSeq(Append(s, e), 1, n) = SubSeq(s, 1, n)
<1>1. Len(s) \in Nat /\ IsLog(Append(s, e)) /\ Len(Append(s, e)) = Len(s) + 1
      /\ \A i \in 1..Len(s) : Append(s, e)[i] = s[i]
  BY LogFacts, LongerLog
<1>2. /\ IsLog(SubSeq(Append(s, e), 1, n)) /\ Len(SubSeq(Append(s, e), 1, n)) = n
      /\ \A i \in 1..n : SubSeq(Append(s, e), 1, n)[i] = Append(s, e)[i]
  <2>1. n \in 0..Len(Append(s, e))
    BY <1>1
  <2>2. QED
    BY <1>1, <2>1, PrefixLog
<1>3. /\ IsLog(SubSeq(s, 1, n)) /\ Len(SubSeq(s, 1, n)) = n
      /\ \A i \in 1..n : SubSeq(s, 1, n)[i] = s[i]
  BY PrefixLog
<1>4. QED
  BY <1>1, <1>2, <1>3, SameLog

LEMMA WholeLog ==
    ASSUME NEW s, IsLog(s)
    PROVE  SubSeq(s, 1, Len(s)) = s
BY SubSeqFull DEF IsLog

\* A set of indices that is not empty has a largest one.
LEMMA LargestIndex ==
    ASSUME NEW n \in Nat, NEW T \in SUBSET (1..n), T # {}
    PROVE  /\ Max(T) \in T
           /\ \A y \in T : y <= Max(T)
<1>1. PICK g \in {n - x : x \in T} : \A h \in {n - x : x \in T} : ~ (<<h, g>> \in OpToRel(<, Nat))
  <2>1. \A x \in T : n - x \in Nat
    OBVIOUS
  <2>2. {n - x : x \in T} \subseteq Nat /\ {n - x : x \in T} # {}
    BY <2>1
  <2>3. QED
    BY <2>2, NatLessThanWellFounded, WFMin
<1>2. PICK x \in T : g = n - x
  OBVIOUS
<1>3. ASSUME NEW y \in T PROVE x >= y
  <2>1. x \in Nat /\ y \in Nat /\ n - y \in Nat /\ n - x \in Nat
    OBVIOUS
  <2>2. ~ (<<n - y, n - x>> \in OpToRel(<, Nat))
    BY <1>1, <1>2
  <2>3. ~ (n - y < n - x)
    BY <2>1, <2>2 DEF OpToRel
  <2>4. QED
    BY <2>1, <2>3
<1>4. T \subseteq Int /\ \E z \in T : \A y \in T : z >= y
  BY <1>3
<1>5. Max(T) \in T /\ \A y \in T : Max(T) >= y
  BY <1>4 DEF Max
<1>6. QED
  BY <1>4, <1>5
\* And a smallest one.
LEMMA SmallestIndex ==
    ASSUME NEW n \in Nat, NEW T \in SUBSET (1..n), T # {}
    PROVE  /\ Min(T) \in T
           /\ \A y \in T : Min(T) <= y
<1>1. PICK x \in T : \A y \in T : ~ (<<y, x>> \in OpToRel(<, Nat))
  <2>1. T \subseteq Nat
    OBVIOUS
  <2>2. QED
    BY <2>1, NatLessThanWellFounded, WFMin
<1>2. ASSUME NEW y \in T PROVE x <= y
  <2>1. x \in Nat /\ y \in Nat
    OBVIOUS
  <2>2. ~ (y < x)
    BY <1>1, <2>1 DEF OpToRel
  <2>3. QED
    BY <2>1, <2>2
<1>3. T \subseteq Int /\ \E z \in T : \A y \in T : z <= y
  BY <1>2
<1>4. Min(T) \in T /\ \A y \in T : Min(T) <= y
  BY <1>3 DEF Min
<1>5. QED
  BY <1>4
\* The length of a log that has one event.
LEMMA OneLong == \A n \in Nat : n >= 1 /\ ~ (n >= 2) => n = 1
OBVIOUS
==============================================================================
