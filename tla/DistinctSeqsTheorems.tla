------------------------ MODULE DistinctSeqsTheorems ------------------------
(***************************************************************************)
(* What the operations on sequences do to their elements, and to sequences *)
(* without repetitions.                                                    *)
(***************************************************************************)
EXTENDS DistinctSeqs, SequenceTheorems, FiniteSetTheorems, TLAPS

LEMMA ElementsType ==
  ASSUME NEW S, NEW s \in Seq(S)
  PROVE  Elements(s) \subseteq S
BY DEF Elements

LEMMA DistinctEmpty ==
  Distinct(<<>>) /\ Elements(<<>>) = {}
BY DEF Distinct, Elements

LEMMA DistinctTail ==
  ASSUME NEW S, NEW s \in Seq(S), s # <<>>, Distinct(s)
  PROVE  /\ Tail(s) \in Seq(S) /\ Len(Tail(s)) = Len(s) - 1 /\ Distinct(Tail(s))
         /\ Head(s) \in Elements(s) /\ Head(s) \in S
         /\ Elements(Tail(s)) = Elements(s) \ {Head(s)}
<1>1. /\ Head(s) = s[1] /\ Head(s) \in S /\ Tail(s) \in Seq(S)
      /\ Len(s) \in Nat \ {0} /\ Len(Tail(s)) = Len(s) - 1
      /\ \A i \in 1..Len(s) - 1 : Tail(s)[i] = s[i + 1]
  BY HeadTailProperties
<1>2. Distinct(Tail(s))
  BY <1>1 DEF Distinct
<1>3. Head(s) \in Elements(s)
  BY <1>1 DEF Elements
<1>4. Elements(Tail(s)) \subseteq Elements(s) \ {Head(s)}
  <2> SUFFICES ASSUME NEW i \in 1..Len(s) - 1
               PROVE  Tail(s)[i] \in Elements(s) \ {Head(s)}
    BY <1>1 DEF Elements
  <2>1. Tail(s)[i] = s[i + 1] /\ i + 1 \in 1..Len(s) /\ i + 1 # 1 /\ 1 \in 1..Len(s)
    BY <1>1
  <2>2. s[i + 1] # s[1]
    BY <2>1 DEF Distinct
  <2>. QED BY <1>1, <2>1, <2>2 DEF Elements
<1>5. Elements(s) \ {Head(s)} \subseteq Elements(Tail(s))
  <2> SUFFICES ASSUME NEW k \in 1..Len(s), s[k] # s[1]
               PROVE  \E i \in 1..Len(s) - 1 : Tail(s)[i] = s[k]
    BY <1>1 DEF Elements
  <2>1. k - 1 \in 1..Len(s) - 1 /\ Tail(s)[k - 1] = s[k]
    BY <1>1
  <2>. QED BY <2>1
<1>. QED BY <1>1, <1>2, <1>3, <1>4, <1>5

LEMMA DistinctAppend ==
  ASSUME NEW S, NEW s \in Seq(S), NEW x \in S
  PROVE  /\ Append(s, x) \in Seq(S) /\ Len(Append(s, x)) = Len(s) + 1
         /\ Append(s, x) # <<>>
         /\ Elements(Append(s, x)) = Elements(s) \cup {x}
         /\ Distinct(s) /\ x \notin Elements(s) => Distinct(Append(s, x))
<1>1. /\ Append(s, x) \in Seq(S) /\ Append(s, x) # <<>>
      /\ Len(s) \in Nat /\ Len(Append(s, x)) = Len(s) + 1
      /\ \A i \in 1..Len(s) : Append(s, x)[i] = s[i]
      /\ Append(s, x)[Len(s) + 1] = x
  BY AppendProperties
<1>2. Elements(Append(s, x)) = Elements(s) \cup {x}
  <2>1. Elements(Append(s, x)) \subseteq Elements(s) \cup {x}
    <3> SUFFICES ASSUME NEW i \in 1..Len(s) + 1
                 PROVE  Append(s, x)[i] \in Elements(s) \cup {x}
      BY <1>1 DEF Elements
    <3>1. CASE i \in 1..Len(s)
      BY <1>1, <3>1 DEF Elements
    <3>2. CASE i = Len(s) + 1
      BY <1>1, <3>2
    <3>. QED BY <1>1, <3>1, <3>2
  <2>2. Elements(s) \subseteq Elements(Append(s, x))
    <3> SUFFICES ASSUME NEW i \in 1..Len(s)
                 PROVE  \E j \in 1..Len(s) + 1 : Append(s, x)[j] = s[i]
      BY <1>1 DEF Elements
    <3>. QED BY <1>1
  <2>3. x \in Elements(Append(s, x))
    BY <1>1 DEF Elements
  <2>. QED BY <2>1, <2>2, <2>3
<1>3. ASSUME Distinct(s), x \notin Elements(s) PROVE Distinct(Append(s, x))
  BY <1>1, <1>3 DEF Distinct, Elements
<1>. QED BY <1>1, <1>2, <1>3

LEMMA WithoutParts ==
  ASSUME NEW S, NEW s \in Seq(S), NEW k \in 1..Len(s)
  PROVE  /\ Without(s, k) \in Seq(S) /\ Len(Without(s, k)) = Len(s) - 1
         /\ \A i \in 1..Len(s) - 1 :
              Without(s, k)[i] = IF i < k THEN s[i] ELSE s[i + 1]
<1>0. Len(s) \in Nat /\ k \in Nat /\ \A i \in 1..Len(s) : s[i] \in S
  OBVIOUS
<1>1. \A i \in 1..Len(s) - 1 : i \in 1..Len(s) /\ i + 1 \in 1..Len(s)
  BY <1>0
<1>2. Without(s, k) \in [1..Len(s) - 1 -> S]
  BY <1>0, <1>1 DEF Without
<1>3. Len(s) - 1 \in Nat
  BY <1>0
<1>4. Without(s, k) \in Seq(S)
  BY <1>2, <1>3, SeqDef
<1>5. Len(Without(s, k)) = Len(s) - 1
  BY <1>2, <1>3, <1>4, LenProperties
<1>. QED BY <1>4, <1>5 DEF Without

LEMMA DistinctWithout ==
  ASSUME NEW S, NEW s \in Seq(S), NEW k \in 1..Len(s), Distinct(s)
  PROVE  /\ Without(s, k) \in Seq(S) /\ Distinct(Without(s, k))
         /\ Len(Without(s, k)) = Len(s) - 1
         /\ Elements(Without(s, k)) = Elements(s) \ {s[k]}
         /\ k # 1 => Head(Without(s, k)) = Head(s)
<1>0. Len(s) \in Nat /\ k \in Nat
  OBVIOUS
<1>1. PICK r : /\ r = Without(s, k) /\ r \in Seq(S) /\ Len(r) = Len(s) - 1
               /\ \A i \in 1..Len(s) - 1 :
                    r[i] = IF i < k THEN s[i] ELSE s[i + 1]
  BY WithoutParts
<1>2. \A i \in 1..Len(s) - 1 : i \in 1..Len(s) /\ i + 1 \in 1..Len(s)
  BY <1>0
<1>3. Distinct(r)
  <2> SUFFICES ASSUME NEW i \in 1..Len(s) - 1, NEW j \in 1..Len(s) - 1, r[i] = r[j]
               PROVE  i = j
    BY <1>1 DEF Distinct
  <2>. QED BY <1>0, <1>1, <1>2 DEF Distinct
<1>4. Elements(r) \subseteq Elements(s) \ {s[k]}
  <2> SUFFICES ASSUME NEW i \in 1..Len(s) - 1
               PROVE  r[i] \in Elements(s) \ {s[k]}
    BY <1>1 DEF Elements
  <2>1. PICK j \in 1..Len(s) : r[i] = s[j] /\ j # k
    <3>1. CASE i < k
      BY <1>0, <1>1, <1>2, <3>1
    <3>2. CASE ~(i < k)
      BY <1>0, <1>1, <1>2, <3>2
    <3>. QED BY <3>1, <3>2
  <2>. QED BY <2>1 DEF Elements, Distinct
<1>5. Elements(s) \ {s[k]} \subseteq Elements(r)
  <2> SUFFICES ASSUME NEW j \in 1..Len(s), j # k
               PROVE  \E i \in 1..Len(s) - 1 : r[i] = s[j]
    <3>1. Elements(r) = {r[i] : i \in 1..Len(s) - 1}
      BY <1>1 DEF Elements
    <3>. QED BY <3>1 DEF Elements
  <2>1. CASE j < k
    <3>1. j \in 1..Len(s) - 1
      BY <1>0, <2>1
    <3>. QED BY <1>1, <2>1, <3>1
  <2>2. CASE j > k
    <3>1. j - 1 \in 1..Len(s) - 1 /\ ~(j - 1 < k) /\ (j - 1) + 1 = j
      BY <1>0, <2>2
    <3>. QED BY <1>1, <3>1
  <2>. QED BY <1>0, <2>1, <2>2
<1>6. ASSUME k # 1 PROVE Head(r) = Head(s)
  <2>1. 1 \in 1..Len(s) - 1 /\ 1 < k
    BY <1>0, <1>6
  <2>2. r[1] = s[1]
    BY <1>1, <2>1
  <2>3. Head(r) = r[1] /\ Head(s) = s[1]
    BY <1>1, <2>1
  <2>. QED BY <2>2, <2>3
<1>. QED BY <1>1, <1>3, <1>4, <1>5, <1>6

(* A sequence without repetitions has as many elements as it is long.       *)
LEMMA DistinctCardinality ==
  ASSUME NEW S, NEW s \in Seq(S), Distinct(s)
  PROVE  IsFiniteSet(Elements(s)) /\ Cardinality(Elements(s)) = Len(s)
<1>1. Len(s) \in Nat /\ s \in [1..Len(s) -> S]
  OBVIOUS
<1>2. s \in Bijection(1..Len(s), Elements(s))
  <2>1. s \in [1..Len(s) -> Elements(s)]
    BY <1>1 DEF Elements
  <2>2. \A t \in Elements(s) : \E k \in 1..Len(s) : s[k] = t
    BY DEF Elements
  <2>3. \A i, j \in 1..Len(s) : s[i] = s[j] => i = j
    BY DEF Distinct
  <2>. QED BY <2>1, <2>2, <2>3 DEF Bijection, Injection, IsInjective, Surjection
<1>3. ExistsBijection(1..Len(s), Elements(s))
  BY <1>2 DEF ExistsBijection
<1>. QED BY <1>1, <1>3, FS_CountingElements, FS_NatBijection
=============================================================================
