------------------------------- MODULE Queues -------------------------------
(***************************************************************************)
(* Facts about the FIFO queues of the models: what is in one, how often, and *)
(* what appending to it and taking its head do to that.                     *)
(***************************************************************************)
EXTENDS Integers, Sequences, FiniteSets, Functions, SequenceTheorems, FiniteSetTheorems,
        FunctionTheorems, TLAPS

\* Something of P is in the queue; no more than once; how many times.
Some(s, P) == \E i \in 1..Len(s) : s[i] \in P
Once(s, P) == \A i, j \in 1..Len(s) : s[i] \in P /\ s[j] \in P => i = j
\* The last of P in the queue is x.
Ends(s, P, x) ==
    \E i \in 1..Len(s) : s[i] = x /\ \A j \in 1..Len(s) : j > i => s[j] \notin P

Where(s, P) == {i \in 1..Len(s) : s[i] \in P}
Count(s, P) == Cardinality(Where(s, P))

-----------------------------------------------------------------------------
(* What appending and taking do to a queue.                                 *)

LEMMA AppendKeeps ==
    ASSUME NEW S, NEW s \in Seq(S), NEW x \in S, NEW P
    PROVE  /\ Append(s, x) \in Seq(S) /\ Len(Append(s, x)) = Len(s) + 1 /\ Len(s) \in Nat
           /\ \A i \in 1..Len(Append(s, x)) :
                 Append(s, x)[i] = IF i <= Len(s) THEN s[i] ELSE x
           /\ Some(Append(s, x), P) <=> Some(s, P) \/ x \in P
           /\ Once(s, P) /\ (x \in P => ~Some(s, P)) => Once(Append(s, x), P)
<1>1. /\ Append(s, x) \in Seq(S) /\ Len(Append(s, x)) = Len(s) + 1 /\ Len(s) \in Nat
      /\ \A i \in 1..Len(s) : Append(s, x)[i] = s[i]
      /\ Append(s, x)[Len(s) + 1] = x
      BY AppendProperties, LenProperties
<1>2. \A i \in 1..(Len(s) + 1) : Append(s, x)[i] = IF i <= Len(s) THEN s[i] ELSE x
      BY <1>1
<1>3. Some(Append(s, x), P) <=> Some(s, P) \/ x \in P
      BY <1>1, <1>2 DEF Some
<1>4. ASSUME Once(s, P), x \in P => ~Some(s, P) PROVE Once(Append(s, x), P)
      BY <1>1, <1>2, <1>4 DEF Some, Once
<1> QED BY <1>1, <1>2, <1>3, <1>4

LEMMA TailKeeps ==
    ASSUME NEW S, NEW s \in Seq(S), s # <<>>, NEW P
    PROVE  /\ Tail(s) \in Seq(S) /\ Len(Tail(s)) = Len(s) - 1 /\ Len(s) \in Nat \ {0}
           /\ Head(s) \in S /\ Head(s) = s[1]
           /\ \A i \in 1..Len(Tail(s)) : Tail(s)[i] = s[i + 1]
           /\ Some(Tail(s), P) => Some(s, P)
           /\ Head(s) \in P => Some(s, P)
           /\ Once(s, P) => Once(Tail(s), P)
           /\ Once(s, P) /\ Head(s) \in P => ~Some(Tail(s), P)
           /\ Some(s, P) /\ Head(s) \notin P => Some(Tail(s), P)
<1>1. /\ Tail(s) \in Seq(S) /\ Len(Tail(s)) = Len(s) - 1 /\ Len(s) \in Nat \ {0}
      /\ Head(s) \in S /\ Head(s) = s[1]
      /\ \A i \in 1..Len(Tail(s)) : Tail(s)[i] = s[i + 1]
      BY HeadTailProperties, EmptySeq
<1>2. \A i \in 1..Len(Tail(s)) : i + 1 \in 1..Len(s) /\ i + 1 # 1
      BY <1>1
<1>3. Some(Tail(s), P) => Some(s, P)
      BY <1>1, <1>2 DEF Some
<1>4. Head(s) \in P => Some(s, P)
      BY <1>1 DEF Some
<1>5. Once(s, P) => Once(Tail(s), P)
      BY <1>1, <1>2 DEF Once
<1>6. Once(s, P) /\ Head(s) \in P => ~Some(Tail(s), P)
      BY <1>1, <1>2 DEF Once, Some
<1>7. ASSUME Some(s, P), Head(s) \notin P PROVE Some(Tail(s), P)
      <2>1. PICK i \in 1..Len(s) : s[i] \in P
            BY <1>7 DEF Some
      <2>2. i - 1 \in 1..Len(Tail(s)) /\ Tail(s)[i - 1] = s[(i - 1) + 1] /\ (i - 1) + 1 = i
            BY <1>1, <1>7, <2>1
      <2> QED BY <2>1, <2>2 DEF Some
<1> QED BY <1>1, <1>3, <1>4, <1>5, <1>6, <1>7

\* A queue's places are finite, so what is in it can be counted.
LEMMA CountType ==
    ASSUME NEW S, NEW s \in Seq(S), NEW P
    PROVE  /\ IsFiniteSet(Where(s, P)) /\ Count(s, P) \in Nat
           /\ Count(s, P) = 0 <=> ~Some(s, P)
<1>1. Len(s) \in Nat /\ Where(s, P) \in SUBSET (1..Len(s))
      BY LenProperties DEF Where
<1>2. IsFiniteSet(1..Len(s))
      BY <1>1, FS_Interval
<1>3. IsFiniteSet(Where(s, P))
      BY <1>1, <1>2, FS_Subset
<1>4. Count(s, P) \in Nat /\ (Count(s, P) = 0 <=> Where(s, P) = {})
      BY <1>3, FS_CardinalityType, FS_EmptySet DEF Count
<1>5. Where(s, P) = {} <=> ~Some(s, P)
      BY DEF Where, Some
<1> QED BY <1>3, <1>4, <1>5

LEMMA CountAppend ==
    ASSUME NEW S, NEW s \in Seq(S), NEW x \in S, NEW P
    PROVE  Count(Append(s, x), P) = IF x \in P THEN Count(s, P) + 1 ELSE Count(s, P)
<1>1. /\ Len(Append(s, x)) = Len(s) + 1 /\ Len(s) \in Nat
      /\ \A i \in 1..Len(Append(s, x)) :
            Append(s, x)[i] = IF i <= Len(s) THEN s[i] ELSE x
      BY AppendKeeps
<1>2. Where(Append(s, x), P) =
         IF x \in P THEN Where(s, P) \cup {Len(s) + 1} ELSE Where(s, P)
      BY <1>1 DEF Where
<1>3. Len(s) + 1 \notin Where(s, P) /\ IsFiniteSet(Where(s, P))
      BY <1>1, CountType DEF Where
<1> QED BY <1>2, <1>3, FS_AddElement DEF Count

\* Taking the head moves every place down by one.
LEMMA CountTail ==
    ASSUME NEW S, NEW s \in Seq(S), s # <<>>, NEW P
    PROVE  Count(Tail(s), P) = IF Head(s) \in P THEN Count(s, P) - 1 ELSE Count(s, P)
<1> DEFINE down == [i \in Where(s, P) \ {1} |-> i - 1]
<1>1. /\ Len(Tail(s)) = Len(s) - 1 /\ Len(s) \in Nat \ {0} /\ Head(s) = s[1]
      /\ \A i \in 1..Len(Tail(s)) : Tail(s)[i] = s[i + 1]
      BY TailKeeps
<1>2. \A i \in Where(s, P) \ {1} : i \in 2..Len(s) /\ i - 1 \in Where(Tail(s), P)
      <2> SUFFICES ASSUME NEW i \in Where(s, P) \ {1}
                   PROVE  i \in 2..Len(s) /\ i - 1 \in Where(Tail(s), P)
          OBVIOUS
      <2>1. i \in 2..Len(s) /\ i - 1 \in 1..Len(Tail(s)) /\ s[i] \in P
            BY <1>1 DEF Where
      <2>2. Tail(s)[i - 1] = s[(i - 1) + 1] /\ (i - 1) + 1 = i
            BY <1>1, <2>1
      <2> QED BY <2>1, <2>2 DEF Where
<1>3. \A j \in Where(Tail(s), P) : j + 1 \in Where(s, P) \ {1} /\ (j + 1) - 1 = j
      BY <1>1 DEF Where
<1>4. down \in Bijection(Where(s, P) \ {1}, Where(Tail(s), P))
      <2>1. down \in [Where(s, P) \ {1} -> Where(Tail(s), P)]
            BY <1>2
      <2>2. \A i, j \in Where(s, P) \ {1} : down[i] = down[j] => i = j
            BY <1>2
      <2>3. \A j \in Where(Tail(s), P) : \E i \in Where(s, P) \ {1} : down[i] = j
            BY <1>3
      <2> QED BY <2>1, <2>2, <2>3, Fun_IsBij
<1>5. IsFiniteSet(Where(s, P)) /\ Count(s, P) \in Nat
      BY CountType
<1>6. /\ IsFiniteSet(Where(s, P) \ {1})
      /\ Cardinality(Where(s, P) \ {1}) =
            IF 1 \in Where(s, P) THEN Count(s, P) - 1 ELSE Count(s, P)
      BY <1>5, FS_RemoveElement DEF Count
<1>7. Count(Tail(s), P) = Cardinality(Where(s, P) \ {1})
      BY <1>4, <1>6, FS_Bijection DEF ExistsBijection, Count
<1>8. 1 \in Where(s, P) <=> Head(s) \in P
      BY <1>1 DEF Where
<1> QED BY <1>6, <1>7, <1>8

-----------------------------------------------------------------------------
(* What one more frame does, or two, and one less.                          *)

LEMMA EndsAppend ==
    ASSUME NEW S, NEW s \in Seq(S), NEW x \in S, NEW P
    PROVE  /\ Ends(Append(s, x), P, x)
           /\ \A z : x \notin P /\ Ends(s, P, z) => Ends(Append(s, x), P, z)
<1>1. /\ Len(Append(s, x)) = Len(s) + 1 /\ Len(s) \in Nat
      /\ \A i \in 1..Len(Append(s, x)) :
            Append(s, x)[i] = IF i <= Len(s) THEN s[i] ELSE x
      BY AppendKeeps
<1>2. Ends(Append(s, x), P, x)
      <2>1. Len(s) + 1 \in 1..Len(Append(s, x)) /\ Append(s, x)[Len(s) + 1] = x
            BY <1>1
      <2> QED BY <1>1, <2>1 DEF Ends
<1>3. ASSUME NEW z, x \notin P, Ends(s, P, z) PROVE Ends(Append(s, x), P, z)
      <2>1. PICK i \in 1..Len(s) : s[i] = z /\ \A j \in 1..Len(s) : j > i => s[j] \notin P
            BY <1>3 DEF Ends
      <2>2. i \in 1..Len(Append(s, x)) /\ Append(s, x)[i] = z
            BY <1>1, <2>1
      <2>3. \A j \in 1..Len(Append(s, x)) : j > i => Append(s, x)[j] \notin P
            BY <1>1, <1>3, <2>1
      <2> QED BY <2>2, <2>3 DEF Ends
<1> QED BY <1>2, <1>3

LEMMA EndsTail ==
    ASSUME NEW S, NEW s \in Seq(S), s # <<>>, NEW P, NEW z, Ends(s, P, z)
    PROVE  Ends(Tail(s), P, z) \/ (Head(s) = z /\ ~Some(Tail(s), P))
<1>1. /\ Len(Tail(s)) = Len(s) - 1 /\ Len(s) \in Nat \ {0} /\ Head(s) = s[1]
      /\ \A i \in 1..Len(Tail(s)) : Tail(s)[i] = s[i + 1]
      BY TailKeeps
<1>2. PICK i \in 1..Len(s) : s[i] = z /\ \A j \in 1..Len(s) : j > i => s[j] \notin P
      BY DEF Ends
<1>3. \A j \in 1..Len(Tail(s)) : j + 1 \in 1..Len(s) /\ (j + 1 > i <=> j > i - 1)
      BY <1>1
<1>4. CASE i = 1
      <2>1. \A j \in 1..Len(Tail(s)) : Tail(s)[j] \notin P
            BY <1>1, <1>2, <1>3, <1>4
      <2> QED BY <1>1, <1>2, <1>4, <2>1 DEF Some
<1>5. CASE i # 1
      <2>1. i - 1 \in 1..Len(Tail(s)) /\ (i - 1) + 1 = i
            BY <1>1, <1>5
      <2>2. Tail(s)[i - 1] = z
            BY <1>1, <1>2, <2>1
      <2>3. \A j \in 1..Len(Tail(s)) : j > i - 1 => Tail(s)[j] \notin P
            BY <1>1, <1>2, <1>3
      <2> QED BY <2>1, <2>2, <2>3 DEF Ends
<1> QED BY <1>4, <1>5

LEMMA OneMore ==
    ASSUME NEW S, NEW s \in Seq(S), NEW x \in S
    PROVE  /\ s \o <<x>> \in Seq(S)
           /\ \A P : Some(s \o <<x>>, P) <=> Some(s, P) \/ x \in P
           /\ \A P : Once(s, P) /\ (x \in P => ~Some(s, P)) => Once(s \o <<x>>, P)
           /\ \A P : Count(s \o <<x>>, P) = IF x \in P THEN Count(s, P) + 1 ELSE Count(s, P)
           /\ \A P : Ends(s \o <<x>>, P, x)
           /\ \A P, z : x \notin P /\ Ends(s, P, z) => Ends(s \o <<x>>, P, z)
<1>1. s \o <<x>> = Append(s, x)
      BY AppendIsConcat
<1>2. Append(s, x) \in Seq(S)
      OBVIOUS
<1>3. ASSUME NEW P
      PROVE  /\ Some(Append(s, x), P) <=> Some(s, P) \/ x \in P
             /\ Once(s, P) /\ (x \in P => ~Some(s, P)) => Once(Append(s, x), P)
      BY AppendKeeps
<1>4. ASSUME NEW P
      PROVE  Count(Append(s, x), P) = IF x \in P THEN Count(s, P) + 1 ELSE Count(s, P)
      BY CountAppend
<1>5. ASSUME NEW P
      PROVE  /\ Ends(Append(s, x), P, x)
             /\ \A z : x \notin P /\ Ends(s, P, z) => Ends(Append(s, x), P, z)
      BY EndsAppend
<1> QED BY <1>1, <1>2, <1>3, <1>4, <1>5

LEMMA TwoMore ==
    ASSUME NEW S, NEW s \in Seq(S), NEW x \in S, NEW y \in S
    PROVE  /\ s \o <<x, y>> \in Seq(S)
           /\ \A P : Some(s \o <<x, y>>, P) <=> Some(s, P) \/ x \in P \/ y \in P
           /\ \A P : x \notin P /\ Once(s, P) /\ (y \in P => ~Some(s, P)) => Once(s \o <<x, y>>, P)
           /\ \A P : Count(s \o <<x, y>>, P) =
                       Count(s, P) + (IF x \in P THEN 1 ELSE 0) + (IF y \in P THEN 1 ELSE 0)
           /\ \A P : Ends(s \o <<x, y>>, P, y)
           /\ \A P, z : x \notin P /\ y \notin P /\ Ends(s, P, z) => Ends(s \o <<x, y>>, P, z)
<1> DEFINE one == Append(s, x)
           two == Append(one, y)
<1>1. one \in Seq(S) /\ two \in Seq(S)
      OBVIOUS
<1>2. s \o <<x, y>> = two
      <2>1. /\ Len(one) = Len(s) + 1 /\ Len(two) = Len(s) + 2 /\ Len(s) \in Nat
            /\ \A i \in 1..Len(s) : two[i] = s[i]
            /\ two[Len(s) + 1] = x /\ two[Len(s) + 2] = y
            BY <1>1, AppendProperties, LenProperties
      <2>2. /\ <<x, y>> \in Seq(S) /\ Len(<<x, y>>) = 2
            /\ <<x, y>>[1] = x /\ <<x, y>>[2] = y
            OBVIOUS
      <2>3. /\ s \o <<x, y>> \in Seq(S) /\ Len(s \o <<x, y>>) = Len(s) + 2
            /\ \A i \in 1..(Len(s) + 2) : (s \o <<x, y>>)[i] =
                  IF i <= Len(s) THEN s[i] ELSE <<x, y>>[i - Len(s)]
            BY <2>2, ConcatProperties
      <2>4. \A i \in 1..(Len(s) + 2) : (s \o <<x, y>>)[i] = two[i]
            <3> SUFFICES ASSUME NEW i \in 1..(Len(s) + 2) PROVE (s \o <<x, y>>)[i] = two[i]
                OBVIOUS
            <3>1. CASE i <= Len(s)
                  BY <2>1, <2>3, <3>1
            <3>2. CASE i = Len(s) + 1
                  BY <2>1, <2>2, <2>3, <3>2
            <3>3. CASE i = Len(s) + 2
                  BY <2>1, <2>2, <2>3, <3>3
            <3> QED BY <2>1, <3>1, <3>2, <3>3
      <2> QED BY <1>1, <2>1, <2>3, <2>4, SeqEqual
<1> HIDE DEF one
<1>3. ASSUME NEW P
      PROVE  /\ Some(one, P) <=> Some(s, P) \/ x \in P
             /\ Once(s, P) /\ (x \in P => ~Some(s, P)) => Once(one, P)
      BY AppendKeeps DEF one
<1>4. ASSUME NEW P
      PROVE  /\ Some(two, P) <=> Some(one, P) \/ y \in P
             /\ Once(one, P) /\ (y \in P => ~Some(one, P)) => Once(two, P)
      BY <1>1, AppendKeeps
<1>5. ASSUME NEW P
      PROVE  /\ Count(s, P) \in Nat
             /\ Count(one, P) = IF x \in P THEN Count(s, P) + 1 ELSE Count(s, P)
             /\ Count(two, P) = IF y \in P THEN Count(one, P) + 1 ELSE Count(one, P)
      <2>1. Count(s, P) \in Nat
            BY CountType
      <2>2. Count(one, P) = IF x \in P THEN Count(s, P) + 1 ELSE Count(s, P)
            BY CountAppend DEF one
      <2>3. Count(two, P) = IF y \in P THEN Count(one, P) + 1 ELSE Count(one, P)
            BY <1>1, CountAppend
      <2> QED BY <2>1, <2>2, <2>3
<1>6. ASSUME NEW P
      PROVE  /\ Ends(two, P, y)
             /\ \A z : y \notin P /\ Ends(one, P, z) => Ends(two, P, z)
      BY <1>1, EndsAppend
<1>7. ASSUME NEW P
      PROVE  \A z : x \notin P /\ Ends(s, P, z) => Ends(one, P, z)
      BY EndsAppend DEF one
<1> HIDE DEF two
<1>8. ASSUME NEW P
      PROVE  Count(two, P) =
                Count(s, P) + (IF x \in P THEN 1 ELSE 0) + (IF y \in P THEN 1 ELSE 0)
      BY <1>5
<1>9. ASSUME NEW P
      PROVE  /\ Some(two, P) <=> Some(s, P) \/ x \in P \/ y \in P
             /\ x \notin P /\ Once(s, P) /\ (y \in P => ~Some(s, P)) => Once(two, P)
      BY <1>3, <1>4
<1>10. ASSUME NEW P
       PROVE  \A z : x \notin P /\ y \notin P /\ Ends(s, P, z) => Ends(two, P, z)
       BY <1>6, <1>7
<1> QED BY <1>1, <1>2, <1>6, <1>8, <1>9, <1>10

LEMMA OneLess ==
    ASSUME NEW S, NEW s \in Seq(S), s # <<>>
    PROVE  /\ Tail(s) \in Seq(S) /\ Head(s) \in S
           /\ \A P : Some(s, P) <=> Head(s) \in P \/ Some(Tail(s), P)
           /\ \A P : Once(s, P) => Once(Tail(s), P) /\ (Head(s) \in P => ~Some(Tail(s), P))
           /\ \A P : Count(Tail(s), P) = IF Head(s) \in P THEN Count(s, P) - 1 ELSE Count(s, P)
           /\ \A P, z : Ends(s, P, z)
                 => Ends(Tail(s), P, z) \/ (Head(s) = z /\ ~Some(Tail(s), P))
BY TailKeeps, CountTail, EndsTail

LEMMA NoItem ==
    ASSUME NEW S
    PROVE  /\ <<>> \in Seq(S)
           /\ \A P : ~Some(<<>>, P) /\ Once(<<>>, P) /\ Count(<<>>, P) = 0
<1>1. <<>> \in Seq(S) /\ \A P : ~Some(<<>>, P) /\ Once(<<>>, P)
      BY EmptySeq DEF Some, Once
<1> QED BY <1>1, CountType

LEMMA OneItem ==
    ASSUME NEW S, NEW x \in S
    PROVE  /\ <<x>> \in Seq(S)
           /\ \A P : (Some(<<x>>, P) <=> x \in P) /\ Once(<<x>>, P)
           /\ \A P : Count(<<x>>, P) = IF x \in P THEN 1 ELSE 0
<1>1. <<x>> \in Seq(S) /\ Len(<<x>>) = 1 /\ <<x>>[1] = x
      OBVIOUS
<1>2. \A P : (Some(<<x>>, P) <=> x \in P) /\ Once(<<x>>, P)
      BY <1>1 DEF Some, Once
<1>3. ASSUME NEW P PROVE Count(<<x>>, P) = IF x \in P THEN 1 ELSE 0
      <2>1. Where(<<x>>, P) = IF x \in P THEN {1} ELSE {}
            BY <1>1 DEF Where
      <2> QED BY <2>1, FS_EmptySet, FS_Singleton DEF Count
<1> QED BY <1>1, <1>2, <1>3
=============================================================================
