---------------------------- MODULE StreamProofs ----------------------------
(***************************************************************************)
(* Safety of the bytes of a connection, for every stream, chunk size, MSS  *)
(* and base: a rewritten ClientHello carries what the client's does, and a *)
(* stream that nobody rewrites arrives as it was.                          *)
(*                                                                         *)
(* The definitions of FirstRecord on data are recursive functions of an    *)
(* offset.  The least-number principle makes induction on it a statement   *)
(* about sets, and from the induction follows that such a function exists. *)
(***************************************************************************)
EXTENDS FirstRecord, Integers, SequenceTheorems, FiniteSetTheorems, TLAPS

Octets == 0..(Base - 1)

(***************************************************************************)
(* Induction                                                               *)
(***************************************************************************)

\* The least-number principle.  Decrementing would map the numbers that are not
\* below all of T one to one to themselves, though not to the greatest of them.
LEMMA LeastNumber ==
  ASSUME NEW T \in SUBSET Nat, T # {}
  PROVE  \E x \in T : \A y \in T : x <= y
<1> SUFFICES ASSUME \A x \in T : \E y \in T : y < x
             PROVE  FALSE
  OBVIOUS
<1>1. PICK t \in T : TRUE
  OBVIOUS
<1> DEFINE C == {x \in 0..t : \E y \in T : y <= x}
           down == [x \in C |-> x - 1]
<1>2. \A x \in C : x - 1 \in C
  <2> SUFFICES ASSUME NEW x \in C PROVE x - 1 \in C
    OBVIOUS
  <2>1. PICK y \in T : y <= x
    OBVIOUS
  <2>2. PICK z \in T : z < y
    OBVIOUS
  <2>3. z <= x - 1 /\ x - 1 \in 0..t
    BY <2>1, <2>2
  <2>4. QED
    BY <2>3
<1>3. IsFiniteSet(C)
  <2>1. IsFiniteSet(0..t) /\ C \in SUBSET (0..t)
    BY FS_Interval
  <2> HIDE DEF C
  <2>2. QED
    BY <2>1, FS_Subset
<1>4. t \in C /\ \A x \in C : x \in Nat /\ x <= t
  OBVIOUS
<1> HIDE DEF C
<1>5. down \in [C -> C] /\ \A x \in C : down[x] = x - 1
  BY <1>2
<1> HIDE DEF down
<1>6. \A x, y \in C : down[x] = down[y] => x = y
  BY <1>4, <1>5
<1>7. down \in Injection(C, C)
  BY <1>5, <1>6 DEF Injection, IsInjective
<1>8. down \in Surjection(C, C)
  BY <1>3, <1>7, FS_Injection
<1>9. PICK x \in C : down[x] = t
  BY <1>4, <1>8 DEF Surjection
<1>10. QED
  BY <1>4, <1>5, <1>9

\* What holds of a number when it holds of all lower ones holds of all.
LEMMA NoLeast ==
  ASSUME NEW m \in Nat, NEW H \in SUBSET (0..m),
         \A k \in 0..m : (\A j \in 0..m : j < k => j \in H) => k \in H
  PROVE  H = 0..m
<1> DEFINE U == {x \in 0..m : x \notin H}
<1> SUFFICES ASSUME U # {} PROVE FALSE
  OBVIOUS
<1>1. PICK x \in U : \A y \in U : x <= y
  <2>1. U \in SUBSET Nat
    OBVIOUS
  <2> HIDE DEF U
  <2>2. QED
    BY <2>1, LeastNumber
<1>2. \A j \in 0..m : j < x => j \in H
  BY <1>1
<1>3. QED
  BY <1>1, <1>2

(***************************************************************************)
(* Recursion over the records of some data                                 *)
(***************************************************************************)

\* A complete record ends within the data, after it began.
LEMMA NextRecord ==
  ASSUME NEW data \in Seq(Octets), NEW at \in 0..Len(data), IsWholeAt(data, at)
  PROVE  /\ BodyLen(data, at) \in Nat
         /\ After(data, at) \in 0..Len(data)
         /\ After(data, at) = at + HeaderLen + BodyLen(data, at)
         /\ at + HeaderLen <= Len(data)
<1>1. /\ Len(data) \in Nat /\ Base \in Nat
      /\ \A i \in 1..Len(data) : data[i] \in Nat
  BY LenProperties, ElementOfSeq, BaseAssumption DEF Octets
<1>2. at + HeaderLen <= Len(data) /\ at + HeaderLen + BodyLen(data, at) <= Len(data)
  BY <1>1 DEF IsWholeAt, HeaderLen
<1>3. at + 4 \in 1..Len(data) /\ at + 5 \in 1..Len(data)
  BY <1>1, <1>2 DEF HeaderLen
<1>4. \A a, b, c \in Nat : a * b + c \in Nat
  OBVIOUS
<1>5. BodyLen(data, at) \in Nat
  BY <1>1, <1>3, <1>4 DEF BodyLen
<1>6. QED
  BY <1>1, <1>2, <1>5 DEF After, HeaderLen

\* What holds at a position when it holds after the record there holds everywhere.
LEMMA RecordInduction ==
  ASSUME NEW data \in Seq(Octets), NEW H \in SUBSET (0..Len(data)),
         \A at \in 0..Len(data) : (IsWholeAt(data, at) => After(data, at) \in H) => at \in H
  PROVE  H = 0..Len(data)
<1> DEFINE D == 0..Len(data)
           K == {k \in D : Len(data) - k \in H}
<1>1. Len(data) \in Nat /\ \A k \in D : Len(data) - k \in D /\ Len(data) - (Len(data) - k) = k
  BY LenProperties
<1>2. ASSUME NEW k \in D, \A j \in D : j < k => j \in K
      PROVE  k \in K
  <2> DEFINE x == Len(data) - k
  <2>1. x \in D
    BY <1>1
  <2>2. ASSUME IsWholeAt(data, x) PROVE After(data, x) \in H
    <3>1. After(data, x) \in D /\ After(data, x) > x
      BY <1>1, <2>1, <2>2, NextRecord DEF HeaderLen
    <3>2. Len(data) - After(data, x) \in D /\ Len(data) - After(data, x) < k
      BY <1>1, <3>1
    <3>3. QED
      BY <1>1, <1>2, <3>1, <3>2
  <2>3. QED
    BY <2>1, <2>2
<1>3. K \in SUBSET D
  OBVIOUS
<1> HIDE DEF K
<1>4. K = D
  BY <1>1, <1>2, <1>3, NoLeast
<1>5. ASSUME NEW at \in D PROVE at \in H
  BY <1>1, <1>4 DEF K
<1>6. QED
  BY <1>5

\* A function of the positions of some data may be defined by what follows a record.
LEMMA RecordRecursion ==
  ASSUME NEW data \in Seq(Octets), NEW V, NEW base \in [0..Len(data) -> V],
         NEW step \in [0..Len(data) -> [V -> V]]
  PROVE  \E f \in [0..Len(data) -> V] : \A at \in 0..Len(data) :
            f[at] = IF IsWholeAt(data, at) THEN step[at][f[After(data, at)]] ELSE base[at]
<1> DEFINE D == 0..Len(data)
           Eq(f, at) == f[at] = IF IsWholeAt(data, at) THEN step[at][f[After(data, at)]]
                                ELSE base[at]
           Solves(f, k) == \A at \in D : at >= Len(data) - k => Eq(f, at)
           H == {k \in D : \E f \in [D -> V] : Solves(f, k)}
<1>1. Len(data) \in Nat
  BY LenProperties
<1>2. ASSUME NEW k \in D, \A j \in D : j < k => j \in H
      PROVE  k \in H
  <2>1. PICK f \in [D -> V] : \A at \in D : at > Len(data) - k => Eq(f, at)
    <3>1. CASE k = 0
      <4>1. \A at \in D : ~(at > Len(data) - k)
        BY <1>1, <3>1
      <4>2. base \in [D -> V]
        OBVIOUS
      <4>3. QED
        BY <4>1, <4>2
    <3>2. CASE k # 0
      <4>1. k - 1 \in D /\ k - 1 < k
        BY <1>1, <3>2
      <4>2. PICK f \in [D -> V] : Solves(f, k - 1)
        BY <1>2, <4>1
      <4>3. \A at \in D : at > Len(data) - k => at >= Len(data) - (k - 1)
        BY <1>1, <3>2
      <4>4. QED
        BY <4>2, <4>3
    <3>3. QED
      BY <3>1, <3>2
  <2> DEFINE x == Len(data) - k
             g == [f EXCEPT ![x] = IF IsWholeAt(data, x) THEN step[x][f[After(data, x)]]
                                   ELSE base[x]]
  <2>2. x \in D
    BY <1>1
  <2>3. IsWholeAt(data, x) => After(data, x) \in D /\ After(data, x) > x
    BY <1>1, <2>2, NextRecord DEF HeaderLen
  <2>4. g \in [D -> V] /\ Eq(g, x) /\ \A at \in D : at # x => g[at] = f[at]
    BY <2>2, <2>3
  <2>5. ASSUME NEW at \in D, at > x PROVE Eq(g, at)
    <3>1. Eq(f, at) /\ g[at] = f[at]
      BY <2>1, <2>2, <2>4, <2>5, <1>1
    <3>2. IsWholeAt(data, at) => After(data, at) \in D /\ After(data, at) > x
      BY <1>1, <2>2, <2>5, NextRecord DEF HeaderLen
    <3>3. IsWholeAt(data, at) => g[After(data, at)] = f[After(data, at)]
      BY <2>2, <2>4, <3>2, <1>1
    <3>4. QED
      BY <3>1, <3>3
  <2> HIDE DEF g
  <2>6. ASSUME NEW at \in D, at >= Len(data) - k PROVE Eq(g, at)
    <3>1. at = x \/ at > x
      BY <1>1, <2>2, <2>6
    <3>2. QED
      BY <2>4, <2>5, <3>1
  <2>7. QED
    BY <2>4, <2>6
<1> HIDE DEF H
<1>3. H = 0..Len(data)
  <2>1. H \in SUBSET (0..Len(data))
    BY DEF H
  <2>2. QED
    BY <1>1, <1>2, <2>1, NoLeast
<1>4. PICK f \in [D -> V] : Solves(f, Len(data))
  BY <1>1, <1>3 DEF H
<1>5. \A at \in D : at >= Len(data) - Len(data)
  BY <1>1
<1>6. QED
  BY <1>4, <1>5

\* What the recursive functions of FirstRecord say at an offset.
EndFrom(end, data, at) == IF IsWholeAt(data, at) THEN end[After(data, at)] ELSE at

LongestFrom(longest, data, at) ==
    IF ~IsWholeAt(data, at) THEN 0
    ELSE IF BodyLen(data, at) > longest[After(data, at)] THEN BodyLen(data, at)
    ELSE longest[After(data, at)]

CarriedFrom(carried, data, at) ==
    IF IsWholeAt(data, at) THEN Content(data, at) \o carried[After(data, at)] ELSE <<>>

CutFrom(cut, data, at, n) ==
    IF IsWholeAt(data, at) THEN CutRecord(data, at, n) \o cut[After(data, at)] ELSE <<>>

\* The functions exist, with values of the right kind.
LEMMA EndUnfolds ==
  ASSUME NEW data \in Seq(Octets)
  PROVE  \E end \in [0..Len(data) -> 0..Len(data)] :
            /\ \A at \in 0..Len(data) :
                  end[at] = EndFrom(end, data, at)
            /\ RecordsEnd(data) = end[0]
<1> USE DEF EndFrom
<1> DEFINE D == 0..Len(data)
           base == [at \in D |-> at]
           step == [at \in D |-> [v \in D |-> v]]
<1>1. base \in [D -> D] /\ step \in [D -> [D -> D]]
  OBVIOUS
<1> HIDE DEF base, step
<1>2. PICK f \in [D -> D] : \A at \in D :
         f[at] = IF IsWholeAt(data, at) THEN step[at][f[After(data, at)]] ELSE base[at]
  BY <1>1, RecordRecursion
<1>3. \A at \in D : IsWholeAt(data, at) => After(data, at) \in D
  BY NextRecord
<1>4. \A at \in D : base[at] = at /\ \A v \in D : step[at][v] = v
  BY DEF base, step
<1>5. f = [at \in D |-> EndFrom(f, data, at)]
  BY <1>2, <1>3, <1>4
<1> DEFINE end == CHOOSE e : e = [at \in D |-> EndFrom(e, data, at)]
<1>6. end = [at \in D |-> EndFrom(end, data, at)]
  BY <1>5
<1>7. RecordsEnd(data) = end[0]
  BY DEF RecordsEnd
<1> HIDE DEF end
<1>8. end = f
  <2> DEFINE H == {at \in D : end[at] = f[at]}
  <2>1. \A at \in D : (IsWholeAt(data, at) => After(data, at) \in H) => at \in H
    BY <1>2, <1>3, <1>4, <1>6
  <2>2. H \in SUBSET D
    OBVIOUS
  <2> HIDE DEF H
  <2>3. H = D
    BY <2>1, <2>2, RecordInduction
  <2>4. \A at \in D : end[at] = f[at]
    BY <2>3 DEF H
  <2>5. QED
    BY <1>2, <1>6, <2>4
<1>9. QED
  BY <1>6, <1>7, <1>8

\* The length of the longest body is a natural number.
LEMMA LongestUnfolds ==
  ASSUME NEW data \in Seq(Octets)
  PROVE  \E longest \in [0..Len(data) -> Nat] :
            /\ \A at \in 0..Len(data) : longest[at] = LongestFrom(longest, data, at)
            /\ LongestBody(data) = longest[0]
<1> USE DEF LongestFrom
<1> DEFINE D == 0..Len(data)
           V == Nat
           base == [at \in D |-> 0]
           step == [at \in D |-> [v \in V |-> IF IsWholeAt(data, at) /\ BodyLen(data, at) > v
                                         THEN BodyLen(data, at) ELSE v]]
<1>0. \A at \in D : IsWholeAt(data, at) => BodyLen(data, at) \in Nat
  BY NextRecord
<1>1. base \in [D -> V] /\ step \in [D -> [V -> V]]
  BY <1>0
<1> HIDE DEF base, step, V
<1>2. PICK f \in [D -> V] : \A at \in D :
         f[at] = IF IsWholeAt(data, at) THEN step[at][f[After(data, at)]] ELSE base[at]
  BY <1>1, RecordRecursion
<1>3. \A at \in D : IsWholeAt(data, at) => After(data, at) \in D
  BY NextRecord
<1>4. \A at \in D : base[at] = 0 /\ \A v \in V : step[at][v] =
         (IF IsWholeAt(data, at) /\ BodyLen(data, at) > v THEN BodyLen(data, at) ELSE v)
  BY DEF base, step
<1>5. f = [at \in D |-> LongestFrom(f, data, at)]
  BY <1>2, <1>3, <1>4
<1> DEFINE longest == CHOOSE e : e = [at \in D |-> LongestFrom(e, data, at)]
<1>6. longest = [at \in D |-> LongestFrom(longest, data, at)]
  BY <1>5
<1>7. LongestBody(data) = longest[0]
  BY DEF LongestBody
<1> HIDE DEF longest
<1>8. longest = f
  <2> DEFINE H == {at \in D : longest[at] = f[at]}
  <2>1. \A at \in D : (IsWholeAt(data, at) => After(data, at) \in H) => at \in H
    BY <1>2, <1>3, <1>4, <1>6
  <2>2. H \in SUBSET D
    OBVIOUS
  <2> HIDE DEF H
  <2>3. H = D
    BY <2>1, <2>2, RecordInduction
  <2>4. \A at \in D : longest[at] = f[at]
    BY <2>3 DEF H
  <2>5. QED
    BY <1>2, <1>6, <2>4
<1>9. QED
  BY <1>6, <1>7, <1>8 DEF V

\* The bytes of a connection's records with what they are marked with.
Marked == Seq(Seq(Octets) \X Octets)

\* The content of a record is a sequence of marked bytes.
LEMMA ContentIsMarked ==
  ASSUME NEW data \in Seq(Octets), NEW at \in 0..Len(data), IsWholeAt(data, at)
  PROVE  Content(data, at) \in Marked
<1>1. /\ Len(data) \in Nat /\ BodyLen(data, at) \in Nat
      /\ at + HeaderLen + BodyLen(data, at) <= Len(data)
      /\ \A i \in 1..Len(data) : data[i] \in Octets
  BY LenProperties, ElementOfSeq, NextRecord DEF IsWholeAt
<1>2. Prefix(data, at) \in Seq(Octets)
  <2>1. at + 1 \in Int /\ at + 3 \in Int /\ \A i \in (at + 1)..(at + 3) : data[i] \in Octets
    BY <1>1 DEF HeaderLen
  <2>2. QED
    BY <2>1, SubSeqProperties DEF Prefix
<1>3. \A i \in 1..BodyLen(data, at) : data[at + HeaderLen + i] \in Octets
  BY <1>1 DEF HeaderLen
<1>4. Content(data, at) \in [1..BodyLen(data, at) -> Seq(Octets) \X Octets]
  BY <1>2, <1>3 DEF Content
<1>5. QED
  BY <1>1, <1>4, SeqDef DEF Marked

\* What records carry is a sequence of marked bytes.
LEMMA CarriedUnfolds ==
  ASSUME NEW data \in Seq(Octets)
  PROVE  \E carried \in [0..Len(data) -> Marked] :
            /\ \A at \in 0..Len(data) : carried[at] = CarriedFrom(carried, data, at)
            /\ Carried(data) = carried[0]
<1> USE DEF CarriedFrom
<1> DEFINE D == 0..Len(data)
           V == Marked
           base == [at \in D |-> <<>>]
           step == [at \in D |->
                      [v \in V |-> IF IsWholeAt(data, at) THEN Content(data, at) \o v ELSE v]]
<1>0. \A at \in D : IsWholeAt(data, at) => \A v \in V : Content(data, at) \o v \in V
  BY ContentIsMarked, ConcatProperties DEF Marked
<1>1. base \in [D -> V] /\ step \in [D -> [V -> V]]
  BY <1>0, EmptySeq DEF Marked
<1> HIDE DEF base, step
<1>2. PICK f \in [D -> V] : \A at \in D :
         f[at] = IF IsWholeAt(data, at) THEN step[at][f[After(data, at)]] ELSE base[at]
  BY <1>1, RecordRecursion
<1>3. \A at \in D : IsWholeAt(data, at) => After(data, at) \in D
  BY NextRecord
<1>4. \A at \in D :
         /\ base[at] = <<>>
         /\ \A v \in V : step[at][v] = IF IsWholeAt(data, at) THEN Content(data, at) \o v ELSE v
  BY DEF base, step
<1>5. f = [at \in D |-> CarriedFrom(f, data, at)]
  BY <1>2, <1>3, <1>4
<1> DEFINE carried == CHOOSE e : e = [at \in D |-> CarriedFrom(e, data, at)]
<1>6. carried = [at \in D |-> CarriedFrom(carried, data, at)]
  BY <1>5
<1>7. Carried(data) = carried[0]
  BY DEF Carried
<1> HIDE DEF carried
<1>8. carried = f
  <2> DEFINE H == {at \in D : carried[at] = f[at]}
  <2>1. \A at \in D : (IsWholeAt(data, at) => After(data, at) \in H) => at \in H
    BY <1>5, <1>6
  <2>2. H \in SUBSET D
    OBVIOUS
  <2> HIDE DEF H
  <2>3. H = D
    BY <2>1, <2>2, RecordInduction
  <2>4. \A at \in D : carried[at] = f[at]
    BY <2>3 DEF H
  <2>5. QED
    BY <1>2, <1>6, <2>4
<1>9. QED
  BY <1>6, <1>7, <1>8

(***************************************************************************)
(* Flattening                                                              *)
(***************************************************************************)

\* Some sequences put together one after the other.
Flattens(S, seqs, m) ==
    \E f \in [1..m -> Seq(S)] :
        /\ f[1] = seqs[1]
        /\ \A i \in 2..m : f[i] = f[i - 1] \o seqs[i]
        /\ FlattenSeq(seqs) = f[m]

\* FlattenSeq puts sequences together from the first to the last.
LEMMA FlattenUnfolds ==
  ASSUME NEW S, NEW m \in Nat \ {0}, NEW seqs \in [1..m -> Seq(S)]
  PROVE  Flattens(S, seqs, m)
<1> SUFFICES \E f \in [1..m -> Seq(S)] :
                /\ f[1] = seqs[1]
                /\ \A i \in 2..m : f[i] = f[i - 1] \o seqs[i]
                /\ FlattenSeq(seqs) = f[m]
  BY DEF Flattens
<1> DEFINE V == Seq(S)
           Eq(f, i) == f[i] = IF i = 1 THEN seqs[1] ELSE f[i - 1] \o seqs[i]
           Solves(f, k) == \A i \in 1..m : i <= k => Eq(f, i)
           H == {k \in 0..m : \E f \in [1..m -> V] : Solves(f, k)}
<1>1. \A v \in V, i \in 1..m : v \o seqs[i] \in V
  BY ConcatProperties
<1>2. ASSUME NEW k \in 0..m, \A j \in 0..m : j < k => j \in H
      PROVE  k \in H
  <2>1. CASE k = 0
    <3>1. seqs \in [1..m -> V] /\ \A i \in 1..m : ~(i <= k)
      BY <2>1
    <3>2. QED
      BY <3>1
  <2>2. CASE k # 0
    <3>1. k - 1 \in 0..m /\ k - 1 < k /\ k \in 1..m
      BY <2>2
    <3>2. PICK f \in [1..m -> V] : Solves(f, k - 1)
      BY <1>2, <3>1
    <3> DEFINE g == [f EXCEPT ![k] = IF k = 1 THEN seqs[1] ELSE f[k - 1] \o seqs[k]]
    <3>3. (IF k = 1 THEN seqs[1] ELSE f[k - 1] \o seqs[k]) \in V
      <4>1. CASE k = 1
        BY <3>1, <4>1
      <4>2. CASE k # 1
        <5>1. k - 1 \in 1..m
          BY <3>1, <4>2
        <5>2. f[k - 1] \in V
          BY <5>1
        <5>3. QED
          BY <1>1, <3>1, <4>2, <5>2
      <4>3. QED
        BY <4>1, <4>2
    <3>4. /\ g \in [1..m -> V] /\ \A i \in 1..m : i # k => g[i] = f[i]
          /\ g[k] = IF k = 1 THEN seqs[1] ELSE f[k - 1] \o seqs[k]
      BY <3>1, <3>3
    <3> HIDE DEF g
    <3>5. ASSUME NEW i \in 1..m, i <= k PROVE Eq(g, i)
      <4>1. CASE i = k
        <5>1. k # 1 => g[k - 1] = f[k - 1]
          BY <3>1, <3>4
        <5>2. QED
          BY <3>4, <4>1, <5>1
      <4>2. CASE i # k
        <5>1. i <= k - 1 /\ (i # 1 => i - 1 \in 1..m /\ i - 1 # k)
          BY <3>5, <4>2
        <5>2. Eq(f, i) /\ g[i] = f[i]
          BY <3>2, <3>4, <4>2, <5>1
        <5>3. i # 1 => g[i - 1] = f[i - 1]
          BY <3>4, <5>1
        <5>4. QED
          BY <5>2, <5>3
      <4>3. QED
        BY <4>1, <4>2
    <3>6. QED
      BY <3>4, <3>5
  <2>3. QED
    BY <2>1, <2>2
<1> HIDE DEF H
<1>3. H = 0..m
  <2>1. H \in SUBSET (0..m)
    BY DEF H
  <2>2. QED
    BY <1>2, <2>1, NoLeast
<1>4. PICK f \in [1..m -> V] : \A i \in 1..m : Eq(f, i)
  <2>1. m \in 0..m /\ \A i \in 1..m : i <= m
    OBVIOUS
  <2>2. m \in H
    BY <1>3, <2>1
  <2>3. PICK f \in [1..m -> V] : Solves(f, m)
    BY <2>2 DEF H
  <2>4. QED
    BY <2>1, <2>3
<1>5. f = [i \in 1..m |-> IF i = 1 THEN seqs[i] ELSE f[i - 1] \o seqs[i]]
  BY <1>4
<1> DEFINE flatten == CHOOSE e : e = [i \in 1..m |-> IF i = 1 THEN seqs[i] ELSE e[i - 1] \o seqs[i]]
<1>6. flatten = [i \in 1..m |-> IF i = 1 THEN seqs[i] ELSE flatten[i - 1] \o seqs[i]]
  BY <1>5
<1>7. Len(seqs) = m
  BY SeqDef
<1>8. FlattenSeq(seqs) = flatten[m]
  BY <1>7 DEF FlattenSeq
<1> HIDE DEF flatten
<1>9. flatten = f
  <2> DEFINE K == {k \in 0..m : k # 0 => flatten[k] = f[k]}
  <2>1. ASSUME NEW k \in 0..m, \A j \in 0..m : j < k => j \in K
        PROVE  k \in K
    <3>1. k # 0 => k \in 1..m /\ k - 1 \in 0..m /\ k - 1 < k
      OBVIOUS
    <3>2. k # 0 /\ k # 1 => flatten[k - 1] = f[k - 1]
      BY <2>1, <3>1
    <3>3. k # 0 => flatten[k] = IF k = 1 THEN seqs[k] ELSE flatten[k - 1] \o seqs[k]
      BY <1>6, <3>1
    <3>4. k # 0 => f[k] = IF k = 1 THEN seqs[k] ELSE f[k - 1] \o seqs[k]
      BY <1>5, <3>1
    <3>5. QED
      BY <3>2, <3>3, <3>4
  <2>2. K \in SUBSET (0..m)
    OBVIOUS
  <2> HIDE DEF K
  <2>3. K = 0..m
    BY <2>1, <2>2, NoLeast
  <2>4. ASSUME NEW i \in 1..m PROVE flatten[i] = f[i]
    <3>1. i \in 0..m /\ i # 0
      OBVIOUS
    <3>2. i \in K
      BY <2>3, <3>1
    <3>3. QED
      BY <3>1, <3>2 DEF K
  <2>5. QED
    BY <1>4, <1>6, <2>4
<1>10. f[1] = seqs[1] /\ \A i \in 2..m : f[i] = f[i - 1] \o seqs[i]
  <2>1. 1 \in 1..m /\ \A i \in 2..m : i \in 1..m /\ i # 1
    OBVIOUS
  <2>2. QED
    BY <1>4, <2>1
<1>11. QED
  BY <1>4, <1>8, <1>9, <1>10

(***************************************************************************)
(* A record before others                                                  *)
(***************************************************************************)

IsRecord(a) == a \in Seq(Octets) /\ IsWholeAt(a, 0) /\ After(a, 0) = Len(a)

\* Data that follow other data have their records where those end.
LEMMA Shifted ==
  ASSUME NEW a \in Seq(Octets), NEW s \in Seq(Octets), NEW at \in 0..Len(s)
  PROVE  /\ Len(a) + at \in 0..Len(a \o s)
         /\ IsWholeAt(a \o s, Len(a) + at) <=> IsWholeAt(s, at)
         /\ IsWholeAt(s, at) =>
               /\ BodyLen(a \o s, Len(a) + at) = BodyLen(s, at)
               /\ After(a \o s, Len(a) + at) = Len(a) + After(s, at)
               /\ Content(a \o s, Len(a) + at) = Content(s, at)
<1> DEFINE t == a \o s
           x == Len(a) + at
<1>1. /\ Len(a) \in Nat /\ Len(s) \in Nat /\ Len(t) = Len(a) + Len(s)
      /\ \A i \in 1..Len(s) : t[Len(a) + i] = s[i]
  <2>1. /\ Len(a) \in Nat /\ Len(s) \in Nat /\ Len(t) = Len(a) + Len(s)
        /\ \A i \in 1..(Len(a) + Len(s)) : t[i] = IF i <= Len(a) THEN a[i] ELSE s[i - Len(a)]
    BY LenProperties, ConcatProperties
  <2>2. ASSUME NEW i \in 1..Len(s)
        PROVE  Len(a) + i \in 1..(Len(a) + Len(s)) /\ ~(Len(a) + i <= Len(a))
                 /\ Len(a) + i - Len(a) = i
    BY <2>1
  <2>3. QED
    BY <2>1, <2>2
<1>2. x \in 0..Len(t) /\ Len(t) - x = Len(s) - at
  BY <1>1
<1> HIDE DEF t
<1>3. Len(s) - at >= HeaderLen => t[x + 4] = s[at + 4] /\ t[x + 5] = s[at + 5]
  <2> SUFFICES ASSUME Len(s) - at >= HeaderLen PROVE t[x + 4] = s[at + 4] /\ t[x + 5] = s[at + 5]
    OBVIOUS
  <2>1. at + 4 \in 1..Len(s) /\ at + 5 \in 1..Len(s)
    BY <1>1 DEF HeaderLen
  <2>2. x + 4 = Len(a) + (at + 4) /\ x + 5 = Len(a) + (at + 5)
    BY <1>1
  <2>3. QED
    BY <1>1, <2>1, <2>2
<1>4. Len(s) - at >= HeaderLen => BodyLen(t, x) = BodyLen(s, at) /\ BodyLen(s, at) \in Nat
  <2> SUFFICES ASSUME Len(s) - at >= HeaderLen
               PROVE  BodyLen(t, x) = BodyLen(s, at) /\ BodyLen(s, at) \in Nat
    OBVIOUS
  <2>1. at + 4 \in 1..Len(s) /\ at + 5 \in 1..Len(s)
    BY <1>1 DEF HeaderLen
  <2>2. s[at + 4] \in Nat /\ s[at + 5] \in Nat /\ Base \in Nat
    BY <2>1, ElementOfSeq, BaseAssumption DEF Octets
  <2>3. \A b, c, d \in Nat : b * c + d \in Nat
    OBVIOUS
  <2>4. BodyLen(s, at) \in Nat
    BY <2>2, <2>3 DEF BodyLen
  <2>5. QED
    BY <1>3, <2>4 DEF BodyLen
<1>5. IsWholeAt(t, x) <=> IsWholeAt(s, at)
  <2>1. CASE Len(s) - at >= HeaderLen
    <3>1. x + HeaderLen + BodyLen(s, at) <= Len(t) <=> at + HeaderLen + BodyLen(s, at) <= Len(s)
      BY <1>1, <1>4, <2>1 DEF HeaderLen
    <3>2. QED
      BY <1>2, <1>4, <2>1, <3>1 DEF IsWholeAt
  <2>2. CASE ~(Len(s) - at >= HeaderLen)
    BY <1>2, <2>2 DEF IsWholeAt
  <2>3. QED
    BY <2>1, <2>2
<1>6. ASSUME IsWholeAt(s, at)
      PROVE  /\ BodyLen(t, x) = BodyLen(s, at)
             /\ After(t, x) = Len(a) + After(s, at)
             /\ Content(t, x) = Content(s, at)
  <2>1. Len(s) - at >= HeaderLen /\ at + HeaderLen + BodyLen(s, at) <= Len(s)
    BY <1>6 DEF IsWholeAt
  <2>2. After(t, x) = Len(a) + After(s, at)
    BY <1>1, <1>4, <2>1 DEF After, HeaderLen
  <2>3. Prefix(t, x) = Prefix(s, at)
    <3>1. /\ x + 1 \in Len(a) + 1..Len(a) + Len(s) /\ x + 3 \in Len(a) + 1..Len(a) + Len(s)
          /\ x + 1 - Len(a) = at + 1 /\ x + 3 - Len(a) = at + 3
      BY <1>1, <2>1 DEF HeaderLen
    <3>2. SubSeq(t, x + 1, x + 3) = SubSeq(s, x + 1 - Len(a), x + 3 - Len(a))
      BY <3>1, SubSeqOfConcat2 DEF t
    <3>3. QED
      BY <3>1, <3>2 DEF Prefix
  <2>4. \A i \in 1..BodyLen(s, at) : t[x + HeaderLen + i] = s[at + HeaderLen + i]
    <3> SUFFICES ASSUME NEW i \in 1..BodyLen(s, at)
                 PROVE  t[x + HeaderLen + i] = s[at + HeaderLen + i]
      OBVIOUS
    <3>1. at + HeaderLen + i \in 1..Len(s) /\ x + HeaderLen + i = Len(a) + (at + HeaderLen + i)
      BY <1>1, <1>4, <2>1 DEF HeaderLen
    <3>2. QED
      BY <1>1, <3>1
  <2>5. Content(t, x) = Content(s, at)
    BY <1>4, <2>1, <2>3, <2>4 DEF Content
  <2>6. QED
    BY <1>4, <2>1, <2>2, <2>5
<1>7. QED
  BY <1>2, <1>5, <1>6 DEF t

\* What begins with a record begins with that record.
LEMMA RecordAtFirst ==
  ASSUME NEW a, IsRecord(a), NEW s \in Seq(Octets)
  PROVE  /\ IsWholeAt(a \o s, 0) /\ BodyLen(a \o s, 0) = BodyLen(a, 0)
         /\ After(a \o s, 0) = Len(a) /\ Content(a \o s, 0) = Content(a, 0)
<1> DEFINE t == a \o s
<1>1. /\ a \in Seq(Octets) /\ Len(a) \in Nat /\ Len(s) \in Nat /\ Len(t) = Len(a) + Len(s)
      /\ \A i \in 1..Len(a) : t[i] = a[i]
  <2>1. a \in Seq(Octets)
    BY DEF IsRecord
  <2>2. /\ Len(a) \in Nat /\ Len(s) \in Nat /\ Len(t) = Len(a) + Len(s)
        /\ \A i \in 1..(Len(a) + Len(s)) : t[i] = IF i <= Len(a) THEN a[i] ELSE s[i - Len(a)]
    BY <2>1, LenProperties, ConcatProperties
  <2> HIDE DEF t
  <2>3. \A i \in 1..Len(a) : i \in 1..(Len(a) + Len(s)) /\ i <= Len(a)
    BY <2>2
  <2>4. QED
    BY <2>1, <2>2, <2>3
<1> HIDE DEF t
<1>2. /\ BodyLen(a, 0) \in Nat /\ Len(a) = HeaderLen + BodyLen(a, 0)
      /\ HeaderLen <= Len(a) /\ 0 \in 0..Len(a)
  <2>1. 0 \in 0..Len(a) /\ IsWholeAt(a, 0) /\ After(a, 0) = Len(a)
    BY <1>1 DEF IsRecord
  <2>2. /\ BodyLen(a, 0) \in Nat /\ After(a, 0) = 0 + HeaderLen + BodyLen(a, 0)
        /\ 0 + HeaderLen <= Len(a)
    BY <1>1, <2>1, NextRecord
  <2>3. QED
    BY <2>1, <2>2 DEF HeaderLen
<1>3. t[0 + 4] = a[0 + 4] /\ t[0 + 5] = a[0 + 5]
  BY <1>1, <1>2 DEF HeaderLen
<1>4. BodyLen(t, 0) = BodyLen(a, 0)
  BY <1>3 DEF BodyLen
<1>5. IsWholeAt(t, 0) /\ After(t, 0) = Len(a)
  BY <1>1, <1>2, <1>4 DEF IsWholeAt, After, HeaderLen
<1>6. Prefix(t, 0) = Prefix(a, 0)
  <2>1. 0 + 1 \in 1..Len(a) /\ 0 + 3 \in 1..Len(a)
    BY <1>1, <1>2 DEF HeaderLen
  <2>2. QED
    BY <1>1, <2>1, SubSeqOfConcat1 DEF Prefix, t
<1>7. \A i \in 1..BodyLen(a, 0) : t[0 + HeaderLen + i] = a[0 + HeaderLen + i]
  BY <1>1, <1>2 DEF HeaderLen
<1>8. Content(t, 0) = Content(a, 0)
  BY <1>4, <1>6, <1>7 DEF Content
<1>9. QED
  BY <1>4, <1>5, <1>8 DEF t

\* Nothing else changes when records are preceded by one.
LEMMA RecordThenWhole ==
  ASSUME NEW a, IsRecord(a), NEW s \in Seq(Octets)
  PROVE  IsWhole(a \o s) <=> IsWhole(s)
<1> USE DEF EndFrom
<1> DEFINE t == a \o s
<1>1. a \in Seq(Octets) /\ t \in Seq(Octets)
  BY ConcatProperties DEF IsRecord
<1>2. /\ Len(a) \in Nat /\ Len(s) \in Nat /\ 0 \in 0..Len(s) /\ 0 \in 0..Len(t)
      /\ \A at \in 0..Len(s) : Len(a) + at \in 0..Len(t)
  BY <1>1, LenProperties, Shifted
<1>3. /\ \A at \in 0..Len(s) : IsWholeAt(t, Len(a) + at) <=> IsWholeAt(s, at)
      /\ \A at \in 0..Len(s) : IsWholeAt(s, at) =>
            /\ BodyLen(t, Len(a) + at) = BodyLen(s, at)
            /\ After(t, Len(a) + at) = Len(a) + After(s, at)
            /\ Content(t, Len(a) + at) = Content(s, at)
            /\ After(s, at) \in 0..Len(s)
  BY <1>1, Shifted, NextRecord
<1>4. /\ IsWholeAt(t, 0) /\ BodyLen(t, 0) = BodyLen(a, 0) /\ After(t, 0) = Len(a)
      /\ Content(t, 0) = Content(a, 0)
  BY RecordAtFirst
<1> HIDE DEF t
<1>5. PICK f \in [0..Len(t) -> 0..Len(t)] :
         /\ \A at \in 0..Len(t) : f[at] = EndFrom(f, t, at)
         /\ RecordsEnd(t) = f[0]
  BY <1>1, EndUnfolds
<1>6. PICK g \in [0..Len(s) -> 0..Len(s)] :
         /\ \A at \in 0..Len(s) : g[at] = EndFrom(g, s, at)
         /\ RecordsEnd(s) = g[0]
  BY EndUnfolds
<1> DEFINE H == {at \in 0..Len(s) : f[Len(a) + at] = Len(a) + g[at]}
<1>7. ASSUME NEW at \in 0..Len(s), IsWholeAt(s, at) => After(s, at) \in H
      PROVE  at \in H
  <2>1. f[Len(a) + at] = EndFrom(f, t, Len(a) + at)
    BY <1>2, <1>5
  <2>2. g[at] = EndFrom(g, s, at)
    BY <1>6
  <2>3. CASE IsWholeAt(s, at)
    BY <1>2, <1>3, <1>7, <2>1, <2>2, <2>3
  <2>4. CASE ~IsWholeAt(s, at)
    BY <1>3, <2>1, <2>2, <2>4
  <2>5. QED
    BY <2>3, <2>4
<1>8. H = 0..Len(s)
  <2>1. H \in SUBSET (0..Len(s))
    OBVIOUS
  <2> HIDE DEF H
  <2>2. QED
    BY <1>7, <2>1, RecordInduction
<1>9. f[Len(a)] = Len(a) + g[0]
  <2>1. f[Len(a) + 0] = Len(a) + g[0]
    BY <1>2, <1>8
  <2>2. Len(a) + 0 = Len(a)
    BY <1>2
  <2>3. QED
    BY <2>1, <2>2
<1>10. f[0] = EndFrom(f, t, 0)
  BY <1>2, <1>5
<1>11. RecordsEnd(t) = Len(a) + RecordsEnd(s) /\ RecordsEnd(s) \in Nat
  BY <1>2, <1>4, <1>5, <1>6, <1>9, <1>10
<1>12. Len(t) = Len(a) + Len(s)
  BY <1>1, ConcatProperties DEF t
<1>13. QED
  BY <1>2, <1>11, <1>12 DEF IsWhole, t

\* The longest body of a record and what follows it is the longer of the two.
LEMMA RecordThenLongest ==
  ASSUME NEW a, IsRecord(a), NEW s \in Seq(Octets)
  PROVE  LongestBody(a \o s) =
            IF BodyLen(a, 0) > LongestBody(s) THEN BodyLen(a, 0) ELSE LongestBody(s)
<1> USE DEF LongestFrom
<1> DEFINE t == a \o s
<1>1. a \in Seq(Octets) /\ t \in Seq(Octets)
  BY ConcatProperties DEF IsRecord
<1>2. /\ Len(a) \in Nat /\ Len(s) \in Nat /\ 0 \in 0..Len(s) /\ 0 \in 0..Len(t)
      /\ \A at \in 0..Len(s) : Len(a) + at \in 0..Len(t)
  BY <1>1, LenProperties, Shifted
<1>3. /\ \A at \in 0..Len(s) : IsWholeAt(t, Len(a) + at) <=> IsWholeAt(s, at)
      /\ \A at \in 0..Len(s) : IsWholeAt(s, at) =>
            /\ BodyLen(t, Len(a) + at) = BodyLen(s, at)
            /\ After(t, Len(a) + at) = Len(a) + After(s, at)
            /\ Content(t, Len(a) + at) = Content(s, at)
            /\ After(s, at) \in 0..Len(s)
  BY <1>1, Shifted, NextRecord
<1>4. /\ IsWholeAt(t, 0) /\ BodyLen(t, 0) = BodyLen(a, 0) /\ After(t, 0) = Len(a)
      /\ Content(t, 0) = Content(a, 0)
  BY RecordAtFirst
<1> HIDE DEF t
<1>5. PICK f \in [0..Len(t) -> Nat] :
         /\ \A at \in 0..Len(t) : f[at] = LongestFrom(f, t, at)
         /\ LongestBody(t) = f[0]
  BY <1>1, LongestUnfolds
<1>6. PICK g \in [0..Len(s) -> Nat] :
         /\ \A at \in 0..Len(s) : g[at] = LongestFrom(g, s, at)
         /\ LongestBody(s) = g[0]
  BY LongestUnfolds
<1> DEFINE H == {at \in 0..Len(s) : f[Len(a) + at] = g[at]}
<1>7. ASSUME NEW at \in 0..Len(s), IsWholeAt(s, at) => After(s, at) \in H
      PROVE  at \in H
  <2>1. f[Len(a) + at] = LongestFrom(f, t, Len(a) + at)
    BY <1>2, <1>5
  <2>2. g[at] = LongestFrom(g, s, at)
    BY <1>6
  <2>3. CASE IsWholeAt(s, at)
    BY <1>2, <1>3, <1>7, <2>1, <2>2, <2>3
  <2>4. CASE ~IsWholeAt(s, at)
    BY <1>3, <2>1, <2>2, <2>4
  <2>5. QED
    BY <2>3, <2>4
<1>8. H = 0..Len(s)
  <2>1. H \in SUBSET (0..Len(s))
    OBVIOUS
  <2> HIDE DEF H
  <2>2. QED
    BY <1>7, <2>1, RecordInduction
<1>9. f[Len(a)] = g[0]
  <2>1. f[Len(a) + 0] = g[0]
    BY <1>2, <1>8
  <2>2. Len(a) + 0 = Len(a)
    BY <1>2
  <2>3. QED
    BY <2>1, <2>2
<1>10. f[0] = LongestFrom(f, t, 0)
  BY <1>2, <1>5
<1>11. QED
  BY <1>4, <1>5, <1>6, <1>9, <1>10 DEF t

\* A record and what follows it carry its content and then what follows.
LEMMA RecordThenCarried ==
  ASSUME NEW a, IsRecord(a), NEW s \in Seq(Octets)
  PROVE  Carried(a \o s) = Content(a, 0) \o Carried(s)
<1> USE DEF CarriedFrom
<1> DEFINE t == a \o s
<1>1. a \in Seq(Octets) /\ t \in Seq(Octets)
  BY ConcatProperties DEF IsRecord
<1>2. /\ Len(a) \in Nat /\ Len(s) \in Nat /\ 0 \in 0..Len(s) /\ 0 \in 0..Len(t)
      /\ \A at \in 0..Len(s) : Len(a) + at \in 0..Len(t)
  BY <1>1, LenProperties, Shifted
<1>3. /\ \A at \in 0..Len(s) : IsWholeAt(t, Len(a) + at) <=> IsWholeAt(s, at)
      /\ \A at \in 0..Len(s) : IsWholeAt(s, at) =>
            /\ BodyLen(t, Len(a) + at) = BodyLen(s, at)
            /\ After(t, Len(a) + at) = Len(a) + After(s, at)
            /\ Content(t, Len(a) + at) = Content(s, at)
            /\ After(s, at) \in 0..Len(s)
  BY <1>1, Shifted, NextRecord
<1>4. /\ IsWholeAt(t, 0) /\ BodyLen(t, 0) = BodyLen(a, 0) /\ After(t, 0) = Len(a)
      /\ Content(t, 0) = Content(a, 0)
  BY RecordAtFirst
<1> HIDE DEF t
<1>5. PICK f \in [0..Len(t) -> Marked] :
         /\ \A at \in 0..Len(t) : f[at] = CarriedFrom(f, t, at)
         /\ Carried(t) = f[0]
  BY <1>1, CarriedUnfolds
<1>6. PICK g \in [0..Len(s) -> Marked] :
         /\ \A at \in 0..Len(s) : g[at] = CarriedFrom(g, s, at)
         /\ Carried(s) = g[0]
  BY CarriedUnfolds
<1> DEFINE H == {at \in 0..Len(s) : f[Len(a) + at] = g[at]}
<1>7. ASSUME NEW at \in 0..Len(s), IsWholeAt(s, at) => After(s, at) \in H
      PROVE  at \in H
  <2>1. f[Len(a) + at] = CarriedFrom(f, t, Len(a) + at)
    BY <1>2, <1>5
  <2>2. g[at] = CarriedFrom(g, s, at)
    BY <1>6
  <2>3. CASE IsWholeAt(s, at)
    BY <1>2, <1>3, <1>7, <2>1, <2>2, <2>3
  <2>4. CASE ~IsWholeAt(s, at)
    BY <1>3, <2>1, <2>2, <2>4
  <2>5. QED
    BY <2>3, <2>4
<1>8. H = 0..Len(s)
  <2>1. H \in SUBSET (0..Len(s))
    OBVIOUS
  <2> HIDE DEF H
  <2>2. QED
    BY <1>7, <2>1, RecordInduction
<1>9. f[Len(a)] = g[0]
  <2>1. f[Len(a) + 0] = g[0]
    BY <1>2, <1>8
  <2>2. Len(a) + 0 = Len(a)
    BY <1>2
  <2>3. QED
    BY <2>1, <2>2
<1>10. f[0] = CarriedFrom(f, t, 0)
  BY <1>2, <1>5
<1>11. QED
  BY <1>4, <1>5, <1>6, <1>9, <1>10 DEF t

(***************************************************************************)
(* Chunks and fragments                                                    *)
(***************************************************************************)

\* A quotient and its remainder.
LEMMA Division ==
  ASSUME NEW a \in Nat, NEW b \in Nat \ {0}
  PROVE  /\ a \div b \in Nat /\ a % b \in 0..(b - 1)
         /\ a = (a \div b) * b + (a % b)
<1>1. a \div b \in Nat /\ a % b \in 0..(b - 1)
  OBVIOUS
<1>2. a = (a \div b) * b + (a % b)
  OBVIOUS
<1>3. QED
  BY <1>1, <1>2

\* How much of a body of l bytes its first i chunks of n bytes are.
Seen(l, n, i) == IF i * n < l THEN i * n ELSE l

\* How many chunks there are, and what a length of two bytes can say.
ChunkCount(l, n) == (l + n - 1) \div n

IsShort(s) == Len(s) < Base * Base

\* Every chunk begins where the one before it ends, and the last ends the body.
LEMMA ChunkBounds ==
  ASSUME NEW l \in Nat, NEW n \in Nat \ {0}, NEW m, m = ChunkCount(l, n)
  PROVE  /\ m \in Nat /\ (m = 0 <=> l = 0)
         /\ \A i \in 1..m : /\ (i - 1) * n \in Nat /\ (i - 1) * n < l
                            /\ Seen(l, n, i - 1) = (i - 1) * n
                            /\ Seen(l, n, i) \in (i - 1) * n + 1..l
                            /\ Seen(l, n, i) - (i - 1) * n <= n
         /\ Seen(l, n, m) = l
<1>1. /\ m \in Nat /\ l + n - 1 = m * n + ((l + n - 1) % n)
      /\ (l + n - 1) % n \in 0..(n - 1)
  <2>1. l + n - 1 \in Nat
    OBVIOUS
  <2>2. QED
    BY <2>1, Division DEF ChunkCount
<1>2. m * n \in Nat /\ l <= m * n /\ m * n <= l + n - 1
  <2>1. \A x, y \in Nat : x * y \in Nat
    OBVIOUS
  <2>2. QED
    BY <1>1, <2>1
<1>3. ASSUME NEW i \in 1..m
      PROVE  /\ i * n \in Nat /\ (i - 1) * n \in Nat /\ (i - 1) * n + n = i * n
             /\ i * n <= m * n
  <2>1. \A x, y \in Nat : x * y \in Nat
    OBVIOUS
  <2>2. i \in Nat /\ i - 1 \in Nat /\ m - i \in Nat
    BY <1>1
  <2>3. i * n \in Nat /\ (i - 1) * n \in Nat /\ (m - i) * n \in Nat
    BY <2>1, <2>2
  <2>4. (i - 1) * n + n = i * n /\ i * n + (m - i) * n = m * n
    BY <1>1, <2>2
  <2>5. QED
    BY <1>2, <2>3, <2>4
<1>4. m = 0 <=> l = 0
  <2>1. CASE m = 0
    BY <1>2, <2>1
  <2>2. CASE m # 0
    <3>1. m \in 1..m
      BY <1>1, <2>2
    <3>2. (m - 1) * n \in Nat /\ (m - 1) * n + n = m * n
      BY <1>3, <3>1
    <3>3. QED
      BY <1>2, <2>2, <3>2
  <2>3. QED
    BY <2>1, <2>2
<1>5. ASSUME NEW i \in 1..m
      PROVE  /\ (i - 1) * n \in Nat /\ (i - 1) * n < l
             /\ Seen(l, n, i - 1) = (i - 1) * n
             /\ Seen(l, n, i) \in (i - 1) * n + 1..l
             /\ Seen(l, n, i) - (i - 1) * n <= n
  <2>1. /\ i * n \in Nat /\ (i - 1) * n \in Nat /\ (i - 1) * n + n = i * n
        /\ i * n <= m * n
    BY <1>3
  <2>2. (i - 1) * n < l
    BY <1>2, <2>1
  <2>3. QED
    BY <2>1, <2>2 DEF Seen
<1>6. Seen(l, n, m) = l
  BY <1>2 DEF Seen
<1>7. QED
  BY <1>1, <1>4, <1>5, <1>6

\* A fragment is a record with its chunk as the body, whose length its header gives.
LEMMA FragmentIsRecord ==
  ASSUME NEW prefix \in Seq(Octets), Len(prefix) = 3,
         NEW chunk \in Seq(Octets), IsShort(chunk)
  PROVE  /\ IsRecord(Fragment(prefix, chunk))
         /\ BodyLen(Fragment(prefix, chunk), 0) = Len(chunk)
         /\ Content(Fragment(prefix, chunk), 0) = [i \in 1..Len(chunk) |-> <<prefix, chunk[i]>>]
<1> DEFINE c == Len(chunk)
           len == <<c \div Base, c % Base>>
           r == Fragment(prefix, chunk)
<1>1. c \in Nat /\ Base \in Nat \ {0} /\ Octets = 0..(Base - 1)
  BY LenProperties, BaseAssumption DEF Octets
<1>a. c < Base * Base
  BY DEF IsShort
<1>2. c \div Base \in Nat /\ c % Base \in 0..(Base - 1) /\ c = (c \div Base) * Base + (c % Base)
  BY <1>1, Division
<1>3. c \div Base \in Octets /\ c % Base \in Octets
  <2>1. \A x, b, y, d \in Nat : d = x * b + y /\ d < b * b => x < b
    <3> SUFFICES ASSUME NEW x \in Nat, NEW b \in Nat, NEW y \in Nat, NEW d \in Nat,
                        d = x * b + y, d < b * b, x >= b
                 PROVE  FALSE
      OBVIOUS
    <3>1. x - b \in Nat /\ \A u, v \in Nat : u * v \in Nat
      OBVIOUS
    <3>2. x * b = (x - b) * b + b * b
      OBVIOUS
    <3>3. (x - b) * b \in Nat /\ b * b \in Nat /\ x * b \in Nat
      BY <3>1
    <3>4. QED
      BY <3>2, <3>3
  <2>2. c \div Base < Base
    <3>1. PICK x \in Nat, y \in Nat : x = c \div Base /\ y = c % Base
      BY <1>1, <1>2
    <3>2. c = x * Base + y
      BY <1>2, <3>1
    <3>3. x < Base
      BY <1>1, <1>a, <2>1, <3>2
    <3>4. QED
      BY <3>1, <3>3
  <2>3. QED
    BY <1>1, <1>2, <2>2
<1> HIDE DEF c
<1>4. /\ len \in Seq(Octets) /\ Len(len) = 2 /\ len[1] = c \div Base /\ len[2] = c % Base
  BY <1>3
<1> HIDE DEF len
<1>5. /\ prefix \o len \in Seq(Octets) /\ Len(prefix \o len) = 5
      /\ \A i \in 1..5 : (prefix \o len)[i] = IF i <= 3 THEN prefix[i] ELSE len[i - 3]
  <2> DEFINE p == prefix \o len
  <2>1. /\ p \in Seq(Octets) /\ Len(p) = Len(prefix) + Len(len)
        /\ \A i \in 1..(Len(prefix) + Len(len)) :
              p[i] = IF i <= Len(prefix) THEN prefix[i] ELSE len[i - Len(prefix)]
    BY <1>4, ConcatProperties
  <2> HIDE DEF p
  <2>2. Len(prefix) = 3 /\ Len(len) = 2 /\ Len(prefix) + Len(len) = 5
    BY <1>4
  <2>3. /\ p \in Seq(Octets) /\ Len(p) = 5
        /\ \A i \in 1..5 : p[i] = IF i <= 3 THEN prefix[i] ELSE len[i - 3]
    BY <2>1, <2>2
  <2>4. QED
    BY <2>3 DEF p
<1>6. r = prefix \o len \o chunk
  BY DEF Fragment, len, c
<1>7. /\ r \in Seq(Octets) /\ Len(r) = 5 + c
      /\ \A i \in 1..(5 + c) : r[i] = IF i <= 5 THEN (prefix \o len)[i] ELSE chunk[i - 5]
  BY <1>5, <1>6, ConcatProperties DEF c
<1> HIDE DEF r
<1>8. r[4] = c \div Base /\ r[5] = c % Base
  <2> DEFINE p == prefix \o len
  <2>1. 4 \in 1..(5 + c) /\ 5 \in 1..(5 + c) /\ 4 <= 5 /\ 5 <= 5
    BY <1>1
  <2>2. r[4] = p[4] /\ r[5] = p[5]
    <3> HIDE DEF p
    <3>1. \A i \in 1..(5 + c) : i <= 5 => r[i] = p[i]
      BY <1>7 DEF p
    <3>2. QED
      BY <2>1, <3>1
  <2>3. (prefix \o len)[4] = len[1] /\ (prefix \o len)[5] = len[2]
    BY <1>5
  <2>4. QED
    BY <1>4, <2>2, <2>3
<1>9. BodyLen(r, 0) = c
  BY <1>2, <1>8 DEF BodyLen
<1>10. IsRecord(r)
  BY <1>1, <1>7, <1>9 DEF IsRecord, IsWholeAt, After, HeaderLen
<1>11. Prefix(r, 0) = prefix
  <2>1. \A i \in 1..3 : r[i] \in Octets /\ r[i] = prefix[i]
    <3>1. \A i \in 1..3 : i \in 1..(5 + c) /\ i \in 1..5 /\ i <= 5 /\ i <= 3 /\ i \in 1..Len(prefix)
      BY <1>1
    <3>2. \A i \in 1..3 : r[i] = prefix[i]
      BY <1>5, <1>7, <3>1
    <3>3. QED
      BY <3>1, <3>2, ElementOfSeq
  <2>2. /\ SubSeq(r, 1, 3) \in Seq(Octets)
        /\ Len(SubSeq(r, 1, 3)) = IF 1 <= 3 THEN 3 - 1 + 1 ELSE 0
        /\ \A i \in 1..(3 - 1 + 1) : SubSeq(r, 1, 3)[i] = r[1 + i - 1]
    BY <2>1, SubSeqProperties
  <2>3. Len(SubSeq(r, 1, 3)) = 3 /\ \A i \in 1..3 : SubSeq(r, 1, 3)[i] = prefix[i]
    <3>1. \A i \in 1..3 : i \in 1..(3 - 1 + 1) /\ 1 + i - 1 = i
      OBVIOUS
    <3>2. QED
      BY <2>1, <2>2, <3>1
  <2>4. SubSeq(r, 1, 3) = prefix
    BY <2>2, <2>3, SeqEqual
  <2>5. 0 + 1 = 1 /\ 0 + 3 = 3
    OBVIOUS
  <2>6. QED
    BY <2>4, <2>5 DEF Prefix
<1>12. \A i \in 1..c : r[0 + HeaderLen + i] = chunk[i]
  <2> SUFFICES ASSUME NEW i \in 1..c PROVE r[0 + HeaderLen + i] = chunk[i]
    OBVIOUS
  <2>1. /\ 0 + HeaderLen + i = 5 + i /\ 5 + i \in 1..(5 + c) /\ ~(5 + i <= 5)
        /\ 5 + i - 5 = i
    BY <1>1 DEF HeaderLen
  <2>2. QED
    BY <1>7, <2>1
<1>13. Content(r, 0) = [i \in 1..c |-> <<prefix, chunk[i]>>]
  BY <1>9, <1>11, <1>12 DEF Content
<1>14. QED
  BY <1>9, <1>10, <1>13 DEF r, c

\* Some piece of a body follows the first k bytes of it.
IsPiece(chunk, body, k) ==
    /\ chunk \in Seq(Octets) /\ k \in Nat /\ k + Len(chunk) <= Len(body)
    /\ \A j \in 1..Len(chunk) : chunk[j] = body[k + j]

\* The i-th chunk of a body is what follows the chunks before it.
IsNext(chunk, body, n, i) ==
    LET k == Seen(Len(body), n, i - 1)
    IN  /\ IsPiece(chunk, body, k) /\ Len(chunk) <= n
        /\ Seen(Len(body), n, i) = k + Len(chunk)

\* The chunks of a body are its pieces one after the other.
LEMMA ChunkIsPiece ==
  ASSUME NEW body \in Seq(Octets), NEW n \in Nat \ {0}
  PROVE  \A i \in 1..ChunkCount(Len(body), n) : IsNext(Chunks(body, n)[i], body, n, i)
<1> DEFINE m == ChunkCount(Len(body), n)
<1> SUFFICES ASSUME NEW i \in 1..m PROVE IsNext(Chunks(body, n)[i], body, n, i)
  OBVIOUS
<1> DEFINE k == Seen(Len(body), n, i - 1)
           to == Seen(Len(body), n, i)
<1>1. Len(body) \in Nat /\ \A j \in 1..Len(body) : body[j] \in Octets
  BY LenProperties, ElementOfSeq
<1>2. k \in Nat /\ k = (i - 1) * n /\ to \in k + 1..Len(body) /\ to - k <= n
  <2>1. \A j \in 1..m :
           /\ (j - 1) * n \in Nat /\ (j - 1) * n < Len(body)
           /\ Seen(Len(body), n, j - 1) = (j - 1) * n
           /\ Seen(Len(body), n, j) \in (j - 1) * n + 1..Len(body)
           /\ Seen(Len(body), n, j) - (j - 1) * n <= n
    BY <1>1, ChunkBounds
  <2>2. QED
    BY <2>1
<1>3. Chunks(body, n)[i] = SubSeq(body, k + 1, to)
  BY <1>2 DEF Chunks, Seen, ChunkCount
<1> HIDE DEF k, to, m
<1>4. \A j \in k + 1..to : body[j] \in Octets
  BY <1>1, <1>2
<1> DEFINE c == SubSeq(body, k + 1, to)
<1>5. /\ c \in Seq(Octets)
      /\ Len(c) = IF k + 1 <= to THEN to - (k + 1) + 1 ELSE 0
      /\ \A j \in 1..(to - (k + 1) + 1) : c[j] = body[(k + 1) + j - 1]
  BY <1>2, <1>4, SubSeqProperties
<1> HIDE DEF c
<1>6. /\ k + 1 <= to /\ to - (k + 1) + 1 = to - k
      /\ \A j \in 1..(to - k) : (k + 1) + j - 1 = k + j
  BY <1>1, <1>2
<1>7. Len(c) = to - k /\ \A j \in 1..Len(c) : c[j] = body[k + j]
  BY <1>5, <1>6
<1>8. k + Len(c) <= Len(body) /\ Len(c) <= n /\ to = k + Len(c)
  BY <1>1, <1>2, <1>7
<1>9. IsPiece(c, body, k)
  BY <1>2, <1>5, <1>7, <1>8 DEF IsPiece
<1>10. Chunks(body, n)[i] = c
  BY <1>3 DEF c
<1>11. QED
  BY <1>8, <1>9, <1>10 DEF IsNext, k, to

\* The first k bytes of a body with their mark.
Marks(prefix, body, k) == [j \in 1..k |-> <<prefix, body[j]>>]

\* The marks of the first bytes and of the piece that follows are marks of a body.
LEMMA MarksGrow ==
  ASSUME NEW prefix \in Seq(Octets), NEW body \in Seq(Octets), NEW chunk \in Seq(Octets),
         NEW k \in Nat, IsPiece(chunk, body, k)
  PROVE  /\ Marks(prefix, body, k) \in Marked
         /\ Marks(prefix, chunk, Len(chunk)) \in Marked
         /\ Marks(prefix, body, k) \o Marks(prefix, chunk, Len(chunk))
               = Marks(prefix, body, k + Len(chunk))
<1> DEFINE c == Len(chunk)
           P == Seq(Octets) \X Octets
<1>1. /\ Len(body) \in Nat /\ c \in Nat
      /\ \A j \in 1..Len(body) : body[j] \in Octets
      /\ \A j \in 1..c : chunk[j] \in Octets
      /\ k + c <= Len(body) /\ \A j \in 1..c : chunk[j] = body[k + j]
  BY LenProperties, ElementOfSeq DEF IsPiece
<1>2. /\ \A j \in 1..k : j \in 1..Len(body)
      /\ \A j \in 1..(k + c) : j \in 1..Len(body)
  BY <1>1
<1> HIDE DEF c
<1>3. /\ Marks(prefix, body, k) \in [1..k -> P]
      /\ Marks(prefix, chunk, c) \in [1..c -> P]
      /\ Marks(prefix, body, k + c) \in [1..(k + c) -> P]
  BY <1>1, <1>2 DEF Marks
<1>4. /\ Marks(prefix, body, k) \in Seq(P) /\ Len(Marks(prefix, body, k)) = k
      /\ Marks(prefix, chunk, c) \in Seq(P) /\ Len(Marks(prefix, chunk, c)) = c
      /\ Marks(prefix, body, k + c) \in Seq(P) /\ Len(Marks(prefix, body, k + c)) = k + c
  <2>1. \A b \in Nat : \A q \in [1..b -> P] : q \in Seq(P) /\ Len(q) = b
    BY SeqDef
  <2>2. k + c \in Nat
    BY <1>1
  <2>3. QED
    BY <1>1, <1>3, <2>1, <2>2
<1> DEFINE both == Marks(prefix, body, k) \o Marks(prefix, chunk, c)
<1>5. /\ both \in Seq(P) /\ Len(both) = k + c
      /\ \A j \in 1..(k + c) : both[j] = IF j <= k THEN Marks(prefix, body, k)[j]
                                       ELSE Marks(prefix, chunk, c)[j - k]
  <2> DEFINE p == Marks(prefix, body, k)
             q == Marks(prefix, chunk, c)
  <2>1. p \in Seq(P) /\ q \in Seq(P) /\ Len(p) = k /\ Len(q) = c
    BY <1>4
  <2> HIDE DEF p, q, P
  <2>2. /\ p \o q \in Seq(P) /\ Len(p \o q) = Len(p) + Len(q)
        /\ \A j \in 1..(Len(p) + Len(q)) :
              (p \o q)[j] = IF j <= Len(p) THEN p[j] ELSE q[j - Len(p)]
    BY <2>1, ConcatProperties
  <2>3. /\ p \o q \in Seq(P) /\ Len(p \o q) = k + c
        /\ \A j \in 1..(k + c) : (p \o q)[j] = IF j <= k THEN p[j] ELSE q[j - k]
    BY <2>1, <2>2
  <2>4. QED
    BY <2>3 DEF p, q
<1> HIDE DEF both, P
<1>6. \A j \in 1..(k + c) : both[j] = Marks(prefix, body, k + c)[j]
  <2> SUFFICES ASSUME NEW j \in 1..(k + c) PROVE both[j] = Marks(prefix, body, k + c)[j]
    OBVIOUS
  <2>1. Marks(prefix, body, k + c)[j] = <<prefix, body[j]>>
    BY DEF Marks
  <2>2. CASE j <= k
    <3>1. j \in 1..k
      BY <2>2
    <3>2. QED
      BY <1>5, <2>1, <2>2, <3>1 DEF Marks
  <2>3. CASE ~(j <= k)
    <3>1. j - k \in 1..c /\ k + (j - k) = j
      BY <1>1, <2>3
    <3>2. chunk[j - k] = body[j]
      BY <1>1, <3>1
    <3>3. QED
      BY <1>5, <2>1, <2>3, <3>1, <3>2 DEF Marks
  <2>4. QED
    BY <2>2, <2>3
<1>7. both = Marks(prefix, body, k + c)
  BY <1>4, <1>5, <1>6, SeqEqual
<1>8. QED
  BY <1>4, <1>7 DEF both, P, c, Marked

\* The records that some pieces p with a content begin: complete, small, and
\* followed by whatever records come then.
Precede(p, n, content) ==
    \A s \in Seq(Octets) :
        /\ IsWhole(p \o s) <=> IsWhole(s)
        /\ LongestBody(s) <= n => LongestBody(p \o s) <= n
        /\ Carried(p \o s) = content \o Carried(s)

\* A record of at most n bytes precedes whatever records come after it.
LEMMA RecordPrecedes ==
  ASSUME NEW r, IsRecord(r), NEW n \in Nat, BodyLen(r, 0) <= n
  PROVE  Precede(r, n, Content(r, 0))
<1> SUFFICES ASSUME NEW s \in Seq(Octets)
             PROVE  /\ IsWhole(r \o s) <=> IsWhole(s)
                    /\ LongestBody(s) <= n => LongestBody(r \o s) <= n
                    /\ Carried(r \o s) = Content(r, 0) \o Carried(s)
  BY DEF Precede
<1>1. IsWhole(r \o s) <=> IsWhole(s)
  BY RecordThenWhole
<1>2. LongestBody(s) <= n => LongestBody(r \o s) <= n
  BY RecordThenLongest
<1>3. Carried(r \o s) = Content(r, 0) \o Carried(s)
  BY RecordThenCarried
<1>4. QED
  BY <1>1, <1>2, <1>3

\* What any bytes carry is a sequence of marked bytes.
LEMMA CarriedIsMarked == ASSUME NEW s \in Seq(Octets) PROVE Carried(s) \in Marked
<1>1. PICK c \in [0..Len(s) -> Marked] : Carried(s) = c[0]
  BY CarriedUnfolds
<1>2. 0 \in 0..Len(s)
  BY LenProperties
<1>3. QED
  BY <1>1, <1>2

\* Pieces that precede the rest one after the other precede it together.
LEMMA PrecedeTogether ==
  ASSUME NEW p \in Seq(Octets), NEW q \in Seq(Octets), NEW n, NEW c \in Marked, NEW d \in Marked,
         Precede(p, n, c), Precede(q, n, d)
  PROVE  Precede(p \o q, n, c \o d)
<1> SUFFICES ASSUME NEW s \in Seq(Octets)
             PROVE  /\ IsWhole((p \o q) \o s) <=> IsWhole(s)
                    /\ LongestBody(s) <= n => LongestBody((p \o q) \o s) <= n
                    /\ Carried((p \o q) \o s) = (c \o d) \o Carried(s)
  BY DEF Precede
<1>1. q \o s \in Seq(Octets) /\ (p \o q) \o s = p \o (q \o s)
  BY ConcatProperties, ConcatAssociative
<1>2. (c \o d) \o Carried(s) = c \o (d \o Carried(s))
  <2> DEFINE P == Seq(Octets) \X Octets
  <2>1. c \in Seq(P) /\ d \in Seq(P) /\ Carried(s) \in Seq(P)
    BY CarriedIsMarked DEF Marked
  <2> HIDE DEF P
  <2>2. QED
    BY <2>1, ConcatAssociative
<1>3. /\ IsWhole(q \o s) <=> IsWhole(s)
      /\ LongestBody(s) <= n => LongestBody(q \o s) <= n
      /\ Carried(q \o s) = d \o Carried(s)
  BY DEF Precede
<1>4. /\ IsWhole(p \o (q \o s)) <=> IsWhole(q \o s)
      /\ LongestBody(q \o s) <= n => LongestBody(p \o (q \o s)) <= n
      /\ Carried(p \o (q \o s)) = c \o Carried(q \o s)
  BY <1>1 DEF Precede
<1>5. QED
  BY <1>1, <1>2, <1>3, <1>4

\* Pieces of a body, each in a fragment, are small records that carry the body.
\* The first i of them are put together in f[i] and take the body up to seen[i].
IsPut(f, chunk, seen, prefix, body, n, i) ==
    /\ chunk[i] \in Seq(Octets) /\ Len(chunk[i]) <= n /\ IsShort(chunk[i])
    /\ IsPiece(chunk[i], body, seen[i - 1]) /\ seen[i] = seen[i - 1] + Len(chunk[i])
    /\ f[i] = IF i = 1 THEN Fragment(prefix, chunk[i])
              ELSE f[i - 1] \o Fragment(prefix, chunk[i])

\* A fragment with a chunk of at most n bytes is one small record.
LEMMA FragmentPrecedes ==
  ASSUME NEW prefix \in Seq(Octets), Len(prefix) = 3,
         NEW chunk \in Seq(Octets), IsShort(chunk), NEW n \in Nat, Len(chunk) <= n
  PROVE  /\ Fragment(prefix, chunk) \in Seq(Octets)
         /\ Precede(Fragment(prefix, chunk), n, Marks(prefix, chunk, Len(chunk)))
<1>1. /\ IsRecord(Fragment(prefix, chunk)) /\ BodyLen(Fragment(prefix, chunk), 0) = Len(chunk)
      /\ Content(Fragment(prefix, chunk), 0) = Marks(prefix, chunk, Len(chunk))
  BY FragmentIsRecord DEF Marks
<1>2. Precede(Fragment(prefix, chunk), n, Content(Fragment(prefix, chunk), 0))
  BY <1>1, RecordPrecedes
<1>3. QED
  BY <1>1, <1>2 DEF IsRecord

\* One more fragment keeps the records small and takes the body one piece further.
LEMMA PutPrecedes ==
  ASSUME NEW prefix \in Seq(Octets), Len(prefix) = 3,
         NEW body \in Seq(Octets), NEW n \in Nat, NEW m \in Nat,
         NEW chunk, NEW seen, seen[0] = 0, NEW f, NEW i \in 1..m,
         IsPut(f, chunk, seen, prefix, body, n, i),
         i # 1 => f[i - 1] \in Seq(Octets) /\ Precede(f[i - 1], n, Marks(prefix, body, seen[i - 1]))
  PROVE  f[i] \in Seq(Octets) /\ Precede(f[i], n, Marks(prefix, body, seen[i]))
<1>1. PICK c, k, frag :
         /\ c = chunk[i] /\ k = seen[i - 1] /\ frag = Fragment(prefix, c)
  OBVIOUS
<1>2. /\ c \in Seq(Octets) /\ Len(c) <= n /\ IsShort(c) /\ IsPiece(c, body, k) /\ k \in Nat
      /\ seen[i] = k + Len(c)
  BY <1>1 DEF IsPut, IsPiece
<1>3. frag \in Seq(Octets) /\ Precede(frag, n, Marks(prefix, c, Len(c)))
  BY <1>1, <1>2, FragmentPrecedes
<1>4. /\ Marks(prefix, body, k) \in Marked /\ Marks(prefix, c, Len(c)) \in Marked
      /\ Marks(prefix, body, k) \o Marks(prefix, c, Len(c)) = Marks(prefix, body, seen[i])
  BY <1>2, MarksGrow
<1>5. CASE i = 1
  <2>1. f[i] = frag
    BY <1>1, <1>5 DEF IsPut
  <2>2. k = 0
    BY <1>1, <1>5
  <2>3. Marks(prefix, body, k) = <<>>
    BY <2>2 DEF Marks
  <2>4. Marks(prefix, c, Len(c)) = Marks(prefix, body, seen[i])
    BY <1>4, <2>3, ConcatEmptySeq DEF Marked
  <2>5. QED
    BY <1>3, <2>1, <2>4
<1>6. CASE i # 1
  <2>1. f[i] = f[i - 1] \o frag
    BY <1>1, <1>6 DEF IsPut
  <2>2. PICK g \in Seq(Octets) : g = f[i - 1] /\ Precede(g, n, Marks(prefix, body, k))
    BY <1>1, <1>6
  <2>3. Precede(g \o frag, n, Marks(prefix, body, k) \o Marks(prefix, c, Len(c)))
    BY <1>3, <1>4, <2>2, PrecedeTogether
  <2>4. g \o frag \in Seq(Octets)
    BY <1>3, <2>2, ConcatProperties
  <2>5. QED
    BY <1>4, <2>1, <2>2, <2>3, <2>4
<1>7. QED
  BY <1>5, <1>6

\* So all the pieces of a body precede what follows, and carry the body.
LEMMA PiecesPrecede ==
  ASSUME NEW prefix \in Seq(Octets), Len(prefix) = 3,
         NEW body \in Seq(Octets), NEW n \in Nat, NEW m \in Nat \ {0},
         NEW chunk, NEW seen, seen[0] = 0, NEW f,
         \A i \in 1..m : IsPut(f, chunk, seen, prefix, body, n, i)
  PROVE  f[m] \in Seq(Octets) /\ Precede(f[m], n, Marks(prefix, body, seen[m]))
<1> DEFINE Done(k) == f[k] \in Seq(Octets) /\ Precede(f[k], n, Marks(prefix, body, seen[k]))
           H == {k \in 0..m : k # 0 => Done(k)}
<1>1. ASSUME NEW k \in 1..m, k # 1 => Done(k - 1) PROVE Done(k)
  BY <1>1, PutPrecedes
<1> HIDE DEF Done
<1>2. ASSUME NEW k \in 0..m, \A j \in 0..m : j < k => j \in H
      PROVE  k \in H
  <2> SUFFICES ASSUME k # 0 PROVE Done(k)
    OBVIOUS
  <2>1. k \in 1..m /\ k - 1 \in 0..m /\ k - 1 < k /\ (k # 1 => k - 1 # 0)
    OBVIOUS
  <2>2. k # 1 => Done(k - 1)
    BY <1>2, <2>1
  <2>3. QED
    BY <1>1, <2>1, <2>2
<1>3. H \in SUBSET (0..m)
  OBVIOUS
<1>4. m \in H
  <2> HIDE DEF H
  <2>1. H = 0..m
    BY <1>2, <1>3, NoLeast
  <2>2. QED
    BY <2>1
<1>5. QED
  BY <1>4 DEF Done

\* So do the fragments of the chunks of a body.
LEMMA FragmentsPrecede ==
  ASSUME NEW prefix \in Seq(Octets), Len(prefix) = 3,
         NEW body \in Seq(Octets), IsShort(body), NEW n \in Nat \ {0},
         ChunkCount(Len(body), n) # 0
  PROVE  LET frags == [i \in 1..ChunkCount(Len(body), n) |-> Fragment(prefix, Chunks(body, n)[i])]
         IN  /\ FlattenSeq(frags) \in Seq(Octets)
             /\ Precede(FlattenSeq(frags), n, Marks(prefix, body, Len(body)))
<1> DEFINE l == Len(body)
           m == ChunkCount(l, n)
           chunk == [i \in 1..m |-> Chunks(body, n)[i]]
           seen == [i \in 0..m |-> Seen(l, n, i)]
           frags == [i \in 1..m |-> Fragment(prefix, Chunks(body, n)[i])]
<1>1. l \in Nat /\ Base * Base \in Nat
  BY LenProperties, BaseAssumption
<1>2. m \in Nat \ {0} /\ Seen(l, n, m) = l
  BY <1>1, ChunkBounds
<1>3. Seen(l, n, 0) = 0
  BY <1>1 DEF Seen
<1>4. \A i \in 1..m : IsNext(Chunks(body, n)[i], body, n, i)
  BY ChunkIsPiece
<1> HIDE DEF m
<1>5. seen[m] = l /\ seen[0] = 0
  BY <1>2, <1>3
<1>6. \A i \in 1..m : seen[i] = Seen(l, n, i) /\ seen[i - 1] = Seen(l, n, i - 1)
  <2>1. \A i \in 1..m : i \in 0..m /\ i - 1 \in 0..m
    BY <1>2
  <2>2. QED
    BY <2>1
<1> HIDE DEF seen
<1>7. ASSUME NEW i \in 1..m
      PROVE  /\ chunk[i] \in Seq(Octets) /\ Len(chunk[i]) <= n /\ IsShort(chunk[i])
             /\ IsPiece(chunk[i], body, seen[i - 1]) /\ seen[i] = seen[i - 1] + Len(chunk[i])
             /\ frags[i] = Fragment(prefix, chunk[i])
  <2>1. PICK c, k : c = Chunks(body, n)[i] /\ k = seen[i - 1]
    OBVIOUS
  <2>2. chunk[i] = c /\ frags[i] = Fragment(prefix, c)
    BY <2>1
  <2>3. IsPiece(c, body, k) /\ Len(c) <= n /\ seen[i] = k + Len(c)
    BY <1>4, <1>6, <2>1 DEF IsNext
  <2>4. c \in Seq(Octets) /\ k \in Nat /\ k + Len(c) <= l
    BY <2>3 DEF IsPiece
  <2>5. IsShort(c)
    <3>1. Len(c) \in Nat /\ l < Base * Base
      BY <2>4, LenProperties DEF IsShort
    <3>2. PICK b \in Nat : b = Base * Base
      BY <1>1
    <3>3. Len(c) < b
      <4> HIDE DEF l
      <4>1. QED
        BY <1>1, <2>4, <3>1, <3>2
    <3>4. QED
      BY <3>2, <3>3 DEF IsShort
  <2>6. QED
    BY <2>1, <2>2, <2>3, <2>4, <2>5
<1>8. frags \in [1..m -> Seq(Octets)]
  <2>1. \A i \in 1..m : frags[i] \in Seq(Octets)
    <3> SUFFICES ASSUME NEW i \in 1..m PROVE frags[i] \in Seq(Octets)
      OBVIOUS
    <3>1. PICK c \in Seq(Octets) : frags[i] = Fragment(prefix, c) /\ IsShort(c)
      BY <1>7
    <3>2. QED
      BY <3>1, FragmentIsRecord DEF IsRecord
  <2>2. QED
    BY <2>1
<1> HIDE DEF frags, chunk, l
<1>9. PICK f \in [1..m -> Seq(Octets)] :
         /\ f[1] = frags[1]
         /\ \A i \in 2..m : f[i] = f[i - 1] \o frags[i]
         /\ FlattenSeq(frags) = f[m]
  <2>1. PICK g, k, S : g = frags /\ k = m /\ S = Octets
    OBVIOUS
  <2>2. k \in Nat \ {0} /\ g \in [1..k -> Seq(S)]
    BY <1>2, <1>8, <2>1
  <2>3. Flattens(S, g, k)
    BY <2>2, FlattenUnfolds
  <2>4. QED
    BY <2>1, <2>3 DEF Flattens
<1>10. \A i \in 1..m : IsPut(f, chunk, seen, prefix, body, n, i)
  <2> SUFFICES ASSUME NEW i \in 1..m PROVE IsPut(f, chunk, seen, prefix, body, n, i)
    OBVIOUS
  <2>1. f[i] = IF i = 1 THEN frags[i] ELSE f[i - 1] \o frags[i]
    <3>1. i # 1 => i \in 2..m
      BY <1>2
    <3>2. QED
      BY <1>9, <3>1
  <2>2. QED
    BY <1>7, <2>1 DEF IsPut
<1>11. f[m] \in Seq(Octets) /\ Precede(f[m], n, Marks(prefix, body, seen[m]))
  <2>1. n \in Nat
    OBVIOUS
  <2>2. QED
    BY <1>2, <1>5, <1>10, <2>1, PiecesPrecede
<1>12. QED
  BY <1>5, <1>9, <1>11 DEF l, frags, m

(***************************************************************************)
(* A rewritten payload                                                     *)
(***************************************************************************)

\* What two bytes say of a length.
LEMMA TwoBytes ==
  ASSUME NEW x \in Octets, NEW y \in Octets
  PROVE  x * Base + y \in Nat /\ x * Base + y < Base * Base
<1>1. Base \in Nat \ {0} /\ x \in Nat /\ y \in Nat /\ x <= Base - 1 /\ y <= Base - 1
  BY BaseAssumption DEF Octets
<1>2. \A b \in Nat \ {0}, u, v \in Nat :
         u <= b - 1 /\ v <= b - 1 => u * b + v \in Nat /\ u * b + v < b * b
  <2> SUFFICES ASSUME NEW b \in Nat \ {0}, NEW u \in Nat, NEW v \in Nat, u <= b - 1, v <= b - 1
               PROVE  u * b + v \in Nat /\ u * b + v < b * b
    OBVIOUS
  <2>1. b - u \in Nat /\ b - u - 1 \in Nat
    OBVIOUS
  <2>2. \A i, j \in Nat : i * j \in Nat
    OBVIOUS
  <2>3. b * b = u * b + (b - u - 1) * b + b
    OBVIOUS
  <2>4. (b - u - 1) * b \in Nat /\ u * b \in Nat /\ b * b \in Nat
    BY <2>1, <2>2
  <2>5. QED
    BY <2>3, <2>4
<1>3. QED
  BY <1>1, <1>2

\* The parts of a complete record.
LEMMA RecordParts ==
  ASSUME NEW data \in Seq(Octets), NEW at \in 0..Len(data), IsWholeAt(data, at)
  PROVE  /\ Body(data, at) \in Seq(Octets) /\ Len(Body(data, at)) = BodyLen(data, at)
         /\ BodyLen(data, at) < Base * Base
         /\ Prefix(data, at) \in Seq(Octets) /\ Len(Prefix(data, at)) = 3
         /\ Content(data, at) = Marks(Prefix(data, at), Body(data, at), Len(Body(data, at)))
<1> DEFINE l == BodyLen(data, at)
<1>1. /\ Len(data) \in Nat /\ \A i \in 1..Len(data) : data[i] \in Octets
      /\ l \in Nat /\ After(data, at) = at + 5 + l /\ at + 5 + l <= Len(data)
      /\ at \in Nat
  BY LenProperties, ElementOfSeq, NextRecord DEF HeaderLen
<1>2. l < Base * Base
  <2>1. at + 4 \in 1..Len(data) /\ at + 5 \in 1..Len(data)
    BY <1>1
  <2>2. data[at + 4] \in Octets /\ data[at + 5] \in Octets
    BY <1>1, <2>1
  <2>3. QED
    BY <2>2, TwoBytes DEF BodyLen
<1> HIDE DEF l
<1> DEFINE b == SubSeq(data, at + 5 + 1, at + 5 + l)
           p == SubSeq(data, at + 1, at + 3)
<1>3. b \in Seq(Octets) /\ Len(b) = l /\ \A j \in 1..l : b[j] = data[at + 5 + j]
  <2>1. \A j \in at + 5 + 1..at + 5 + l : data[j] \in Octets
    BY <1>1
  <2>2. at + 5 + 1 \in Int /\ at + 5 + l \in Int
    BY <1>1
  <2>3. /\ b \in Seq(Octets)
        /\ Len(b) = IF at + 5 + 1 <= at + 5 + l THEN at + 5 + l - (at + 5 + 1) + 1 ELSE 0
        /\ \A j \in 1..(at + 5 + l - (at + 5 + 1) + 1) : b[j] = data[at + 5 + 1 + j - 1]
    BY <1>1, <2>1, <2>2, SubSeqProperties
  <2> HIDE DEF b
  <2>4. /\ at + 5 + l - (at + 5 + 1) + 1 = l
        /\ \A j \in 1..l : at + 5 + 1 + j - 1 = at + 5 + j
        /\ ~(at + 5 + 1 <= at + 5 + l) => l = 0
    BY <1>1
  <2>5. QED
    BY <2>3, <2>4
<1>4. p \in Seq(Octets) /\ Len(p) = 3
  <2>1. \A j \in at + 1..at + 3 : data[j] \in Octets
    BY <1>1
  <2>2. at + 1 \in Int /\ at + 3 \in Int /\ at + 1 <= at + 3 /\ at + 3 - (at + 1) + 1 = 3
    BY <1>1
  <2>3. /\ p \in Seq(Octets)
        /\ Len(p) = IF at + 1 <= at + 3 THEN at + 3 - (at + 1) + 1 ELSE 0
    BY <1>1, <2>1, <2>2, SubSeqProperties
  <2>4. QED
    BY <2>2, <2>3
<1>5. Body(data, at) = b /\ Prefix(data, at) = p
  BY <1>1 DEF Body, Prefix, HeaderLen
<1> HIDE DEF b, p
<1>6. Content(data, at) = Marks(p, b, l)
  <2>1. \A j \in 1..l : <<p, b[j]>> = <<p, data[at + HeaderLen + j]>>
    BY <1>3 DEF HeaderLen
  <2>2. Content(data, at) = [j \in 1..l |-> <<p, data[at + HeaderLen + j]>>]
    BY <1>5 DEF Content, l
  <2>3. QED
    BY <2>1, <2>2 DEF Marks
<1>7. QED
  BY <1>2, <1>3, <1>4, <1>5, <1>6 DEF l

\* An empty record is its header.
LEMMA EmptyRecord ==
  ASSUME NEW data \in Seq(Octets), NEW at \in 0..Len(data), IsWholeAt(data, at),
         BodyLen(data, at) = 0
  PROVE  LET h == SubSeq(data, at + 1, at + HeaderLen)
         IN  IsRecord(h) /\ BodyLen(h, 0) = 0 /\ Content(h, 0) = Content(data, at)
<1> DEFINE h == SubSeq(data, at + 1, at + 5)
<1>1. /\ Len(data) \in Nat /\ \A i \in 1..Len(data) : data[i] \in Octets
      /\ at + 5 <= Len(data) /\ at \in Nat
  BY LenProperties, ElementOfSeq, NextRecord DEF HeaderLen
<1>2. h \in Seq(Octets) /\ Len(h) = 5 /\ \A j \in 1..5 : h[j] = data[at + j]
  <2>1. \A j \in at + 1..at + 5 : data[j] \in Octets
    BY <1>1
  <2>2. /\ at + 1 \in Int /\ at + 5 \in Int /\ at + 1 <= at + 5 /\ at + 5 - (at + 1) + 1 = 5
        /\ \A j \in 1..5 : at + 1 + j - 1 = at + j
    BY <1>1
  <2>3. /\ h \in Seq(Octets)
        /\ Len(h) = IF at + 1 <= at + 5 THEN at + 5 - (at + 1) + 1 ELSE 0
        /\ \A j \in 1..(at + 5 - (at + 1) + 1) : h[j] = data[at + 1 + j - 1]
    BY <1>1, <2>1, <2>2, SubSeqProperties
  <2> HIDE DEF h
  <2>4. QED
    BY <2>2, <2>3
<1>3. h = SubSeq(data, at + 1, at + HeaderLen)
  BY DEF HeaderLen
<1> HIDE DEF h
<1>4. h[4] = data[at + 4] /\ h[5] = data[at + 5] /\ 0 + 4 = 4 /\ 0 + 5 = 5
  BY <1>2
<1>5. BodyLen(h, 0) = 0
  <2>1. BodyLen(h, 0) = BodyLen(data, at)
    BY <1>4 DEF BodyLen
  <2>2. QED
    BY <2>1
<1>6. IsRecord(h)
  BY <1>2, <1>5 DEF IsRecord, IsWholeAt, After, HeaderLen
<1>7. Content(h, 0) = Content(data, at)
  <2>1. 1..0 = {}
    OBVIOUS
  <2>2. QED
    BY <1>5, <2>1 DEF Content
<1>8. QED
  BY <1>3, <1>5, <1>6, <1>7

\* The records a record is cut into are small and carry what it does.
LEMMA CutPrecedes ==
  ASSUME NEW data \in Seq(Octets), NEW at \in 0..Len(data), IsWholeAt(data, at),
         NEW n \in Nat \ {0}
  PROVE  /\ CutRecord(data, at, n) \in Seq(Octets)
         /\ Precede(CutRecord(data, at, n), n, Content(data, at))
<1> DEFINE body == Body(data, at)
           prefix == Prefix(data, at)
           chunks == Chunks(body, n)
           m == ChunkCount(Len(body), n)
           frags == [i \in 1..m |-> Fragment(prefix, Chunks(body, n)[i])]
<1>1. /\ body \in Seq(Octets) /\ Len(body) = BodyLen(data, at) /\ IsShort(body)
      /\ prefix \in Seq(Octets) /\ Len(prefix) = 3
      /\ Content(data, at) = Marks(prefix, body, Len(body))
  BY RecordParts DEF IsShort
<1> HIDE DEF body, prefix
<1>2. m \in Nat /\ (m = 0 <=> Len(body) = 0)
  <2>1. Len(body) \in Nat
    BY <1>1, LenProperties
  <2>2. QED
    BY <2>1, ChunkBounds
<1>3. DOMAIN chunks = 1..m
  BY DEF Chunks, ChunkCount
<1>4. CASE m = 0
  <2>1. chunks = <<>>
    <3>1. DOMAIN chunks = {}
      BY <1>3, <1>4
    <3>2. chunks = [i \in DOMAIN chunks |-> chunks[i]]
      BY DEF Chunks
    <3>3. \A f : f = [i \in DOMAIN f |-> f[i]] /\ DOMAIN f = {} => f = <<>>
      OBVIOUS
    <3> HIDE DEF chunks
    <3>4. QED
      BY <3>1, <3>2, <3>3
  <2> DEFINE h == SubSeq(data, at + 1, at + HeaderLen)
  <2>2. CutRecord(data, at, n) = h
    BY <2>1 DEF CutRecord, body
  <2>3. IsRecord(h) /\ BodyLen(h, 0) = 0 /\ Content(h, 0) = Content(data, at)
    <3>1. BodyLen(data, at) = 0
      BY <1>1, <1>2, <1>4
    <3>2. QED
      BY <3>1, EmptyRecord
  <2> HIDE DEF h
  <2>4. n \in Nat /\ BodyLen(h, 0) <= n
    BY <2>3
  <2>5. Precede(h, n, Content(h, 0))
    BY <2>3, <2>4, RecordPrecedes
  <2>6. QED
    BY <2>2, <2>3, <2>5 DEF IsRecord
<1>5. CASE m # 0
  <2>1. chunks # <<>>
    <3>1. 1 \in DOMAIN chunks
      BY <1>2, <1>3, <1>5
    <3>2. 1 \notin DOMAIN <<>>
      OBVIOUS
    <3>3. QED
      BY <3>1, <3>2
  <2>2. CutRecord(data, at, n) = FlattenSeq(frags)
    BY <1>3, <2>1 DEF CutRecord, body, prefix
  <2>3. /\ FlattenSeq(frags) \in Seq(Octets)
        /\ Precede(FlattenSeq(frags), n, Marks(prefix, body, Len(body)))
    BY <1>1, <1>5, FragmentsPrecede
  <2>4. QED
    BY <1>1, <2>2, <2>3
<1>6. QED
  BY <1>4, <1>5

\* A payload is cut to a sequence of bytes.
LEMMA CutUnfolds ==
  ASSUME NEW data \in Seq(Octets), NEW n \in Nat \ {0}
  PROVE  \E cut \in [0..Len(data) -> Seq(Octets)] :
            /\ \A at \in 0..Len(data) :
                  cut[at] = CutFrom(cut, data, at, n)
            /\ fragment_payload(data, n) = cut[0]
<1> USE DEF CutFrom
<1> DEFINE D == 0..Len(data)
           V == Seq(Octets)
           base == [at \in D |-> <<>>]
           step == [at \in D |->
                      [v \in V |-> IF IsWholeAt(data, at) THEN CutRecord(data, at, n) \o v ELSE v]]
<1>0. \A at \in D : IsWholeAt(data, at) => \A v \in V : CutRecord(data, at, n) \o v \in V
  BY CutPrecedes, ConcatProperties
<1>1. base \in [D -> V] /\ step \in [D -> [V -> V]]
  BY <1>0, EmptySeq
<1> HIDE DEF base, step
<1>2. PICK f \in [D -> V] : \A at \in D :
         f[at] = IF IsWholeAt(data, at) THEN step[at][f[After(data, at)]] ELSE base[at]
  BY <1>1, RecordRecursion
<1>3. \A at \in D : IsWholeAt(data, at) => After(data, at) \in D
  BY NextRecord
<1>4. \A at \in D :
         /\ base[at] = <<>>
         /\ \A v \in V :
               step[at][v] = IF IsWholeAt(data, at) THEN CutRecord(data, at, n) \o v ELSE v
  BY DEF base, step
<1>5. f = [at \in D |-> CutFrom(f, data, at, n)]
  BY <1>2, <1>3, <1>4
<1> DEFINE cut == CHOOSE e : e = [at \in D |-> CutFrom(e, data, at, n)]
<1>6. cut = [at \in D |-> CutFrom(cut, data, at, n)]
  BY <1>5
<1>7. fragment_payload(data, n) = cut[0]
  BY DEF fragment_payload
<1> HIDE DEF cut
<1>8. cut = f
  <2> DEFINE H == {at \in D : cut[at] = f[at]}
  <2>1. \A at \in D : (IsWholeAt(data, at) => After(data, at) \in H) => at \in H
    BY <1>5, <1>6
  <2>2. H \in SUBSET D
    OBVIOUS
  <2> HIDE DEF H
  <2>3. H = D
    BY <2>1, <2>2, RecordInduction
  <2>4. \A at \in D : cut[at] = f[at]
    BY <2>3 DEF H
  <2>5. QED
    BY <1>2, <1>6, <2>4
<1>9. QED
  BY <1>6, <1>7, <1>8

\* Nothing is a sequence of no records.
LEMMA NothingIsWhole == IsWhole(<<>>) /\ LongestBody(<<>>) = 0 /\ Carried(<<>>) = <<>>
<1> USE DEF EndFrom, LongestFrom, CarriedFrom
<1>1. <<>> \in Seq(Octets) /\ Len(<<>>) = 0
  BY EmptySeq
<1>2. ~IsWholeAt(<<>>, 0) /\ 0 \in 0..Len(<<>>)
  BY <1>1 DEF IsWholeAt, HeaderLen
<1>3. RecordsEnd(<<>>) = 0
  BY <1>1, <1>2, EndUnfolds
<1>4. LongestBody(<<>>) = 0
  <2>1. PICK s \in Seq(Octets) : s = <<>>
    BY <1>1
  <2>2. PICK longest \in [0..Len(s) -> Nat] :
           /\ \A at \in 0..Len(s) :
                 longest[at] = LongestFrom(longest, s, at)
           /\ LongestBody(s) = longest[0]
    BY LongestUnfolds
  <2>3. ~IsWholeAt(s, 0) /\ 0 \in 0..Len(s)
    BY <1>2, <2>1
  <2>4. longest[0] = 0
    BY <2>2, <2>3
  <2>5. QED
    BY <2>1, <2>2, <2>4
<1>5. Carried(<<>>) = <<>>
  BY <1>1, <1>2, CarriedUnfolds
<1>6. QED
  BY <1>1, <1>3, <1>4, <1>5 DEF IsWhole

\* A rewritten payload is a sequence of complete records of at most the size it is
\* cut to, and carries what the payload does.
THEOREM PayloadReassembles ==
  ASSUME NEW data \in Seq(Octets), IsWhole(data), NEW n \in Nat \ {0}
  PROVE  LET p == fragment_payload(data, n)
         IN  IsWhole(p) /\ LongestBody(p) <= n /\ Carried(p) = Carried(data)
<1> USE DEF EndFrom, CarriedFrom, CutFrom
<1> DEFINE D == 0..Len(data)
<1>1. PICK end \in [D -> D] :
         /\ \A at \in D : end[at] = EndFrom(end, data, at)
         /\ RecordsEnd(data) = end[0]
  BY EndUnfolds
<1>2. PICK carried \in [D -> Marked] :
         /\ \A at \in D : carried[at] = CarriedFrom(carried, data, at)
         /\ Carried(data) = carried[0]
  BY CarriedUnfolds
<1>3. PICK cut \in [D -> Seq(Octets)] :
         /\ \A at \in D : cut[at] = CutFrom(cut, data, at, n)
         /\ fragment_payload(data, n) = cut[0]
  BY CutUnfolds
<1> DEFINE Good(at) == /\ IsWhole(cut[at]) /\ LongestBody(cut[at]) <= n
                       /\ Carried(cut[at]) = carried[at]
           H == {at \in D : end[at] = Len(data) => Good(at)}
<1>4. ASSUME NEW at \in D, IsWholeAt(data, at) => After(data, at) \in H
      PROVE  at \in H
  <2> SUFFICES ASSUME end[at] = Len(data) PROVE Good(at)
    OBVIOUS
  <2>1. CASE IsWholeAt(data, at)
    <3>1. After(data, at) \in D /\ end[After(data, at)] = Len(data)
      BY <1>1, <2>1, NextRecord
    <3>2. PICK s \in Seq(Octets) : s = cut[After(data, at)]
      BY <3>1
    <3>3. IsWhole(s) /\ LongestBody(s) <= n /\ Carried(s) = carried[After(data, at)]
      BY <1>4, <2>1, <3>1, <3>2
    <3>4. cut[at] = CutRecord(data, at, n) \o s
      BY <1>3, <2>1, <3>2
    <3>5. carried[at] = Content(data, at) \o Carried(s)
      BY <1>2, <2>1, <3>3
    <3>6. Precede(CutRecord(data, at, n), n, Content(data, at))
      BY <2>1, CutPrecedes
    <3>7. /\ IsWhole(CutRecord(data, at, n) \o s)
          /\ LongestBody(CutRecord(data, at, n) \o s) <= n
          /\ Carried(CutRecord(data, at, n) \o s) = Content(data, at) \o Carried(s)
      BY <3>3, <3>6 DEF Precede
    <3>8. QED
      BY <3>4, <3>5, <3>7
  <2>2. CASE ~IsWholeAt(data, at)
    <3>1. cut[at] = <<>> /\ carried[at] = <<>>
      BY <1>2, <1>3, <2>2
    <3>2. 0 <= n
      OBVIOUS
    <3>3. QED
      BY <3>1, <3>2, NothingIsWhole
  <2>3. QED
    BY <2>1, <2>2
<1>5. H = D
  <2>1. H \in SUBSET D
    OBVIOUS
  <2> HIDE DEF H
  <2>2. QED
    BY <1>4, <2>1, RecordInduction
<1>6. 0 \in D
  BY LenProperties
<1>7. end[0] = Len(data)
  BY <1>1 DEF IsWhole
<1>8. Good(0)
  BY <1>5, <1>6, <1>7
<1>9. QED
  BY <1>2, <1>3, <1>8

(***************************************************************************)
(* The stream                                                              *)
(***************************************************************************)

\* One sequence of bytes is the beginning of another.
Starts(a, b) == Len(a) <= Len(b) /\ \A i \in 1..Len(a) : a[i] = b[i]

\* What was read, written and, unless a packet was rewritten, received are
\* beginnings of the stream.
StreamInv ==
    /\ size \in Nat \ {0}
    /\ stream \in Seq(Octets) /\ record \in Seq(Octets) /\ written \in Seq(Octets)
    /\ Starts(record, stream) /\ Starts(written, stream)
    /\ pc = "reading" => written = <<>>
    /\ pc = "writing" => Starts(written, record)
    /\ sent \in Nat /\ sent <= Len(written)
    /\ verdict # "staged" => got \in Seq(Octets) /\ Len(got) = sent /\ Starts(got, stream)

LEMMA StartsAgain ==
  ASSUME NEW a \in Seq(Octets), NEW b \in Seq(Octets), NEW c \in Seq(Octets),
         Starts(a, b), Starts(b, c)
  PROVE  Starts(a, c)
<1>1. Len(a) \in Nat /\ Len(b) \in Nat /\ Len(c) \in Nat
  BY LenProperties
<1>2. \A i \in 1..Len(a) : i \in 1..Len(b)
  BY <1>1 DEF Starts
<1>3. QED
  BY <1>1, <1>2 DEF Starts

\* A piece cut out of a sequence of bytes.
LEMMA Piece ==
  ASSUME NEW s \in Seq(Octets), NEW m \in Nat \ {0}, NEW n \in Nat, n <= Len(s)
  PROVE  /\ SubSeq(s, m, n) \in Seq(Octets)
         /\ Len(SubSeq(s, m, n)) = IF m <= n THEN n - m + 1 ELSE 0
         /\ \A i \in 1..(n - m + 1) : SubSeq(s, m, n)[i] = s[m + i - 1]
<1>1. Len(s) \in Nat /\ \A i \in 1..Len(s) : s[i] \in Octets
  BY LenProperties, ElementOfSeq
<1>2. \A i \in m..n : s[i] \in Octets
  BY <1>1
<1>3. QED
  BY <1>2, SubSeqProperties

LEMMA Beginning ==
  ASSUME NEW s \in Seq(Octets), NEW n \in Nat, n <= Len(s)
  PROVE  /\ SubSeq(s, 1, n) \in Seq(Octets) /\ Len(SubSeq(s, 1, n)) = n
         /\ \A i \in 1..n : SubSeq(s, 1, n)[i] = s[i]
<1>1. /\ SubSeq(s, 1, n) \in Seq(Octets)
      /\ Len(SubSeq(s, 1, n)) = IF 1 <= n THEN n - 1 + 1 ELSE 0
      /\ \A i \in 1..(n - 1 + 1) : SubSeq(s, 1, n)[i] = s[1 + i - 1]
  BY Piece
<1>2. (IF 1 <= n THEN n - 1 + 1 ELSE 0) = n /\ n - 1 + 1 = n
  OBVIOUS
<1>3. \A i \in 1..n : 1 + i - 1 = i
  OBVIOUS
<1>4. QED
  BY <1>1, <1>2, <1>3

LEMMA FirstChunk ==
  ASSUME NEW body \in Seq(Octets), NEW n \in Nat \ {0}, Len(body) > 0
  PROVE  Head(Chunks(body, n)) = SubSeq(body, 1, IF n < Len(body) THEN n ELSE Len(body))
<1>1. Len(body) \in Nat \ {0}
  BY LenProperties
<1> DEFINE k == (Len(body) + n - 1) \div n
<1>2. k \in Nat \ {0}
  <2>1. \A m \in Nat : m >= n => m \div n \in Nat \ {0}
    OBVIOUS
  <2>2. QED
    BY <1>1, <2>1
<1>3. 1 \in 1..k
  BY <1>2
<1>4. Chunks(body, n)[1] = SubSeq(body, (1 - 1) * n + 1, IF 1 * n < Len(body) THEN 1 * n ELSE Len(body))
  BY <1>3 DEF Chunks
<1>5. (1 - 1) * n + 1 = 1 /\ 1 * n = n
  OBVIOUS
<1>6. Head(Chunks(body, n)) = Chunks(body, n)[1]
  OBVIOUS
<1>7. QED
  BY <1>4, <1>5, <1>6

\* The record that is read is the beginning of the stream.
LEMMA ReadIsBeginning ==
  ASSUME StreamInv, Readable
  PROVE  LET read == SubSeq(stream, 1, After(stream, 0))
         IN  read \in Seq(Octets) /\ Starts(read, stream)
<1>1. Len(stream) \in Nat /\ Len(stream) >= 5 /\ \A i \in 1..Len(stream) : stream[i] \in Octets
  BY LenProperties, ElementOfSeq DEF StreamInv, Readable, IsWholeAt, HeaderLen
<1>2. stream[0 + 4] \in Nat /\ stream[0 + 5] \in Nat /\ Base \in Nat
  BY <1>1, BaseAssumption DEF Octets
<1>3. \A a, b, c \in Nat : a * b + c \in Nat
  OBVIOUS
<1>4. After(stream, 0) \in Nat /\ After(stream, 0) <= Len(stream)
  BY <1>2, <1>3 DEF After, BodyLen, HeaderLen, Readable, IsWholeAt
<1>5. QED
  BY <1>1, <1>4, Piece DEF Starts, StreamInv

\* A chunk that is written is the next piece of the record.
LEMMA ChunkContinues ==
  ASSUME StreamInv, pc = "writing", Len(written) < Len(record),
         NEW more, more = Head(Chunks(SubSeq(record, Len(written) + 1, Len(record)), size))
  PROVE  written \o more \in Seq(Octets) /\ Starts(written \o more, record)
         /\ Len(written) <= Len(written \o more)
<1> DEFINE rest == SubSeq(record, Len(written) + 1, Len(record))
           n == IF size < Len(rest) THEN size ELSE Len(rest)
<1>1. Len(written) \in Nat /\ Len(record) \in Nat /\ Starts(written, record) /\ size \in Nat \ {0}
  BY LenProperties DEF StreamInv
<1>2. /\ rest \in Seq(Octets) /\ Len(rest) = Len(record) - Len(written)
      /\ \A i \in 1..Len(rest) : rest[i] = record[Len(written) + i]
  BY <1>1, Piece DEF StreamInv
<1>0. more = Head(Chunks(rest, size))
  OBVIOUS
<1> HIDE DEF rest
<1>3. more = SubSeq(rest, 1, n)
  <2>1. Len(rest) > 0
    BY <1>1, <1>2
  <2>2. Head(Chunks(rest, size)) = SubSeq(rest, 1, IF size < Len(rest) THEN size ELSE Len(rest))
    BY <1>1, <1>2, <2>1, FirstChunk
  <2>3. QED
    BY <1>0, <2>2
<1>4. n \in Nat \ {0} /\ n <= Len(rest)
  BY <1>1, <1>2
<1> HIDE DEF n
<1>5. /\ more \in Seq(Octets) /\ Len(more) = n
      /\ \A i \in 1..n : more[i] = rest[i]
  BY <1>2, <1>3, <1>4, Beginning
<1>6. /\ written \o more \in Seq(Octets) /\ Len(written \o more) = Len(written) + n
      /\ \A i \in 1..(Len(written) + n) :
            (written \o more)[i] = IF i <= Len(written) THEN written[i] ELSE more[i - Len(written)]
  <2>1. written \in Seq(Octets)
    BY DEF StreamInv
  <2>2. QED
    BY <1>5, <2>1, ConcatProperties
<1>7. \A i \in 1..(Len(written) + n) : (written \o more)[i] = record[i]
  <2> SUFFICES ASSUME NEW i \in 1..(Len(written) + n) PROVE (written \o more)[i] = record[i]
    OBVIOUS
  <2>1. CASE i <= Len(written)
    BY <1>1, <1>4, <1>6, <2>1 DEF Starts
  <2>2. CASE i > Len(written)
    <3>1. i - Len(written) \in 1..n /\ i - Len(written) \in 1..Len(rest)
      BY <1>1, <1>2, <1>4, <2>2
    <3>2. (written \o more)[i] = rest[i - Len(written)]
      BY <1>1, <1>4, <1>5, <1>6, <2>2, <3>1
    <3>3. Len(written) + (i - Len(written)) = i
      BY <1>1
    <3>4. QED
      BY <1>2, <3>1, <3>2, <3>3
  <2>3. i <= Len(written) \/ i > Len(written)
    BY <1>1, <1>4
  <2>4. QED
    BY <2>1, <2>2, <2>3
<1>8. QED
  BY <1>1, <1>2, <1>4, <1>6, <1>7 DEF Starts

\* A packet that goes out as it was continues what the server has.
LEMMA DeliverContinues ==
  ASSUME StreamInv, verdict # "staged",
         NEW n \in Nat \ {0}, sent + n <= Len(written),
         NEW payload, payload = SubSeq(written, sent + 1, sent + n),
         Deliver(sent, payload)
  PROVE  got' \in Seq(Octets) /\ Len(got') = sent + n /\ Starts(got', stream)
<1>1. /\ Len(written) \in Nat /\ Len(stream) \in Nat /\ sent \in Nat /\ Len(got) = sent
      /\ got \in Seq(Octets)
  BY LenProperties DEF StreamInv
<1>2. /\ payload \in Seq(Octets) /\ Len(payload) = n
      /\ \A i \in 1..n : payload[i] = written[sent + i]
  BY <1>1, Piece DEF StreamInv
<1>3. got' = got \o SubSeq(payload, 1, n)
  <2>1. \A k \in Nat : k + n > k /\ k - k + 1 = 1
    OBVIOUS
  <2>2. sent + Len(payload) > Len(got) /\ Len(got) - sent + 1 = 1
    BY <1>1, <1>2, <2>1
  <2>3. QED
    BY <1>2, <2>2 DEF Deliver
<1>4. /\ SubSeq(payload, 1, n) \in Seq(Octets) /\ Len(SubSeq(payload, 1, n)) = n
      /\ \A i \in 1..n : SubSeq(payload, 1, n)[i] = payload[i]
  <2>1. n \in Nat /\ n <= Len(payload) /\ payload \in Seq(Octets)
    BY <1>2
  <2>2. QED
    BY <2>1, Beginning
<1>5. /\ got' \in Seq(Octets) /\ Len(got') = sent + n
      /\ \A i \in 1..(sent + n) :
            got'[i] = IF i <= sent THEN got[i] ELSE SubSeq(payload, 1, n)[i - sent]
  <2> DEFINE piece == SubSeq(payload, 1, n)
  <2> HIDE DEF piece
  <2>1. got' = got \o piece /\ piece \in Seq(Octets) /\ Len(piece) = n
    BY <1>3, <1>4 DEF piece
  <2>2. /\ got' \in Seq(Octets) /\ Len(got') = sent + n
        /\ \A i \in 1..(sent + n) : got'[i] = IF i <= sent THEN got[i] ELSE piece[i - sent]
    BY <1>1, <2>1, ConcatProperties
  <2>3. QED
    BY <2>2 DEF piece
<1>6. \A i \in 1..(sent + n) : got'[i] = stream[i]
  <2> SUFFICES ASSUME NEW i \in 1..(sent + n) PROVE got'[i] = stream[i]
    OBVIOUS
  <2>1. CASE i <= sent
    BY <1>1, <1>5, <2>1 DEF StreamInv, Starts
  <2>2. CASE i > sent
    <3>1. i - sent \in 1..n /\ sent + (i - sent) = i /\ i \in 1..Len(written)
      BY <1>1, <2>2
    <3>2. got'[i] = written[i]
      BY <1>1, <1>2, <1>4, <1>5, <2>2, <3>1
    <3>3. QED
      BY <3>1, <3>2 DEF StreamInv, Starts
  <2>3. QED
    BY <1>1, <2>1, <2>2
<1>7. QED
  BY <1>1, <1>5, <1>6 DEF StreamInv, Starts

LEMMA StreamInvStep == StreamInv /\ [Next]_vars => StreamInv'
<1> SUFFICES ASSUME StreamInv, [Next]_vars PROVE StreamInv'
  OBVIOUS
<1> USE DEF TaskOnly, kernelVars, At
<1>0. Len(written) \in Nat /\ Len(record) \in Nat /\ Len(stream) \in Nat
  BY LenProperties DEF StreamInv
<1>1. CASE ReadRecord
  <2>1. record' \in Seq(Octets) /\ Starts(record', stream)
    BY <1>1, ReadIsBeginning DEF ReadRecord
  <2>2. written = <<>> /\ Len(written) = 0 /\ Len(record') \in Nat
    BY <1>1, <2>1, EmptySeq, LenProperties DEF ReadRecord, StreamInv
  <2>3. Starts(written, record')
    BY <2>2 DEF Starts
  <2>4. QED
    BY <1>1, <2>1, <2>3 DEF ReadRecord, StreamInv, Starts
<1>2. CASE ReadFails
  BY <1>2 DEF ReadFails, StreamInv, Starts
<1>3. CASE WriteSegment
  <2>1. /\ written' \in Seq(Octets) /\ Starts(written', record)
        /\ Len(written) <= Len(written')
    BY <1>3, ChunkContinues DEF WriteSegment
  <2>2. Starts(written', stream)
    BY <2>1, StartsAgain DEF StreamInv
  <2>3. Len(written') \in Nat
    BY <2>1, LenProperties
  <2>4. QED
    BY <1>0, <1>3, <2>1, <2>2, <2>3 DEF WriteSegment, StreamInv, Starts
<1>4. CASE EndSegments
  BY <1>4 DEF EndSegments, StreamInv, Starts
<1>5. CASE WriteRecord
  BY <1>0, <1>5 DEF WriteRecord, StreamInv, Starts
<1>6. CASE Proceed
  BY <1>6 DEF Proceed, StreamInv, Starts
<1>7. CASE Relay
  BY <1>0, <1>7 DEF Relay, StreamInv, Starts
<1>8. CASE Transmit
  <2>1. PICK n \in 1..MaxSegment :
           /\ sent + n <= Len(written) /\ sent' = sent + n
           /\ LET payload == SubSeq(written, sent + 1, sent + n)
              IN  /\ Deliver(sent, OnWire(payload))
                  /\ IF records /\ verdict = "none"
                     THEN verdict' = Judge(payload) ELSE verdict' = verdict
    BY <1>8 DEF Transmit
  <2>2. UNCHANGED <<records, size, stream, pc, record, written>>
    BY <1>8 DEF Transmit
  <2>3. n \in Nat \ {0} /\ sent \in Nat
    BY LimitsAssumption DEF StreamInv
  <2>4. verdict' # "staged" => got' \in Seq(Octets) /\ Len(got') = sent' /\ Starts(got', stream)
    <3> SUFFICES ASSUME verdict' # "staged"
                 PROVE  got' \in Seq(Octets) /\ Len(got') = sent' /\ Starts(got', stream)
      OBVIOUS
    <3> DEFINE payload == SubSeq(written, sent + 1, sent + n)
    <3>1. /\ Deliver(sent, OnWire(payload))
          /\ IF records /\ verdict = "none" THEN verdict' = Judge(payload) ELSE verdict' = verdict
      BY <2>1
    <3> HIDE DEF payload
    <3>2. verdict # "staged" /\ OnWire(payload) = payload
      BY <3>1 DEF OnWire
    <3>3. sent + n <= Len(written) /\ sent' = sent + n /\ Deliver(sent, payload)
      BY <2>1, <3>1, <3>2
    <3>4. QED
      BY <2>3, <3>2, <3>3, DeliverContinues DEF payload
  <2>5. QED
    BY <2>1, <2>2, <2>3, <2>4 DEF StreamInv, Starts
<1>9. CASE UNCHANGED vars
  BY <1>9 DEF vars, StreamInv, Starts
<1>10. QED
  BY <1>1, <1>2, <1>3, <1>4, <1>5, <1>6, <1>7, <1>8, <1>9 DEF Next

LEMMA InitStreamInv == Init => StreamInv
<1> SUFFICES ASSUME Init PROVE StreamInv
  OBVIOUS
<1>1. \A S : <<>> \in Seq(S) /\ Len(<<>>) = 0
  BY EmptySeq
<1>2. stream \in Seq(Octets) /\ Len(stream) \in Nat /\ size \in Nat \ {0}
  BY StreamsAssumption, SizesAssumption, LenProperties DEF Init, Octets
<1>3. QED
  BY <1>1, <1>2 DEF Init, StreamInv, Starts

\* A stream of which no packet was rewritten arrives byte for byte: reading its
\* first record, writing it whole or in chunks of any size, relaying the rest and
\* cutting it into packets loses, repeats and reorders nothing.
THEOREM StreamArrives == Spec => []UnrewrittenIsWhole
<1>1. StreamInv => UnrewrittenIsWhole
  <2> SUFFICES ASSUME StreamInv, verdict # "staged" PROVE IsPrefix(got, stream)
    BY DEF UnrewrittenIsWhole
  <2>1. /\ got \in Seq(Octets) /\ stream \in Seq(Octets) /\ Starts(got, stream)
        /\ Len(got) \in Nat /\ Len(stream) \in Nat /\ Len(got) <= Len(stream)
    BY LenProperties DEF StreamInv, Starts
  <2> DEFINE a == SubSeq(got, 1, Len(got))
             b == SubSeq(stream, 1, Len(got))
  <2>2. /\ a \in Seq(Octets) /\ b \in Seq(Octets)
        /\ Len(a) = Len(got) /\ Len(b) = Len(got)
        /\ \A i \in 1..Len(got) : a[i] = got[i] /\ b[i] = stream[i]
    BY <2>1, Piece
  <2> HIDE DEF a, b
  <2>3. \A i \in 1..Len(a) : a[i] = b[i]
    BY <2>1, <2>2 DEF Starts
  <2>4. a = b
    BY <2>2, <2>3, SeqEqual
  <2>5. QED
    BY <2>1, <2>4 DEF IsPrefix, a, b
<1>2. QED
  BY <1>1, InitStreamInv, StreamInvStep, PTL DEF Spec

\* The verdict on the first packet with data is about a payload of complete records,
\* and what goes out for it is that payload cut to the size.
JudgedInv ==
    verdict = "staged" =>
        /\ first.before \in Seq(Octets) /\ IsWhole(first.before)
        /\ first.after = fragment_payload(first.before, size)

LEMMA JudgedInvStep == StreamInv /\ JudgedInv /\ [Next]_vars => JudgedInv'
<1> SUFFICES ASSUME StreamInv, JudgedInv, [Next]_vars PROVE JudgedInv'
  OBVIOUS
<1>1. CASE Transmit
  <2>1. PICK n \in 1..MaxSegment :
           /\ sent + n <= Len(written)
           /\ LET payload == SubSeq(written, sent + 1, sent + n)
              IN  IF records /\ verdict = "none"
                  THEN /\ verdict' = Judge(payload)
                       /\ first' = [before |-> payload, after |-> OnWire(payload)]
                  ELSE UNCHANGED <<verdict, first>>
    BY <1>1 DEF Transmit
  <2> DEFINE payload == SubSeq(written, sent + 1, sent + n)
  <2>2. size' = size
    BY <1>1 DEF Transmit
  <2>3. payload \in Seq(Octets)
    <3>1. /\ written \in Seq(Octets) /\ sent \in Nat /\ n \in Nat
          /\ sent + 1 \in Nat \ {0} /\ sent + n \in Nat
      BY LimitsAssumption DEF StreamInv
    <3>2. QED
      BY <2>1, <3>1, Piece
  <2> HIDE DEF payload
  <2>4. CASE records /\ verdict = "none"
    <3>1. verdict' = Judge(payload) /\ first' = [before |-> payload, after |-> OnWire(payload)]
      BY <2>1, <2>4 DEF payload
    <3> SUFFICES ASSUME verdict' = "staged"
                 PROVE  /\ first'.before \in Seq(Octets) /\ IsWhole(first'.before)
                        /\ first'.after = fragment_payload(first'.before, size')
      BY DEF JudgedInv
    <3>2. Judge(payload) = "staged"
      BY <3>1
    <3>3. IsWhole(payload)
      BY <3>2 DEF Judge
    <3>4. OnWire(payload) = fragment_payload(payload, size)
      BY <2>4, <3>2 DEF OnWire
    <3>5. first'.before = payload /\ first'.after = OnWire(payload)
      BY <3>1
    <3>6. QED
      BY <2>2, <2>3, <3>3, <3>4, <3>5
  <2>5. CASE ~(records /\ verdict = "none")
    <3>1. verdict' = verdict /\ first' = first
      BY <2>1, <2>5
    <3>2. QED
      BY <2>2, <3>1 DEF JudgedInv
  <2>6. QED
    BY <2>4, <2>5
<1>2. ASSUME ~Transmit PROVE UNCHANGED <<size, verdict, first>>
  BY <1>2 DEF Next, vars, ReadRecord, ReadFails, WriteSegment, EndSegments, WriteRecord,
     Proceed, Relay, TaskOnly, kernelVars
<1>3. QED
  BY <1>1, <1>2 DEF JudgedInv

\* A ClientHello that was rewritten is a sequence of complete records, none longer
\* than the configured size, and carries the very bytes of the client's under their
\* types and versions.
THEOREM RewrittenReassembles == Spec => []FragmentsReassemble
<1>1. Init => JudgedInv
  BY DEF Init, JudgedInv
<1>2. StreamInv /\ JudgedInv => FragmentsReassemble
  <2> SUFFICES ASSUME StreamInv, JudgedInv, verdict = "staged"
               PROVE  /\ IsWhole(first.after) /\ LongestBody(first.after) <= size
                      /\ Carried(first.after) = Carried(first.before)
    BY DEF FragmentsReassemble
  <2>1. PICK data \in Seq(Octets), n \in Nat \ {0} :
           /\ data = first.before /\ n = size /\ IsWhole(data)
           /\ first.after = fragment_payload(data, n)
    BY DEF StreamInv, JudgedInv
  <2>2. QED
    BY <2>1, PayloadReassembles
<1>3. QED
  BY <1>1, <1>2, InitStreamInv, StreamInvStep, JudgedInvStep, PTL DEF Spec
=============================================================================
