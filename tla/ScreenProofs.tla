---------------------------- MODULE ScreenProofs -----------------------------
(***************************************************************************)
(* Safety of what the screens are told: the dashboard's counter and log,   *)
(* for any number of connections and ports, and the lists and counts of a  *)
(* scan, for any list of addresses and hostnames and any limits.           *)
(***************************************************************************)
EXTENDS Dashboard, Scan, Integers, SequenceTheorems, FiniteSetTheorems, TLAPS

(***************************************************************************)
(* Selections                                                              *)
(***************************************************************************)

\* The place of a position among those of a set.
Rank(I, i) == Cardinality({j \in I : j <= i})

\* Positions and their places correspond: Nth is defined for every place, and it
\* misses no position.
LEMMA NthIsOnto ==
  ASSUME NEW n \in Nat, NEW I \in SUBSET (1..n)
  PROVE  /\ IsFiniteSet(I) /\ Cardinality(I) \in Nat
         /\ \A k \in 1..Cardinality(I) : Nth(I, k) \in I /\ Rank(I, Nth(I, k)) = k
         /\ \A i \in I : Rank(I, i) \in 1..Cardinality(I) /\ Nth(I, Rank(I, i)) = i
<1>1. IsFiniteSet(I) /\ Cardinality(I) \in Nat
  <2>1. IsFiniteSet(1..n)
    BY FS_Interval
  <2>2. QED
    BY <2>1, FS_Subset, FS_CardinalityType
<1>2. \A i \in I : Rank(I, i) \in 1..Cardinality(I)
  <2> TAKE i \in I
  <2> DEFINE J == {j \in I : j <= i}
  <2>1. J \in SUBSET I /\ IsFiniteSet(J)
    BY <1>1, FS_Subset
  <2>2. Cardinality(J) \in Nat /\ Cardinality(J) <= Cardinality(I)
    BY <1>1, <2>1, FS_Subset, FS_CardinalityType
  <2>3. i \in J
    OBVIOUS
  <2>4. Cardinality(J) # 0
    BY <2>1, <2>3, FS_EmptySet
  <2>5. QED
    BY <1>1, <2>2, <2>4 DEF Rank
<1>3. \A i, j \in I : i < j => Rank(I, i) < Rank(I, j)
  <2> SUFFICES ASSUME NEW i \in I, NEW j \in I, i < j PROVE Rank(I, i) < Rank(I, j)
    OBVIOUS
  <2> DEFINE A == {m \in I : m <= i}
             B == {m \in I : m <= j}
  <2>1. IsFiniteSet(B)
    BY <1>1, FS_Subset
  <2>2. A \in SUBSET B /\ A # B
    <3>1. j \in B /\ j \notin A
      OBVIOUS
    <3>2. \A m \in I : m <= i => m <= j
      OBVIOUS
    <3>3. QED
      BY <3>1, <3>2
  <2>3. Cardinality(A) <= Cardinality(B) /\ Cardinality(A) # Cardinality(B)
    BY <2>1, <2>2, FS_Subset
  <2>4. Cardinality(A) \in Nat /\ Cardinality(B) \in Nat
    BY <2>1, <2>2, FS_Subset, FS_CardinalityType
  <2>5. QED
    BY <2>3, <2>4 DEF Rank
<1>4. \A i, j \in I : Rank(I, i) = Rank(I, j) => i = j
  <2> SUFFICES ASSUME NEW i \in I, NEW j \in I, i # j PROVE Rank(I, i) # Rank(I, j)
    OBVIOUS
  <2>1. i < j \/ j < i
    OBVIOUS
  <2>2. Rank(I, i) \in Nat /\ Rank(I, j) \in Nat
    BY <1>1, <1>2
  <2>3. QED
    BY <1>3, <2>1, <2>2
<1>5. \A k \in 1..Cardinality(I) : \E i \in I : Rank(I, i) = k
  <2> DEFINE K == 1..Cardinality(I)
             f == [i \in I |-> Rank(I, i)]
  <2>1. f \in Injection(I, K)
    BY <1>2, <1>4 DEF Injection, IsInjective
  <2>2. IsFiniteSet(K) /\ Cardinality(K) = Cardinality(I)
    BY <1>1, FS_Interval
  <2>3. f \in Surjection(I, K)
    BY <2>1, <2>2, FS_Injection
  <2>4. QED
    BY <2>3 DEF Surjection
<1>6. QED
  BY <1>1, <1>2, <1>4, <1>5 DEF Nth, Rank

\* What is picked is a sequence of elements at those positions, and all of them.
LEMMA PickedProperties ==
  ASSUME NEW S, NEW s \in Seq(S), NEW I \in SUBSET DOMAIN s
  PROVE  /\ Picked(s, I) \in Seq(S)
         /\ DOMAIN Picked(s, I) = 1..Cardinality(I)
         /\ Len(Picked(s, I)) = Cardinality(I)
         /\ \A k \in DOMAIN Picked(s, I) : Nth(I, k) \in I /\ Picked(s, I)[k] = s[Nth(I, k)]
         /\ \A i \in I : \E k \in DOMAIN Picked(s, I) : Picked(s, I)[k] = s[i]
<1>1. Len(s) \in Nat /\ DOMAIN s = 1..Len(s) /\ I \in SUBSET (1..Len(s))
  BY LenProperties
<1>2. /\ Cardinality(I) \in Nat
      /\ \A k \in 1..Cardinality(I) : Nth(I, k) \in I
      /\ \A i \in I : Rank(I, i) \in 1..Cardinality(I) /\ Nth(I, Rank(I, i)) = i
  BY <1>1, NthIsOnto
<1>3. \A i \in I : s[i] \in S
  BY <1>1, ElementOfSeq
<1>4. Picked(s, I) \in [1..Cardinality(I) -> S]
  BY <1>2, <1>3 DEF Picked
<1>5. Picked(s, I) \in Seq(S) /\ Len(Picked(s, I)) = Cardinality(I)
  BY <1>2, <1>4, SeqDef
<1>6. QED
  BY <1>2, <1>4, <1>5 DEF Picked

\* The first place is the least position's, the last one the greatest's.
LEMMA NthEnds ==
  ASSUME NEW n \in Nat, NEW I \in SUBSET (1..n), I # {}
  PROVE  /\ Cardinality(I) \in Nat \ {0}
         /\ Nth(I, 1) \in I /\ Nth(I, Cardinality(I)) \in I
         /\ \A i \in I : Nth(I, 1) <= i /\ i <= Nth(I, Cardinality(I))
<1>1. /\ IsFiniteSet(I) /\ Cardinality(I) \in Nat
      /\ \A k \in 1..Cardinality(I) : Nth(I, k) \in I /\ Rank(I, Nth(I, k)) = k
  BY NthIsOnto
<1>2. Cardinality(I) # 0
  BY <1>1, FS_EmptySet
<1> DEFINE first == Nth(I, 1)
           last == Nth(I, Cardinality(I))
           A == {j \in I : j <= first}
           B == {j \in I : j <= last}
<1>3. first \in I /\ last \in I /\ Cardinality(A) = 1 /\ Cardinality(B) = Cardinality(I)
  BY <1>1, <1>2 DEF Rank
<1>4. A \in SUBSET I /\ B \in SUBSET I
  OBVIOUS
<1> HIDE DEF first, last
<1>5. A = {first}
  <2>1. \E x : A = {x}
    BY <1>1, <1>3, <1>4, FS_Subset, FS_Singleton
  <2>2. first \in A
    BY <1>3
  <2>3. QED
    BY <2>1, <2>2
<1>6. B = I
  BY <1>1, <1>3, <1>4, FS_Subset
<1>7. \A i \in I : first <= i
  BY <1>3, <1>5
<1>8. \A i \in I : i <= last
  BY <1>6
<1>9. QED
  BY <1>1, <1>2, <1>3, <1>7, <1>8 DEF first, last

(***************************************************************************)
(* The dashboard                                                           *)
(***************************************************************************)

\* How a connection announces its end.
EndKinds == {"BypassFailed", "ConnectionError", "RelayFinished"}

Kinds == EndKinds \union {"ConnectionAccepted", "BypassSucceeded", "RelayProgress"}

Events == [kind : Kinds, port : Ports, from : Conns]

\* The phases before a connection has announced its end.
Early == {"new", "connecting", "connect_failed", "relaying", "relayed"}

Phases == Early \union {"dropping", "finished", "ended"}

DashTypeOK ==
    /\ phase \in [Conns -> Phases]
    /\ port \in [Conns -> Ports]
    /\ sent \in [Conns -> EndKinds \union {"nothing"}]
    /\ queue \in Seq(Events)
    /\ active \in Nat

\* In the channel, a connection's beginning comes first and nothing but progress
\* follows its end.
InOrder ==
    \A i, j \in 1..Len(queue) : i < j /\ queue[i].from = queue[j].from =>
        /\ queue[j].kind # "ConnectionAccepted"
        /\ queue[i].kind \in EndKinds => queue[j].kind = "RelayProgress"

\* What the channel holds, its connection has sent.
IsSent ==
    \A i \in 1..Len(queue) :
        /\ phase[queue[i].from] # "new"
        /\ queue[i].kind \in EndKinds => sent[queue[i].from] = queue[i].kind

NotYet == \A c \in Conns : phase[c] \in Early => sent[c] = "nothing"

\* An end was not received before the beginning.
EndStays ==
    \A c \in Conns : Pending(c, {"ConnectionAccepted"}) /\ sent[c] # "nothing"
                        => Pending(c, {sent[c]})

ChannelInv == DashTypeOK /\ InOrder /\ IsSent /\ NotYet /\ EndStays

DashInv == ChannelInv /\ IsFiniteSet(Heard) /\ ActiveIsExact

LEMMA PendingAppended ==
  ASSUME queue \in Seq(Events), NEW e \in Events, queue' = Append(queue, e)
  PROVE  /\ queue' \in Seq(Events) /\ Len(queue') = Len(queue) + 1
         /\ \A i \in 1..Len(queue) : queue'[i] = queue[i]
         /\ queue'[Len(queue) + 1] = e
         /\ \A c, K : Pending(c, K)' <=> Pending(c, K) \/ (e.from = c /\ e.kind \in K)
<1>1. /\ queue' \in Seq(Events) /\ Len(queue') = Len(queue) + 1
      /\ \A i \in 1..Len(queue) : queue'[i] = queue[i]
      /\ queue'[Len(queue) + 1] = e
  BY AppendProperties
<1>2. Len(queue) \in Nat /\ DOMAIN queue = 1..Len(queue) /\ DOMAIN queue' = 1..(Len(queue) + 1)
  BY <1>1, LenProperties
<1>3. DOMAIN queue' = DOMAIN queue \union {Len(queue) + 1}
  BY <1>2
<1>4. ASSUME NEW c, NEW K
      PROVE  Pending(c, K)' <=> Pending(c, K) \/ (e.from = c /\ e.kind \in K)
  BY <1>1, <1>2, <1>3 DEF Pending
<1>5. QED
  BY <1>1, <1>4

LEMMA PendingTaken ==
  ASSUME queue \in Seq(Events), queue # <<>>, queue' = Tail(queue)
  PROVE  /\ queue' \in Seq(Events) /\ Len(queue) \in Nat \ {0} /\ Len(queue') = Len(queue) - 1
         /\ \A i \in 1..Len(queue') : i + 1 \in 1..Len(queue) /\ queue'[i] = queue[i + 1]
         /\ queue[1] = Head(queue) /\ Head(queue) \in Events
         /\ \A c, K : Pending(c, K) <=> Pending(c, K)' \/ (Head(queue).from = c /\ Head(queue).kind \in K)
<1>1. /\ queue' \in Seq(Events) /\ Len(queue) \in Nat \ {0} /\ Len(queue') = Len(queue) - 1
      /\ \A i \in 1..Len(queue') : queue'[i] = queue[i + 1]
      /\ Head(queue) \in Events
  BY HeadTailProperties, EmptySeq
<1>2. queue[1] = Head(queue)
  OBVIOUS
<1>3. DOMAIN queue = 1..Len(queue) /\ DOMAIN queue' = 1..Len(queue')
  BY <1>1, LenProperties
<1>4. \A i \in 1..Len(queue') : i + 1 \in 1..Len(queue)
  BY <1>1
<1>5. \A i \in 1..Len(queue) : i = 1 \/ (i - 1 \in 1..Len(queue') /\ queue'[i - 1] = queue[i])
  BY <1>1
<1>6. ASSUME NEW c, NEW K
      PROVE  Pending(c, K) <=> Pending(c, K)' \/ (Head(queue).from = c /\ Head(queue).kind \in K)
  <2>1. 1 \in 1..Len(queue)
    BY <1>1
  <2>2. Pending(c, K)' => Pending(c, K)
    BY <1>1, <1>3, <1>4 DEF Pending
  <2>3. Head(queue).from = c /\ Head(queue).kind \in K => Pending(c, K)
    BY <2>1, <1>2, <1>3 DEF Pending
  <2>4. Pending(c, K) => Pending(c, K)' \/ (Head(queue).from = c /\ Head(queue).kind \in K)
    BY <1>2, <1>3, <1>5 DEF Pending
  <2>5. QED
    BY <2>2, <2>3, <2>4
<1>7. QED
  BY <1>1, <1>2, <1>4, <1>6

\* A connection moves on and sends nothing.
LEMMA QuietStep ==
  ASSUME DashInv, NEW c \in Conns, NEW to \in Phases \ {"new"},
         phase[c] # "new", to \in Early => phase[c] \in Early,
         phase' = [phase EXCEPT ![c] = to],
         UNCHANGED <<port, sent, queue, active>>
  PROVE  DashInv'
<1> USE DEF DashInv, ChannelInv
<1>1. DashTypeOK' /\ InOrder' /\ IsSent' /\ NotYet'
  BY DEF DashTypeOK, InOrder, IsSent, NotYet, Phases, Events
<1>2. \A d, K : Pending(d, K)' = Pending(d, K)
  BY DEF Pending
<1>3. EndStays'
  BY <1>2 DEF EndStays
<1>4. Heard' = Heard
  BY <1>2 DEF Heard, DashTypeOK
<1>5. QED
  BY <1>1, <1>3, <1>4 DEF ActiveIsExact

\* A connection sends an event that is not its end; it begins with its first one.
LEMMA EmitStep ==
  ASSUME DashInv, NEW c \in Conns, NEW to \in Phases \ {"new"},
         NEW event \in Kinds \ EndKinds, Emit(c, event),
         event = "ConnectionAccepted" <=> phase[c] = "new",
         to \in Early \/ event # "RelayProgress" => sent[c] = "nothing",
         phase' = [phase EXCEPT ![c] = to],
         UNCHANGED <<port, sent>>
  PROVE  DashInv'
<1> USE DEF DashInv, ChannelInv
<1> DEFINE e == [kind |-> event, port |-> port[c], from |-> c]
<1>1. e \in Events /\ queue \in Seq(Events) /\ queue' = Append(queue, e) /\ active' = active
  BY DEF Events, DashTypeOK, Emit, dashVars
<1>2. /\ queue' \in Seq(Events) /\ Len(queue') = Len(queue) + 1
      /\ \A i \in 1..Len(queue) : queue'[i] = queue[i]
      /\ queue'[Len(queue) + 1] = e
      /\ \A d, K : Pending(d, K)' <=> Pending(d, K) \/ (d = c /\ event \in K)
  BY <1>1, PendingAppended
<1> HIDE DEF e
<1>3. e.kind = event /\ e.from = c
  BY DEF e
<1>4. Len(queue) \in Nat /\ \A i \in 1..Len(queue') : i \in 1..Len(queue) \/ i = Len(queue) + 1
  BY <1>1, <1>2, LenProperties
<1>5. DashTypeOK' /\ NotYet'
  BY <1>1, <1>2 DEF DashTypeOK, NotYet, Early, Phases
<1>6. IsSent'
  <2>1. \A d \in Conns : phase[d] # "new" \/ d = c => phase'[d] # "new"
    BY DEF DashTypeOK
  <2>2. \A i \in 1..Len(queue) : queue[i].from \in Conns
    <3>1. queue \in Seq(Events)
      BY <1>1
    <3>2. \A i \in 1..Len(queue) : queue[i] \in Events
      BY <3>1, ElementOfSeq
    <3>3. QED
      BY <3>2 DEF Events
  <2>3. ASSUME NEW i \in 1..Len(queue)
        PROVE  /\ phase'[queue'[i].from] # "new"
               /\ queue'[i].kind \in EndKinds => sent'[queue'[i].from] = queue'[i].kind
    BY <1>2, <2>1, <2>2 DEF IsSent
  <2>4. /\ phase'[queue'[Len(queue) + 1].from] # "new"
        /\ queue'[Len(queue) + 1].kind \notin EndKinds
    BY <1>2, <1>3, <2>1
  <2>5. QED
    BY <1>4, <2>3, <2>4 DEF IsSent
<1>7. InOrder'
  <2>1. \A i \in 1..Len(queue) : queue[i].from = c =>
           /\ event # "ConnectionAccepted"
           /\ queue[i].kind \in EndKinds => event = "RelayProgress"
    BY DEF IsSent, EndKinds
  <2>2. ASSUME NEW i \in 1..Len(queue'), NEW j \in 1..Len(queue'), i < j,
               queue'[i].from = queue'[j].from
        PROVE  /\ queue'[j].kind # "ConnectionAccepted"
               /\ queue'[i].kind \in EndKinds => queue'[j].kind = "RelayProgress"
    <3>1. i \in 1..Len(queue) /\ queue'[i] = queue[i]
      BY <2>2, <1>2, <1>4
    <3>2. CASE j \in 1..Len(queue)
      BY <2>2, <3>1, <3>2, <1>2 DEF InOrder
    <3>3. CASE j = Len(queue) + 1
      BY <2>1, <2>2, <3>1, <3>3, <1>2, <1>3
    <3>4. QED
      BY <3>2, <3>3, <1>4
  <2>3. QED
    BY <2>2 DEF InOrder
<1>8. EndStays'
  BY <1>2 DEF EndStays, NotYet, Early
<1>9. Heard' = Heard
  <2>1. ASSUME NEW d \in Conns PROVE d \in Heard' <=> d \in Heard
    <3>1. CASE d # c
      BY <3>1, <1>2 DEF Heard, DashTypeOK
    <3>2. CASE d = c
      <4>1. CASE event = "ConnectionAccepted"
        BY <4>1, <3>2, <1>2 DEF Heard
      <4>2. CASE event # "ConnectionAccepted"
        <5>1. phase[c] # "new" /\ phase'[c] # "new"
          BY <4>2 DEF DashTypeOK
        <5>2. Pending(c, {"ConnectionAccepted"})' <=> Pending(c, {"ConnectionAccepted"})
          BY <4>2, <1>2
        <5>3. event # sent[c]
          BY DEF DashTypeOK, Kinds, EndKinds
        <5>4. sent'[c] = sent[c] /\ (Pending(c, {sent[c]})' <=> Pending(c, {sent[c]}))
          BY <5>3, <1>2
        <5>5. QED
          BY <3>2, <5>1, <5>2, <5>4 DEF Heard
      <4>3. QED
        BY <4>1, <4>2
    <3>3. QED
      BY <3>1, <3>2
  <2>2. QED
    BY <2>1 DEF Heard
<1>10. QED
  BY <1>1, <1>5, <1>6, <1>7, <1>8, <1>9 DEF ActiveIsExact

\* A connection announces its end, which it does once.
LEMMA EmitEndStep ==
  ASSUME DashInv, NEW c \in Conns, NEW to \in Phases \ Early,
         NEW event \in EndKinds, EmitEnd(c, event),
         phase[c] \in Early \ {"new"},
         phase' = [phase EXCEPT ![c] = to],
         UNCHANGED port
  PROVE  DashInv'
<1> USE DEF DashInv, ChannelInv
<1> DEFINE e == [kind |-> event, port |-> port[c], from |-> c]
<1>1. /\ e \in Events /\ queue \in Seq(Events) /\ queue' = Append(queue, e)
      /\ active' = active /\ sent' = [sent EXCEPT ![c] = event]
  BY DEF Events, Kinds, DashTypeOK, EmitEnd, Emit, dashVars
<1>2. /\ queue' \in Seq(Events) /\ Len(queue') = Len(queue) + 1
      /\ \A i \in 1..Len(queue) : queue'[i] = queue[i]
      /\ queue'[Len(queue) + 1] = e
      /\ \A d, K : Pending(d, K)' <=> Pending(d, K) \/ (d = c /\ event \in K)
  BY <1>1, PendingAppended
<1> HIDE DEF e
<1>3. e.kind = event /\ e.from = c
  BY DEF e
<1>4. Len(queue) \in Nat /\ \A i \in 1..Len(queue') : i \in 1..Len(queue) \/ i = Len(queue) + 1
  BY <1>1, <1>2, LenProperties
<1>5. sent[c] = "nothing" /\ phase'[c] = to /\ to \notin Early /\ sent'[c] = event
  BY <1>1 DEF NotYet, DashTypeOK
<1>6. DashTypeOK' /\ NotYet'
  BY <1>1, <1>2, <1>5 DEF DashTypeOK, NotYet, Phases
<1>7. \A i \in 1..Len(queue) : queue[i].from = c => queue[i].kind \notin EndKinds
  BY <1>5 DEF IsSent, EndKinds
<1>8. IsSent'
  BY <1>1, <1>2, <1>3, <1>4, <1>5, <1>7 DEF IsSent, DashTypeOK, Early
<1>9. InOrder'
  <2>1. ASSUME NEW i \in 1..Len(queue'), NEW j \in 1..Len(queue'), i < j,
               queue'[i].from = queue'[j].from
        PROVE  /\ queue'[j].kind # "ConnectionAccepted"
               /\ queue'[i].kind \in EndKinds => queue'[j].kind = "RelayProgress"
    <3>1. i \in 1..Len(queue) /\ queue'[i] = queue[i]
      BY <2>1, <1>2, <1>4
    <3>2. CASE j \in 1..Len(queue)
      BY <2>1, <3>1, <3>2, <1>2 DEF InOrder
    <3>3. CASE j = Len(queue) + 1
      BY <1>7, <2>1, <3>1, <3>3, <1>2, <1>3 DEF EndKinds
    <3>4. QED
      BY <3>2, <3>3, <1>4
  <2>2. QED
    BY <2>1 DEF InOrder
<1>10. EndStays'
  <2>1. \A d \in Conns : d # c => sent'[d] = sent[d]
    BY <1>1 DEF DashTypeOK
  <2>2. QED
    BY <1>2, <1>5, <2>1 DEF EndStays, EndKinds
<1>11. Heard' = Heard
  <2>1. ASSUME NEW d \in Conns PROVE d \in Heard' <=> d \in Heard
    <3>1. CASE d # c
      BY <3>1, <1>1, <1>2 DEF Heard, DashTypeOK
    <3>2. CASE d = c
      BY <3>2, <1>1, <1>2, <1>5 DEF Heard, EndKinds, Early
    <3>3. QED
      BY <3>1, <3>2
  <2>2. QED
    BY <2>1 DEF Heard
<1>12. QED
  BY <1>1, <1>6, <1>8, <1>9, <1>10, <1>11 DEF ActiveIsExact

\* The dashboard takes an event: what is left in the channel is still in order.
LEMMA TakeStep ==
  ASSUME ChannelInv, queue # <<>>, queue' = Tail(queue), UNCHANGED connVars,
         active' \in Nat
  PROVE  ChannelInv'
<1> USE DEF ChannelInv, connVars
<1> DEFINE e == Head(queue)
<1>1. /\ queue' \in Seq(Events) /\ Len(queue) \in Nat \ {0} /\ Len(queue') = Len(queue) - 1
      /\ \A i \in 1..Len(queue') : i + 1 \in 1..Len(queue) /\ queue'[i] = queue[i + 1]
      /\ queue[1] = e /\ e \in Events
      /\ \A c, K : Pending(c, K) <=> Pending(c, K)' \/ (e.from = c /\ e.kind \in K)
  BY PendingTaken DEF DashTypeOK
<1> HIDE DEF e
<1>2. DashTypeOK' /\ NotYet'
  BY <1>1 DEF DashTypeOK, NotYet
<1>3. IsSent'
  BY <1>1 DEF IsSent
<1>4. InOrder'
  <2>1. ASSUME NEW i \in 1..Len(queue'), NEW j \in 1..Len(queue'), i < j
        PROVE  i + 1 < j + 1
    BY <1>1, <2>1
  <2>2. QED
    BY <1>1, <2>1 DEF InOrder
<1>5. EndStays'
  <2>1. ASSUME NEW c \in Conns, Pending(c, {"ConnectionAccepted"})', sent[c] # "nothing"
        PROVE  Pending(c, {sent[c]})'
    <3>1. Pending(c, {sent[c]})
      BY <2>1, <1>1 DEF EndStays
    <3>2. PICK i \in 1..Len(queue') : queue'[i].from = c /\ queue'[i].kind = "ConnectionAccepted"
      BY <2>1, <1>1, LenProperties DEF Pending
    <3>3. 1 < i + 1 /\ 1 \in 1..Len(queue) /\ i + 1 \in 1..Len(queue)
      BY <1>1
    <3>4. e.from # c
      BY <1>1, <3>2, <3>3 DEF InOrder
    <3>5. QED
      BY <1>1, <3>1, <3>4
  <2>2. QED
    BY <2>1 DEF EndStays
<1>6. QED
  BY <1>2, <1>3, <1>4, <1>5

\* The counter follows the set: apply_event counts up for a connection that was not
\* heard of, and down for one that was.
LEMMA ApplyStep == DashInv /\ apply_event => DashInv'
<1> SUFFICES ASSUME DashInv, apply_event PROVE DashInv'
  OBVIOUS
<1> USE DEF DashInv
<1>1. queue # <<>> /\ queue' = Tail(queue) /\ UNCHANGED connVars
  BY DEF apply_event
<1>e. PICK e \in Events : e = Head(queue)
  BY <1>1, PendingTaken DEF ChannelInv, DashTypeOK
<1>c. PICK c \in Conns : c = e.from
  BY DEF Events
<1>2. /\ queue' \in Seq(Events) /\ Len(queue) \in Nat \ {0} /\ Len(queue') = Len(queue) - 1
      /\ \A i \in 1..Len(queue') : i + 1 \in 1..Len(queue) /\ queue'[i] = queue[i + 1]
      /\ queue[1] = e /\ e \in Events
      /\ \A d, K : Pending(d, K) <=> Pending(d, K)' \/ (c = d /\ e.kind \in K)
  BY <1>e, <1>c, <1>1, PendingTaken DEF ChannelInv, DashTypeOK
<1>3. Opened(e) \/ Connected(e) \/ Failed(e) \/ Finished(e) \/ Progressed(e)
  BY <1>e DEF apply_event
<1>4. /\ e.from = c /\ e.kind \in Kinds
      /\ phase'[c] # "new" /\ phase[c] # "new" /\ sent' = sent /\ phase' = phase
      /\ e.kind \in EndKinds => sent[c] = e.kind
      /\ sent[c] \in EndKinds \union {"nothing"}
  BY <1>c, <1>1, <1>2 DEF Events, ChannelInv, DashTypeOK, IsSent, connVars
<1>5. \A i \in 1..Len(queue') : queue'[i].from = c =>
        /\ queue'[i].kind # "ConnectionAccepted"
        /\ e.kind \in EndKinds => queue'[i].kind = "RelayProgress"
  <2>1. ASSUME NEW i \in 1..Len(queue') PROVE 1 \in 1..Len(queue) /\ 1 < i + 1
    BY <1>2
  <2>2. QED
    BY <1>2, <1>4, <2>1 DEF ChannelInv, InOrder
<1>6. DOMAIN queue' = 1..Len(queue')
  BY <1>2, LenProperties
<1>7. ~Pending(c, {"ConnectionAccepted"})'
  BY <1>5, <1>6 DEF Pending
<1>8. \A d \in Conns : d # c => (d \in Heard' <=> d \in Heard)
  BY <1>2, <1>4 DEF Heard
<1>9. active = Cardinality(Heard) /\ IsFiniteSet(Heard) /\ active \in Nat
  BY DEF ActiveIsExact, ChannelInv, DashTypeOK
<1>10. CASE e.kind = "ConnectionAccepted"
  <2>1. c \notin Heard
    BY <1>2, <1>10 DEF Heard
  <2>2. c \in Heard'
    <3>1. sent[c] # "nothing" => Pending(c, {sent[c]})
      BY <1>2, <1>4, <1>10 DEF ChannelInv, EndStays
    <3>2. sent[c] # "nothing" => Pending(c, {sent[c]})'
      BY <3>1, <1>2, <1>4, <1>10 DEF EndKinds
    <3>3. QED
      BY <3>2, <1>4, <1>7 DEF Heard
  <2>3. Heard' = Heard \union {c}
    BY <1>8, <2>2, <1>4 DEF Heard
  <2>4. active' = active + 1
    BY <1>3, <1>10 DEF Opened, Connected, Failed, Finished, Progressed
  <2>5. QED
    BY <2>1, <2>3, <2>4, <1>1, <1>9, FS_AddElement, TakeStep DEF ActiveIsExact
<1>11. CASE e.kind \in EndKinds
  <2>1. c \in Heard
    BY <1>2, <1>4, <1>7, <1>11 DEF Heard, EndKinds
  <2>2. c \notin Heard'
    <3>1. ~Pending(c, {e.kind})'
      BY <1>5, <1>6, <1>11 DEF Pending, EndKinds
    <3>2. QED
      BY <3>1, <1>4, <1>11 DEF Heard, EndKinds
  <2>3. Heard' = Heard \ {c}
    BY <1>8, <2>2, <1>4 DEF Heard
  <2>4. active' = SaturatingDec(active)
    BY <1>3, <1>11 DEF Opened, Connected, Failed, Finished, Progressed, EndKinds
  <2>5. active # 0
    BY <2>1, <1>9, FS_EmptySet
  <2>6. active' = active - 1 /\ active' \in Nat
    BY <2>4, <2>5, <1>9 DEF SaturatingDec
  <2>7. QED
    BY <2>1, <2>3, <2>6, <1>1, <1>9, FS_RemoveElement, TakeStep DEF ActiveIsExact
<1>12. CASE e.kind \in {"BypassSucceeded", "RelayProgress"}
  <2>1. c \in Heard' <=> c \in Heard
    BY <1>2, <1>4, <1>12 DEF Heard, EndKinds
  <2>2. Heard' = Heard
    BY <1>8, <2>1, <1>4 DEF Heard
  <2>3. active' = active
    BY <1>3, <1>12 DEF Opened, Connected, Failed, Finished, Progressed
  <2>4. QED
    BY <2>2, <2>3, <1>1, <1>9, TakeStep DEF ActiveIsExact
<1>13. QED
  BY <1>4, <1>10, <1>11, <1>12 DEF Kinds

LEMMA InitDashInv == Init => DashInv
<1> SUFFICES ASSUME Init PROVE DashInv
  OBVIOUS
<1>1. queue = <<>> /\ Len(queue) = 0 /\ queue \in Seq(Events) /\ DOMAIN queue = {}
  BY EmptySeq DEF Init
<1>2. Heard = {}
  BY DEF Heard, Init
<1>3. ChannelInv
  BY <1>1 DEF Init, ChannelInv, DashTypeOK, InOrder, IsSent, NotYet, EndStays, Pending,
     Phases, Early, EndKinds
<1>4. QED
  BY <1>2, <1>3, FS_EmptySet DEF DashInv, ActiveIsExact, Init

LEMMA ConnectionStep == ASSUME DashInv, NEW c \in Conns, Connection(c) PROVE DashInv'
<1> USE DEF Move, Phases, Early, Kinds, EndKinds, connVars, dashVars
<1>0. NotYet /\ phase \in [Conns -> Phases]
  BY DEF DashInv, ChannelInv, DashTypeOK
<1>1. CASE Accept(c)
  BY <1>0, <1>1, EmitStep DEF Accept, NotYet
<1>2. CASE ConnectFails(c)
  BY <1>2, QuietStep DEF ConnectFails
<1>3. CASE ReportConnectError(c)
  BY <1>3, EmitEndStep DEF ReportConnectError
<1>4. CASE BypassFails(c)
  BY <1>4, EmitEndStep DEF BypassFails
<1>5. CASE LeaveSilently(c)
  BY <1>5, QuietStep DEF LeaveSilently
<1>6. CASE DropSocket(c)
  BY <1>6, QuietStep DEF DropSocket
<1>7. CASE BypassSucceeds(c)
  BY <1>0, <1>7, EmitStep DEF BypassSucceeds, NotYet
<1>8. CASE Progress(c)
  <2>1. CASE phase[c] \in {"relaying", "relayed"} /\ phase' = phase
    <3>1. phase' = [phase EXCEPT ![c] = phase[c]] /\ phase[c] \in Phases \ {"new"}
      BY <1>0, <2>1
    <3>2. QED
      BY <1>0, <1>8, <2>1, <3>1, EmitStep DEF Progress, NotYet
  <2>2. CASE Move(c, "finished", "ended")
    BY <1>8, <2>2, EmitStep DEF Progress
  <2>3. QED
    BY <1>8, <2>1, <2>2 DEF Progress
<1>9. CASE RelayEnds(c)
  BY <1>9, QuietStep DEF RelayEnds
<1>10. CASE ReportRelay(c)
  BY <1>10, EmitEndStep DEF ReportRelay
<1>11. CASE StopQuietly(c)
  BY <1>11, QuietStep DEF StopQuietly
<1>12. QED
  BY <1>1, <1>2, <1>3, <1>4, <1>5, <1>6, <1>7, <1>8, <1>9, <1>10, <1>11 DEF Connection

LEMMA UnchangedStep == DashInv /\ UNCHANGED vars => DashInv'
<1> SUFFICES ASSUME DashInv, UNCHANGED vars PROVE DashInv'
  OBVIOUS
<1>1. \A d, K : Pending(d, K)' = Pending(d, K)
  BY DEF Pending, vars
<1>2. Heard' = Heard
  BY <1>1 DEF Heard, vars
<1>3. QED
  BY <1>1, <1>2 DEF vars, DashInv, ChannelInv, DashTypeOK, InOrder, IsSent, NotYet,
     EndStays, ActiveIsExact

LEMMA DashInvariant == Spec => []DashInv
<1>1. DashInv /\ [Next]_vars => DashInv'
  BY ConnectionStep, ApplyStep, UnchangedStep DEF Next, Terminated
<1>2. QED
  BY <1>1, InitDashInv, PTL DEF Spec

\* The dashboard's counter is the number of connections whose beginning it has
\* heard and whose end it has not, for any number of connections and ports.
THEOREM CounterIsExact == Spec => []ActiveIsExact
  BY DashInvariant, PTL DEF DashInv

Records == [port : Ports, status : {"Connecting", "Relaying", "Failed", "Done"},
            of : Conns, by : Conns]

LogInv == records \in Seq(Records)

\* Pruning keeps the records it keeps as they are, and every active one.
LEMMA PrunedKeepsActive ==
  ASSUME NEW log \in Seq(Records)
  PROVE  /\ Pruned(log) \in Seq(Records)
         /\ \A i \in DOMAIN log : IsActive(log[i]) =>
               \E j \in DOMAIN Pruned(log) : Pruned(log)[j] = log[i]
<1> DEFINE I == DOMAIN log \ Excess(log)
<1>1. I \in SUBSET DOMAIN log
  OBVIOUS
<1>2. \A i \in DOMAIN log : IsActive(log[i]) => i \in I
  BY DEF Excess
<1> HIDE DEF I
<1>3. /\ Picked(log, I) \in Seq(Records)
      /\ \A i \in I : \E k \in DOMAIN Picked(log, I) : Picked(log, I)[k] = log[i]
  BY <1>1, PickedProperties
<1>4. Pruned(log) = Picked(log, I)
  BY DEF Pruned, I
<1>5. QED
  BY <1>2, <1>3, <1>4

LEMMA UpdatedIsLog ==
  ASSUME LogInv, NEW e \in Events, NEW status \in {"Relaying", "Failed", "Done"}
  PROVE  Updated(e, status) \in Seq(Records)
<1> DEFINE i == find_record(e.port)
<1>1. CASE i = 0
  BY <1>1 DEF Updated, LogInv
<1>2. CASE i # 0
  <2>1. Updated(e, status) = [records EXCEPT ![i] = [@ EXCEPT !.status = status, !.by = e.from]]
    BY <1>2 DEF Updated
  <2> HIDE DEF i
  <2>2. /\ Len(records) \in Nat /\ records \in [1..Len(records) -> Records] /\ e.from \in Conns
    BY LenProperties DEF LogInv, Events
  <2>3. i \in 1..Len(records) =>
          [records[i] EXCEPT !.status = status, !.by = e.from] \in Records
    BY <2>2 DEF Records
  <2>4. Updated(e, status) \in [1..Len(records) -> Records]
    BY <2>1, <2>2, <2>3
  <2>5. QED
    BY <2>2, <2>4, SeqDef
<1>3. QED
  BY <1>1, <1>2

LEMMA ProgressIsLog ==
  ASSUME LogInv, NEW e \in Events, NEW i
  PROVE  [records EXCEPT ![i].by = e.from] \in Seq(Records)
<1>1. /\ Len(records) \in Nat /\ records \in [1..Len(records) -> Records] /\ e.from \in Conns
  BY LenProperties DEF LogInv, Events
<1>2. i \in 1..Len(records) => [records[i] EXCEPT !.by = e.from] \in Records
  BY <1>1 DEF Records
<1>3. [records EXCEPT ![i].by = e.from] \in [1..Len(records) -> Records]
  BY <1>1, <1>2
<1>4. QED
  BY <1>1, <1>3, SeqDef

\* The log a new connection is entered in.
LEMMA EnteredLog ==
  ASSUME LogInv, NEW r \in Records
  PROVE  /\ <<r>> \o records \in Seq(Records)
         /\ \A i \in DOMAIN records : i + 1 \in DOMAIN (<<r>> \o records)
                                        /\ (<<r>> \o records)[i + 1] = records[i]
<1>1. <<r>> \in Seq(Records) /\ Len(<<r>>) = 1
  OBVIOUS
<1>2. /\ <<r>> \o records \in Seq(Records)
      /\ Len(<<r>> \o records) = 1 + Len(records)
      /\ \A i \in 1..(1 + Len(records)) :
            (<<r>> \o records)[i] = IF i <= 1 THEN <<r>>[i] ELSE records[i - 1]
  BY <1>1, ConcatProperties DEF LogInv
<1>3. /\ Len(records) \in Nat /\ DOMAIN records = 1..Len(records)
      /\ DOMAIN (<<r>> \o records) = 1..(1 + Len(records))
  BY <1>2, LenProperties DEF LogInv
<1>4. QED
  BY <1>2, <1>3

LEMMA TakenEvent ==
  ASSUME DashInv, apply_event
  PROVE  Head(queue) \in Events
  BY PendingTaken DEF DashInv, ChannelInv, DashTypeOK, apply_event

LEMMA ApplyKeepsLog == DashInv /\ LogInv /\ apply_event => LogInv'
<1> SUFFICES ASSUME DashInv, LogInv, apply_event PROVE LogInv'
  OBVIOUS
<1>1. PICK e \in Events : e = Head(queue)
  BY TakenEvent
<1>2. Opened(e) \/ Connected(e) \/ Failed(e) \/ Finished(e) \/ Progressed(e)
  BY <1>1 DEF apply_event
<1>3. e.port \in Ports /\ e.from \in Conns
  BY DEF Events
<1>4. CASE Opened(e)
  <2> DEFINE r == [port |-> e.port, status |-> "Connecting", of |-> e.from, by |-> e.from]
  <2>1. r \in Records
    BY <1>3 DEF Records
  <2>2. records' = Pruned(<<r>> \o records)
    BY <1>4 DEF Opened
  <2> HIDE DEF r
  <2>3. QED
    BY <2>1, <2>2, EnteredLog, PrunedKeepsActive DEF LogInv
<1>5. CASE Connected(e) \/ Failed(e) \/ Finished(e)
  BY <1>5, UpdatedIsLog, PrunedKeepsActive DEF Connected, Failed, Finished, LogInv
<1>6. CASE Progressed(e)
  <2>1. PICK i : i = find_record(e.port)
    OBVIOUS
  <2>2. records' = Pruned(IF i = 0 THEN records ELSE [records EXCEPT ![i].by = e.from])
    BY <1>6, <2>1 DEF Progressed
  <2>3. QED
    BY <2>2, ProgressIsLog, PrunedKeepsActive DEF LogInv
<1>7. QED
  BY <1>2, <1>4, <1>5, <1>6

LEMMA QuietLog == ASSUME NEW c, Connection(c) PROVE records' = records /\ active' = active
  BY DEF Connection, Accept, ConnectFails, ReportConnectError, BypassFails, LeaveSilently,
     DropSocket, BypassSucceeds, Progress, RelayEnds, ReportRelay, StopQuietly, EmitEnd, Emit,
     dashVars

LEMMA LogInvariant == Spec => []LogInv
<1>1. Init => LogInv
  BY EmptySeq DEF Init, LogInv
<1>2. DashInv /\ LogInv /\ [Next]_vars => LogInv'
  <2> SUFFICES ASSUME DashInv, LogInv, [Next]_vars PROVE LogInv'
    OBVIOUS
  <2>1. CASE apply_event
    BY <2>1, ApplyKeepsLog
  <2>2. CASE \E c \in Conns : Connection(c)
    BY <2>2, QuietLog DEF LogInv
  <2>3. CASE UNCHANGED vars
    BY <2>3 DEF LogInv, vars
  <2>4. QED
    BY <2>1, <2>2, <2>3 DEF Next, Terminated
<1>3. QED
  BY <1>1, <1>2, DashInvariant, PTL DEF Spec

\* However many newer connections come, prune_connection_records drops no record of
\* a connection that is still active.
THEOREM ActiveRecordsStay == Spec => PruneSparesActive
<1>1. ASSUME DashInv, LogInv, [Next]_vars, active' > active,
             NEW i \in DOMAIN records, IsActive(records[i])
      PROVE  \E j \in DOMAIN records' : records'[j] = records[i]
  <2>1. active \in Nat /\ ~(active > active)
    BY <1>1 DEF DashInv, ChannelInv, DashTypeOK
  <2>2. apply_event
    BY <1>1, <2>1, QuietLog DEF Next, Terminated, vars
  <2>3. PICK e \in Events : e = Head(queue)
    BY <1>1, <2>2, TakenEvent
  <2>4. Opened(e)
    BY <1>1, <2>1, <2>2, <2>3 DEF apply_event, Connected, Failed, Finished, Progressed, SaturatingDec
  <2> DEFINE r == [port |-> e.port, status |-> "Connecting", of |-> e.from, by |-> e.from]
             log == <<r>> \o records
  <2>5. r \in Records
    BY DEF Records, Events
  <2>6. records' = Pruned(log)
    BY <2>4 DEF Opened
  <2> HIDE DEF r
  <2>7. log \in Seq(Records) /\ i + 1 \in DOMAIN log /\ log[i + 1] = records[i]
    BY <1>1, <2>5, EnteredLog
  <2> HIDE DEF log
  <2>8. QED
    BY <1>1, <2>6, <2>7, PrunedKeepsActive
<1>2. DashInv /\ LogInv /\ [Next]_vars =>
        [active' > active =>
            \A i \in DOMAIN records : IsActive(records[i]) =>
               \E j \in DOMAIN records' : records'[j] = records[i]]_vars
  BY <1>1
<1>3. QED
  BY <1>2, DashInvariant, LogInvariant, PTL DEF Spec, PruneSparesActive

(***************************************************************************)
(* The scans                                                               *)
(***************************************************************************)

TaskStates == {"none", "queued", "probing", "reported", "done"}

\* The states of the scan's task that hold a sender of the channel, and those
\* after it has its list.
Running == {"receiving", "spawning", "collecting"}
Over == {"returning", "finished"}

Entries == [place : {Place[t] : t \in Tasks}, special : BOOLEAN, probed : BOOLEAN,
            good : BOOLEAN]

Messages == [kind : {"probe"}, entry : Entries] \union [kind : {"tcp"}, tested : Nat]

ScanTypeOK ==
    /\ attended \in BOOLEAN /\ handed \in BOOLEAN
    /\ task \in [Tasks -> TaskStates]
    /\ chan \in Seq(Messages)
    /\ scan \in Running \union Over \union {"aborted"}
    /\ returned \in Seq(Entries) /\ arrived \in Seq(Entries) /\ offered \in Seq(Entries)
    /\ screen \in {"open", "left"}
    /\ tcpDone \in Nat
    /\ connect \in [Slots -> {"queued", "connecting", "done"}]
    /\ answered \in SUBSET Slots
    /\ p1 \in Seq(Slots) /\ tcpResults \in Seq(Slots)
    /\ p2 \in Seq(Entries)
    /\ host \in [Hosts -> {"resolving", "awaiting", "done"}]

In(s, x) == \E i \in 1..Len(s) : s[i] = x

Found(t, list) == \E i \in 1..Len(list) : list[i].place = Place[t] /\ list[i].probed

LEMMA InAppended ==
  ASSUME NEW S, NEW s \in Seq(S), NEW e \in S
  PROVE  /\ Append(s, e) \in Seq(S)
         /\ \A x : In(Append(s, e), x) <=> In(s, x) \/ x = e
<1>1. /\ Append(s, e) \in Seq(S) /\ Len(Append(s, e)) = Len(s) + 1
      /\ \A i \in 1..Len(s) : Append(s, e)[i] = s[i]
      /\ Append(s, e)[Len(s) + 1] = e /\ Len(s) \in Nat
  BY AppendProperties, LenProperties
<1>2. \A i \in 1..(Len(s) + 1) : i \in 1..Len(s) \/ i = Len(s) + 1
  BY <1>1
<1>3. 1..Len(s) \in SUBSET (1..(Len(s) + 1)) /\ Len(s) + 1 \in 1..(Len(s) + 1)
  BY <1>1
<1>4. QED
  BY <1>1, <1>2, <1>3 DEF In

LEMMA InTaken ==
  ASSUME NEW S, NEW s \in Seq(S), s # <<>>
  PROVE  /\ Head(s) \in S /\ Tail(s) \in Seq(S) /\ In(s, Head(s))
         /\ \A x : In(s, x) <=> In(Tail(s), x) \/ x = Head(s)
<1>1. /\ Head(s) \in S /\ Tail(s) \in Seq(S)
      /\ Len(s) \in Nat \ {0} /\ Len(Tail(s)) = Len(s) - 1
      /\ \A i \in 1..Len(Tail(s)) : Tail(s)[i] = s[i + 1]
      /\ Head(s) = s[1]
  BY HeadTailProperties, EmptySeq
<1>2. \A i \in 1..Len(s) : i = 1 \/ (i - 1 \in 1..Len(Tail(s)) /\ Tail(s)[i - 1] = s[i])
  BY <1>1
<1>3. \A i \in 1..Len(Tail(s)) : i + 1 \in 1..Len(s)
  BY <1>1
<1>4. 1 \in 1..Len(s)
  BY <1>1
<1>5. QED
  BY <1>1, <1>2, <1>3, <1>4 DEF In

LEMMA FoundConcat ==
  ASSUME NEW a \in Seq(Entries), NEW b \in Seq(Entries), NEW t
  PROVE  /\ a \o b \in Seq(Entries)
         /\ Found(t, a) \/ Found(t, b) => Found(t, a \o b)
<1>1. /\ a \o b \in Seq(Entries) /\ Len(a \o b) = Len(a) + Len(b)
      /\ \A i \in 1..Len(a) + Len(b) :
            (a \o b)[i] = IF i <= Len(a) THEN a[i] ELSE b[i - Len(a)]
      /\ Len(a) \in Nat /\ Len(b) \in Nat
  BY ConcatProperties, LenProperties
<1>2. \A i \in 1..Len(a) : i \in 1..Len(a \o b) /\ (a \o b)[i] = a[i]
  BY <1>1
<1>3. \A i \in 1..Len(b) : i + Len(a) \in 1..Len(a \o b) /\ (a \o b)[i + Len(a)] = b[i]
  BY <1>1
<1>4. QED
  BY <1>1, <1>2, <1>3 DEF Found

\* Two sets of positions that cover a list together pick all its entries.
LEMMA PickedParts ==
  ASSUME NEW s \in Seq(Entries), NEW G, NEW P, G \union P = DOMAIN s
  PROVE  /\ Picked(s, G) \in Seq(Entries) /\ Picked(s, P) \in Seq(Entries)
         /\ \A t : Found(t, s) => Found(t, Picked(s, G)) \/ Found(t, Picked(s, P))
<1>1. G \in SUBSET DOMAIN s /\ P \in SUBSET DOMAIN s
  OBVIOUS
<1>2. /\ Picked(s, G) \in Seq(Entries) /\ Picked(s, P) \in Seq(Entries)
      /\ \A i \in G : \E k \in DOMAIN Picked(s, G) : Picked(s, G)[k] = s[i]
      /\ \A i \in P : \E k \in DOMAIN Picked(s, P) : Picked(s, P)[k] = s[i]
  BY <1>1, PickedProperties
<1>3. /\ DOMAIN s = 1..Len(s)
      /\ DOMAIN Picked(s, G) = 1..Len(Picked(s, G))
      /\ DOMAIN Picked(s, P) = 1..Len(Picked(s, P))
  BY <1>2, LenProperties
<1>4. QED
  BY <1>2, <1>3 DEF Found

\* The sort by score loses no entry, no more than the order of the SNI scan.
LEMMA RankedKeeps ==
  ASSUME NEW s \in Seq(Entries)
  PROVE  Ranked(s) \in Seq(Entries) /\ \A t : Found(t, s) => Found(t, Ranked(s))
<1> DEFINE G == {i \in DOMAIN s : IsGood(s[i])}
           P == {i \in DOMAIN s : IsPoor(s[i])}
<1>1. G \union P = DOMAIN s
  BY DEF IsGood, IsPoor
<1>2. Ranked(s) = Picked(s, G) \o Picked(s, P)
  BY DEF Ranked, Those
<1>3. QED
  BY <1>1, <1>2, PickedParts, FoundConcat

LEMMA SniRankedKeeps ==
  ASSUME NEW s \in Seq(Entries)
  PROVE  SniRanked(s) \in Seq(Entries) /\ \A t : Found(t, s) => Found(t, SniRanked(s))
<1> DEFINE G == {i \in DOMAIN s : IsSpecial(s[i])}
           P == {i \in DOMAIN s : IsOrdinary(s[i])}
<1>1. G \union P = DOMAIN s
  BY DEF IsSpecial, IsOrdinary
<1>2. SniRanked(s) = Ranked(Picked(s, G)) \o Ranked(Picked(s, P))
  BY DEF SniRanked, Those
<1> HIDE DEF G, P
<1>3. /\ Picked(s, G) \in Seq(Entries) /\ Picked(s, P) \in Seq(Entries)
      /\ \A t : Found(t, s) => Found(t, Picked(s, G)) \/ Found(t, Picked(s, P))
  BY <1>1, PickedParts
<1>4. QED
  BY <1>2, <1>3, FoundConcat, RankedKeeps

\* What a round of the screen takes from the channel.
LEMMA EntriesInProperties ==
  ASSUME NEW c \in Seq(Messages)
  PROVE  /\ EntriesIn(c) \in Seq(Entries)
         /\ Len(EntriesIn(c)) = Cardinality({i \in DOMAIN c : IsProbe(c[i])})
         /\ Len(EntriesIn(c)) \in Nat
         /\ \A e : In(c, e) /\ IsProbe(e) => In(EntriesIn(c), e.entry)
<1> DEFINE I == {i \in DOMAIN c : IsProbe(c[i])}
           q == Picked(c, I)
<1>1. I \in SUBSET DOMAIN c
  OBVIOUS
<1>2. /\ q \in Seq(Messages)
      /\ DOMAIN q = 1..Cardinality(I)
      /\ Len(q) = Cardinality(I)
      /\ \A k \in DOMAIN q : Nth(I, k) \in I /\ q[k] = c[Nth(I, k)]
      /\ \A i \in I : \E k \in DOMAIN q : q[k] = c[i]
  BY <1>1, PickedProperties
<1>3. EntriesIn(c) = [i \in DOMAIN q |-> q[i].entry]
  BY DEF EntriesIn, Those
<1>4. DOMAIN c = 1..Len(c) /\ \A i \in DOMAIN c : c[i] \in Messages
  BY LenProperties, ElementOfSeq
<1>5. \A k \in DOMAIN q : q[k].entry \in Entries
  BY <1>2, <1>4 DEF IsProbe, Messages
<1>6. Len(q) \in Nat /\ DOMAIN q = 1..Len(q)
  BY <1>2, LenProperties
<1> HIDE DEF q, I
<1>7. EntriesIn(c) \in [1..Len(q) -> Entries]
  BY <1>3, <1>5, <1>6
<1>8. EntriesIn(c) \in Seq(Entries) /\ Len(EntriesIn(c)) = Len(q)
  <2>1. EntriesIn(c) \in Seq(Entries)
    BY <1>6, <1>7, SeqDef
  <2>2. QED
    BY <1>6, <1>7, <2>1, LenProperties
<1>9. ASSUME NEW e, In(c, e), IsProbe(e) PROVE In(EntriesIn(c), e.entry)
  <2>1. PICK i \in I : c[i] = e
    BY <1>4, <1>9 DEF In, I
  <2>2. PICK k \in DOMAIN q : q[k] = e
    BY <1>2, <2>1
  <2>3. QED
    BY <1>3, <1>6, <1>8, <2>2 DEF In
<1>10. QED
  BY <1>2, <1>6, <1>8, <1>9 DEF q, I

NoRepeat(s) == \A i, j \in 1..Len(s) : s[i] = s[j] => i = j

\* What has been connected to waits in p1 or has been received, once.
ConnectInv ==
  kind = "ip" =>
    /\ \A s \in Slots : connect[s] = "done" <=> In(tcpResults, s) \/ In(p1, s)
    /\ \A s \in Slots : ~(In(tcpResults, s) /\ In(p1, s))
    /\ NoRepeat(p1)
    /\ \A s \in answered : connect[s] = "done"
    /\ scan \in {"collecting"} \union Over => p1 = <<>> /\ \A s \in Slots : connect[s] = "done"

\* The position just received, whose probe is to be spawned or never will be.
Due(s) == scan \in {"spawning", "aborted"} /\ s = Last(tcpResults)

\* Exactly what has answered and been received is probed.
SpawnInv ==
  kind = "ip" =>
    /\ \A s \in Slots : task[s] # "none" => In(tcpResults, s) /\ s \in answered
    /\ scan = "spawning" =>
         LET s == Last(tcpResults)
         IN  s \in answered /\ In(tcpResults, s) /\ task[s] = "none"
    /\ \A s \in answered : In(tcpResults, s) /\ ~Due(s) => task[s] # "none"

\* The entry of a probe that has ended waits in p2 or is stored under its address.
EntryInv ==
  kind = "ip" =>
    /\ \A s \in Slots : task[s] = "done" => Place[s] \in DOMAIN tlsResults \/ In(p2, Entry(s))
    /\ \A i \in 1..Len(p2) : p2[i].probed
    /\ \A a \in DOMAIN tlsResults : tlsResults[a] \in Entries /\ tlsResults[a].place = a
                                      /\ tlsResults[a].probed

HostInv ==
  kind = "sni" =>
    /\ \A t \in Pairs : /\ host[HostOf[t]] = "resolving" => task[t] = "none"
                        /\ host[HostOf[t]] = "done" => task[t] \in {"none", "done"}
    /\ scan \in Over => \A h \in Hosts : host[h] = "done"

\* The channel is open while the scan's task runs.
SenderInv == scan \in Running => "scan" \in senders

Open == attended /\ screen = "open"

\* An entry that was sent is on the screen or in the channel.
ShownInv ==
  Open => \A t \in Tasks : task[t] \in {"reported", "done"} =>
            \/ Found(t, arrived)
            \/ In(chan, [kind |-> "probe", entry |-> Entry(t)])

\* Everything is tried, and every probe it led to has ended.
Concluded == AllTried /\ \A t \in Wanted : task[t] = "done"

FinalInv ==
    /\ scan \in Over => Concluded /\ \A t \in Wanted : Found(t, returned)
    /\ attended /\ screen = "left" /\ stop = "none" =>
         scan \notin Running /\ Concluded /\ \A t \in Wanted : Found(t, arrived)
    /\ IF handed THEN /\ scan \in {"finished", "aborted"}
                      /\ attended => screen = "left"
                      /\ stop = "none" => Concluded /\ \A t \in Wanted : Found(t, offered)
                 ELSE scan # "aborted"

\* A scan without a screen shows nothing.
IdleInv == ~attended => screen = "open" /\ arrived = <<>> /\ tcpDone = 0

Counts == {i \in 1..Len(chan) : chan[i].kind = "tcp"}
Sent == {i \in 1..Len(chan) : chan[i].kind = "probe"}
Reported == {s \in Slots : task[s] \in {"reported", "done"}}

\* The last count that was sent is that of the positions received, and no more
\* entries were sent than there are probes to have sent them.
CountInv ==
  kind = "ip" /\ Open =>
    /\ Counts = {} => tcpDone = Len(tcpResults)
    /\ \A i \in Counts : (\A j \in Counts : j <= i) => chan[i].tested = Len(tcpResults)
    /\ Len(arrived) + Cardinality(Sent) <= Cardinality(Reported)

ScanInv == /\ ScanTypeOK /\ ConnectInv /\ SpawnInv /\ EntryInv /\ HostInv /\ SenderInv
           /\ ShownInv /\ FinalInv /\ IdleInv /\ CountInv /\ CountCoversArrived

LEMMA NoRepeatAppended ==
  ASSUME NEW S, NEW s \in Seq(S), NEW e \in S, NoRepeat(s), ~In(s, e)
  PROVE  NoRepeat(Append(s, e))
<1>1. /\ Len(Append(s, e)) = Len(s) + 1 /\ Len(s) \in Nat
      /\ \A i \in 1..Len(s) : Append(s, e)[i] = s[i]
      /\ Append(s, e)[Len(s) + 1] = e
  BY AppendProperties, LenProperties
<1>2. \A i \in 1..(Len(s) + 1) : i \in 1..Len(s) \/ i = Len(s) + 1
  BY <1>1
<1>3. QED
  BY <1>1, <1>2 DEF NoRepeat, In

LEMMA NoRepeatTaken ==
  ASSUME NEW S, NEW s \in Seq(S), s # <<>>, NoRepeat(s)
  PROVE  NoRepeat(Tail(s)) /\ ~In(Tail(s), Head(s))
<1>1. /\ Len(s) \in Nat \ {0} /\ Len(Tail(s)) = Len(s) - 1
      /\ \A i \in 1..Len(Tail(s)) : Tail(s)[i] = s[i + 1]
      /\ Head(s) = s[1]
  BY HeadTailProperties, EmptySeq
<1>2. \A i \in 1..Len(Tail(s)) : i + 1 \in 1..Len(s) /\ i + 1 # 1
  BY <1>1
<1>3. 1 \in 1..Len(s)
  BY <1>1
<1>4. \A i, j \in 1..Len(Tail(s)) : i + 1 = j + 1 => i = j
  BY <1>1
<1>5. QED
  BY <1>1, <1>2, <1>3, <1>4 DEF NoRepeat, In

LEMMA EntryIsTyped == \A t \in Tasks : Entry(t) \in Entries
  BY DEF Entry, Entries

\* The list of an IP scan has an entry for every address with a stored one.
LEMMA MergedKeeps ==
  ASSUME ScanTypeOK, EntryInv, kind = "ip"
  PROVE  /\ Merged \in Seq(Entries)
         /\ \A s \in Slots : In(tcpResults, s) /\ Place[s] \in DOMAIN tlsResults => Found(s, Merged)
<1> DEFINE n == Len(tcpResults)
<1>1. n \in Nat /\ DOMAIN tcpResults = 1..n /\ \A i \in 1..n : tcpResults[i] \in Slots
  BY LenProperties, ElementOfSeq DEF ScanTypeOK
<1>2. \A s \in Slots : Unprobed(s) \in Entries
  BY DEF Unprobed, Entries, Tasks
<1>3. Merged \in [1..n -> Entries]
  BY <1>1, <1>2 DEF Merged, EntryInv
<1> HIDE DEF n
<1>4. Merged \in Seq(Entries) /\ Len(Merged) = n
  <2>1. Merged \in Seq(Entries)
    BY <1>1, <1>3, SeqDef
  <2>2. QED
    BY <1>1, <1>3, <2>1, LenProperties
<1>5. ASSUME NEW s \in Slots, In(tcpResults, s), Place[s] \in DOMAIN tlsResults
      PROVE  Found(s, Merged)
  <2> DEFINE I == {i \in 1..n : Place[tcpResults[i]] = Place[s]}
             i == Nth(I, 1)
  <2>1. I \in SUBSET (1..n) /\ I # {}
    BY <1>5 DEF In, n
  <2>2. i \in I /\ \A j \in I : i <= j
    BY <1>1, <2>1, NthEnds
  <2> HIDE DEF i
  <2>3. i \in 1..n /\ Place[tcpResults[i]] = Place[s]
    BY <2>2
  <2>4. ~ \E j \in 1..(i - 1) : Place[tcpResults[j]] = Place[s]
    BY <1>1, <2>2, <2>3
  <2>5. Merged[i] = tlsResults[Place[s]]
    BY <1>5, <2>3, <2>4 DEF Merged, n
  <2>6. QED
    BY <1>4, <1>5, <2>3, <2>5 DEF Found, EntryInv
<1>6. QED
  BY <1>4, <1>5

LEMMA PairsListed ==
  SetToSeq(Pairs) \in Seq(Pairs) /\ \A t \in Pairs : In(SetToSeq(Pairs), t)
<1> DEFINE n == Cardinality(Pairs)
           f == SetToSeq(Pairs)
<1>1. n \in Nat /\ IsFiniteSet(Pairs)
  BY PairsAssumption, FS_CardinalityType
<1>2. \E g \in [1..n -> Pairs] : IsInjective(g)
  BY PairsAssumption, FS_CardinalityType DEF ExistsBijection, Bijection, Injection
<1>3. f \in [1..n -> Pairs] /\ IsInjective(f)
  BY <1>2 DEF SetToSeq
<1> HIDE DEF n, f
<1>4. IsFiniteSet(1..n) /\ Cardinality(1..n) = n
  BY <1>1, FS_Interval
<1>5. f \in Surjection(1..n, Pairs)
  BY <1>1, <1>3, <1>4, FS_Injection DEF Injection, n
<1>6. f \in Seq(Pairs)
  BY <1>1, <1>3, SeqDef
<1>7. Len(f) = n
  BY <1>1, <1>3, <1>6, LenProperties
<1>8. QED
  BY <1>5, <1>6, <1>7 DEF Surjection, In, f

\* The list of an SNI scan has the entry of every probe that has ended.
LEMMA ResultsKeep ==
  /\ Results \in Seq(Entries)
  /\ \A t \in Pairs : task[t] = "done" => Found(t, Results)
<1> DEFINE f == SetToSeq(Pairs)
           I == {i \in DOMAIN f : Probed(f[i])}
           q == Picked(f, I)
<1>1. f \in Seq(Pairs) /\ DOMAIN f = 1..Len(f) /\ \A t \in Pairs : In(f, t)
  BY PairsListed, LenProperties
<1> HIDE DEF f
<1>2. /\ q \in Seq(Pairs)
      /\ \A i \in I : \E k \in DOMAIN q : q[k] = f[i]
  <2>1. I \in SUBSET DOMAIN f
    OBVIOUS
  <2>2. QED
    BY <1>1, <2>1, PickedProperties
<1>3. Results = [i \in DOMAIN q |-> Entry(q[i])]
  BY DEF Results, Those, f
<1> HIDE DEF q
<1>4. Len(q) \in Nat /\ DOMAIN q = 1..Len(q) /\ \A i \in 1..Len(q) : q[i] \in Pairs
  BY <1>2, LenProperties, ElementOfSeq
<1>5. Results \in [1..Len(q) -> Entries]
  BY <1>3, <1>4, EntryIsTyped DEF Tasks
<1>6. Results \in Seq(Entries)
  BY <1>4, <1>5, SeqDef
<1>7. Len(Results) = Len(q)
  BY <1>4, <1>5, <1>6, LenProperties
<1>8. ASSUME NEW t \in Pairs, task[t] = "done" PROVE Found(t, Results)
  <2>1. PICK i \in I : f[i] = t
    BY <1>1, <1>8 DEF In, Probed
  <2>2. PICK k \in 1..Len(q) : q[k] = t
    BY <1>2, <1>4, <2>1
  <2>3. QED
    BY <1>3, <1>4, <1>7, <2>2 DEF Found, Entry
<1>9. QED
  BY <1>6, <1>8

\* No more probes have reported than positions were received.
LEMMA ReportedBound ==
  ASSUME ScanTypeOK, SpawnInv, kind = "ip"
  PROVE  /\ IsFiniteSet(Reported) /\ Cardinality(Reported) \in Nat
         /\ Cardinality(Reported) <= Len(tcpResults) /\ Len(tcpResults) \in Nat
<1> DEFINE n == Len(tcpResults)
           R == {tcpResults[i] : i \in 1..n}
<1>1. n \in Nat /\ tcpResults \in [1..n -> Slots]
  BY LenProperties DEF ScanTypeOK
<1>2. tcpResults \in Surjection(1..n, R)
  BY <1>1 DEF Surjection
<1>3. IsFiniteSet(1..n) /\ Cardinality(1..n) = n
  BY <1>1, FS_Interval
<1>4. IsFiniteSet(R) /\ Cardinality(R) <= n
  BY <1>2, <1>3, FS_Surjection
<1>5. Reported \in SUBSET R
  BY DEF Reported, SpawnInv, In
<1>6. IsFiniteSet(Reported) /\ Cardinality(Reported) <= Cardinality(R)
  BY <1>4, <1>5, FS_Subset
<1>7. Cardinality(R) \in Nat /\ Cardinality(Reported) \in Nat
  BY <1>4, <1>6, FS_CardinalityType
<1>8. QED
  BY <1>1, <1>4, <1>6, <1>7

\* A step of the scan's task before it returns decides nothing.
LEMMA RunningFinal ==
  ASSUME FinalInv, scan \in Running, scan' \in Running,
         UNCHANGED <<attended, screen, stop, handed>>
  PROVE  FinalInv'
  BY DEF FinalInv, Running, Over

\* A step of another task keeps what was decided.
LEMMA KeptFinal ==
  ASSUME FinalInv, Concluded => Concluded' /\ Wanted' = Wanted,
         UNCHANGED <<scan, attended, screen, stop, handed, returned, arrived, offered>>
  PROVE  FinalInv'
  BY DEF FinalInv, Found

\* The channel with one more message, if there is a screen to read it.
LEMMA SendProperties ==
  ASSUME ScanTypeOK, NEW m \in Messages, Send(m)
  PROVE  /\ chan' \in Seq(Messages)
         /\ ~Open => chan' = chan
         /\ Open => /\ Len(chan') = Len(chan) + 1 /\ Len(chan) \in Nat
                    /\ \A i \in 1..Len(chan) : chan'[i] = chan[i]
                    /\ chan'[Len(chan) + 1] = m
                    /\ \A x : In(chan', x) <=> In(chan, x) \/ x = m
<1>1. CASE Open
  <2>1. chan' = Append(chan, m)
    BY <1>1 DEF Open, Send
  <2>2. QED
    BY <1>1, <2>1, AppendProperties, LenProperties, InAppended DEF ScanTypeOK
<1>2. CASE ~Open
  BY <1>2 DEF Open, Send, ScanTypeOK
<1>3. QED
  BY <1>1, <1>2

LEMMA StartConnectStep ==
  ASSUME ScanInv, kind = "ip", NEW s \in Slots, StartConnect(s),
         UNCHANGED <<kind, host>>, UNCHANGED callerVars, UNCHANGED screenVars, UNCHANGED handVars
  PROVE  ScanInv'
<1> USE DEF ScanInv, StartConnect, callerVars, screenVars, handVars
<1>1. ScanTypeOK'
  BY DEF ScanTypeOK
<1>2. ConnectInv'
  BY DEF ConnectInv, ScanTypeOK, In, NoRepeat
<1>3. SpawnInv' /\ EntryInv' /\ HostInv' /\ SenderInv' /\ ShownInv' /\ IdleInv' /\ CountCoversArrived'
  BY DEF SpawnInv, Due, EntryInv, HostInv, SenderInv, ShownInv, Open, Found, IdleInv, In,
     CountCoversArrived
<1>4. CountInv'
  BY DEF CountInv, Open, Counts, Sent, Reported
<1>5. ~Concluded
  BY DEF Concluded, AllTried
<1>6. FinalInv'
  BY <1>5, KeptFinal
<1>7. QED
  BY <1>1, <1>2, <1>3, <1>4, <1>6

LEMMA EndConnectStep ==
  ASSUME ScanInv, kind = "ip", NEW s \in Slots, NEW ok \in BOOLEAN, EndConnect(s, ok),
         UNCHANGED <<kind, host>>, UNCHANGED callerVars, UNCHANGED screenVars, UNCHANGED handVars
  PROVE  ScanInv'
<1> USE DEF ScanInv, EndConnect, callerVars, screenVars, handVars
<1>1. /\ p1' \in Seq(Slots)
      /\ \A x : In(p1', x) <=> In(p1, x) \/ x = s
  BY InAppended DEF ScanTypeOK
<1>2. ScanTypeOK'
  BY <1>1 DEF ScanTypeOK
<1>3. ~In(p1, s) /\ ~In(tcpResults, s) /\ connect[s] # "done"
  BY DEF ConnectInv
<1>4. NoRepeat(p1')
  BY <1>3, NoRepeatAppended DEF ConnectInv, ScanTypeOK
<1>5. ConnectInv'
  <2>1. \A r : In(tcpResults', r) <=> In(tcpResults, r)
    BY DEF In
  <2>2. \A r \in Slots : r # s => connect'[r] = connect[r]
    BY DEF ScanTypeOK
  <2>3. connect'[s] = "done" /\ answered' \in SUBSET (answered \union {s})
    BY DEF ScanTypeOK
  <2>4. scan \notin {"collecting"} \union Over
    BY <1>3 DEF ConnectInv
  <2>5. QED
    BY <1>1, <1>3, <1>4, <2>1, <2>2, <2>3, <2>4 DEF ConnectInv
<1>6. SpawnInv'
  BY <1>3 DEF SpawnInv, Due, In
<1>7. EntryInv' /\ HostInv' /\ SenderInv' /\ ShownInv' /\ IdleInv' /\ CountCoversArrived'
  BY DEF EntryInv, HostInv, SenderInv, ShownInv, Open, Found, IdleInv, In, CountCoversArrived
<1>8. CountInv'
  BY DEF CountInv, Open, Counts, Sent, Reported
<1>9. ~Concluded
  BY DEF Concluded, AllTried
<1>10. FinalInv'
  BY <1>9, KeptFinal
<1>11. QED
  BY <1>2, <1>5, <1>6, <1>7, <1>8, <1>10

LEMMA ReceiveConnectStep ==
  ASSUME ScanInv, kind = "ip", ReceiveConnect,
         UNCHANGED <<kind, host>>, UNCHANGED callerVars, UNCHANGED screenVars, UNCHANGED handVars
  PROVE  ScanInv'
<1> USE DEF ScanInv, ReceiveConnect, callerVars, screenVars, handVars
<1>1. PICK s \in Slots : s = Head(p1)
  BY InTaken DEF ScanTypeOK
<1>2. /\ p1' \in Seq(Slots) /\ In(p1, s)
      /\ \A x : In(p1, x) <=> In(p1', x) \/ x = s
  BY <1>1, InTaken DEF ScanTypeOK
<1>3. /\ tcpResults' \in Seq(Slots)
      /\ \A x : In(tcpResults', x) <=> In(tcpResults, x) \/ x = s
      /\ Len(tcpResults') = Len(tcpResults) + 1 /\ Len(tcpResults) \in Nat
      /\ Last(tcpResults') = s
  BY <1>1, InAppended, AppendProperties, LenProperties DEF ScanTypeOK, Last
<1>4. NoRepeat(p1') /\ ~In(p1', s) /\ ~In(tcpResults, s)
  BY <1>1, <1>2, NoRepeatTaken DEF ConnectInv, ScanTypeOK
<1> DEFINE m == [kind |-> "tcp", tested |-> Len(tcpResults')]
<1>5. m \in Messages
  BY <1>3 DEF Messages
<1>6. /\ chan' \in Seq(Messages)
      /\ ~Open => chan' = chan
      /\ Open => /\ Len(chan') = Len(chan) + 1 /\ Len(chan) \in Nat
                 /\ \A i \in 1..Len(chan) : chan'[i] = chan[i]
                 /\ chan'[Len(chan) + 1] = m
                 /\ \A x : In(chan', x) <=> In(chan, x) \/ x = m
  BY <1>5, SendProperties
<1> HIDE DEF m
<1>7. ScanTypeOK'
  BY <1>2, <1>3, <1>6 DEF ScanTypeOK, Running
<1>8. ConnectInv'
  BY <1>2, <1>3, <1>4 DEF ConnectInv, Over
<1>9. SpawnInv'
  BY <1>1, <1>3, <1>4 DEF SpawnInv, Due
<1>10. EntryInv' /\ HostInv' /\ SenderInv' /\ IdleInv' /\ CountCoversArrived'
  BY DEF EntryInv, HostInv, SenderInv, Running, Over, IdleInv, In, CountCoversArrived
<1>11. ShownInv'
  BY <1>6 DEF ShownInv, Open, Found
<1>12. CountInv'
  <2>1. CASE Open
    <3>1. \A i \in 1..Len(chan') : i \in 1..Len(chan) \/ i = Len(chan) + 1
      BY <2>1, <1>6
    <3>2. m.kind = "tcp" /\ m.tested = Len(tcpResults')
      BY DEF m
    <3>3. Len(chan) + 1 \in Counts' /\ \A i \in 1..Len(chan) : i < Len(chan) + 1
      BY <1>6, <2>1, <3>2 DEF Counts
    <3>4. Sent' = Sent
      BY <1>6, <2>1, <3>1, <3>2 DEF Sent
    <3>5. Reported' = Reported /\ arrived' = arrived
      BY DEF Reported
    <3>6. \A i \in Counts' : (\A j \in Counts' : j <= i) => i = Len(chan) + 1
      BY <3>1, <3>3, <1>6, <2>1 DEF Counts
    <3>7. QED
      BY <1>6, <2>1, <3>2, <3>3, <3>4, <3>5, <3>6 DEF CountInv
  <2>2. CASE ~Open
    BY <2>2 DEF CountInv, Open
  <2>3. QED
    BY <2>1, <2>2
<1>13. FinalInv'
  BY RunningFinal DEF Running
<1>14. QED
  BY <1>7, <1>8, <1>9, <1>10, <1>11, <1>12, <1>13

LEMMA SpawnProbeStep ==
  ASSUME ScanInv, kind = "ip", SpawnProbe,
         UNCHANGED <<kind, host>>, UNCHANGED callerVars, UNCHANGED screenVars, UNCHANGED handVars
  PROVE  ScanInv'
<1> USE DEF ScanInv, SpawnProbe, ipVars, callerVars, screenVars, handVars
<1>1. PICK s \in Slots : s = Last(tcpResults)
  BY DEF SpawnInv, ScanTypeOK
<1>2. /\ s \in answered /\ In(tcpResults, s) /\ task[s] = "none" /\ s \in Tasks
      /\ task' = [t \in Tasks |-> IF t = s THEN "queued" ELSE task[t]]
      /\ senders' = senders \union {s}
  BY <1>1 DEF SpawnInv, Spawn, Tasks
<1>3. ScanTypeOK'
  BY <1>2 DEF ScanTypeOK, TaskStates, Running
<1>4. ConnectInv'
  BY DEF ConnectInv, Over, In, NoRepeat
<1>5. SpawnInv'
  <2>1. tcpResults' = tcpResults /\ answered' = answered /\ scan' = "receiving" /\ kind' = kind
    OBVIOUS
  <2>2. \A r \in Slots : task'[r] = IF r = s THEN "queued" ELSE task[r]
    BY <1>2 DEF Tasks
  <2>3. \A r \in Slots : ~Due(r) \/ r = s
    BY <1>1 DEF Due
  <2>4. \A r \in Slots : task'[r] # "none" => In(tcpResults, r) /\ r \in answered
    BY <1>2, <2>2 DEF SpawnInv
  <2>5. \A r \in answered : In(tcpResults, r) => task'[r] # "none"
    <3> SUFFICES ASSUME NEW r \in answered, In(tcpResults, r) PROVE task'[r] # "none"
      OBVIOUS
    <3>1. r \in Slots
      BY DEF ScanTypeOK
    <3>2. r # s => task[r] # "none"
      BY <2>3, <3>1 DEF SpawnInv
    <3>3. QED
      BY <2>2, <3>1, <3>2
  <2>6. QED
    BY <2>1, <2>4, <2>5 DEF SpawnInv, In
<1>6. EntryInv' /\ ShownInv' /\ Reported' = Reported
  <2>1. \A t \in Tasks : task'[t] \in {"reported", "done"} =>
            task[t] \in {"reported", "done"} /\ task'[t] = task[t]
    BY <1>2
  <2>2. \A t \in Tasks : task[t] \in {"reported", "done"} => task'[t] = task[t]
    BY <1>2
  <2>3. QED
    BY <2>1, <2>2 DEF EntryInv, ShownInv, Open, Found, In, Reported, Tasks
<1>7. HostInv' /\ SenderInv' /\ IdleInv' /\ CountCoversArrived'
  BY <1>2 DEF HostInv, SenderInv, Running, IdleInv, CountCoversArrived
<1>8. CountInv'
  BY <1>6 DEF CountInv, Open, Counts, Sent
<1>9. FinalInv'
  BY RunningFinal DEF Running
<1>10. QED
  BY <1>3, <1>4, <1>5, <1>6, <1>7, <1>8, <1>9

LEMMA DropP2Step ==
  ASSUME ScanInv, kind = "ip", DropP2,
         UNCHANGED <<kind, host>>, UNCHANGED callerVars, UNCHANGED screenVars, UNCHANGED handVars
  PROVE  ScanInv'
<1> USE DEF ScanInv, DropP2, callerVars, screenVars, handVars
<1>1. ScanTypeOK' /\ ConnectInv' /\ SpawnInv' /\ EntryInv'
  BY DEF ScanTypeOK, Running, ConnectInv, SpawnInv, Due, EntryInv, In, NoRepeat
<1>2. HostInv' /\ SenderInv' /\ ShownInv' /\ IdleInv' /\ CountInv' /\ CountCoversArrived'
  BY DEF HostInv, SenderInv, Running, ShownInv, Open, Found, In, IdleInv, CountInv, Counts,
     Sent, Reported, CountCoversArrived
<1>3. FinalInv'
  BY RunningFinal DEF Running
<1>4. QED
  BY <1>1, <1>2, <1>3

LEMMA StoreEntryStep ==
  ASSUME ScanInv, kind = "ip", StoreEntry,
         UNCHANGED <<kind, host>>, UNCHANGED callerVars, UNCHANGED screenVars, UNCHANGED handVars
  PROVE  ScanInv'
<1> USE DEF ScanInv, StoreEntry, callerVars, screenVars, handVars
<1>1. PICK e \in Entries : e = Head(p2)
  BY InTaken DEF ScanTypeOK
<1>2. /\ p2' \in Seq(Entries)
      /\ \A x : In(p2, x) <=> In(p2', x) \/ x = e
      /\ In(p2, e)
  BY <1>1, InTaken DEF ScanTypeOK
<1>3. /\ DOMAIN tlsResults' = DOMAIN tlsResults \union {e.place}
      /\ tlsResults'[e.place] = e
      /\ \A a \in DOMAIN tlsResults : a # e.place => tlsResults'[a] = tlsResults[a]
  BY <1>1
<1>4. EntryInv'
  <2>1. \A i \in 1..Len(p2') : In(p2, p2'[i])
    BY <1>2 DEF In
  <2>2. \A i \in 1..Len(p2') : p2'[i].probed
    BY <2>1 DEF EntryInv, In
  <2>3. e.probed
    BY <1>2 DEF EntryInv, In
  <2>4. \A s \in Slots : Entry(s).place = Place[s]
    BY DEF Entry
  <2>5. QED
    BY <1>2, <1>3, <2>2, <2>3, <2>4 DEF EntryInv
<1>5. ScanTypeOK'
  BY <1>2 DEF ScanTypeOK
<1>6. ConnectInv' /\ SpawnInv' /\ HostInv' /\ SenderInv' /\ ShownInv' /\ IdleInv' /\ CountCoversArrived'
  BY DEF ConnectInv, SpawnInv, Due, In, NoRepeat, HostInv, SenderInv, ShownInv, Open, Found,
     IdleInv, CountCoversArrived
<1>7. CountInv'
  BY DEF CountInv, Open, Counts, Sent, Reported
<1>8. FinalInv'
  BY RunningFinal DEF Running
<1>9. QED
  BY <1>4, <1>5, <1>6, <1>7, <1>8

\* What is wanted and whether it is all there: nothing a return changes.
LEMMA SameConcluded ==
  ASSUME UNCHANGED <<kind, connect, answered, host, task>>
  PROVE  Wanted' = Wanted /\ Concluded' = Concluded
  BY DEF Wanted, Concluded, AllTried

\* A scan returns when its list has everything that is wanted.
LEMMA ReturnStep ==
  ASSUME ScanInv, NEW list \in Seq(Entries), Return(list),
         scan \in Running, Concluded, \A t \in Wanted : Found(t, list),
         kind = "ip" => scan = "collecting",
         kind = "sni" => \A h \in Hosts : host[h] = "done",
         UNCHANGED <<kind, task, chan, connect, answered, p1, p2, tcpResults, tlsResults, host>>,
         UNCHANGED callerVars, UNCHANGED screenVars, UNCHANGED handVars
  PROVE  ScanInv'
<1> USE DEF ScanInv, Return, callerVars, screenVars, handVars
<1>1. ScanTypeOK' /\ ConnectInv' /\ EntryInv'
  BY DEF ScanTypeOK, Over, ConnectInv, EntryInv, In, NoRepeat
<1>2. SpawnInv' /\ HostInv' /\ SenderInv' /\ ShownInv' /\ IdleInv' /\ CountInv' /\ CountCoversArrived'
  BY DEF SpawnInv, Due, HostInv, SenderInv, Running, ShownInv, Open, Found, In, IdleInv, CountInv,
     Counts, Sent, Reported, CountCoversArrived
<1>3. FinalInv'
  BY SameConcluded DEF FinalInv, Running, Over
<1>4. QED
  BY <1>1, <1>2, <1>3

LEMMA ReturnIpsStep ==
  ASSUME ScanInv, kind = "ip", ReturnIps,
         UNCHANGED <<kind, host>>, UNCHANGED callerVars, UNCHANGED screenVars, UNCHANGED handVars
  PROVE  ScanInv'
<1> USE DEF ScanInv, ReturnIps
<1>1. /\ p1 = <<>> /\ \A s \in Slots : connect[s] = "done"
      /\ \A s \in Slots : In(tcpResults, s)
  BY EmptySeq DEF ConnectInv, In
<1>2. \A s \in answered : task[s] = "done"
  BY <1>1 DEF SpawnInv, Due, Live, ScanTypeOK, TaskStates, Tasks
<1>3. Concluded /\ Wanted = answered
  BY <1>1, <1>2 DEF Concluded, AllTried, Wanted
<1>4. \A s \in answered : Place[s] \in DOMAIN tlsResults
  BY <1>2, EmptySeq DEF EntryInv, In, ScanTypeOK
<1>5. /\ Ranked(Merged) \in Seq(Entries)
      /\ \A s \in answered : Found(s, Ranked(Merged))
  BY <1>1, <1>4, MergedKeeps, RankedKeeps DEF ScanTypeOK
<1>6. QED
  BY <1>3, <1>5, ReturnStep DEF ipVars, Running

\* A task of the scan that runs.
Probe(t) == t \in IF kind = "ip" THEN Slots ELSE Pairs

\* While a probe is under way its entry is still wanted.
LEMMA LiveIsWanted ==
  ASSUME ScanInv, NEW t, Probe(t), Live(t)
  PROVE  t \in Tasks /\ ~Concluded
  BY DEF ScanInv, SpawnInv, Probe, Live, Concluded, Wanted, Tasks

LEMMA StartProbeStep ==
  ASSUME ScanInv, NEW t, Probe(t), StartProbe(t),
         UNCHANGED <<kind, scan, returned, host>>, UNCHANGED ipVars,
         UNCHANGED callerVars, UNCHANGED screenVars, UNCHANGED handVars
  PROVE  ScanInv'
<1> USE DEF ScanInv, StartProbe, ipVars, callerVars, screenVars, handVars
<1>1. t \in Tasks /\ ~Concluded
  BY LiveIsWanted DEF Live
<1>2. /\ task'[t] = "probing" /\ task[t] = "queued"
      /\ \A r \in Tasks : r # t => task'[r] = task[r]
  BY <1>1 DEF ScanTypeOK
<1>3. ScanTypeOK' /\ ConnectInv'
  BY <1>1 DEF ScanTypeOK, TaskStates, ConnectInv, In, NoRepeat
<1>4. SpawnInv'
  BY <1>2 DEF SpawnInv, Due, In, Tasks
<1>5. HostInv'
  BY <1>2 DEF HostInv, Tasks
<1>6. EntryInv' /\ ShownInv' /\ Reported' = Reported
  <2>1. \A r \in Tasks : /\ task'[r] = "done" <=> task[r] = "done"
                         /\ task'[r] = "reported" <=> task[r] = "reported"
    BY <1>2
  <2>2. QED
    BY <2>1 DEF EntryInv, ShownInv, Open, Found, In, Reported, Tasks
<1>7. SenderInv' /\ IdleInv' /\ CountCoversArrived'
  BY DEF SenderInv, IdleInv, CountCoversArrived
<1>8. CountInv'
  BY <1>6 DEF CountInv, Open, Counts, Sent
<1>9. FinalInv'
  BY <1>1, KeptFinal
<1>10. QED
  BY <1>3, <1>4, <1>5, <1>6, <1>7, <1>8, <1>9

LEMMA ReportStep ==
  ASSUME ScanInv, NEW t, Probe(t), Report(t),
         UNCHANGED <<kind, scan, returned, host>>, UNCHANGED ipVars,
         UNCHANGED callerVars, UNCHANGED screenVars, UNCHANGED handVars
  PROVE  ScanInv'
<1> USE DEF ScanInv, Report, ipVars, callerVars, screenVars, handVars
<1>1. t \in Tasks /\ ~Concluded
  BY LiveIsWanted DEF Live
<1>2. /\ task'[t] = "reported" /\ task[t] = "probing"
      /\ \A r \in Tasks : r # t => task'[r] = task[r]
  BY <1>1 DEF ScanTypeOK
<1> DEFINE m == [kind |-> "probe", entry |-> Entry(t)]
<1>3. m \in Messages /\ m.kind = "probe" /\ m.kind # "tcp"
  BY <1>1, EntryIsTyped DEF Messages
<1>4. /\ chan' \in Seq(Messages)
      /\ ~Open => chan' = chan
      /\ Open => /\ Len(chan') = Len(chan) + 1 /\ Len(chan) \in Nat
                 /\ \A i \in 1..Len(chan) : chan'[i] = chan[i]
                 /\ chan'[Len(chan) + 1] = m
                 /\ \A x : In(chan', x) <=> In(chan, x) \/ x = m
  BY <1>3, SendProperties
<1>5. m = [kind |-> "probe", entry |-> Entry(t)]
  OBVIOUS
<1> HIDE DEF m
<1>6. ScanTypeOK' /\ ConnectInv'
  BY <1>1, <1>4 DEF ScanTypeOK, TaskStates, ConnectInv, In, NoRepeat
<1>7. SpawnInv'
  BY <1>2 DEF SpawnInv, Due, In, Tasks
<1>8. HostInv' /\ EntryInv'
  <2>1. \A r \in Tasks : task'[r] = "done" => task[r] = "done"
    BY <1>2
  <2>2. QED
    BY <1>2, <2>1 DEF HostInv, EntryInv, In, Tasks
<1>9. SenderInv' /\ IdleInv' /\ CountCoversArrived'
  BY DEF SenderInv, IdleInv, CountCoversArrived
<1>10. ShownInv'
  <2>1. SUFFICES ASSUME Open, NEW r \in Tasks, task'[r] \in {"reported", "done"}
                 PROVE  \/ Found(r, arrived)
                        \/ In(chan', [kind |-> "probe", entry |-> Entry(r)])
    BY DEF ShownInv, Open, Found
  <2>2. CASE r = t
    BY <1>4, <1>5, <2>1, <2>2
  <2>3. CASE r # t
    BY <1>2, <1>4, <2>1, <2>3 DEF ShownInv
  <2>4. QED
    BY <2>2, <2>3
<1>11. CountInv'
  <2>1. SUFFICES ASSUME kind = "ip", Open PROVE CountInv'
    BY DEF CountInv, Open
  <2>2. \A i \in 1..Len(chan') : i \in 1..Len(chan) \/ i = Len(chan) + 1
    BY <2>1, <1>4
  <2>3. Len(chan) + 1 \in 1..Len(chan') /\ Len(chan) + 1 \notin 1..Len(chan)
        /\ 1..Len(chan) \in SUBSET (1..Len(chan'))
    BY <2>1, <1>4
  <2>4. Counts' = Counts /\ \A i \in Counts : chan'[i] = chan[i]
    BY <1>3, <1>4, <2>1, <2>2, <2>3 DEF Counts
  <2>5. Sent' = Sent \union {Len(chan) + 1} /\ Len(chan) + 1 \notin Sent
    BY <1>3, <1>4, <2>1, <2>2, <2>3 DEF Sent
  <2>6. Reported' = Reported \union {t} /\ t \notin Reported
    BY <1>2, <2>1 DEF Reported, Probe, Tasks
  <2>7. IsFiniteSet(Sent) /\ Cardinality(Sent) \in Nat
    <3>1. IsFiniteSet(1..Len(chan)) /\ Sent \in SUBSET (1..Len(chan))
      BY <1>4, <2>1, FS_Interval DEF Sent
    <3>2. QED
      BY <3>1, FS_Subset, FS_CardinalityType
  <2>8. IsFiniteSet(Reported) /\ Cardinality(Reported) \in Nat
    BY <2>1, ReportedBound
  <2>9. Cardinality(Sent') = Cardinality(Sent) + 1
    BY <2>5, <2>7, FS_AddElement
  <2>10. Cardinality(Reported') = Cardinality(Reported) + 1
    BY <2>6, <2>8, FS_AddElement
  <2>11. Len(arrived) \in Nat
    BY LenProperties DEF ScanTypeOK
  <2>12. Len(arrived) + Cardinality(Sent') <= Cardinality(Reported')
    BY <2>1, <2>7, <2>8, <2>9, <2>10, <2>11 DEF CountInv
  <2>13. QED
    BY <2>1, <2>4, <2>12 DEF CountInv
<1>12. FinalInv'
  BY <1>1, KeptFinal
<1>13. QED
  BY <1>6, <1>7, <1>8, <1>9, <1>10, <1>11, <1>12

LEMMA ExitStep ==
  ASSUME ScanInv, NEW t, Probe(t), Exit(t),
         p2' = IF kind = "ip" THEN Append(p2, Entry(t)) ELSE p2,
         UNCHANGED <<connect, answered, p1, p2Held, tcpResults, tlsResults>>,
         UNCHANGED <<kind, scan, returned, host>>,
         UNCHANGED callerVars, UNCHANGED screenVars, UNCHANGED handVars
  PROVE  ScanInv'
<1> USE DEF ScanInv, Exit, callerVars, screenVars, handVars
<1>1. t \in Tasks /\ ~Concluded
  BY LiveIsWanted DEF Live
<1>2. /\ task'[t] = "done" /\ task[t] = "reported"
      /\ \A r \in Tasks : r # t => task'[r] = task[r]
  BY <1>1 DEF ScanTypeOK
<1>3. Entry(t) \in Entries /\ Entry(t).probed
  BY <1>1, EntryIsTyped DEF Entry
<1>4. /\ p2' \in Seq(Entries)
      /\ kind = "ip" => \A x : In(p2', x) <=> In(p2, x) \/ x = Entry(t)
  BY <1>3, InAppended DEF ScanTypeOK
<1>5. ScanTypeOK' /\ ConnectInv'
  BY <1>1, <1>4 DEF ScanTypeOK, TaskStates, ConnectInv, In, NoRepeat
<1>6. SpawnInv'
  BY <1>2 DEF SpawnInv, Due, In, Tasks
<1>7. HostInv'
  BY <1>2 DEF HostInv, Tasks
<1>8. EntryInv'
  <2>1. SUFFICES ASSUME kind = "ip" PROVE EntryInv'
    BY DEF EntryInv
  <2>2. \A s \in Slots : s \in Tasks
    BY DEF Tasks
  <2>3. \A s \in Slots : task'[s] = "done" => Place[s] \in DOMAIN tlsResults \/ In(p2', Entry(s))
    <3> SUFFICES ASSUME NEW s \in Slots, task'[s] = "done"
                 PROVE  Place[s] \in DOMAIN tlsResults \/ In(p2', Entry(s))
      OBVIOUS
    <3>1. CASE s = t
      BY <1>4, <2>1, <3>1
    <3>2. CASE s # t
      BY <1>2, <1>4, <2>1, <2>2, <3>2 DEF EntryInv
    <3>3. QED
      BY <3>1, <3>2
  <2>4. \A i \in 1..Len(p2') : In(p2, p2'[i]) \/ p2'[i] = Entry(t)
    BY <1>4, <2>1 DEF In
  <2>5. \A i \in 1..Len(p2') : p2'[i].probed
    BY <1>3, <2>1, <2>4 DEF EntryInv, In
  <2>6. QED
    BY <2>1, <2>3, <2>5 DEF EntryInv
<1>9. SenderInv'
  BY <1>1, TasksAssumption DEF SenderInv
<1>10. ShownInv' /\ Reported' = Reported
  <2>1. \A r \in Tasks : task'[r] \in {"reported", "done"} <=> task[r] \in {"reported", "done"}
    BY <1>2
  <2>2. QED
    BY <2>1 DEF ShownInv, Open, Found, In, Reported, Tasks
<1>11. IdleInv' /\ CountCoversArrived'
  BY DEF IdleInv, CountCoversArrived
<1>12. CountInv'
  BY <1>10 DEF CountInv, Open, Counts, Sent
<1>13. FinalInv'
  BY <1>1, KeptFinal
<1>14. QED
  BY <1>5, <1>6, <1>7, <1>8, <1>9, <1>10, <1>11, <1>12, <1>13

LEMMA ResolveStep ==
  ASSUME ScanInv, kind = "sni", NEW h \in Hosts, NEW found \in SUBSET PairsOf(h), Resolve(h, found),
         UNCHANGED kind, UNCHANGED ipVars,
         UNCHANGED callerVars, UNCHANGED screenVars, UNCHANGED handVars
  PROVE  ScanInv'
<1> USE DEF ScanInv, Resolve, ipVars, callerVars, screenVars, handVars
<1>1. /\ found \in SUBSET Pairs /\ \A t \in found : HostOf[t] = h
      /\ \A t \in Pairs : t \in Tasks
  BY DEF PairsOf, Tasks
<1>2. /\ task' \in [Tasks -> TaskStates]
      /\ \A t \in Tasks : task'[t] = IF t \in found THEN "queued" ELSE task[t]
  BY DEF ScanTypeOK, Spawn, TaskStates
<1>3. /\ host[h] = "resolving"
      /\ host'[h] = IF found = {} THEN "done" ELSE "awaiting"
      /\ \A r \in Hosts : r # h => host'[r] = host[r]
  BY DEF ScanTypeOK
<1>4. ScanTypeOK'
  BY <1>2 DEF ScanTypeOK
<1>5. ConnectInv' /\ SpawnInv' /\ EntryInv' /\ CountInv' /\ CountCoversArrived'
  BY DEF ConnectInv, SpawnInv, EntryInv, CountInv, CountCoversArrived
<1>6. HostInv'
  <2>1. scan' \notin Over
    BY <1>3 DEF HostInv
  <2>2. ASSUME NEW t \in Pairs
        PROVE  /\ host'[HostOf[t]] = "resolving" => task'[t] = "none"
               /\ host'[HostOf[t]] = "done" => task'[t] \in {"none", "done"}
    <3>1. HostOf[t] \in Hosts
      BY HostOfAssumption
    <3>2. CASE HostOf[t] = h
      BY <1>1, <1>2, <1>3, <3>2 DEF HostInv
    <3>3. CASE HostOf[t] # h
      BY <1>1, <1>2, <1>3, <3>1, <3>3 DEF HostInv
    <3>4. QED
      BY <3>2, <3>3
  <2>3. QED
    BY <2>1, <2>2 DEF HostInv
<1>7. SenderInv'
  BY <1>1, HostsAssumption, TasksAssumption DEF SenderInv, Spawn
<1>8. ShownInv'
  <2>1. \A t \in Tasks : task'[t] \in {"reported", "done"} => task[t] \in {"reported", "done"}
    BY <1>2
  <2>2. QED
    BY <2>1 DEF ShownInv, Open, Found, In
<1>9. IdleInv'
  BY DEF IdleInv
<1>10. ~Concluded
  BY <1>3 DEF Concluded, AllTried
<1>11. FinalInv'
  BY <1>10, KeptFinal
<1>12. QED
  BY <1>4, <1>5, <1>6, <1>7, <1>8, <1>9, <1>11

LEMMA JoinProbesStep ==
  ASSUME ScanInv, kind = "sni", NEW h \in Hosts, JoinProbes(h),
         UNCHANGED kind, UNCHANGED ipVars,
         UNCHANGED callerVars, UNCHANGED screenVars, UNCHANGED handVars
  PROVE  ScanInv'
<1> USE DEF ScanInv, JoinProbes, ipVars, callerVars, screenVars, handVars
<1>1. /\ host[h] = "awaiting" /\ host'[h] = "done"
      /\ \A r \in Hosts : r # h => host'[r] = host[r]
  BY DEF ScanTypeOK
<1>2. ScanTypeOK'
  BY DEF ScanTypeOK
<1>3. ConnectInv' /\ SpawnInv' /\ EntryInv' /\ CountInv' /\ CountCoversArrived'
  BY DEF ConnectInv, SpawnInv, EntryInv, CountInv, CountCoversArrived
<1>4. HostInv'
  <2>1. \A t \in PairsOf(h) : task[t] \in {"none", "done"}
    BY DEF Live, ScanTypeOK, TaskStates, PairsOf, Tasks
  <2>2. \A t \in Pairs : HostOf[t] \in Hosts /\ (HostOf[t] = h => t \in PairsOf(h))
    BY HostOfAssumption DEF PairsOf
  <2>3. scan \notin Over
    BY <1>1 DEF HostInv
  <2>4. QED
    BY <1>1, <2>1, <2>2, <2>3 DEF HostInv
<1>5. SenderInv' /\ IdleInv'
  BY HostsAssumption DEF SenderInv, IdleInv
<1>6. ShownInv'
  BY DEF ShownInv, Open, Found, In
<1>7. Concluded => Concluded' /\ Wanted' = Wanted
  BY <1>1 DEF Concluded, AllTried, Wanted
<1>8. FinalInv'
  BY <1>7, KeptFinal
<1>9. QED
  BY <1>2, <1>3, <1>4, <1>5, <1>6, <1>8

LEMMA ReturnPairsStep ==
  ASSUME ScanInv, kind = "sni", ReturnPairs,
         UNCHANGED kind, UNCHANGED ipVars,
         UNCHANGED callerVars, UNCHANGED screenVars, UNCHANGED handVars
  PROVE  ScanInv'
<1> USE DEF ScanInv, ReturnPairs
<1>1. \A t \in Pairs : task[t] \in {"none", "done"}
  BY HostOfAssumption DEF HostInv
<1>2. Concluded /\ \A t \in Wanted : t \in Pairs /\ task[t] = "done"
  BY <1>1 DEF Concluded, AllTried, Wanted
<1>3. /\ SniRanked(Results) \in Seq(Entries)
      /\ \A t \in Wanted : Found(t, SniRanked(Results))
  BY <1>2, ResultsKeep, SniRankedKeeps
<1>4. QED
  BY <1>2, <1>3, ReturnStep DEF ipVars, Running

\* The count a round of the screen shows is the last one in the channel.
LEMMA DrainedCount ==
  ASSUME ScanTypeOK, Drain
  PROVE  /\ tcpDone' \in Nat
         /\ kind = "ip" /\ CountInv => tcpDone' = Len(tcpResults)
<1> DEFINE I == {i \in DOMAIN chan : IsTcp(chan[i])}
           n == Cardinality(I)
<1>1. /\ DOMAIN chan = 1..Len(chan) /\ Len(chan) \in Nat /\ chan \in Seq(Messages)
      /\ \A i \in 1..Len(chan) : chan[i] \in Messages
  BY LenProperties, ElementOfSeq DEF ScanTypeOK
<1>2. I = Counts /\ I \in SUBSET DOMAIN chan
  BY <1>1 DEF Counts, IsTcp
<1>3. /\ Picked(chan, I) \in Seq(Messages) /\ Len(Picked(chan, I)) = n
      /\ \A k \in 1..n : Picked(chan, I)[k] = chan[Nth(I, k)]
  BY <1>1, <1>2, PickedProperties
<1>4. tcpDone' = IF Picked(chan, I) = <<>> THEN tcpDone ELSE Last(Picked(chan, I)).tested
  BY DEF Drain, Those
<1>5. CASE I = {}
  <2>1. n = 0
    BY <1>5, FS_EmptySet
  <2>2. Picked(chan, I) = <<>>
    BY <1>3, <2>1, EmptySeq
  <2>3. tcpDone' = tcpDone
    BY <1>4, <2>2
  <2>4. QED
    BY <1>2, <1>5, <2>3 DEF ScanTypeOK, CountInv, Drain, OnScreen, Open
<1>6. CASE I # {}
  <2> DEFINE last == Nth(I, n)
  <2>1. n \in Nat \ {0} /\ last \in I /\ \A i \in I : i <= last
    BY <1>1, <1>2, <1>6, NthEnds
  <2> HIDE DEF last
  <2>2. Picked(chan, I) # <<>>
    BY <1>3, <2>1, EmptySeq
  <2>3. Last(Picked(chan, I)) = chan[last]
    BY <1>3, <2>1 DEF Last, last
  <2>4. tcpDone' = chan[last].tested
    BY <1>4, <2>2, <2>3
  <2>5. chan[last].tested \in Nat
    BY <1>1, <1>2, <2>1 DEF Messages, Counts
  <2>6. kind = "ip" /\ CountInv => chan[last].tested = Len(tcpResults)
    BY <1>2, <2>1 DEF CountInv, Drain, OnScreen, Open
  <2>7. QED
    BY <2>4, <2>5, <2>6
<1>7. QED
  BY <1>5, <1>6

LEMMA DrainStep ==
  ASSUME ScanInv, Drain,
         UNCHANGED callerVars, UNCHANGED <<kind, host>>, UNCHANGED ipVars
  PROVE  ScanInv'
<1> USE DEF ScanInv, callerVars, ipVars, handVars
<1>1. /\ attended /\ screen = "open" /\ chan' = <<>>
      /\ arrived' = arrived \o EntriesIn(chan)
      /\ UNCHANGED <<task, senders, scan, returned, handed, offered>>
      /\ \/ senders = {} /\ screen' = "left" /\ stop' = stop
         \/ screen' = "left" /\ stop' = "enough"
         \/ screen' = "open" /\ stop' = stop
  BY DEF Drain, OnScreen
<1>2. /\ EntriesIn(chan) \in Seq(Entries)
      /\ Len(EntriesIn(chan)) = Cardinality({i \in DOMAIN chan : IsProbe(chan[i])})
      /\ \A e : In(chan, e) /\ IsProbe(e) => In(EntriesIn(chan), e.entry)
  BY EntriesInProperties DEF ScanTypeOK
<1>3. /\ arrived' \in Seq(Entries)
      /\ Len(arrived') = Len(arrived) + Len(EntriesIn(chan))
      /\ \A t : Found(t, arrived) \/ Found(t, EntriesIn(chan)) => Found(t, arrived')
  BY <1>1, <1>2, FoundConcat, ConcatProperties DEF ScanTypeOK
<1>4. tcpDone' \in Nat /\ (kind = "ip" => tcpDone' = Len(tcpResults))
  BY DrainedCount
<1>5. chan' \in Seq(Messages) /\ Len(chan') = 0
  BY <1>1, EmptySeq
<1>6. ScanTypeOK'
  BY <1>1, <1>3, <1>4, <1>5 DEF ScanTypeOK
<1>7. \A t \in Tasks : task[t] \in {"reported", "done"} => Found(t, arrived')
  <2> SUFFICES ASSUME NEW t \in Tasks, task[t] \in {"reported", "done"} PROVE Found(t, arrived')
    OBVIOUS
  <2> DEFINE e == [kind |-> "probe", entry |-> Entry(t)]
  <2>1. Found(t, arrived) \/ In(chan, e)
    BY <1>1 DEF ShownInv, Open
  <2>2. IsProbe(e) /\ e.entry = Entry(t) /\ Entry(t).place = Place[t] /\ Entry(t).probed
    BY DEF IsProbe, Entry
  <2> HIDE DEF e
  <2>3. In(chan, e) => Found(t, EntriesIn(chan))
    BY <1>2, <2>2 DEF In, Found
  <2>4. QED
    BY <1>3, <2>1, <2>3
<1>8. ConnectInv' /\ SpawnInv' /\ EntryInv' /\ HostInv' /\ SenderInv' /\ IdleInv'
  BY <1>1 DEF ConnectInv, SpawnInv, Due, In, NoRepeat, EntryInv, HostInv, SenderInv, IdleInv
<1>9. ShownInv'
  BY <1>1, <1>7 DEF ShownInv
<1>10. kind = "ip" => Len(arrived') <= Cardinality(Reported)
  <2>1. {i \in DOMAIN chan : IsProbe(chan[i])} = Sent
    BY LenProperties DEF Sent, IsProbe, ScanTypeOK
  <2>2. QED
    BY <1>1, <1>2, <1>3, <2>1 DEF CountInv, Open
<1>11. CountInv' /\ CountCoversArrived'
  <2>1. SUFFICES ASSUME kind = "ip" PROVE CountInv' /\ CountCoversArrived'
    BY DEF CountInv, CountCoversArrived
  <2>2. Counts' = {} /\ Sent' = {} /\ Reported' = Reported
    BY <1>1, <1>5 DEF Counts, Sent, Reported
  <2>3. Cardinality({}) = 0
    BY FS_EmptySet
  <2>4. Len(arrived') \in Nat
    BY <1>3, LenProperties
  <2>5. Len(arrived') <= Len(tcpResults)
    BY <1>10, <2>1, <2>4, ReportedBound
  <2>6. Len(arrived') + Cardinality(Sent') <= Cardinality(Reported')
    BY <1>10, <2>1, <2>2, <2>3, <2>4
  <2>7. QED
    BY <1>4, <2>1, <2>2, <2>5, <2>6 DEF CountInv, CountCoversArrived
<1>12. FinalInv'
  <2>1. ~handed /\ scan # "aborted"
    BY <1>1 DEF FinalInv
  <2>2. Wanted' = Wanted /\ Concluded' = Concluded
    BY <1>1, SameConcluded
  <2>3. ASSUME screen' = "left", stop' = "none"
        PROVE  scan \notin Running /\ Concluded /\ \A t \in Wanted : Found(t, arrived')
    <3>1. senders = {}
      BY <1>1, <2>3
    <3>2. scan \in Over
      BY <2>1, <3>1 DEF SenderInv, ScanTypeOK
    <3>3. Concluded
      BY <3>2 DEF FinalInv
    <3>4. \A t \in Wanted : t \in Tasks /\ task[t] = "done"
      BY <3>3 DEF Concluded, Wanted, Tasks, ScanTypeOK
    <3>5. QED
      BY <1>7, <3>1, <3>2, <3>3, <3>4 DEF SenderInv
  <2>4. QED
    BY <1>1, <2>1, <2>2, <2>3 DEF FinalInv, Found
<1>13. QED
  BY <1>6, <1>8, <1>9, <1>11, <1>12

LEMMA CollectStep ==
  ASSUME ScanInv, Collect,
         UNCHANGED callerVars, UNCHANGED <<kind, host>>, UNCHANGED ipVars
  PROVE  ScanInv'
<1> USE DEF ScanInv, callerVars, ipVars, screenVars
<1>1. /\ attended /\ screen = "left" /\ ~handed /\ handed' = TRUE
      /\ UNCHANGED <<task, chan, returned, screen, stop, arrived, tcpDone>>
      /\ \/ /\ scan = "finished" /\ offered' = returned
            /\ UNCHANGED <<scan, senders>>
         \/ /\ scan' = "aborted"
            /\ offered' = IF Rescans THEN <<>> ELSE Ranked(arrived)
  BY DEF Collect, Abort
<1>2. /\ Ranked(arrived) \in Seq(Entries)
      /\ \A t : Found(t, arrived) => Found(t, Ranked(arrived))
  BY RankedKeeps DEF ScanTypeOK
<1>3. offered' \in Seq(Entries)
  BY <1>1, <1>2, EmptySeq DEF ScanTypeOK
<1>4. ScanTypeOK'
  BY <1>1, <1>3 DEF ScanTypeOK
<1>5. ConnectInv' /\ SpawnInv' /\ EntryInv'
  BY <1>1 DEF ConnectInv, SpawnInv, Due, In, NoRepeat, EntryInv, Over
<1>6. HostInv' /\ SenderInv' /\ ShownInv' /\ IdleInv' /\ CountInv' /\ CountCoversArrived'
  BY <1>1 DEF HostInv, Over, SenderInv, Running, ShownInv, Open, IdleInv, CountInv, CountCoversArrived
<1>7. FinalInv'
  <2>1. Wanted' = Wanted /\ Concluded' = Concluded
    BY <1>1, SameConcluded
  <2>2. stop = "none" => ~Rescans
    BY DEF Rescans
  <2>3. stop = "none" => \A t \in Wanted : Found(t, offered')
    BY <1>1, <1>2, <2>2 DEF FinalInv, Over
  <2>4. QED
    BY <1>1, <2>1, <2>3 DEF FinalInv, Found, Running, Over
<1>8. QED
  BY <1>4, <1>5, <1>6, <1>7

LEMMA AwaitScanStep ==
  ASSUME ScanInv, AwaitScan,
         UNCHANGED callerVars, UNCHANGED <<kind, host>>, UNCHANGED ipVars
  PROVE  ScanInv'
<1> USE DEF ScanInv, AwaitScan, callerVars, ipVars, screenVars
<1>1. ScanTypeOK' /\ EntryInv' /\ HostInv' /\ SenderInv'
  BY DEF ScanTypeOK, In, EntryInv, HostInv, SenderInv
<1>2. ConnectInv'
  BY DEF ConnectInv, In, NoRepeat
<1>3. SpawnInv'
  BY DEF SpawnInv, Due, In
<1>4. ShownInv' /\ IdleInv' /\ CountInv' /\ CountCoversArrived'
  BY DEF ShownInv, Open, IdleInv, CountInv, CountCoversArrived
<1>5. Wanted' = Wanted /\ Concluded' = Concluded
  BY SameConcluded
<1>6. FinalInv'
  BY <1>5 DEF FinalInv, Found, Over, Running
<1>7. QED
  BY <1>1, <1>2, <1>3, <1>4, <1>6

LEMMA MarkFinishedStep ==
  ASSUME ScanInv, MarkFinished,
         UNCHANGED callerVars, UNCHANGED <<kind, host>>, UNCHANGED ipVars
  PROVE  ScanInv'
<1> USE DEF ScanInv, MarkFinished, callerVars, ipVars, screenVars, handVars
<1>1. ScanTypeOK' /\ ConnectInv' /\ EntryInv' /\ HostInv'
  BY DEF ScanTypeOK, ConnectInv, In, NoRepeat, EntryInv, HostInv, Over
<1>2. SpawnInv' /\ SenderInv' /\ ShownInv' /\ IdleInv' /\ CountInv' /\ CountCoversArrived'
  BY DEF SpawnInv, Due, SenderInv, Running, ShownInv, Open, Found, In, IdleInv, CountInv, Counts,
     Sent, Reported, CountCoversArrived
<1>3. Wanted' = Wanted /\ Concluded' = Concluded
  BY SameConcluded
<1>4. FinalInv'
  BY <1>3 DEF FinalInv, Found, Over, Running
<1>5. QED
  BY <1>1, <1>2, <1>4

LEMMA PressKeyStep ==
  ASSUME ScanInv, NEW key \in {"quit", "range"}, PressKey(key),
         UNCHANGED callerVars, UNCHANGED <<kind, host>>, UNCHANGED ipVars
  PROVE  ScanInv'
<1> USE DEF ScanInv, PressKey, OnScreen, callerVars, ipVars, handVars
<1>1. ScanTypeOK' /\ EntryInv' /\ HostInv' /\ SenderInv'
  BY DEF ScanTypeOK, In, EntryInv, HostInv, SenderInv
<1>2. ConnectInv'
  BY DEF ConnectInv, In, NoRepeat
<1>3. SpawnInv'
  BY DEF SpawnInv, Due, In
<1>4. ShownInv' /\ IdleInv' /\ CountInv' /\ CountCoversArrived'
  BY DEF ShownInv, Open, IdleInv, CountInv, CountCoversArrived
<1>5. Wanted' = Wanted /\ Concluded' = Concluded
  BY SameConcluded
<1>6. FinalInv'
  BY <1>5 DEF FinalInv, Found, Over, Running
<1>7. QED
  BY <1>1, <1>2, <1>3, <1>4, <1>6

LEMMA StutterStep ==
  ASSUME ScanInv, UNCHANGED scanVars
  PROVE  ScanInv'
<1> USE DEF ScanInv, scanVars
<1>1. ScanTypeOK' /\ EntryInv' /\ HostInv' /\ SenderInv'
  BY DEF ScanTypeOK, In, EntryInv, HostInv, SenderInv
<1>2. ConnectInv'
  BY DEF ConnectInv, In, NoRepeat
<1>3. SpawnInv'
  BY DEF SpawnInv, Due, In
<1>4. ShownInv' /\ IdleInv' /\ CountInv' /\ CountCoversArrived'
  BY DEF ShownInv, Open, Found, In, IdleInv, CountInv, Counts, Sent, Reported, CountCoversArrived
<1>5. Wanted' = Wanted /\ Concluded' = Concluded
  BY SameConcluded
<1>6. FinalInv'
  BY <1>5 DEF FinalInv, Found
<1>7. QED
  BY <1>1, <1>2, <1>3, <1>4, <1>6

LEMMA InitScanInv == ScanInit => ScanInv
<1> SUFFICES ASSUME ScanInit PROVE ScanInv
  OBVIOUS
<1> USE DEF ScanInit, ScreenInit, IpInit, SniInit
<1>1. \A S : <<>> \in Seq(S) /\ Len(<<>>) = 0
  BY EmptySeq
<1>2. ScanTypeOK
  BY <1>1 DEF ScanTypeOK, TaskStates, Running
<1>3. \A x : ~In(<<>>, x)
  BY <1>1 DEF In
<1>4. ConnectInv
  BY <1>1, <1>3 DEF ConnectInv, NoRepeat, Over
<1>5. SpawnInv /\ EntryInv
  BY <1>1, <1>3 DEF SpawnInv, Due, EntryInv, Tasks
<1>6. HostInv /\ SenderInv /\ ShownInv /\ IdleInv
  BY DEF HostInv, Over, SenderInv, ShownInv, Tasks, IdleInv
<1>7. FinalInv
  BY DEF FinalInv, Over
<1>8. CountInv /\ CountCoversArrived
  <2>1. Counts = {} /\ Sent = {}
    BY <1>1 DEF Counts, Sent
  <2>2. Reported = {}
    BY DEF Reported, Tasks
  <2>3. Cardinality({}) = 0
    BY FS_EmptySet
  <2>4. QED
    BY <1>1, <2>1, <2>2, <2>3 DEF CountInv, CountCoversArrived
<1>9. QED
  BY <1>2, <1>4, <1>5, <1>6, <1>7, <1>8 DEF ScanInv

LEMMA ScanInvStep == ScanInv /\ [ScanNext]_scanVars => ScanInv'
<1> SUFFICES ASSUME ScanInv, [ScanNext]_scanVars PROVE ScanInv'
  OBVIOUS
<1>1. CASE ScanTasks
  <2> USE DEF ScanTasks
  <2>1. CASE ScanIps
    <3>1. kind = "ip" /\ IpSteps /\ UNCHANGED host
      BY <2>1 DEF ScanIps
    <3>2. ASSUME NEW s \in Slots, StartConnect(s) PROVE ScanInv'
      BY <1>1, <3>1, <3>2, StartConnectStep
    <3>3. ASSUME NEW s \in Slots, NEW ok \in BOOLEAN, EndConnect(s, ok) PROVE ScanInv'
      BY <1>1, <3>1, <3>3, EndConnectStep
    <3>4. CASE ReceiveConnect
      BY <1>1, <3>1, <3>4, ReceiveConnectStep
    <3>5. CASE SpawnProbe
      BY <1>1, <3>1, <3>5, SpawnProbeStep
    <3>6. CASE DropP2
      BY <1>1, <3>1, <3>6, DropP2Step
    <3>7. CASE StoreEntry
      BY <1>1, <3>1, <3>7, StoreEntryStep
    <3>8. CASE ReturnIps
      BY <1>1, <3>1, <3>8, ReturnIpsStep
    <3>9. ASSUME NEW s \in Slots, ProbeIp(s), UNCHANGED <<scan, returned>> PROVE ScanInv'
      <4>1. Probe(s)
        BY <3>1 DEF Probe
      <4>2. CASE StartProbe(s) /\ UNCHANGED ipVars
        BY <1>1, <3>1, <3>9, <4>1, <4>2, StartProbeStep
      <4>3. CASE Report(s) /\ UNCHANGED ipVars
        BY <1>1, <3>1, <3>9, <4>1, <4>3, ReportStep
      <4>4. CASE /\ Exit(s)
                 /\ p2' = Append(p2, Entry(s))
                 /\ UNCHANGED <<connect, answered, p1, p2Held, tcpResults, tlsResults>>
        BY <1>1, <3>1, <3>9, <4>1, <4>4, ExitStep
      <4>5. QED
        BY <3>9, <4>2, <4>3, <4>4 DEF ProbeIp
    <3>10. QED
      BY <3>1, <3>2, <3>3, <3>4, <3>5, <3>6, <3>7, <3>8, <3>9 DEF IpSteps
  <2>2. CASE ScanSnis
    <3>1. kind = "sni" /\ SniSteps /\ UNCHANGED ipVars
      BY <2>2 DEF ScanSnis
    <3>2. ASSUME NEW h \in Hosts, JoinProbes(h) PROVE ScanInv'
      BY <1>1, <3>1, <3>2, JoinProbesStep
    <3>3. ASSUME NEW h \in Hosts, NEW found \in SUBSET PairsOf(h), Resolve(h, found) PROVE ScanInv'
      BY <1>1, <3>1, <3>3, ResolveStep
    <3>4. CASE ReturnPairs
      BY <1>1, <3>1, <3>4, ReturnPairsStep
    <3>5. ASSUME NEW t \in Pairs, ProbePair(t) PROVE ScanInv'
      <4>1. Probe(t) /\ UNCHANGED <<host, scan, returned>>
        BY <3>1, <3>5 DEF Probe, ProbePair
      <4>2. CASE StartProbe(t)
        BY <1>1, <3>1, <4>1, <4>2, StartProbeStep
      <4>3. CASE Report(t)
        BY <1>1, <3>1, <4>1, <4>3, ReportStep
      <4>4. CASE Exit(t)
        <5>1. /\ p2' = IF kind = "ip" THEN Append(p2, Entry(t)) ELSE p2
              /\ UNCHANGED <<connect, answered, p1, p2Held, tcpResults, tlsResults>>
          BY <3>1 DEF ipVars
        <5>2. QED
          BY <1>1, <3>1, <4>1, <4>4, <5>1, ExitStep
      <4>5. QED
        BY <3>5, <4>2, <4>3, <4>4 DEF ProbePair
    <3>6. QED
      BY <3>1, <3>2, <3>3, <3>4, <3>5 DEF SniSteps
  <2>3. QED
    BY <1>1, <2>1, <2>2
<1>2. CASE Screen
  <2>1. /\ UNCHANGED callerVars /\ UNCHANGED <<kind, host>> /\ UNCHANGED ipVars
        /\ Drain \/ Collect \/ AwaitScan \/ MarkFinished
    BY <1>2 DEF Screen, ScreenSteps
  <2>2. QED
    BY <2>1, DrainStep, CollectStep, AwaitScanStep, MarkFinishedStep
<1>3. CASE User
  <2>1. /\ UNCHANGED callerVars /\ UNCHANGED <<kind, host>> /\ UNCHANGED ipVars
        /\ \E key \in {"quit", "range"} : PressKey(key)
    BY <1>3 DEF User, Quit, ChangeRange
  <2>2. QED
    BY <2>1, PressKeyStep
<1>4. CASE UNCHANGED scanVars
  BY <1>4, StutterStep
<1>5. QED
  BY <1>1, <1>2, <1>3, <1>4 DEF ScanNext

\* The invariant of a scan of either kind, with a screen or without.
THEOREM ScanInvariant == ScanSpec => []ScanInv
  BY InitScanInv, ScanInvStep, PTL DEF ScanSpec

\* A scan that nobody stopped hands over the probed entry of every address that
\* answered (scan_ip_list) and of every pair that was resolved (scan_sni_list),
\* whether the caller took the task's own list or the screen's.
THEOREM ScanLosesNothing == ScanSpec => []NothingLost
<1>1. ScanInv => NothingLost
  <2> SUFFICES ASSUME ScanInv, handed, stop = "none"
               PROVE  /\ AllTried
                      /\ \A t \in Wanted : \E i \in DOMAIN offered :
                            offered[i].place = Place[t] /\ offered[i].probed
    BY DEF NothingLost
  <2>1. Concluded /\ \A t \in Wanted : Found(t, offered)
    BY DEF ScanInv, FinalInv
  <2>2. DOMAIN offered = 1..Len(offered)
    BY LenProperties DEF ScanInv, ScanTypeOK
  <2>3. QED
    BY <2>1, <2>2 DEF Concluded, Found
<1>2. QED
  BY <1>1, ScanInvariant, PTL

\* The screen never shows more probed addresses than connected ones: every count
\* is sent before the probe it leads to is spawned, and the channel keeps order.
THEOREM ScanCountsFirst == ScanSpec => []CountCoversArrived
<1>1. ScanInv => CountCoversArrived
  BY DEF ScanInv
<1>2. QED
  BY <1>1, ScanInvariant, PTL
=============================================================================
