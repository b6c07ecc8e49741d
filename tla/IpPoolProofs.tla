----------------------------- MODULE IpPoolProofs -----------------------------
(***************************************************************************)
(* What the steps of IpPool keep, for every set of addresses and every     *)
(* limit: the lemmas the proofs about both cycle managers rest on.         *)
(***************************************************************************)
EXTENDS IpPool, FiniteSetTheorems, TLAPS

PoolInv == PoolTypeOK /\ PoolIsBounded

\* An active set is finite, and its size is a number.
LEMMA ActiveIsFinite ==
  ASSUME NEW S \in SUBSET Ips
  PROVE  IsFiniteSet(S) /\ Cardinality(S) \in Nat
  BY FS_Subset, FS_CardinalityType, IpsAssumption

\* Filling the room that is left does not exceed the limit.
LEMMA FillsRoom ==
  ASSUME NEW pool \in SUBSET Ips, Cardinality(pool) <= MaxIp,
         NEW S \in SUBSET Ips, NEW added \in SomeOf(S, Room(pool))
  PROVE  /\ added \subseteq S
         /\ pool \union added \subseteq Ips
         /\ Cardinality(pool \union added) <= MaxIp
<1>1. added \in SUBSET S /\ added \in SUBSET Ips
  BY DEF SomeOf
<1>2. /\ IsFiniteSet(pool) /\ Cardinality(pool) \in Nat
      /\ IsFiniteSet(added) /\ Cardinality(added) \in Nat
      /\ Cardinality(S) \in Nat
  BY <1>1, ActiveIsFinite
<1>3. Room(pool) \in Nat /\ Cardinality(pool) + Room(pool) <= MaxIp
  BY <1>2, MaxIpAssumption DEF Room
<1>4. Cardinality(added) <= Room(pool)
  <2>1. Cardinality(added) = Smaller(Room(pool), Cardinality(S))
    BY DEF SomeOf
  <2>2. QED
    BY <2>1, <1>2, <1>3 DEF Smaller
<1>5. Cardinality(pool \union added) <= Cardinality(pool) + Cardinality(added)
  <2>1. Cardinality(pool \union added) =
          Cardinality(pool) + Cardinality(added) - Cardinality(pool \intersect added)
    BY <1>2, FS_Union
  <2>2. Cardinality(pool \intersect added) \in Nat
    BY ActiveIsFinite
  <2>3. QED
    BY <2>1, <2>2, <1>2
<1>6. Cardinality(pool \union added) \in Nat
  BY <1>1, ActiveIsFinite
<1>7. QED
  BY <1>1, <1>2, <1>3, <1>4, <1>5, <1>6, MaxIpAssumption

\* A subset of a pool within the limit is within the limit.
LEMMA Shrinks ==
  ASSUME NEW pool \in SUBSET Ips, Cardinality(pool) <= MaxIp,
         NEW S \in SUBSET pool
  PROVE  Cardinality(S) <= MaxIp
<1>1. IsFiniteSet(pool) /\ Cardinality(pool) \in Nat /\ Cardinality(S) \in Nat
  BY ActiveIsFinite
<1>2. Cardinality(S) <= Cardinality(pool)
  BY <1>1, FS_Subset
<1>3. QED
  BY <1>1, <1>2, MaxIpAssumption

LEMMA ScansAreTyped ==
  Scans \subseteq [status : {"none", "running", "finished"}, ips : SUBSET Ips]
  BY DEF Scans, SomeOf

LEMMA InitPoolInv == PoolInit => PoolInv
  BY ScansAreTyped DEF PoolInit, PoolInv, PoolTypeOK, PoolIsBounded

LEMMA CollectPoolInv ==
  ASSUME PoolInv, NEW from, NEW to, Collect(from, to)
  PROVE  PoolInv'
<1> USE DEF PoolInv, PoolTypeOK, PoolIsBounded, Collect, Manages
<1>1. CASE scan.status # "finished"
  BY <1>1
<1>2. CASE scan.status = "finished"
  <2>1. PICK added \in SomeOf(scan.ips \ active, Room(active)) :
          /\ active' = active \union added
          /\ pre' = pre \union (scan.ips \ added)
    BY <1>2
  <2>2. scan.ips \in SUBSET Ips /\ active \in SUBSET Ips /\ scan' = NoScan
    BY <1>2
  <2>3. /\ active' \subseteq Ips
        /\ Cardinality(active') <= MaxIp
    BY <2>1, <2>2, FillsRoom
  <2>4. pre' \subseteq Ips /\ NoScan \in [status : {"none", "running", "finished"}, ips : SUBSET Ips]
    BY <2>1, <2>2 DEF NoScan
  <2>5. QED
    BY <2>2, <2>3, <2>4
<1>3. QED
  BY <1>1, <1>2

LEMMA CheckFixedPoolInv ==
  ASSUME PoolInv, NEW from, NEW to, CheckFixed(from, to)
  PROVE  PoolInv'
  BY DEF PoolInv, PoolTypeOK, PoolIsBounded, CheckFixed, Manages

LEMMA RemovePoolInv ==
  ASSUME PoolInv, NEW from, NEW to, Remove(from, to)
  PROVE  PoolInv'
<1>1. active' = active \ dead /\ active \in SUBSET Ips /\ Cardinality(active) <= MaxIp
  BY DEF PoolInv, PoolTypeOK, PoolIsBounded, Remove
<1>2. Cardinality(active') <= MaxIp
  BY <1>1, Shrinks
<1>3. QED
  BY <1>1, <1>2 DEF PoolInv, PoolTypeOK, PoolIsBounded, Remove, Manages

LEMMA ReplacePoolInv ==
  ASSUME PoolInv, NEW from, NEW to, Replace(from, to)
  PROVE  PoolInv'
<1> USE DEF PoolInv, PoolTypeOK, PoolIsBounded
<1>1. PICK added \in BestOf(pre \ active, Room(active)) :
        active' = active \union added /\ pre' = pre \ added
  BY DEF Replace
<1>2. added \in SomeOf(pre \ active, Room(active))
  BY <1>1 DEF BestOf
<1>3. /\ active' \subseteq Ips
      /\ Cardinality(active') <= MaxIp
  BY <1>1, <1>2, FillsRoom
<1>4. pre' \subseteq Ips
  BY <1>1
<1>5. QED
  BY <1>3, <1>4 DEF Replace, Manages

LEMMA RespawnPoolInv ==
  ASSUME PoolInv, NEW from, NEW to, Respawn(from, to)
  PROVE  PoolInv'
  BY ScansAreTyped DEF PoolInv, PoolTypeOK, PoolIsBounded, Respawn, Manages

LEMMA ScanFinishesPoolInv ==
  ASSUME PoolInv, ScanFinishes
  PROVE  PoolInv'
  BY DEF PoolInv, PoolTypeOK, PoolIsBounded, ScanFinishes, poolVars, mgrVars

\* The pin shrinks the pool to one address, and MAX_IP is at least 1.
LEMMA FixPoolInv ==
  ASSUME PoolInv, Fix
  PROVE  PoolInv'
<1>1. picking \in Ips /\ active' = {picking}
  BY DEF PoolInv, PoolTypeOK, Fix
<1>2. Cardinality(active') <= MaxIp
  BY <1>1, FS_Singleton, MaxIpAssumption
<1>3. QED
  BY <1>1, <1>2 DEF PoolInv, PoolTypeOK, PoolIsBounded, Fix, mgrVars
=============================================================================
