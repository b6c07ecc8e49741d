-------------------------- MODULE AutoSpoofPoolProofs -------------------------
(***************************************************************************)
(* Safety of AutoSpoofPool for every set of addresses and domains and      *)
(* every limit.                                                            *)
(***************************************************************************)
EXTENDS AutoSpoofPool, IpPoolProofs

IInv ==
    /\ TypeOK /\ PoolIsBounded
    /\ NoDropBeforeTraffic

\* A verdict is carried out, or found empty, before the cycle goes on.
SettledInv == mgr \in {"remove", "replace"} \/ dead = {}

\* Pairs have at most as many addresses as there are pairs, and at least as many as
\* it takes to hold them.
LEMMA AddressesOfPairs ==
  ASSUME NEW pool \in SUBSET Ips, NEW T \in SUBSET (pool \X Domains)
  PROVE  /\ AddressesOf(T) \subseteq pool
         /\ IsFiniteSet(T)
         /\ Cardinality(AddressesOf(T)) <= Cardinality(T)
         /\ Cardinality(T) <= Cardinality(AddressesOf(T)) * Cardinality(Domains)
<1> DEFINE f == [pair \in T |-> pair[1]]
           image == AddressesOf(T)
<1>1. image \subseteq pool /\ T \subseteq image \X Domains
  BY DEF AddressesOf
<1>2. f \in Surjection(T, image)
  BY DEF Surjection, AddressesOf
<1>3. IsFiniteSet(image)
  BY <1>1, ActiveIsFinite
<1> HIDE DEF f, image
<1>4. /\ IsFiniteSet(image \X Domains)
      /\ Cardinality(image \X Domains) = Cardinality(image) * Cardinality(Domains)
  BY <1>3, FS_Product, DomainsAssumption
<1>5. IsFiniteSet(T) /\ Cardinality(T) <= Cardinality(image \X Domains)
  BY <1>1, <1>4, FS_Subset
<1>6. Cardinality(image) <= Cardinality(T)
  BY <1>2, <1>5, FS_Surjection
<1>7. QED
  BY <1>1, <1>4, <1>5, <1>6 DEF image

\* What a verdict may be: addresses of the pool, none before a pair has carried a
\* byte, and as many as the pairs to drop allow.
LEMMA VerdictIsBounded ==
  ASSUME IInv, NEW bytes \in Counters, NEW D \in Doomed(bytes)
  PROVE  /\ D \subseteq active
         /\ D # {} => used # {}
         /\ D # {} => /\ Cardinality(D) <= drop_count
                       /\ Smaller(drop_count, Cardinality(PoolPairs)) <=
                            Cardinality(D) * Cardinality(Domains)
<1>1. /\ active \in SUBSET Ips
      /\ drop_count \in Nat
      /\ IsFiniteSet(active)
  BY ActiveIsFinite, DropCountsAssumption DEF IInv, TypeOK, PoolTypeOK
<1>2. CASE AnyHasBytes(bytes)
  <2>1. PICK T \in Lowest(bytes) : D = AddressesOf(T)
    BY <1>2 DEF Doomed
  <2>2. T \subseteq PoolPairs /\ Cardinality(T) = Smaller(drop_count, Cardinality(PoolPairs))
    BY <2>1 DEF Lowest, SomeOf
  <2>3. /\ D \subseteq active
        /\ IsFiniteSet(T) /\ IsFiniteSet(D)
        /\ Cardinality(D) <= Cardinality(T)
        /\ Cardinality(T) <= Cardinality(D) * Cardinality(Domains)
    BY <1>1, <2>1, <2>2, AddressesOfPairs, FS_Subset DEF PoolPairs
  <2>4. Cardinality(PoolPairs) \in Nat
    BY <1>1, FS_Product, FS_CardinalityType, DomainsAssumption DEF PoolPairs
  <2>5. Cardinality(T) \in Nat /\ Cardinality(D) \in Nat
    BY <2>3, FS_CardinalityType
  <2>6. Cardinality(T) <= drop_count
    BY <1>1, <2>2, <2>4 DEF Smaller
  <2>7. Cardinality(D) <= drop_count
    BY <1>1, <2>3, <2>5, <2>6
  <2>8. used # {}
    BY <1>2 DEF AnyHasBytes, Counters
  <2>9. QED
    BY <2>2, <2>3, <2>7, <2>8
<1>3. CASE ~AnyHasBytes(bytes)
  BY <1>3 DEF Doomed
<1>4. QED
  BY <1>2, <1>3

LEMMA InitIInv == Init => IInv
<1> SUFFICES ASSUME Init PROVE IInv
  OBVIOUS
<1>1. TypeOK /\ PoolIsBounded
  BY InitPoolInv DEF Init, TypeOK, PoolInv
<1>2. dead = {}
  BY DEF Init, PoolInit
<1>3. QED
  BY <1>1, <1>2 DEF IInv, NoDropBeforeTraffic

\* A step of the manager that leaves the traffic alone and keeps or forgets the
\* verdict, when the pool keeps PoolInv.
LEMMA KeepsIInv ==
  ASSUME IInv, UNCHANGED trafficVars, dead' \in {dead, {}}, PoolInv',
         mgr' \in {"check", "collect", "asleep", "collect_again", "evaluate", "remove",
                   "replace", "save", "respawn", "stopped"}
  PROVE  IInv'
  BY DEF IInv, TypeOK, PoolInv, trafficVars, NoDropBeforeTraffic

\* One step for each action; the pool's part of each is a lemma of IpPoolProofs.
LEMMA NextIInv == IInv /\ [Next]_vars => IInv'
<1> SUFFICES ASSUME IInv, [Next]_vars PROVE IInv'
  OBVIOUS
<1>0. PoolInv /\ mgr \in {"check", "collect", "asleep", "collect_again", "evaluate",
                          "remove", "replace", "save", "respawn", "stopped"}
  BY DEF IInv, TypeOK, PoolInv
<1>1. CASE Accept
  BY <1>0, <1>1 DEF Accept, IInv, TypeOK, PoolTypeOK, PoolInv, PoolIsBounded, poolVars,
     mgrVars, NoDropBeforeTraffic
<1>2. CASE Evaluate
  <2>1. dead' \subseteq Ips /\ (dead' # {} => used # {})
    <3>1. CASE active = {}
      BY <1>2, <3>1 DEF Evaluate, IInv, TypeOK, PoolTypeOK, NoDropBeforeTraffic
    <3>2. CASE active # {}
      BY <1>0, <1>2, <3>2, VerdictIsBounded DEF Evaluate, PoolInv, PoolTypeOK
    <3>3. QED
      BY <3>1, <3>2
  <2>2. QED
    BY <1>2, <2>1 DEF Evaluate, Manages, IInv, TypeOK, PoolTypeOK, PoolIsBounded,
       trafficVars, NoDropBeforeTraffic
<1>4. CASE SaveAndReset
  BY <1>4 DEF SaveAndReset, Manages, IInv, TypeOK, PoolTypeOK, PoolIsBounded,
     NoDropBeforeTraffic
<1>5. CASE /\ Collect("collect", "asleep") \/ Collect("collect_again", "evaluate")
           /\ UNCHANGED trafficVars
  BY <1>0, <1>5, CollectPoolInv, KeepsIInv DEF Collect, Manages
<1>6. CASE /\ \/ CheckFixed("check", "collect")
              \/ CheckFixed("asleep", "collect_again")
           /\ UNCHANGED trafficVars
  BY <1>0, <1>6, CheckFixedPoolInv, KeepsIInv DEF CheckFixed, Manages
<1>7. CASE Spare /\ UNCHANGED trafficVars
  <2>1. PoolInv'
    BY <1>0, <1>7 DEF Spare, Manages, PoolInv, PoolTypeOK, PoolIsBounded
  <2>2. QED
    BY <1>7, <2>1, KeepsIInv DEF Spare, Manages
<1>8. CASE Remove("remove", "replace") /\ UNCHANGED trafficVars
  BY <1>0, <1>8, RemovePoolInv, KeepsIInv DEF Remove, Manages
<1>9. CASE Replace("replace", "save") /\ UNCHANGED trafficVars
  BY <1>0, <1>9, ReplacePoolInv, KeepsIInv DEF Replace, Manages
<1>10. CASE Respawn("respawn", "check") /\ UNCHANGED trafficVars
  BY <1>0, <1>10, RespawnPoolInv, KeepsIInv DEF Respawn, Manages
<1>11. CASE ScanFinishes /\ UNCHANGED trafficVars
  BY <1>0, <1>11, ScanFinishesPoolInv, KeepsIInv DEF ScanFinishes
<1>12. CASE OpenPicker \/ CancelPicker
  <2>1. picking' \in Ips \union {None}
    BY <1>12 DEF OpenPicker, CancelPicker, IInv, TypeOK
  <2>2. PoolInv'
    BY <1>0, <1>12, <2>1 DEF OpenPicker, CancelPicker, PoolInv, PoolTypeOK,
       PoolIsBounded, poolVars, mgrVars
  <2>3. QED
    BY <1>0, <1>12, <2>2, KeepsIInv DEF OpenPicker, CancelPicker, mgrVars
<1>13. CASE Fix /\ UNCHANGED trafficVars
  BY <1>0, <1>13, FixPoolInv, KeepsIInv DEF Fix, mgrVars
<1>14. CASE UNCHANGED vars
  <2>1. PoolInv'
    BY <1>0, <1>14 DEF vars, PoolInv, PoolTypeOK, PoolIsBounded, poolVars, mgrVars
  <2>2. QED
    BY <1>0, <1>14, <2>1, KeepsIInv DEF vars, mgrVars
<1>15. QED
  BY <1>1, <1>2, <1>4, <1>5, <1>6, <1>7, <1>8, <1>9, <1>10, <1>11, <1>12, <1>13,
     <1>14 DEF Next, Manager, User

LEMMA IInvIsInvariant == Spec => []IInv
  BY InitIInv, NextIInv, PTL DEF Spec

LEMMA SettledIsInvariant == Spec => []SettledInv
<1>1. Init => SettledInv
  BY DEF Init, PoolInit, SettledInv
<1>2. SettledInv /\ [Next]_vars => SettledInv'
  <2> SUFFICES ASSUME SettledInv, [Next]_vars PROVE SettledInv'
    OBVIOUS
  <2> USE DEF SettledInv
  <2>1. CASE Evaluate \/ SaveAndReset
    BY <2>1 DEF Evaluate, SaveAndReset, Manages
  <2>2. CASE Manager /\ ~(Evaluate \/ SaveAndReset)
    BY <2>2 DEF Manager, CheckFixed, Collect, Spare, Remove, Replace, Respawn, Manages
  <2>3. CASE UNCHANGED <<mgr, dead>>
    BY <2>3
  <2>4. QED
    BY <2>1, <2>2, <2>3 DEF Next, Accept, User, OpenPicker, CancelPicker, Fix,
       ScanFinishes, vars, mgrVars
<1>3. QED
  BY <1>1, <1>2, PTL DEF Spec

\* Every reachable state of the pool, its manager and the counters of the pairs is
\* well typed.
THEOREM PoolIsTyped == Spec => []TypeOK
  BY IInvIsInvariant, PTL DEF IInv

\* The pool never exceeds MAX_IP_AUTO_SPOOF, although a cycle collects scans twice and
\* refills from the cache in between.
THEOREM PoolStaysBounded == Spec => []PoolIsBounded
  BY IInvIsInvariant, PTL DEF IInv

\* A verdict that drops anything takes at most AUTO_SPOOF_DROP_COUNT addresses, and
\* enough of them to hold as many pairs: for every pool and every number of domains.
THEOREM CycleCostIsBounded == Spec => DropsAreBounded
<1>1. IInv /\ SettledInv /\ [Next]_vars =>
        [mgr = "evaluate" /\ dead' # {} =>
           /\ Cardinality(dead') <= drop_count
           /\ Smaller(drop_count, Cardinality(PoolPairs)) <=
                Cardinality(dead') * Cardinality(Domains)]_vars
  <2> SUFFICES ASSUME IInv, SettledInv, Next, mgr = "evaluate", dead' # {}
               PROVE  /\ Cardinality(dead') <= drop_count
                      /\ Smaller(drop_count, Cardinality(PoolPairs)) <=
                           Cardinality(dead') * Cardinality(Domains)
    OBVIOUS
  <2>1. CASE Evaluate /\ active # {}
    BY <2>1, VerdictIsBounded DEF Evaluate
  <2>2. CASE ~(Evaluate /\ active # {})
    <3>1. dead' = dead
      BY <2>2 DEF Next, Accept, Manager, Evaluate, SaveAndReset, Collect, CheckFixed,
         Spare, Remove, Replace, Respawn, Manages, User, OpenPicker, CancelPicker, Fix,
         ScanFinishes, mgrVars
    <3>2. dead = {}
      BY DEF SettledInv
    <3>3. QED
      BY <3>1, <3>2
  <2>3. QED
    BY <2>1, <2>2
<1>2. QED
  BY <1>1, IInvIsInvariant, SettledIsInvariant, PTL DEF Spec, DropsAreBounded

\* No address is dropped before a pair has carried a connection: a verdict needs a
\* counter that is not 0, and only a routed pair has one.
THEOREM DropsFollowTraffic == Spec => []NoDropBeforeTraffic
  BY IInvIsInvariant, PTL DEF IInv
=============================================================================
