--------------------------- MODULE FindIpPoolProofs ---------------------------
(***************************************************************************)
(* Safety of FindIpPool for every set of addresses, every score and every  *)
(* limit.                                                                  *)
(***************************************************************************)
EXTENDS FindIpPool, IpPoolProofs

\* The connection that is about to go elsewhere than to the pinned address.
Diverted == IF chosen \in {None, fixed} THEN 0 ELSE 1

\* A connection about to go astray is one of those counted: next_ip gives none out
\* after the pin.
PinInv ==
    /\ fixed = None => astray = 0
    /\ fixed # None => astray + Diverted <= 1

\* While the manager sleeps nothing is added to the pool, and a verdict lasts until
\* Refill.
SleepInv ==
    fixed = None =>
        /\ mgr \in {"asleep", "evaluate"} => active \subseteq slept
        /\ mgr \in {"remove", "replace"} \/ dead = {}
        /\ dead \subseteq slept

IInv == TypeOK /\ PoolIsBounded /\ PinInv /\ SleepInv

\* A verdict is about addresses of the pool.
LEMMA DoomedAreActive ==
  ASSUME NEW bytes, NEW T \in Doomed(bytes)
  PROVE  T \subseteq active
  BY DEF Doomed, Lowest, SomeOf, Idle

LEMMA InitIInv == Init => IInv
  BY InitPoolInv DEF Init, IInv, TypeOK, PoolInv, PoolInit, PinInv, SleepInv

-----------------------------------------------------------------------------
\* One step for each action; the pool's part of each is a lemma of IpPoolProofs.
LEMMA NextTypeOK == IInv /\ [Next]_vars => TypeOK' /\ PoolIsBounded'
<1> SUFFICES ASSUME IInv, [Next]_vars PROVE TypeOK' /\ PoolIsBounded'
  OBVIOUS
<1> USE DEF PoolInv, loopVars
<1>0. PoolInv /\ TypeOK
  BY DEF IInv, TypeOK
<1>1. CASE ChooseAddress
  <2>1. next_ip \subseteq Ips
    BY <1>0 DEF next_ip, TypeOK, PoolTypeOK
  <2>2. QED
    BY <1>0, <1>1, <2>1 DEF ChooseAddress, TypeOK, PoolTypeOK, PoolIsBounded, poolVars,
       mgrVars
<1>2. CASE CountConnection
  <2>1. astray' \in 0 .. 2
    BY <1>0, <1>2 DEF CountConnection, TypeOK, Smaller
  <2>2. QED
    BY <1>0, <1>2, <2>1 DEF CountConnection, TypeOK, PoolTypeOK, PoolIsBounded,
       poolVars, mgrVars
<1>3. CASE Evaluate /\ UNCHANGED loopVars
  <2>1. dead' \subseteq Ips
    BY <1>0, <1>3, DoomedAreActive DEF Evaluate, PoolTypeOK
  <2>2. QED
    BY <1>0, <1>3, <2>1 DEF Evaluate, Manages, TypeOK, PoolTypeOK, PoolIsBounded
<1>4. CASE SaveAndReset /\ UNCHANGED loopVars
  BY <1>0, <1>4 DEF SaveAndReset, Manages, TypeOK, PoolTypeOK, PoolIsBounded
<1>5. CASE FallAsleep /\ UNCHANGED loopVars
  <2>1. PoolInv'
    BY <1>0, <1>5, CollectPoolInv DEF FallAsleep
  <2>2. QED
    BY <1>0, <1>5, <2>1 DEF FallAsleep, Collect, Manages, TypeOK, PoolTypeOK
<1>6. CASE CheckFixed("asleep", "evaluate") /\ UNCHANGED slept /\ UNCHANGED loopVars
  BY <1>0, <1>6, CheckFixedPoolInv DEF CheckFixed, Manages, TypeOK
<1>7. CASE Remove("remove", "replace") /\ UNCHANGED slept /\ UNCHANGED loopVars
  BY <1>0, <1>7, RemovePoolInv DEF Remove, Manages, TypeOK
<1>8. CASE Refill /\ UNCHANGED loopVars
  BY <1>0, <1>8, ReplacePoolInv DEF Refill, Replace, Manages, TypeOK
<1>9. CASE Respawn("respawn", "collect") /\ UNCHANGED slept /\ UNCHANGED loopVars
  BY <1>0, <1>9, RespawnPoolInv DEF Respawn, Manages, TypeOK
<1>10. CASE EndScan
  BY <1>0, <1>10, ScanFinishesPoolInv DEF EndScan, ScanFinishes, TypeOK, mgrVars
<1>11. CASE OpenPicker /\ UNCHANGED <<connected, chosen, slept>>
  BY <1>0, <1>11 DEF OpenPicker, TypeOK, PoolTypeOK, PoolIsBounded, poolVars, mgrVars
<1>12. CASE Pin /\ UNCHANGED <<connected, chosen, slept>>
  BY <1>0, <1>12, FixPoolInv DEF Pin, Fix, TypeOK, mgrVars
<1>13. CASE UNCHANGED vars
  BY <1>0, <1>13 DEF vars, TypeOK, PoolTypeOK, PoolIsBounded, poolVars, mgrVars
<1>14. QED
  BY <1>1, <1>2, <1>3, <1>4, <1>5, <1>6, <1>7, <1>8, <1>9, <1>10, <1>11, <1>12, <1>13
  DEF Next, Manager, User

LEMMA NextPinInv == IInv /\ [Next]_vars => PinInv'
<1> SUFFICES ASSUME IInv, [Next]_vars PROVE PinInv'
  OBVIOUS
<1> USE DEF PinInv, Diverted
<1>0. PinInv /\ astray \in 0 .. 2 /\ picking \in Ips \union {None}
  BY DEF IInv, TypeOK, PoolTypeOK
<1>1. CASE ChooseAddress
  BY <1>0, <1>1 DEF ChooseAddress, next_ip, poolVars
<1>2. CASE CountConnection
  BY <1>0, <1>2 DEF CountConnection, Smaller, poolVars
<1>3. CASE Pin /\ UNCHANGED <<connected, chosen, slept>>
  BY <1>0, <1>3, NoneAssumption DEF Pin, Fix
<1>4. CASE UNCHANGED <<fixed, chosen, astray>>
  BY <1>0, <1>4
<1>5. QED
  BY <1>1, <1>2, <1>3, <1>4 DEF Next, Manager, Evaluate, SaveAndReset, FallAsleep,
     Refill, CheckFixed, Collect, Remove, Replace, Respawn, Manages, User, OpenPicker,
     EndScan, ScanFinishes, vars, loopVars, poolVars

LEMMA NextSleepInv == IInv /\ [Next]_vars => SleepInv'
<1> SUFFICES ASSUME IInv, [Next]_vars PROVE SleepInv'
  OBVIOUS
<1> USE DEF SleepInv
<1>0. SleepInv
  BY DEF IInv
<1>1. CASE Evaluate
  BY <1>0, <1>1, DoomedAreActive DEF Evaluate, Manages
<1>2. CASE SaveAndReset \/ FallAsleep \/ Refill
  BY <1>0, <1>2 DEF SaveAndReset, FallAsleep, Refill, Collect, Replace, Manages
<1>3. CASE /\ \/ CheckFixed("asleep", "evaluate") \/ Remove("remove", "replace")
              \/ Respawn("respawn", "collect")
           /\ UNCHANGED slept
  BY <1>0, <1>3 DEF CheckFixed, Remove, Respawn, Manages
<1>4. CASE Pin
  <2>1. fixed' # None
    BY <1>4 DEF Pin, Fix
  <2>2. QED
    BY <2>1
<1>5. CASE ChooseAddress \/ CountConnection \/ EndScan
           \/ (OpenPicker /\ UNCHANGED slept) \/ UNCHANGED vars
  BY <1>0, <1>5 DEF ChooseAddress, CountConnection, EndScan, ScanFinishes, OpenPicker,
     vars, poolVars, mgrVars
<1>6. QED
  BY <1>1, <1>2, <1>3, <1>4, <1>5 DEF Next, Manager, User

LEMMA IInvIsInvariant == Spec => []IInv
<1>1. IInv /\ [Next]_vars => IInv'
  BY NextTypeOK, NextPinInv, NextSleepInv DEF IInv
<1>2. QED
  BY <1>1, InitIInv, PTL DEF Spec

-----------------------------------------------------------------------------
\* Every reachable state of the pool and its manager is well typed.
THEOREM PoolIsTyped == Spec => []TypeOK
  BY IInvIsInvariant, PTL DEF IInv

\* The pool never exceeds MAX_IP: each step that adds addresses reads the room that
\* is left under the lock it adds them under.
THEOREM PoolStaysBounded == Spec => []PoolIsBounded
  BY IInvIsInvariant, PTL DEF IInv

\* A pin costs at most one connection, whatever the cycle under way does to the pool
\* after it: the one between next_ip and inc_connection at the time.
THEOREM PinHolds == Spec => []PinIsObeyed
<1>1. IInv => PinIsObeyed
  BY DEF IInv, TypeOK, PinInv, Diverted, PinIsObeyed
<1>2. QED
  BY <1>1, IInvIsInvariant, PTL

\* Without a pin no address is dropped that joined the pool during the cycle: the
\* manager adds before its sleep and after its verdict, never in between.
THEOREM DropsServedACycle == Spec => []ServedACycle
<1>1. IInv => ServedACycle
  BY DEF IInv, SleepInv, ServedACycle
<1>2. QED
  BY <1>1, IInvIsInvariant, PTL
=============================================================================
