---------------------------- MODULE SessionProofs ----------------------------
(***************************************************************************)
(* Safety of Session for every set of targets and any number of proxies.   *)
(***************************************************************************)
EXTENDS Session, TLAPS

\* Where the main task has no proxy yet or none any more.
Between == {"starting", "choosing", "ranging", "scanning", "arming"}

\* A serving mode passes each of its phases once.
PhaseInv ==
    /\ MaxProxies >= 1
    /\ pc = "arming" => mode \in Serving
    /\ mode \in Serving => pc \notin {"ranging", "scanning", "picking"}
    /\ mode \in Serving /\ pc \in Between => \A p \in Proxies : proxy[p] = "none"

\* Before it starts a proxy main holds none, and so none serves.
ProxyInv ==
    /\ proxy \in [Proxies -> {"none", "spawned", "listening", "failed", "aborted", "gone"}]
    /\ pc \in Between => handle = {}
    /\ handle \subseteq Proxies
    /\ ServedIsHeld

TargetInv ==
    /\ active \in Targets /\ best \in Targets
    /\ setup \subseteq Targets
    /\ FakeNamesItsAddress

\* The last announced target is the active one, or the next to be announced is; no
\* rescan runs before a serving mode has chosen its target.
HeaderInv ==
    /\ events \in Seq(Targets)
    /\ rescan \in {"off", "asleep", "scanned", "announcing"}
    /\ pc \in {"dashboard", "picking"} => ~headless
    /\ mode \notin Serving \/ pc \in {"starting", "choosing"} => rescan = "off" /\ events = <<>>
    /\ mode = "sni_spoof" /\ pc = "arming" => rescan = "off"
    /\ ~headless /\ rescan = "announcing" => active = best
    /\ ~headless /\ rescan # "announcing" =>
           active = IF events = <<>> THEN shown ELSE events[Len(events)]

IInv == PhaseInv /\ ProxyInv /\ TargetInv /\ HeaderInv

LEMMA InitIInv == Init => IInv
  BY MaxProxiesAssumption, ModesAssumption
  DEF Init, RescanInit, IInv, PhaseInv, ProxyInv, TargetInv, HeaderInv, ServedIsHeld,
      FakeNamesItsAddress, Between, Proxies, Serving, Ranging

-----------------------------------------------------------------------------
(* One lemma for each part; a step that leaves a part's variables alone     *)
(* keeps it                                                                 *)

LEMMA PhaseStep == ASSUME IInv, Next PROVE PhaseInv'
<1> USE DEF IInv, PhaseInv, Between, Proxies, Serving, Ranging, config, mainVars,
        proxyVars, GoTo, EndWith, MainOnly
<1>1. CASE Startup
  BY <1>1 DEF Startup, Check, Fail, ChooseTarget, Arm, ChooseDomain, ChooseRange, StartProxy
<1>2. CASE User
  BY <1>2 DEF User, LeaveScan, ChangeRange, ChangeDomain, Pick, Picked, Quit, Reranged
<1>3. CASE Refresh \/ Signal \/ Wake
  BY <1>3 DEF Refresh, Signal, Wake
<1>4. CASE ProxyTask
  BY <1>4 DEF ProxyTask, Bind, Vanish, Beside
<1>5. CASE EngineEnds \/ RescanStep \/ Connect
  BY <1>5 DEF EngineEnds, RescanStep, Connect, Beside
<1>6. QED
  BY <1>1, <1>2, <1>3, <1>4, <1>5 DEF Next

LEMMA TargetStep == ASSUME IInv, Next PROVE TargetInv'
<1> USE DEF IInv, TargetInv, rescanVars, setupVars, FakeNamesItsAddress
<1>1. CASE UNCHANGED rescanVars /\ UNCHANGED setupVars
  BY <1>1
<1>2. CASE ChooseTarget \/ Arm \/ Refresh
  BY <1>2 DEF ChooseTarget, Arm, Refresh, ShowTarget
<1>3. CASE RescanStep
  BY <1>3 DEF RescanStep, EndRescan, Switch, Keep, Announce
<1>4. CASE Connect
  BY <1>4 DEF Connect, AcceptConnection, Dial
<1>5. QED
  BY <1>1, <1>2, <1>3, <1>4
  DEF Next, Startup, User, Check, Fail, ChooseDomain, ChooseRange, StartProxy, LeaveScan,
      ChangeRange, ChangeDomain, Pick, Picked, Quit, Signal, Wake, ProxyTask, Bind, Vanish,
      EngineEnds, MainOnly

LEMMA HeaderStep == ASSUME IInv, Next PROVE HeaderInv'
<1> USE DEF IInv, HeaderInv, TargetInv, PhaseInv, Serving, Ranging, rescanVars, config,
        mainVars, GoTo, EndWith
<1>1. CASE Check \/ Fail \/ ChooseDomain \/ ChooseRange \/ StartProxy
  BY <1>1 DEF Check, Fail, ChooseDomain, ChooseRange, StartProxy, MainOnly
<1>2. CASE ChooseTarget \/ Arm
  BY <1>2 DEF ChooseTarget, Arm
<1>3. CASE User
  BY <1>3 DEF User, LeaveScan, ChangeRange, ChangeDomain, Pick, Picked, Quit, Reranged, MainOnly
<1>4. CASE Signal \/ Wake \/ ProxyTask \/ EngineEnds \/ Connect
  BY <1>4 DEF Signal, Wake, ProxyTask, Bind, Vanish, EngineEnds, Connect, Beside, MainOnly
<1>5. CASE Refresh
  BY <1>5 DEF Refresh, ShowTarget
<1>6. CASE RescanStep
  <2>1. CASE EndRescan \/ Switch \/ Keep(mode = "sni_spoof")
    BY <1>6, <2>1 DEF RescanStep, EndRescan, Switch, Keep, Beside
  <2>2. CASE Announce(headless)
    BY <1>6, <2>2 DEF RescanStep, Announce, Beside
  <2>3. QED
    BY <1>6, <2>1, <2>2 DEF RescanStep
<1>7. QED
  BY <1>1, <1>2, <1>3, <1>4, <1>5, <1>6 DEF Next, Startup

LEMMA ProxyStep == ASSUME IInv, Next PROVE ProxyInv'
<1> USE DEF IInv, ProxyInv, ServedIsHeld, Spawned, proxyVars, mainVars, GoTo, EndWith
<1>1. CASE UNCHANGED proxyVars /\ (pc' \in Between => pc \in Between)
  BY <1>1
<1>2. CASE Arm
  <2>1. 1 \in Proxies /\ \A p \in Proxies : proxy[p] = "none"
    BY <1>2 DEF Arm, PhaseInv, Between, Proxies
  <2>2. /\ proxy' = [proxy EXCEPT ![1] = "spawned"] /\ handle' = {1}
        /\ pc' \notin Between
    BY <1>2 DEF Arm, Serve, Between
  <2>3. Spawned' = 1..1
    BY <2>1, <2>2
  <2>4. QED
    BY <2>1, <2>2, <2>3
<1>3. CASE StartProxy
  <2>1. handle = {} /\ \A p \in Proxies : proxy[p] \notin {"spawned", "listening"}
    BY <1>3 DEF StartProxy, Between
  <2>2. Stopped(handle) = proxy
    BY <2>1 DEF Stopped
  <2>3. PICK p \in Proxies : /\ Spawned = 1..(p - 1)
                             /\ proxy' = [proxy EXCEPT ![p] = "spawned"]
                             /\ handle' = {p}
    BY <1>3, <2>2 DEF StartProxy
  <2>4. Spawned' = Spawned \union {p}
    BY <2>3
  <2>5. Spawned' = 1..p
    BY <2>3, <2>4 DEF Proxies
  <2>6. pc' \notin Between
    BY <1>3 DEF StartProxy, Between
  <2>7. QED
    BY <2>1, <2>3, <2>5, <2>6
<1>4. CASE AbortProxy
  <2>1. \A p \in Proxies : proxy'[p] \notin {"spawned", "listening"}
    BY <1>4 DEF AbortProxy, Stopped
  <2>2. proxy' \in [Proxies -> {"none", "spawned", "listening", "failed", "aborted", "gone"}]
    BY <1>4 DEF AbortProxy, Stopped
  <2>3. QED
    BY <1>4, <2>1, <2>2 DEF AbortProxy
<1>5. CASE ProxyTask
  <2>1. PICK p \in Proxies : Bind(p) \/ Vanish(p)
    BY <1>5 DEF ProxyTask
  <2>2. UNCHANGED handle /\ UNCHANGED pc
    BY <2>1 DEF Bind, Vanish, Beside
  <2>3. \/ proxy[p] = "spawned" /\ \E s \in {"failed", "listening"} : proxy' = [proxy EXCEPT ![p] = s]
        \/ proxy[p] = "aborted" /\ proxy' = [proxy EXCEPT ![p] = "gone"]
    BY <2>1 DEF Bind, Vanish
  <2>4. Spawned' = Spawned
    BY <2>3
  <2>5. QED
    BY <2>2, <2>3, <2>4
<1>6. QED
  BY <1>1, <1>2, <1>3, <1>4, <1>5
  DEF Next, Startup, User, Check, Fail, ChooseTarget, ChooseDomain, ChooseRange, LeaveScan,
      ChangeRange, ChangeDomain, Pick, Picked, Quit, Reranged, Refresh, Signal, Wake, EngineEnds,
      RescanStep, Connect, Beside, MainOnly, Between

LEMMA StutterIInv == ASSUME IInv, UNCHANGED vars PROVE IInv'
  BY DEF IInv, PhaseInv, ProxyInv, TargetInv, HeaderInv, ServedIsHeld, Spawned,
     FakeNamesItsAddress, vars, config, mainVars, proxyVars, rescanVars, setupVars

\* The phases of the main task, the proxy it holds, the target and its announcements
\* stay in step in every reachable state: the proxy held is the last one spawned.
THEOREM Invariance == Spec => []IInv
<1>1. IInv /\ [Next]_vars => IInv'
  BY PhaseStep, ProxyStep, TargetStep, HeaderStep, StutterIInv DEF IInv
<1>2. QED
  BY InitIInv, <1>1, PTL DEF Spec

\* Whatever the user changes, no proxy serves but the last, and main holds it.
THEOREM OnlyTheLastServes == Spec => []ServedIsHeld
<1>1. IInv => ServedIsHeld
  BY DEF IInv, ProxyInv
<1>2. QED
  BY Invariance, <1>1, PTL

\* No interleaving of a rescan with a connection's setup mixes two targets.
THEOREM FakeMatches == Spec => []FakeNamesItsAddress
<1>1. IInv => FakeNamesItsAddress
  BY DEF IInv, TargetInv
<1>2. QED
  BY Invariance, <1>1, PTL

\* The dashboard shows the active target once it has drained its channel.
THEOREM HeaderMatches == Spec => []HeaderCatchesUp
<1>1. IInv => HeaderCatchesUp
  BY DEF IInv, HeaderInv, HeaderCatchesUp
<1>2. QED
  BY Invariance, <1>1, PTL
=============================================================================
