------------------------------- MODULE Session -------------------------------
(***************************************************************************)
(* One run of the program in a mode that has a proxy.  sni_spoof, ip_bypass*)
(* and ip_bypass_plus choose a target, open an interceptor if they need    *)
(* one, and serve until stopped.  find_ip and auto_spoof choose a domain   *)
(* and an IP range, scan it and serve, and start over from their dashboard *)
(* with a new proxy on the same port.  Without a screen the choices are    *)
(* made for the user and the main task waits on its proxy instead.         *)
(*                                                                         *)
(* What connections, pools, scans and interceptors do is the matter of the *)
(* other modules.                                                          *)
(***************************************************************************)
EXTENDS Rescan, FiniteSets

CONSTANTS
    Modes,       \* the modes to start in
    MaxProxies   \* bound on the proxies one run starts

Serving == {"sni_spoof", "ip_bypass", "ip_bypass_plus"}
Ranging == {"find_ip", "auto_spoof"}

ASSUME ModesAssumption == Modes \subseteq Serving \union Ranging
ASSUME MaxProxiesAssumption == MaxProxies \in Nat \ {0}

Proxies == 1..MaxProxies

VARIABLES
    mode, headless,
    fragments,   \* BYPASS_METHOD is tls_frag
    rescans,     \* RESCAN_INTERVAL_SECS is not zero
    taken,       \* another process listens on the port
    pc,          \* where the main task is
    engine,      \* the interceptor's thread: none, reading, ended
    signalled,   \* SIGTERM (Ctrl-C where there are no signals) was received
    result,      \* how the process ended
    proxy,       \* each proxy: none, spawned, listening, failed, aborted, gone
    handle,      \* the proxy the main task holds, as a set
    managers     \* proxies whose cycle manager runs

config == <<mode, headless, fragments, rescans, taken>>
mainVars == <<pc, signalled, result>>
proxyVars == <<proxy, handle, managers>>
vars == <<config, mainVars, engine, proxyVars, rescanVars, setupVars>>

Intercepts == mode \in {"sni_spoof", "ip_bypass_plus"} /\ ~fragments

Spawned == {p \in Proxies : proxy[p] # "none"}

Init ==
    /\ mode \in Modes /\ headless \in BOOLEAN /\ taken \in BOOLEAN
    /\ fragments \in BOOLEAN /\ rescans \in BOOLEAN
    /\ pc = "starting" /\ signalled = FALSE /\ result = "none"
    /\ engine = "none"
    /\ proxy = [p \in Proxies |-> "none"] /\ handle = {} /\ managers = {}
    /\ RescanInit

MainOnly == UNCHANGED <<config, engine>> /\ UNCHANGED rescanVars /\ UNCHANGED setupVars

GoTo(from, to) ==
    /\ pc = from /\ pc' = to
    /\ UNCHANGED <<signalled, result>>

\* Returning from main drops the runtime with its tasks, and the threads.
EndWith(outcome) ==
    /\ pc' = "ended" /\ result' = outcome
    /\ UNCHANGED signalled

-----------------------------------------------------------------------------
(* Starting up                                                             *)

\* The configuration is valid and interception, if needed, is permitted.
Check == GoTo("starting", "choosing") /\ UNCHANGED proxyVars /\ MainOnly

\* Until it serves, main ends on the first error: of the configuration, of access,
\* of a scan that finds nothing, of an unsuitable target, of the interceptor.
Fail ==
    /\ pc \in {"starting", "choosing", "ranging", "scanning", "arming"}
    /\ EndWith("error")
    /\ UNCHANGED proxyVars /\ MainOnly

\* The IP modes start their rescan before the interceptor, sni_spoof after it.
ChooseTarget ==
    /\ mode \in Serving
    /\ GoTo("choosing", "arming")
    /\ active' \in Targets /\ shown' = active'
    /\ rescan' = IF rescans /\ mode # "sni_spoof" THEN "asleep" ELSE "off"
    /\ UNCHANGED <<best, events>> /\ UNCHANGED setupVars
    /\ UNCHANGED <<config, engine>> /\ UNCHANGED proxyVars

Serve(p) ==
    /\ proxy' = [proxy EXCEPT ![p] = "spawned"]
    /\ handle' = {p}
    /\ UNCHANGED managers

Arm ==
    /\ GoTo("arming", IF headless THEN "waiting" ELSE "dashboard")
    /\ engine' = IF Intercepts THEN "reading" ELSE "none"
    /\ rescan' = IF rescans /\ mode = "sni_spoof" THEN "asleep" ELSE rescan
    /\ Serve(1)
    /\ UNCHANGED <<active, best, events, shown, config>> /\ UNCHANGED setupVars

-----------------------------------------------------------------------------
(* The loops of find_ip and auto_spoof                                     *)

ChooseDomain ==
    /\ mode \in Ranging
    /\ GoTo("choosing", "ranging") /\ UNCHANGED proxyVars /\ MainOnly

ChooseRange == GoTo("ranging", "scanning") /\ UNCHANGED proxyVars /\ MainOnly

\* Where a change of range leads: auto_spoof scans for its domains again.
Reranged == IF mode = "find_ip" THEN "ranging" ELSE "choosing"

LeaveScan == ~headless /\ GoTo("scanning", Reranged) /\ UNCHANGED proxyVars /\ MainOnly

\* abort(): a proxy that has not begun never does; one that listens is dropped later.
Stopped(ps) ==
    [p \in Proxies |-> IF p \in ps /\ proxy[p] = "spawned" THEN "gone"
                       ELSE IF p \in ps /\ proxy[p] = "listening" THEN "aborted"
                       ELSE proxy[p]]

\* "Stop old proxy if running.", then the new one.  Nothing waits for the old one to
\* be dropped.
StartProxy ==
    /\ GoTo("scanning", IF headless THEN "waiting" ELSE "dashboard")
    /\ \E p \in Proxies :
        /\ Spawned = 1..(p - 1)
        /\ proxy' = [Stopped(handle) EXCEPT ![p] = "spawned"]
        /\ handle' = {p}
    /\ UNCHANGED managers /\ MainOnly

\* Mutant: the handle is dropped, which detaches the task.
DetachProxy ==
    /\ handle' = {}
    /\ UNCHANGED <<proxy, managers>>

AbortProxy ==
    /\ proxy' = Stopped(handle) /\ handle' = {}
    /\ UNCHANGED managers

ChangeRange ==
    /\ mode \in Ranging
    /\ GoTo("dashboard", Reranged) /\ AbortProxy /\ MainOnly

ChangeDomain ==
    /\ mode = "find_ip"
    /\ GoTo("dashboard", "choosing") /\ AbortProxy /\ MainOnly

\* Choosing an address to pin, or not; the proxy serves on.
Pick ==
    /\ mode \in Ranging
    /\ GoTo("dashboard", "picking") /\ UNCHANGED proxyVars /\ MainOnly

Picked == GoTo("picking", "dashboard") /\ UNCHANGED proxyVars /\ MainOnly

-----------------------------------------------------------------------------
(* Serving and stopping                                                    *)

Quit ==
    /\ pc = "dashboard"
    /\ EndWith("ok")
    /\ AbortProxy /\ MainOnly

\* The dashboard drains its channel; those of the ranging modes show no target.
Refresh ==
    /\ pc = "dashboard" /\ mode \in Serving
    /\ ShowTarget
    /\ UNCHANGED setupVars /\ UNCHANGED <<config, engine>>
    /\ UNCHANGED proxyVars /\ UNCHANGED mainVars

\* A signal handler is installed only where a serving mode waits.
Signal ==
    /\ headless /\ ~signalled /\ pc # "ended"
    /\ signalled' = TRUE
    /\ IF pc = "waiting" /\ mode \in Serving
       THEN UNCHANGED <<pc, result>>
       ELSE pc' = "ended" /\ result' = "killed"
    /\ UNCHANGED proxyVars /\ MainOnly

\* Mutant: nothing tells main that the interceptor has ended.
WakeWithoutEngine ==
    /\ pc = "waiting"
    /\ \/ mode \in Serving /\ signalled /\ EndWith("ok")
       \/ (\E p \in handle : proxy[p] = "failed") /\ EndWith("error")
    /\ AbortProxy /\ MainOnly

\* Of the branches that are ready, any may be taken.
Wake ==
    /\ pc = "waiting"
    /\ \/ mode \in Serving /\ signalled /\ EndWith("ok")
       \/ (\E p \in handle : proxy[p] = "failed") /\ EndWith("error")
       \/ mode \in Serving /\ engine = "ended" /\ EndWith("error")
    /\ AbortProxy /\ MainOnly

-----------------------------------------------------------------------------
(* The tasks and the thread beside main                                    *)

Beside == pc # "ended" /\ UNCHANGED config /\ UNCHANGED mainVars

PortIsHeld == taken \/ \E p \in Proxies : proxy[p] \in {"listening", "aborted"}

\* The manager of find_ip and auto_spoof is spawned once the port is bound.
Bind(p) ==
    /\ proxy[p] = "spawned"
    /\ proxy' = [proxy EXCEPT ![p] = IF PortIsHeld THEN "failed" ELSE "listening"]
    /\ managers' = IF mode \in Ranging /\ ~PortIsHeld THEN managers \union {p} ELSE managers
    /\ UNCHANGED handle
    /\ UNCHANGED engine /\ UNCHANGED rescanVars /\ UNCHANGED setupVars /\ Beside

\* The accept loop is dropped and the port free; its manager is a task of its own.
Vanish(p) ==
    /\ proxy[p] = "aborted" /\ proxy' = [proxy EXCEPT ![p] = "gone"]
    /\ UNCHANGED <<handle, managers>>
    /\ UNCHANGED engine /\ UNCHANGED rescanVars /\ UNCHANGED setupVars /\ Beside

EngineEnds ==
    /\ engine = "reading" /\ engine' = "ended"
    /\ UNCHANGED proxyVars /\ UNCHANGED rescanVars /\ UNCHANGED setupVars /\ Beside

RescanStep ==
    /\ EndRescan \/ Switch \/ Keep(mode = "sni_spoof") \/ Announce(headless)
    /\ UNCHANGED setupVars /\ UNCHANGED engine /\ UNCHANGED proxyVars /\ Beside

Connect ==
    /\ mode \in Serving /\ proxy[1] = "listening"
    /\ AcceptConnection \/ Dial
    /\ UNCHANGED rescanVars /\ UNCHANGED engine /\ UNCHANGED proxyVars /\ Beside

ProxyTask == \E p \in Proxies : Bind(p) \/ Vanish(p)

Startup == Check \/ Fail \/ ChooseTarget \/ Arm \/ ChooseDomain \/ ChooseRange \/ StartProxy

User == LeaveScan \/ ChangeRange \/ ChangeDomain \/ Pick \/ Picked \/ Quit

Next ==
    \/ Startup \/ User \/ Refresh \/ Signal \/ Wake
    \/ ProxyTask \/ EngineEnds \/ RescanStep \/ Connect

Spec == Init /\ [][Next]_vars

\* The runtime polls its tasks and main its futures; nothing makes the user act.
FairSpec == Spec /\ WF_vars(Wake) /\ WF_vars(ProxyTask)

-----------------------------------------------------------------------------
\* Without a screen the process never goes on with something dead: a signal, a
\* proxy that could not listen, an interceptor that stopped, each ends it.
HeadlessStops ==
    pc = "waiting" /\ (signalled \/ engine = "ended" \/ (\E p \in handle : proxy[p] = "failed"))
        ~> pc = "ended"

\* Once every announced change has been shown the header names the active target,
\* also when the first changes came before the dashboard opened.
HeaderCatchesUp ==
    pc = "dashboard" /\ rescan # "announcing" /\ events = <<>> => shown = active

\* However often the range or the domain is changed, only the last proxy started
\* serves, and the main task holds it; every other has been told to stop, or none
\* would ever tell it.
ServedIsHeld ==
    /\ \A p \in Proxies : proxy[p] \in {"spawned", "listening"} => handle = {p}
    /\ \A p \in handle : Spawned = 1..p

(* What comments of the code claim and the code does not keep              *)

\* Each proxy a run starts finds the port free of the one before, as "Stop old proxy
\* if running." has it.  Known not to hold: nothing waits for an aborted accept loop
\* to be dropped.  The user's choices and the scan in between take longer than that,
\* but no more than that is sure.
PortIsFree == \A p \in Proxies : proxy[p] = "failed" => taken

\* Every cycle manager has its proxy, as "Stop old proxy if running." says.  Known
\* not to hold: the accept loop's task is aborted, not the manager it spawned.
ManagersAreServed == \A p \in managers : proxy[p] \in {"listening", "aborted"}

\* A dashboard is about a proxy whose interceptor reads.  Known not to hold: only
\* a process without a screen learns of the end of either.
DashboardIsArmed ==
    pc = "dashboard" /\ Intercepts => engine = "reading" /\ \A p \in handle : proxy[p] # "failed"
=============================================================================
