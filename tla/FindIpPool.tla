------------------------------ MODULE FindIpPool ------------------------------
(***************************************************************************)
(* The find_ip mode: run_find_ip_proxy routes connections over the pool    *)
(* and find_ip_cycle_manager judges the addresses by their bytes.  Uploads *)
(* and downloads are one number per address, as the manager adds them.     *)
(***************************************************************************)
EXTENDS IpPool

CONSTANTS
    DropCount, \* FIND_IP_DROP_COUNT
    MaxBytes   \* bound on a byte counter

ASSUME DropCountAssumption == DropCount \in Nat
ASSUME MaxBytesAssumption == MaxBytes \in Nat \ {0}

VARIABLES
    connected, \* addresses with connection_count > 0
    chosen,    \* the address of the connection being accepted, not yet counted
    astray,    \* history: connections counted elsewhere since the last pin, up to 2
    slept      \* history: the pool when the manager last went to sleep

loopVars == <<connected, chosen, astray>>
vars == <<poolVars, mgrVars, picking, loopVars, slept>>

Init ==
    /\ PoolInit
    /\ mgr = "collect"
    /\ connected = {} /\ chosen = None /\ astray = 0
    /\ slept = {}

-----------------------------------------------------------------------------
(* Traffic                                                                 *)

\* Mutant: the pin holds for as long as the pool has the pinned address.
next_ip_if_active == IF fixed \in active THEN {fixed} ELSE active

\* next_ip: the pinned address, whether or not the pool has it, or the round robin's.
next_ip == IF fixed # None THEN {fixed} ELSE active

\* A client is accepted and given an address under the pool's lock; without an
\* address it is dropped.
ChooseAddress ==
    /\ chosen = None
    /\ chosen' \in next_ip
    /\ UNCHANGED poolVars /\ UNCHANGED mgrVars /\ UNCHANGED <<picking, connected, astray, slept>>

\* Its connection is counted once the lock is released, and the relay spawned.
CountConnection ==
    /\ chosen # None /\ chosen' = None
    /\ connected' = connected \union {chosen}
    /\ astray' = IF fixed \in {None, chosen} THEN astray ELSE Smaller(2, astray + 1)
    /\ UNCHANGED poolVars /\ UNCHANGED mgrVars /\ UNCHANGED <<picking, slept>>

\* The bytes the manager may load, one counter after the other.  Relays store into the
\* counters of their address at any time, also when it has left the pool, and each
\* cycle begins with a reset: only an address without connections is sure of its 0.
Counters == {b \in [Ips -> 0 .. MaxBytes] : \A ip \in Ips \ connected : b[ip] = 0}

-----------------------------------------------------------------------------
(* find_ip_cycle_manager                                                   *)

\* n of the addresses with the fewest bytes, or all.
Lowest(bytes, n) ==
    {T \in SomeOf(active, n) : \A x \in T, y \in active \ T : bytes[x] <= bytes[y]}

Idle(bytes) == {ip \in active : bytes[ip] = 0}

\* The addresses to drop: none before the first connection, the idle ones if there
\* are any, and else the DropCount with the fewest bytes.
Doomed(bytes) ==
    IF connected \intersect active = {} THEN {{}}
    ELSE IF Idle(bytes) = {} /\ DropCount > 0 THEN Lowest(bytes, DropCount)
    ELSE {Idle(bytes)}

\* Mutant: an empty pool skips the rest of the cycle.
EvaluateUnlessEmpty ==
    /\ Manages("evaluate", IF active = {} THEN "collect" ELSE "remove")
    /\ \E bytes \in Counters : dead' \in Doomed(bytes)
    /\ UNCHANGED <<active, pre, scan, slept>>

Evaluate ==
    /\ Manages("evaluate", "remove")
    /\ \E bytes \in Counters : dead' \in Doomed(bytes)
    /\ UNCHANGED <<active, pre, scan, slept>>

\* save_bytes, reset_all_counters and update_cycle_counts: Counters is about what
\* relays store after it.  The counts of connections are not reset.
SaveAndReset ==
    /\ Manages("save", "respawn")
    /\ UNCHANGED <<active, pre, scan, dead, slept>>

FallAsleep == Collect("collect", "asleep") /\ slept' = active'

\* The history is forgotten with the verdict.
Refill == Replace("replace", "save") /\ slept' = {}

\* Mutant: a scan that ended during the sleep is collected before the verdict.
ManagerCollectsLate ==
    /\ \/ Evaluate \/ SaveAndReset \/ FallAsleep \/ Refill
       \/ /\ \/ CheckFixed("asleep", "collect_again")
             \/ Collect("collect_again", "evaluate")
             \/ Remove("remove", "replace") \/ Respawn("respawn", "collect")
          /\ UNCHANGED slept
    /\ UNCHANGED loopVars

Manager ==
    /\ \/ Evaluate \/ SaveAndReset \/ FallAsleep \/ Refill
       \/ /\ \/ CheckFixed("asleep", "evaluate") \/ Remove("remove", "replace")
             \/ Respawn("respawn", "collect")
          /\ UNCHANGED slept
    /\ UNCHANGED loopVars

-----------------------------------------------------------------------------
\* The user opens the list of all addresses that are or were used; whatever key
\* leaves it chooses one.
OpenPicker ==
    /\ picking = None
    /\ picking' \in connected \union active
    /\ UNCHANGED poolVars /\ UNCHANGED mgrVars /\ UNCHANGED astray

Pin == Fix /\ astray' = 0

User ==
    /\ OpenPicker \/ Pin
    /\ UNCHANGED <<connected, chosen, slept>>

EndScan ==
    /\ ScanFinishes
    /\ UNCHANGED loopVars /\ UNCHANGED slept

Next == ChooseAddress \/ CountConnection \/ Manager \/ User \/ EndScan

\* The manager's task is polled and its sleep ends; a scan ends, and not always
\* without any reachable address.  No client has to come.
Fairness ==
    /\ WF_vars(Manager)
    /\ WF_vars(EndScan)
    /\ SF_vars(EndScan /\ scan'.ips # {})

Spec == Init /\ [][Next]_vars
FairSpec == Spec /\ Fairness
-----------------------------------------------------------------------------
TypeOK ==
    /\ PoolTypeOK
    /\ mgr \in {"collect", "asleep", "evaluate", "remove", "replace", "save",
                "respawn", "stopped"}
    /\ connected \subseteq Ips
    /\ chosen \in Ips \union {None}
    /\ astray \in 0 .. 2
    /\ slept \subseteq Ips

\* After a pin at most one connection goes elsewhere, the one that had its address
\* already, even though the cycle under way may take the pinned address out of the
\* pool again and fill the pool with others.
PinIsObeyed == astray <= 1

\* Until the user pins an address, none is dropped that was not in the pool for the
\* whole sleep before the verdict: what a scan or the cache adds is never judged by
\* the zeros of a cycle it had no part in.
ServedACycle == fixed = None => dead \subseteq slept

\* An empty pool is refilled, unless the user pins an address.
PoolRefills == active = {} ~> active # {} \/ fixed # None
=============================================================================
