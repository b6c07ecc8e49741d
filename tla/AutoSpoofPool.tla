---------------------------- MODULE AutoSpoofPool -----------------------------
(***************************************************************************)
(* The auto_spoof mode: run_auto_spoof_proxy spreads connections over the  *)
(* pairs of an address of the pool and a domain, and                       *)
(* auto_spoof_cycle_manager judges the pairs by their downloads.           *)
(***************************************************************************)
EXTENDS IpPool

CONSTANTS
    Domains,    \* the selected domains
    DropCounts, \* values of AUTO_SPOOF_DROP_COUNT
    MaxBytes    \* bound on a byte counter

ASSUME DomainsAssumption == IsFiniteSet(Domains) /\ Domains # {}
ASSUME DropCountsAssumption == DropCounts \subseteq Nat
ASSUME MaxBytesAssumption == MaxBytes \in Nat \ {0}

VARIABLES
    drop_count, \* the configured one, read once
    used,       \* addresses a connection was routed to, in the keys of the counters
    saved       \* the addresses in the keys of saved_upload

trafficVars == <<drop_count, used, saved>>
vars == <<poolVars, mgrVars, picking, trafficVars>>

PoolPairs == active \X Domains

Init ==
    /\ PoolInit
    /\ mgr = "check"
    /\ drop_count \in DropCounts
    /\ used = {} /\ saved = {}

-----------------------------------------------------------------------------
(* Traffic                                                                 *)

\* A client is accepted and given the next pair of the round robin, whether or not an
\* address is pinned.  With an empty pool the client is dropped.  The keys are
\* inserted a little after the lock is released: they may be here too early.
Accept ==
    /\ \E ip \in active : used' = used \union {ip}
    /\ UNCHANGED poolVars /\ UNCHANGED mgrVars
    /\ UNCHANGED <<picking, drop_count, saved>>

\* The downloads the manager may load, one counter after the other.  Relays store
\* their totals at any time, and a reset lies between any two verdicts: only an address
\* without connections is sure of its zeros.
Counters ==
    {b \in [PoolPairs -> 0 .. MaxBytes] : \A pair \in PoolPairs : b[pair] > 0 => pair[1] \in used}

-----------------------------------------------------------------------------
(* auto_spoof_cycle_manager                                                *)

\* drop_count of the pool's pairs, those with the smallest downloads, or all.
Lowest(bytes) ==
    {T \in SomeOf(PoolPairs, drop_count) :
        \A x \in T, y \in PoolPairs \ T : bytes[x] <= bytes[y]}

AnyHasBytes(bytes) == \E pair \in PoolPairs : bytes[pair] > 0

AddressesOf(T) == {pair[1] : pair \in T}

\* Mutant: pairs are dropped although none has carried a byte.
DoomedUnused(bytes) == {AddressesOf(T) : T \in Lowest(bytes)}

\* Mutant: an address stays while one of its pairs does.
DoomedWhole(bytes) ==
    IF AnyHasBytes(bytes)
    THEN {{ip \in active : {ip} \X Domains \subseteq T} : T \in Lowest(bytes)}
    ELSE {{}}

\* The addresses of the drop_count pairs with the smallest downloads.
Doomed(bytes) ==
    IF AnyHasBytes(bytes) THEN {AddressesOf(T) : T \in Lowest(bytes)} ELSE {{}}

\* An empty pool goes back to the top of the loop at once.
Evaluate ==
    /\ Manages("evaluate", IF active = {} THEN "check" ELSE "remove")
    /\ IF active = {} THEN UNCHANGED dead
       ELSE \E bytes \in Counters : dead' \in Doomed(bytes)
    /\ UNCHANGED <<active, pre, scan>> /\ UNCHANGED trafficVars

\* The pool is taken and refilled only if an address is to go.
Spare ==
    /\ Manages("remove", "save") /\ dead = {}
    /\ UNCHANGED <<active, pre, scan, dead>>

\* reset_cycle_counters saves every counter before its reset: Counters is about what
\* relays store after it.
SaveAndReset ==
    /\ Manages("save", "respawn")
    /\ saved' = saved \union used
    /\ UNCHANGED <<active, pre, scan, dead, drop_count, used>>

Manager ==
    \/ Evaluate \/ SaveAndReset
    \/ /\ \/ CheckFixed("check", "collect") \/ Collect("collect", "asleep")
          \/ CheckFixed("asleep", "collect_again")
          \/ Collect("collect_again", "evaluate")
          \/ Spare
          \/ dead # {} /\ Remove("remove", "replace")
          \/ Replace("replace", "save")
          \/ Respawn("respawn", "check")
       /\ UNCHANGED trafficVars

-----------------------------------------------------------------------------
\* The user opens the list of the pairs saved at the end of a cycle.
OpenPicker ==
    /\ picking = None
    /\ picking' \in saved
    /\ UNCHANGED poolVars /\ UNCHANGED mgrVars /\ UNCHANGED trafficVars

\* The list is left without a choice.
CancelPicker ==
    /\ picking # None /\ picking' = None
    /\ UNCHANGED poolVars /\ UNCHANGED mgrVars /\ UNCHANGED trafficVars

User == OpenPicker \/ CancelPicker \/ (Fix /\ UNCHANGED trafficVars)

Next == \/ Accept \/ Manager \/ User
        \/ ScanFinishes /\ UNCHANGED trafficVars

\* The manager's task is polled and its sleep ends; a scan ends, and not always
\* without any reachable address.  No client has to come.
Fairness ==
    /\ WF_vars(Manager)
    /\ WF_vars(ScanFinishes /\ UNCHANGED trafficVars)
    /\ SF_vars(ScanFinishes /\ scan'.ips # {} /\ UNCHANGED trafficVars)

Spec == Init /\ [][Next]_vars
FairSpec == Spec /\ Fairness
-----------------------------------------------------------------------------
TypeOK ==
    /\ PoolTypeOK
    /\ mgr \in {"check", "collect", "asleep", "collect_again", "evaluate", "remove",
                "replace", "save", "respawn", "stopped"}
    /\ drop_count \in DropCounts
    /\ used \subseteq Ips /\ saved \subseteq Ips

\* No address is dropped before any pair has carried a connection, whatever is
\* reset between the cycles.
NoDropBeforeTraffic == dead # {} => used # {}

\* AUTO_SPOOF_DROP_COUNT counts pairs, and the manager drops every address on one of
\* them: a verdict that drops anything costs no more addresses than pairs were to go,
\* nor fewer than it takes to hold them, whatever the domains share and however small
\* the pool.
DropsAreBounded ==
    [][mgr = "evaluate" /\ dead' # {} =>
         /\ Cardinality(dead') <= drop_count
         /\ Smaller(drop_count, Cardinality(PoolPairs)) <=
              Cardinality(dead') * Cardinality(Domains)]_vars

\* A pin stops the manager.
PinStopsManager == fixed # None ~> mgr = "stopped"

(* What comments of the code claim and the code does not keep              *)

\* proxy.rs: "dropping N pairs means removing `ceil(N / domains)` IPs from the pool".
\* Known not to hold: the N pairs may be of up to N addresses.
DropsAsDocumented ==
    [][mgr = "evaluate" /\ dead' # {} =>
         (Cardinality(dead') - 1) * Cardinality(Domains) < drop_count]_vars

\* proxy.rs: auto_spoof "maintains up to MAX_IP concurrent outbound connections".
\* An empty pool is refilled, unless the user pins an address.  Known not to
\* hold: with an empty pool the manager spawns no scan.
PoolRefills == active = {} ~> active # {} \/ fixed # None
=============================================================================
