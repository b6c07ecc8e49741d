-------------------------------- MODULE IpPool --------------------------------
(***************************************************************************)
(* The pool of upstream addresses of the find_ip and auto_spoof modes, and *)
(* the parts their cycle managers share: the background scan, the cache of *)
(* scanned candidates and the user's pin.  The pool is behind an RwLock:   *)
(* each step takes it once.  FindIpPool and AutoSpoofPool add the managers *)
(* and the accept loops.  The active addresses are a set: their order only *)
(* decides which of them the round robin picks next and how a sort breaks  *)
(* ties, and both are left open here.                                      *)
(***************************************************************************)
EXTENDS Naturals, FiniteSets

CONSTANTS
    Ips,       \* candidate_ips
    Score,     \* what a probe of each address scores
    MaxIp,     \* MAX_IP, MAX_IP_AUTO_SPOOF
    ScanLimit, \* candidates of one background scan, 20 * MaxIp in the code
    None       \* no pinned address

ASSUME IpsAssumption == IsFiniteSet(Ips) /\ Ips # {}
ASSUME ScoreAssumption == Score \in [Ips -> Nat]
ASSUME MaxIpAssumption == MaxIp \in Nat \ {0}
ASSUME ScanLimitAssumption == ScanLimit \in Nat \ {0}
ASSUME NoneAssumption == None \notin Ips

VARIABLES
    active,  \* IpPool::active
    fixed,   \* IpPool::fixed_ip
    pre,     \* pre_scanned, sorted by score
    scan,    \* pending_scan
    mgr,     \* program counter of the cycle manager
    dead,    \* the addresses it has decided to remove
    picking  \* the address the user is about to pin

poolVars == <<active, fixed, pre>>
mgrVars == <<scan, mgr, dead>>

NoScan == [status |-> "none", ips |-> {}]

Smaller(m, n) == IF m < n THEN m ELSE n

\* The first n of S to arrive, or all of them, in an order nothing determines.
SomeOf(S, n) == {T \in SUBSET S : Cardinality(T) = Smaller(n, Cardinality(S))}

\* n of the highest-scored of S, or all of them.
BestOf(S, n) ==
    {T \in SomeOf(S, n) : \A x \in T, y \in S \ T : Score[x] >= Score[y]}

\* Places below the limit.
Room(pool) == IF Cardinality(pool) < MaxIp THEN MaxIp - Cardinality(pool) ELSE 0

\* spawn_bg_scan: a shuffled, truncated list without the active addresses.
Scans == {[status |-> "running", ips |-> S \ active] : S \in SomeOf(Ips, ScanLimit)}

\* The pool starts with the best of a scan the user may have cut short, and the
\* manager with a scan of its own.
PoolInit ==
    /\ active \in {S \in SUBSET Ips : S # {} /\ Cardinality(S) <= MaxIp}
    /\ fixed = None /\ pre = {} /\ dead = {} /\ picking = None
    /\ scan \in Scans

Manages(from, to) == mgr = from /\ mgr' = to /\ UNCHANGED <<fixed, picking>>

-----------------------------------------------------------------------------
(* The steps both managers take                                            *)

\* Mutant: a result is added although the pool is full.
CollectAll(from, to) ==
    /\ Manages(from, to)
    /\ scan.status = "finished" /\ scan' = NoScan
    /\ active' = active \union scan.ips
    /\ UNCHANGED <<pre, dead>>

\* The results of a finished scan, in the order the probes completed: into the
\* pool while there is room, into the cache otherwise.
Collect(from, to) ==
    /\ Manages(from, to)
    /\ \/ /\ scan.status = "finished"
          /\ scan' = NoScan
          /\ \E added \in SomeOf(scan.ips \ active, Room(active)) :
                /\ active' = active \union added
                /\ pre' = pre \union (scan.ips \ added)
       \/ /\ scan.status # "finished"
          /\ UNCHANGED <<scan, active, pre>>
    /\ UNCHANGED dead

\* Mutant: is_fixed() is not read.
CheckNothing(from, to) ==
    Manages(from, to) /\ UNCHANGED <<active, pre, scan, dead>>

\* The sleep is over and is_fixed() is read.
CheckFixed(from, to) ==
    /\ Manages(from, IF fixed = None THEN to ELSE "stopped")
    /\ UNCHANGED <<active, pre, scan, dead>>

\* remove_ip for each dead address.
Remove(from, to) ==
    /\ Manages(from, to)
    /\ active' = active \ dead
    /\ UNCHANGED <<pre, scan, dead>>

\* Candidates of the cache, best first, fill the pool.
Replace(from, to) ==
    /\ Manages(from, to)
    /\ \E added \in BestOf(pre \ active, Room(active)) :
          /\ active' = active \union added
          /\ pre' = pre \ added
    /\ dead' = {}
    /\ UNCHANGED scan

\* The next scan, if the last one has been collected.
Respawn(from, to) ==
    /\ Manages(from, to)
    /\ IF scan.status = "none" THEN scan' \in Scans ELSE UNCHANGED scan
    /\ UNCHANGED <<active, pre, dead>>

\* scan_ip_list reports the addresses that accept a TCP connection.
ScanFinishes ==
    /\ scan.status = "running"
    /\ \E reachable \in SUBSET scan.ips :
          scan' = [status |-> "finished", ips |-> reachable]
    /\ UNCHANGED poolVars /\ UNCHANGED <<mgr, dead, picking>>

-----------------------------------------------------------------------------
(* The user                                                                *)

\* fix_ip, some time after the list to choose from was read.
Fix ==
    /\ picking # None /\ picking' = None
    /\ fixed' = picking /\ active' = {picking}
    /\ UNCHANGED pre /\ UNCHANGED mgrVars

-----------------------------------------------------------------------------
PoolTypeOK ==
    /\ active \subseteq Ips
    /\ fixed \in Ips \union {None}
    /\ pre \subseteq Ips
    /\ scan \in [status : {"none", "running", "finished"}, ips : SUBSET Ips]
    /\ dead \subseteq Ips
    /\ picking \in Ips \union {None}

\* The pool never exceeds MAX_IP, although it is filled from scan results, from
\* the cache and by the user, with the lock released in between.
PoolIsBounded == Cardinality(active) <= MaxIp

(* What a comment of the code claims and the code does not keep            *)

\* proxy.rs: a "fixed" pool means that the "user pinned an IP" and "stops the
\* cycle manager".  Once it has stopped the pool is what the user pinned.
\* Known not to hold in either mode: a pin between Evaluate and Remove is removed,
\* and Replace adds others.
PinIsKept == mgr = "stopped" => active = {fixed}
=============================================================================
