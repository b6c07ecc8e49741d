-------------------------------- MODULE Rescan --------------------------------
(***************************************************************************)
(* The active target of the serving modes, which a background scan replaces*)
(* while connections are set up with it and a dashboard shows it.  The     *)
(* task scans again and again; only the head of each scan's list counts.   *)
(* In sni_spoof a target is a hostname with one of its addresses and must  *)
(* score enough; in the IP modes it is an address and its score is not     *)
(* looked at.                                                              *)
(***************************************************************************)
EXTENDS Naturals, Sequences

CONSTANTS
    Targets,   \* the (hostname, address) pairs a scan may rank first
    SniOf,     \* hostname of a pair
    IpOf,      \* address of a pair
    MaxEvents  \* bound on target changes not shown yet

ASSUME MaxEventsAssumption == MaxEvents \in Nat \ {0}

VARIABLES
    active,   \* the shared target
    rescan,   \* the task: off, asleep (or scanning), scanned, announcing
    best,     \* the head of the last scan's list
    events,   \* target changes on their way to the dashboard
    shown,    \* the dashboard's header
    setup,    \* the target of the connection being set up, as a set
    used      \* what connections dialled: a hostname to fake and an address

rescanVars == <<active, rescan, best, events, shown>>
setupVars == <<setup, used>>

RescanInit ==
    /\ active \in Targets /\ shown = active /\ best = active
    /\ rescan = "off" /\ events = <<>>
    /\ setup = {} /\ used = {}

\* A scan that fails or finds nothing leaves the task asleep.
EndRescan ==
    /\ rescan = "asleep" /\ rescan' = "scanned"
    /\ best' \in Targets
    /\ UNCHANGED <<active, events, shown>>

\* The score of the head, good or not, stands for the comparison with
\* SNI_SWITCH_MIN_SCORE; that of the active target plays no part.
Switch ==
    /\ rescan = "scanned" /\ best # active
    /\ active' = best /\ rescan' = "announcing"
    /\ UNCHANGED <<best, events, shown>>

Keep(scored) ==
    /\ rescan = "scanned" /\ rescan' = "asleep"
    /\ best = active \/ scored
    /\ UNCHANGED <<active, best, events, shown>>

\* Mutant: the dashboard is only told when it has shown the last change.
AnnounceOnce(headless) ==
    /\ rescan = "announcing" /\ rescan' = "asleep"
    /\ Len(events) < MaxEvents
    /\ events' = IF headless \/ events # <<>> THEN events ELSE Append(events, best)
    /\ UNCHANGED <<active, best, shown>>

Announce(headless) ==
    /\ rescan = "announcing" /\ rescan' = "asleep"
    /\ Len(events) < MaxEvents
    /\ events' = IF headless THEN events ELSE Append(events, best)
    /\ UNCHANGED <<active, best, shown>>

\* The dashboard applies every event it finds.
ShowTarget ==
    /\ events # <<>>
    /\ shown' = events[Len(events)] /\ events' = <<>>
    /\ UNCHANGED <<active, rescan, best>>

-----------------------------------------------------------------------------
(* The accept loop reads the target once for each connection, whose task   *)
(* connects later                                                          *)

AcceptConnection ==
    /\ setup = {}
    /\ setup' = {active}
    /\ UNCHANGED used

\* Mutant: the hostname to fake is read again when the task connects.
DialReread ==
    /\ \E t \in setup : used' = used \union {[sni |-> SniOf[active], ip |-> IpOf[t]]}
    /\ setup' = {}

Dial ==
    /\ \E t \in setup : used' = used \union {[sni |-> SniOf[t], ip |-> IpOf[t]]}
    /\ setup' = {}

-----------------------------------------------------------------------------
\* A connection fakes a hostname of the address it goes to, however a rescan and
\* its setup interleave: the two are replaced and read as one.
FakeNamesItsAddress ==
    \A u \in used : \E t \in Targets : u = [sni |-> SniOf[t], ip |-> IpOf[t]]
=============================================================================
