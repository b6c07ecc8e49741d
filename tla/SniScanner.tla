----------------------------- MODULE SniScanner -----------------------------
(***************************************************************************)
(* scan_sni_list: a task per hostname resolves it and spawns a probe for   *)
(* each of its addresses; all probes of all hostnames share one semaphore. *)
(* The scan awaits the hostname tasks, and each of them its probes.        *)
(***************************************************************************)
EXTENDS ScanScreen

CONSTANTS
    Hosts,   \* hostnames of the list
    HostOf   \* the hostname of each pair

ASSUME PairsAssumption == IsFiniteSet(Pairs)
ASSUME HostsAssumption == "scan" \notin Hosts
ASSUME HostOfAssumption == HostOf \in [Pairs -> Hosts]

VARIABLE host   \* where the task of each hostname is

PairsOf(h) == {t \in Pairs : HostOf[t] = h}

SniInit == host = [h \in Hosts |-> "resolving"]

\* The first resolver with an answer wins; none, or a timeout, gives no address.
Resolve(h, found) ==
    /\ host[h] = "resolving"
    /\ host' = [host EXCEPT ![h] = IF found = {} THEN "done" ELSE "awaiting"]
    /\ IF found = {}
       THEN senders' = senders \ {h} /\ UNCHANGED task
       ELSE Spawn(found)
    /\ UNCHANGED <<chan, scan, returned>>

JoinProbes(h) ==
    /\ host[h] = "awaiting"
    /\ \A t \in PairsOf(h) : ~Live(t)
    /\ host' = [host EXCEPT ![h] = "done"]
    /\ senders' = senders \ {h}
    /\ UNCHANGED <<task, chan, scan, returned>>

ProbePair(t) ==
    /\ StartProbe(t) \/ Exit(t) \/ Report(t)
    /\ UNCHANGED <<host, scan, returned>>

Probed(t) == task[t] = "done"

\* What the tasks return, joined in the order of the list.
Results ==
    LET done == Those(SetToSeq(Pairs), Probed)
    IN  [i \in DOMAIN done |-> Entry(done[i])]

\* The pairs of www.hcaptcha.com come first, however they scored.
SniRanked(s) == Ranked(Those(s, IsSpecial)) \o Ranked(Those(s, IsOrdinary))

ReturnPairs ==
    /\ scan = "receiving"
    /\ \A h \in Hosts : host[h] = "done"
    /\ Return(SniRanked(Results))
    /\ UNCHANGED <<task, chan, host>>

SniSteps ==
    \/ \E h \in Hosts : JoinProbes(h) \/ \E found \in SUBSET PairsOf(h) : Resolve(h, found)
    \/ \E t \in Pairs : ProbePair(t)
    \/ ReturnPairs
=============================================================================
