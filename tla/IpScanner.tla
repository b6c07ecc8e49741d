------------------------------ MODULE IpScanner ------------------------------
(***************************************************************************)
(* scan_ip_list: every address of the list is connected to (phase 1); each *)
(* that answers is probed again for TLS and HTTP (phases 2 and 3) as soon  *)
(* as its result has been received, while phase 1 goes on.  The results of *)
(* phase 2 are kept by address, those of phase 1 by position.              *)
(***************************************************************************)
EXTENDS ScanScreen

CONSTANT MaxConnects   \* IP_MAX_P1_CONCURRENT

ASSUME MaxConnectsAssumption == MaxConnects \in Nat \ {0}

VARIABLES
    connect,     \* phase 1: where the task of each position is
    answered,    \* the positions whose connect succeeded
    p1,          \* p1_rx
    p2,          \* p2_rx
    p2Held,      \* the scan holds p2_tx
    tcpResults,  \* positions whose result was received, in that order
    tlsResults   \* tls_results: the last entry of each address

ipVars == <<connect, answered, p1, p2, p2Held, tcpResults, tlsResults>>

IpInit ==
    /\ connect = [s \in Slots |-> "queued"]
    /\ answered = {}
    /\ p1 = <<>> /\ p2 = <<>> /\ p2Held = TRUE
    /\ tcpResults = <<>>
    /\ tlsResults = <<>>

Connecting == {s \in Slots : connect[s] = "connecting"}

StartConnect(s) ==
    /\ connect[s] = "queued"
    /\ Cardinality(Connecting) < MaxConnects
    /\ connect' = [connect EXCEPT ![s] = "connecting"]
    /\ UNCHANGED <<answered, p1, p2, p2Held, tcpResults, tlsResults,
                   task, chan, senders, scan, returned>>

EndConnect(s, ok) ==
    /\ connect[s] = "connecting"
    /\ connect' = [connect EXCEPT ![s] = "done"]
    /\ answered' = IF ok THEN answered \union {s} ELSE answered
    /\ p1' = Append(p1, s)
    /\ UNCHANGED <<p2, p2Held, tcpResults, tlsResults,
                   task, chan, senders, scan, returned>>

\* Mutant: the count is sent before it is raised.
ReceiveConnectLate ==
    /\ scan = "receiving" /\ p1 # <<>>
    /\ tcpResults' = Append(tcpResults, Head(p1))
    /\ p1' = Tail(p1)
    /\ Send([kind |-> "tcp", tested |-> Len(tcpResults)])
    /\ scan' = IF Head(p1) \in answered THEN "spawning" ELSE scan
    /\ UNCHANGED <<connect, answered, p2, p2Held, tlsResults, task, senders,
                   returned>>

ReceiveConnect ==
    /\ scan = "receiving" /\ p1 # <<>>
    /\ tcpResults' = Append(tcpResults, Head(p1))
    /\ p1' = Tail(p1)
    /\ Send([kind |-> "tcp", tested |-> Len(tcpResults')])
    /\ scan' = IF Head(p1) \in answered THEN "spawning" ELSE scan
    /\ UNCHANGED <<connect, answered, p2, p2Held, tlsResults, task, senders,
                   returned>>

SpawnProbe ==
    /\ scan = "spawning" /\ scan' = "receiving"
    /\ Spawn({Last(tcpResults)})
    /\ UNCHANGED <<chan, returned>> /\ UNCHANGED ipVars

\* Mutant: p2_tx is kept.
KeepP2 ==
    /\ scan = "receiving" /\ p1 = <<>>
    /\ \A s \in Slots : connect[s] = "done"
    /\ scan' = "collecting"
    /\ UNCHANGED <<task, chan, senders, returned>> /\ UNCHANGED ipVars

\* p1_rx has closed: every task of phase 1 has sent and gone.
DropP2 ==
    /\ scan = "receiving" /\ p1 = <<>>
    /\ \A s \in Slots : connect[s] = "done"
    /\ scan' = "collecting"
    /\ p2Held' = FALSE
    /\ UNCHANGED <<connect, answered, p1, p2, tcpResults, tlsResults,
                   task, chan, senders, returned>>

StoreEntry ==
    /\ scan = "collecting" /\ p2 # <<>>
    /\ LET e == Head(p2)
       IN  tlsResults' = [a \in DOMAIN tlsResults \union {e.place} |->
                             IF a = e.place THEN e ELSE tlsResults[a]]
    /\ p2' = Tail(p2)
    /\ UNCHANGED <<connect, answered, p1, p2Held, tcpResults,
                   task, chan, senders, scan, returned>>

\* A position whose connect failed, or whose address was taken by an earlier one.
Unprobed(s) == [place |-> Place[s], special |-> FALSE, probed |-> FALSE, good |-> FALSE]

\* remove(): only the first position of an address gets its entry.
Merged ==
    [i \in 1..Len(tcpResults) |->
        LET s == tcpResults[i]
        IN  IF Place[s] \notin DOMAIN tlsResults
               \/ \E j \in 1..(i - 1) : Place[tcpResults[j]] = Place[s]
            THEN Unprobed(s) ELSE tlsResults[Place[s]]]

\* Mutant: the list is built without waiting for the probes.
ReturnEarly ==
    /\ scan = "collecting" /\ p2 = <<>>
    /\ Return(Ranked(Merged))
    /\ UNCHANGED <<task, chan>> /\ UNCHANGED ipVars

ReturnIps ==
    /\ scan = "collecting" /\ p2 = <<>>
    /\ ~p2Held /\ \A s \in Slots : ~Live(s)
    /\ Return(Ranked(Merged))
    /\ UNCHANGED <<task, chan>> /\ UNCHANGED ipVars

\* The entry goes to the screen, then to the scan, with the task's end.
ProbeIp(s) ==
    \/ StartProbe(s) /\ UNCHANGED ipVars
    \/ Report(s) /\ UNCHANGED ipVars
    \/ /\ Exit(s)
       /\ p2' = Append(p2, Entry(s))
       /\ UNCHANGED <<connect, answered, p1, p2Held, tcpResults, tlsResults>>

IpSteps ==
    \/ \E s \in Slots : StartConnect(s) \/ \E ok \in BOOLEAN : EndConnect(s, ok)
    \/ ReceiveConnect \/ SpawnProbe \/ DropP2 \/ StoreEntry \/ ReturnIps
    \/ \E s \in Slots : ProbeIp(s) /\ UNCHANGED <<scan, returned>>
=============================================================================
