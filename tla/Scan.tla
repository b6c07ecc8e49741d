-------------------------------- MODULE Scan --------------------------------
(***************************************************************************)
(* A scan and its screen: either scanner, attended or not, used by every   *)
(* mode that scans.                                                        *)
(***************************************************************************)
EXTENDS IpScanner, SniScanner

VARIABLE kind   \* the scanner that runs

scanVars == <<kind, attended, min, task, chan, senders, scan, returned, screen, stop,
          arrived, tcpDone, handed, offered, connect, answered, p1, p2, p2Held,
          tcpResults, tlsResults, host>>

\* Both scanners spawn the tasks of the whole list before anything else.
ScanInit ==
    /\ kind \in {"ip", "sni"}
    /\ min \in IF kind = "ip" THEN {0, MinCandidates} ELSE {0}
    /\ ScreenInit /\ IpInit /\ SniInit
    /\ senders = IF kind = "ip" THEN {"scan"} ELSE {"scan"} \union Hosts
    /\ scan = "receiving"

ScanIps ==
    /\ kind = "ip"
    /\ IpSteps
    /\ UNCHANGED host

ScanSnis ==
    /\ kind = "sni"
    /\ SniSteps
    /\ UNCHANGED ipVars

\* The probes of an aborted scan are not aborted with it; its own steps stop
\* because scan is none of the states they start from.
ScanTasks ==
    /\ ScanIps \/ ScanSnis
    /\ UNCHANGED kind /\ UNCHANGED callerVars /\ UNCHANGED screenVars
    /\ UNCHANGED handVars

Screen == ScreenSteps /\ UNCHANGED <<kind, host>> /\ UNCHANGED ipVars

Quit == PressKey("quit")
ChangeRange == kind = "ip" /\ PressKey("range")

User ==
    /\ Quit \/ ChangeRange
    /\ UNCHANGED kind /\ UNCHANGED callerVars /\ UNCHANGED host /\ UNCHANGED ipVars

ScanNext == ScanTasks \/ Screen \/ User

ScanSpec == ScanInit /\ [][ScanNext]_scanVars

\* The scanner's tasks run on the runtime's workers, and every await of theirs has
\* a timeout; the screen polls the keyboard for 100 ms at a time.  The user need
\* not press anything.
ScanFairSpec == ScanSpec /\ WF_scanVars(ScanTasks) /\ WF_scanVars(Screen)

-----------------------------------------------------------------------------
Wanted == IF kind = "ip" THEN answered ELSE {t \in Pairs : task[t] # "none"}

AllTried ==
    IF kind = "ip" THEN \A s \in Slots : connect[s] = "done"
                   ELSE \A h \in Hosts : host[h] # "resolving"

\* A scan that nobody stopped hands over the probed entry of every address that
\* answered and of every pair that was resolved, whichever list the caller took:
\* the screen's, when the channel closed before the task was marked finished, or
\* the scan's own.
NothingLost ==
    handed /\ stop = "none" =>
        /\ AllTried
        /\ \A t \in Wanted : \E i \in DOMAIN offered :
              offered[i].place = Place[t] /\ offered[i].probed

\* The screen never shows more probed addresses than connected ones: the count
\* of a connect is sent before the probe it leads to is spawned.
CountCoversArrived == kind = "ip" => Len(arrived) <= tcpDone

\* Every scan ends, and no probe outlives it for ever, without the user's help:
\* no task waits for a permit or for a channel that nobody will close.
ScanEnds == <>[](handed /\ \A t \in Tasks : ~Live(t))
=============================================================================
