----------------------------- MODULE ScanScreen -----------------------------
(***************************************************************************)
(* What the SNI scan and the IP scan share: probe tasks limited by a       *)
(* semaphore, an unbounded channel of progress events, the screen that     *)
(* drains it, and the caller that takes the scan's own list when the scan's*)
(* task has finished and the screen's otherwise.  A scan without a screen  *)
(* (headless, or a background rescan) is awaited.                          *)
(*                                                                         *)
(* A score is abstracted to one bit, latencies are left out: what a probe  *)
(* found is good or poor, and a list is ranked by that.                    *)
(***************************************************************************)
EXTENDS Selection, SequencesExt

CONSTANTS
    Slots,          \* positions of the IP list
    Pairs,          \* (SNI, address) pairs
    Place,          \* what a slot or a pair stands for; slots may share an address
    SpecialPairs,   \* the pairs of www.hcaptcha.com
    GoodTasks,      \* those whose probe finds a good score
    MaxProbes,      \* IP_MAX_P2_CONCURRENT, SNI_MAX_CONCURRENT
    MinCandidates   \* the number of arrived entries that ends a find_ip scan

Tasks == Slots \union Pairs

ASSUME PlaceAssumption == DOMAIN Place = Tasks
ASSUME TasksAssumption == "scan" \notin Tasks
ASSUME MaxProbesAssumption == MaxProbes \in Nat \ {0}
ASSUME MinCandidatesAssumption == MinCandidates \in Nat \ {0}

VARIABLES
    attended,  \* there is a screen: progress_tx is Some
    min,       \* min_candidates, 0 unless the scan fills a pool
    task,      \* where each probe task is
    chan,      \* the progress channel
    senders,   \* who holds a sender of it: the scan's task and probe tasks
    scan,      \* where the scan's task is
    returned,  \* the list it returned
    screen,    \* where the screen is
    stop,      \* why it was left before the channel closed
    arrived,   \* the entries it has received
    tcpDone,   \* the number of connected addresses it shows
    handed,    \* the caller has a list
    offered    \* the list it goes on with

callerVars == <<attended, min>>
screenVars == <<screen, stop, arrived, tcpDone>>
handVars == <<handed, offered>>

ScreenInit ==
    /\ attended \in BOOLEAN
    /\ task = [t \in Tasks |-> "none"]
    /\ chan = <<>>
    /\ returned = <<>>
    /\ screen = "open" /\ stop = "none" /\ arrived = <<>> /\ tcpDone = 0
    /\ handed = FALSE /\ offered = <<>>

Entry(t) == [place |-> Place[t], special |-> t \in SpecialPairs,
             probed |-> TRUE, good |-> t \in GoodTasks]

IsSpecial(e) == e.special
IsOrdinary(e) == ~e.special
IsGood(e) == e.good
IsPoor(e) == ~e.good

\* The sort by score: stable, best first.
Ranked(s) == Those(s, IsGood) \o Those(s, IsPoor)

\* The screen's receiver is dropped when the screen is left.
Send(e) ==
    chan' = IF attended /\ screen # "left" THEN Append(chan, e) ELSE chan

-----------------------------------------------------------------------------
(* The probe tasks                                                         *)

Live(t) == task[t] \in {"queued", "probing", "reported"}
Permits == {t \in Tasks : task[t] \in {"probing", "reported"}}

Spawn(ts) ==
    /\ task' = [t \in Tasks |-> IF t \in ts THEN "queued" ELSE task[t]]
    /\ senders' = senders \union ts

StartProbe(t) ==
    /\ task[t] = "queued"
    /\ Cardinality(Permits) < MaxProbes
    /\ task' = [task EXCEPT ![t] = "probing"]
    /\ UNCHANGED <<chan, senders>>

\* The probe ends, whatever it met, and its entry is sent to the screen.
Report(t) ==
    /\ task[t] = "probing"
    /\ task' = [task EXCEPT ![t] = "reported"]
    /\ Send([kind |-> "probe", entry |-> Entry(t)])
    /\ UNCHANGED senders

Exit(t) ==
    /\ task[t] = "reported"
    /\ task' = [task EXCEPT ![t] = "done"]
    /\ senders' = senders \ {t}
    /\ UNCHANGED <<chan>>

-----------------------------------------------------------------------------
(* The scan's task                                                         *)

\* Its future is dropped, and with it its sender, before it counts as finished.
Return(list) ==
    /\ scan' = "returning"
    /\ returned' = list
    /\ senders' = senders \ {"scan"}

MarkFinished ==
    /\ scan = "returning"
    /\ scan' = "finished"
    /\ UNCHANGED <<task, chan, senders, returned>> /\ UNCHANGED screenVars /\ UNCHANGED handVars

-----------------------------------------------------------------------------
(* The screen and the caller                                               *)

OnScreen ==
    /\ attended /\ screen = "open"
    /\ UNCHANGED <<task, senders, scan, returned>> /\ UNCHANGED handVars

IsProbe(e) == e.kind = "probe"
IsTcp(e) == e.kind = "tcp"
EntriesIn(events) == LET found == Those(events, IsProbe)
                     IN  [i \in DOMAIN found |-> found[i].entry]

Enough(entries) == min > 0 /\ Len(entries) >= min

\* One round of the screen: try_recv until the channel is empty, then leave if it
\* is closed or if enough has arrived, else poll the keyboard in vain.
Drain ==
    /\ OnScreen
    /\ chan' = <<>>
    /\ arrived' = arrived \o EntriesIn(chan)
    /\ LET counts == Those(chan, IsTcp)
       IN  tcpDone' = IF counts = <<>> THEN tcpDone ELSE Last(counts).tested
    /\ IF senders = {} THEN screen' = "left" /\ UNCHANGED stop
       ELSE IF Enough(arrived') THEN screen' = "left" /\ stop' = "enough"
       ELSE UNCHANGED <<screen, stop>>

\* q leaves either screen, r only that of the IP scan.
PressKey(key) ==
    /\ OnScreen
    /\ screen' = "left" /\ stop' = key
    /\ UNCHANGED <<chan, arrived, tcpDone>>

\* A change of range is honoured by the modes that fill a pool.
Rescans == stop = "range" /\ min > 0

\* is_finished() and abort(): a scan that is done in time wins over the screen.
\* abort() drops the scan's future; the probes it spawned go on.
Abort == scan' = "aborted" /\ senders' = senders \ {"scan"}

Collect ==
    /\ attended /\ screen = "left"
    /\ ~handed /\ handed' = TRUE
    /\ IF scan = "finished" /\ ~Rescans
       THEN offered' = returned /\ UNCHANGED <<scan, senders>>
       ELSE /\ Abort
            /\ offered' = IF Rescans THEN <<>> ELSE Ranked(arrived)
    /\ UNCHANGED <<task, chan, returned>> /\ UNCHANGED screenVars

AwaitScan ==
    /\ ~attended
    /\ scan = "finished"
    /\ ~handed /\ handed' = TRUE
    /\ offered' = returned
    /\ UNCHANGED <<task, chan, senders, scan, returned>> /\ UNCHANGED screenVars

\* What needs no user.
ScreenSteps ==
    (Drain \/ Collect \/ AwaitScan \/ MarkFinished) /\ UNCHANGED callerVars
=============================================================================
