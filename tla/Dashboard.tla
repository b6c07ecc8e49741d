------------------------------ MODULE Dashboard ------------------------------
(***************************************************************************)
(* The live dashboard and the connections that feed it.  Each connection's *)
(* task sends ProxyEvents into one unbounded channel; the dashboard drains *)
(* it in order and keeps a log of records, newest first, and a counter of  *)
(* active connections.  An event names its connection by a port only: the  *)
(* port of the upstream socket in the intercepting modes, the port of the  *)
(* client everywhere else.  Byte counts and rates are abstracted to the    *)
(* connection they came from; the events of a target switch, which only    *)
(* change a header line, are left out.                                     *)
(***************************************************************************)
EXTENDS Selection, SequencesExt

CONSTANTS
    Conns,      \* accepted connections
    Ports,      \* values of src_port
    Modes,      \* modes the proxy may be started in
    MaxRecords, \* MAX_RECORDS
    MaxQueue    \* bound on the queue beyond which no progress is reported

\* intercept_segmented is intercept with a method that writes the ClientHello
\* in segments and TCP_SEG_NODELAY.
ASSUME ModesAssumption ==
    Modes \subseteq {"intercept", "intercept_segmented", "tls_frag", "ip_bypass",
                     "find_ip", "auto_spoof"}
ASSUME MaxRecordsAssumption == MaxRecords \in Nat

VARIABLES
    mode,     \* how the proxy runs, fixed at startup
    phase,    \* where each connection's task is
    port,     \* the src_port of its events
    open,     \* connections whose upstream socket holds its port
    sent,     \* history: how each connection announced its end
    queue,    \* the channel
    records,  \* DashboardState::records
    active    \* DashboardState::active

connVars == <<mode, phase, port, open, sent>>
dashVars == <<records, active>>
vars == <<mode, phase, port, open, sent, queue, records, active>>

Intercepts == mode \in {"intercept", "intercept_segmented"}

Init ==
    /\ mode \in Modes
    /\ phase = [c \in Conns |-> "new"]
    /\ port \in [Conns -> Ports]
    /\ open = {}
    /\ sent = [c \in Conns |-> "nothing"]
    /\ queue = <<>> /\ records = <<>> /\ active = 0

-----------------------------------------------------------------------------
(* The connections                                                         *)

Move(c, from, to) ==
    phase[c] = from /\ phase' = [phase EXCEPT ![c] = to] /\ UNCHANGED mode

Emit(c, kind) ==
    /\ queue' = Append(queue, [kind |-> kind, port |-> port[c], from |-> c])
    /\ UNCHANGED dashVars

\* An event after which the connection emits nothing but late progress.
EmitEnd(c, kind) == Emit(c, kind) /\ sent' = [sent EXCEPT ![c] = kind]

\* The kernel's choice of an upstream port, or the client's of its own; clients
\* on different hosts may use the same.
Accept(c) ==
    /\ Move(c, "new", "connecting")
    /\ Intercepts => port[c] \notin {port[d] : d \in open}
    /\ open' = IF Intercepts THEN open \union {c} ELSE open
    /\ Emit(c, "ConnectionAccepted")
    /\ UNCHANGED <<port, sent>>

\* connect() consumes the socket: the port is free before the event is sent.
ConnectFails(c) ==
    /\ Move(c, "connecting", "connect_failed")
    /\ open' = open \ {c}
    /\ UNCHANGED <<port, sent, queue>> /\ UNCHANGED dashVars

\* Mutant: connect() fails with `?`.
ReturnConnectError(c) ==
    /\ Move(c, "connect_failed", "ended")
    /\ UNCHANGED <<port, open, sent, queue>> /\ UNCHANGED dashVars

ReportConnectError(c) ==
    /\ Move(c, "connect_failed", "ended")
    /\ EmitEnd(c, "ConnectionError")
    /\ UNCHANGED <<port, open>>

\* Any of the failures finish_bypass_or_error and its like report.
BypassFails(c) ==
    /\ Intercepts
    /\ Move(c, "connecting", "dropping")
    /\ EmitEnd(c, "BypassFailed")
    /\ UNCHANGED <<port, open>>

\* The errors of set_nodelay and, in tls_frag, of reading and of writing the
\* ClientHello leave with `?`.
LeaveSilently(c) ==
    /\ mode \in {"intercept_segmented", "tls_frag"}
    /\ Move(c, "connecting", "dropping")
    /\ UNCHANGED <<port, open, sent, queue>> /\ UNCHANGED dashVars

DropSocket(c) ==
    /\ Move(c, "dropping", "ended")
    /\ open' = open \ {c}
    /\ UNCHANGED <<port, sent, queue>> /\ UNCHANGED dashVars

BypassSucceeds(c) ==
    /\ Move(c, "connecting", "relaying")
    /\ Emit(c, "BypassSucceeded")
    /\ UNCHANGED <<port, open, sent>>

\* auto_spoof has no ticker.  A ticker that was being polled when it was aborted
\* still sends once.
Progress(c) ==
    /\ mode # "auto_spoof"
    /\ Len(queue) < MaxQueue
    /\ \/ phase[c] \in {"relaying", "relayed"} /\ UNCHANGED <<mode, phase>>
       \/ Move(c, "finished", "ended")
    /\ Emit(c, "RelayProgress")
    /\ UNCHANGED <<port, open, sent>>

\* Both copiers are gone, and with them the sockets.
RelayEnds(c) ==
    /\ Move(c, "relaying", "relayed")
    /\ open' = open \ {c}
    /\ UNCHANGED <<port, sent, queue>> /\ UNCHANGED dashVars

ReportRelay(c) ==
    /\ mode # "auto_spoof"
    /\ Move(c, "relayed", "finished")
    /\ EmitEnd(c, "RelayFinished")
    /\ UNCHANGED <<port, open>>

\* The ticker is cancelled, or there is none: nothing more is sent.
StopQuietly(c) ==
    /\ IF mode = "auto_spoof" THEN Move(c, "relayed", "ended")
                              ELSE Move(c, "finished", "ended")
    /\ UNCHANGED <<port, open, sent, queue>> /\ UNCHANGED dashVars

Connection(c) ==
    \/ Accept(c) \/ ConnectFails(c) \/ ReportConnectError(c) \/ BypassFails(c)
    \/ LeaveSilently(c) \/ DropSocket(c) \/ BypassSucceeds(c) \/ Progress(c)
    \/ RelayEnds(c) \/ ReportRelay(c) \/ StopQuietly(c)

-----------------------------------------------------------------------------
(* The dashboard: apply_event                                              *)

IsActive(r) == r.status \in {"Connecting", "Relaying"}

\* Position from the back among the inactive records, in a log that is too long.
Excess(log) ==
    LET quiet == {i \in DOMAIN log : ~IsActive(log[i])}
    IN  {i \in quiet : Cardinality({j \in quiet : j > i}) + MaxRecords < Len(log)}

\* Mutant: the oldest records go, active or not.
PruneOldest(log) == SubSeq(log, 1, IF Len(log) > MaxRecords THEN MaxRecords ELSE Len(log))

\* prune_connection_records: the oldest inactive records beyond MAX_RECORDS.
Pruned(log) == Picked(log, DOMAIN log \ Excess(log))

\* find_record: the newest record with this port.
find_record(p) == SelectInSeq(records, LAMBDA r : r.port = p)

\* The record the event is attributed to, if any, after update; `by` remembers
\* the connection whose event it was.
Updated(e, status) ==
    LET i == find_record(e.port)
    IN  IF i = 0 THEN records
        ELSE [records EXCEPT ![i] = [@ EXCEPT !.status = status, !.by = e.from]]

SaturatingDec(n) == IF n = 0 THEN 0 ELSE n - 1

Opened(e) ==
    /\ e.kind = "ConnectionAccepted"
    /\ active' = active + 1
    /\ records' = Pruned(<<[port |-> e.port, status |-> "Connecting",
                            of |-> e.from, by |-> e.from]>> \o records)

Connected(e) ==
    /\ e.kind = "BypassSucceeded"
    /\ records' = Pruned(Updated(e, "Relaying"))
    /\ UNCHANGED active

Failed(e) ==
    /\ e.kind \in {"BypassFailed", "ConnectionError"}
    /\ active' = SaturatingDec(active)
    /\ records' = Pruned(Updated(e, "Failed"))

\* Mutant: a finished relay is still counted.
FinishedUncounted(e) ==
    /\ e.kind = "RelayFinished"
    /\ records' = Pruned(Updated(e, "Done"))
    /\ UNCHANGED active

\* Done and Rotated are one status here.
Finished(e) ==
    /\ e.kind = "RelayFinished"
    /\ active' = SaturatingDec(active)
    /\ records' = Pruned(Updated(e, "Done"))

\* RelayProgress writes the byte counts and the rates.
Progressed(e) ==
    /\ e.kind = "RelayProgress"
    /\ records' = LET i == find_record(e.port)
                  IN  Pruned(IF i = 0 THEN records
                             ELSE [records EXCEPT ![i].by = e.from])
    /\ UNCHANGED active

apply_event ==
    /\ queue # <<>>
    /\ queue' = Tail(queue)
    /\ LET e == Head(queue)
       IN  Opened(e) \/ Connected(e) \/ Failed(e) \/ Finished(e) \/ Progressed(e)
    /\ UNCHANGED connVars

-----------------------------------------------------------------------------
Terminated == /\ queue = <<>> /\ \A c \in Conns : phase[c] = "ended"
              /\ UNCHANGED vars

Next == (\E c \in Conns : Connection(c)) \/ apply_event \/ Terminated

\* The dashboard's loop drains the channel, and a task sends what it owes.  No
\* connection has to begin, fail or end its relay.
Fairness ==
    /\ WF_vars(apply_event)
    /\ \A c \in Conns : WF_vars(ReportConnectError(c) \/ DropSocket(c)
                                \/ ReportRelay(c) \/ StopQuietly(c))

Spec == Init /\ [][Next]_vars
FairSpec == Spec /\ Fairness
-----------------------------------------------------------------------------
Pending(c, kinds) ==
    \E i \in DOMAIN queue : queue[i].from = c /\ queue[i].kind \in kinds

\* The connections the dashboard has heard the beginning of, and not the end.
Heard ==
    {c \in Conns : /\ phase[c] # "new" /\ ~Pending(c, {"ConnectionAccepted"})
                   /\ sent[c] = "nothing" \/ Pending(c, {sent[c]})}

\* The counter is exact, although events of different connections are mixed up
\* when they share a port: no decrement is ever lost to saturating_sub.
ActiveIsExact == active = Cardinality(Heard)

\* However many newer connections come, the log drops no active record.
PruneSparesActive ==
    [][active' > active =>
         \A i \in DOMAIN records : IsActive(records[i]) =>
            \E j \in DOMAIN records' : records'[j] = records[i]]_vars

\* In the modes that announce every end, a connection that ended is in the end not
\* counted: the counter does not stay above the connections that live.
EndedIsForgotten ==
    \A c \in Conns :
        phase[c] = "ended" /\ mode \in {"intercept", "ip_bypass", "find_ip"}
            ~> c \notin Heard

(* What comments of the code claim and the code does not keep              *)

\* tui.rs: src_port is the "unique connection identifier" of a record.  Only its
\* own connection's events change a record.  Known not to hold: a port is used
\* again before the last event of its connection is applied.
OwnEventsOnly == \A i \in DOMAIN records : records[i].by = records[i].of

\* proxy.rs: ConnectionError is for "a fatal error before the relay could start",
\* RelayFinished means "the bidirectional relay ended".  A connection that is over
\* has said so in one way or the other.  Known not to hold in tls_frag, whose
\* errors between the two leave without an event.
EndIsAnnounced == \A c \in Conns : phase[c] = "ended" => sent[c] # "nothing"
=============================================================================
