----------------------------- MODULE BypassFlow ------------------------------
(***************************************************************************)
(* One intercepted connection, from the insertion of its FlowEntry to the  *)
(* start of its relay or its failure.  Two actors share the entry:         *)
(*                                                                         *)
(*   - the interceptor's OS thread, which runs Handler::on_packet for each *)
(*     captured packet (handler.rs);                                       *)
(*   - the proxy's tokio task, handle_intercept_connection, which connects *)
(*     upstream, waits for the handler's decision and reports it           *)
(*     (proxy.rs).                                                         *)
(*                                                                         *)
(* Each critical section of the entry's mutex is one step, so a            *)
(* `drop(state); entry.finish(..)` is two, and so is the check of the      *)
(* state followed by the creation of a `notified()` future.                *)
(***************************************************************************)
EXTENDS Naturals, BypassMethods

CONSTANTS
    SeqMod,     \* sequence numbers wrap modulo SeqMod (2^32 in the code)
    NoSeq,      \* Option::None of a sequence number
    Methods,    \* names of the bypass methods
    Hooks,      \* what each method's hooks may answer
    Segmenting, \* methods whose ClientHello is written in segments
    SegNodelay  \* TCP_SEG_NODELAY

ASSUME SeqModAssumption == SeqMod \in Nat \ {0}
ASSUME NoSeqAssumption == NoSeq \notin Nat
ASSUME HooksAssumption == Hooks \in [Methods -> Hook]
ASSUME SegmentingAssumption == Segmenting \subseteq Methods
ASSUME SegNodelayAssumption == SegNodelay \in BOOLEAN

Seq32 == 0 .. SeqMod - 1
Succ(s) == (s + 1) % SeqMod          \* wrapping_add(1)

Outcome == {"FakeDataAcked", "UnexpectedClose"}
Signal == {"notify", "ready_for_data"}

\* A captured packet: is_bare_syn, is_bare_ack, is_syn_ack, a packet with a
\* payload, or anything else (FIN, RST).
Packet == [dir : {"out", "in"},
           kind : {"syn", "ack", "syn_ack", "data", "other"},
           seq : Seq32, ack : Seq32]

VARIABLES
    method,     \* the active bypass method, fixed at startup
    flow,       \* FlowEntry::state
    registered, \* the entry is in the flow table
    thread,     \* interceptor: "idle", "fetched" the entry, or "finishing"
    pending,    \* outcome the interceptor passes to finish() once unlocked
    task,       \* program counter of the proxy task
    stage,      \* "completion" once the task writes the ClientHello
    armed,      \* Notify objects the task holds a `notified()` future of
    woken,      \* the armed futures that have been notified
    got,        \* what the wait returned
    reported,   \* last event the task sent to the dashboard
    asked,      \* history: action the method took on the handshake ACK
    rewrites    \* history: packets the handler rewrote at each stage

entryVars == <<flow, woken>>
threadVars == <<thread, pending, asked, rewrites>>
taskVars == <<registered, task, stage, armed, got, reported>>
vars == <<method, flow, registered, thread, pending, task, stage, armed,
          woken, got, reported, asked, rewrites>>

FlowState == [monitor : BOOLEAN,
              syn_seq : Seq32 \union {NoSeq},
              syn_ack_seq : Seq32 \union {NoSeq},
              fake_sent : BOOLEAN,
              waiting_for_data : BOOLEAN,
              first_data_modified : BOOLEAN,
              outcome : Outcome \union {"none"}]

NewFlowState == [monitor |-> TRUE, syn_seq |-> NoSeq, syn_ack_seq |-> NoSeq,
                 fake_sent |-> FALSE, waiting_for_data |-> FALSE,
                 first_data_modified |-> FALSE, outcome |-> "none"]

Init ==
    /\ method \in Methods
    /\ flow = NewFlowState
    /\ registered = TRUE
    /\ thread = "idle" /\ pending = "none"
    /\ task = "connect" /\ stage = "initial"
    /\ armed = {} /\ woken = {}
    /\ got = "none" /\ reported = "none"
    /\ asked = "none" /\ rewrites = [ack |-> 0, data |-> 0]

-----------------------------------------------------------------------------
(* The shared entry                                                        *)

\* Notify::notify_waiters wakes the futures that exist; it stores no permit.
NotifyWaiters(signal) == woken' = woken \union (armed \intersect {signal})

Decided(f, o) == [f EXCEPT !.outcome = o, !.monitor = FALSE]

\* FlowEntry::finish, and the identical body of Handler::unexpected.
Finish(o) ==
    \/ /\ flow.outcome = "none"
       /\ flow' = Decided(flow, o)
       /\ NotifyWaiters("notify")
    \/ /\ flow.outcome # "none"
       /\ UNCHANGED entryVars

-----------------------------------------------------------------------------
(* The interceptor thread: Handler::on_packet                              *)

\* flows.get(&key): the thread keeps its Arc even if the task removes the key.
Fetch ==
    /\ thread = "idle" /\ registered
    /\ thread' = "fetched"
    /\ UNCHANGED <<method, pending, asked, rewrites>>
    /\ UNCHANGED entryVars /\ UNCHANGED taskVars

ValidSyn(p) ==
    /\ p.dir = "out" /\ p.kind = "syn"
    /\ p.ack = 0
    /\ flow.syn_seq \in {NoSeq, p.seq}

\* Mutants: the SYN-ACK is not waited for; a repeated ACK counts as the first.
AckWithoutSynAck(p) ==
    /\ p.dir = "out" /\ p.kind = "ack"
    /\ ~flow.fake_sent /\ ~flow.waiting_for_data
    /\ flow.syn_seq # NoSeq /\ p.seq = Succ(flow.syn_seq)
AckRepeated(p) ==
    /\ p.dir = "out" /\ p.kind = "ack"
    /\ flow.syn_seq # NoSeq /\ p.seq = Succ(flow.syn_seq)
    /\ flow.syn_ack_seq # NoSeq /\ p.ack = Succ(flow.syn_ack_seq)

ValidHandshakeAck(p) ==
    /\ p.dir = "out" /\ p.kind = "ack"
    /\ ~flow.fake_sent /\ ~flow.waiting_for_data
    /\ flow.syn_seq # NoSeq
    /\ p.seq = Succ(flow.syn_seq)
    /\ flow.syn_ack_seq # NoSeq
    /\ p.ack = Succ(flow.syn_ack_seq)

ValidFirstData(p) ==
    /\ p.dir = "out" /\ p.kind = "data"
    /\ flow.waiting_for_data /\ ~flow.first_data_modified

ValidSynAck(p) ==
    /\ p.dir = "in" /\ p.kind = "syn_ack"
    /\ flow.syn_seq # NoSeq
    /\ p.ack = Succ(flow.syn_seq)
    /\ flow.syn_ack_seq \in {NoSeq, p.seq}

ValidFakeAck(p) ==
    /\ p.dir = "in" /\ p.kind = "ack"
    /\ flow.syn_seq # NoSeq
    /\ flow.fake_sent
    /\ p.seq = Succ(flow.syn_ack_seq)
    /\ p.ack = Succ(flow.syn_seq)

Expected(p) == \/ ValidSyn(p) \/ ValidHandshakeAck(p) \/ ValidFirstData(p)
               \/ ValidSynAck(p) \/ ValidFakeAck(p)

\* Mutant: on_packet does not look at `monitor`.
TrackingReleased == /\ thread = "fetched"
                    /\ UNCHANGED method /\ UNCHANGED taskVars

\* The thread holds the entry's lock and the flow is still monitored.
Tracking == /\ thread = "fetched" /\ flow.monitor
            /\ UNCHANGED method /\ UNCHANGED taskVars

\* The packet is dealt with inside one critical section...
Done == thread' = "idle" /\ UNCHANGED pending

\* ...or the lock is dropped and finish(o) takes it again.
FinishUnlocked(o) == thread' = "finishing" /\ pending' = o

Count(n) == IF n < 2 THEN n + 1 ELSE n   \* history counter, saturated

Released ==
    /\ thread = "fetched" /\ ~flow.monitor
    /\ thread' = "idle"
    /\ UNCHANGED <<method, pending, asked, rewrites>>
    /\ UNCHANGED entryVars /\ UNCHANGED taskVars

TrackSyn(p) ==
    /\ Tracking /\ ValidSyn(p)
    /\ flow' = [flow EXCEPT !.syn_seq = p.seq]
    /\ Done
    /\ UNCHANGED <<woken, asked, rewrites>>

TrackSynAck(p) ==
    /\ Tracking /\ ValidSynAck(p)
    /\ flow' = [flow EXCEPT !.syn_ack_seq = p.seq]
    /\ Done
    /\ UNCHANGED <<woken, asked, rewrites>>

\* EmitFakeAndAccept on the handshake ACK.
EmitFake(p, a) ==
    /\ Tracking /\ ValidHandshakeAck(p)
    /\ a \in Hooks[method].ack /\ EmitsFake(a)
    /\ asked' = a
    /\ rewrites' = [rewrites EXCEPT !.ack = Count(@)]
    /\ flow' = [flow EXCEPT !.fake_sent = TRUE,
                            !.waiting_for_data = @ \/ a = "emit_and_wait_for_data"]
    /\ \/ a = "emit_and_wait_for_data" /\ NotifyWaiters("ready_for_data") /\ Done
       \/ a = "emit_and_complete" /\ UNCHANGED woken /\ FinishUnlocked("FakeDataAcked")
       \/ a = "emit_and_wait_for_ack" /\ UNCHANGED woken /\ Done

\* PassThrough on the handshake ACK: the method waits for the first data.
DeferToData(p) ==
    /\ Tracking /\ ValidHandshakeAck(p)
    /\ "pass_through" \in Hooks[method].ack
    /\ asked' = "pass_through"
    /\ flow' = [flow EXCEPT !.waiting_for_data = TRUE]
    /\ NotifyWaiters("ready_for_data")
    /\ Done
    /\ UNCHANGED rewrites

Verdict(a) == IF a = "abort" THEN "UnexpectedClose" ELSE "FakeDataAcked"

\* CompleteAndAccept and AbortAndAccept on the handshake ACK.
FinishAtHandshake(p, a) ==
    /\ Tracking /\ ValidHandshakeAck(p)
    /\ a \in Hooks[method].ack /\ a \in {"complete", "abort"}
    /\ asked' = a
    /\ FinishUnlocked(Verdict(a))
    /\ UNCHANGED entryVars /\ UNCHANGED rewrites

FirstDataSeen(f) == [f EXCEPT !.first_data_modified = TRUE,
                              !.waiting_for_data = FALSE]

\* EmitFakeAndAccept on the first data packet.
RewriteFirstData(p, a) ==
    /\ Tracking /\ ValidFirstData(p)
    /\ a \in Hooks[method].data /\ EmitsFake(a)
    /\ rewrites' = [rewrites EXCEPT !.data = Count(@)]
    /\ flow' = FirstDataSeen(flow)
    /\ \/ a = "emit_and_complete" /\ FinishUnlocked("FakeDataAcked")
       \/ a # "emit_and_complete" /\ Done
    /\ UNCHANGED <<woken, asked>>

\* CompleteAndAccept and AbortAndAccept on the first data packet.
FinishAtFirstData(p, a) ==
    /\ Tracking /\ ValidFirstData(p)
    /\ a \in Hooks[method].data /\ a \in {"complete", "abort"}
    /\ flow' = FirstDataSeen(flow)
    /\ FinishUnlocked(Verdict(a))
    /\ UNCHANGED <<woken, asked, rewrites>>

\* PassThrough on the first data packet changes nothing.
ForwardFirstData(p) ==
    /\ Tracking /\ ValidFirstData(p)
    /\ "pass_through" \in Hooks[method].data
    /\ Done
    /\ UNCHANGED entryVars /\ UNCHANGED <<asked, rewrites>>

\* Mutant: the answer completes the bypass although the data is still awaited.
ConfirmFakeEarly(p) ==
    /\ Tracking /\ ValidFakeAck(p)
    /\ FinishUnlocked("FakeDataAcked")
    /\ UNCHANGED entryVars /\ UNCHANGED <<asked, rewrites>>

\* The server answered the fake segment.
ConfirmFake(p) ==
    /\ Tracking /\ ValidFakeAck(p)
    /\ \/ flow.waiting_for_data /\ Done
       \/ ~flow.waiting_for_data /\ FinishUnlocked("FakeDataAcked")
    /\ UNCHANGED entryVars /\ UNCHANGED <<asked, rewrites>>

UnexpectedPacket(p) ==
    /\ Tracking /\ ~Expected(p)
    /\ Finish("UnexpectedClose")
    /\ Done
    /\ UNCHANGED <<asked, rewrites>>

\* entry.finish(..) after drop(state).
FinishPending ==
    /\ thread = "finishing"
    /\ Finish(pending)
    /\ thread' = "idle" /\ pending' = "none"
    /\ UNCHANGED <<method, asked, rewrites>> /\ UNCHANGED taskVars

OnPacket(p) ==
    \/ TrackSyn(p) \/ TrackSynAck(p) \/ DeferToData(p) \/ ForwardFirstData(p)
    \/ ConfirmFake(p) \/ UnexpectedPacket(p)
    \/ \E a \in MethodAction :
          \/ EmitFake(p, a) \/ FinishAtHandshake(p, a)
          \/ RewriteFirstData(p, a) \/ FinishAtFirstData(p, a)

\* The network may deliver any packet and the kernel repeat its own, but it
\* emits a payload only once the task has begun to write the ClientHello.
Captured == {p \in Packet : p.dir = "out" /\ p.kind = "data" => stage = "completion"}

Interceptor == \/ Fetch \/ Released \/ FinishPending
               \/ \E p \in Captured : OnPacket(p)

-----------------------------------------------------------------------------
(* The proxy task: handle_intercept_connection                             *)

Goto(from, to) == /\ task = from /\ task' = to
                  /\ UNCHANGED method /\ UNCHANGED threadVars

\* The kernel completes the handshake only with the SYN-ACK the interceptor
\* has let through.
Connected ==
    /\ Goto("connect", "poll")
    /\ flow.monitor => flow.syn_ack_seq # NoSeq
    /\ UNCHANGED entryVars
    /\ UNCHANGED <<registered, stage, armed, got, reported>>

\* An error path: finish(UnexpectedClose), tell the dashboard, return Err.
Fail(from, event) ==
    /\ Goto(from, "return_err")
    /\ Finish("UnexpectedClose")
    /\ reported' = event
    /\ UNCHANGED <<registered, stage, armed, got>>

ConnectFails == Fail("connect", "ConnectionError")

\* current_bypass_progress, or the check of wait_for_bypass_completion.
Poll ==
    /\ \/ /\ flow.outcome # "none"
          /\ got' = flow.outcome
          /\ Goto("poll", "settle")
       \/ /\ flow.outcome = "none"
          /\ stage = "initial" /\ flow.waiting_for_data
          /\ Goto("poll", "read_hello")
          /\ UNCHANGED got
       \/ /\ flow.outcome = "none"
          /\ stage = "initial" => ~flow.waiting_for_data
          /\ Goto("poll", "arm")
          /\ UNCHANGED got
    /\ UNCHANGED entryVars
    /\ UNCHANGED <<registered, stage, armed, reported>>

\* entry.notify.notified()
ArmNotify ==
    /\ Goto("arm", IF stage = "initial" THEN "arm_ready" ELSE "parked")
    /\ armed' = {"notify"}
    /\ UNCHANGED entryVars
    /\ UNCHANGED <<registered, stage, got, reported>>

\* entry.ready_for_data.notified(), the second branch of the select!
ArmReady ==
    /\ Goto("arm_ready", "parked")
    /\ armed' = armed \union {"ready_for_data"}
    /\ UNCHANGED entryVars
    /\ UNCHANGED <<registered, stage, got, reported>>

Wake ==
    /\ Goto("parked", "poll")
    /\ woken # {}
    /\ armed' = {} /\ woken' = {}
    /\ UNCHANGED <<flow, registered, stage, got, reported>>

\* Mutant: the second wait has no timeout.
TimeOutInitialOnly ==
    /\ Goto("parked", "settle")
    /\ woken = {} /\ stage = "initial"
    /\ got' = "timeout" /\ armed' = {}
    /\ UNCHANGED entryVars /\ UNCHANGED <<registered, stage, reported>>

\* tokio::time::timeout polls the wait before its timer.
TimeOut ==
    /\ Goto("parked", "settle")
    /\ woken = {}
    /\ got' = "timeout"
    /\ armed' = {}
    /\ UNCHANGED entryVars
    /\ UNCHANGED <<registered, stage, reported>>

ReadHello ==
    /\ Goto("read_hello", "send_hello")
    /\ UNCHANGED entryVars
    /\ UNCHANGED <<registered, stage, armed, got, reported>>

\* The client closed, sent an error or took longer than the timeout.
ReadHelloFails == Fail("read_hello", "UnexpectedClose")

\* From here on the kernel emits the ClientHello, in one packet or several.
SendHello ==
    /\ Goto("send_hello", "sending")
    /\ stage' = "completion"
    /\ UNCHANGED entryVars
    /\ UNCHANGED <<registered, armed, got, reported>>

HelloSent ==
    /\ Goto("sending", "poll")
    /\ UNCHANGED entryVars
    /\ UNCHANGED <<registered, stage, armed, got, reported>>

SendHelloFails == Fail("sending", "UnexpectedClose")

\* outgoing.set_nodelay(true)...? returns without finish() and without an event.
NodelayFails ==
    /\ method \in Segmenting /\ SegNodelay
    /\ Goto("send_hello", "return_err")
    /\ UNCHANGED entryVars
    /\ UNCHANGED <<registered, stage, armed, got, reported>>

\* Mutant: a timeout is taken for a success.
SettleOkOnTimeout ==
    /\ Goto("settle", "release")
    /\ got \in {"FakeDataAcked", "timeout"}
    /\ reported' = "FakeDataAcked"
    /\ UNCHANGED entryVars /\ UNCHANGED <<registered, stage, armed, got>>

\* finish_bypass_or_error
SettleOk ==
    /\ Goto("settle", "release")
    /\ got = "FakeDataAcked"
    /\ reported' = "FakeDataAcked"
    /\ UNCHANGED entryVars
    /\ UNCHANGED <<registered, stage, armed, got>>

\* Mutant: a flow the interceptor closed is not reported.
SettleClosedSilently ==
    /\ Goto("settle", "return_err") /\ got = "UnexpectedClose"
    /\ UNCHANGED entryVars /\ UNCHANGED <<registered, stage, armed, got, reported>>

SettleClosed ==
    /\ Goto("settle", "return_err")
    /\ got = "UnexpectedClose"
    /\ reported' = "UnexpectedClose"
    /\ UNCHANGED entryVars
    /\ UNCHANGED <<registered, stage, armed, got>>

SettleTimeout == got = "timeout" /\ Fail("settle", "UnexpectedClose")

\* The scope guard removes the key: before the relay, or on the way out.
Release(from, to) ==
    /\ Goto(from, to)
    /\ registered' = FALSE
    /\ UNCHANGED entryVars
    /\ UNCHANGED <<stage, armed, got, reported>>

StartRelay == Release("release", "relay")
ReturnErr  == Release("return_err", "failed")

Task == \/ Connected \/ ConnectFails \/ Poll \/ ArmNotify \/ ArmReady
        \/ Wake \/ TimeOut \/ ReadHello \/ ReadHelloFails
        \/ SendHello \/ HelloSent \/ SendHelloFails \/ NodelayFails
        \/ SettleOk \/ SettleClosed \/ SettleTimeout
        \/ StartRelay \/ ReturnErr

\* The relay and what follows are the subject of Relay.tla.
Terminated == /\ task \in {"relay", "failed"} /\ thread = "idle"
              /\ UNCHANGED vars

Next == Interceptor \/ Task \/ Terminated

\* The runtime polls a ready task, its timers fire and the kernel's connect
\* returns.  Nothing makes a packet arrive or the interceptor run.
Fairness == WF_vars(Task)

Spec == Init /\ [][Next]_vars
FairSpec == Spec /\ Fairness
-----------------------------------------------------------------------------
(* Correctness                                                             *)

\* Every variable holds a value of its type: in particular a timeout is never
\* reported as such, finish_bypass_or_error turns it into an outcome.
TypeOK ==
    /\ method \in Methods
    /\ flow \in FlowState
    /\ registered \in BOOLEAN
    /\ thread \in {"idle", "fetched", "finishing"}
    /\ pending \in Outcome \union {"none"}
    /\ task \in {"connect", "poll", "arm", "arm_ready", "parked", "read_hello",
                 "send_hello", "sending", "settle", "release", "return_err", "relay",
                 "failed"}
    /\ stage \in {"initial", "completion"}
    /\ armed \subseteq Signal /\ woken \subseteq armed
    /\ got \in Outcome \union {"none", "timeout"}
    /\ reported \in Outcome \union {"none", "ConnectionError"}
    /\ asked \in MethodAction \union {"none"}
    /\ rewrites \in [ack : 0 .. 2, data : 0 .. 2]

\* Once a fake is on the wire the handler knows both initial sequence numbers:
\* the `expect` and the `unwrap` on the inbound path cannot panic.
FakeImpliesHandshake ==
    flow.fake_sent => flow.syn_seq # NoSeq /\ flow.syn_ack_seq # NoSeq

\* A flow is monitored exactly while its outcome is open, whichever of the two
\* threads closed it: a decided flow forwards every packet untouched.
MonitoredIffUndecided == flow.monitor <=> flow.outcome = "none"

\* Success is announced only when every stage the active method asked for has
\* happened: the fake is out, and a method that continues with data has seen
\* the first ClientHello packet, whatever ACKs arrived in between.
AckedMeansStagesDone ==
    flow.outcome = "FakeDataAcked" =>
        /\ EmitsFake(asked) => flow.fake_sent
        /\ asked \in {"emit_and_wait_for_data", "pass_through"} =>
               flow.first_data_modified
        /\ asked \notin {"none", "abort"}

\* User data is relayed only over a flow that was decided, and reported, as a
\* success, and the handler no longer tracks it.
RelayOnlyAfterSuccess ==
    task \in {"release", "relay"} =>
        /\ flow.outcome = "FakeDataAcked" /\ ~flow.monitor
        /\ reported = "FakeDataAcked"

\* Each stage rewrites at most one packet, however often ACKs and data are
\* retransmitted.
OneRewritePerStage == rewrites.ack <= 1 /\ rewrites.data <= 1

\* An outcome is never replaced, though the interceptor's late finish(), its
\* unexpected() and the task's finish() race for it, and the flow is not
\* monitored again.
OutcomeIsFinal ==
    [][/\ flow.outcome # "none" => flow'.outcome = flow.outcome
       /\ ~flow.monitor => ~flow'.monitor]_vars

\* No packet is modified after the decision, even by a thread that fetched the
\* entry before it was made and runs after the entry has left the table.
NoRewriteAfterDecision ==
    [][rewrites' # rewrites => flow.outcome = "none"]_vars

\* Whatever the interceptor does or fails to do, the task leaves the bypass
\* phase: it relays or fails.
TaskSettles == <>(task \in {"relay", "failed"})

\* A connection whose task cannot fail at set_nodelay tells the dashboard how
\* its bypass phase ended.
EventuallyReported ==
    ~(SegNodelay /\ method \in Segmenting) => <>(reported # "none")

\* The connection keeps the promise of BypassVerdict.
Verdicts == INSTANCE BypassVerdict WITH
    verdict <- flow.outcome,
    phase <- IF task \in {"relay", "failed"} THEN task ELSE "bypass"

ImplementsVerdict == Verdicts!FairSpec

(* What comments of the code claim and the code does not keep              *)

\* flow.rs: the outcome is what is "reported back to the proxy task", and is
\* final.  The outcome the task reports is the entry's.  Known not to hold: a
\* finish() between Poll and ArmNotify wakes nobody, and the task times out.
ReportedIsTheOutcome ==
    reported \in Outcome => reported = flow.outcome
=============================================================================
