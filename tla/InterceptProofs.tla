-------------------------- MODULE InterceptProofs ---------------------------
(***************************************************************************)
(* Safety of an intercepted flow, for every set of methods, every hook     *)
(* table and every size of the sequence space, and of the table its entry  *)
(* is in, for any number of connections and ports.                         *)
(***************************************************************************)
EXTENDS BypassFlow, FlowTable, TLAPS

(***************************************************************************)
(* The flow and its handler                                                *)
(***************************************************************************)

\* What has happened on the wire, given what the method asked for.
StagesDone ==
    /\ EmitsFake(asked) => flow.fake_sent
    /\ asked \in {"emit_and_wait_for_data", "pass_through"} =>
           flow.first_data_modified
    /\ asked \notin {"none", "abort"}

\* The handler's half of the inductive invariant: why a flow that waits for
\* data or confirms a fake has the history it needs to be called a success.
HandlerInv ==
    /\ MonitoredIffUndecided
    /\ FakeImpliesHandshake
    /\ thread = "finishing" => pending # "none"
    /\ flow.fake_sent <=> EmitsFake(asked)
    /\ flow.waiting_for_data =>
           asked \in {"emit_and_wait_for_data", "pass_through"}
    /\ asked \in {"emit_and_wait_for_data", "pass_through"} =>
           flow.waiting_for_data \/ flow.first_data_modified
    /\ thread = "finishing" /\ pending = "FakeDataAcked" => StagesDone
    /\ flow.outcome = "FakeDataAcked" => StagesDone

\* The rewrite counters follow the flags that guard them.
RewriteInv ==
    /\ rewrites.ack <= 1 /\ rewrites.data <= 1
    /\ ~flow.fake_sent => rewrites.ack = 0
    /\ ~flow.first_data_modified => rewrites.data = 0

\* The task's half: what it took from the entry is still there.
TaskInv ==
    /\ got \in Outcome => flow.outcome = got
    /\ task \in {"release", "relay"} =>
           got = "FakeDataAcked" /\ reported = "FakeDataAcked"

\* Only a task that waits holds a `notified()` future.
ArmedInv == task \notin {"arm_ready", "parked"} => armed = {}

IInv == TypeOK /\ HandlerInv /\ RewriteInv /\ TaskInv /\ ArmedInv

-----------------------------------------------------------------------------
(* The shared entry                                                        *)

\* finish() either leaves the entry alone or decides it; in both cases the
\* decision is the only thing that changes in the state.
LEMMA FinishEffect ==
    ASSUME TypeOK, NEW o \in Outcome, Finish(o)
    PROVE  /\ flow' \in FlowState
           /\ woken' \subseteq armed
           /\ \/ flow.outcome # "none" /\ flow' = flow
              \/ /\ flow.outcome = "none"
                 /\ flow' = [flow EXCEPT !.outcome = o, !.monitor = FALSE]
  BY DEF TypeOK, Finish, Decided, FlowState, NotifyWaiters, entryVars, Outcome

\* A monitored entry is undecided, so what the handler stages on it cannot
\* contradict what the task already read.
LEMMA TrackingFacts ==
    ASSUME IInv, Tracking
    PROVE  /\ flow.outcome = "none" /\ flow.monitor
           /\ got \notin Outcome
           /\ task \notin {"release", "relay"}
           /\ UNCHANGED method /\ UNCHANGED taskVars
           /\ thread = "fetched"
  BY DEF IInv, HandlerInv, TaskInv, MonitoredIffUndecided, Tracking, Outcome

-----------------------------------------------------------------------------
(* The inductive invariant                                                 *)

LEMMA InitIInv == Init => IInv
  BY DEF Init, IInv, TypeOK, HandlerInv, RewriteInv, TaskInv, ArmedInv, NewFlowState,
         FlowState, MonitoredIffUndecided, FakeImpliesHandshake, StagesDone,
         EmitsFake, Outcome, Signal

LEMMA PacketIInv ==
    ASSUME IInv, NEW p \in Captured, OnPacket(p)
    PROVE  IInv'
<1> USE SeqModAssumption, NoSeqAssumption, HooksAssumption
<1> p \in Packet
  BY DEF Captured
<1>1. CASE TrackSyn(p)
  BY <1>1, TrackingFacts DEF TrackSyn, IInv, TypeOK, HandlerInv, RewriteInv,
     TaskInv, ArmedInv, FlowState, Packet, MonitoredIffUndecided, FakeImpliesHandshake,
     StagesDone, Done, taskVars, Seq32
<1>2. CASE TrackSynAck(p)
  BY <1>2, TrackingFacts DEF TrackSynAck, IInv, TypeOK, HandlerInv, RewriteInv,
     TaskInv, ArmedInv, FlowState, Packet, MonitoredIffUndecided, FakeImpliesHandshake,
     StagesDone, Done, taskVars, Seq32
<1>3. CASE DeferToData(p)
  <2>1. /\ flow' \in FlowState /\ flow'.waiting_for_data
        /\ flow'.fake_sent = flow.fake_sent
        /\ flow'.outcome = flow.outcome /\ flow'.monitor = flow.monitor
        /\ flow'.first_data_modified = flow.first_data_modified
        /\ flow'.syn_seq = flow.syn_seq /\ flow'.syn_ack_seq = flow.syn_ack_seq
    BY <1>3 DEF DeferToData, IInv, TypeOK, FlowState
  <2>2. /\ ~flow.fake_sent /\ asked' = "pass_through" /\ thread' = "idle"
        /\ pending' = pending /\ rewrites' = rewrites /\ woken' \subseteq armed
    BY <1>3 DEF DeferToData, ValidHandshakeAck, Done, NotifyWaiters, IInv, TypeOK
  <2>3. TypeOK'
    BY <2>1, <2>2, TrackingFacts, <1>3
    DEF DeferToData, IInv, TypeOK, taskVars, MethodAction
  <2>4. HandlerInv'
    BY <2>1, <2>2, <1>3, TrackingFacts
    DEF DeferToData, IInv, HandlerInv, MonitoredIffUndecided,
        FakeImpliesHandshake, StagesDone, EmitsFake
  <2>5. RewriteInv' /\ TaskInv' /\ ArmedInv'
    BY <1>3, <2>1, <2>2, TrackingFacts
    DEF DeferToData, IInv, RewriteInv, TaskInv, ArmedInv, taskVars
  <2>6. QED
    BY <2>3, <2>4, <2>5 DEF IInv
<1>4. CASE ForwardFirstData(p)
  BY <1>4, TrackingFacts DEF ForwardFirstData, IInv, TypeOK, HandlerInv,
     RewriteInv, TaskInv, ArmedInv, MonitoredIffUndecided, FakeImpliesHandshake,
     StagesDone, Done, taskVars, entryVars
<1>5. CASE ConfirmFake(p)
  BY <1>5, TrackingFacts DEF ConfirmFake, ValidFakeAck, IInv, TypeOK,
     HandlerInv, RewriteInv, TaskInv, ArmedInv, MonitoredIffUndecided,
     FakeImpliesHandshake, StagesDone, Done, FinishUnlocked, taskVars,
     entryVars, EmitsFake, Outcome
<1>6. CASE UnexpectedPacket(p)
  <2>1. /\ flow' \in FlowState /\ woken' \subseteq armed
        /\ flow' = [flow EXCEPT !.outcome = "UnexpectedClose", !.monitor = FALSE]
    BY <1>6, TrackingFacts, FinishEffect
    DEF UnexpectedPacket, IInv, Outcome
  <2>2. /\ flow'.outcome = "UnexpectedClose" /\ ~flow'.monitor
        /\ flow'.fake_sent = flow.fake_sent
        /\ flow'.waiting_for_data = flow.waiting_for_data
        /\ flow'.first_data_modified = flow.first_data_modified
        /\ flow'.syn_seq = flow.syn_seq /\ flow'.syn_ack_seq = flow.syn_ack_seq
    BY <2>1 DEF IInv, TypeOK, FlowState
  <2>3. TypeOK'
    BY <1>6, <2>1, TrackingFacts DEF UnexpectedPacket, IInv, TypeOK, Done, taskVars
  <2>4. HandlerInv'
    BY <1>6, <2>2, TrackingFacts
    DEF UnexpectedPacket, IInv, HandlerInv, Done, MonitoredIffUndecided,
        FakeImpliesHandshake, StagesDone
  <2>5. RewriteInv' /\ TaskInv' /\ ArmedInv'
    BY <1>6, <2>2, TrackingFacts
    DEF UnexpectedPacket, IInv, RewriteInv, TaskInv, ArmedInv, taskVars
  <2>6. QED
    BY <2>3, <2>4, <2>5 DEF IInv
<1>7. ASSUME NEW a \in MethodAction, EmitFake(p, a)
      PROVE  IInv'
  <2>1. /\ flow' \in FlowState
        /\ flow'.fake_sent
        /\ flow'.waiting_for_data <=>
               flow.waiting_for_data \/ a = "emit_and_wait_for_data"
        /\ flow'.outcome = flow.outcome /\ flow'.monitor = flow.monitor
        /\ flow'.first_data_modified = flow.first_data_modified
        /\ flow'.syn_seq = flow.syn_seq /\ flow'.syn_ack_seq = flow.syn_ack_seq
    BY <1>7 DEF EmitFake, IInv, TypeOK, FlowState
  <2>2. /\ ~flow.fake_sent /\ ~flow.waiting_for_data
        /\ flow.syn_seq # NoSeq /\ flow.syn_ack_seq # NoSeq
        /\ asked' = a /\ EmitsFake(a)
    BY <1>7 DEF EmitFake, ValidHandshakeAck
  <2>3. rewrites.ack = 0
    BY <2>2 DEF IInv, RewriteInv
  <2>4. /\ rewrites' \in [ack : 0 .. 2, data : 0 .. 2]
        /\ rewrites'.ack = 1 /\ rewrites'.data = rewrites.data
    BY <1>7, <2>3 DEF EmitFake, IInv, TypeOK, Count
  <2>5. /\ thread' \in {"idle", "finishing"}
        /\ pending' \in Outcome \union {"none"}
        /\ woken' \subseteq armed
        /\ thread' = "finishing" => /\ pending' = "FakeDataAcked"
                                   /\ a = "emit_and_complete"
    BY <1>7 DEF EmitFake, Done, FinishUnlocked, NotifyWaiters, IInv, TypeOK,
       Outcome
  <2>6. TypeOK'
    BY <2>1, <2>2, <2>4, <2>5, TrackingFacts, <1>7
    DEF EmitFake, IInv, TypeOK, taskVars
  <2>7. HandlerInv'
    <3>1. /\ flow'.outcome = "none" /\ flow'.monitor
          /\ flow'.waiting_for_data <=> a = "emit_and_wait_for_data"
      BY <2>1, <2>2, TrackingFacts, <1>7 DEF EmitFake
    <3>2. /\ MonitoredIffUndecided' /\ FakeImpliesHandshake'
          /\ thread' = "finishing" => pending' # "none"
      BY <3>1, <2>1, <2>2, <2>5 DEF MonitoredIffUndecided, FakeImpliesHandshake
    <3>3. EmitsFake(asked') /\ asked' \notin {"pass_through", "none", "abort"}
      BY <2>2 DEF EmitsFake
    <3>4. thread' = "finishing" => StagesDone'
      BY <3>3, <2>1, <2>2, <2>5 DEF StagesDone
    <3>5. QED
      BY <3>1, <3>2, <3>3, <3>4, <2>1, <2>2 DEF HandlerInv
  <2>8. RewriteInv' /\ TaskInv' /\ ArmedInv'
    BY <1>7, <2>1, <2>4, TrackingFacts
    DEF EmitFake, IInv, RewriteInv, TaskInv, ArmedInv, taskVars
  <2>9. QED
    BY <2>6, <2>7, <2>8 DEF IInv
<1>8. ASSUME NEW a \in MethodAction, FinishAtHandshake(p, a)
      PROVE  IInv'
  BY <1>8, TrackingFacts DEF FinishAtHandshake, ValidHandshakeAck, IInv,
     TypeOK, HandlerInv, RewriteInv, TaskInv, ArmedInv, MonitoredIffUndecided,
     FakeImpliesHandshake, StagesDone, FinishUnlocked, taskVars, entryVars,
     EmitsFake, Outcome, Verdict
<1>9. ASSUME NEW a \in MethodAction, RewriteFirstData(p, a)
      PROVE  IInv'
  <2>1. /\ flow' \in FlowState
        /\ flow'.first_data_modified /\ ~flow'.waiting_for_data
        /\ flow'.fake_sent = flow.fake_sent
        /\ flow'.outcome = flow.outcome /\ flow'.monitor = flow.monitor
        /\ flow'.syn_seq = flow.syn_seq /\ flow'.syn_ack_seq = flow.syn_ack_seq
    BY <1>9 DEF RewriteFirstData, FirstDataSeen, IInv, TypeOK, FlowState
  <2>2. /\ flow.waiting_for_data /\ ~flow.first_data_modified
        /\ asked \in {"emit_and_wait_for_data", "pass_through"}
        /\ asked' = asked /\ woken' = woken
    BY <1>9 DEF RewriteFirstData, ValidFirstData, IInv, HandlerInv
  <2>3. rewrites.data = 0
    BY <2>2 DEF IInv, RewriteInv
  <2>4. /\ rewrites' \in [ack : 0 .. 2, data : 0 .. 2]
        /\ rewrites'.data = 1 /\ rewrites'.ack = rewrites.ack
    BY <1>9, <2>3 DEF RewriteFirstData, IInv, TypeOK, Count
  <2>5. /\ thread' \in {"idle", "finishing"}
        /\ pending' \in Outcome \union {"none"}
        /\ thread' = "finishing" => pending' = "FakeDataAcked"
    BY <1>9 DEF RewriteFirstData, Done, FinishUnlocked, IInv, TypeOK, Outcome
  <2>6. TypeOK'
    BY <2>1, <2>2, <2>4, <2>5, TrackingFacts, <1>9
    DEF RewriteFirstData, IInv, TypeOK, taskVars
  <2>7. HandlerInv'
    BY <2>1, <2>2, <2>5, <1>9, TrackingFacts
    DEF IInv, HandlerInv, MonitoredIffUndecided, FakeImpliesHandshake,
        StagesDone, EmitsFake, Outcome
  <2>8. RewriteInv' /\ TaskInv' /\ ArmedInv'
    BY <1>9, <2>1, <2>4, TrackingFacts
    DEF RewriteFirstData, IInv, RewriteInv, TaskInv, ArmedInv, taskVars
  <2>9. QED
    BY <2>6, <2>7, <2>8 DEF IInv
<1>10. ASSUME NEW a \in MethodAction, FinishAtFirstData(p, a)
       PROVE  IInv'
  <2>1. /\ flow' \in FlowState
        /\ flow'.first_data_modified /\ ~flow'.waiting_for_data
        /\ flow'.fake_sent = flow.fake_sent
        /\ flow'.outcome = flow.outcome /\ flow'.monitor = flow.monitor
        /\ flow'.syn_seq = flow.syn_seq /\ flow'.syn_ack_seq = flow.syn_ack_seq
    BY <1>10 DEF FinishAtFirstData, FirstDataSeen, IInv, TypeOK, FlowState
  <2>2. /\ asked \in {"emit_and_wait_for_data", "pass_through"}
        /\ asked' = asked /\ woken' = woken /\ rewrites' = rewrites
    BY <1>10 DEF FinishAtFirstData, ValidFirstData, IInv, HandlerInv
  <2>3. /\ thread' = "finishing"
        /\ pending' \in Outcome
    BY <1>10 DEF FinishAtFirstData, FinishUnlocked, Verdict, Outcome
  <2>4. TypeOK'
    BY <2>1, <2>2, <2>3, TrackingFacts, <1>10
    DEF FinishAtFirstData, IInv, TypeOK, taskVars
  <2>5. HandlerInv'
    BY <2>1, <2>2, <2>3, <1>10, TrackingFacts
    DEF IInv, HandlerInv, MonitoredIffUndecided, FakeImpliesHandshake,
        StagesDone, EmitsFake, Outcome
  <2>6. RewriteInv' /\ TaskInv' /\ ArmedInv'
    BY <1>10, <2>1, <2>2, TrackingFacts
    DEF FinishAtFirstData, IInv, RewriteInv, TaskInv, ArmedInv, taskVars
  <2>7. QED
    BY <2>4, <2>5, <2>6 DEF IInv
<1>11. QED
  BY <1>1, <1>2, <1>3, <1>4, <1>5, <1>6, <1>7, <1>8, <1>9, <1>10 DEF OnPacket

LEMMA FinishPendingIInv == ASSUME IInv, FinishPending PROVE IInv'
<1>1. pending \in Outcome
  BY DEF FinishPending, IInv, TypeOK, HandlerInv
<1>2. /\ flow' \in FlowState /\ woken' \subseteq armed
      /\ \/ flow.outcome # "none" /\ flow' = flow
         \/ /\ flow.outcome = "none"
            /\ flow' = [flow EXCEPT !.outcome = pending, !.monitor = FALSE]
  BY <1>1, FinishEffect DEF FinishPending, IInv
<1>3. /\ flow'.fake_sent = flow.fake_sent
      /\ flow'.waiting_for_data = flow.waiting_for_data
      /\ flow'.first_data_modified = flow.first_data_modified
      /\ flow'.syn_seq = flow.syn_seq /\ flow'.syn_ack_seq = flow.syn_ack_seq
      /\ \/ /\ flow.outcome # "none"
            /\ flow'.outcome = flow.outcome /\ flow'.monitor = flow.monitor
         \/ /\ flow.outcome = "none"
            /\ flow'.outcome = pending /\ ~flow'.monitor
  BY <1>2 DEF IInv, TypeOK, FlowState
<1>4. TypeOK'
  BY <1>2 DEF FinishPending, IInv, TypeOK, taskVars
<1>5. HandlerInv'
  BY <1>1, <1>3 DEF FinishPending, IInv, HandlerInv, MonitoredIffUndecided,
     FakeImpliesHandshake, StagesDone, Outcome
<1>6. RewriteInv' /\ TaskInv' /\ ArmedInv'
  BY <1>3 DEF FinishPending, IInv, RewriteInv, TaskInv, ArmedInv, taskVars, Outcome
<1>7. QED
  BY <1>4, <1>5, <1>6 DEF IInv

LEMMA InterceptorIInv == ASSUME IInv, Interceptor PROVE IInv'
<1>1. CASE Fetch
  BY <1>1 DEF Fetch, IInv, TypeOK, HandlerInv, RewriteInv, TaskInv, ArmedInv,
     MonitoredIffUndecided, FakeImpliesHandshake, StagesDone, entryVars, taskVars
<1>2. CASE Released
  BY <1>2 DEF Released, IInv, TypeOK, HandlerInv, RewriteInv, TaskInv, ArmedInv,
     MonitoredIffUndecided, FakeImpliesHandshake, StagesDone, entryVars, taskVars
<1>3. QED
  BY <1>1, <1>2, FinishPendingIInv, PacketIInv DEF Interceptor

\* A task that fails decides the entry unless the handler already has.
LEMMA FailIInv ==
    ASSUME IInv, NEW from \in {"connect", "read_hello", "sending", "settle"},
           NEW event \in Outcome \union {"ConnectionError"}, Fail(from, event)
    PROVE  IInv'
<1>1. /\ flow' \in FlowState /\ woken' \subseteq armed
      /\ \/ flow.outcome # "none" /\ flow' = flow
         \/ /\ flow.outcome = "none"
            /\ flow' = [flow EXCEPT !.outcome = "UnexpectedClose",
                                    !.monitor = FALSE]
  BY FinishEffect DEF Fail, IInv, Outcome
<1>2. /\ flow'.fake_sent = flow.fake_sent
      /\ flow'.waiting_for_data = flow.waiting_for_data
      /\ flow'.first_data_modified = flow.first_data_modified
      /\ flow'.syn_seq = flow.syn_seq /\ flow'.syn_ack_seq = flow.syn_ack_seq
      /\ \/ /\ flow.outcome # "none"
            /\ flow'.outcome = flow.outcome /\ flow'.monitor = flow.monitor
         \/ /\ flow.outcome = "none"
            /\ flow'.outcome = "UnexpectedClose" /\ ~flow'.monitor
  BY <1>1 DEF IInv, TypeOK, FlowState
<1>3. /\ task = from /\ task' = "return_err" /\ reported' = event /\ got' = got
      /\ UNCHANGED <<method, registered, stage, armed>>
      /\ UNCHANGED threadVars
  BY DEF Fail, Goto
<1>4. TypeOK'
  BY <1>1, <1>3 DEF IInv, TypeOK, threadVars
<1>5. HandlerInv'
  BY <1>2, <1>3 DEF IInv, HandlerInv, MonitoredIffUndecided,
     FakeImpliesHandshake, StagesDone, threadVars
<1>6. RewriteInv' /\ TaskInv' /\ ArmedInv'
  BY <1>2, <1>3 DEF IInv, RewriteInv, TaskInv, ArmedInv, threadVars, Outcome
<1>7. QED
  BY <1>4, <1>5, <1>6 DEF IInv

\* A step of the task that only moves its program counter, away from the two
\* that need a success.
LEMMA QuietIInv ==
    ASSUME IInv, UNCHANGED flow, UNCHANGED method, UNCHANGED threadVars,
           task' \notin {"release", "relay"}, got' \in Outcome => got' = flow.outcome,
           TypeOK', ArmedInv'
    PROVE  IInv'
  BY DEF IInv, HandlerInv, RewriteInv, TaskInv, ArmedInv, MonitoredIffUndecided,
     FakeImpliesHandshake, StagesDone, threadVars

LEMMA TaskIInv == ASSUME IInv, Task PROVE IInv'
<1> USE DEF Goto, entryVars
<1>1. CASE Connected \/ ArmNotify \/ ArmReady \/ Wake \/ TimeOut
  <2>1. TypeOK'
    <3>1. CASE Connected
      BY <3>1 DEF Connected, IInv, TypeOK, threadVars
    <3>2. CASE ArmNotify \/ ArmReady
      BY <3>2 DEF ArmNotify, ArmReady, IInv, TypeOK, ArmedInv, threadVars,
         Signal
    <3>3. CASE Wake \/ TimeOut
      BY <3>3 DEF Wake, TimeOut, IInv, TypeOK, threadVars
    <3>4. QED
      BY <1>1, <3>1, <3>2, <3>3
  <2>2. /\ UNCHANGED <<flow, method>> /\ UNCHANGED threadVars
        /\ task' \notin {"release", "relay"}
        /\ got' = got \/ got' = "timeout"
        /\ ArmedInv'
    BY <1>1 DEF IInv, ArmedInv, Connected, ArmNotify, ArmReady, Wake, TimeOut
  <2>3. QED
    BY <2>1, <2>2, QuietIInv DEF IInv, TaskInv, ArmedInv, Outcome
<1>2. CASE Poll
  <2>1. TypeOK'
    BY <1>2 DEF Poll, IInv, TypeOK, FlowState, threadVars
  <2>2. /\ UNCHANGED <<flow, method>> /\ UNCHANGED threadVars
        /\ task' \notin {"release", "relay"}
        /\ got' = got \/ got' = flow.outcome
        /\ ArmedInv'
    BY <1>2 DEF IInv, ArmedInv, Poll
  <2>3. QED
    BY <2>1, <2>2, QuietIInv DEF IInv, TaskInv, ArmedInv
<1>3. CASE ReadHello \/ SendHello \/ HelloSent \/ NodelayFails \/ SettleClosed
  <2>1. TypeOK'
    BY <1>3 DEF ReadHello, SendHello, HelloSent, NodelayFails, SettleClosed,
       IInv, TypeOK, threadVars, Outcome
  <2>2. /\ UNCHANGED <<flow, method>> /\ UNCHANGED threadVars
        /\ task' \notin {"release", "relay"} /\ got' = got
        /\ ArmedInv'
    BY <1>3 DEF IInv, ArmedInv, ReadHello, SendHello, HelloSent, NodelayFails, SettleClosed
  <2>3. QED
    BY <2>1, <2>2, QuietIInv DEF IInv, TaskInv, ArmedInv
<1>4. CASE ConnectFails \/ ReadHelloFails \/ SendHelloFails \/ SettleTimeout
  BY <1>4, FailIInv DEF ConnectFails, ReadHelloFails, SendHelloFails,
     SettleTimeout, Outcome
<1>5. CASE SettleOk
  BY <1>5 DEF SettleOk, IInv, TypeOK, HandlerInv, RewriteInv, TaskInv, ArmedInv,
     MonitoredIffUndecided, FakeImpliesHandshake, StagesDone, threadVars,
     Outcome
<1>6. CASE StartRelay
  <2>1. /\ task = "release" /\ task' = "relay" /\ registered' = FALSE
        /\ UNCHANGED <<method, flow, stage, armed, woken, got, reported>>
        /\ UNCHANGED threadVars
    BY <1>6 DEF StartRelay, Release
  <2>2. TypeOK'
    BY <2>1 DEF IInv, TypeOK, threadVars
  <2>3. HandlerInv' /\ RewriteInv' /\ TaskInv' /\ ArmedInv'
    BY <2>1 DEF IInv, HandlerInv, RewriteInv, TaskInv, ArmedInv, MonitoredIffUndecided,
       FakeImpliesHandshake, StagesDone, threadVars
  <2>4. QED
    BY <2>2, <2>3 DEF IInv
<1>7. CASE ReturnErr
  <2>1. TypeOK'
    BY <1>7 DEF ReturnErr, Release, IInv, TypeOK, threadVars
  <2>2. QED
    BY <1>7, <2>1, QuietIInv
    DEF ReturnErr, Release, IInv, TaskInv, ArmedInv
<1>8. QED
  BY <1>1, <1>2, <1>3, <1>4, <1>5, <1>6, <1>7 DEF Task

LEMMA StepIInv == IInv /\ [Next]_vars => IInv'
<1> SUFFICES ASSUME IInv, [Next]_vars PROVE IInv'
  OBVIOUS
<1>1. CASE UNCHANGED vars
  BY <1>1 DEF vars, IInv, TypeOK, HandlerInv, RewriteInv, TaskInv, ArmedInv,
     MonitoredIffUndecided, FakeImpliesHandshake, StagesDone
<1>2. QED
  BY <1>1, InterceptorIInv, TaskIInv DEF Next, Terminated

LEMMA Invariant == Spec => []IInv
  BY InitIInv, StepIInv, PTL DEF Spec

-----------------------------------------------------------------------------
(* Theorems                                                                *)

\* Every reachable state is well typed: a timeout of the wait never reaches the
\* dashboard as such.
THEOREM TypeCorrect == Spec => []TypeOK
  BY Invariant, PTL DEF IInv

\* The handler dereferences the initial sequence numbers only when it has them.
THEOREM HandshakeBeforeFake == Spec => []FakeImpliesHandshake
<1>1. IInv => FakeImpliesHandshake
  BY DEF IInv, HandlerInv
<1>2. QED
  BY <1>1, Invariant, PTL

\* The interceptor tracks a flow exactly while its outcome is open.
THEOREM MonitoredWhileOpen == Spec => []MonitoredIffUndecided
<1>1. IInv => MonitoredIffUndecided
  BY DEF IInv, HandlerInv
<1>2. QED
  BY <1>1, Invariant, PTL

\* A bypass called a success has gone through every stage its method asked for.
THEOREM SuccessIsEarned == Spec => []AckedMeansStagesDone
<1>1. IInv => AckedMeansStagesDone
  BY DEF IInv, HandlerInv, StagesDone, AckedMeansStagesDone
<1>2. QED
  BY <1>1, Invariant, PTL

\* No user data flows over a connection whose bypass was not judged a success.
THEOREM RelayIsEarned == Spec => []RelayOnlyAfterSuccess
<1>1. IInv => RelayOnlyAfterSuccess
  BY DEF IInv, HandlerInv, MonitoredIffUndecided, TaskInv, Outcome,
     RelayOnlyAfterSuccess
<1>2. QED
  BY <1>1, Invariant, PTL

\* Retransmissions never make the handler rewrite a second packet of a stage.
THEOREM RewritesOnce == Spec => []OneRewritePerStage
<1>1. IInv => OneRewritePerStage
  BY DEF IInv, RewriteInv, OneRewritePerStage
<1>2. QED
  BY <1>1, Invariant, PTL

\* Every step of the thread or of the task that touches a decided entry leaves
\* the decision alone.
LEMMA StepKeepsOutcome ==
    ASSUME IInv, [Next]_vars, flow.outcome # "none"
    PROVE  flow' = flow /\ rewrites' = rewrites
<1>1. ~flow.monitor
  BY DEF IInv, HandlerInv, MonitoredIffUndecided
<1>2. CASE \E p \in Captured : OnPacket(p)
  BY <1>1, <1>2 DEF OnPacket, TrackSyn, TrackSynAck, DeferToData, ForwardFirstData,
     ConfirmFake, UnexpectedPacket, EmitFake, FinishAtHandshake,
     RewriteFirstData, FinishAtFirstData, Tracking
<1>3. CASE Fetch \/ Released \/ FinishPending
  BY <1>3 DEF Fetch, Released, FinishPending, Finish, entryVars
<1>4. CASE ConnectFails \/ ReadHelloFails \/ SendHelloFails \/ SettleTimeout
  BY <1>4 DEF ConnectFails, ReadHelloFails, SendHelloFails, SettleTimeout, Fail,
     Goto, Finish, entryVars, threadVars
<1>5. CASE Connected \/ Poll \/ ArmNotify \/ ArmReady \/ Wake \/ TimeOut
  BY <1>5 DEF Connected, Poll, ArmNotify, ArmReady, Wake, TimeOut, Goto,
     entryVars, threadVars
<1>6. CASE ReadHello \/ SendHello \/ HelloSent \/ NodelayFails \/ SettleOk
           \/ SettleClosed \/ StartRelay \/ ReturnErr
  BY <1>6 DEF ReadHello, SendHello, HelloSent, NodelayFails, SettleOk,
     SettleClosed, StartRelay, ReturnErr, Release, Goto, entryVars, threadVars
<1>7. CASE Terminated \/ UNCHANGED vars
  BY <1>7 DEF Terminated, vars
<1>8. QED
  BY <1>2, <1>3, <1>4, <1>5, <1>6, <1>7 DEF Next, Interceptor, Task

\* The decision on a flow is final, whichever of finish() and unexpected() comes
\* late, and tracking never resumes.
THEOREM DecisionIsFinal == Spec => OutcomeIsFinal
<1>1. IInv /\ [Next]_vars =>
        [/\ flow.outcome # "none" => flow'.outcome = flow.outcome
         /\ ~flow.monitor => ~flow'.monitor]_vars
  BY StepKeepsOutcome DEF IInv, HandlerInv, MonitoredIffUndecided
<1>2. QED
  BY <1>1, Invariant, PTL DEF Spec, OutcomeIsFinal

\* Packets of a decided flow are forwarded untouched.
THEOREM NoLateRewrite == Spec => NoRewriteAfterDecision
<1>1. IInv /\ [Next]_vars =>
        [rewrites' # rewrites => flow.outcome = "none"]_vars
  BY StepKeepsOutcome
<1>2. QED
  BY <1>1, Invariant, PTL DEF Spec, NoRewriteAfterDecision

-----------------------------------------------------------------------------
(* Refinement of BypassVerdict                                             *)

phase == IF task \in {"relay", "failed"} THEN task ELSE "bypass"

\* The interceptor never moves the phase, and decides at most an open flow.
LEMMA InterceptorVerdict ==
    ASSUME IInv, Interceptor
    PROVE  [Verdicts!Next]_<<flow.outcome, phase>>
<1>1. UNCHANGED task
  BY DEF Interceptor, Fetch, Released, FinishPending, OnPacket, TrackSyn,
     TrackSynAck, DeferToData, ForwardFirstData, ConfirmFake, UnexpectedPacket,
     EmitFake, FinishAtHandshake, RewriteFirstData, FinishAtFirstData, Tracking,
     taskVars
<1>2. flow.outcome # "none" => flow'.outcome = flow.outcome
  BY StepKeepsOutcome DEF Next
<1>3. flow.outcome = "none" => task # "relay"
  BY DEF IInv, TaskInv, Outcome
<1>4. flow'.outcome \in Outcome \union {"none"}
  BY InterceptorIInv DEF IInv, TypeOK, FlowState
<1>5. QED
  BY <1>1, <1>2, <1>3, <1>4 DEF Verdicts!Next, Verdicts!Judge, phase, Outcome

\* The task decides an open flow before it leaves the bypass phase, and leaves it
\* once.
LEMMA TaskVerdict ==
    ASSUME IInv, Task
    PROVE  [Verdicts!Next]_<<flow.outcome, phase>>
<1>1. CASE StartRelay
  BY <1>1 DEF StartRelay, Release, Goto, IInv, TaskInv, entryVars, Outcome, phase,
     Verdicts!Next, Verdicts!Relay
<1>2. CASE ReturnErr
  BY <1>2 DEF ReturnErr, Release, Goto, entryVars, phase, Verdicts!Next,
     Verdicts!Fail
<1>3. CASE ConnectFails \/ ReadHelloFails \/ SendHelloFails \/ SettleTimeout
  <2>1. task \notin {"relay", "failed"} /\ task' = "return_err"
    BY <1>3 DEF ConnectFails, ReadHelloFails, SendHelloFails, SettleTimeout, Fail,
       Goto
  <2>2. flow.outcome # "none" => flow'.outcome = flow.outcome
    BY StepKeepsOutcome DEF Next
  <2>3. flow'.outcome \in Outcome \union {"none"}
    BY TaskIInv DEF IInv, TypeOK, FlowState
  <2>4. QED
    BY <2>1, <2>2, <2>3 DEF Verdicts!Next, Verdicts!Judge, phase, Outcome
<1>4. CASE Connected \/ Poll \/ ArmNotify \/ ArmReady \/ Wake \/ TimeOut
  BY <1>4 DEF Connected, Poll, ArmNotify, ArmReady, Wake, TimeOut, Goto,
     entryVars, phase
<1>5. CASE ReadHello \/ SendHello \/ HelloSent \/ NodelayFails \/ SettleOk
           \/ SettleClosed
  BY <1>5 DEF ReadHello, SendHello, HelloSent, NodelayFails, SettleOk,
     SettleClosed, Goto, entryVars, phase
<1>6. QED
  BY <1>1, <1>2, <1>3, <1>4, <1>5 DEF Task

\* Every behaviour of the connection, packets and wakeups hidden, is one
\* BypassVerdict allows: judged once, relayed only after a success.
THEOREM ImplementsVerdictSafely == Spec => Verdicts!Spec
<1>1. Init => Verdicts!Init
  BY DEF Init, NewFlowState, Verdicts!Init
<1>2. IInv /\ [Next]_vars => [Verdicts!Next]_<<flow.outcome, phase>>
  BY InterceptorVerdict, TaskVerdict DEF Next, Terminated, vars, phase
<1>3. QED
  BY <1>1, <1>2, Invariant, PTL DEF Spec, Verdicts!Spec, phase

(***************************************************************************)
(* The flow table                                                          *)
(***************************************************************************)

HoldsSocket == {"bound", "bypass", "release", "relay"}

\* A task holds its socket in exactly these phases, and knows its port until its
\* guard has run.
SocketInv ==
    \A c \in Conns :
        /\ c \in open <=> pc[c] \in HoldsSocket
        /\ pc[c] \in HoldsSocket \union {"cleanup"} => port[c] \in Ports

\* An entry is under the port of the task that inserted it.
KeyInv ==
    \A p \in Ports : table[p] # None => port[table[p]] = p

TableInv == /\ TableTypeOK /\ SocketInv /\ PortsExclusive /\ KeyInv
        /\ NoForeignEntry /\ RelayIsUntracked /\ NoLeak

LEMMA InitTableInv == TableInit => TableInv
  BY NoneAssumption
  DEF TableInit, TableInv, TableTypeOK, Phase, SocketInv, HoldsSocket, PortsExclusive, KeyInv,
      NoForeignEntry, RelayIsUntracked, NoLeak, Lookup

LEMMA StepTableInv == ASSUME TableInv, NEW c \in Conns, Step(c) PROVE TableInv'
<1> USE NoneAssumption DEF TableInv, TableTypeOK, Phase, SocketInv, HoldsSocket,
        PortsExclusive, KeyInv, NoForeignEntry, RelayIsUntracked, NoLeak, Lookup,
        Move
<1>1. CASE Bind(c)
  <2>1. PICK p \in FreePorts : port' = [port EXCEPT ![c] = p]
    BY <1>1 DEF Bind
  <2>2. \A d \in open : port[d] # p /\ d # c
    BY <1>1, <2>1 DEF Bind, FreePorts
  <2>3. \A q \in Ports : table[q] # c
    BY <1>1 DEF Bind
  <2>4. QED
    BY <1>1, <2>1, <2>2, <2>3 DEF Bind, FreePorts
<1>2. CASE BindFails(c)
  BY <1>2 DEF BindFails
<1>3. CASE Insert(c)
  BY <1>3 DEF Insert
<1>4. CASE BypassSucceeds(c)
  BY <1>4 DEF BypassSucceeds
<1>5. CASE ReleaseEntry(c)
  BY <1>5 DEF ReleaseEntry
<1>6. CASE RelayEnds(c)
  BY <1>6 DEF RelayEnds
<1>7. CASE BypassFails(c)
  BY <1>7 DEF BypassFails
<1>8. CASE RemoveKey(c)
  BY <1>8 DEF RemoveKey
<1>9. QED
  BY <1>1, <1>2, <1>3, <1>4, <1>5, <1>6, <1>7, <1>8 DEF Step

LEMMA TableInvariant == TableSpec => []TableInv
<1>1. TableInv /\ UNCHANGED tableVars => TableInv'
  BY DEF tableVars, TableInv, TableTypeOK, SocketInv, PortsExclusive, KeyInv, NoForeignEntry,
     RelayIsUntracked, NoLeak, Lookup
<1>2. TableInv /\ [TableNext]_tableVars => TableInv'
  BY <1>1, StepTableInv DEF TableNext, TableTerminated
<1>3. QED
  BY <1>2, InitTableInv, PTL DEF TableSpec

\* However ports are reused, the interceptor never tracks the packets of one
\* connection with the entry of another.
THEOREM EntriesAreNotMixed == TableSpec => []NoForeignEntry
  BY TableInvariant, PTL DEF TableInv

\* A connection that relays user data is under no key of the table, whoever held
\* its port before.
THEOREM RelayUntouched == TableSpec => []RelayIsUntracked
  BY TableInvariant, PTL DEF TableInv

\* Every entry belongs to a task whose scope guard is still to run.
THEOREM NoEntryLeaks == TableSpec => []NoLeak
  BY TableInvariant, PTL DEF TableInv
=============================================================================
