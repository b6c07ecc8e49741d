------------------------------ MODULE ProxyTest ------------------------------
(***************************************************************************)
(* Phase 2 of the proxy_scan mode: the candidates are tested one after the *)
(* other in a blocking task with a runtime of its own.  Each test opens an *)
(* interceptor, starts the proxy, requests a URL through the local SOCKS   *)
(* proxy within a timeout, and aborts the proxy.  Without a screen the     *)
(* mode waits for the task's list; with one, the first draw panics.        *)
(*                                                                         *)
(* The measurements of an entry are abstracted to whether the engine opened*)
(* and whether the probe was answered.                                     *)
(***************************************************************************)
EXTENDS Interceptor, Sequences

CONSTANT Count   \* number of candidates that passed phase 1

ASSUME CountAssumption == Count \in Nat \ {0}
ASSUME EnginesAssumption == Engines = 1..Count

VARIABLES
    fragments,  \* BYPASS_METHOD is tls_frag: no interceptor is needed
    attended,   \* there is a screen
    pc,         \* where the tester is
    cur,        \* the candidate under test
    entry,      \* its entry
    results,    \* the entries so far
    task,       \* the blocking task: running, finished
    caller,     \* proxy_scan_main: waiting, panicked, or going on with the results
    process     \* running, exiting, ended

testerVars == <<pc, cur, entry, results>>
vars == <<engineVars, fragments, attended, testerVars, task, caller, process>>

NoEntry == [cand |-> 0, engine |-> FALSE, ok |-> FALSE]

Init ==
    /\ EngineInit
    /\ fragments \in BOOLEAN /\ attended \in BOOLEAN
    /\ pc = "next" /\ cur = 0 /\ entry = NoEntry /\ results = <<>>
    /\ task = "running" /\ caller = "waiting" /\ process = "running"

At(from, to) == pc = from /\ pc' = to

TesterOnly == UNCHANGED <<fragments, attended, task, caller, process>>

-----------------------------------------------------------------------------
(* The tester                                                              *)

NextCandidate ==
    /\ cur < Count
    /\ cur' = cur + 1
    /\ IF fragments
       THEN At("next", "probing") /\ UNCHANGED engineVars
       ELSE At("next", "opening") /\ StartOpen(cur + 1)
    /\ UNCHANGED <<entry, results>> /\ TesterOnly

OpenStep ==
    /\ pc = "opening" /\ EngineSteps
    /\ UNCHANGED testerVars /\ TesterOnly

FailUnopened ==
    /\ At("opening", "reporting")
    /\ CloseFailed
    /\ entry' = [cand |-> cur, engine |-> FALSE, ok |-> FALSE]
    /\ UNCHANGED <<cur, results>> /\ TesterOnly

\* The result of spawning the thread is not looked at.
StartThread ==
    /\ At("opening", "probing")
    /\ StartReading(cur) \/ SpawnFails(cur)
    /\ UNCHANGED <<cur, entry, results>> /\ TesterOnly

EndProbe(ok) ==
    /\ At("probing", "reporting")
    /\ entry' = [cand |-> cur, engine |-> TRUE, ok |-> ok]
    /\ UNCHANGED <<cur, results>> /\ UNCHANGED engineVars /\ TesterOnly

\* The SOCKS proxy answers, or refuses; nothing makes it.
Answer == \E ok \in BOOLEAN : EndProbe(ok)

\* Mutant: the probe has no timeout.
NeverTimeOut == FALSE /\ EndProbe(FALSE)

TimeOut == EndProbe(FALSE)

\* The entry is also sent to the screen, which takes it or is gone.
Report ==
    /\ At("reporting", "next")
    /\ results' = Append(results, entry)
    /\ UNCHANGED <<cur, entry>> /\ UNCHANGED engineVars /\ TesterOnly

Return ==
    /\ At("next", "done") /\ cur = Count
    /\ task' = "finished"
    /\ UNCHANGED <<cur, entry, results, fragments, attended, caller, process>>
    /\ UNCHANGED engineVars

\* Earlier interceptors read on beside the tests.
LoseReader ==
    /\ \E e \in Engines : ReadFails(e)
    /\ UNCHANGED testerVars /\ TesterOnly

-----------------------------------------------------------------------------
(* The caller and the end of the process                                   *)

CallerOnly ==
    /\ UNCHANGED <<fragments, attended, task>>
    /\ UNCHANGED testerVars /\ UNCHANGED engineVars

\* The progress screen puts its help line in the fourth of three areas.
Draw ==
    /\ attended /\ caller = "waiting"
    /\ caller' = "panicked"
    /\ UNCHANGED process /\ CallerOnly

Await ==
    /\ ~attended /\ caller = "waiting" /\ task = "finished"
    /\ caller' = "returned"
    /\ UNCHANGED process /\ CallerOnly

\* Returning or unwinding, the caller drops the runtime.
Exit ==
    /\ process = "running" /\ caller # "waiting"
    /\ process' = "exiting"
    /\ UNCHANGED caller /\ CallerOnly

\* Dropping the runtime waits for its blocking tasks.
End ==
    /\ process = "exiting" /\ task = "finished"
    /\ process' = "ended"
    /\ KillReaders
    /\ UNCHANGED <<fragments, attended, task, caller>> /\ UNCHANGED testerVars

Tester ==
    \/ NextCandidate \/ OpenStep \/ FailUnopened \/ StartThread \/ TimeOut
    \/ Report \/ Return

Mode == Draw \/ Await \/ Exit \/ End

Next == Tester \/ Answer \/ LoseReader \/ Mode

Spec == Init /\ [][Next]_vars

\* The task has a thread and the probe a timeout, and the caller runs.  The SOCKS
\* proxy need not do anything.
FairSpec == Spec /\ WF_vars(Tester) /\ WF_vars(Mode)

-----------------------------------------------------------------------------
\* A rule in force has an owner, an interceptor being opened or read, unless a
\* deletion of it was tried and failed; it is tried whatever fails before it, but for
\* the first of two iptables rules, which no guard has yet when the second fails.
RulesHaveOwner ==
    \A e \in Engines :
        rules[e] > 0 /\ process # "ended" =>
            \/ e \in readers \union opening \union undeleted
            \/ backend = "iptables" /\ rules[e] = 1

\* The candidates that lost their test to the engine.  On Linux those after the first
\* that had one are not counted: it may hold the queue.
Unarmed ==
    {i \in DOMAIN results :
        /\ ~results[i].engine
        /\ backend = "windivert" \/ \A j \in 1 .. i-1 : ~results[j].engine}

\* No test is lost to the failure of another's: each of these candidates had a
\* command or a call of its own that failed.
FailuresAreOwn == Cardinality(Unarmed) <= faults

\* The tests end, and so does the process when its mode returns or panics, whatever
\* the SOCKS proxy does and although no test can be aborted.
TesterEnds ==
    /\ <>(task = "finished")
    /\ caller # "waiting" ~> process = "ended"

(* What comments of the code claim and the code does not keep              *)

\* tui.rs: the progress screen "returns `(entries, aborted)`".  Known not to hold of
\* a run with a screen: its results are lost with the first draw.
ResultsAreShown == process = "ended" => caller = "returned"

\* Every test has an interceptor, as "The thread will exit on the next recv()
\* after the handle is dropped" promises.  Known not to hold on Linux.
EngineOpens == \A i \in DOMAIN results : results[i].engine
=============================================================================
