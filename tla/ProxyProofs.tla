----------------------------- MODULE ProxyProofs -----------------------------
(***************************************************************************)
(* Safety of a proxy: of ProxyTest for any number of candidates, every set *)
(* of backends and every bound on the failures, and of the relay's         *)
(* counters for every buffer size and every amount of data.                *)
(***************************************************************************)
EXTENDS ProxyTest, Relay, SequenceTheorems, FiniteSetTheorems, TLAPS

(***************************************************************************)
(* The proxy test                                                          *)
(***************************************************************************)

\* Nothing stays of the rules of an engine that counts as gone, but for the first of
\* two iptables rules.
Settled(e) == rules[e] = 0 \/ (backend = "iptables" /\ rules[e] = 1) \/ e \in undeleted

\* A failed open has settled its rules before it is closed, and an engine is being
\* opened only where the tester waits for it.
RuleInv ==
    /\ cur \in Nat
    /\ rules \in [Engines -> Nat]
    /\ opening \subseteq Engines
    /\ pc # "opening" => opening = {}
    /\ stage = "failed" => \A e \in opening : Settled(e)
    /\ \A e \in Engines : process # "ended" => e \in readers \union opening \/ Settled(e)

Entry == [cand : Nat, engine : BOOLEAN, ok : BOOLEAN]

\* There is an entry for each candidate whose test is over, and only the candidate
\* under test is being opened.
ResultInv ==
    /\ cur \in 0..Count
    /\ entry \in Entry /\ results \in Seq(Entry)
    /\ opening \subseteq {cur} /\ (pc # "opening" => opening = {})
    /\ pc \in {"next", "done"} => Len(results) = cur
    /\ pc \in {"opening", "probing", "reporting"} => cur >= 1 /\ Len(results) = cur - 1
    /\ pc \in {"next", "opening", "probing", "reporting", "done"}

\* The engine that holds the queue is the current one, which has it to show or will
\* have, or it has an entry that shows it.
BoundInv ==
    \A e \in bound :
        \/ e = cur /\ \/ pc = "opening" /\ stage = "open"
                      \/ pc = "probing"
                      \/ pc = "reporting" /\ entry.engine
        \/ e \in 1..Len(results) /\ results[e].engine

\* The candidate under test has lost its engine, and will be counted.
FirstUnarmed == backend = "windivert" \/ \A j \in 1..Len(results) : ~results[j].engine
Pending ==
    /\ (pc = "opening" /\ stage = "failed") \/ (pc = "reporting" /\ ~entry.engine)
    /\ FirstUnarmed

\* It has had its fault by then.
OwnInv ==
    /\ faults \in Nat
    /\ Cardinality(Unarmed) + (IF Pending THEN 1 ELSE 0) <= faults

-----------------------------------------------------------------------------
(* The rules                                                               *)

LEMMA InitRuleInv == Init => RuleInv
  BY DEF Init, EngineInit, RuleInv, Settled

\* Dropping a guard settles its rules and touches no others.
LEMMA DropSettles ==
  ASSUME NEW e \in Engines, NEW n \in Nat, rules \in [Engines -> Nat],
         DropRules(e, n), backend' = backend
  PROVE  /\ rules' \in [Engines -> Nat]
         /\ Settled(e)'
         /\ \A f \in Engines \ {e} : Settled(f) => Settled(f)'
  BY DEF DropRules, Settled

LEMMA RuleStep == ASSUME RuleInv, [Next]_vars PROVE RuleInv'
<1> USE DEF RuleInv
<1>1. CASE NextCandidate
  <2>1. cur + 1 \in Nat /\ cur + 1 \in Engines
    BY <1>1, CountAssumption, EnginesAssumption DEF NextCandidate
  <2> QED
    BY <1>1, <2>1 DEF NextCandidate, StartOpen, At, TesterOnly, engineVars, Settled
<1>2. CASE OpenStep
  <2>1. pc = "opening" /\ pc' = pc /\ cur' = cur /\ process' = process
    BY <1>2 DEF OpenStep, testerVars, TesterOnly
  <2>2. PICK e \in Engines : InstallRule(e) \/ InstallFails(e) \/ Bind(e) \/ BindFails(e)
    BY <1>2 DEF OpenStep, EngineSteps
  <2>3. CASE InstallRule(e)
    BY <2>1, <2>3 DEF InstallRule, Settled
  <2>4. CASE InstallFails(e)
    <3>1. opening = {e} /\ UNCHANGED <<opening, backend, readers>>
      BY <2>4 DEF InstallFails
    <3>2. CASE DropRules(e, 1)
      BY <2>1, <3>1, <3>2, DropSettles
    <3>3. CASE backend = "iptables" /\ UNCHANGED <<rules, undeleted>>
      <4>1. Settled(e)
        BY <2>4, <3>3 DEF InstallFails, Commands, Settled
      <4> QED BY <2>1, <3>1, <3>3, <4>1 DEF Settled
    <3> QED BY <2>4, <3>2, <3>3 DEF InstallFails
  <2>5. CASE Bind(e)
    BY <2>1, <2>5 DEF Bind, Settled
  <2>6. CASE BindFails(e)
    <3>1. opening = {e} /\ UNCHANGED <<opening, backend, readers>>
      BY <2>6 DEF BindFails, Installed
    <3>2. DropRules(e, 0) \/ DropRules(e, 1)
      BY <2>6 DEF BindFails
    <3> QED BY <2>1, <3>1, <3>2, DropSettles
  <2> QED BY <2>2, <2>3, <2>4, <2>5, <2>6
<1>3. CASE FailUnopened
  BY <1>3 DEF FailUnopened, CloseFailed, At, TesterOnly, Settled
<1>4. CASE StartThread
  <2>1. pc' # "opening" /\ cur' = cur /\ process' = process
    BY <1>4 DEF StartThread, At, TesterOnly
  <2>2. CASE StartReading(cur)
    BY <2>1, <2>2 DEF StartReading, Settled
  <2>3. CASE SpawnFails(cur)
    <3>1. opening = {cur} /\ opening' = {} /\ stage' = "closed" /\ UNCHANGED <<backend, readers>>
      BY <2>3 DEF SpawnFails
    <3> QED BY <2>1, <2>3, <3>1, DropSettles DEF SpawnFails
  <2> QED BY <1>4, <2>2, <2>3 DEF StartThread
<1>5. CASE LoseReader
  <2>1. UNCHANGED <<pc, cur, process>>
    BY <1>5 DEF LoseReader, testerVars, TesterOnly
  <2>2. PICK e \in Engines : ReadFails(e)
    BY <1>5 DEF LoseReader
  <2>3. /\ DropRules(e, 1) /\ readers' = readers \ {e}
        /\ UNCHANGED <<backend, opening, stage>>
    BY <2>2 DEF ReadFails
  <2>4. Settled(e)' /\ rules' \in [Engines -> Nat]
        /\ \A f \in Engines \ {e} : Settled(f) => Settled(f)'
    BY <2>3, DropSettles
  <2>5. stage' = "failed" => \A f \in opening' : Settled(f)'
    BY <2>3, <2>4
  <2> QED BY <2>1, <2>3, <2>4, <2>5
<1>6. CASE End
  BY <1>6 DEF End, KillReaders, testerVars, Settled
<1>7. CASE TimeOut \/ Answer \/ Report \/ Return
  BY <1>7 DEF TimeOut, Answer, EndProbe, Report, Return, At, TesterOnly,
              testerVars, engineVars, Settled
<1>8. CASE Draw \/ Await \/ Exit \/ UNCHANGED vars
  BY <1>8 DEF Draw, Await, Exit, CallerOnly, vars, testerVars, engineVars, Settled
<1> QED BY <1>1, <1>2, <1>3, <1>4, <1>5, <1>6, <1>7, <1>8 DEF Next, Tester, Mode

\* A firewall rule in force belongs to an interceptor that is being opened or read or
\* that could not delete it, or is what a failed iptables install leaves, whatever
\* fails and in whatever order (linux.rs, IptablesGuard and NftablesGuard).
THEOREM RulesHaveOwnerHolds == Spec => []RulesHaveOwner
<1>1. RuleInv => RulesHaveOwner
  BY DEF RuleInv, RulesHaveOwner, Settled
<1> QED BY InitRuleInv, RuleStep, <1>1, PTL DEF Spec

-----------------------------------------------------------------------------
(* The failures                                                            *)

CountInv == ResultInv /\ BoundInv /\ OwnInv

LEMMA UnarmedIsFinite ==
  ASSUME results \in Seq(Entry)
  PROVE  IsFiniteSet(Unarmed) /\ Cardinality(Unarmed) \in Nat
<1>1. Unarmed \subseteq 1..Len(results) /\ Len(results) \in Nat
  BY DEF Unarmed
<1>2. IsFiniteSet(1..Len(results))
  BY <1>1, FS_Interval
<1>3. IsFiniteSet(Unarmed)
  BY <1>1, <1>2, FS_Subset
<1> QED BY <1>3, FS_CardinalityType

LEMMA InitCountInv == Init => CountInv
<1> SUFFICES ASSUME Init PROVE CountInv
  OBVIOUS
<1>1. <<>> \in Seq(Entry) /\ Len(<<>>) = 0
  BY EmptySeq
<1>2. Unarmed = {}
  BY <1>1 DEF Init, Unarmed
<1> QED
  BY <1>1, <1>2, FS_EmptySet, CountAssumption
  DEF Init, EngineInit, NoEntry, Entry, CountInv, ResultInv, BoundInv, OwnInv, Pending

\* A guard's drop only adds to the faults its step has met.
LEMMA DropCosts ==
  ASSUME NEW e, NEW n \in Nat, faults \in Nat, DropRules(e, n)
  PROVE  faults' \in Nat /\ faults' >= faults + n
<1>1. PICK failing \in 0 .. Deletions : faults' = faults + n + failing
  BY DEF DropRules
<1> QED BY <1>1 DEF Deletions

\* A step that appends nothing keeps the count if the faults keep up with it.
LEMMA KeepsOwn ==
  ASSUME OwnInv, results \in Seq(Entry), UNCHANGED <<results, backend>>,
         faults' \in Nat, faults' >= faults,
         Pending' => Pending \/ faults' >= faults + 1
  PROVE  OwnInv'
<1>1. Cardinality(Unarmed)' = Cardinality(Unarmed) /\ Cardinality(Unarmed) \in Nat
  BY UnarmedIsFinite DEF Unarmed
<1> QED BY <1>1 DEF OwnInv

LEMMA CountOpenStep ==
  ASSUME CountInv, OpenStep
  PROVE  CountInv'
<1> USE DEF CountInv
<1>1. /\ pc = "opening" /\ UNCHANGED <<pc, cur, entry, results>>
  BY DEF OpenStep, testerVars
<1>2. PICK e \in Engines : InstallRule(e) \/ InstallFails(e) \/ Bind(e) \/ BindFails(e)
  BY DEF OpenStep, EngineSteps
<1>3. opening = {e} /\ e = cur /\ stage = "installing" /\ UNCHANGED <<backend, opening>>
  BY <1>2 DEF InstallRule, InstallFails, Bind, BindFails, Installed, ResultInv
<1>4. ResultInv'
  BY <1>1, <1>3 DEF ResultInv
<1>5. BoundInv'
  <2>1. bound' = bound \/ (bound' \subseteq {cur} /\ stage' = "open")
    BY <1>2, <1>3 DEF InstallRule, InstallFails, Bind, BindFails
  <2> QED BY <1>1, <1>3, <2>1 DEF BoundInv
<1>6. OwnInv'
  <2>1. faults \in Nat
    BY DEF OwnInv
  <2>2. CASE InstallRule(e) \/ Bind(e)
    <3>1. faults' = faults /\ stage' # "failed"
      BY <1>3, <2>2 DEF InstallRule, Bind
    <3> QED BY <1>1, <1>3, <2>1, <3>1, KeepsOwn DEF ResultInv, Pending
  <2>3. CASE InstallFails(e)
    <3>1. faults' \in Nat /\ faults' >= faults + 1
      BY <2>1, <2>3, DropCosts DEF InstallFails, Fault
    <3> QED BY <1>1, <1>3, <2>1, <3>1, KeepsOwn DEF ResultInv
  <2>4. CASE BindFails(e)
    <3>1. CASE DropRules(e, 1)
      <4>1. faults' \in Nat /\ faults' >= faults + 1
        BY <2>1, <3>1, DropCosts
      <4> QED BY <1>1, <1>3, <2>1, <4>1, KeepsOwn DEF ResultInv
    <3>2. CASE ~QueueIsFree /\ DropRules(e, 0)
      <4>1. faults' \in Nat /\ faults' >= faults
        BY <2>1, <3>2, DropCosts
      <4>2. ~FirstUnarmed
        BY <1>1, <1>3, <3>2 DEF QueueIsFree, BoundInv, FirstUnarmed
      <4>3. ~Pending'
        BY <1>1, <1>3, <4>2 DEF Pending, FirstUnarmed
      <4> QED BY <1>1, <1>3, <4>1, <4>3, KeepsOwn DEF ResultInv
    <3> QED BY <2>4, <3>1, <3>2 DEF BindFails
  <2> QED BY <1>2, <2>2, <2>3, <2>4
<1> QED BY <1>4, <1>5, <1>6

LEMMA OneMore ==
  ASSUME NEW S, IsFiniteSet(S), NEW x
  PROVE  Cardinality(S \union {x}) <= Cardinality(S) + 1
<1>1. Cardinality(S) \in Nat
  BY FS_CardinalityType
<1>2. Cardinality(S \union {x}) \in {Cardinality(S), Cardinality(S) + 1}
  BY FS_AddElement
<1> QED BY <1>1, <1>2

\* The report of a candidate without an engine counts it, and no other.
LEMMA CountReport ==
  ASSUME CountInv, Report
  PROVE  CountInv'
<1> USE DEF CountInv, ResultInv
<1>1. /\ pc = "reporting" /\ pc' = "next"
      /\ UNCHANGED <<cur, entry, backend, bound, opening, faults>>
      /\ results' = Append(results, entry)
  BY DEF Report, At, engineVars
<1>2. /\ results' \in Seq(Entry) /\ Len(results') = Len(results) + 1
      /\ results'[Len(results) + 1] = entry
      /\ \A i \in 1..Len(results) : results'[i] = results[i]
  BY <1>1, AppendProperties
<1>3. Len(results) = cur - 1 /\ Len(results') = cur /\ cur \in 1..Count
  BY <1>1, <1>2, CountAssumption
<1>4. ResultInv'
  BY <1>1, <1>2, <1>3
<1>5. BoundInv'
  <2> SUFFICES ASSUME NEW e \in bound PROVE e \in 1..Len(results') /\ results'[e].engine
    BY <1>1 DEF BoundInv
  <2>1. \/ e = cur /\ entry.engine
        \/ e \in 1..Len(results) /\ results[e].engine
    BY <1>1 DEF BoundInv
  <2> QED BY <1>2, <1>3, <2>1
<1>6. OwnInv'
  <2>1. Unarmed' = IF Pending THEN Unarmed \union {cur} ELSE Unarmed
    <3>1. DOMAIN results = 1..cur-1 /\ DOMAIN results' = 1..cur
      BY <1>2, <1>3
    <3>2. \A i \in 1..cur-1 : i \in Unarmed' <=> i \in Unarmed
      BY <1>1, <1>2, <1>3, <3>1 DEF Unarmed
    <3>3. cur \in Unarmed' <=> Pending
      BY <1>1, <1>2, <1>3, <3>1 DEF Unarmed, Pending, FirstUnarmed
    <3>4. Unarmed \subseteq 1..cur-1 /\ Unarmed' \subseteq 1..cur
      BY <3>1 DEF Unarmed
    <3>5. 1..cur = 1..cur-1 \union {cur} /\ cur \notin 1..cur-1
      BY <1>3
    <3>6. CASE Pending
      <4>1. Unarmed' = Unarmed \union {cur}
        BY <3>2, <3>3, <3>4, <3>5, <3>6
      <4> QED BY <3>6, <4>1
    <3>7. CASE ~Pending
      <4>1. Unarmed' = Unarmed
        BY <3>2, <3>3, <3>4, <3>5, <3>7
      <4> QED BY <3>7, <4>1
    <3> QED BY <3>6, <3>7
  <2>2. IsFiniteSet(Unarmed) /\ Cardinality(Unarmed) \in Nat
    BY UnarmedIsFinite
  <2>3. Cardinality(Unarmed \union {cur}) <= Cardinality(Unarmed) + 1
    BY <2>2, OneMore
  <2>4. ~Pending'
    BY <1>1 DEF Pending
  <2>5. Cardinality(Unarmed \union {cur}) \in Nat
    BY <2>2, FS_AddElement, FS_CardinalityType
  <2>6. CASE Pending
    <3>1. Unarmed' = Unarmed \union {cur}
      BY <2>1, <2>6
    <3> QED BY <1>1, <2>2, <2>3, <2>4, <2>5, <2>6, <3>1 DEF OwnInv
  <2>7. CASE ~Pending
    <3>1. Unarmed' = Unarmed
      BY <2>1, <2>7
    <3> QED BY <1>1, <2>2, <2>4, <2>7, <3>1 DEF OwnInv
  <2> QED BY <2>6, <2>7
<1> QED BY <1>4, <1>5, <1>6

LEMMA CountStep == ASSUME CountInv, [Next]_vars PROVE CountInv'
<1> USE DEF CountInv
<1>0. faults \in Nat /\ results \in Seq(Entry)
  BY DEF OwnInv, ResultInv
<1>1. CASE NextCandidate
  <2>1. /\ pc = "next" /\ pc' \in {"opening", "probing"} /\ cur' = cur + 1 /\ cur < Count
        /\ UNCHANGED <<entry, results, backend, bound, faults>>
        /\ pc' = "opening" => stage' = "installing"
    BY <1>1 DEF NextCandidate, At, StartOpen, engineVars
  <2>2. opening' \subseteq {cur'} /\ (pc' # "opening" => opening' = {})
    BY <1>1 DEF NextCandidate, At, StartOpen, engineVars, ResultInv
  <2>3. ResultInv'
    BY <2>1, <2>2, CountAssumption DEF ResultInv
  <2>4. BoundInv'
    BY <2>1 DEF BoundInv
  <2>5. OwnInv'
    BY <1>0, <2>1, KeepsOwn DEF Pending
  <2> QED BY <2>3, <2>4, <2>5
<1>2. CASE OpenStep
  BY <1>2, CountOpenStep
<1>3. CASE FailUnopened
  <2>1. /\ pc = "opening" /\ stage = "failed" /\ pc' = "reporting" /\ opening' = {}
        /\ UNCHANGED <<cur, results, backend, bound, faults>>
        /\ entry' = [cand |-> cur, engine |-> FALSE, ok |-> FALSE]
    BY <1>3 DEF FailUnopened, CloseFailed, At
  <2>2. ResultInv'
    BY <2>1 DEF ResultInv, Entry
  <2>3. BoundInv'
    BY <2>1 DEF BoundInv
  <2>4. OwnInv'
    BY <1>0, <2>1, KeepsOwn DEF Pending, FirstUnarmed
  <2> QED BY <2>2, <2>3, <2>4
<1>4. CASE StartThread
  <2>1. /\ pc = "opening" /\ pc' = "probing" /\ opening' = {} /\ bound' \subseteq bound
        /\ UNCHANGED <<cur, entry, results, backend>>
    BY <1>4 DEF StartThread, StartReading, SpawnFails, At
  <2>2. faults' \in Nat /\ faults' >= faults
    BY <1>0, <1>4, DropCosts DEF StartThread, StartReading, SpawnFails
  <2>3. ResultInv' /\ BoundInv'
    BY <2>1 DEF ResultInv, BoundInv
  <2>4. OwnInv'
    BY <1>0, <2>1, <2>2, KeepsOwn DEF Pending
  <2> QED BY <2>3, <2>4
<1>5. CASE TimeOut \/ Answer
  <2>1. PICK ok \in BOOLEAN : EndProbe(ok)
    BY <1>5 DEF TimeOut, Answer
  <2>2. /\ pc = "probing" /\ pc' = "reporting"
        /\ UNCHANGED <<cur, results, backend, bound, opening, faults>>
        /\ entry' = [cand |-> cur, engine |-> TRUE, ok |-> ok]
    BY <2>1 DEF EndProbe, At, engineVars
  <2>3. ResultInv' /\ BoundInv'
    BY <2>2 DEF ResultInv, BoundInv, Entry
  <2>4. OwnInv'
    BY <1>0, <2>2, KeepsOwn DEF Pending
  <2> QED BY <2>3, <2>4
<1>6. CASE Report
  BY <1>6, CountReport
<1>7. CASE LoseReader
  <2>1. PICK e \in Engines : ReadFails(e)
    BY <1>7 DEF LoseReader
  <2>2. /\ UNCHANGED <<pc, cur, entry, results, backend, opening, stage>>
        /\ bound' \subseteq bound /\ faults' \in Nat /\ faults' >= faults
    BY <1>0, <1>7, <2>1, DropCosts DEF LoseReader, ReadFails, testerVars
  <2>3. ResultInv' /\ BoundInv'
    BY <2>2 DEF ResultInv, BoundInv
  <2>4. OwnInv'
    BY <1>0, <2>2, KeepsOwn DEF Pending, FirstUnarmed
  <2> QED BY <2>3, <2>4
<1>8. CASE Return
  <2>1. /\ pc = "next" /\ pc' = "done"
        /\ UNCHANGED <<cur, entry, results, backend, opening, bound, stage, faults>>
    BY <1>8 DEF Return, At, engineVars
  <2>2. ResultInv' /\ BoundInv'
    BY <2>1 DEF ResultInv, BoundInv
  <2>3. OwnInv'
    BY <1>0, <2>1, KeepsOwn DEF Pending
  <2> QED BY <2>2, <2>3
<1>9. CASE Draw \/ Await \/ Exit \/ End \/ UNCHANGED vars
  <2>1. /\ UNCHANGED <<pc, cur, entry, results, backend, opening, stage, faults>>
        /\ bound' \subseteq bound
    BY <1>9 DEF Draw, Await, Exit, End, CallerOnly, KillReaders, vars, testerVars,
                engineVars
  <2>2. ResultInv' /\ BoundInv'
    BY <2>1 DEF ResultInv, BoundInv
  <2>3. OwnInv'
    BY <1>0, <2>1, KeepsOwn DEF Pending, FirstUnarmed
  <2> QED BY <2>2, <2>3
<1> QED BY <1>1, <1>2, <1>3, <1>4, <1>5, <1>6, <1>7, <1>8, <1>9 DEF Next, Tester, Mode

\* The tests lost to an interceptor that did not open are no more than the failures,
\* for any number of candidates, but for those on Linux that come after one that had
\* its interceptor (proxy_tester.rs, test_candidate_full).
THEOREM FailuresAreOwnHolds == Spec => []FailuresAreOwn
<1>1. CountInv => FailuresAreOwn
  <2> SUFFICES ASSUME CountInv PROVE FailuresAreOwn
    OBVIOUS
  <2>1. Cardinality(Unarmed) \in Nat
    BY UnarmedIsFinite DEF CountInv, ResultInv
  <2> QED BY <2>1 DEF CountInv, OwnInv, FailuresAreOwn
<1> QED BY InitCountInv, CountStep, <1>1, PTL DEF Spec

(***************************************************************************)
(* The relay                                                               *)
(***************************************************************************)

\* How far a copier's counter lags behind what it has forwarded, by its program
\* counter.
LagInv ==
    \A d \in Dir :
        /\ counter[d] <= forwarded[d]
        /\ forwarded[d] <= counter[d] + chunk[d]
        /\ copier[d] = "reading" => forwarded[d] = counter[d]
        /\ copier[d] = "writing" =>
               /\ forwarded[d] + left[d] = counter[d] + chunk[d]
               /\ left[d] > 0
               /\ forwarded[d] + left[d] <= MaxBytes
        /\ copier[d] = "written" => forwarded[d] = counter[d] + chunk[d]

\* What the other tasks loaded is not ahead of the counters, and what the ticker
\* sent is not ahead of what it loaded.
LoadedInv ==
    \A d \in Dir :
        /\ snapshot[d] <= counter[d]
        /\ result.bytes[d] <= counter[d]
        /\ last.bytes[d] <= counter[d]
        /\ last.kind = "progress" => last.bytes[d] <= snapshot[d]

\* The loop has joined only copiers that ended, and has no result before it breaks.
JoinInv ==
    /\ \A d \in joined : copier[d] = "ended"
    /\ sel = "select" => result.reason = "none"
    /\ CompletedIsFinal

RelayInv == TypeOK /\ LagInv /\ LoadedInv /\ JoinInv

LEMMA InitRelayInv == RelayInit => RelayInv
  BY ChunkAssumption, MaxBytesAssumption
  DEF RelayInit, RelayInv, TypeOK, LagInv, LoadedInv, JoinInv, CompletedIsFinal, Zero, Dir,
      Bytes

\* A copier's step: only its own direction changes, and its counter only grows.
LEMMA CopierIInv == ASSUME RelayInv, NEW d \in Dir, Copier(d) PROVE RelayInv'
<1> USE ChunkAssumption, MaxBytesAssumption DEF Copies, mainVars, tickerVars
<1>0. copier[d] # "ended" /\ d \notin joined /\ result.reason # "Completed"
  BY DEF RelayInv, JoinInv, CompletedIsFinal, Copier, Read, ReadEnds, Write, WriteFails,
     Store, ShutDown, Cancelled
<1>1. CASE Read(d)
  <2>1. PICK n \in 1 .. Chunk :
          /\ forwarded[d] + n <= MaxBytes
          /\ chunk' = [chunk EXCEPT ![d] = n] /\ left' = [left EXCEPT ![d] = n]
    BY <1>1 DEF Read
  <2>2. QED
    BY <1>0, <1>1, <2>1 DEF Read, RelayInv, TypeOK, LagInv, LoadedInv, JoinInv,
       CompletedIsFinal, Bytes
<1>2. CASE Write(d)
  BY <1>0, <1>2 DEF Write, RelayInv, TypeOK, LagInv, LoadedInv, JoinInv,
     CompletedIsFinal, Bytes
<1>3. CASE Store(d)
  BY <1>0, <1>3 DEF Store, RelayInv, TypeOK, LagInv, LoadedInv, JoinInv,
     CompletedIsFinal, Bytes
<1>4. CASE ReadEnds(d) \/ WriteFails(d) \/ ShutDown(d) \/ Cancelled(d)
  BY <1>0, <1>4 DEF ReadEnds, WriteFails, ShutDown, Cancelled, RelayInv, TypeOK, LagInv,
     LoadedInv, JoinInv, CompletedIsFinal, Bytes
<1>5. QED
  BY <1>1, <1>2, <1>3, <1>4 DEF Copier

LEMMA LoopIInv == ASSUME RelayInv, Loop PROVE RelayInv'
<1> USE DEF Main, copierVars, tickerVars
<1>1. ASSUME NEW d \in Dir, Join(d) PROVE RelayInv'
  BY <1>1 DEF Join, RelayInv, TypeOK, LagInv, LoadedInv, JoinInv, CompletedIsFinal,
     Bytes, Dir
<1>2. CASE Deadline
  BY <1>2 DEF Deadline, RelayInv, TypeOK, LagInv, LoadedInv, JoinInv, CompletedIsFinal,
     Bytes, Dir
<1>3. CASE Finish
  BY <1>3 DEF Finish, RelayInv, TypeOK, LagInv, LoadedInv, JoinInv, CompletedIsFinal,
     Bytes, Dir
<1>4. QED
  BY <1>1, <1>2, <1>3 DEF Loop

LEMMA TickerIInv == ASSUME RelayInv, Ticker PROVE RelayInv'
<1>1. /\ UNCHANGED <<limited, copier, chunk, left, forwarded, counter, joined, sel,
                     result, cancel>>
      /\ ticker' \in {"waiting", "sending", "cancelled"}
  BY DEF Ticker, Tick, SendProgress, TickerCancelled, Ticks, copierVars, mainVars
<1>2. LagInv' /\ JoinInv'
  BY <1>1 DEF RelayInv, LagInv, JoinInv, CompletedIsFinal
<1>3. CASE Tick
  BY <1>1, <1>2, <1>3 DEF Tick, RelayInv, TypeOK, LoadedInv, Bytes
<1>4. CASE SendProgress
  BY <1>1, <1>2, <1>4 DEF SendProgress, RelayInv, TypeOK, LoadedInv, Bytes
<1>5. CASE TickerCancelled
  BY <1>1, <1>2, <1>5 DEF TickerCancelled, RelayInv, TypeOK, LoadedInv, Bytes
<1>6. QED
  BY <1>3, <1>4, <1>5 DEF Ticker

LEMMA RelayInvariant == RelaySpec => []RelayInv
<1>1. RelayInv /\ UNCHANGED relayVars => RelayInv'
  BY DEF relayVars, RelayInv, TypeOK, LagInv, LoadedInv, JoinInv, CompletedIsFinal
<1>2. RelayInv /\ [RelayNext]_relayVars => RelayInv'
  BY <1>1, CopierIInv, LoopIInv, TickerIInv DEF RelayNext, Terminated
<1>3. QED
  BY <1>2, InitRelayInv, PTL DEF RelaySpec

\* Whatever the loop and the ticker load while the copiers run, no event claims a
\* byte that was not forwarded.
THEOREM ReportsAreEarned == RelaySpec => []NeverOverReports
<1>1. RelayInv => NeverOverReports
  BY DEF RelayInv, TypeOK, LagInv, LoadedInv, NeverOverReports, Bytes
<1>2. QED
  BY <1>1, RelayInvariant, PTL

\* A copier never lags by more than the chunk it holds.
THEOREM LagIsBounded == RelaySpec => []UncountedIsOneChunk
<1>1. RelayInv => UncountedIsOneChunk
  BY ChunkAssumption, MaxBytesAssumption
  DEF RelayInv, TypeOK, LagInv, UncountedIsOneChunk, Bytes
<1>2. QED
  BY <1>1, RelayInvariant, PTL

\* A relay that says Completed has drained both directions for good.
THEOREM CompletedIsDrained == RelaySpec => []CompletedIsFinal
  BY RelayInvariant, PTL DEF RelayInv, JoinInv

\* The bytes of successive progress reports never go back.
THEOREM ProgressGrows == RelaySpec => ProgressIsMonotone
<1>1. RelayInv /\ [RelayNext]_relayVars =>
        [last'.kind = "progress" /\ last.kind = "progress" =>
           \A d \in Dir : last.bytes[d] <= last'.bytes[d]]_relayVars
  <2> SUFFICES ASSUME RelayInv, RelayNext, last'.kind = "progress", last.kind = "progress",
                      NEW d \in Dir
               PROVE  last.bytes[d] <= last'.bytes[d]
    OBVIOUS
  <2>1. last.bytes[d] <= snapshot[d] /\ last.bytes[d] \in Nat
    BY DEF RelayInv, LoadedInv, TypeOK, Bytes
  <2>2. last' = last \/ last'.bytes = snapshot
    BY DEF RelayNext, Copier, Read, ReadEnds, Write, WriteFails, Store, ShutDown,
       Cancelled, Copies, Loop, Join, Deadline, Finish, Ticker, Tick, SendProgress,
       TickerCancelled, Terminated, relayVars
  <2>3. QED
    BY <2>1, <2>2
<1>2. QED
  BY <1>1, RelayInvariant, PTL DEF RelaySpec, ProgressIsMonotone
=============================================================================
