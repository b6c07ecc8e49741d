----------------------------- MODULE Interceptor -----------------------------
(***************************************************************************)
(* Opening and ending packet interceptors.  On Linux an interceptor first  *)
(* installs firewall rules that send packets to a netfilter queue, then    *)
(* binds the queue; its rules are removed when it is dropped.  WinDivert   *)
(* needs no rules.  An open interceptor is moved into a thread that reads  *)
(* until reading fails: nothing else drops it.                             *)
(*                                                                         *)
(* Rules belong to the kernel and outlive the process; how many commands   *)
(* of an engine are in force stands for which.                             *)
(***************************************************************************)
EXTENDS Naturals, FiniteSets

CONSTANTS
    Engines,   \* the interceptors a process may open
    Backends,  \* iptables, nftables, windivert
    MaxFaults  \* bound on the commands and calls that fail

ASSUME BackendsAssumption == Backends \subseteq {"iptables", "nftables", "windivert"}
ASSUME MaxFaultsAssumption == MaxFaults \in Nat

VARIABLES
    backend,    \* the backend in use
    opening,    \* the engine being opened, as a set
    stage,      \* how far PacketInterceptor::open is
    rules,      \* install commands of each engine in force
    undeleted,  \* engines of which a deletion failed
    bound,      \* the engine that holds the queue, as a set
    readers,    \* engines read by a live thread
    faults      \* failures so far

engineVars == <<backend, opening, stage, rules, undeleted, bound, readers, faults>>

Commands == CASE backend = "iptables" -> 2
              [] backend = "nftables" -> 5
              [] OTHER -> 0

EngineInit ==
    /\ backend \in Backends
    /\ opening = {} /\ stage = "closed"
    /\ rules = [e \in Engines |-> 0]
    /\ undeleted = {} /\ bound = {} /\ readers = {}
    /\ faults = 0

Fault == faults < MaxFaults /\ faults' = faults + 1

\* Commands that remove what was installed: rules go one by one, a table whole.
Deletions == CASE backend = "iptables" -> 2
               [] backend = "nftables" -> 1
               [] OTHER -> 0

\* A guard's drop, or a rollback, in a step that has met n faults.  Each deletion may
\* fail, and none stops the next.
DropRules(e, n) ==
    \E failing \in 0 .. Deletions :
        /\ faults + n + failing <= MaxFaults
        /\ faults' = faults + n + failing
        /\ rules' = [rules EXCEPT ![e] = IF failing = 0 THEN 0
                                        ELSE IF backend = "iptables" THEN failing ELSE @]
        /\ undeleted' = IF failing = 0 THEN undeleted ELSE undeleted \union {e}

StartOpen(e) ==
    /\ opening' = {e} /\ stage' = "installing"
    /\ UNCHANGED <<backend, rules, undeleted, bound, readers, faults>>

InstallRule(e) ==
    /\ opening = {e} /\ stage = "installing"
    /\ rules[e] < Commands
    /\ rules' = [rules EXCEPT ![e] = @ + 1]
    /\ UNCHANGED <<backend, opening, stage, undeleted, bound, readers, faults>>

\* Mutant: nothing is rolled back.
InstallFailsFlat(e) ==
    /\ opening = {e} /\ stage = "installing"
    /\ rules[e] < Commands
    /\ Fault
    /\ stage' = "failed"
    /\ UNCHANGED <<backend, opening, rules, undeleted, bound, readers>>

\* nftables tries to delete its table; iptables has no guard yet and leaves its first
\* rule.
InstallFails(e) ==
    /\ opening = {e} /\ stage = "installing"
    /\ rules[e] < Commands
    /\ \/ backend = "nftables" /\ DropRules(e, 1)
       \/ backend = "iptables" /\ Fault /\ UNCHANGED <<rules, undeleted>>
    /\ stage' = "failed"
    /\ UNCHANGED <<backend, opening, bound, readers>>

Installed(e) ==
    /\ opening = {e} /\ stage = "installing"
    /\ rules[e] = Commands

\* The kernel gives a queue number to one socket at a time.
QueueIsFree == backend = "windivert" \/ bound = {}

Bind(e) ==
    /\ Installed(e)
    /\ QueueIsFree
    /\ stage' = "open"
    /\ bound' = IF backend = "windivert" THEN bound ELSE {e}
    /\ UNCHANGED <<backend, opening, rules, undeleted, readers, faults>>

\* Mutant: the socket of a bind that failed is not closed.
BindFailsOpen(e) ==
    /\ Installed(e)
    /\ \/ ~QueueIsFree /\ DropRules(e, 0)
       \/ DropRules(e, 1)
    /\ stage' = "failed"
    /\ bound' = {e}
    /\ UNCHANGED <<backend, opening, readers>>

\* The queue is another's, or one of the calls that set it up fails.
BindFails(e) ==
    /\ Installed(e)
    /\ \/ ~QueueIsFree /\ DropRules(e, 0)
       \/ DropRules(e, 1)
    /\ stage' = "failed"
    /\ UNCHANGED <<backend, opening, bound, readers>>

StartReading(e) ==
    /\ opening = {e} /\ stage = "open"
    /\ opening' = {} /\ stage' = "closed"
    /\ readers' = readers \union {e}
    /\ UNCHANGED <<backend, rules, undeleted, bound, faults>>

\* The thread cannot be spawned: the interceptor is dropped with its closure.
SpawnFails(e) ==
    /\ opening = {e} /\ stage = "open"
    /\ opening' = {} /\ stage' = "closed"
    /\ DropRules(e, 1)
    /\ bound' = bound \ {e}
    /\ UNCHANGED <<backend, readers>>

CloseFailed ==
    /\ stage = "failed"
    /\ opening' = {} /\ stage' = "closed"
    /\ UNCHANGED <<backend, rules, undeleted, bound, readers, faults>>

\* run returns an error: the queue is closed, then the rules are removed.
ReadFails(e) ==
    /\ e \in readers
    /\ DropRules(e, 1)
    /\ readers' = readers \ {e}
    /\ bound' = bound \ {e}
    /\ UNCHANGED <<backend, opening, stage>>

\* The process ends: its threads are not joined and nothing is dropped.
KillReaders ==
    /\ readers' = {} /\ bound' = {}
    /\ UNCHANGED <<backend, opening, stage, rules, undeleted, faults>>

EngineSteps ==
    \E e \in Engines : InstallRule(e) \/ InstallFails(e) \/ Bind(e) \/ BindFails(e)
=============================================================================
