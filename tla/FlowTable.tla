------------------------------ MODULE FlowTable ------------------------------
(***************************************************************************)
(* The flow table shared by the connections.  A connection's task binds an *)
(* upstream socket to a port the kernel chooses, inserts an entry under    *)
(* that port, and removes the key when its scope guard is dropped: before  *)
(* the relay, or after the socket on an error path, because the socket is  *)
(* consumed by connect() or declared after the guard.  The interface, the  *)
(* upstream address and port of a FlowKey are the same for all connections *)
(* to the current target, so a key is a port.                              *)
(***************************************************************************)
EXTENDS Naturals, FiniteSets

CONSTANTS
    Conns,   \* accepted connections
    Ports,   \* ephemeral ports
    None     \* no entry, no port

ASSUME NoneAssumption == None \notin Conns \union Ports

VARIABLES
    pc,     \* where each connection's task is
    port,   \* the source port of its upstream socket
    open,   \* connections whose upstream socket exists
    table   \* flows: the connection whose entry is under each key

tableVars == <<pc, port, open, table>>

TableInit ==
    /\ pc = [c \in Conns |-> "accepted"]
    /\ port = [c \in Conns |-> None]
    /\ open = {}
    /\ table = [p \in Ports |-> None]

Move(c, from, to) == pc[c] = from /\ pc' = [pc EXCEPT ![c] = to]

\* The kernel hands out a port no socket holds.
FreePorts == Ports \ {port[d] : d \in open}

\* TcpSocket::bind to port 0, and local_addr.
Bind(c) ==
    /\ Move(c, "accepted", "bound")
    /\ \E p \in FreePorts : port' = [port EXCEPT ![c] = p]
    /\ open' = open \union {c}
    /\ UNCHANGED table

\* new_v4, bind or local_addr fails: no event, no entry.
BindFails(c) ==
    /\ Move(c, "accepted", "done")
    /\ UNCHANGED <<port, open, table>>

\* Mutant: an entry already under the key is kept.
InsertIfAbsent(c) ==
    /\ Move(c, "bound", "bypass")
    /\ table' = [table EXCEPT ![port[c]] = IF @ = None THEN c ELSE @]
    /\ UNCHANGED <<port, open>>

\* flows.insert(key, entry) replaces an entry left under the key.
Insert(c) ==
    /\ Move(c, "bound", "bypass")
    /\ table' = [table EXCEPT ![port[c]] = c]
    /\ UNCHANGED <<port, open>>

\* A packet of the connection's key: the interceptor's flows.get(&key).
Lookup(p) == table[p]

BypassSucceeds(c) ==
    /\ Move(c, "bypass", "release")
    /\ UNCHANGED <<port, open, table>>

\* Mutants: the guard is not dropped before the relay, or removes no key.
ReleaseAfterRelay(c) ==
    Move(c, "release", "relay") /\ UNCHANGED <<port, open, table>>
RemoveNothing(c) ==
    Move(c, "cleanup", "done") /\ UNCHANGED <<port, open, table>>

\* drop(cleanup)
ReleaseEntry(c) ==
    /\ Move(c, "release", "relay")
    /\ table' = [table EXCEPT ![port[c]] = None]
    /\ UNCHANGED <<port, open>>

\* The relay's halves are dropped.
RelayEnds(c) ==
    /\ Move(c, "relay", "done")
    /\ open' = open \ {c}
    /\ UNCHANGED <<port, table>>

\* Any error of the bypass phase: the socket is dropped...
BypassFails(c) ==
    /\ Move(c, "bypass", "cleanup")
    /\ open' = open \ {c}
    /\ UNCHANGED <<port, table>>

\* ...and then the guard: flows.remove(&key)
RemoveKey(c) ==
    /\ Move(c, "cleanup", "done")
    /\ table' = [table EXCEPT ![port[c]] = None]
    /\ UNCHANGED <<port, open>>

Step(c) == \/ Bind(c) \/ BindFails(c) \/ Insert(c) \/ BypassSucceeds(c)
           \/ ReleaseEntry(c) \/ RelayEnds(c) \/ BypassFails(c) \/ RemoveKey(c)

TableTerminated == (\A c \in Conns : pc[c] = "done") /\ UNCHANGED tableVars

TableNext == (\E c \in Conns : Step(c)) \/ TableTerminated

TableSpec == TableInit /\ [][TableNext]_tableVars
-----------------------------------------------------------------------------
Phase == {"accepted", "bound", "bypass", "release", "relay", "cleanup", "done"}

TableTypeOK ==
    /\ pc \in [Conns -> Phase]
    /\ port \in [Conns -> Ports \union {None}]
    /\ open \subseteq Conns
    /\ table \in [Ports -> Conns \union {None}]

\* Two sockets never share a port: the 4-tuple names one connection at a time.
PortsExclusive ==
    \A c, d \in open : port[c] = port[d] => c = d

\* The interceptor never tracks the packets of one connection with the entry of
\* another, however ports are reused: what it finds under the key of a socket
\* whose task has inserted its entry is that entry or nothing.
NoForeignEntry ==
    \A c \in open : pc[c] # "bound" => Lookup(port[c]) \in {c, None}

\* "Release the flow before relaying so any further packets pass through": user
\* data never meets an entry, not even one a later or earlier holder of the
\* port left.
RelayIsUntracked ==
    \A c \in open : pc[c] = "relay" => Lookup(port[c]) = None

\* No entry outlives the task that inserted it.
NoLeak ==
    \A p \in Ports :
        table[p] # None => pc[table[p]] \in {"bypass", "release", "cleanup"}

\* flow.rs: monitor is "true while the intercept thread should track this
\* flow".  A connection that waits for its bypass is tracked.  Known not to hold:
\* a failed connection may remove the entry of the next holder of its port.
BypassIsTracked ==
    \A c \in open : pc[c] = "bypass" => Lookup(port[c]) = c
=============================================================================
