# DeltaSpoof in TLA+

A TLA+ development of the DPI-bypass proxy in `src/`: modules that model its
concurrent core, TLC configurations that check them on small instances, and
proofs, checked by TLAPS, of the safety properties that matter most. Paths below
are relative to `src/crates/`; `core` is `zerodpi-core/src`.

## 1. The system

A client connects to a local TCP port. The proxy opens an upstream connection
and relays. In the intercepting modes a packet interceptor (NFQUEUE on Linux,
WinDivert on Windows) sees the packets of the upstream connection, and a *bypass
method* rewrites one or two of them (a fake ClientHello, a corrupted checksum, a
fragmented first record) so that a middlebox loses track of the session. The other
modes choose an address, or a pool of addresses, over which the real SNI works.

| Component | State | Operations | Interacts with | What is hard |
|---|---|---|---|---|
| Flow entry and handler (`core/flow.rs`, `core/handler.rs`) | `FlowState` behind a mutex, two `Notify` objects | `on_packet`, `finish`, `unexpected` | the task of the connection (shared entry, notification) | an OS thread and an async task share the entry; the handler unlocks before `finish`; packets are repeated and reordered; the task times out |
| Bypass methods (`core/methods/`) | none | `on_handshake_complete_ack`, `on_first_data_packet` | called by the handler under the lock | one- and two-stage methods share one state machine; sequence arithmetic |
| Intercepted connection (`core/proxy.rs` 406-595) | its sockets, what it waits for | connect, wait, read and write the ClientHello, report, release | handler, flow table, dashboard, relay | each `?` leaves at a different point |
| Flow table (`core/flow.rs` 114) | map from 4-tuple to entry | insert, get, remove by a scope guard | all connections, the handler | the kernel reuses ports; the guard outlives the socket |
| Relay (`core/proxy.rs` 810-928) | two counters, four tasks | copy, tick, join, rotate | dashboard | abort is a request, not an end |
| Events and dashboard (`core/proxy.rs` 79-183, `zerodpi/src/tui.rs` 1111-1215) | channel, log, counter | `emit`, `apply_event`, prune | every connection | an event names its connection by a port |
| find_ip pool (`core/proxy.rs` 1079-1594, 2007-2158) | active addresses, pin, cache, scan, counters | accept, evaluate, remove, replace, pin | scanner, user, relays | one cycle takes the lock many times |
| auto_spoof pool (`core/proxy.rs` 1301-1398, 1633-1946) | the same by (domain, address) | the same | the same | addresses are dropped for pairs |
| IP-bypass and tls_frag proxies (`core/proxy.rs` 621-798, 986-1070) | the connection | accept, read and cut the ClientHello, connect, relay | active target, relay, dashboard | reads without a timeout; leaves with `?` |
| Target rescans (`zerodpi/src/main.rs` 603-697, 1891-1955) | active target behind an RwLock | scan, switch, announce | new connections, dashboard | the target changes while connections are set up with it and before the dashboard opens |
| Scanners (`core/sni_scanner.rs`, `core/ip_scanner.rs`) and their screens | tasks, semaphores, channels, the two result lists | connect, resolve, probe, report, drain, abort, collect | pools, rescans, the user | a task that is done and a task that counts as finished differ; senders live in tasks that wait for permits |
| Proxy tester (`core/proxy_tester.rs`, `main.rs` 2177-2394) | a blocking task, one interceptor and one proxy for each candidate | open, serve, probe through SOCKS, report | interceptors, screen | a blocking task cannot be aborted; interceptors outlive their test |
| Platform (`zerodpi-platform/src/`) | firewall rules, queue or WinDivert handle, reading threads | open, install, bind, read, rebuild a packet, drop | kernel, handler | several commands, each of which may fail, with effects that outlive the process |
| Mode loops (`zerodpi/src/main.rs`) | main task, handle of the proxy, choices | start, serve, change range or domain, pin, quit, be signalled | everything | tasks and threads that go on beside an aborted handle |
| Terminal screens (`zerodpi/src/tui.rs`) | selection and filter of a screen | drain, keys, drawing | scans, pools and counters | a list that is old when a key is pressed |
| Configuration, TLS template, network helpers | none | parse, validate, build bytes | read once | values at the limits |

What makes each component correct is listed with its module in section 3; every
hazard of the code, with its line and the properties about it, is in
`PROJECT.json`.

## 2. Modules

    BypassMethods <- BypassFlow <- MCBypassFlow       IpPool <- FindIpPool    <- MCFindIpPool
                     |   \                                  |            \
          BypassVerdict   InterceptProofs                  |        FindIpPoolProofs
                         /                                 |  <- AutoSpoofPool <- MCAutoSpoofPool
    FlowTable <----------  <- MCFlowTable                  |            \
                                                      IpPoolProofs  AutoSpoofPoolProofs
    FirstRecord <- MCFirstRecord                      Rescan <- Session <- MCSession, SessionProofs
                <- StreamProofs                       Interceptor <- ProxyTest <- ProxyProofs
                                                      Relay                    <-
    Selection <- Dashboard  <--------------------- MCDashboard
              <- ScanScreen <- IpScanner  <- Scan <- MCScan
                            <- SniScanner <-
    ScreenProofs extends Dashboard and Scan

`A <- B` means that B extends A. `BypassFlow` instantiates `BypassVerdict`, its
abstract specification, with a refinement mapping. `Selection` has the one operator
that pruning a log and sorting a list share: the elements at some positions, in order.
Two components whose theorems share a module have different names for what they define,
such as `RelayInit` beside the `Init` of `ProxyTest`. A definition marked `Mutant` is a
plausible bug in the definition that follows it; no run uses it. A property whose
comment says `Known not to hold` states what the code claims and does not keep; it is
in no passing run, and section 4 tells what goes wrong.

## 3. What each module says

### BypassFlow, BypassMethods, BypassVerdict: one intercepted connection

The interceptor thread and the proxy task, with one step for each critical section
of the entry's mutex. So `drop(state); entry.finish(..)` in the handler is two
steps, and so is the task's check of the state followed by the creation of its
`notified()` future. `Notify::notify_waiters` wakes the futures that exist and
stores no permit. Packets are the fields the handler looks at: direction, kind,
`seq`, `ack`; `Captured` is every such packet, in every order and any number of
times, so loss, duplication and reordering are all there. `OnPacket` is the whole of
`on_packet`: its alternatives are the branches of the code, and whatever matches none
is `UnexpectedPacket`. `BypassMethods` holds what each of the ten methods answers at
its two hooks.

* Safety: sequence numbers are known before the code unwraps them
  (`FakeImpliesHandshake`); a flow is tracked exactly while undecided
  (`MonitoredIffUndecided`); a success means that every stage asked for has happened
  (`AckedMeansStagesDone`); only a success reported as one is relayed
  (`RelayOnlyAfterSuccess`); no stage rewrites twice (`OneRewritePerStage`); the first
  outcome stays (`OutcomeIsFinal`); nothing is rewritten once decided
  (`NoRewriteAfterDecision`).
* Liveness: the task leaves the bypass phase (`TaskSettles`) and, where the code
  reports its errors, says so (`EventuallyReported`).
* Refinement: `ImplementsVerdict`, with its fairness.

### FlowTable: the connections that share the table

The kernel gives out any port no socket holds. The guard removes the key before the
relay, but on an error path after the socket has gone, so that a newer connection
may own the port by then. `NoForeignEntry`, `RelayIsUntracked`, `NoLeak`. The key is the port: the other three fields are equal for all
connections to the same target.

### Relay: counting_relay

Two copiers, the ticker and the select loop. `abort()` takes effect where the task
next awaits, so an aborted task may still copy a chunk or send a report.
`NeverOverReports`, `UncountedIsOneChunk`, `CompletedIsFinal`,
`ProgressIsMonotone`; `RelayReturns` and `TasksStop`.

### Dashboard: events of many connections in one channel

Each connection emits what the code of its mode emits, in its order; the dashboard
applies one event at a time, prunes the log, and counts. `ActiveIsExact` says that
the counter is the number of connections whose beginning has been applied and whose
end has not, though events reach the wrong records; `PruneSparesActive`,
`EndedIsForgotten`.

### IpPool, FindIpPool, AutoSpoofPool: the pools

`IpPool` has what both managers share, one action for each time the pool's lock is
taken. The modes add their accept loop, traffic, the verdict and the order of the
steps. A pin is two steps, as the list the user reads is not locked while it is
shown. A relay may go on after its address was dropped, and several relays and the
manager write a counter, so a verdict reads counters (`Counters`) of any values but for
addresses that never had a connection, whose counters are 0. In find_ip a client gets
its address in one step (`ChooseAddress`) and is counted under it in a later one
(`CountConnection`); the pin and whole cycles of the manager may fall between them.

* `PoolIsBounded`, of both: the pool is filled by scans, from the cache and by the user,
  with the lock released in between.
* `PinIsObeyed`, of find_ip: after a pin at most one connection goes elsewhere, the one
  that had its address already, though the cycle under way may remove the pinned address
  and refill the pool. `ServedACycle`: until the user pins, only addresses that were in
  the pool for a whole sleep are dropped, so that nothing a scan or the cache has just
  added is judged by zeros it could not help. The history variables `astray` and `slept`
  serve these two. `PoolRefills`: find_ip's cycle goes on with an empty pool.
* `NoDropBeforeTraffic`, of auto_spoof; `DropsAreBounded`: `AUTO_SPOOF_DROP_COUNT` counts
  pairs, and every address on one of them goes, at least as many as hold the pairs and
  at most one for each; `PinStopsManager`.

No property relies on more of the counters than that: the reset of a cycle zeroes what
relays overwrite with the totals of their lives, so that their values say little.

### ScanScreen, IpScanner, SniScanner, Scan: a scan and its screen

`ScanScreen` has what the two scanners share: probe tasks under a semaphore, the
channel, the screen that drains it and the caller that takes the scan's own list if
its task `is_finished` and the screen's otherwise. `IpScanner` is the two-phase pipeline
(connect, then probe what answered, while connecting goes on), with its two
internal channels and the merge by address; `SniScanner` a task for each hostname.
`Scan` composes them with the user. A task's end has the three steps it has in the
runtime: the list is returned, the sender dropped with the future, the task marked
finished; the screen can leave between them. A probe spawned by an aborted scan goes
on.

* `NothingLost`: a scan that nobody stopped hands over the probed entry of everything
  that answered, whichever list was taken. It fails if `p2_rx` is not drained to its
  end, and it needs the channel to close only after every probe.
* `CountCoversArrived` relates the counts that two kinds of tasks send over one
  channel. `ScanEnds`: no sender, permit or channel keeps a scan, or a probe, for ever.

### Interceptor, ProxyTest: engines opened one after another

`Interceptor` is `PacketInterceptor::open`, `run` and drop with the firewall commands of
both Linux backends, any of which may fail, up to `MaxFaults`: the installs, the calls
that set up the queue, and each deletion of a drop or a rollback. Rules are kernel state:
they are what is left when the process has forgotten about them. `ProxyTest` is
`proxy_scan`'s second phase: for each candidate an interceptor, a thread that reads it
and a probe with a timeout, in a blocking task, and the caller that waits for its list.
With a screen the caller does not get that far: `draw_proxy_scan_progress` lays out three
areas and draws its help line in the fourth, so that the first draw panics (`Draw`).

* `RulesHaveOwner`: a rule in force belongs to an interceptor that is being opened or
  read, or to a deletion that was tried and failed, or is the first of two iptables
  rules, which no guard has yet when the second fails.
* `FailuresAreOwn`: a candidate reported without an engine had a failure of its own, for
  WinDivert always, and on Linux until one has opened; a failed `open` gives the queue
  back.
* `TesterEnds`: the tests end, and so does the process when its mode returns or panics,
  whatever the SOCKS proxy does.
* `EngineOpens`, known not to hold: a thread blocks in `recv` and keeps the queue.
  `ResultsAreShown`, known not to hold: the panic loses them.

### Rescan, Session: one run of a serving mode

`Rescan` is the shared target: the background task that scans, switches and announces,
the accept loop that reads it once for each connection, and the header of the dashboard.
`Session` adds the main task of the five serving modes, from the checks of the
configuration through choices, scans and the dashboard to the end of the process, with
the proxies it spawns and aborts, their port, their cycle managers, the interceptor's
thread and signals. An aborted accept loop holds its port until the runtime drops it,
and nothing in the main task waits for that: the next proxy may find the port taken.

* `FakeNamesItsAddress`: no connection pairs the hostname of one target with the
  address of another. `HeaderCatchesUp`: what the header shows is, once the events
  are applied, what connections use. `ServedIsHeld`: however often the range or the
  domain is changed, only the last proxy started serves, and main holds its handle; all
  others have been told to stop. `HeadlessStops`: without a screen the end of
  anything the process needs ends the process.
* `PortIsFree`, `ManagersAreServed` and `DashboardIsArmed`, known not to hold.

### FirstRecord: the bytes of the ClientHello

What the client sends, how the task reads its first record and writes it whole or in
chunks, how the kernel packs it, what the interceptor makes of the first packet with
data (`fragment_payload` as a recursive function, in the shape of the code's loop), and
what the server's TCP puts in order. Bytes are digits to a small base, so that a
length still needs its two bytes.

* `FragmentsReassemble` compares the rewritten packet with an independent reading of
  its records: complete, small enough, and with the same content under the same type
  and version. `UnrewrittenIsWhole`: a stream of which nothing was rewritten arrives
  byte for byte.
* `StreamReassembles`, known not to hold: the payload grows, the numbers do not.

## 4. Runs

Passing runs, and the bounds they use:

| Run | Shows | Bounds, and why they suffice |
|---|---|---|
| `bypass_flow` | safety of every method and of a method that may answer anything the trait allows; the task settles and reports; refinement of `BypassVerdict` | all the methods, each as the active one, and the set of all hook answers; sequence numbers modulo 3: a number can be the expected one, its successor or neither, and wraps |
| `flow_table` | ports are reused without mixing flows | 3 connections on 2 ports: two overlap and a third reuses |
| `relay` | the counts, and that the relay and its tasks end | chunks of up to 2 bytes, 2 bytes each way: a chunk is written in parts, and two chunks fit |
| `dashboard` | the counter and the log; ended connections are forgotten in the modes that announce every end | 2 connections in each of the six modes, 2 ports, a log of 1: the log overflows and a port is shared; progress is sent only while the queue is empty (`MaxQueue`), which bounds repeats, not order |
| `find_ip_pool` | find_ip: the limit, the pin, what a cycle may judge, the refill | 3 addresses of two scores, a pool of 2, scans of any of them, one dropped of those that carry bytes, bytes up to 2: ties, an idle address, a weak one, a full pool with a candidate over |
| `auto_spoof_pool` | auto_spoof: the limit, the cost of a verdict, and that a pin stops the manager | 3 addresses, a pool of 2, 2 domains, drop counts 1 to 3, bytes up to 2: two pairs on one address or on two, more pairs than one address has, and more than a pool that has shrunk to one |
| `scan` | both scanners with their screens: nothing is lost, the counts are ordered, every scan ends | 3 list positions of which two are one address, 3 pairs of 2 hostnames, one permit for each semaphore (none, which `config.validate()` lets pass, would stop a scan for ever), the screen's threshold at 1: tasks queue for permits, a duplicate merges, a hostname has two addresses |
| `proxy_test` | firewall rules, whose failures cost whom a test, the end of tests and process | 3 candidates on each backend, with and without a screen, and 4 faults: an install fails with its rollback, both deletions of a drop fail, one engine fails beside one that reads |
| `session` | target, header, the proxies and end of the five serving modes | 3 targets with 2 hostnames and 3 addresses, 3 proxies in one run, 2 announcements on their way: a second restart while the first proxy is still being dropped, and changes before the first is shown |
| `first_record` | a cut ClientHello reassembles; an uncut stream is untouched | base 3, bodies of 0 to 4 bytes, a second record, streams that stop at every byte, sizes 1, 2 and 4, packets up to 8 bytes, a packet limit that some rewritten records exceed: every alignment of records, chunks and packets, and a length that needs its high byte |

Runs that end in a violation check one sentence of the code's comments each and show
where the program does otherwise; `PROJECT.json` quotes it under `findings`.

| Run | Property | What happens |
|---|---|---|
| `tested_unarmed` | `EngineOpens` | the first test's thread keeps the netfilter queue; every later candidate on Linux is reported without having been tested |
| `stream_shift` | `StreamReassembles` | tls_record_frag sends a ClientHello that is five bytes longer for each extra record, under sequence numbers that do not know it; the server drops the first bytes of what follows |

Properties of the modules that are known not to hold, with what TLC shows when one of
them is checked under the constants of the module's run:

* `BypassFlow`, `ReportedIsTheOutcome`: `finish` between the check of the state
  (`core/proxy.rs` 229) and the `notified()` future (233) wakes nobody, as
  `notify_waiters` stores no permit; the task times out and reports `UnexpectedClose` for
  a bypass that succeeded.
* `FlowTable`, `BypassIsTracked`: on an error path the socket is dropped before the
  scope guard; the port may be another connection's by the time its key is removed.
* `Dashboard`, `OwnEventsOnly`: a port is used again before the last event of its
  connection is applied, though `zerodpi/src/tui.rs` 800 calls it unique.
  `EndIsAnnounced`: an error while tls_frag reads the ClientHello sends no event.
* `IpPool`, `PinIsKept`, in both modes: a pin between the verdict and the removal
  (`core/proxy.rs` 1909 and 2099) is removed, and when the manager stops the pool is not
  what the user pinned. find_ip routes to the pin all the same; auto_spoof does not.
* `AutoSpoofPool`, `DropsAsDocumented`: N dropped pairs may be of up to N addresses
  (`core/proxy.rs` 1900), not of `ceil(N / domains)` (1767).
  `PoolRefills`: an empty pool that has collected an empty scan spawns no other
  (`core/proxy.rs` 1875).
* `ProxyTest`, `ResultsAreShown`: `run_proxy_scan_progress` "returns `(entries, aborted)`"
  (`tui.rs` 2498), but its first draw indexes the fourth of three areas (2648) and
  panics; the process ends when the tests it no longer waits for have ended.
* `Session`, `PortIsFree`: main aborts the old proxy and spawns the new one without
  waiting (`main.rs` 1376, 1719). The choices and the scan in between take longer than a
  task takes to be dropped, as a rule; the program relies on it.
  `ManagersAreServed`: `main.rs` 1376 says "Stop old proxy if running." and
  aborts the accept loop; the cycle manager it spawned scans on for a pool nobody uses.
  `DashboardIsArmed`: the dashboards do not learn that the proxy could not listen or
  that the interceptor stopped, though `tui.rs` 978 speaks of the channel's end.

Divergences of less weight that the models show too, for which no run is kept:

* A failing `set_nodelay` of a segmenting method leaves the bypass phase without an
  event (`core/proxy.rs` 508; `EventuallyReported` excludes it).
* The two-stage methods reach the data hook after emitting a fake, though
  `core/methods/mod.rs` 128 ties the hook to `PassThrough`.
* A ticker that is being polled when it is aborted sends a report after
  `RelayFinished`, with older counts (`core/proxy.rs` 899).
* At the maximum lifetime the part of a chunk already written is in no count
  (`core/proxy.rs` 862, against 91).
* auto_spoof sends nothing when its relay ends (`core/proxy.rs` 1759).
* An address that is in the cache and in the pool is removed as dead and added again
  by the same cycle (`core/proxy.rs` 2116).
* A free place goes to the first probe to complete, not to the best
  (`core/proxy.rs` 2030, against 1408).
* find_ip's verdict claims to use "TOTAL lifetime bytes" (`core/proxy.rs` 2063), which the
  reset of the cycle before has zeroed; the counts of connections, which decide whether
  there is a verdict, are not reset. An address whose connections have ended is idle in
  the next cycle.
* The first place of `www.hcaptcha.com` (`release/README.md` 26) is lost when the
  screen's list is taken: the caller sorts by score only (`main.rs` 530).
* An address that is twice in the IP list yields two entries, one of them unprobed; a
  list includes the addresses that did not connect, so that "no IPs passed the scan"
  means an empty list (`core/ip_scanner.rs` 312), and a rescan may switch to one.
* A rescan takes the head of the list whatever the active target scores
  (`main.rs` 688; the test `sni_switches_without_requiring_score_improvement` asks for
  it), though `src/config.toml` 73 speaks of a better result.
* find_ip and auto_spoof without a screen say "send SIGTERM to stop" and install no
  handler: the signal kills the process, and firewall rules are not theirs to leave.
* A ClientHello split over several packets is no complete record and passes as it is,
  yet the bypass counts as complete (`core/methods/tls_record_frag.rs` 83); so does one
  that cannot be rebuilt (`zerodpi-platform/src/linux.rs` 109).
* A SOCKS host name passes the check of reachability and fails every probe, which
  parses a socket address (`core/proxy_tester.rs` 258).
* A deletion of a firewall rule that fails is ignored, also that of nftables' rollback
  (`zerodpi-platform/src/linux.rs` 412, 300): a table without a guard stays.
* The proxy tester's process waits for the remaining tests: their task is blocking, and
  dropping the runtime joins it. The firewall rules of engines that still read are
  left behind when the process ends.

Every property of a passing run has a mutant in `PROJECT.json`: a change to the
code's definition under which TLC finds the property violated.

## 5. Fairness

* `BypassFlow`: weak fairness of the proxy task. The tokio runtime polls a task that
  is ready and every wait of the phase has a timeout, which `TimeOut` and
  `ReadHelloFails` stand for, or is a connect that the kernel gives up. Nothing is
  assumed of the interceptor or of the network.
* `Relay`: the loop is polled, and its deadline fires; a copier that owes a store
  or a shutdown does it; strong fairness of a requested cancellation, because a
  copier's cooperative budget makes it await again and again though not at one
  moment. Peers need not send, read or close.
* `Dashboard`: the loop drains the channel; a task sends the event it owes. No
  connection has to begin or to end.
* `Scan`: the runtime polls the scan's tasks and every await of theirs has a timeout;
  the screen polls the keyboard for 100 ms at a time. No key is pressed.
* `ProxyTest`: the tester has a thread, its probe a timeout; the caller runs. The SOCKS
  proxy need not act.
* `Session`: the runtime polls the proxy's task and main its futures. No user, signal,
  scan or connection has to come.
* Pools: the manager and the scan go on, and if scans finish again and again then
  not all of them find nobody. No client and no user has to come.

## 6. Proofs

TLAPS proves, for every value of the constants that satisfies the named
assumptions of the modules:

* `InterceptProofs`: type correctness and the safety properties of `BypassFlow`, and
  that its initial states and steps map to those of `BypassVerdict`; `NoForeignEntry`,
  `RelayIsUntracked` and `NoLeak` of `FlowTable`.
* `StreamProofs`: that `fragment_payload` is correct on every input
  (`PayloadReassembles`), and both properties of `FirstRecord`, `FragmentsReassemble` and
  `UnrewrittenIsWhole`, for every client, base and size.
* `ScreenProofs`: `ActiveIsExact` and `PruneSparesActive` of `Dashboard`, for any number of
  connections, ports and records; `NothingLost` and `CountCoversArrived` of `Scan`, for
  any lists, permits and answers, with a screen or without.
* `IpPoolProofs`: lemmas about the shared steps, of which `FillsRoom` (filling the
  room left keeps the limit) needs the theorems on cardinalities.
* `FindIpPoolProofs`: type correctness, `PoolIsBounded`, `PinIsObeyed`, `ServedACycle`.
* `AutoSpoofPoolProofs`: type correctness, `PoolIsBounded`, `DropsAreBounded`,
  `NoDropBeforeTraffic`, for any number of domains and every drop count.
* `SessionProofs`: `ServedIsHeld`, `FakeNamesItsAddress` and `HeaderCatchesUp`, for any
  number of targets, proxies and undelivered announcements.
* `ProxyProofs`: `RulesHaveOwner` and `FailuresAreOwn` of `ProxyTest`, for any number
  of candidates and failures, and the four safety properties of `Relay`.

Each follows one argument: an inductive invariant, that `Init` implies it, that
`[Next]_vars` keeps it, with a step for every action, and the property from it. The
properties alone are not inductive:

* In `BypassFlow`, that a success means every stage is done depends on where the
  handler is (`HandlerInv`: an outcome it is about to pass to `finish` was earned,
  and a fake was sent only with both sequence numbers known), on the history of the
  rewrites (`RewriteInv`) and on what the task has read (`TaskInv`: what it got is
  the outcome that is still there). `ArmedInv` ties futures to program counters, which
  the refinement needs.
* In `FlowTable`, that user data meets no entry needs that two open sockets have
  different ports, and for each entry where the task that inserted it is
  (`KeyInv`). A late removal then can only take away.
* In `Relay`, `LagInv` relates forwarded, counted and in-hand bytes by the copier's
  program counter, and `LoadedInv` keeps everything loaded below the counters.
* In `FirstRecord`, what was read, written and received are beginnings of the stream, and
  what was received is as long as what was sent (`StreamInv`). A packet that was
  rewritten had complete records, and went out as `fragment_payload` cuts them
  (`JudgedInv`); what that function computes is the next paragraph.
* In `Dashboard`, the counter is exact because a connection sends its beginning before
  one end, and the channel keeps the order: an end is never applied while the
  beginning is still queued (`ChannelInv`, of which `EndStays` says that). A decrement
  then meets a counter that is not zero, and `saturating_sub` never saturates. That
  pruning keeps active records needs only that it drops positions chosen among the others.
* In `Scan`, an answer is followed from hand to hand. What is to be tried has not been
  tried, is connecting, waits in `p1`, or was received (`ConnectInv`); what was received
  and answered has a probe, save for the one due next (`SpawnInv`); a probe that ended
  has its entry in `p2` or under its address (`EntryInv`), and a hostname is done after
  its probes (`HostInv`). On the screen's side an entry that was sent is in the
  channel or has arrived (`ShownInv`), and the channel does not close before the scan's
  task has gone (`SenderInv`), so that both lists hold everything at the end
  (`FinalInv`). `CountInv` compares the last count sent with the probes that reported.
* In `FindIpPool`, that only one connection goes astray needs that a connection given
  another address than the pinned one is still uncounted and the only such (`PinInv`).
  That a verdict falls on addresses of a whole cycle needs that nothing is added while
  the manager sleeps, and that a verdict is gone before the next sleep (`SleepInv`).
* In `AutoSpoofPool`, the cost of a verdict needs no history but two facts on
  cardinalities (`AddressesOfPairs`): a set of pairs has no more addresses than pairs, and
  lies in the product of its addresses and the domains. That the verdict is forgotten
  before the next one (`SettledInv`) makes the step of the property the one that decides.
* In `Session`, that nobody but the held proxy serves needs that main holds none where
  it is about to start one (`ProxyInv`), which rests on the phases a serving mode passes
  once (`PhaseInv`). That the header catches up needs that the last announcement, sent
  or about to be, is of the active target (`HeaderInv`).
* In `ProxyTest`, a failed open must have settled its rules before it is closed
  (`RuleInv`). That a lost test had a failure of its own needs that the engine holding the
  queue is the current one or has an entry that shows it opened (`BoundInv`), and that
  the fault of the candidate under test comes before its entry is counted (`OwnInv`).

Lists are sorted and pruned by position: `Selection` defines the k-th of a set of
positions by the number of those up to it, and `NthIsOnto` follows from the theorems on
cardinalities without induction.

Three assumptions on constants serve the proofs of `Scan`: no probe and no hostname is
called like the scan's own task (`TasksAssumption`, `HostsAssumption`), and the pairs are
finitely many (`PairsAssumption`), as a list file is.

`fragment_payload` and the reading of records are recursive functions of an offset.
What they compute for every input takes induction, and the induction theorems of the
library are not available to the provers used here. `StreamProofs` gets it from the
finite instead: if some set of numbers had no least one, decrementing would map the
numbers up to a bound that are not below all of it one to one to themselves and miss the
greatest, which a finite set does not allow (`LeastNumber`). From that follow induction
from one record to the next (`RecordInduction`), that a function defined that way exists
(`RecordRecursion`), and what a recursive definition says at an offset (the `Unfolds`
lemmas). The argument about the code is then short: a fragment's two length bytes give
back the length of its chunk (`FragmentIsRecord`), the chunks are the body piece by piece
(`ChunkIsPiece`), and a record in front of some data changes nothing about what they
carry (`RecordPrecedes`, `PrecedeTogether`), so that the fragments of a record carry its
content (`CutPrecedes`).

Left to TLC: all liveness (fairness and ENABLED).

## 7. Not modelled

* Byte accounting of the pools across cycles. A verdict reads any values for addresses
  that have had connections, which is what concurrent stores leave of the counters. By
  reading, not by a model: a relay stores the total of its whole life
  (`core/proxy.rs` 950) into a counter that the end of a cycle has saved and zeroed, so
  that the next cycle saves the same bytes again; and what is stored between the load and
  the reset, or for an address that has just left the pool (2133), is not saved at all.
* Header fields, options and checksums of rewritten packets, and the bytes of the fake
  ClientHello: `BypassMethods` keeps which answer a method gives.
* Scores: one bit, good or poor. Latencies break ties only.
* The expansion of list files, results views, saving to JSON, selection, filters,
  scrolling, drawing and terminal errors: `?` between `enter_tui` and `leave_tui` leaves
  the terminal raw.
* Configuration: read and validated once, taken as valid or not.
* Build and installation scripts: no state of interest.
* The platform loops are external to `BypassFlow`, which takes every verdict as carried
  out; `FirstRecord` has the loop that may not.

## 8. Plan

Done, in this order: `BypassFlow` and its proofs; `FlowTable`, `Relay` and theirs;
`Dashboard`; the pools and their proofs; `Scan`; `Interceptor`, `ProxyTest`
and its proofs; `Rescan`, `Session` and `SessionProofs`; `FirstRecord`; the proofs
of `Dashboard`, `Scan` and `FirstRecord`.

Next:

1. `PoolBytes`: counters shared by concurrent relays, the save and reset of a
   cycle; that each byte counts in one cycle, and how far the totals may be wrong.
2. Option and sequence arithmetic of the methods with wrap-around.

The runs are kept few: a module of the plan takes the place of a run whose question
it answers better, and of the shallower properties of that run.
