-------------------------------- MODULE Relay --------------------------------
(***************************************************************************)
(* counting_relay: two copier tasks, a progress ticker and the select loop *)
(* that joins the copiers or, at the configured maximum lifetime, aborts   *)
(* them.  The four tasks run on different threads.  abort() only requests  *)
(* a cancellation: a task that is being polled goes on until it awaits     *)
(* something, so it may still copy, or send, after the loop has returned.  *)
(***************************************************************************)
EXTENDS Naturals

CONSTANTS
    Chunk,    \* the largest read, 64 KiB in the code
    MaxBytes  \* bound on the bytes of one direction

ASSUME ChunkAssumption == Chunk \in Nat \ {0}
ASSUME MaxBytesAssumption == MaxBytes \in Nat

Dir == {"c2s", "s2c"}

VARIABLES
    limited,   \* RELAY_MAX_LIFETIME_SECS > 0
    copier,    \* program counter of each copy_counting task
    chunk,     \* size of the chunk it has read
    left,      \* bytes of the chunk not yet written
    forwarded, \* bytes written to each destination
    counter,   \* the task's total and the AtomicU64 it is stored to
    cancel,    \* tasks abort() was called on
    joined,    \* directions whose JoinHandle has been awaited
    sel,       \* the loop: "select", "result", "returned"
    result,    \* RelayResult
    ticker,    \* program counter of the ticker
    snapshot,  \* the counters the ticker has loaded
    last       \* last event sent: kind and bytes

copierVars == <<copier, chunk, left, forwarded, counter>>
mainVars == <<joined, sel, result>>
tickerVars == <<ticker, snapshot>>
relayVars == <<limited, copier, chunk, left, forwarded, counter, cancel, joined, sel,
          result, ticker, snapshot, last>>

Zero == [d \in Dir |-> 0]

RelayInit ==
    /\ limited \in BOOLEAN
    /\ copier = [d \in Dir |-> "reading"]
    /\ chunk = Zero /\ left = Zero /\ forwarded = Zero /\ counter = Zero
    /\ cancel = {} /\ joined = {}
    /\ sel = "select" /\ result = [reason |-> "none", bytes |-> Zero]
    /\ ticker = "waiting" /\ snapshot = Zero
    /\ last = [kind |-> "none", bytes |-> Zero]

-----------------------------------------------------------------------------
(* copy_counting                                                           *)

Copies(d, from, to) ==
    /\ copier[d] = from /\ copier' = [copier EXCEPT ![d] = to]
    /\ UNCHANGED mainVars /\ UNCHANGED tickerVars
    /\ UNCHANGED <<limited, cancel, last>>

\* Mutant: the chunk is counted when it is read.
CountOnRead(d) ==
    /\ Copies(d, "reading", "writing")
    /\ \E n \in 1 .. Chunk :
          /\ forwarded[d] + n <= MaxBytes
          /\ chunk' = [chunk EXCEPT ![d] = 0]
          /\ left' = [left EXCEPT ![d] = n]
          /\ counter' = [counter EXCEPT ![d] = @ + n]
    /\ UNCHANGED forwarded

\* reader.read(&mut buf) returns n > 0.
Read(d) ==
    /\ Copies(d, "reading", "writing")
    /\ \E n \in 1 .. Chunk :
          /\ forwarded[d] + n <= MaxBytes
          /\ chunk' = [chunk EXCEPT ![d] = n]
          /\ left' = [left EXCEPT ![d] = n]
    /\ UNCHANGED <<forwarded, counter>>

\* EOF or an error of the reader.
ReadEnds(d) ==
    /\ Copies(d, "reading", "shutdown")
    /\ UNCHANGED <<chunk, left, forwarded, counter>>

\* write_all makes progress; the last byte ends it.
Write(d) ==
    /\ left[d] > 0
    /\ Copies(d, "writing", IF left[d] = 1 THEN "written" ELSE "writing")
    /\ left' = [left EXCEPT ![d] = @ - 1]
    /\ forwarded' = [forwarded EXCEPT ![d] = @ + 1]
    /\ UNCHANGED <<chunk, counter>>

\* write_all fails, perhaps after a part of the chunk.
WriteFails(d) ==
    /\ left[d] > 0
    /\ Copies(d, "writing", "shutdown")
    /\ UNCHANGED <<chunk, left, forwarded, counter>>

\* Mutant: the size of the chunk is stored, not the total.
StoreChunk(d) ==
    /\ Copies(d, "written", "reading")
    /\ counter' = [counter EXCEPT ![d] = chunk[d]]
    /\ UNCHANGED <<chunk, left, forwarded>>

\* total += n; counter.store(total)
Store(d) ==
    /\ Copies(d, "written", "reading")
    /\ counter' = [counter EXCEPT ![d] = @ + chunk[d]]
    /\ UNCHANGED <<chunk, left, forwarded>>

\* writer.shutdown(), and the task returns its total.
ShutDown(d) ==
    /\ Copies(d, "shutdown", "ended")
    /\ UNCHANGED <<chunk, left, forwarded, counter>>

\* A requested cancellation takes effect where the task awaits.
Cancelled(d) ==
    /\ d \in cancel
    /\ \E at \in {"reading", "writing", "shutdown"} : Copies(d, at, "cancelled")
    /\ UNCHANGED <<chunk, left, forwarded, counter>>

Copier(d) == \/ Read(d) \/ ReadEnds(d) \/ Write(d) \/ WriteFails(d) \/ Store(d)
             \/ ShutDown(d) \/ Cancelled(d)

-----------------------------------------------------------------------------
(* The loop of counting_relay, and what its caller does with the result    *)

Main == UNCHANGED copierVars /\ UNCHANGED tickerVars /\ UNCHANGED limited

\* Mutant: the first direction to end ends the relay.
JoinFirst(d) ==
    /\ Main
    /\ sel = "select" /\ copier[d] = "ended"
    /\ joined' = {d}
    /\ sel' = "result" /\ result' = [reason |-> "Completed", bytes |-> counter]
    /\ UNCHANGED <<cancel, last>>

\* A copier's JoinHandle is ready; both make the relay complete.
Join(d) ==
    /\ Main
    /\ sel = "select" /\ copier[d] = "ended" /\ d \notin joined
    /\ joined' = joined \union {d}
    /\ \/ joined' # Dir /\ UNCHANGED <<sel, result>>
       \/ /\ joined' = Dir
          /\ sel' = "result"
          /\ result' = [reason |-> "Completed", bytes |-> counter]
    /\ UNCHANGED <<cancel, last>>

\* Mutant: the copiers are left running.
DeadlineWithoutAbort ==
    /\ Main
    /\ limited /\ sel = "select"
    /\ sel' = "result"
    /\ result' = [reason |-> "MaxLifetime", bytes |-> counter]
    /\ UNCHANGED <<cancel, joined, last>>

\* Mutant: the deadline is watched only until one direction has ended.
DeadlineBeforeJoin == joined = {} /\ DeadlineWithoutAbort

\* The deadline of the relay, even if a copier has ended in the same instant.
Deadline ==
    /\ Main
    /\ limited /\ sel = "select"
    /\ cancel' = cancel \union (Dir \ joined)
    /\ sel' = "result"
    /\ result' = [reason |-> "MaxLifetime", bytes |-> counter]
    /\ UNCHANGED <<joined, last>>

\* The ticker is aborted and the caller emits RelayFinished.
Finish ==
    /\ Main
    /\ sel = "result" /\ sel' = "returned"
    /\ cancel' = cancel \union {"ticker"}
    /\ last' = [kind |-> "finished", bytes |-> result.bytes]
    /\ UNCHANGED <<joined, result>>

Loop == (\E d \in Dir : Join(d)) \/ Deadline \/ Finish

-----------------------------------------------------------------------------
(* The ticker                                                              *)

Ticks(from, to) ==
    /\ ticker = from /\ ticker' = to
    /\ UNCHANGED copierVars /\ UNCHANGED mainVars
    /\ UNCHANGED <<limited, cancel>>

\* Mutant: the ticker takes the counters instead of loading them.
TickTakes ==
    /\ ticker = "waiting" /\ ticker' = "sending"
    /\ snapshot' = counter /\ counter' = Zero
    /\ UNCHANGED <<limited, copier, chunk, left, forwarded, cancel, last>>
    /\ UNCHANGED mainVars

\* interval.tick() is ready, and the ticker loads the counters.
Tick ==
    /\ Ticks("waiting", "sending")
    /\ snapshot' = counter
    /\ UNCHANGED last

\* tx.send(RelayProgress)
SendProgress ==
    /\ Ticks("sending", "waiting")
    /\ last' = [kind |-> "progress", bytes |-> snapshot]
    /\ UNCHANGED snapshot

TickerCancelled ==
    /\ "ticker" \in cancel
    /\ Ticks("waiting", "cancelled")
    /\ UNCHANGED <<snapshot, last>>

Ticker == Tick \/ SendProgress \/ TickerCancelled

-----------------------------------------------------------------------------
Terminated ==
    /\ sel = "returned" /\ ticker = "cancelled"
    /\ \A d \in Dir : copier[d] \in {"ended", "cancelled"}
    /\ UNCHANGED relayVars

RelayNext == (\E d \in Dir : Copier(d)) \/ Loop \/ Ticker \/ Terminated

\* The runtime polls the loop, whose deadline fires.  A copier that has a chunk
\* writes it or fails, and its cooperative budget makes it await now and then,
\* so that a cancellation is noticed.  Peers need not send, close or read.
Fairness ==
    /\ WF_relayVars(Loop)
    /\ \A d \in Dir : WF_relayVars(Store(d) \/ ShutDown(d)) /\ SF_relayVars(Cancelled(d))
    /\ WF_relayVars(SendProgress) /\ SF_relayVars(TickerCancelled)

RelaySpec == RelayInit /\ [][RelayNext]_relayVars
RelayFairSpec == RelaySpec /\ Fairness
-----------------------------------------------------------------------------
Bytes == [Dir -> 0 .. MaxBytes]

TypeOK ==
    /\ limited \in BOOLEAN
    /\ copier \in [Dir -> {"reading", "writing", "written", "shutdown", "ended",
                           "cancelled"}]
    /\ chunk \in [Dir -> 0 .. Chunk] /\ left \in [Dir -> 0 .. Chunk]
    /\ forwarded \in Bytes /\ counter \in Bytes
    /\ cancel \subseteq Dir \union {"ticker"} /\ joined \subseteq Dir
    /\ sel \in {"select", "result", "returned"}
    /\ result \in [reason : {"none", "Completed", "MaxLifetime"}, bytes : Bytes]
    /\ ticker \in {"waiting", "sending", "cancelled"} /\ snapshot \in Bytes
    /\ last \in [kind : {"none", "progress", "finished"}, bytes : Bytes]

\* No event ever claims bytes that were not forwarded, whatever the ticker and the
\* loop load while the copiers run.
NeverOverReports ==
    \A d \in Dir : last.bytes[d] <= forwarded[d] /\ result.bytes[d] <= forwarded[d]

\* What is forwarded and not yet counted is at most the chunk in hand; between
\* two chunks nothing is.
UncountedIsOneChunk ==
    \A d \in Dir :
        /\ forwarded[d] - counter[d] <= chunk[d]
        /\ copier[d] = "reading" => forwarded[d] = counter[d]

\* A relay that reports Completed has drained both directions, and its totals are
\* final: neither copier forwards a byte afterwards.
CompletedIsFinal ==
    result.reason = "Completed" =>
        \A d \in Dir : copier[d] = "ended" /\ result.bytes[d] = counter[d]

\* The bytes shown for a running relay never go back.
ProgressIsMonotone ==
    [][last'.kind = "progress" /\ last.kind = "progress" =>
         \A d \in Dir : last.bytes[d] <= last'.bytes[d]]_relayVars

\* The relay ends once both directions have, and with a maximum lifetime though
\* neither peer closes.
RelayReturns ==
    limited \/ (\A d \in Dir : copier[d] = "ended") ~> sel = "returned"

\* Nothing the relay spawned outlives it for ever.
TasksStop ==
    sel = "returned" ~> /\ \A d \in Dir : copier[d] \in {"ended", "cancelled"}
                        /\ ticker = "cancelled"
=============================================================================
