----------------------------- MODULE FirstRecord -----------------------------
(***************************************************************************)
(* What becomes of a client's bytes when its first TLS record, the         *)
(* ClientHello, is cut into pieces.  tls_frag reads the record and writes  *)
(* it in chunks; tls_record_frag writes it whole, and the interceptor      *)
(* rewrites the first packet that carries data into smaller records.  The  *)
(* rest of the stream is relayed.                                          *)
(*                                                                         *)
(* Bytes are digits to a base, so that lengths keep their two-byte coding; *)
(* the TCP of the two hosts is external: packets of any size up to the MSS,*)
(* numbered by the bytes the sending kernel was given.                     *)
(***************************************************************************)
EXTENDS Naturals, SequencesExt

CONSTANTS
    Base,        \* values of a byte
    Streams,     \* what a client may send before it closes
    Sizes,       \* TCP_SEG_SIZE or TLS_RECORD_FRAG_SIZE
    MaxBody,     \* MAX_TLS_RECORD_BODY
    MaxSegment,  \* the MSS of the connection
    MaxPayload   \* the longest payload an IPv4 packet can be rebuilt with

ASSUME BaseAssumption == Base \in Nat \ {0, 1}
ASSUME SizesAssumption == Sizes \subseteq Nat \ {0}
ASSUME StreamsAssumption == Streams \subseteq Seq(0..(Base - 1))
ASSUME LimitsAssumption == MaxBody \in Nat /\ MaxSegment \in Nat \ {0} /\ MaxPayload \in Nat

VARIABLES
    records,   \* the method rewrites records; otherwise it writes chunks
    size,      \* the configured size
    stream,    \* all the client sends
    pc,        \* the task: reading, writing, waiting, relaying, failed
    record,    \* the record it read
    written,   \* bytes given to the upstream socket
    sent,      \* how many of them the kernel has sent
    verdict,   \* on the first packet with data: none, staged, unbuilt, passed
    first,     \* its bytes before and on the wire
    got        \* what the server's kernel has put in order

vars == <<records, size, stream, pc, record, written, sent, verdict, first, got>>
kernelVars == <<sent, verdict, first, got>>

HeaderLen == 5

BodyLen(data, at) == data[at + 4] * Base + data[at + 5]

\* The data after an offset begin with a complete record.
IsWholeAt(data, at) ==
    /\ Len(data) - at >= HeaderLen
    /\ at + HeaderLen + BodyLen(data, at) <= Len(data)

After(data, at) == at + HeaderLen + BodyLen(data, at)

\* Where the complete records that some data begin with end.
RecordsEnd(data) ==
    LET end[at \in 0..Len(data)] ==
            IF IsWholeAt(data, at) THEN end[After(data, at)] ELSE at
    IN  end[0]

\* A sequence of complete records, maybe of none.
IsWhole(data) == RecordsEnd(data) = Len(data)

Body(data, at) == SubSeq(data, at + HeaderLen + 1, After(data, at))

Prefix(data, at) == SubSeq(data, at + 1, at + 3)

Chunks(body, n) ==
    [i \in 1..((Len(body) + n - 1) \div n) |->
        SubSeq(body, (i - 1) * n + 1, IF i * n < Len(body) THEN i * n ELSE Len(body))]

Fragment(prefix, chunk) ==
    prefix \o <<Len(chunk) \div Base, Len(chunk) % Base>> \o chunk

\* Mutant: each fragment keeps the length of the record it comes from.
CutUnderOldLength(data, at, n) ==
    LET chunks == Chunks(Body(data, at), n)
        header == SubSeq(data, at + 1, at + HeaderLen)
    IN  IF chunks = <<>> THEN header ELSE FlattenSeq([i \in DOMAIN chunks |-> header \o chunks[i]])

\* An empty record is kept as it is.
CutRecord(data, at, n) ==
    LET chunks == Chunks(Body(data, at), n)
    IN  IF chunks = <<>> THEN SubSeq(data, at + 1, at + HeaderLen)
        ELSE FlattenSeq([i \in DOMAIN chunks |-> Fragment(Prefix(data, at), chunks[i])])

\* Of complete records; of others the code makes nothing, which is what Judge asks
\* with IsWhole.
fragment_payload(data, n) ==
    LET cut[at \in 0..Len(data)] ==
            IF IsWholeAt(data, at) THEN CutRecord(data, at, n) \o cut[After(data, at)]
            ELSE <<>>
    IN  cut[0]

-----------------------------------------------------------------------------

Init ==
    /\ records \in BOOLEAN /\ size \in Sizes /\ stream \in Streams
    /\ pc = "reading" /\ record = <<>> /\ written = <<>>
    /\ sent = 0 /\ verdict = "none" /\ first = [before |-> <<>>, after |-> <<>>]
    /\ got = <<>>

At(from, to) == pc = from /\ pc' = to

TaskOnly == UNCHANGED <<records, size, stream>> /\ UNCHANGED kernelVars

Readable == IsWholeAt(stream, 0) /\ BodyLen(stream, 0) <= MaxBody

ReadRecord ==
    /\ Readable
    /\ At("reading", "writing")
    /\ record' = SubSeq(stream, 1, After(stream, 0))
    /\ UNCHANGED written /\ TaskOnly

\* The client closes, the record is too long, or the time is over.
ReadFails ==
    /\ ~Readable \/ records
    /\ At("reading", "failed")
    /\ UNCHANGED <<record, written>> /\ TaskOnly

WriteSegment ==
    /\ ~records /\ pc = "writing" /\ Len(written) < Len(record)
    /\ LET rest == SubSeq(record, Len(written) + 1, Len(record))
       IN  written' = written \o Head(Chunks(rest, size))
    /\ UNCHANGED <<pc, record>> /\ TaskOnly

EndSegments ==
    /\ ~records /\ Len(written) = Len(record)
    /\ At("writing", "relaying")
    /\ UNCHANGED <<record, written>> /\ TaskOnly

WriteRecord ==
    /\ records
    /\ At("writing", "waiting")
    /\ written' = record
    /\ UNCHANGED record /\ TaskOnly

\* Any verdict completes the bypass.
Proceed ==
    /\ verdict # "none"
    /\ At("waiting", "relaying")
    /\ UNCHANGED <<record, written>> /\ TaskOnly

\* Mutant: the record was looked at, not taken from the socket.
RelayPeeked ==
    /\ pc = "relaying" /\ Len(written) < Len(stream)
    /\ written' = record \o stream
    /\ UNCHANGED <<pc, record>> /\ TaskOnly

\* The relay goes on where the record ended.
Relay ==
    /\ pc = "relaying" /\ Len(written) < Len(stream)
    /\ written' = stream
    /\ UNCHANGED <<pc, record>> /\ TaskOnly

-----------------------------------------------------------------------------
(* Packets                                                                 *)

\* A receiver takes of a packet what follows the bytes it has in order.
Deliver(seq, payload) ==
    got' = IF seq + Len(payload) > Len(got)
           THEN got \o SubSeq(payload, Len(got) - seq + 1, Len(payload)) ELSE got

\* build_modified succeeds: the total length of a packet has 16 bits.
Fits(payload) == Len(payload) <= MaxPayload

\* on_first_data_packet with what the loop makes of its verdict.
Judge(payload) ==
    IF ~IsWhole(payload) THEN "passed"
    ELSE IF Fits(fragment_payload(payload, size)) THEN "staged" ELSE "unbuilt"

\* A packet that cannot be rebuilt goes out as it was, though the flow counts as
\* rewritten.
OnWire(payload) ==
    IF records /\ verdict = "none" /\ Judge(payload) = "staged"
    THEN fragment_payload(payload, size) ELSE payload

\* The flow is tracked until its first data packet; neither a sequence number nor
\* an acknowledgement is translated afterwards.
Transmit ==
    /\ \E n \in 1..MaxSegment :
        /\ sent + n <= Len(written)
        /\ LET payload == SubSeq(written, sent + 1, sent + n)
           IN  /\ Deliver(sent, OnWire(payload))
               /\ IF records /\ verdict = "none"
                  THEN /\ verdict' = Judge(payload)
                       /\ first' = [before |-> payload, after |-> OnWire(payload)]
                  ELSE UNCHANGED <<verdict, first>>
        /\ sent' = sent + n
    /\ UNCHANGED <<records, size, stream, pc, record, written>>

Next ==
    \/ ReadRecord \/ ReadFails \/ WriteSegment \/ EndSegments \/ WriteRecord
    \/ Proceed \/ Relay \/ Transmit

Spec == Init /\ [][Next]_vars

-----------------------------------------------------------------------------
\* What a record carries: every byte with the record's type and version.
Content(data, at) ==
    [i \in 1..BodyLen(data, at) |-> <<Prefix(data, at), data[at + HeaderLen + i]>>]

\* What the records of some data carry, whatever the cuts between them.
Carried(data) ==
    LET carried[at \in 0..Len(data)] ==
            IF IsWholeAt(data, at) THEN Content(data, at) \o carried[After(data, at)]
            ELSE <<>>
    IN  carried[0]

\* The length of the longest body of some records.
LongestBody(data) ==
    LET longest[at \in 0..Len(data)] ==
            IF ~IsWholeAt(data, at) THEN 0
            ELSE IF BodyLen(data, at) > longest[After(data, at)] THEN BodyLen(data, at)
            ELSE longest[After(data, at)]
    IN  longest[0]

\* A rewritten ClientHello is a sequence of complete records of at most the
\* configured size that carries exactly what the client's does.
FragmentsReassemble ==
    verdict = "staged" =>
        /\ IsWhole(first.after)
        /\ LongestBody(first.after) <= size
        /\ Carried(first.after) = Carried(first.before)

\* A stream of which no packet was rewritten arrives byte for byte, however it was
\* read, cut into chunks, packed and relayed.
UnrewrittenIsWhole == verdict # "staged" => IsPrefix(got, stream)

\* The server reads of the whole stream what the client sent, "in order" and
\* "identically to an unfragmented ClientHello".  Known not to hold: what follows
\* a longer ClientHello is numbered as if it had not grown.
StreamReassembles ==
    sent = Len(stream) /\ IsWhole(stream) => Carried(got) = Carried(stream)
=============================================================================
