---------------------------- MODULE MCFirstRecord ----------------------------
(* Bytes of three values: a body of three bytes needs both bytes of its     *)
(* length.  A ClientHello, a second record, and every place to stop.        *)
EXTENDS FirstRecord

MCHello == <<1, 0, 1>>
MCData == <<1, 1, 0>>
MCBodies == UNION {[1..n -> {0, 1}] : n \in 0..3} \union {<<0, 1, 1, 0>>}

MCStreams ==
    LET whole == {Fragment(MCHello, b) \o Fragment(MCData, c) : b \in MCBodies, c \in {<<>>, <<1>>, <<0, 1>>}}
    IN  UNION {{SubSeq(s, 1, n) : n \in 0..Len(s)} : s \in whole}
=============================================================================
