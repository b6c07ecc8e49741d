------------------------------- MODULE MCScan -------------------------------
(* Three positions of the IP list, two of them the same address; two       *)
(* hostnames, one of them special and one with two addresses.              *)
EXTENDS Scan

CONSTANTS s1, s2, s3, h1, h2, q1, q2, q3, a1, a2

MCSlots == {s1, s2, s3}
MCPairs == {q1, q2, q3}
MCHosts == {h1, h2}
MCHostOf == (q1 :> h1) @@ (q2 :> h2) @@ (q3 :> h2)
MCPlace == (s1 :> a1) @@ (s2 :> a2) @@ (s3 :> a2) @@ (q1 :> q1) @@ (q2 :> q2) @@ (q3 :> q3)
MCSpecial == {q1}
MCGood == {s1, s2, q2}
=============================================================================
