----------------------------- MODULE MCFindIpPool -----------------------------
(* Addresses of equal score, and one that accepts TCP and fails TLS.       *)
EXTENDS FindIpPool

CONSTANTS Good, bad

Scores == [ip \in Ips |-> IF ip = bad THEN 0 ELSE 1]
=============================================================================
