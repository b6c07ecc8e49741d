------------------------------ MODULE MCSession ------------------------------
(* Three targets: two hostnames, one of them with two addresses.           *)
EXTENDS Session, TLC

CONSTANTS t1, t2, t3, h1, h2, a1, a2, a3

MCTargets == {t1, t2, t3}
MCSniOf == (t1 :> h1) @@ (t2 :> h1) @@ (t3 :> h2)
MCIpOf == (t1 :> a1) @@ (t2 :> a2) @@ (t3 :> a3)
=============================================================================
