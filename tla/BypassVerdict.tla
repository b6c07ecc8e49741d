---------------------------- MODULE BypassVerdict ----------------------------
(***************************************************************************)
(* What an intercepted connection promises, without packets, threads or    *)
(* notifications: the bypass is judged at most once, the connection        *)
(* leaves the bypass phase at most once, and it is relayed only after a    *)
(* success.  BypassFlow implements it.                                     *)
(***************************************************************************)
VARIABLES
    verdict,  \* "none" until the bypass has succeeded or failed
    phase     \* "bypass", then "relay" or "failed"

Init == verdict = "none" /\ phase = "bypass"

\* The bypass is judged once.  A connection that failed for a reason of its
\* own may still be judged by packets in flight.
Judge == /\ verdict = "none" /\ phase # "relay"
         /\ verdict' \in {"FakeDataAcked", "UnexpectedClose"}
         /\ UNCHANGED phase

\* Only a success is relayed; user data never flows over an unjudged path.
Relay == /\ phase = "bypass" /\ verdict = "FakeDataAcked"
         /\ phase' = "relay"
         /\ UNCHANGED verdict

\* The connection may fail at any time before its relay, even after a success
\* the task did not wait for.
Fail == /\ phase = "bypass"
        /\ phase' = "failed"
        /\ UNCHANGED verdict

Next == Judge \/ Relay \/ Fail

Spec == Init /\ [][Next]_<<verdict, phase>>

\* With a running task the bypass phase ends.
FairSpec == Spec /\ WF_<<verdict, phase>>(Relay \/ Fail)
=============================================================================
