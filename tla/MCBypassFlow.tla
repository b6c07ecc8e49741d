---------------------------- MODULE MCBypassFlow -----------------------------
(* Values of the constants of BypassFlow for TLC.                          *)
EXTENDS BypassFlow

\* The methods the program can build, and one that may answer anything, the
\* contract of the BypassMethod trait.
AllMethods == DOMAIN build_method \union {"any"}
AllHooks == [m \in AllMethods |->
                IF m = "any" THEN [ack |-> MethodAction, data |-> MethodAction]
                             ELSE build_method[m]]
=============================================================================
