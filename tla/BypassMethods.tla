---------------------------- MODULE BypassMethods ----------------------------
(***************************************************************************)
(* The interceptor-based bypass methods of zerodpi-core/src/methods, seen  *)
(* from the packet handler: what each method's two hooks may answer.       *)
(* The bytes a hook stages on the packet are abstracted; what the handler  *)
(* branches on is the MethodAction it returns.                             *)
(***************************************************************************)

\* MethodAction: the three emit_* constructors of EmitFakeAndAccept, then the
\* three actions that forward the packet unchanged.
MethodAction == {"emit_and_wait_for_ack", "emit_and_complete",
                 "emit_and_wait_for_data", "complete", "pass_through", "abort"}

EmitsFake(a) == a \in {"emit_and_wait_for_ack", "emit_and_complete",
                       "emit_and_wait_for_data"}

Hook == [ack : SUBSET MethodAction, data : SUBSET MethodAction]

\* A method that only rewrites the handshake ACK keeps the default data hook.
AckOnly(actions) == [ack |-> actions, data |-> {"pass_through"}]

\* "Complete or wait": the method's *_COMPLETE_IMMEDIATELY option decides.
Configured == {"emit_and_wait_for_ack", "emit_and_complete"}

wrong_seq            == AckOnly({"emit_and_wait_for_ack"})
wrong_ack            == AckOnly(Configured)
wrong_checksum       == AckOnly(Configured)
wrong_md5            == AckOnly(Configured)
wrong_seq_wrong_md5  == AckOnly(Configured)
\* Without a TCP timestamp option in the ACK there is nothing to backdate.
wrong_timestamp      == AckOnly(Configured \union {"abort"})
\* A first packet that is not a sequence of whole TLS records is left alone.
tls_record_frag      == [ack |-> {"pass_through"},
                         data |-> {"emit_and_complete", "complete"}]
wrong_seq_tls_frag   == [ack |-> {"emit_and_wait_for_data"},
                         data |-> {"complete"}]
wrong_md5_tls_frag   == [ack |-> {"emit_and_wait_for_data"},
                         data |-> {"complete"}]
wrong_seq_tls_record_frag ==
    [ack |-> {"emit_and_wait_for_data"}, data |-> tls_record_frag.data]

build_method ==
    [wrong_seq                 |-> wrong_seq,
     wrong_ack                 |-> wrong_ack,
     wrong_checksum            |-> wrong_checksum,
     wrong_md5                 |-> wrong_md5,
     wrong_seq_wrong_md5       |-> wrong_seq_wrong_md5,
     wrong_timestamp           |-> wrong_timestamp,
     tls_record_frag           |-> tls_record_frag,
     wrong_seq_tls_frag        |-> wrong_seq_tls_frag,
     wrong_md5_tls_frag        |-> wrong_md5_tls_frag,
     wrong_seq_tls_record_frag |-> wrong_seq_tls_record_frag]

\* The methods whose first ClientHello the proxy writes in small segments.
method_segments_first_client_hello ==
    {"wrong_seq_tls_frag", "wrong_md5_tls_frag"}
=============================================================================
