------------------------------- MODULE MCSbp -------------------------------
(***************************************************************************)
(* Messages with the smallest, the largest and the sign-changing values of *)
(* every field, for bytes of 8 values.                                     *)
(***************************************************************************)
EXTENDS Sbp

\* Boundaries of a field, unsigned and signed.
UnsignedEnds(range) == {0, 1, range - 1}
SignedEnds(range) == {0, -1, range \div 2 - 1, -(range \div 2)}

MessagesOf(type, flags, payloads) ==
    {[type |-> type, version |-> SBP_VERSION, flags |-> f, payload |-> p] :
        f \in flags, p \in payloads}

MCOutgoing ==
    MessagesOf(HELLO, UnsignedEnds(U16), {<<>>})
        \cup MessagesOf(ACK, UnsignedEnds(U16), {<<>>})
        \cup MessagesOf(SET_TIME, {0}, [tv_sec : SignedEnds(U64), tv_nsec : SignedEnds(U32)])
        \cup MessagesOf(SET_SEED, {BYTE + 1}, [seed : UnsignedEnds(U64)])
        \cup MessagesOf(REGISTER_PROCESS, {0}, [pid : UnsignedEnds(U32), slot : {0}])
=============================================================================
