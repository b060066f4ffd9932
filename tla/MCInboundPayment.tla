------------------------- MODULE MCInboundPayment -------------------------
(* Two bits of amount below the three method bits; MAX_VALUE_MSAT fits    *)
(* under the method bits as in the code (2.1e18 < 2^61).  A floor above   *)
(* the maximum exercises the create error path.                            *)
EXTENDS InboundPayment

MCMinValues == {None, 3, 4}
MCWordFlips == {0, 1, 4}          \* none, lowest amount bit, method bit 0
MCExpiryFlips == {0, 1}
=============================================================================
