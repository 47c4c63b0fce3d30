--------------------------- MODULE MCDummyTransfer ---------------------------
(* DummyTransfer with two requests and lengths of up to a few packets. *)
EXTENDS DummyTransfer
=============================================================================
