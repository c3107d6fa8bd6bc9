------------------------- MODULE MCProtocolAdapter -------------------------
(***************************************************************************)
(* Instances of ProtocolAdapter for TLC.  Over CDP five commands go to     *)
(* attach_to_page(), over BiDi up to two to get_or_create_context(), which *)
(* every operation begins with.                                            *)
(***************************************************************************)
EXTENDS ProtocolAdapter

=============================================================================
