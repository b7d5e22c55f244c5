----------------------------- MODULE MCOutbound -----------------------------
(* Small instances of Outbound for TLC.                                    *)
EXTENDS Outbound
=============================================================================
