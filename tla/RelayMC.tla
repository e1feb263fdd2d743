------------------------------ MODULE RelayMC ------------------------------
(***************************************************************************)
(* Relay with the constants given their values for TLC.                    *)
(***************************************************************************)
EXTENDS Relay

Plain == [framing |-> FALSE, included |-> TRUE, excluded |-> FALSE]

\* Two lines that pass, and one that does not.
MCLog == <<Plain, Plain, [Plain EXCEPT !.excluded = TRUE]>>
=============================================================================
