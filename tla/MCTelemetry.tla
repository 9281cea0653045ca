---------------------------- MODULE MCTelemetry ----------------------------
(***************************************************************************)
(* Two connections and a ring of three records.                            *)
(***************************************************************************)
EXTENDS Telemetry

CONSTANTS c1, c2

MCClient == {c1, c2}
MCFollower == {c1}
=============================================================================
