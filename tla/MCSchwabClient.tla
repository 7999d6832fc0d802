--------------------------- MODULE MCSchwabClient ---------------------------
(* Model values for the run of SchwabClient.                               *)
EXTENDS SchwabClient

CONSTANTS alice, bob
TwoCallers == {alice, bob}
=============================================================================
