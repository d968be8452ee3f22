--------------------------- MODULE MCPortClients ---------------------------
(***************************************************************************)
(* Instances of PortClients for TLC.                                       *)
(***************************************************************************)
EXTENDS PortClients, TLC

CONSTANTS t1, t2, t3

ThreeThreads == {t1, t2, t3}
=============================================================================
