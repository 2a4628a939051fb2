------------------------- MODULE MCOpAMPConnections -------------------------
(* Instances of OpAMPConnections for TLC.                                    *)
EXTENDS OpAMPConnections
=============================================================================
