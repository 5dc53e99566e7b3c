--------------------------- MODULE MCHostOutage ---------------------------
(* Pages for the run of HostOutage.                                          *)
EXTENDS HostOutage
CONSTANTS p1, p2
=============================================================================
