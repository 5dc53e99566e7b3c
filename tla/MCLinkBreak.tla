---------------------------- MODULE MCLinkBreak ----------------------------
(* Which troubles a run of LinkBreak may produce.                          *)
EXTENDS LinkBreak

LinkTrouble == {"degrade", "drop"}
LinkAndConnectTrouble == LinkTrouble \cup {"connectFails"}
TwoConnecting == LinkAndConnectTrouble \cup {"operatorOn"}
Adversity == TwoConnecting \cup {"storeFails", "window", "operatorOff", "restart"}
HardLoss == {"drop", "connectFails", "storeFails", "restart", "window"}
SoftLoss == {"degrade"}
AnyLoss == HardLoss \cup SoftLoss
=============================================================================
