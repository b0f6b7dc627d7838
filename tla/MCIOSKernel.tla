---------------------------- MODULE MCIOSKernel ----------------------------
(* An instance of IOSKernel for TLC: two guest threads, one client slot of  *)
(* the device.                                                              *)
EXTENDS IOSKernel

CONSTANTS c1, c2

MCCallers == {c1, c2}
=============================================================================
