----------------------------- MODULE MCIpcRing -----------------------------
(* Small instances of the ring for TLC. *)
EXTENDS IpcRing

CONSTANTS p1, p2
=============================================================================
