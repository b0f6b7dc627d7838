------------------------------ MODULE MCJITArena ------------------------------
(* An instance of JITArena for TLC. *)
EXTENDS JITArena
=============================================================================
