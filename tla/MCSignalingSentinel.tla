------------------------- MODULE MCSignalingSentinel -------------------------
(* The bounds are in the configuration. *)
EXTENDS SignalingSentinel
=============================================================================
