-------------------------- MODULE MCCircularBuffer --------------------------
(***************************************************************************)
(* A small instance of CircularBuffer for TLC; its constants are in the    *)
(* configuration.                                                          *)
(***************************************************************************)
EXTENDS CircularBuffer

=============================================================================
