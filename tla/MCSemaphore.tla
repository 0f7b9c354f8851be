----------------------------- MODULE MCSemaphore -----------------------------
(***************************************************************************)
(* A small instance of CountingSemaphore for TLC; its constants are in the *)
(* configuration.                                                          *)
(***************************************************************************)
EXTENDS CountingSemaphore

=============================================================================
