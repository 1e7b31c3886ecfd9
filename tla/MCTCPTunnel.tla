----------------------------- MODULE MCTCPTunnel -----------------------------
(***************************************************************************)
(* TCPTunnel with a buffer of two bytes, so that a write can be split and  *)
(* repeated.                                                               *)
(***************************************************************************)
EXTENDS TCPTunnel
=============================================================================
