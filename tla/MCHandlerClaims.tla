--------------------------- MODULE MCHandlerClaims ---------------------------
(***************************************************************************)
(* HandlerClaims with two connections.  They share only the registry and   *)
(* the shutdown, so a third one would add nothing.                         *)
(***************************************************************************)
EXTENDS HandlerClaims
=============================================================================
