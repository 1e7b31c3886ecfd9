----------------------------- MODULE MCLifecycle -----------------------------
(***************************************************************************)
(* Lifecycle with one listener, as the command line allows, one client     *)
(* (jobs of different clients do not influence each other, and it may be   *)
(* registered at any time, behind the last cancellation too) and two       *)
(* operations of the first stage, so that one can fail after another was   *)
(* done.                                                                   *)
(***************************************************************************)
EXTENDS Lifecycle
=============================================================================
