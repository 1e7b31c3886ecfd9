---------------------------- MODULE MCCommService ----------------------------
(***************************************************************************)
(* Three connections and three descriptors, handed out lowest first: one   *)
(* is used again as soon as an earlier handler has been disposed of, and   *)
(* three sockets can be ready when a batch holds two.                      *)
(***************************************************************************)
EXTENDS CommService
=============================================================================
