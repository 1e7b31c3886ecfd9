--------------------------- MODULE MCTCPCommHelper ---------------------------
(***************************************************************************)
(* Instances of TCPCommHelper: the reader of a tunnel (partial transfers   *)
(* into a buffer) or the writer of a tunnel (exact transfers, longer than  *)
(* the socket buffer and short), and the reader of a handshake (exact      *)
(* transfers).  N_HUP is above every count that the bounds allow, as       *)
(* UINT64_MAX-1 is.                                                        *)
(***************************************************************************)
EXTENDS TCPCommHelper

MCTunnelCalls ==
  {[isReader |-> TRUE, len |-> 2, allowPartial |-> TRUE],
   [isReader |-> FALSE, len |-> 1, allowPartial |-> FALSE],
   [isReader |-> FALSE, len |-> 3, allowPartial |-> FALSE]}

MCTotal == [r \in BOOLEAN |-> IF r THEN 3 ELSE 4]

MCHandshakeCalls == {[isReader |-> TRUE, len |-> 2, allowPartial |-> FALSE]}
=============================================================================
