------------------------- MODULE HandlerClaimsProofs -------------------------
(***************************************************************************)
(* Theorems about HandlerClaims for every set of connections.              *)
(*                                                                         *)
(* The jobs of one connection touch nothing of another, so the inductive   *)
(* invariant is stated connection by connection.  Before the tunnels exist *)
(* the handshake job alone decides what is registered and counted; after   *)
(* that a handler is registered exactly while some tunnel still claims it  *)
(* or some tunnel was told to dispose of it.                               *)
(***************************************************************************)
EXTENDS HandlerClaims, TLAPS

Registered(c) == {e \in Ends : <<c, e>> \in commHandlers}

Claimed(c) == {e \in Ends : counter[<<c, e>>] > 0}

(* Whether tunnel t still has its claim on end e: DisclaimAllHandlers      *)
(* gives back the client first.                                            *)
Claims(c, t, e) ==
  IF pc[c][t] \in {"running", "disclaim1"} \/ (e = "target" /\ pc[c][t] = "disclaim2")
    THEN 1 ELSE 0

(* The handshake is the only job of the connection.                        *)
HandshakeOnly(c) ==
  /\ \A t \in Tunnels : pc[c][t] = "none" /\ owed[c][t] = {}
  /\ pc[c]["handshake"] \notin {"disclaim1", "disclaim2"}
  /\ pc[c]["handshake"] \notin {"running", "connected"} => Claimed(c) = {}
  /\ pc[c]["handshake"] = "none" => Registered(c) = {}
  /\ pc[c]["handshake"] \in {"none", "accepted", "running", "connected"} =>
       owed[c]["handshake"] = {}
  /\ pc[c]["handshake"] \in {"accepted", "running"} => Registered(c) = {"client"}
  /\ pc[c]["handshake"] = "running" =>
       counter[<<c, "client">>] = 1 /\ counter[<<c, "target">>] = 0
  /\ pc[c]["handshake"] = "connected" =>
       Registered(c) = Ends /\ \A e \in Ends : counter[<<c, e>>] = 1
  /\ pc[c]["handshake"] = "modeConnect" => Registered(c) = Ends
  /\ pc[c]["handshake"] \in {"terminal", "disposing"} => Registered(c) = owed[c]["handshake"]
  /\ pc[c]["handshake"] = "done" => Registered(c) = {}

(* The two tunnels share the claims.                                       *)
TunnelsOnly(c) ==
  /\ pc[c]["handshake"] = "done"
  /\ \A t \in Tunnels :
       /\ pc[c][t] \in {"running", "disclaim1", "disclaim2", "terminal", "disposing",
                        "done", "dropped"}
       /\ pc[c][t] \in {"running", "disclaim1", "done"} => owed[c][t] = {}
       /\ pc[c][t] = "disclaim2" => owed[c][t] \subseteq {"client"}
  /\ \A e \in Ends : counter[<<c, e>>] = Claims(c, "reader", e) + Claims(c, "writer", e)
  /\ Registered(c) = Claimed(c) \cup owed[c]["reader"] \cup owed[c]["writer"]
  /\ owed[c]["reader"] \cap owed[c]["writer"] = {}
  /\ \A t \in Tunnels : owed[c][t] \cap Claimed(c) = {}

ClientInv(c) == HandshakeOnly(c) \/ TunnelsOnly(c)

IInv == TypeOK /\ \A c \in Clients : ClientInv(c)
-----------------------------------------------------------------------------
(* The step touches connection c at most.                                  *)
OnlyOf(c) ==
  \A d \in Clients \ {c} :
    /\ pc'[d] = pc[d] /\ owed'[d] = owed[d]
    /\ \A e \in Ends : /\ counter'[<<d, e>>] = counter[<<d, e>>]
                       /\ <<d, e>> \in commHandlers' <=> <<d, e>> \in commHandlers

(* A step that leaves a connection alone keeps its part of the invariant.  *)
LEMMA SameClient ==
  ASSUME NEW d, ClientInv(d), pc'[d] = pc[d], owed'[d] = owed[d],
         \A e \in Ends : /\ counter'[<<d, e>>] = counter[<<d, e>>]
                         /\ <<d, e>> \in commHandlers' <=> <<d, e>> \in commHandlers
  PROVE  ClientInv(d)'
<1>2. Registered(d)' = Registered(d) /\ Claimed(d)' = Claimed(d)
  BY DEF Registered, Claimed
<1>3. \A t \in Tunnels, e \in Ends : Claims(d, t, e)' = Claims(d, t, e)
  BY DEF Claims
<1>4. HandshakeOnly(d) => HandshakeOnly(d)'
  BY <1>2 DEF HandshakeOnly, Ends
<1>5. TunnelsOnly(d) => TunnelsOnly(d)'
  BY <1>2, <1>3 DEF TunnelsOnly, Tunnels
<1> QED
  BY <1>4, <1>5 DEF ClientInv

(* What the jobs of a connection do leaves the invariant of every other    *)
(* connection alone.                                                       *)
LEMMA OtherClients ==
  ASSUME IInv, NEW c \in Clients, OnlyOf(c), NEW d \in Clients, d # c
  PROVE  ClientInv(d)'
BY SameClient DEF OnlyOf, IInv

(* Moving one job of a connection moves no other job.                      *)
LEMMA GotoEffect ==
  ASSUME TypeOK, NEW c \in Clients, NEW j \in Jobs, NEW l \in Locations, Goto(c, j, l)
  PROVE  /\ pc' \in [Clients -> [Jobs -> Locations]]
         /\ pc'[c][j] = l
         /\ \A k \in Jobs : k # j => pc'[c][k] = pc[c][k]
         /\ \A d \in Clients : d # c => pc'[d] = pc[d]
BY DEF TypeOK, Goto

(* The first claim on a handler changes the counter of that handler only.  *)
LEMMA ClaimEffect ==
  ASSUME TypeOK, NEW c \in Clients, NEW k \in Ends, counter' = [counter EXCEPT ![<<c, k>>] = 1]
  PROVE  /\ counter' \in [Handlers -> 0 .. 2]
         /\ \A d \in Clients, e \in Ends : counter'[<<d, e>>] =
              IF d = c /\ e = k THEN 1 ELSE counter[<<d, e>>]
<1>1. counter \in [Handlers -> 0 .. 2] /\ \A d \in Clients, e \in Ends : <<d, e>> \in Handlers
  BY DEF TypeOK, Handlers
<1> QED
  BY <1>1

(* What Disclaim does to the counters and to the debts of the job.         *)
LEMMA DisclaimEffect ==
  ASSUME TypeOK, NEW c \in Clients, NEW j \in Jobs, NEW es \in SUBSET Ends,
         \A e \in es : counter[<<c, e>>] > 0, Disclaim(c, j, es)
  PROVE  /\ counter' \in [Handlers -> 0 .. 2]
         /\ owed' \in [Clients -> [Jobs -> SUBSET Ends]]
         /\ \A e \in Ends : counter'[<<c, e>>] =
              IF e \in es THEN counter[<<c, e>>] - 1 ELSE counter[<<c, e>>]
         /\ owed'[c][j] = owed[c][j] \cup {e \in es : counter[<<c, e>>] = 1}
         /\ \A k \in Jobs : k # j => owed'[c][k] = owed[c][k]
         /\ \A d \in Clients : d # c =>
              owed'[d] = owed[d] /\ \A e \in Ends : counter'[<<d, e>>] = counter[<<d, e>>]
<1>1. counter' = [h \in Handlers |-> IF h[1] = c /\ h[2] \in es THEN counter[h] - 1 ELSE counter[h]]
  BY DEF Disclaim
<1>2. counter \in [Handlers -> 0 .. 2] /\ owed \in [Clients -> [Jobs -> SUBSET Ends]]
  BY DEF TypeOK
<1>3. ASSUME NEW h \in Handlers PROVE h[1] \in Clients /\ h[2] \in Ends /\ h = <<h[1], h[2]>>
  BY DEF Handlers
<1>4. counter' \in [Handlers -> 0 .. 2]
  <2>1. ASSUME NEW h \in Handlers PROVE counter'[h] \in 0 .. 2
    <3>1. CASE h[1] = c /\ h[2] \in es
      <4>1. counter[h] > 0
        BY <1>3, <3>1
      <4> QED
        BY <1>1, <1>2, <3>1, <4>1
    <3>2. CASE ~(h[1] = c /\ h[2] \in es)
      BY <1>1, <1>2, <3>2
    <3> QED
      BY <3>1, <3>2
  <2> QED
    BY <1>1, <2>1
<1>5. \A d \in Clients, e \in Ends : <<d, e>> \in Handlers /\ counter'[<<d, e>>] =
        IF d = c /\ e \in es THEN counter[<<d, e>>] - 1 ELSE counter[<<d, e>>]
  BY <1>1 DEF Handlers
<1>6. {e \in es : Unused(counter[<<c, e>>] - 1)} = {e \in es : counter[<<c, e>>] = 1}
  BY <1>2, <1>5 DEF Unused
<1>7. owed' = [owed EXCEPT ![c][j] = @ \cup {e \in es : counter[<<c, e>>] = 1}]
  BY <1>6 DEF Disclaim
<1>8. owed' \in [Clients -> [Jobs -> SUBSET Ends]]
  BY <1>2, <1>7
<1> QED
  BY <1>2, <1>4, <1>5, <1>7, <1>8
-----------------------------------------------------------------------------
(* The initial state.                                                      *)
LEMMA ClaimsInit == Init => IInv
<1> SUFFICES ASSUME Init PROVE IInv
  OBVIOUS
<1>1. TypeOK
  <2>1. shutdownPending \in BOOLEAN
    BY Zenon DEF Init
  <2> QED
    BY <2>1 DEF Init, TypeOK, Locations
<1>2. ASSUME NEW c \in Clients PROVE HandshakeOnly(c)
  BY <1>2 DEF Init, HandshakeOnly, Registered, Claimed, Jobs, Tunnels, Handlers, Ends
<1> QED
  BY <1>1, <1>2 DEF IInv, ClientInv

(* A step of the listener or of the handshake job.                         *)
LEMMA HandshakePart ==
  ASSUME IInv, NEW c \in Clients, Accept(c) \/ HandshakeStep(c)
  PROVE  IInv'
<1>0. TypeOK /\ ClientInv(c) /\ "handshake" \in Jobs /\ Tunnels \subseteq Jobs
      /\ "client" \in Ends /\ "target" \in Ends
  BY DEF IInv, Jobs, Ends
<1>1. CASE Accept(c)
  <2>1. /\ pc' \in [Clients -> [Jobs -> Locations]]
        /\ pc'[c]["handshake"] = "accepted"
        /\ \A k \in Jobs : k # "handshake" => pc'[c][k] = pc[c][k]
        /\ \A d \in Clients : d # c => pc'[d] = pc[d]
    BY <1>0, <1>1, GotoEffect DEF Accept, Locations
  <2>2. TypeOK'
    BY <1>0, <1>1, <2>1 DEF TypeOK, Accept, Handlers
  <2>3. OnlyOf(c)
    BY <1>1, <2>1 DEF OnlyOf, Accept
  <2>4. ClientInv(c)'
    BY <1>0, <1>1, <2>1 DEF Accept, ClientInv, HandshakeOnly, TunnelsOnly, Registered, Claimed,
       Tunnels, Jobs, Ends
  <2> QED
    BY <2>2, <2>3, <2>4, OtherClients DEF IInv
<1>2. CASE NewClient(c)
  <2>1. CASE shutdownPending
    <3>1. /\ pc' \in [Clients -> [Jobs -> Locations]]
          /\ pc'[c]["handshake"] = "dropped"
          /\ \A k \in Jobs : k # "handshake" => pc'[c][k] = pc[c][k]
          /\ \A d \in Clients : d # c => pc'[d] = pc[d]
      BY <1>0, <1>2, <2>1, GotoEffect DEF NewClient, Locations
    <3>2. TypeOK' /\ OnlyOf(c)
      BY <1>0, <1>2, <2>1, <3>1 DEF TypeOK, OnlyOf, NewClient
    <3>3. ClientInv(c)'
      BY <1>0, <1>2, <2>1, <3>1 DEF NewClient, ClientInv, HandshakeOnly, TunnelsOnly, Registered,
         Claimed, Tunnels, Jobs, Ends
    <3> QED
      BY <3>2, <3>3, OtherClients DEF IInv
  <2>2. CASE ~shutdownPending
    <3>1. /\ pc' \in [Clients -> [Jobs -> Locations]]
          /\ pc'[c]["handshake"] = "running"
          /\ \A k \in Jobs : k # "handshake" => pc'[c][k] = pc[c][k]
          /\ \A d \in Clients : d # c => pc'[d] = pc[d]
      BY <1>0, <1>2, <2>2, GotoEffect DEF NewClient, Locations
    <3>2. /\ counter' \in [Handlers -> 0 .. 2]
          /\ \A d \in Clients, e \in Ends : counter'[<<d, e>>] =
               IF d = c /\ e = "client" THEN 1 ELSE counter[<<d, e>>]
      <4>1. counter' = [counter EXCEPT ![<<c, "client">>] = 1]
        BY <1>2, <2>2 DEF NewClient
      <4> QED
        BY <1>0, <4>1, ClaimEffect
    <3>3. TypeOK' /\ OnlyOf(c)
      BY <1>0, <1>2, <3>1, <3>2 DEF TypeOK, OnlyOf, NewClient
    <3>4. counter[<<c, "target">>] = 0
      BY <1>0, <1>2 DEF ClientInv, HandshakeOnly, TunnelsOnly, Claimed, NewClient, TypeOK, Handlers
    <3>5. ClientInv(c)'
      BY <1>0, <1>2, <3>1, <3>2, <3>4 DEF NewClient, ClientInv, HandshakeOnly, TunnelsOnly,
         Registered, Claimed, Tunnels, Jobs, Ends
    <3> QED
      BY <3>3, <3>5, OtherClients DEF IInv
  <2> QED
    BY <2>1, <2>2
<1>3. CASE HandshakeFails(c)
  <2>1. /\ pc' \in [Clients -> [Jobs -> Locations]]
        /\ pc'[c]["handshake"] = "terminal"
        /\ \A k \in Jobs : k # "handshake" => pc'[c][k] = pc[c][k]
        /\ \A d \in Clients : d # c => pc'[d] = pc[d]
    BY <1>0, <1>3, GotoEffect DEF HandshakeFails, Locations
  <2>2. /\ HandshakeOnly(c) /\ owed[c]["handshake"] = {} /\ Registered(c) = {"client"}
        /\ counter[<<c, "client">>] = 1 /\ counter[<<c, "target">>] = 0
    BY <1>0, <1>3 DEF HandshakeFails, ClientInv, HandshakeOnly, TunnelsOnly
  <2>3. /\ counter' \in [Handlers -> 0 .. 2]
        /\ owed' \in [Clients -> [Jobs -> SUBSET Ends]]
        /\ \A e \in Ends : counter'[<<c, e>>] = 0
        /\ owed'[c]["handshake"] = {"client"}
        /\ \A k \in Jobs : k # "handshake" => owed'[c][k] = owed[c][k]
        /\ \A d \in Clients : d # c =>
             owed'[d] = owed[d] /\ \A e \in Ends : counter'[<<d, e>>] = counter[<<d, e>>]
    <3>1. Disclaim(c, "handshake", {"client"})
      BY <1>3 DEF HandshakeFails
    <3> QED
      BY <1>0, <2>2, <3>1, DisclaimEffect DEF Ends
  <2>4. TypeOK' /\ OnlyOf(c)
    BY <1>0, <1>3, <2>1, <2>3 DEF TypeOK, OnlyOf, HandshakeFails
  <2>5. ClientInv(c)'
    <3>1. Registered(c)' = {"client"} /\ Claimed(c)' = {}
      BY <1>3, <2>2, <2>3 DEF HandshakeFails, Registered, Claimed
    <3> QED
      BY <1>0, <2>1, <2>2, <2>3, <3>1 DEF ClientInv, HandshakeOnly, Tunnels, Jobs
  <2> QED
    BY <2>4, <2>5, OtherClients DEF IInv
<1>4. CASE ConnectTarget(c)
  <2>1. /\ pc' \in [Clients -> [Jobs -> Locations]]
        /\ pc'[c]["handshake"] = "connected"
        /\ \A k \in Jobs : k # "handshake" => pc'[c][k] = pc[c][k]
        /\ \A d \in Clients : d # c => pc'[d] = pc[d]
    BY <1>0, <1>4, GotoEffect DEF ConnectTarget, Locations
  <2>2. /\ counter' \in [Handlers -> 0 .. 2]
        /\ \A d \in Clients, e \in Ends : counter'[<<d, e>>] =
             IF d = c /\ e = "target" THEN 1 ELSE counter[<<d, e>>]
    BY <1>0, <1>4, ClaimEffect DEF ConnectTarget
  <2>3. TypeOK' /\ OnlyOf(c)
    BY <1>0, <1>4, <2>1, <2>2 DEF TypeOK, OnlyOf, ConnectTarget, Handlers
  <2>4. ClientInv(c)'
    BY <1>0, <1>4, <2>1, <2>2 DEF ConnectTarget, ClientInv, HandshakeOnly, TunnelsOnly,
       Registered, Claimed, Tunnels, Jobs, Ends
  <2> QED
    BY <2>3, <2>4, OtherClients DEF IInv
<1>5. CASE HandshakeEnds(c)
  <2>1. PICK l \in {"terminal", "modeConnect"} : Goto(c, "handshake", l)
    BY <1>5 DEF HandshakeEnds
  <2>2. /\ pc' \in [Clients -> [Jobs -> Locations]]
        /\ pc'[c]["handshake"] = l
        /\ \A k \in Jobs : k # "handshake" => pc'[c][k] = pc[c][k]
        /\ \A d \in Clients : d # c => pc'[d] = pc[d]
    BY <1>0, <2>1, GotoEffect DEF Locations
  <2>3. /\ HandshakeOnly(c) /\ owed[c]["handshake"] = {} /\ Registered(c) = Ends
        /\ \A e \in Ends : counter[<<c, e>>] = 1
    BY <1>0, <1>5 DEF HandshakeEnds, ClientInv, HandshakeOnly, TunnelsOnly
  <2>4. /\ counter' \in [Handlers -> 0 .. 2]
        /\ owed' \in [Clients -> [Jobs -> SUBSET Ends]]
        /\ \A e \in Ends : counter'[<<c, e>>] = 0
        /\ owed'[c]["handshake"] = Ends
        /\ \A k \in Jobs : k # "handshake" => owed'[c][k] = owed[c][k]
        /\ \A d \in Clients : d # c =>
             owed'[d] = owed[d] /\ \A e \in Ends : counter'[<<d, e>>] = counter[<<d, e>>]
    <3>1. /\ Disclaim(c, "handshake", Ends)
          /\ Ends \in SUBSET Ends /\ \A e \in Ends : counter[<<c, e>>] > 0
      BY <1>5, <2>3 DEF HandshakeEnds
    <3>2. /\ counter' \in [Handlers -> 0 .. 2]
          /\ owed' \in [Clients -> [Jobs -> SUBSET Ends]]
          /\ \A e \in Ends : counter'[<<c, e>>] =
               IF e \in Ends THEN counter[<<c, e>>] - 1 ELSE counter[<<c, e>>]
          /\ owed'[c]["handshake"] = owed[c]["handshake"] \cup {e \in Ends : counter[<<c, e>>] = 1}
          /\ \A k \in Jobs : k # "handshake" => owed'[c][k] = owed[c][k]
          /\ \A d \in Clients : d # c =>
               owed'[d] = owed[d] /\ \A e \in Ends : counter'[<<d, e>>] = counter[<<d, e>>]
      BY <1>0, <3>1, DisclaimEffect
    <3> QED
      BY <2>3, <3>2
  <2>5. TypeOK' /\ OnlyOf(c)
    BY <1>0, <1>5, <2>2, <2>4 DEF TypeOK, OnlyOf, HandshakeEnds
  <2>6. ClientInv(c)'
    BY <1>0, <1>5, <2>2, <2>3, <2>4 DEF HandshakeEnds, ClientInv, HandshakeOnly, Registered,
       Claimed, Tunnels, Jobs
  <2> QED
    BY <2>5, <2>6, OtherClients DEF IInv
<1>6. CASE MakeTunnels(c)
  <2>1. CASE shutdownPending
    <3>1. /\ pc' \in [Clients -> [Jobs -> Locations]]
          /\ pc'[c]["handshake"] = "dropped"
          /\ \A k \in Jobs : k # "handshake" => pc'[c][k] = pc[c][k]
          /\ \A d \in Clients : d # c => pc'[d] = pc[d]
      BY <1>0, <1>6, <2>1, GotoEffect DEF MakeTunnels, Locations
    <3>2. TypeOK' /\ OnlyOf(c)
      BY <1>0, <1>6, <2>1, <3>1 DEF TypeOK, OnlyOf, MakeTunnels
    <3>3. ClientInv(c)'
      BY <1>0, <1>6, <2>1, <3>1 DEF MakeTunnels, ClientInv, HandshakeOnly, TunnelsOnly, Registered,
         Claimed, Tunnels, Jobs, Ends
    <3> QED
      BY <3>2, <3>3, OtherClients DEF IInv
  <2>2. CASE ~shutdownPending
    <3>1. /\ pc' \in [Clients -> [Jobs -> Locations]]
          /\ pc'[c]["handshake"] = "done"
          /\ \A t \in Tunnels : pc'[c][t] = "running"
          /\ \A d \in Clients : d # c => pc'[d] = pc[d]
      BY <1>0, <1>6, <2>2 DEF MakeTunnels, TypeOK, Locations, Jobs, Tunnels
    <3>2. /\ HandshakeOnly(c) /\ Registered(c) = Ends
          /\ \A e \in Ends : counter[<<c, e>>] = 0
      BY <1>0, <1>6 DEF MakeTunnels, ClientInv, HandshakeOnly, TunnelsOnly, Claimed, TypeOK, Handlers
    <3>3. /\ counter' = [h \in Handlers |-> IF h[1] = c THEN counter[h] + 2 ELSE counter[h]]
          /\ \A h \in Handlers : h[1] \in Clients /\ h[2] \in Ends /\ h = <<h[1], h[2]>>
          /\ \A d \in Clients, e \in Ends : <<d, e>> \in Handlers
      BY <1>6, <2>2 DEF MakeTunnels, TunnelClaims, Handlers
    <3>4. counter' \in [Handlers -> 0 .. 2]
      BY <1>0, <3>2, <3>3 DEF TypeOK
    <3>5. /\ \A e \in Ends : counter'[<<c, e>>] = 2
          /\ \A d \in Clients, e \in Ends : d # c => counter'[<<d, e>>] = counter[<<d, e>>]
      <4>1. \A d \in Clients, e \in Ends : counter'[<<d, e>>] =
              IF d = c THEN counter[<<d, e>>] + 2 ELSE counter[<<d, e>>]
        BY <3>3 DEF Handlers
      <4> QED
        BY <3>2, <4>1
    <3>6. TypeOK' /\ OnlyOf(c)
      BY <1>0, <1>6, <3>1, <3>4, <3>5 DEF TypeOK, OnlyOf, MakeTunnels
    <3>7. TunnelsOnly(c)'
      BY <1>0, <1>6, <3>1, <3>2, <3>5 DEF MakeTunnels, HandshakeOnly, TunnelsOnly, Claims,
         Registered, Claimed, Tunnels
    <3> QED
      BY <3>6, <3>7, OtherClients DEF IInv, ClientInv
  <2> QED
    BY <2>1, <2>2
<1> QED
  BY <1>1, <1>2, <1>3, <1>4, <1>5, <1>6 DEF HandshakeStep

(* A step of a tunnel, from its loop to its terminal result.               *)
LEMMA TunnelPart ==
  ASSUME IInv, NEW c \in Clients, NEW t \in Tunnels, TunnelEnds(c, t) \/ TunnelStep(c, t)
  PROVE  IInv'
<1>0. TypeOK /\ t \in Jobs /\ t # "handshake" /\ Tunnels \subseteq Jobs
      /\ "client" \in Ends /\ "target" \in Ends
  BY DEF IInv, Jobs, Tunnels, Ends
<1>1. TunnelsOnly(c)
  BY DEF IInv, ClientInv, HandshakeOnly, TunnelsOnly, TunnelEnds, TunnelStep, DisclaimClient,
     DisclaimTarget
<1>2. PICK u \in Tunnels : u # t /\ Tunnels = {t, u}
  BY DEF Tunnels
<1>3. \A e \in Ends : counter[<<c, e>>] = Claims(c, t, e) + Claims(c, u, e)
                      /\ Claims(c, t, e) \in {0, 1} /\ Claims(c, u, e) \in {0, 1}
  BY <1>1, <1>2 DEF TunnelsOnly, Tunnels, Claims
<1>4. Registered(c) = Claimed(c) \cup owed[c][t] \cup owed[c][u] /\ owed[c][t] \cap owed[c][u] = {}
  BY <1>1, <1>2 DEF TunnelsOnly, Tunnels
<1>5. ASSUME /\ pc'[c]["handshake"] = "done"
             /\ \A v \in Tunnels :
                  /\ pc'[c][v] \in {"running", "disclaim1", "disclaim2", "terminal", "disposing",
                                    "done", "dropped"}
                  /\ pc'[c][v] \in {"running", "disclaim1", "done"} => owed'[c][v] = {}
                  /\ pc'[c][v] = "disclaim2" => owed'[c][v] \subseteq {"client"}
             /\ \A e \in Ends : counter'[<<c, e>>] = Claims(c, t, e)' + Claims(c, u, e)'
             /\ Registered(c)' = Claimed(c)' \cup owed'[c][t] \cup owed'[c][u]
             /\ owed'[c][t] \cap owed'[c][u] = {}
             /\ \A v \in Tunnels : owed'[c][v] \cap Claimed(c)' = {}
      PROVE  TunnelsOnly(c)'
  BY <1>2, <1>5 DEF TunnelsOnly, Tunnels, Claims
<1>6. CASE TunnelEnds(c, t)
  <2>1. /\ pc' \in [Clients -> [Jobs -> Locations]]
        /\ pc'[c][t] = "disclaim1"
        /\ \A k \in Jobs : k # t => pc'[c][k] = pc[c][k]
        /\ \A d \in Clients : d # c => pc'[d] = pc[d]
    BY <1>0, <1>6, GotoEffect DEF TunnelEnds, Locations
  <2>2. TypeOK' /\ OnlyOf(c)
    BY <1>0, <1>6, <2>1 DEF TypeOK, OnlyOf, TunnelEnds
  <2>3. \A v \in Tunnels, e \in Ends : Claims(c, v, e)' = Claims(c, v, e)
    BY <1>0, <1>2, <1>6, <2>1 DEF Claims, TunnelEnds, Jobs
  <2>4. TunnelsOnly(c)'
    BY <1>0, <1>1, <1>6, <2>1, <2>3 DEF TunnelEnds, TunnelsOnly, Registered, Claimed, Tunnels, Jobs
  <2> QED
    BY <2>2, <2>4, OtherClients DEF IInv, ClientInv
<1>7. CASE DisclaimClient(c, t)
  <2>1. /\ pc' \in [Clients -> [Jobs -> Locations]]
        /\ pc'[c][t] = "disclaim2"
        /\ \A k \in Jobs : k # t => pc'[c][k] = pc[c][k]
        /\ \A d \in Clients : d # c => pc'[d] = pc[d]
    BY <1>0, <1>7, GotoEffect DEF DisclaimClient, Locations
  <2>2. /\ counter[<<c, "client">>] = 1 + Claims(c, u, "client")
        /\ owed[c][t] = {} /\ counter[<<c, "client">>] > 0
    BY <1>0, <1>1, <1>3, <1>7 DEF DisclaimClient, TunnelsOnly, Claims
  <2>3. /\ counter' \in [Handlers -> 0 .. 2]
        /\ owed' \in [Clients -> [Jobs -> SUBSET Ends]]
        /\ \A e \in Ends : counter'[<<c, e>>] =
             IF e \in {"client"} THEN counter[<<c, e>>] - 1 ELSE counter[<<c, e>>]
        /\ owed'[c][t] = owed[c][t] \cup {e \in {"client"} : counter[<<c, e>>] = 1}
        /\ \A k \in Jobs : k # t => owed'[c][k] = owed[c][k]
        /\ \A d \in Clients : d # c =>
             owed'[d] = owed[d] /\ \A e \in Ends : counter'[<<d, e>>] = counter[<<d, e>>]
    <3>1. /\ Disclaim(c, t, {"client"})
          /\ {"client"} \in SUBSET Ends /\ \A e \in {"client"} : counter[<<c, e>>] > 0
      BY <1>0, <1>7, <2>2 DEF DisclaimClient
    <3> QED
      BY <1>0, <3>1, DisclaimEffect
  <2>4. TypeOK' /\ OnlyOf(c)
    BY <1>0, <1>7, <2>1, <2>3 DEF TypeOK, OnlyOf, DisclaimClient
  <2>5. /\ Registered(c)' = Registered(c) /\ owed'[c][u] = owed[c][u] /\ pc'[c][u] = pc[c][u]
        /\ pc'[c]["handshake"] = "done"
    BY <1>0, <1>1, <1>2, <1>7, <2>1, <2>3 DEF DisclaimClient, Registered, TunnelsOnly, Jobs
  <2>6. \A e \in Ends : counter'[<<c, e>>] = Claims(c, t, e)' + Claims(c, u, e)'
    <3>1. /\ Claims(c, t, "client")' = 0
          /\ Claims(c, t, "target") = 1 /\ Claims(c, t, "target")' = 1
          /\ \A e \in Ends : Claims(c, u, e)' = Claims(c, u, e)
      BY <1>7, <2>1, <2>5 DEF DisclaimClient, Claims
    <3> QED
      BY <1>3, <2>2, <2>3, <3>1 DEF Ends
  <2>7. CASE counter[<<c, "client">>] = 1
    <3>1. owed'[c][t] = {"client"} /\ Claimed(c)' = Claimed(c) \ {"client"} /\ "client" \in Claimed(c)
      BY <1>0, <2>2, <2>3, <2>7 DEF Claimed, Ends
    <3>2. owed'[c][t] \cap owed'[c][u] = {} /\ \A v \in Tunnels : owed'[c][v] \cap Claimed(c)' = {}
      BY <1>1, <1>2, <2>5, <3>1 DEF TunnelsOnly
    <3>3. Registered(c)' = Claimed(c)' \cup owed'[c][t] \cup owed'[c][u]
      BY <1>4, <2>2, <2>5, <3>1
    <3>4. TunnelsOnly(c)'
      BY <1>1, <1>2, <1>5, <2>1, <2>5, <2>6, <3>1, <3>2, <3>3 DEF TunnelsOnly
    <3> QED
      BY <2>4, <3>4, OtherClients DEF IInv, ClientInv
<2>8. CASE counter[<<c, "client">>] # 1
    <3>1. owed'[c][t] = {} /\ Claimed(c)' = Claimed(c)
      BY <1>0, <1>3, <2>2, <2>3, <2>8 DEF Claimed, Ends
    <3> QED
      BY <1>1, <1>2, <1>4, <1>5, <2>1, <2>2, <2>4, <2>5, <2>6, <3>1, OtherClients DEF IInv, ClientInv, TunnelsOnly
  <2> QED
    BY <2>7, <2>8
<1>8. CASE DisclaimTarget(c, t)
  <2>1. /\ pc' \in [Clients -> [Jobs -> Locations]]
        /\ pc'[c][t] = "terminal"
        /\ \A k \in Jobs : k # t => pc'[c][k] = pc[c][k]
        /\ \A d \in Clients : d # c => pc'[d] = pc[d]
    BY <1>0, <1>8, GotoEffect DEF DisclaimTarget, Locations
  <2>2. /\ counter[<<c, "target">>] = 1 + Claims(c, u, "target")
        /\ counter[<<c, "target">>] > 0
        /\ Claims(c, t, "client") = 0 /\ "target" \notin owed[c][t]
    BY <1>0, <1>1, <1>3, <1>8 DEF DisclaimTarget, TunnelsOnly, Claims
  <2>3. /\ counter' \in [Handlers -> 0 .. 2]
        /\ owed' \in [Clients -> [Jobs -> SUBSET Ends]]
        /\ \A e \in Ends : counter'[<<c, e>>] =
             IF e \in {"target"} THEN counter[<<c, e>>] - 1 ELSE counter[<<c, e>>]
        /\ owed'[c][t] = owed[c][t] \cup {e \in {"target"} : counter[<<c, e>>] = 1}
        /\ \A k \in Jobs : k # t => owed'[c][k] = owed[c][k]
        /\ \A d \in Clients : d # c =>
             owed'[d] = owed[d] /\ \A e \in Ends : counter'[<<d, e>>] = counter[<<d, e>>]
    <3>1. /\ Disclaim(c, t, {"target"})
          /\ {"target"} \in SUBSET Ends /\ \A e \in {"target"} : counter[<<c, e>>] > 0
      BY <1>0, <1>8, <2>2 DEF DisclaimTarget
    <3> QED
      BY <1>0, <3>1, DisclaimEffect
  <2>4. TypeOK' /\ OnlyOf(c)
    BY <1>0, <1>8, <2>1, <2>3 DEF TypeOK, OnlyOf, DisclaimTarget
  <2>5. /\ Registered(c)' = Registered(c) /\ owed'[c][u] = owed[c][u] /\ pc'[c][u] = pc[c][u]
        /\ pc'[c]["handshake"] = "done"
    BY <1>0, <1>1, <1>2, <1>8, <2>1, <2>3 DEF DisclaimTarget, Registered, TunnelsOnly, Jobs
  <2>6. \A e \in Ends : counter'[<<c, e>>] = Claims(c, t, e)' + Claims(c, u, e)'
    <3>1. /\ Claims(c, t, "target")' = 0
          /\ Claims(c, t, "client") = 0 /\ Claims(c, t, "client")' = 0
          /\ \A e \in Ends : Claims(c, u, e)' = Claims(c, u, e)
      BY <1>8, <2>1, <2>5 DEF DisclaimTarget, Claims
    <3>2. counter'[<<c, "target">>] = Claims(c, t, "target")' + Claims(c, u, "target")'
      BY <1>0, <1>3, <2>2, <2>3, <3>1
    <3>3. counter'[<<c, "client">>] = Claims(c, t, "client")' + Claims(c, u, "client")'
      BY <1>0, <1>3, <2>3, <3>1
    <3> QED
      BY <3>2, <3>3 DEF Ends
  <2>7. CASE counter[<<c, "target">>] = 1
    <3>1. /\ owed'[c][t] = owed[c][t] \cup {"target"}
          /\ Claimed(c)' = Claimed(c) \ {"target"} /\ "target" \in Claimed(c)
      BY <1>0, <2>2, <2>3, <2>7 DEF Claimed, Ends
    <3> QED
      BY <1>1, <1>2, <1>4, <1>5, <2>1, <2>4, <2>5, <2>6, <3>1, OtherClients DEF IInv, ClientInv, TunnelsOnly
  <2>8. CASE counter[<<c, "target">>] # 1
    <3>1. owed'[c][t] = owed[c][t] /\ Claimed(c)' = Claimed(c)
      BY <1>0, <1>3, <2>2, <2>3, <2>8 DEF Claimed, Ends
    <3> QED
      BY <1>1, <1>2, <1>4, <1>5, <2>1, <2>4, <2>5, <2>6, <3>1, OtherClients DEF IInv, ClientInv, TunnelsOnly
  <2> QED
    BY <2>7, <2>8
<1> QED
  BY <1>6, <1>7, <1>8 DEF TunnelStep

(* A terminal result on its way, and the disposal of the handlers.         *)
LEMMA DisposalPart ==
  ASSUME IInv, NEW c \in Clients, NEW j \in Jobs, JobStep(c, j)
  PROVE  IInv'
<1>0. TypeOK /\ ClientInv(c) /\ "handshake" \in Jobs /\ Tunnels \subseteq Jobs
  BY DEF IInv, Jobs
<1>1. CASE Terminal(c, j) \/ DisposeDone(c, j)
  <2>1. PICK l \in {"dropped", "disposing", "done"} :
          /\ Goto(c, j, l)
          /\ l \in {"dropped", "disposing"} => pc[c][j] = "terminal"
          /\ l = "done" => pc[c][j] = "disposing" /\ owed[c][j] = {}
    BY <1>1 DEF Terminal, DisposeDone
  <2>2. UNCHANGED <<commHandlers, counter, owed, shutdownPending>>
    BY <1>1 DEF Terminal, DisposeDone
  <2>3. /\ pc' \in [Clients -> [Jobs -> Locations]]
        /\ pc'[c][j] = l
        /\ \A k \in Jobs : k # j => pc'[c][k] = pc[c][k]
        /\ \A d \in Clients : d # c => pc'[d] = pc[d]
    BY <1>0, <2>1, GotoEffect DEF Locations
  <2>4. TypeOK' /\ OnlyOf(c)
    BY <1>0, <2>2, <2>3 DEF TypeOK, OnlyOf
  <2>5. Registered(c)' = Registered(c) /\ Claimed(c)' = Claimed(c)
    BY <2>2 DEF Registered, Claimed
  <2>6. CASE j = "handshake"
    <3>1. HandshakeOnly(c)
      BY <1>0, <2>1, <2>6 DEF ClientInv, TunnelsOnly
    <3>2. HandshakeOnly(c)'
      BY <2>1, <2>2, <2>3, <2>5, <2>6, <3>1 DEF HandshakeOnly, Jobs, Tunnels
    <3> QED
      BY <2>4, <3>2, OtherClients DEF IInv, ClientInv
  <2>7. CASE j \in Tunnels
    <3>1. TunnelsOnly(c)
      BY <1>0, <2>1, <2>7 DEF ClientInv, HandshakeOnly
    <3>2. \A v \in Tunnels, e \in Ends : Claims(c, v, e)' = Claims(c, v, e)
      BY <1>0, <2>1, <2>3, <2>7 DEF Claims
    <3>3. TunnelsOnly(c)'
      BY <2>1, <2>2, <2>3, <2>5, <2>7, <3>1, <3>2 DEF TunnelsOnly, Jobs, Tunnels
    <3> QED
      BY <2>4, <3>3, OtherClients DEF IInv, ClientInv
  <2> QED
    BY <2>6, <2>7 DEF Jobs
<1>2. ASSUME NEW e \in Ends, DisposeHandler(c, j, e) PROVE IInv'
  <2>1. /\ owed' \in [Clients -> [Jobs -> SUBSET Ends]]
        /\ owed'[c][j] = owed[c][j] \ {e}
        /\ \A k \in Jobs : k # j => owed'[c][k] = owed[c][k]
        /\ \A d \in Clients : d # c => owed'[d] = owed[d]
    BY <1>0, <1>2 DEF DisposeHandler, TypeOK
  <2>2. TypeOK' /\ OnlyOf(c)
    BY <1>0, <1>2, <2>1 DEF DisposeHandler, TypeOK, OnlyOf
  <2>3. Registered(c)' = Registered(c) \ {e} /\ Claimed(c)' = Claimed(c)
    BY <1>2 DEF DisposeHandler, Registered, Claimed
  <2>4. CASE j = "handshake"
    <3>1. HandshakeOnly(c)
      BY <1>0, <1>2, <2>4 DEF DisposeHandler, ClientInv, TunnelsOnly
    <3>2. HandshakeOnly(c)'
      BY <1>0, <1>2, <2>1, <2>3, <2>4, <3>1 DEF DisposeHandler, HandshakeOnly, Jobs, Tunnels
    <3> QED
      BY <2>2, <3>2, OtherClients DEF IInv, ClientInv
  <2>5. CASE j \in Tunnels
    <3>1. TunnelsOnly(c)
      BY <1>0, <1>2, <2>5 DEF DisposeHandler, ClientInv, HandshakeOnly
    <3>2. PICK u \in Tunnels : u # j /\ Tunnels = {j, u}
      BY <2>5 DEF Tunnels
    <3>3. /\ Registered(c) = Claimed(c) \cup owed[c][j] \cup owed[c][u]
          /\ owed[c][j] \cap owed[c][u] = {} /\ owed[c][j] \cap Claimed(c) = {}
          /\ e \in owed[c][j] /\ owed'[c][u] = owed[c][u]
      BY <1>0, <1>2, <2>1, <3>1, <3>2 DEF DisposeHandler, TunnelsOnly, Tunnels
    <3>4. Registered(c)' = Claimed(c)' \cup owed'[c][j] \cup owed'[c][u]
      BY <2>1, <2>3, <3>3
    <3>5. owed'[c]["reader"] \cap owed'[c]["writer"] = {}
      BY <2>1, <3>2, <3>3 DEF Tunnels
    <3>6. Registered(c)' = Claimed(c)' \cup owed'[c]["reader"] \cup owed'[c]["writer"]
      BY <3>2, <3>4 DEF Tunnels
    <3>7. \A v \in Tunnels, k \in Ends : Claims(c, v, k)' = Claims(c, v, k)
      BY <1>2 DEF DisposeHandler, Claims
    <3>8. TunnelsOnly(c)'
      BY <1>0, <1>2, <2>1, <2>3, <3>1, <3>2, <3>5, <3>6, <3>7 DEF DisposeHandler, TunnelsOnly, Tunnels
    <3> QED
      BY <2>2, <3>8, OtherClients DEF IInv, ClientInv
  <2> QED
    BY <2>4, <2>5 DEF Jobs
<1> QED
  BY <1>1, <1>2 DEF JobStep

(* Every step keeps the invariant.                                         *)
LEMMA ClaimsStep == IInv /\ [Next]_vars => IInv'
<1> SUFFICES ASSUME IInv, [Next]_vars PROVE IInv'
  OBVIOUS
<1>1. CASE RequestShutdown
  <2>1. shutdownPending' \in BOOLEAN /\ UNCHANGED <<commHandlers, counter, pc, owed>>
    BY <1>1, Zenon DEF RequestShutdown
  <2>2. TypeOK'
    BY <2>1 DEF IInv, TypeOK
  <2>3. ASSUME NEW c \in Clients PROVE ClientInv(c)'
    BY <2>1, <2>3, SameClient DEF IInv
  <2> QED
    BY <2>2, <2>3 DEF IInv
<1>2. CASE UNCHANGED vars
  <2>1. TypeOK'
    BY <1>2 DEF vars, IInv, TypeOK
  <2>2. ASSUME NEW c \in Clients PROVE ClientInv(c)'
    BY <1>2, <2>2, SameClient DEF vars, IInv
  <2> QED
    BY <2>1, <2>2 DEF IInv
<1> QED
  BY <1>1, <1>2, HandshakePart, TunnelPart, DisposalPart DEF Next, Idle

(* IInv is an inductive invariant of the jobs that share sockets.          *)
THEOREM ClaimsInductive == Spec => []IInv
BY ClaimsInit, ClaimsStep, PTL DEF Spec

(* Type correctness: no counter of HandlerClaim drops below zero or        *)
(* exceeds the two claims of the tunnels.                                  *)
THEOREM ClaimsTypeCorrect == Spec => []TypeOK
<1>1. IInv => TypeOK
  BY DEF IInv
<1> QED
  BY <1>1, ClaimsInductive, PTL

(* No job holds the helpers of a handler that TCPCommService has closed.   *)
THEOREM NoUseAfterClose == Spec => []InUseIsOpen
<1>1. IInv => InUseIsOpen
  <2> SUFFICES ASSUME IInv, NEW c \in Clients, NEW j \in Jobs, NEW e \in Uses(c, j)
               PROVE  <<c, e>> \in commHandlers
    BY DEF InUseIsOpen
  <2>1. ClientInv(c) /\ Uses(c, j) \subseteq Ends
    BY DEF IInv, Uses, Ends
  <2>2. CASE HandshakeOnly(c)
    BY <2>1, <2>2 DEF HandshakeOnly, Uses, Registered, Jobs, Tunnels
  <2>3. CASE TunnelsOnly(c)
    <3>1. j \in Tunnels /\ pc[c][j] = "running"
      BY <2>3 DEF TunnelsOnly, Uses, Jobs
    <3>2. Claims(c, j, e) = 1 /\ \A t \in Tunnels : Claims(c, t, e) \in {0, 1}
      BY <3>1 DEF Claims
    <3>3. counter[<<c, e>>] > 0
      BY <2>1, <2>3, <3>1, <3>2 DEF TunnelsOnly, Tunnels
    <3> QED
      BY <2>1, <2>3, <3>3 DEF TunnelsOnly, Claimed, Registered
  <2> QED
    BY <2>1, <2>2, <2>3 DEF ClientInv
<1> QED
  BY <1>1, ClaimsInductive, PTL

(* A handler with no claim left is disposed of by exactly one job, which   *)
(* finds it registered.                                                    *)
THEOREM OneDisposal == Spec => []DisposedOnce
<1>1. IInv => DisposedOnce
  <2> SUFFICES ASSUME IInv, NEW c \in Clients, NEW j \in Jobs, NEW e \in Owes(c, j)
               PROVE  <<c, e>> \in commHandlers /\ \A k \in Jobs \ {j} : e \notin Owes(c, k)
    BY DEF DisposedOnce
  <2>1. ClientInv(c) /\ e \in owed[c][j] /\ pc[c][j] \in {"disclaim2", "terminal", "disposing"}
    BY DEF IInv, Owes
  <2>2. CASE HandshakeOnly(c)
    BY <2>1, <2>2 DEF HandshakeOnly, Owes, Registered, Jobs, Tunnels
  <2>3. CASE TunnelsOnly(c)
    <3>1. j \in Tunnels /\ Owes(c, "handshake") = {}
      BY <2>1, <2>3 DEF TunnelsOnly, Owes, Jobs
    <3>2. \A k \in Jobs \ {j} : e \notin Owes(c, k)
      BY <2>1, <2>3, <3>1 DEF TunnelsOnly, Owes, Jobs, Tunnels
    <3>3. e \in Registered(c)
      BY <2>1, <2>3, <3>1 DEF TunnelsOnly, Tunnels
    <3> QED
      BY <3>2, <3>3 DEF Registered
  <2> QED
    BY <2>1, <2>2, <2>3 DEF ClientInv
<1> QED
  BY <1>1, ClaimsInductive, PTL

(* When the jobs of a connection are over, both its sockets are closed.    *)
THEOREM SocketsAreNotLeaked == Spec => []NoLeak
<1>1. IInv => NoLeak
  <2> SUFFICES ASSUME IInv, NEW c \in Clients, NEW e \in Ends, Over(c)
               PROVE  <<c, e>> \notin commHandlers
    BY DEF NoLeak
  <2>1. ClientInv(c)
    BY DEF IInv
  <2>2. CASE HandshakeOnly(c)
    BY <2>2 DEF HandshakeOnly, Over, Registered
  <2>3. CASE TunnelsOnly(c)
    <3>1. \A t \in Tunnels : pc[c][t] = "done" /\ owed[c][t] = {}
      BY <2>3 DEF TunnelsOnly, Over
    <3>2. counter[<<c, e>>] = 0
      BY <2>3, <3>1 DEF TunnelsOnly, Claims, Tunnels
    <3> QED
      BY <2>3, <3>1, <3>2 DEF TunnelsOnly, Tunnels, Registered, Claimed
  <2> QED
    BY <2>1, <2>2, <2>3 DEF ClientInv
<1> QED
  BY <1>1, ClaimsInductive, PTL
=============================================================================
