---------------------------- MODULE HandlerClaims ----------------------------
(***************************************************************************)
(* Who owns a socket.  TCPCommService registers every socket as a handler; *)
(* jobs share handlers through the counters of HandlerClaim, kept in the   *)
(* immutable State that travels with jobs and results; JobFactory disposes *)
(* of a handler when a JR_TERMINAL result says that its counter is below 1.*)
(*                                                                         *)
(* The listener and the jobs of a connection run on threads of their own.  *)
(* Once DisposeHandler has closed a descriptor the kernel may give its     *)
(* number to the next connection, so a job that still holds the helpers of *)
(* the handler would read and write somebody else's socket.                *)
(*                                                                         *)
(* Abstracted: handler ids come from a counter that only grows, so an id   *)
(* is named by its connection and its end.  The state of a handshake is    *)
(* seen by its own thread only until it makes the tunnels, so its claims   *)
(* change in one step; the two tunnels share theirs and change them one by *)
(* one.  epoll_ctl and close failures only ask for a shutdown.             *)
(***************************************************************************)
EXTENDS Integers, FiniteSets

CONSTANT Clients   (* the connections the listener may accept              *)

Ends     == {"client", "target"}
Tunnels  == {"reader", "writer"}
Jobs     == {"handshake"} \cup Tunnels
Handlers == Clients \X Ends

VARIABLES
  commHandlers,     (* the registry of TCPCommService                      *)
  counter,          (* HandlerClaim::counter                               *)
  pc,               (* where each job of each connection is                *)
  owed,             (* handlers with counter < 1 in the job's last result  *)
  shutdownPending   (* JobDispatcher::shutdownPending                      *)

vars == <<commHandlers, counter, pc, owed, shutdownPending>>

Locations == {"none", "accepted", "running", "connected", "modeConnect",
              "disclaim1", "disclaim2", "terminal", "disposing", "done", "dropped"}

TypeOK ==
  /\ commHandlers \in SUBSET Handlers
  /\ counter \in [Handlers -> 0 .. 2]
  /\ pc \in [Clients -> [Jobs -> Locations]]
  /\ owed \in [Clients -> [Jobs -> SUBSET Ends]]
  /\ shutdownPending \in BOOLEAN

Init ==
  /\ commHandlers = {}
  /\ counter = [h \in Handlers |-> 0]
  /\ pc = [c \in Clients |-> [j \in Jobs |-> "none"]]
  /\ owed = [c \in Clients |-> [j \in Jobs |-> {}]]
  /\ shutdownPending = FALSE

Goto(c, j, l) == pc' = [pc EXCEPT ![c][j] = l]
-----------------------------------------------------------------------------
(* "this will close unused sockets": the test of JobFactory on the counter *)
(* recorded by Disclaim.                                                   *)
UnusedAlways(n) == n <= 1

UnusedNever(n) == n < 0

Unused(n) == n < 1

(* Disclaim of the ends es by job j, fetch_sub and its result.             *)
Disclaim(c, j, es) ==
  /\ counter' = [h \in Handlers |-> IF h[1] = c /\ h[2] \in es THEN counter[h] - 1 ELSE counter[h]]
  /\ owed' = [owed EXCEPT ![c][j] = @ \cup {e \in es : Unused(counter[<<c, e>>] - 1)}]

(* The listener accepts a socket and CreateHandlerFromSocket registers it. *)
Accept(c) ==
  /\ pc[c]["handshake"] = "none"
  /\ commHandlers' = commHandlers \cup {<<c, "client">>}
  /\ Goto(c, "handshake", "accepted")
  /\ UNCHANGED <<counter, owed, shutdownPending>>

(* JR_NEW_CLIENT: State().AddHandler(id), then ClaimAllHandlers in the     *)
(* constructor of Job_ClientHandshake.  A dispatcher that is shutting down *)
(* drops the message.                                                      *)
NewClient(c) ==
  /\ pc[c]["handshake"] = "accepted"
  /\ IF shutdownPending
       THEN Goto(c, "handshake", "dropped") /\ UNCHANGED counter
       ELSE /\ Goto(c, "handshake", "running")
            /\ counter' = [counter EXCEPT ![<<c, "client">>] = 1]
  /\ UNCHANGED <<commHandlers, owed, shutdownPending>>

(* Any failure before a target is connected: FailWithDisclaim(state).      *)
HandshakeFails(c) ==
  /\ pc[c]["handshake"] = "running"
  /\ Disclaim(c, "handshake", {"client"})
  /\ Goto(c, "handshake", "terminal")
  /\ UNCHANGED <<commHandlers, shutdownPending>>

(* ConnectAndCreateHandler succeeded: GetHandler, AddHandlerWithClaim.     *)
ConnectTarget(c) ==
  /\ pc[c]["handshake"] = "running"
  /\ commHandlers' = commHandlers \cup {<<c, "target">>}
  /\ counter' = [counter EXCEPT ![<<c, "target">>] = 1]
  /\ Goto(c, "handshake", "connected")
  /\ UNCHANGED <<owed, shutdownPending>>

(* getsockname or the response to the client fails: FailWithDisclaim of    *)
(* finalState; or the response is sent and the result is CONNECT.          *)
HandshakeEnds(c) ==
  /\ pc[c]["handshake"] = "connected"
  /\ Disclaim(c, "handshake", Ends)
  /\ \E l \in {"terminal", "modeConnect"} : Goto(c, "handshake", l)
  /\ UNCHANGED <<commHandlers, shutdownPending>>

(* JR_CLIENT_MODE_CONNECT: two Job_TCPTunnel claim all handlers before     *)
(* either of them is given to a worker.                                    *)
TunnelClaimsOne == 1

TunnelClaims == 2

MakeTunnels(c) ==
  /\ pc[c]["handshake"] = "modeConnect"
  /\ IF shutdownPending
       THEN Goto(c, "handshake", "dropped") /\ UNCHANGED counter
       ELSE /\ pc' = [pc EXCEPT ![c] = [j \in Jobs |-> IF j \in Tunnels THEN "running" ELSE "done"]]
            /\ counter' = [h \in Handlers |->
                             IF h[1] = c THEN counter[h] + TunnelClaims ELSE counter[h]]
  /\ UNCHANGED <<commHandlers, owed, shutdownPending>>

(* Job_TCPTunnel::Execute: from GetHandler to Shutdown of its two helpers. *)
TunnelEnds(c, t) ==
  /\ pc[c][t] = "running"
  /\ Goto(c, t, "disclaim1")
  /\ UNCHANGED <<commHandlers, counter, owed, shutdownPending>>

(* DisclaimAllHandlers goes through handlerClaims in order.                *)
DisclaimClient(c, t) ==
  /\ pc[c][t] = "disclaim1"
  /\ Disclaim(c, t, {"client"})
  /\ Goto(c, t, "disclaim2")
  /\ UNCHANGED <<commHandlers, shutdownPending>>

DisclaimTarget(c, t) ==
  /\ pc[c][t] = "disclaim2"
  /\ Disclaim(c, t, {"target"})
  /\ Goto(c, t, "terminal")
  /\ UNCHANGED <<commHandlers, shutdownPending>>

(* JR_TERMINAL reaches the dispatcher, and JobFactory unless it is late.   *)
Terminal(c, j) ==
  /\ pc[c][j] = "terminal"
  /\ Goto(c, j, IF shutdownPending THEN "dropped" ELSE "disposing")
  /\ UNCHANGED <<commHandlers, counter, owed, shutdownPending>>

(* DisposeHandler, under manageLock: erase, epoll_ctl, close.              *)
DisposeHandler(c, j, e) ==
  /\ pc[c][j] = "disposing"
  /\ e \in owed[c][j]
  /\ commHandlers' = commHandlers \ {<<c, e>>}
  /\ owed' = [owed EXCEPT ![c][j] = @ \ {e}]
  /\ UNCHANGED <<counter, pc, shutdownPending>>

DisposeDone(c, j) ==
  /\ pc[c][j] = "disposing"
  /\ owed[c][j] = {}
  /\ Goto(c, j, "done")
  /\ UNCHANGED <<commHandlers, counter, owed, shutdownPending>>

RequestShutdown ==
  /\ ~shutdownPending
  /\ shutdownPending' = TRUE
  /\ UNCHANGED <<commHandlers, counter, pc, owed>>

(* Every connection is over; the program may still wait for a signal.      *)
Idle ==
  /\ \A c \in Clients : pc[c]["handshake"] \in {"done", "dropped"}
  /\ \A c \in Clients, t \in Tunnels : pc[c][t] \in {"none", "done", "dropped"}
  /\ UNCHANGED vars

JobStep(c, j) ==
  \/ Terminal(c, j) \/ DisposeDone(c, j)
  \/ \E e \in Ends : DisposeHandler(c, j, e)

TunnelStep(c, t) == DisclaimClient(c, t) \/ DisclaimTarget(c, t)

HandshakeStep(c) ==
  NewClient(c) \/ HandshakeFails(c) \/ ConnectTarget(c) \/ HandshakeEnds(c) \/ MakeTunnels(c)

Next ==
  \/ \E c \in Clients : Accept(c) \/ HandshakeStep(c)
  \/ \E c \in Clients, t \in Tunnels : TunnelEnds(c, t) \/ TunnelStep(c, t)
  \/ \E c \in Clients, j \in Jobs : JobStep(c, j)
  \/ RequestShutdown \/ Idle

Spec == Init /\ [][Next]_vars

(* Threads run on.  A handshake ends by its timeouts, a tunnel when its    *)
(* peers close; both ends of a tunnel may stay open for ever.              *)
Fairness ==
  /\ \A c \in Clients : WF_vars(HandshakeStep(c))
  /\ \A c \in Clients, t \in Tunnels : WF_vars(TunnelStep(c, t))
  /\ \A c \in Clients, j \in Jobs : WF_vars(JobStep(c, j))

FairSpec == Spec /\ Fairness
-----------------------------------------------------------------------------
(* Correctness                                                             *)

(* The ends whose helpers job j holds.                                     *)
Uses(c, j) ==
  CASE pc[c][j] = "accepted" \/ (pc[c][j] = "running" /\ j = "handshake") -> {"client"}
    [] pc[c][j] \in {"connected", "modeConnect"} \/ (pc[c][j] = "running" /\ j # "handshake") -> Ends
    [] OTHER -> {}

(* No job holds the helpers of a handler whose descriptor is closed, even  *)
(* though the other tunnel of the connection may dispose of the handlers.  *)
(* GetHandler therefore never returns an invalid CommHandler.              *)
InUseIsOpen ==
  \A c \in Clients, j \in Jobs : \A e \in Uses(c, j) : <<c, e>> \in commHandlers

(* What job j is to dispose of, if its result is or will be terminal.      *)
Owes(c, j) == IF pc[c][j] \in {"disclaim2", "terminal", "disposing"} THEN owed[c][j] ELSE {}

(* Nobody meets "Cannot dispose already disposed handler": exactly one of  *)
(* the jobs of a connection is told to dispose of a handler.               *)
DisposedOnce ==
  \A c \in Clients, j \in Jobs : \A e \in Owes(c, j) :
    /\ <<c, e>> \in commHandlers
    /\ \A k \in Jobs \ {j} : e \notin Owes(c, k)

Over(c) ==
  /\ pc[c]["handshake"] = "done"
  /\ \A t \in Tunnels : pc[c][t] \in {"none", "done"}

(* No socket is leaked: a connection whose jobs are all over has no        *)
(* handler left, unless the shutdown dropped one of its messages.          *)
NoLeak == \A c \in Clients, e \in Ends : Over(c) => <<c, e>> \notin commHandlers

(* Once both tunnels have left their loops, one maybe long before the      *)
(* other, both sockets get closed; or the program is shutting down.        *)
SocketsClose ==
  \A c \in Clients :
    (\A t \in Tunnels : pc[c][t] \notin {"none", "running"})
      ~> (shutdownPending \/ \A e \in Ends : <<c, e>> \notin commHandlers)
=============================================================================
