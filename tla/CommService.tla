----------------------------- MODULE CommService -----------------------------
(***************************************************************************)
(* TCPCommService: the registry of handlers, the descriptors behind it and *)
(* the thread that turns epoll events into notifications.                  *)
(*                                                                         *)
(* Listener and jobs create and dispose of handlers from threads of their  *)
(* own, under manageLock; the thread takes that lock only after epoll_wait *)
(* has returned, so a batch may speak of sockets that are gone and whose   *)
(* descriptors are in use again.  Events are edges: one that is taken from *)
(* epoll and not passed on is never seen again.                            *)
(*                                                                         *)
(* Abstracted: a connection stands for its socket and for the two helpers  *)
(* of its handler (TCPCommHelper), which keep the kinds of notification    *)
(* they got; both are forgotten when the handler is disposed of.  A        *)
(* condition of a socket (data, end of stream, hang-up) stays once it is   *)
(* there.  Socket options change no state modelled here.                   *)
(* The kernel's side is external: descriptors are handed out lowest first, *)
(* epoll keeps a ready list in order of arrival.                           *)
(***************************************************************************)
EXTENDS Integers, Sequences, FiniteSets, FiniteSetsExt, SequencesExt

CONSTANTS
  Conns,        (* connections, numbered in the order they are opened      *)
  Fds,          (* bound: descriptors the process can get for them         *)
  MaxEvents,    (* config.GetWorkersSpawnCount(): events per epoll_wait    *)
  MaxBusy       (* bound: sockets with a condition but OUT at a time       *)

ASSUME ServiceAssumption ==
  /\ Conns \subseteq Nat /\ IsFiniteSet(Conns)
  /\ Fds \subseteq Nat \ {0} /\ IsFiniteSet(Fds)
  /\ MaxEvents \in Nat \ {0} /\ MaxBusy \in Nat

VARIABLES
  commHandlers,       (* id -> [fd, conn]                                  *)
  handlerIdCounter,
  shutdownPending,
  asked,              (* HandleError has sent a ShutdownMessage            *)
  spc,                (* where Worker is                                   *)
  events,             (* the batch that epoll_wait returned                *)
  cpc, cfd, cid,      (* owner of a connection: location, its fd, its id   *)
  told,               (* notifications the two helpers of a handler got    *)
  sockets,            (* kernel: open descriptor -> connection             *)
  interest,           (* kernel: epoll's registrations [conn, data]        *)
  ready,              (* kernel: epoll's ready list                        *)
  raised              (* kernel: conditions of a socket                    *)

serviceVars == <<commHandlers, handlerIdCounter, shutdownPending, asked, spc, events, told>>
ownerVars   == <<cpc, cfd, cid>>
kernelVars  == <<sockets, interest, ready, raised>>
vars == <<serviceVars, ownerVars, kernelVars>>

Bits  == {"IN", "OUT", "RDHUP", "HUP"}
Notes == {"readerData", "writerData", "readerHUP", "writerHUP", "readerCancel", "writerCancel"}

TypeOK ==
  /\ handlerIdCounter \in Nat /\ DOMAIN commHandlers \subseteq 1 .. handlerIdCounter
  /\ \A i \in DOMAIN commHandlers : commHandlers[i] \in [fd : Fds, conn : Conns]
  /\ shutdownPending \in BOOLEAN /\ asked \in BOOLEAN
  /\ spc \in {"start", "waiting", "process", "cancel", "done", "failed"}
  /\ events \in Seq([data : Nat, ev : SUBSET Bits]) /\ Len(events) <= MaxEvents
  /\ cpc \in [Conns -> {"none", "connecting", "opened", "live", "gone"}]
  /\ cfd \in [Conns -> Fds \cup {0}]
  /\ cid \in [Conns -> 0 .. handlerIdCounter]
  /\ told \in [Conns -> SUBSET Notes]
  /\ DOMAIN sockets \subseteq Fds /\ \A f \in DOMAIN sockets : sockets[f] \in Conns
  /\ interest \subseteq [conn : Conns, data : Nat]
  /\ ready \in Seq(Conns) /\ IsInjective(ready)
  /\ raised \in [Conns -> SUBSET Bits]

Init ==
  /\ commHandlers = <<>> /\ handlerIdCounter = 0
  /\ shutdownPending = FALSE /\ asked = FALSE
  /\ spc = "start" /\ events = <<>>
  /\ cpc = [c \in Conns |-> "none"]
  /\ cfd = [c \in Conns |-> 0] /\ cid = [c \in Conns |-> 0]
  /\ told = [c \in Conns |-> {}]
  /\ sockets = <<>> /\ interest = {} /\ ready = <<>>
  /\ raised = [c \in Conns |-> {"OUT"}]

Without(f, S) == [x \in DOMAIN f \ S |-> f[x]]
With(f, x, y) == [z \in DOMAIN f \cup {x} |-> IF z = x THEN y ELSE f[z]]
-----------------------------------------------------------------------------
(* Descriptors and epoll (external)                                        *)

FreeFds == Fds \ DOMAIN sockets

(* accept or socket: connection c gets the lowest free descriptor.         *)
Open(c) ==
  /\ FreeFds # {}
  /\ sockets' = With(sockets, Min(FreeFds), c)
  /\ cfd' = [cfd EXCEPT ![c] = Min(FreeFds)]

(* close releases the descriptor, and epoll forgets the socket, even when  *)
(* close reports an error.                                                 *)
Close(f) ==
  /\ sockets' = Without(sockets, {f})
  /\ interest' = {r \in interest : r.conn # sockets[f]}
  /\ ready' = RemoveFirst(ready, sockets[f])

(* EPOLL_CTL_ADD: a new socket is writable, hence ready.                   *)
EpollAdd(c, data) ==
  /\ interest' = interest \cup {[conn |-> c, data |-> data]}
  /\ ready' = Append(ready, c)

(* Data arrive, the peer ends its stream, the connection is reset: what    *)
(* epoll reports only grows.  Each is an edge: epoll queues the socket     *)
(* unless it is queued.                                                    *)
Conditions == {{"OUT", "IN"}, {"OUT", "IN", "RDHUP"}, Bits}

Raise(c, bits) ==
  /\ c \in Range(sockets) /\ cpc[c] # "connecting"
  /\ raised[c] \subseteq bits /\ raised[c] # bits
  /\ Cardinality({d \in Conns \ {c} : raised[d] \ {"OUT"} # {}}) < MaxBusy
  /\ raised' = [raised EXCEPT ![c] = bits]
  /\ ready' = IF (\E r \in interest : r.conn = c) /\ ~Contains(ready, c)
                THEN Append(ready, c) ELSE ready
  /\ UNCHANGED <<serviceVars, ownerVars, sockets, interest>>
-----------------------------------------------------------------------------
(* Calls by the owners of connections                                      *)

HandleError == asked' = TRUE

IsNext(c) == cpc[c] = "none" /\ \A d \in Conns : d < c => cpc[d] # "none"

(* accept by a listener.                                                   *)
Accept(c) ==
  /\ IsNext(c)
  /\ Open(c)
  /\ cpc' = [cpc EXCEPT ![c] = "opened"]
  /\ UNCHANGED <<serviceVars, cid, interest, ready, raised>>

(* ConnectAndCreateHandler: socket, which may fail.                        *)
ConnectOpens(c) ==
  /\ IsNext(c)
  /\ \/ /\ Open(c)
        /\ cpc' = [cpc EXCEPT ![c] = "connecting"]
        /\ UNCHANGED asked
     \/ /\ HandleError
        /\ cpc' = [cpc EXCEPT ![c] = "gone"]
        /\ UNCHANGED <<sockets, cfd>>
  /\ UNCHANGED <<commHandlers, handlerIdCounter, shutdownPending, spc, events, told, cid,
                 interest, ready, raised>>

(* connect blocks without manageLock; when it fails the descriptor is      *)
(* closed, and only an error of close is worth a shutdown.                 *)
CloseAfterFailureLeaks(f) == UNCHANGED <<sockets, interest, ready>>

CloseAfterFailure(f) == Close(f)

ConnectReturns(c) ==
  /\ cpc[c] = "connecting"
  /\ \/ /\ cpc' = [cpc EXCEPT ![c] = "opened"]
        /\ UNCHANGED <<cfd, asked, sockets, interest, ready>>
     \/ /\ CloseAfterFailure(cfd[c])
        /\ cfd' = [cfd EXCEPT ![c] = 0]
        /\ cpc' = [cpc EXCEPT ![c] = "gone"]
        /\ HandleError \/ UNCHANGED asked
  /\ UNCHANGED <<commHandlers, handlerIdCounter, shutdownPending, spc, events, told, cid, raised>>

(* What identifies a handler in its events: ev.data.u64.                   *)
EventDataIsFd(id, fd) == fd

EventData(id, fd) == id

(* CreateHandlerFromSocket, under manageLock.  A socket that epoll refuses *)
(* stays registered, its helpers hear nothing.                             *)
CreateHandlerFromSocket(c) ==
  LET id == handlerIdCounter + 1 IN
  /\ cpc[c] = "opened"
  /\ handlerIdCounter' = id
  /\ commHandlers' = With(commHandlers, id, [fd |-> cfd[c], conn |-> c])
  /\ \/ EpollAdd(c, EventData(id, cfd[c])) /\ UNCHANGED asked
     \/ HandleError /\ UNCHANGED <<interest, ready>>
  /\ cpc' = [cpc EXCEPT ![c] = "live"]
  /\ cid' = [cid EXCEPT ![c] = id]
  /\ cfd' = [cfd EXCEPT ![c] = 0]
  /\ UNCHANGED <<shutdownPending, spc, events, told, sockets, raised>>

(* DisposeHandler, under manageLock.  EPOLL_CTL_DEL fails for a socket     *)
(* that epoll refused; close follows in any case.                          *)
DisposeHandler(c) ==
  LET f == commHandlers[cid[c]].fd IN
  /\ cpc[c] = "live" /\ cid[c] \in DOMAIN commHandlers
  /\ commHandlers' = Without(commHandlers, {cid[c]})
  /\ Close(f)
  /\ \/ HandleError
     \/ (\E r \in interest : r.conn = sockets[f]) /\ UNCHANGED asked
  /\ cpc' = [cpc EXCEPT ![c] = "gone"]
  /\ cid' = [cid EXCEPT ![c] = 0]
  /\ told' = [told EXCEPT ![c] = {}]
  /\ raised' = [raised EXCEPT ![c] = {}]
  /\ UNCHANGED <<handlerIdCounter, shutdownPending, spc, events, cfd>>
-----------------------------------------------------------------------------
(* Worker                                                                  *)

Goto(l) == spc' = l

(* while(!shutdownPending.load()): a shutdown that comes after this test   *)
(* is seen after the next epoll_wait.                                      *)
GotoLoop == Goto(IF shutdownPending THEN "cancel" ELSE "waiting")

WorkerStarts ==
  /\ spc = "start"
  /\ GotoLoop
  /\ UNCHANGED <<commHandlers, handlerIdCounter, shutdownPending, asked, events, told, ownerVars, kernelVars>>

(* There is no epoll descriptor, or epoll_wait fails: the thread ends      *)
(* before it has cancelled anything.                                       *)
WorkerFails ==
  /\ spc \in {"start", "waiting"}
  /\ Goto("failed") /\ HandleError
  /\ UNCHANGED <<commHandlers, handlerIdCounter, shutdownPending, events, told, ownerVars, kernelVars>>

(* The buffer for the batch is allocated once, by the constructor.         *)
BatchLimit == MaxEvents

(* epoll_wait takes the first sockets off the ready list and reports their *)
(* conditions.                                                             *)
EpollWait ==
  LET n == Min({BatchLimit, Len(ready)}) IN
  /\ spc = "waiting" /\ ready # <<>>
  /\ events' = [k \in 1 .. n |->
                  [data |-> (CHOOSE r \in interest : r.conn = ready[k]).data,
                   ev   |-> raised[ready[k]]]]
  /\ ready' = SubSeq(ready, n + 1, Len(ready))
  /\ Goto("process")
  /\ UNCHANGED <<commHandlers, handlerIdCounter, shutdownPending, asked, told, ownerVars,
                 sockets, interest, raised>>

(* Nothing within the service interval, or EINTR.                          *)
EpollWaitNothing ==
  /\ spc = "waiting" /\ ready = <<>>
  /\ GotoLoop
  /\ UNCHANGED <<commHandlers, handlerIdCounter, shutdownPending, asked, events, told, ownerVars, kernelVars>>

(* commHandlers.find(id): "skip events that may have left from already     *)
(* disposed handlers".                                                     *)
Found(e) == {i \in DOMAIN commHandlers : EventData(i, commHandlers[i].fd) = e.data}

(* The notifications of one event: HUP or an error goes to both helpers    *)
(* and to nobody else; RDHUP replaces IN for the reader.                   *)
NotesOfWriterForgotten(ev) ==
  IF ev \cap {"HUP", "RDHUP"} # {} THEN {"readerHUP"} ELSE IF "IN" \in ev THEN {"readerData"} ELSE {}

NotesOf(ev) ==
  IF "HUP" \in ev THEN {"readerHUP", "writerHUP"}
  ELSE (IF "RDHUP" \in ev THEN {"readerHUP"} ELSE IF "IN" \in ev THEN {"readerData"} ELSE {})
       \cup (IF "OUT" \in ev THEN {"writerData"} ELSE {})

(* The events of the batch that the loop gets to.                          *)
ProcessedUntilStale ==
  {k \in 1 .. Len(events) : \A j \in 1 .. k : Found(events[j]) # {}}

Processed == {k \in 1 .. Len(events) : Found(events[k]) # {}}

(* One critical section for the whole batch.                               *)
ProcessEvents ==
  /\ spc = "process"
  /\ told' = [c \in Conns |-> told[c] \cup
                UNION {NotesOf(events[k].ev) :
                  k \in {l \in Processed : \E i \in Found(events[l]) : commHandlers[i].conn = c}}]
  /\ events' = <<>>
  /\ GotoLoop
  /\ UNCHANGED <<commHandlers, handlerIdCounter, shutdownPending, asked, ownerVars, kernelVars>>

(* "notify all monitored handlers to shutdown".                            *)
CancelledHandlersSkipFirst == {i \in DOMAIN commHandlers : i > 1}

CancelledHandlers == DOMAIN commHandlers

CancelAll ==
  /\ spc = "cancel"
  /\ told' = [c \in Conns |->
                IF \E i \in CancelledHandlers : commHandlers[i].conn = c
                  THEN told[c] \cup {"readerCancel", "writerCancel"} ELSE told[c]]
  /\ Goto("done")
  /\ UNCHANGED <<commHandlers, handlerIdCounter, shutdownPending, asked, events, ownerVars, kernelVars>>

OnShutdown ==
  /\ ~shutdownPending
  /\ shutdownPending' = TRUE
  /\ UNCHANGED <<commHandlers, handlerIdCounter, asked, spc, events, told, ownerVars, kernelVars>>
-----------------------------------------------------------------------------
Owner(c) ==
  \/ Accept(c) \/ ConnectOpens(c) \/ ConnectReturns(c)
  \/ CreateHandlerFromSocket(c) \/ DisposeHandler(c)

Worker ==
  WorkerStarts \/ EpollWait \/ EpollWaitNothing \/ ProcessEvents \/ CancelAll

(* The thread is gone and nobody calls any more.                           *)
Ended ==
  /\ spc \in {"done", "failed"} /\ shutdownPending
  /\ \A c \in Conns : cpc[c] = "gone"
  /\ UNCHANGED vars

Next ==
  \/ \E c \in Conns : Owner(c) \/ \E bits \in Conditions : Raise(c, bits)
  \/ Worker \/ WorkerFails \/ OnShutdown \/ Ended

Spec == Init /\ [][Next]_vars

(* The thread runs on and need not fail; owners, peers and the shutdown    *)
(* may take for ever.                                                      *)
FairSpec == Spec /\ WF_vars(Worker)
-----------------------------------------------------------------------------
(* Correctness                                                             *)

(* A helper is told only of what happened to its own socket, although the  *)
(* descriptor of a socket in the batch may be somebody else's by now; and  *)
(* a peer that has closed its direction only can still be written to.      *)
OwnEventsOnly ==
  \A c \in Conns :
    /\ "readerData" \in told[c] => "IN" \in raised[c]
    /\ "readerHUP" \in told[c] => raised[c] \cap {"RDHUP", "HUP"} # {}
    /\ "writerHUP" \in told[c] => "HUP" \in raised[c]

(* What the helpers of c must have heard of condition b.                   *)
Heard(c, b) ==
  CASE b = "IN"    -> told[c] \cap {"readerData", "readerHUP"} # {}
    [] b = "OUT"   -> told[c] \cap {"writerData", "writerHUP"} # {}
    [] b = "RDHUP" -> "readerHUP" \in told[c]
    [] b = "HUP"   -> {"readerHUP", "writerHUP"} \subseteq told[c]

OnItsWay(c, b) ==
  \/ Contains(ready, c)
  \/ \E k \in 1 .. Len(events) : events[k].data = EventData(cid[c], commHandlers[cid[c]].fd)
                                  /\ b \in events[k].ev

(* No edge is lost: while the program is not being shut down, every        *)
(* condition of a live handler was passed on, is queued or in the batch;   *)
(* a handler that epoll does not watch means a shutdown was asked for.     *)
NoEventLost ==
  \A c \in Conns : \A b \in raised[c] :
    cpc[c] = "live" /\ ~asked /\ ~shutdownPending => Heard(c, b) \/ OnItsWay(c, b)

(* Every open descriptor has one holder that will close it, and a handler  *)
(* holds the descriptor of its own socket.                                 *)
DescriptorsAccounted ==
  /\ \A f \in DOMAIN sockets :
       \/ cfd[sockets[f]] = f
       \/ \E i \in DOMAIN commHandlers : commHandlers[i] = [fd |-> f, conn |-> sockets[f]]
  /\ \A i \in DOMAIN commHandlers :
       /\ commHandlers[i].fd \in DOMAIN sockets
       /\ sockets[commHandlers[i].fd] = commHandlers[i].conn

(* Although a batch is limited, the helpers hear of every condition of a   *)
(* socket that stays open, unless a shutdown intervenes.                   *)
EventsReachHelpers ==
  \A c \in Conns :
    cpc[c] = "live" ~> ((\A b \in raised[c] : Heard(c, b)) \/ cpc[c] = "gone" \/ asked \/ shutdownPending)

(* A shutdown reaches the handlers: there comes a moment when every live   *)
(* one is cancelled, the one epoll refused included, unless epoll_wait     *)
(* failed and the thread is gone.  (A handler registered after the thread  *)
(* has ended is not.)                                                      *)
CancelReachesHandlers ==
  (shutdownPending /\ spc \notin {"done", "failed"})
    ~> \/ spc = "failed"
       \/ \A c \in Conns : cpc[c] = "live" => {"readerCancel", "writerCancel"} \subseteq told[c]
=============================================================================
