------------------------------ MODULE Lifecycle ------------------------------
(***************************************************************************)
(* The life of the process: Main, which starts and stops the components;   *)
(* StartupHandler and ShutdownHandler, through which the other threads     *)
(* talk to it; TCPServerListener; and, as far as Main sees them, the       *)
(* threads of TCPCommService and of JobDispatcher (modelled in detail by   *)
(* TCPCommHelper and JobDispatcher).                                       *)
(*                                                                         *)
(* A MSG_SHUTDOWN is delivered by the thread that met the error, to the    *)
(* two handlers one after the other: MessageBroker walks a std::set of     *)
(* pointers, so their order is that of two addresses of Main's frame.      *)
(*                                                                         *)
(* Abstracted: the operations of the first stage (netns, directory, GID,   *)
(* UID, DNS) are numbered; an error code is the thread it came from; the   *)
(* job of a connection stands for its handshake and its tunnels, of which  *)
(* only the write loop is kept apart: it does not look at the cancel flag. *)
(***************************************************************************)
EXTENDS Integers, FiniteSets, Sequences

CONSTANTS
  Listeners,    (* config.GetListenAddrs()                                 *)
  Clients,      (* bound: the connections that are accepted                *)
  SetupSteps    (* operations of the first stage the command line asks for *)

Main    == "main"
Service == "service"
Nobody  == "nobody"
Threads == {Main, Service} \cup Listeners \cup Clients

ASSUME LifecycleAssumption ==
  /\ SetupSteps \in Nat
  /\ IsFiniteSet(Listeners) /\ Listeners # {}
  /\ {Main, Service, Nobody} \cap (Listeners \cup Clients) = {}
  /\ Listeners \cap Clients = {}

VARIABLES
  mpc, stage, done,                         (* Main: where it is, operations tried and done  *)
  shutdownRequested, ec,                    (* ShutdownHandler                               *)
  startupShutdown, awaitedTargets,          (* StartupHandler                                *)
  shutdownHandlerFirst, todo,               (* MessageBroker: deliveries each thread has left*)
  lpc, startupAllowed, stopping, accepted,  (* TCPServerListener                             *)
  spc, serviceStop, watch,                  (* TCPCommService: what each client hears of it  *)
  dpc, dispatcherStop, jobs, tunnel,        (* JobDispatcher, and the tunnels of each client *)
  arrived                                   (* connections accepted so far                   *)

mainVars == <<mpc, stage, done>>
shutVars == <<shutdownRequested, ec, startupShutdown>>
msgVars  == <<shutVars, awaitedTargets, shutdownHandlerFirst>>
lsnVars  == <<lpc, startupAllowed, stopping, accepted>>
svcVars  == <<spc, serviceStop, watch>>
dspVars  == <<dpc, dispatcherStop, jobs, tunnel>>
vars == <<mainVars, msgVars, todo, lsnVars, svcVars, dspVars, arrived>>

(* What a thread may still have to deliver of its message.                 *)
Deliveries ==
  {<<>>, <<"exchange", "store", "startup">>, <<"store", "startup">>, <<"startup">>,
   <<"startup", "exchange", "store">>, <<"exchange", "store">>, <<"store">>}

TypeOK ==
  /\ mpc \in {"start", "setup", "continue", "startup", "loop", "request", "requestOthers",
              "join", "joinService", "joinDispatcher", "done"}
  /\ stage \in 0 .. SetupSteps /\ done \in 0 .. SetupSteps
  /\ shutdownRequested \in BOOLEAN /\ startupShutdown \in BOOLEAN
  /\ ec \in Threads \cup {Nobody}
  /\ awaitedTargets \in SUBSET Listeners
  /\ shutdownHandlerFirst \in BOOLEAN
  /\ todo \in [Threads -> Deliveries]
  /\ lpc \in [Listeners -> {"none", "opening", "ready", "check", "poll", "register", "send",
                            "failing", "exited", "joined"}]
  /\ startupAllowed \in SUBSET Listeners /\ stopping \in SUBSET Listeners
  /\ accepted \in [Listeners -> Clients \cup {Nobody}]
  /\ spc \in {"none", "loop", "failing", "exited", "joined"}
  /\ serviceStop \in BOOLEAN
  /\ watch \in [Clients -> {"no", "watched", "cancelled"}]
  /\ dpc \in {"none", "loop", "exited", "joined"}
  /\ dispatcherStop \in BOOLEAN
  /\ tunnel \in [Clients -> {"none", "moving", "stalled", "over"}]
  /\ jobs \in SUBSET Clients /\ arrived \in SUBSET Clients

(* Main after AddSubscriber and AddTarget, before "1-st stage startup".    *)
Init ==
  /\ mpc = "start" /\ stage = 0 /\ done = 0
  /\ shutdownRequested = FALSE /\ ec = Nobody
  /\ startupShutdown = FALSE /\ awaitedTargets = Listeners
  /\ shutdownHandlerFirst \in BOOLEAN
  /\ todo = [t \in Threads |-> <<>>]
  /\ lpc = [l \in Listeners |-> "none"] /\ startupAllowed = {} /\ stopping = {}
  /\ accepted = [l \in Listeners |-> Nobody]
  /\ spc = "none" /\ serviceStop = FALSE /\ watch = [c \in Clients |-> "no"]
  /\ dpc = "none" /\ dispatcherStop = FALSE /\ jobs = {} /\ arrived = {}
  /\ tunnel = [c \in Clients |-> "none"]
-----------------------------------------------------------------------------
(* MSG_SHUTDOWN                                                            *)

(* HandleError of thread t: SendMessage(ShutdownMessage(ec)).              *)
SendShutdown(t) ==
  todo' = [todo EXCEPT ![t] = IF shutdownHandlerFirst THEN <<"exchange", "store", "startup">>
                                                      ELSE <<"startup", "exchange", "store">>]

(* ShutdownHandler::OnMessage, first half: only the first message counts.  *)
AfterExchangeStores(q) == Tail(q)

AfterExchange(q) == IF shutdownRequested THEN Tail(Tail(q)) ELSE Tail(q)

Exchange(t) ==
  /\ todo[t] # <<>> /\ Head(todo[t]) = "exchange"
  /\ shutdownRequested' = TRUE
  /\ todo' = [todo EXCEPT ![t] = AfterExchange(todo[t])]
  /\ UNCHANGED <<mainVars, ec, startupShutdown, awaitedTargets, shutdownHandlerFirst,
                 lsnVars, svcVars, dspVars, arrived>>

(* Second half: ec.store, and SIGUSR2 to wake Main, which also wakes up by *)
(* itself every sigTs.                                                     *)
StoreCode(t) ==
  /\ todo[t] # <<>> /\ Head(todo[t]) = "store"
  /\ ec' = t
  /\ todo' = [todo EXCEPT ![t] = Tail(todo[t])]
  /\ UNCHANGED <<mainVars, shutdownRequested, startupShutdown, awaitedTargets,
                 shutdownHandlerFirst, lsnVars, svcVars, dspVars, arrived>>

(* StartupHandler::OnMessage                                               *)
StopStartup(t) ==
  /\ todo[t] # <<>> /\ Head(todo[t]) = "startup"
  /\ startupShutdown' = TRUE
  /\ todo' = [todo EXCEPT ![t] = Tail(todo[t])]
  /\ UNCHANGED <<mainVars, shutdownRequested, ec, awaitedTargets, shutdownHandlerFirst,
                 lsnVars, svcVars, dspVars, arrived>>

Deliver(t) == Exchange(t) \/ StoreCode(t) \/ StopStartup(t)
-----------------------------------------------------------------------------
(* TCPServerListener::Worker                                               *)

Free(t) == todo[t] = <<>>

ListenerGoes(l, from, to) == lpc[l] = from /\ lpc' = [lpc EXCEPT ![l] = to]

(* The listen socket is open: StartupReadyMessage.                         *)
ListenerReady(l) ==
  /\ ListenerGoes(l, "opening", "ready")
  /\ awaitedTargets' = awaitedTargets \ {l}
  /\ UNCHANGED <<mainVars, shutVars, shutdownHandlerFirst, todo, startupAllowed, stopping,
                 accepted, svcVars, dspVars, arrived>>

(* Any of its system calls fails, poll and close included: HandleError.    *)
ListenerFails(l) ==
  /\ lpc[l] \in {"opening", "poll"} \/ (lpc[l] = "check" /\ l \in stopping)
  /\ lpc' = [lpc EXCEPT ![l] = "failing"]
  /\ SendShutdown(l)
  /\ UNCHANGED <<mainVars, msgVars, startupAllowed, stopping, accepted, svcVars, dspVars, arrived>>

ListenerReturns(l) ==
  /\ Free(l)
  /\ ListenerGoes(l, "failing", "exited")
  /\ UNCHANGED <<mainVars, msgVars, todo, startupAllowed, stopping, accepted, svcVars, dspVars, arrived>>

(* while(!startupAllowed.load()) {}: nothing else ends this loop.          *)
MayContinueAtOnce(l) == TRUE

MayContinue(l) == l \in startupAllowed

StartupConfirmed(l) ==
  /\ MayContinue(l)
  /\ ListenerGoes(l, "ready", "check")
  /\ UNCHANGED <<mainVars, msgVars, todo, startupAllowed, stopping, accepted, svcVars, dspVars, arrived>>

(* while(!shutdownPending.load()); at the end the socket is closed.        *)
ListenerLoop(l) ==
  /\ ListenerGoes(l, "check", IF l \in stopping THEN "exited" ELSE "poll")
  /\ UNCHANGED <<mainVars, msgVars, todo, startupAllowed, stopping, accepted, svcVars, dspVars, arrived>>

(* poll timed out or accept failed; or a signal interrupted poll, which    *)
(* ends the thread without a message.                                      *)
PollEnds(l) ==
  /\ \E to \in {"check", "exited"} : ListenerGoes(l, "poll", to)
  /\ UNCHANGED <<mainVars, msgVars, todo, startupAllowed, stopping, accepted, svcVars, dspVars, arrived>>

Accept(l, c) ==
  /\ c \notin arrived
  /\ ListenerGoes(l, "poll", "register")
  /\ accepted' = [accepted EXCEPT ![l] = c]
  /\ arrived' = arrived \cup {c}
  /\ UNCHANGED <<mainVars, msgVars, todo, startupAllowed, stopping, svcVars, dspVars>>

(* commService.CreateHandlerFromSocket; when epoll_ctl fails it reports    *)
(* that and registers the socket all the same.  Once the thread has left   *)
(* its loop nobody passes on what epoll knows of the socket.               *)
CreateHandler(l) ==
  /\ ListenerGoes(l, "register", "send")
  /\ \/ /\ watch' = IF spc \in {"none", "loop"} THEN [watch EXCEPT ![accepted[l]] = "watched"] ELSE watch
        /\ UNCHANGED todo
     \/ SendShutdown(l) /\ UNCHANGED watch
  /\ UNCHANGED <<mainVars, msgVars, startupAllowed, stopping, accepted, spc, serviceStop, dspVars, arrived>>

(* MSG_JOB_COMPLETE: a job, unless the dispatcher is shutting down.  It    *)
(* need not have been started yet.                                         *)
SendClient(l) ==
  /\ Free(l)
  /\ ListenerGoes(l, "send", "check")
  /\ jobs' = IF dispatcherStop THEN jobs ELSE jobs \cup {accepted[l]}
  /\ accepted' = [accepted EXCEPT ![l] = Nobody]
  /\ UNCHANGED <<mainVars, msgVars, todo, startupAllowed, stopping, svcVars, dpc, dispatcherStop,
                 tunnel, arrived>>
-----------------------------------------------------------------------------
(* TCPCommService and JobDispatcher as seen from Main                      *)

(* TCPCommService::HandleError inside a job: there is no descriptor left   *)
(* to connect with, or, the tunnels being over, a socket cannot be closed. *)
JobFails(c) ==
  /\ c \in jobs /\ Free(c) /\ tunnel[c] # "stalled"
  /\ tunnel' = [tunnel EXCEPT ![c] = IF @ = "none" THEN @ ELSE "over"]
  /\ SendShutdown(c)
  /\ UNCHANGED <<mainVars, msgVars, lsnVars, svcVars, dpc, dispatcherStop, jobs, arrived>>

(* The handshake is done and the dispatcher makes the tunnels.  Without    *)
(* notifications the dialogue only times out.                              *)
TunnelsStart(c) ==
  /\ c \in jobs /\ Free(c) /\ ~dispatcherStop
  /\ watch[c] # "no"
  /\ tunnel[c] = "none" /\ tunnel' = [tunnel EXCEPT ![c] = "moving"]
  /\ UNCHANGED <<mainVars, msgVars, todo, lsnVars, svcVars, dpc, dispatcherStop, jobs, arrived>>

(* A tunnel goes round its write loop: the peer takes nothing and neither  *)
(* socket is gone ...                                                      *)
WriteStalls(c) ==
  /\ watch[c] # "cancelled"
  /\ tunnel[c] = "moving" /\ tunnel' = [tunnel EXCEPT ![c] = "stalled"]
  /\ UNCHANGED <<mainVars, msgVars, todo, lsnVars, svcVars, dpc, dispatcherStop, jobs, arrived>>

(* ... until, perhaps, the peer reads on.                                  *)
WriteGoesOn(c) ==
  /\ tunnel[c] = "stalled" /\ tunnel' = [tunnel EXCEPT ![c] = "moving"]
  /\ UNCHANGED <<mainVars, msgVars, todo, lsnVars, svcVars, dpc, dispatcherStop, jobs, arrived>>

(* The last job of the connection ends.                                    *)
JobEnds(c) ==
  /\ c \in jobs /\ Free(c)
  /\ jobs' = jobs \ {c}
  /\ tunnel' = [tunnel EXCEPT ![c] = "none"]
  /\ UNCHANGED <<mainVars, msgVars, todo, lsnVars, svcVars, dpc, dispatcherStop, arrived>>

(* "notify all monitored handlers to shutdown", and the thread ends.       *)
ServiceStops ==
  /\ spc = "loop" /\ serviceStop
  /\ spc' = "exited"
  /\ watch' = [c \in Clients |-> IF watch[c] = "watched" THEN "cancelled" ELSE watch[c]]
  /\ UNCHANGED <<mainVars, msgVars, todo, lsnVars, serviceStop, dspVars, arrived>>

(* epoll_wait failed: HandleError and return, without the notifications.   *)
ServiceFails ==
  /\ spc = "loop"
  /\ spc' = "failing"
  /\ SendShutdown(Service)
  /\ UNCHANGED <<mainVars, msgVars, lsnVars, serviceStop, watch, dspVars, arrived>>

ServiceReturns ==
  /\ spc = "failing" /\ Free(Service)
  /\ spc' = "exited"
  /\ UNCHANGED <<mainVars, msgVars, todo, lsnVars, serviceStop, watch, dspVars, arrived>>

(* The dispatcher's thread ends when it has joined every worker.           *)
DispatcherStops ==
  /\ dpc = "loop" /\ dispatcherStop /\ jobs = {}
  /\ dpc' = "exited"
  /\ UNCHANGED <<mainVars, msgVars, todo, lsnVars, svcVars, dispatcherStop, jobs, tunnel, arrived>>
-----------------------------------------------------------------------------
(* main()                                                                  *)

MainGoes(from, to) == mpc = from /\ Free(Main) /\ mpc' = to

StartListener(l) ==
  /\ MainGoes("start", "start")
  /\ ListenerGoes(l, "none", "opening")
  /\ UNCHANGED <<stage, done, msgVars, todo, startupAllowed, stopping, accepted,
                 svcVars, dspVars, arrived>>

(* StartupHandler::WaitForStartupReady                                     *)
StartupReadyStrict == awaitedTargets = {}

StartupReady == startupShutdown \/ awaitedTargets = {}

WaitForStartupReady ==
  /\ \A l \in Listeners : lpc[l] # "none"
  /\ StartupReady
  /\ MainGoes("start", "setup")
  /\ UNCHANGED <<stage, done, msgVars, todo, lsnVars, svcVars, dspVars, arrived>>

(* The next operation of the first stage: skipped after a shutdown         *)
(* request, done, or failed with a ShutdownMessage(1).                     *)
MoreSetup == stage < SetupSteps

Setup ==
  /\ MoreSetup
  /\ MainGoes("setup", "setup")
  /\ stage' = stage + 1
  /\ \/ shutdownRequested /\ UNCHANGED <<done, todo>>
     \/ ~shutdownRequested /\ done' = done + 1 /\ UNCHANGED todo
     \/ ~shutdownRequested /\ SendShutdown(Main) /\ UNCHANGED done
  /\ UNCHANGED <<msgVars, lsnVars, svcVars, dspVars, arrived>>


Continues == TRUE

SetupEnds ==
  /\ stage = SetupSteps
  /\ MainGoes("setup", IF Continues THEN "continue" ELSE "startup")
  /\ UNCHANGED <<stage, done, msgVars, todo, lsnVars, svcVars, dspVars, arrived>>

(* ... and delivered to one listener after the other.                      *)
StartupContinue(l) ==
  /\ l \notin startupAllowed
  /\ MainGoes("continue", IF startupAllowed \cup {l} = Listeners THEN "startup" ELSE "continue")
  /\ startupAllowed' = startupAllowed \cup {l}
  /\ UNCHANGED <<stage, done, msgVars, todo, lpc, stopping, accepted, svcVars, dspVars, arrived>>

StartDispatcher ==
  /\ dpc = "none" /\ dpc' = "loop"
  /\ MainGoes("startup", "startup")
  /\ UNCHANGED <<stage, done, msgVars, todo, lsnVars, svcVars, dispatcherStop, jobs, tunnel, arrived>>

StartService ==
  /\ dpc # "none" /\ spc' = "loop"
  /\ MainGoes("startup", "loop")
  /\ UNCHANGED <<stage, done, msgVars, todo, lsnVars, serviceStop, watch, dspVars, arrived>>

(* sigtimedwait returned a signal to stop, or failed.                      *)
Signal ==
  /\ MainGoes("loop", "request")
  /\ UNCHANGED <<stage, done, msgVars, todo, lsnVars, svcVars, dspVars, arrived>>

(* SIGUSR2 or a timeout: IsShutdownRequested (GetEC only picks the log).    *)
MainLoop ==
  /\ shutdownRequested
  /\ MainGoes("loop", "request")
  /\ UNCHANGED <<stage, done, msgVars, todo, lsnVars, svcVars, dspVars, arrived>>

(* RequestShutdown of the listeners, of the service and of the dispatcher. *)
RequestListener(l) ==
  /\ l \notin stopping
  /\ MainGoes("request", IF stopping \cup {l} = Listeners THEN "requestOthers" ELSE "request")
  /\ stopping' = stopping \cup {l}
  /\ UNCHANGED <<stage, done, msgVars, todo, lpc, startupAllowed, accepted, svcVars, dspVars, arrived>>

RequestService ==
  /\ ~serviceStop /\ serviceStop' = TRUE
  /\ MainGoes("requestOthers", "requestOthers")
  /\ UNCHANGED <<stage, done, msgVars, todo, lsnVars, spc, watch, dspVars, arrived>>

RequestDispatcher ==
  /\ serviceStop /\ dispatcherStop' = TRUE
  /\ MainGoes("requestOthers", "join")
  /\ UNCHANGED <<stage, done, msgVars, todo, lsnVars, svcVars, dpc, jobs, tunnel, arrived>>

(* Shutdown of each: OnShutdown again, and join.                           *)
JoinListener(l) ==
  /\ ListenerGoes(l, "exited", "joined")
  /\ MainGoes("join", "join")
  /\ UNCHANGED <<stage, done, msgVars, todo, startupAllowed, stopping, accepted,
                 svcVars, dspVars, arrived>>

AllJoinedUnchecked == TRUE

AllJoined == \A l \in Listeners : lpc[l] = "joined"

ListenersJoined ==
  /\ AllJoined
  /\ MainGoes("join", "joinService")
  /\ UNCHANGED <<stage, done, msgVars, todo, lsnVars, svcVars, dspVars, arrived>>

JoinService ==
  /\ spc = "exited" /\ spc' = "joined"
  /\ MainGoes("joinService", "joinDispatcher")
  /\ UNCHANGED <<stage, done, msgVars, todo, lsnVars, serviceStop, watch, dspVars, arrived>>

JoinDispatcher ==
  /\ dpc = "exited" /\ dpc' = "joined"
  /\ MainGoes("joinDispatcher", "done")
  /\ UNCHANGED <<stage, done, msgVars, todo, lsnVars, svcVars, dispatcherStop, jobs, tunnel, arrived>>

Exited == mpc = "done" /\ UNCHANGED vars
-----------------------------------------------------------------------------
ListenerStep(l) ==
  \/ ListenerReady(l) \/ ListenerReturns(l) \/ StartupConfirmed(l)
  \/ ListenerLoop(l) \/ PollEnds(l) \/ CreateHandler(l) \/ SendClient(l)

ServiceStep == ServiceStops \/ ServiceReturns

JobStep(c) ==
  JobEnds(c) \/ JobFails(c) \/ TunnelsStart(c) \/ WriteStalls(c) \/ WriteGoesOn(c)

MainStep ==
  \/ WaitForStartupReady \/ Setup \/ SetupEnds \/ StartDispatcher \/ StartService
  \/ MainLoop \/ RequestService \/ RequestDispatcher
  \/ ListenersJoined \/ JoinService \/ JoinDispatcher
  \/ \E l \in Listeners : \/ StartListener(l) \/ StartupContinue(l)
                          \/ RequestListener(l) \/ JoinListener(l)

Next ==
  \/ MainStep \/ Signal \/ Exited
  \/ \E t \in Threads : Deliver(t)
  \/ \E l \in Listeners : ListenerStep(l) \/ ListenerFails(l)
  \/ \E l \in Listeners, c \in Clients : Accept(l, c)
  \/ ServiceStep \/ ServiceFails \/ DispatcherStops
  \/ \E c \in Clients : JobStep(c)

Spec == Init /\ [][Next]_vars

(* What ends a job: its client's socket is cancelled, or the dispatcher's  *)
(* flags are raised and it is not in a write loop (a handshake times out). *)
MustEnd(c) == watch[c] = "cancelled" \/ (dispatcherStop /\ tunnel[c] # "stalled")

(* Threads run on: poll and sigtimedwait have timeouts.  A job that must   *)
(* end does, however often it reports an error before (it tries finitely   *)
(* many addresses) or writes between; that a stalled write goes on, and    *)
(* signals, errors and clients, need not come.                             *)
Fairness ==
  /\ WF_vars(MainStep) /\ WF_vars(ServiceStep) /\ WF_vars(DispatcherStops)
  /\ \A t \in Threads : WF_vars(Deliver(t))
  /\ \A l \in Listeners : WF_vars(ListenerStep(l))
  /\ \A c \in Clients : SF_vars(MustEnd(c) /\ JobEnds(c))

FairSpec == Spec /\ Fairness
-----------------------------------------------------------------------------
(* Correctness                                                             *)

(* No client is accepted while Main still does the first stage, whatever   *)
(* the listeners' threads do: they were let in before it on purpose, to    *)
(* bind their ports.                                                       *)
NoEarlyAccept == mpc \in {"start", "setup"} => arrived = {}

(* ShutdownHandler keeps the code of the first error although several      *)
(* threads report at once.                                                 *)
FirstCodeStays == [][ec # Nobody => ec' = ec]_vars

(* When main() returns and destroys what it built, no thread is inside the *)
(* broker, no job runs, and no std::thread is left joinable.               *)
QuietExit ==
  mpc = "done" => /\ \A t \in Threads : Free(t)
                  /\ jobs = {}
                  /\ \A l \in Listeners : lpc[l] = "joined"

(* Start-up gets to the main loop in any case: a listener that fails ends  *)
(* the wait for the others.                                                *)
StartupEnds == <>(mpc = "loop")

(* A tunnel in its write loop that nobody will cancel any more: the thread *)
(* of the service has failed in epoll_wait.                                *)
Abandoned(c) ==
  tunnel[c] = "stalled" /\ watch[c] = "watched" /\ spc \in {"failing", "exited", "joined"}


(* "2-nd stage startup, all stuff from here will run unpreveleged and      *)
(* inside new netns": clients are served only if the first stage did all   *)
(* it was asked to.                                                        *)
ServedAfterSetup == jobs # {} => done = SetupSteps
=============================================================================
