--------------------------- MODULE LifecycleProofs ---------------------------
(***************************************************************************)
(* Theorems about Lifecycle for any number of listeners, clients and       *)
(* operations of the first stage.                                          *)
(***************************************************************************)
EXTENDS Lifecycle, TLAPS

(* A thread is between the two halves of ShutdownHandler::OnMessage.       *)
AtStore(q) == q # <<>> /\ Head(q) = "store"

(* The exchange lets one thread through to the store, and that one once.   *)
StoreOnce ==
  /\ \A t \in Threads : AtStore(todo[t]) => shutdownRequested /\ ec = Nobody
  /\ \A t, u \in Threads : AtStore(todo[t]) /\ AtStore(todo[u]) => t = u
  /\ ec # Nobody => shutdownRequested

(* A listener gets past its start-up only when Main has let it.            *)
Gate ==
  /\ mpc \in {"start", "setup"} => startupAllowed = {}
  /\ \A l \in Listeners : lpc[l] \in {"check", "poll", "register", "send"} => l \in startupAllowed
  /\ arrived # {} => startupAllowed # {}

(* A message is on its way only from a thread that is still inside the     *)
(* call that sent it.                                                      *)
Senders ==
  /\ \A l \in Listeners : lpc[l] \notin {"failing", "send"} => Free(l)
  /\ spc # "failing" => Free(Service)
  /\ mpc # "setup" => Free(Main)
  /\ \A c \in Clients : c \notin jobs => Free(c)

(* Main has joined what it says it has joined.                             *)
Joins ==
  /\ mpc \in {"joinService", "joinDispatcher", "done"} => \A l \in Listeners : lpc[l] = "joined"
  /\ mpc \in {"joinDispatcher", "done"} => spc = "joined"
  /\ mpc = "done" => dpc = "joined"
  /\ mpc \in {"start", "setup", "continue", "startup"} => spc = "none"
  /\ dpc \in {"exited", "joined"} => jobs = {} /\ dispatcherStop
  /\ \A l \in Listeners : lpc[l] \in {"register", "send"} => accepted[l] \in Clients
  /\ done <= stage

LInv == TypeOK /\ StoreOnce /\ Gate /\ Senders /\ Joins
-----------------------------------------------------------------------------
(* How a message is delivered: after an exchange or a store the thread is  *)
(* not at the store (again).                                               *)
LEMMA NextDelivery ==
  ASSUME NEW q \in Deliveries, q # <<>>
  PROVE  /\ Tail(q) \in Deliveries
         /\ Head(q) \in {"store", "startup"} => ~AtStore(Tail(q))
         /\ Head(q) = "exchange" => Tail(Tail(q)) \in Deliveries /\ ~AtStore(Tail(Tail(q)))
<1>1. CASE q = <<"exchange", "store", "startup">>
  <2>1. Head(q) = "exchange" /\ Tail(q) = <<"store", "startup">> /\ Tail(Tail(q)) = <<"startup">>
    BY <1>1
  <2>2. Head(<<"startup">>) = "startup"
    OBVIOUS
  <2> QED
    BY <2>1, <2>2, Zenon DEF Deliveries, AtStore
<1>2. CASE q = <<"exchange", "store">>
  <2>1. Head(q) = "exchange" /\ Tail(q) = <<"store">> /\ Tail(Tail(q)) = <<>>
    BY <1>2
  <2> QED
    BY <2>1 DEF Deliveries, AtStore
<1>3. CASE q = <<"startup", "exchange", "store">>
  <2>1. Head(q) = "startup" /\ Tail(q) = <<"exchange", "store">> /\ Head(Tail(q)) = "exchange"
    BY <1>3
  <2> QED
    BY <2>1 DEF Deliveries, AtStore
<1>4. CASE q = <<"store", "startup">>
  <2>1. Head(q) = "store" /\ Tail(q) = <<"startup">> /\ Head(Tail(q)) = "startup"
    BY <1>4
  <2> QED
    BY <2>1 DEF Deliveries, AtStore
<1>5. CASE q = <<"store">>
  <2>1. Head(q) = "store" /\ Tail(q) = <<>>
    BY <1>5
  <2> QED
    BY <2>1 DEF Deliveries, AtStore
<1>6. CASE q = <<"startup">>
  <2>1. Head(q) = "startup" /\ Tail(q) = <<>>
    BY <1>6
  <2> QED
    BY <2>1 DEF Deliveries, AtStore
<1> QED
  BY <1>1, <1>2, <1>3, <1>4, <1>5, <1>6 DEF Deliveries
(* Listeners, clients, Main and the service are different threads.         *)
LEMMA ThreadsDiffer ==
  /\ Main # Service /\ Main \notin Listeners \cup Clients /\ Service \notin Listeners \cup Clients
  /\ Listeners \cap Clients = {} /\ Nobody \notin Threads
  /\ Main \in Threads /\ Service \in Threads /\ Listeners \subseteq Threads /\ Clients \subseteq Threads
BY LifecycleAssumption DEF Main, Service, Nobody, Threads

(* A new message starts with the handlers it is delivered to, not at the   *)
(* store.                                                                  *)
LEMMA SendEffect ==
  ASSUME TypeOK, NEW t \in Threads, SendShutdown(t)
  PROVE  /\ todo' \in [Threads -> Deliveries] /\ ~AtStore(todo'[t])
         /\ \A u \in Threads \ {t} : todo'[u] = todo[u]
<1>1. todo \in [Threads -> Deliveries]
  BY DEF TypeOK
<1> DEFINE q == IF shutdownHandlerFirst THEN <<"exchange", "store", "startup">>
                                        ELSE <<"startup", "exchange", "store">>
<1>2. todo' = [todo EXCEPT ![t] = q]
  BY DEF SendShutdown
<1>3. q \in Deliveries /\ Head(q) # "store"
  BY DEF Deliveries
<1> HIDE DEF q
<1> QED
  BY <1>1, <1>2, <1>3 DEF AtStore

(* One delivery: the exchange admits the thread to the store only if it    *)
(* was the first.                                                          *)
LEMMA DeliverEffect ==
  ASSUME TypeOK, NEW t \in Threads, Deliver(t)
  PROVE  /\ todo' \in [Threads -> Deliveries] /\ todo[t] # <<>>
         /\ \A u \in Threads \ {t} : todo'[u] = todo[u]
         /\ \/ shutdownRequested' /\ ec' = ec /\ (AtStore(todo'[t]) => ~shutdownRequested)
            \/ AtStore(todo[t]) /\ ec' = t /\ shutdownRequested' = shutdownRequested /\ ~AtStore(todo'[t])
            \/ ec' = ec /\ shutdownRequested' = shutdownRequested /\ ~AtStore(todo'[t])
<1>1. todo \in [Threads -> Deliveries] /\ todo[t] \in Deliveries /\ todo[t] # <<>>
  BY DEF TypeOK, Deliver, Exchange, StoreCode, StopStartup
<1>2. CASE Exchange(t)
  <2>1. /\ todo' = [todo EXCEPT ![t] = AfterExchange(todo[t])]
        /\ shutdownRequested' = TRUE /\ ec' = ec /\ Head(todo[t]) = "exchange"
    BY <1>2 DEF Exchange
  <2>2. /\ AfterExchange(todo[t]) \in Deliveries
        /\ shutdownRequested => ~AtStore(AfterExchange(todo[t]))
    BY <1>1, <2>1, NextDelivery DEF AfterExchange
  <2> QED
    BY <1>1, <2>1, <2>2
<1>3. CASE StoreCode(t)
  <2>1. /\ todo' = [todo EXCEPT ![t] = Tail(todo[t])] /\ ec' = t
        /\ shutdownRequested' = shutdownRequested /\ Head(todo[t]) = "store"
    BY <1>3 DEF StoreCode
  <2>2. Tail(todo[t]) \in Deliveries /\ ~AtStore(Tail(todo[t]))
    BY <1>1, <2>1, NextDelivery
  <2> QED
    BY <1>1, <2>1, <2>2 DEF AtStore
<1>4. CASE StopStartup(t)
  <2>1. /\ todo' = [todo EXCEPT ![t] = Tail(todo[t])] /\ ec' = ec
        /\ shutdownRequested' = shutdownRequested /\ Head(todo[t]) = "startup"
    BY <1>4 DEF StopStartup
  <2>2. Tail(todo[t]) \in Deliveries /\ ~AtStore(Tail(todo[t]))
    BY <1>1, <2>1, NextDelivery
  <2> QED
    BY <1>1, <2>1, <2>2
<1> QED
  BY <1>2, <1>3, <1>4 DEF Deliver

(* Main before its first stage.                                            *)
LEMMA LifecycleInit == Init => LInv
<1> SUFFICES ASSUME Init PROVE LInv
  OBVIOUS
<1>1. /\ shutdownRequested \in BOOLEAN /\ startupShutdown \in BOOLEAN /\ shutdownHandlerFirst \in BOOLEAN
      /\ serviceStop \in BOOLEAN /\ dispatcherStop \in BOOLEAN
  BY Zenon DEF Init
<1>2. todo \in [Threads -> Deliveries] /\ \A t \in Threads : todo[t] = <<>>
  BY DEF Init, Deliveries
<1>3. TypeOK
  BY <1>1, <1>2, LifecycleAssumption DEF Init, TypeOK
<1>4. StoreOnce /\ Gate
  BY <1>2 DEF Init, StoreOnce, AtStore, Gate
<1>5. Senders /\ Joins
  BY <1>2, ThreadsDiffer, LifecycleAssumption DEF Init, Senders, Free, Joins
<1> QED
  BY <1>3, <1>4, <1>5 DEF LInv
-----------------------------------------------------------------------------
(* What a step may do to the messages under way: nothing, send one, or     *)
(* deliver one.                                                            *)
LEMMA MessageCases ==
  ASSUME [Next]_vars
  PROVE  \/ UNCHANGED <<todo, shutdownRequested, ec, startupShutdown>>
         \/ \E t \in Threads : SendShutdown(t) /\ UNCHANGED <<shutdownRequested, ec, startupShutdown>>
         \/ \E t \in Threads : Deliver(t)
<1> USE DEF mainVars, msgVars, shutVars, lsnVars, svcVars, dspVars
<1>1. CASE \E l \in Listeners : ListenerStep(l) \/ ListenerFails(l)
  BY <1>1, ThreadsDiffer DEF ListenerStep, ListenerReady, ListenerReturns, StartupConfirmed, ListenerLoop, PollEnds,
     CreateHandler, SendClient, ListenerFails
<1>2. CASE MainStep
  BY <1>2, ThreadsDiffer DEF MainStep, WaitForStartupReady, Setup, SetupEnds, StartDispatcher, StartService,
     MainLoop, RequestService, RequestDispatcher, ListenersJoined, JoinService, JoinDispatcher,
     StartListener, StartupContinue, RequestListener, JoinListener
<1>3. CASE ServiceStep \/ ServiceFails \/ DispatcherStops \/ Signal
  BY <1>3, ThreadsDiffer DEF ServiceStep, ServiceStops, ServiceReturns, ServiceFails, DispatcherStops, Signal
<1>4. CASE \E c \in Clients : JobStep(c)
  BY <1>4, ThreadsDiffer DEF JobStep, JobEnds, JobFails, TunnelsStart, WriteStalls, WriteGoesOn
<1>5. CASE \E l \in Listeners, c \in Clients : Accept(l, c)
  BY <1>5 DEF Accept
<1> QED
  BY <1>1, <1>2, <1>3, <1>4, <1>5 DEF Next, Exited, vars

(* One store: the code of the first error is the one that stays.           *)
LEMMA StoreStep == LInv /\ [Next]_vars => StoreOnce'
<1> SUFFICES ASSUME LInv, [Next]_vars PROVE StoreOnce'
  OBVIOUS
<1>0. TypeOK /\ StoreOnce
  BY DEF LInv
<1>1. CASE UNCHANGED <<todo, shutdownRequested, ec>>
  BY <1>0, <1>1 DEF StoreOnce
<1>2. CASE \E t \in Threads : SendShutdown(t) /\ UNCHANGED <<shutdownRequested, ec>>
  <2>1. PICK t \in Threads : SendShutdown(t) /\ UNCHANGED <<shutdownRequested, ec>>
    BY <1>2
  <2>2. ~AtStore(todo'[t]) /\ \A u \in Threads \ {t} : todo'[u] = todo[u]
    BY <1>0, <2>1, SendEffect
  <2> QED
    BY <1>0, <2>1, <2>2 DEF StoreOnce
<1>3. CASE \E t \in Threads : Deliver(t)
  <2>1. PICK t \in Threads : Deliver(t)
    BY <1>3
  <2>2. /\ \A u \in Threads \ {t} : todo'[u] = todo[u]
        /\ \/ shutdownRequested' /\ ec' = ec /\ (AtStore(todo'[t]) => ~shutdownRequested)
           \/ AtStore(todo[t]) /\ ec' = t /\ shutdownRequested' = shutdownRequested /\ ~AtStore(todo'[t])
           \/ ec' = ec /\ shutdownRequested' = shutdownRequested /\ ~AtStore(todo'[t])
    BY <1>0, <2>1, DeliverEffect
  <2> QED
    BY <1>0, <2>2 DEF StoreOnce
<1> QED
  BY <1>1, <1>2, <1>3, MessageCases

(* The gate that keeps clients out during the first stage.                 *)
LEMMA GateStep == LInv /\ [Next]_vars => Gate'
<1> SUFFICES ASSUME LInv, [Next]_vars PROVE Gate'
  OBVIOUS
<1>0. /\ Gate /\ lpc \in [Listeners -> {"none", "opening", "ready", "check", "poll", "register", "send",
                                        "failing", "exited", "joined"}]
  BY DEF LInv, TypeOK
<1> USE DEF mainVars, msgVars, shutVars, lsnVars, svcVars, dspVars, MainGoes, ListenerGoes, Gate
<1>1. ASSUME NEW l \in Listeners, ListenerStep(l) \/ ListenerFails(l)
      PROVE  Gate'
  BY <1>0, <1>1 DEF ListenerStep, ListenerReady, ListenerReturns, StartupConfirmed, MayContinue, ListenerLoop,
     PollEnds, CreateHandler, SendClient, ListenerFails
<1>2. ASSUME NEW l \in Listeners, NEW c \in Clients, Accept(l, c)
      PROVE  Gate'
  BY <1>0, <1>2 DEF Accept
<1>3. ASSUME NEW l \in Listeners, StartListener(l) \/ StartupContinue(l) \/ RequestListener(l) \/ JoinListener(l)
      PROVE  Gate'
  BY <1>0, <1>3 DEF StartListener, StartupContinue, RequestListener, JoinListener
<1>4. CASE \/ WaitForStartupReady \/ Setup \/ SetupEnds \/ StartDispatcher \/ StartService
           \/ MainLoop \/ RequestService \/ RequestDispatcher
           \/ ListenersJoined \/ JoinService \/ JoinDispatcher \/ Signal
  BY <1>0, <1>4 DEF WaitForStartupReady, Setup, SetupEnds, Continues, StartDispatcher, StartService,
     MainLoop, RequestService, RequestDispatcher, ListenersJoined, JoinService, JoinDispatcher, Signal
<1>5. CASE UNCHANGED <<mpc, lpc, startupAllowed, arrived>>
  BY <1>0, <1>5
<1>6. CASE \E t \in Threads : Deliver(t)
  BY <1>5, <1>6 DEF Deliver, Exchange, StoreCode, StopStartup
<1>7. CASE ServiceStep \/ ServiceFails \/ DispatcherStops \/ Exited \/ UNCHANGED vars
  BY <1>5, <1>7 DEF ServiceStep, ServiceStops, ServiceReturns, ServiceFails, DispatcherStops, Exited, vars
<1>8. CASE \E c \in Clients : JobStep(c)
  BY <1>5, <1>8 DEF JobStep, JobEnds, JobFails, TunnelsStart, WriteStalls, WriteGoesOn
<1> QED
  BY <1>1, <1>2, <1>3, <1>4, <1>6, <1>7, <1>8 DEF Next, MainStep
(* Nobody leaves a message behind.                                         *)
LEMMA SendersStep == LInv /\ [Next]_vars => Senders'
<1> SUFFICES ASSUME LInv, [Next]_vars PROVE Senders'
  OBVIOUS
<1>0. /\ TypeOK /\ Senders /\ Joins
      /\ lpc \in [Listeners -> {"none", "opening", "ready", "check", "poll", "register", "send",
                               "failing", "exited", "joined"}]
  BY DEF LInv, TypeOK
<1> USE DEF mainVars, msgVars, shutVars, lsnVars, svcVars, dspVars, MainGoes, ListenerGoes, Senders, Free
<1>1. ASSUME NEW l \in Listeners, ListenerStep(l), UNCHANGED todo
      PROVE  Senders'
  BY <1>0, <1>1 DEF ListenerStep, ListenerReady, ListenerReturns, StartupConfirmed, ListenerLoop,
     PollEnds, CreateHandler, SendClient
<1>2. ASSUME NEW l \in Listeners, ListenerStep(l) \/ ListenerFails(l), SendShutdown(l)
      PROVE  Senders'
  <2>1. \A u \in Threads \ {l} : todo'[u] = todo[u]
    BY <1>0, <1>2, SendEffect, ThreadsDiffer
  <2>2. CASE ListenerFails(l) \/ CreateHandler(l)
    <3>1. /\ UNCHANGED <<mpc, spc, jobs>> /\ lpc'[l] \in {"failing", "send"}
          /\ \A m \in Listeners \ {l} : lpc'[m] = lpc[m]
      BY <1>0, <2>2 DEF ListenerFails, CreateHandler
    <3> QED
      BY <1>0, <2>1, <3>1, ThreadsDiffer
  <2>3. CASE ListenerStep(l) /\ ~CreateHandler(l)
    <3>1. UNCHANGED todo
      BY <2>3 DEF ListenerStep, ListenerReady, ListenerReturns, StartupConfirmed, ListenerLoop, PollEnds, SendClient
    <3> QED
      BY <1>1, <2>3, <3>1
  <2> QED
    BY <1>2, <2>2, <2>3
<1>3. ASSUME NEW l \in Listeners, NEW c \in Clients, Accept(l, c)
      PROVE  Senders'
  BY <1>0, <1>3 DEF Accept
<1>4. ASSUME NEW l \in Listeners, StartListener(l) \/ StartupContinue(l) \/ RequestListener(l) \/ JoinListener(l)
      PROVE  Senders'
  BY <1>0, <1>4 DEF StartListener, StartupContinue, RequestListener, JoinListener
<1>5. CASE Setup
  <2>1. UNCHANGED <<lpc, spc, jobs>> /\ mpc' = "setup" /\ (UNCHANGED todo \/ SendShutdown(Main))
    BY <1>5 DEF Setup
  <2>2. \A u \in Threads \ {Main} : todo'[u] = todo[u]
    BY <1>0, <2>1, SendEffect, ThreadsDiffer
  <2> QED
    BY <1>0, <2>1, <2>2, ThreadsDiffer
<1>6. CASE \/ WaitForStartupReady \/ SetupEnds \/ StartDispatcher \/ StartService
           \/ MainLoop \/ RequestService \/ RequestDispatcher
           \/ ListenersJoined \/ JoinService \/ JoinDispatcher \/ Signal
  BY <1>0, <1>6 DEF WaitForStartupReady, SetupEnds, StartDispatcher, StartService, Joins,
     MainLoop, RequestService, RequestDispatcher, ListenersJoined, JoinService, JoinDispatcher, Signal
<1>7. CASE ServiceStep \/ DispatcherStops \/ Exited \/ UNCHANGED vars
  BY <1>0, <1>7 DEF ServiceStep, ServiceStops, ServiceReturns, DispatcherStops, Exited, vars
<1>8. CASE ServiceFails
  <2>1. UNCHANGED <<lpc, mpc, jobs>> /\ spc' = "failing" /\ SendShutdown(Service)
    BY <1>8 DEF ServiceFails
  <2>2. \A u \in Threads \ {Service} : todo'[u] = todo[u]
    BY <1>0, <2>1, SendEffect, ThreadsDiffer
  <2> QED
    BY <1>0, <2>1, <2>2, ThreadsDiffer
<1>9. ASSUME NEW c \in Clients, JobFails(c)
      PROVE  Senders'
  <2>1. UNCHANGED <<lpc, mpc, spc, jobs>> /\ c \in jobs /\ SendShutdown(c)
    BY <1>9 DEF JobFails
  <2>2. \A u \in Threads \ {c} : todo'[u] = todo[u]
    BY <1>0, <2>1, SendEffect, ThreadsDiffer
  <2> QED
    BY <1>0, <2>1, <2>2, ThreadsDiffer
<1>10. ASSUME NEW c \in Clients, JobEnds(c) \/ TunnelsStart(c) \/ WriteStalls(c) \/ WriteGoesOn(c)
       PROVE  Senders'
  BY <1>0, <1>10 DEF JobEnds, TunnelsStart, WriteStalls, WriteGoesOn
<1>11. ASSUME NEW t \in Threads, Deliver(t)
       PROVE  Senders'
  <2>1. todo[t] # <<>> /\ \A u \in Threads \ {t} : todo'[u] = todo[u]
    BY <1>0, <1>11, DeliverEffect
  <2>2. UNCHANGED <<lpc, mpc, spc, jobs>>
    BY <1>11 DEF Deliver, Exchange, StoreCode, StopStartup
  <2> QED
    BY <1>0, <2>1, <2>2, ThreadsDiffer
<1>12. ASSUME NEW l \in Listeners, ListenerStep(l) \/ ListenerFails(l)
       PROVE  (UNCHANGED todo /\ ListenerStep(l)) \/ SendShutdown(l)
  BY <1>12 DEF ListenerStep, ListenerReady, ListenerReturns, StartupConfirmed, ListenerLoop,
     PollEnds, CreateHandler, SendClient, ListenerFails
<1> QED
  BY <1>1, <1>2, <1>3, <1>4, <1>5, <1>6, <1>7, <1>8, <1>9, <1>10, <1>11, <1>12 DEF Next, MainStep, JobStep

(* Threads that were joined stay joined, and no job is added after them.   *)
LEMMA JoinsStep == LInv /\ [Next]_vars => Joins'
<1> SUFFICES ASSUME LInv, [Next]_vars PROVE Joins'
  OBVIOUS
<1>0. /\ Joins /\ stage \in Nat /\ done \in Nat /\ accepted \in [Listeners -> Clients \cup {Nobody}]
      /\ lpc \in [Listeners -> {"none", "opening", "ready", "check", "poll", "register", "send",
                               "failing", "exited", "joined"}]
  BY DEF LInv, TypeOK
<1> USE DEF mainVars, msgVars, shutVars, lsnVars, svcVars, dspVars, MainGoes, ListenerGoes, Joins
<1>1. ASSUME NEW l \in Listeners, ListenerStep(l) \/ ListenerFails(l)
      PROVE  Joins'
  BY <1>0, <1>1 DEF ListenerStep, ListenerReady, ListenerReturns, StartupConfirmed, ListenerLoop,
     PollEnds, CreateHandler, SendClient, ListenerFails
<1>2. ASSUME NEW l \in Listeners, NEW c \in Clients, Accept(l, c)
      PROVE  Joins'
  BY <1>0, <1>2 DEF Accept
<1>3. ASSUME NEW l \in Listeners, StartListener(l) \/ StartupContinue(l) \/ RequestListener(l) \/ JoinListener(l)
      PROVE  Joins'
  BY <1>0, <1>3 DEF StartListener, StartupContinue, RequestListener, JoinListener
<1>4. CASE \/ WaitForStartupReady \/ Setup \/ SetupEnds \/ StartDispatcher \/ StartService
           \/ MainLoop \/ RequestService \/ RequestDispatcher
           \/ ListenersJoined \/ JoinService \/ JoinDispatcher \/ Signal
  BY <1>0, <1>4 DEF WaitForStartupReady, Setup, SetupEnds, Continues, StartDispatcher, StartService, AllJoined,
     MainLoop, RequestService, RequestDispatcher, ListenersJoined, JoinService, JoinDispatcher, Signal
<1>5. CASE ServiceStep \/ ServiceFails \/ DispatcherStops \/ Exited \/ UNCHANGED vars
  BY <1>0, <1>5 DEF ServiceStep, ServiceStops, ServiceReturns, ServiceFails, DispatcherStops, Exited, vars
<1>6. CASE \E c \in Clients : JobStep(c)
  BY <1>0, <1>6 DEF JobStep, JobEnds, JobFails, TunnelsStart, WriteStalls, WriteGoesOn
<1>7. CASE \E t \in Threads : Deliver(t)
  BY <1>0, <1>7 DEF Deliver, Exchange, StoreCode, StopStartup
<1> QED
  BY <1>1, <1>2, <1>3, <1>4, <1>5, <1>6, <1>7 DEF Next, MainStep
(* The type invariant.                                                     *)
LEMMA LifecycleTypeStep == LInv /\ [Next]_vars => TypeOK'
<1> SUFFICES ASSUME LInv, [Next]_vars PROVE TypeOK'
  OBVIOUS
<1>0. TypeOK /\ Joins /\ SetupSteps \in Nat
  BY LifecycleAssumption DEF LInv
<1> USE DEF mainVars, msgVars, shutVars, lsnVars, svcVars, dspVars, MainGoes, ListenerGoes
<1>1. todo' \in [Threads -> Deliveries]
  BY <1>0, MessageCases, SendEffect, DeliverEffect DEF TypeOK
<1>2. ec' \in Threads \cup {Nobody}
  BY <1>0, MessageCases, DeliverEffect DEF TypeOK
<1>3. shutdownRequested' \in BOOLEAN /\ startupShutdown' \in BOOLEAN
  <2>1. CASE UNCHANGED <<shutdownRequested, startupShutdown>>
    BY <1>0, <2>1 DEF TypeOK
  <2>2. CASE \E t \in Threads : Deliver(t)
    BY <1>0, <2>2, Zenon DEF TypeOK, Deliver, Exchange, StoreCode, StopStartup
  <2> QED
    BY <2>1, <2>2, MessageCases
<1>4. ASSUME NEW l \in Listeners, ListenerStep(l) \/ ListenerFails(l)
      PROVE  TypeOK'
  <2>1. UNCHANGED <<mpc, stage, done, shutdownHandlerFirst, startupAllowed, stopping, spc, serviceStop,
                    dpc, dispatcherStop, tunnel, arrived>>
        /\ awaitedTargets' \in {awaitedTargets, awaitedTargets \ {l}}
    BY <1>4 DEF ListenerStep, ListenerReady, ListenerReturns, StartupConfirmed, ListenerLoop,
       PollEnds, CreateHandler, SendClient, ListenerFails
  <2>2. lpc' \in [Listeners -> {"none", "opening", "ready", "check", "poll", "register", "send",
                               "failing", "exited", "joined"}]
    BY <1>0, <1>4 DEF TypeOK, ListenerStep, ListenerReady, ListenerReturns, StartupConfirmed, ListenerLoop,
       PollEnds, CreateHandler, SendClient, ListenerFails
  <2>3. jobs' \in SUBSET Clients /\ accepted' \in [Listeners -> Clients \cup {Nobody}]
    BY <1>0, <1>4 DEF TypeOK, Joins, ListenerStep, ListenerReady, ListenerReturns, StartupConfirmed, ListenerLoop,
       PollEnds, CreateHandler, SendClient, ListenerFails
  <2>4. watch' \in [Clients -> {"no", "watched", "cancelled"}]
    <3>1. CASE CreateHandler(l)
      BY <1>0, <3>1 DEF TypeOK, CreateHandler
    <3>2. CASE ~CreateHandler(l)
      BY <1>0, <1>4, <3>2 DEF TypeOK, ListenerStep, ListenerReady, ListenerReturns, StartupConfirmed,
         ListenerLoop, PollEnds, SendClient, ListenerFails
    <3> QED
      BY <3>1, <3>2
  <2> QED
    BY <1>0, <1>1, <1>2, <1>3, <2>1, <2>2, <2>3, <2>4 DEF TypeOK
<1>5. ASSUME NEW l \in Listeners, NEW c \in Clients, Accept(l, c)
      PROVE  TypeOK'
  BY <1>0, <1>1, <1>2, <1>3, <1>5 DEF Accept, TypeOK
<1>6. ASSUME NEW l \in Listeners, StartListener(l) \/ StartupContinue(l) \/ RequestListener(l) \/ JoinListener(l)
      PROVE  TypeOK'
  BY <1>0, <1>1, <1>2, <1>3, <1>6 DEF StartListener, StartupContinue, RequestListener, JoinListener, TypeOK
<1>7. CASE Setup
  <2>1. stage' \in 0 .. SetupSteps /\ done' \in 0 .. SetupSteps
    BY <1>0, <1>7 DEF Setup, MoreSetup, TypeOK, Joins
  <2> QED
    BY <1>0, <1>1, <1>2, <1>3, <1>7, <2>1 DEF Setup, TypeOK
<1>8. CASE RequestService \/ RequestDispatcher
  <2>1. serviceStop' \in BOOLEAN /\ dispatcherStop' \in BOOLEAN
    BY <1>0, <1>8, Zenon DEF RequestService, RequestDispatcher, TypeOK
  <2> QED
    BY <1>0, <1>1, <1>2, <1>3, <1>8, <2>1 DEF RequestService, RequestDispatcher, TypeOK
<1>9. CASE \/ WaitForStartupReady \/ SetupEnds \/ StartDispatcher \/ StartService
           \/ MainLoop \/ ListenersJoined \/ JoinService \/ JoinDispatcher \/ Signal
  BY <1>0, <1>1, <1>2, <1>3, <1>9 DEF WaitForStartupReady, SetupEnds, Continues, StartDispatcher, StartService,
     MainLoop, ListenersJoined, JoinService, JoinDispatcher, Signal, TypeOK
<1>10. CASE ServiceStep \/ ServiceFails \/ DispatcherStops \/ Exited \/ UNCHANGED vars
  BY <1>0, <1>1, <1>2, <1>3, <1>10 DEF ServiceStep, ServiceStops, ServiceReturns, ServiceFails, DispatcherStops,
     Exited, vars, TypeOK
<1>11. CASE \E c \in Clients : JobStep(c)
  BY <1>0, <1>1, <1>2, <1>3, <1>11 DEF JobStep, JobEnds, JobFails, TunnelsStart, WriteStalls, WriteGoesOn, TypeOK
<1>12. CASE \E t \in Threads : Deliver(t)
  BY <1>0, <1>1, <1>2, <1>3, <1>12 DEF Deliver, Exchange, StoreCode, StopStartup, TypeOK
<1> QED
  BY <1>4, <1>5, <1>6, <1>7, <1>8, <1>9, <1>10, <1>11, <1>12 DEF Next, MainStep
-----------------------------------------------------------------------------
(* LInv: types, one store, the gate, the senders and the joins.            *)
THEOREM LifecycleInductive == Spec => []LInv
<1>1. LInv /\ [Next]_vars => LInv'
  BY LifecycleTypeStep, StoreStep, GateStep, SendersStep, JoinsStep DEF LInv
<1> QED
  BY <1>1, LifecycleInit, PTL DEF Spec

(* No client is accepted before Main has finished the first stage, with    *)
(* any number of listeners.                                                *)
THEOREM NobodyIsLetInEarly == Spec => []NoEarlyAccept
<1>1. LInv => NoEarlyAccept
  BY DEF LInv, Gate, NoEarlyAccept
<1> QED
  BY <1>1, LifecycleInductive, PTL

(* When main() returns no thread is inside the broker, no job runs and     *)
(* every listener has been joined.                                         *)
THEOREM ExitIsQuiet == Spec => []QuietExit
<1>1. LInv => QuietExit
  <2> SUFFICES ASSUME LInv, mpc = "done"
               PROVE  /\ \A t \in Threads : Free(t)
                      /\ jobs = {}
                      /\ \A l \in Listeners : lpc[l] = "joined"
    BY DEF QuietExit
  <2>1. jobs = {} /\ spc = "joined" /\ \A l \in Listeners : lpc[l] = "joined"
    BY DEF LInv, Joins
  <2>2. /\ Free(Main) /\ Free(Service)
        /\ \A l \in Listeners : Free(l)
        /\ \A c \in Clients : Free(c)
    BY <2>1 DEF LInv, Senders
  <2> QED
    BY <2>1, <2>2 DEF Threads
<1> QED
  BY <1>1, LifecycleInductive, PTL

(* The code of the first error is never replaced, although several threads *)
(* report at once: test and store are two steps, but only one thread gets  *)
(* from the one to the other.                                              *)
THEOREM FirstCodeIsKept == Spec => FirstCodeStays
<1>1. LInv /\ [Next]_vars => [ec # Nobody => ec' = ec]_vars
  <2> SUFFICES ASSUME LInv, [Next]_vars, ec # Nobody PROVE ec' = ec
    OBVIOUS
  <2>1. TypeOK /\ StoreOnce
    BY DEF LInv
  <2>2. ASSUME NEW t \in Threads, Deliver(t) PROVE ec' = ec
    BY <2>1, <2>2, DeliverEffect DEF StoreOnce
  <2> QED
    BY <2>2, MessageCases
<1> QED
  BY <1>1, LifecycleInductive, PTL DEF Spec, FirstCodeStays
=============================================================================
