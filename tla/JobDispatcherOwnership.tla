----------------------- MODULE JobDispatcherOwnership -----------------------
(***************************************************************************)
(* Who owns a worker of JobDispatcher, for every number of workers, every  *)
(* pool size and every number of clients: each worker that is not joined   *)
(* is in one collection or in the hands of one thread of OnMessage, it is  *)
(* ready for the job it is given, it is found again when it reports its    *)
(* result, and the shutdown leaves none behind.                            *)
(***************************************************************************)
EXTENDS JobDispatcherProofs

InPools == tmp \cup freeWorkers \cup activeWorkers \cup finishedWorkers

(* Who holds the three mutexes between two steps.                          *)
LocksHeld ==
  /\ \A s \in Senders : /\ opc[s] = "assign" <=> lock["free"] = s
                        /\ opc[s] = "move" <=> lock["active"] = s
                        /\ lock["dispose"] # s
  /\ lock["free"] = Dispatcher => pool = "free" /\ dpc \in {"request", "join"}
  /\ lock["active"] = Dispatcher => pool = "active" /\ dpc \in {"request", "join"}
  /\ lock["dispose"] = Dispatcher => pool = "finished" /\ dpc \in {"request", "join"}

(* No worker is in two collections.                                        *)
Apart ==
  /\ tmp \cap (freeWorkers \cup activeWorkers \cup finishedWorkers) = {}
  /\ freeWorkers \cap (activeWorkers \cup finishedWorkers) = {}
  /\ activeWorkers \cap finishedWorkers = {}

(* A worker taken from freeWorkers is in no collection and has no job.     *)
PickedAlone ==
  \A s \in Senders : picked[s] # Nobody =>
    opc[s] = "assign" /\ picked[s] \notin InPools /\ ~jobSet[picked[s]] /\ wpc[picked[s]] # "none"

(* Every thread that runs is accounted for, and only threads that run.     *)
Owned ==
  \A w \in Workers :
    /\ wpc[w] \notin {"none", "joined"} => w \in InPools \/ \E s \in Senders : picked[s] = w
    /\ wpc[w] = "none" => w \notin InPools /\ ~jobSet[w]

(* Outside the shutdown a free worker has no job, and a worker with a job  *)
(* is active until it has moved itself to finishedWorkers.                 *)
FreeIsReady == ~PastPreSpin => \A w \in freeWorkers : ~jobSet[w]

BusyIsActive ==
  ~PastPreSpin => \A w \in Workers :
    \/ wpc[w] = "waiting" /\ jobSet[w]
    \/ wpc[w] \in {"running", "writing"}
    \/ wpc[w] = "sending" /\ opc[w] \in {"idle", "entered", "search", "move"}
    => w \in activeWorkers

(* The loops of the background thread: what they walk over, what they have *)
(* joined so far, and what is cleared behind them.                         *)
Batches ==
  /\ dpc \in {"request", "join"} => todo \subseteq Batch
  /\ joining # Nobody => dpc = "join" /\ joining \in todo
  /\ dpc = "join" => \A w \in Batch \ todo : wpc[w] = "joined"
  /\ dpc \notin {"request", "join"} \/ PastPreSpin => \A w \in tmp : wpc[w] = "joined"
  /\ dpc = "lock" => PastPreSpin
  /\ dpc \in {"postSpin", "done"} => pool = "finished" /\ finishedWorkers = {}
  /\ pool \in {"active", "finished"} => freeWorkers = {}
  /\ pool = "finished" => activeWorkers = {}

OwnInv ==
  /\ IInv /\ LocksHeld /\ Apart /\ PickedAlone /\ Owned
  /\ FreeIsReady /\ BusyIsActive /\ Batches /\ PoolBound
-----------------------------------------------------------------------------
(* The numbers of the dispatcher and of nobody are no thread's number.     *)
LEMMA Distinct ==
  /\ Dispatcher \notin Senders /\ Nobody \notin Senders /\ Nobody \notin Workers
  /\ Dispatcher # Nobody /\ Listener # Nobody
BY ConstantsAssumption DEF Dispatcher, Nobody, Senders, Workers, Listener

(* One round of the top-up creates a natural number of workers.            *)
LEMMA SpawnNowNat == TypeOK => SpawnNow \in Nat
<1> SUFFICES ASSUME TypeOK PROVE SpawnNow \in Nat
  OBVIOUS
<1>1. Cardinality(freeWorkers) \in Nat
  BY Identities, FS_Subset, FS_CardinalityType DEF TypeOK
<1> QED
  BY <1>1, ConstantsAssumption DEF SpawnNow

(* The invariant holds when the program starts.                            *)
LEMMA OwnInit == Init => OwnInv
<1> SUFFICES ASSUME Init PROVE OwnInv
  OBVIOUS
<1>1. IInv
  BY InitIInv
<1>2. LocksHeld
  BY Distinct DEF Init, LocksHeld, Mutexes
<1>3. Apart /\ PickedAlone /\ FreeIsReady /\ Batches
  BY DEF Init, Apart, PickedAlone, FreeIsReady, Batches, PastPreSpin
<1>4. Owned /\ BusyIsActive
  BY Identities DEF Init, Owned, InPools, BusyIsActive
<1>5. PoolBound
  BY FS_EmptySet, ConstantsAssumption DEF Init, PoolBound
<1> QED
  BY <1>1, <1>2, <1>3, <1>4, <1>5 DEF OwnInv

(* A mutex is held by the thread inside the section it guards.             *)
LEMMA LocksStep == OwnInv /\ [Next]_vars => LocksHeld'
<1> SUFFICES ASSUME OwnInv, [Next]_vars PROVE LocksHeld'
  OBVIOUS
<1>0. /\ opc \in [Senders -> {"idle", "entered", "leave"} \cup Inside]
      /\ lock \in [Mutexes -> Senders \cup {Dispatcher, Nobody}]
      /\ pool \in Pools /\ LocksHeld
      /\ dpc \in {"populate", "check", "swap", "init", "preSpin"} => pool = "tmp"
      /\ dpc = "lock" => pool # "tmp"
      /\ pool # "tmp" => \A s \in Senders : opc[s] # "assign" /\ opc[s] # "move"
      /\ \A m \in {"free", "active", "dispose"} : m \in Mutexes
  BY DEF OwnInv, IInv, TypeInv, TypeOK, LoopOrder, Batches, QuiescentShutdown, PastPreSpin, Inside,
     Mutexes
<1> USE Distinct DEF LocksHeld, flagVars, listVars, bgVars, workerVars, msgVars
<1>1. ASSUME NEW w \in Workers, WorkerThread(w) PROVE LocksHeld'
  BY <1>0, <1>1, Identities
     DEF WorkerThread, TakeJob, HandshakeDone, TunnelWrites, TunnelWritten, TunnelDone,
          FinishJob, WorkerMessage
<1>2. ASSUME NEW s \in Senders, OnMessage(s) PROVE LocksHeld'
  <2>1. CASE CheckShutdown(s)
    BY <1>0, <2>1 DEF CheckShutdown, AfterCheck
  <2>2. CASE SearchActive(s)
    BY <1>0, <2>2 DEF SearchActive
  <2>3. CASE MoveToFinished(s)
    BY <1>0, <2>3 DEF MoveToFinished
  <2>4. CASE PickFreeWorker(s)
    BY <1>0, <2>4 DEF PickFreeWorker
  <2>5. CASE SpawnOneWorker(s)
    BY <1>0, <2>5 DEF SpawnOneWorker
  <2>6. CASE AssignJob(s)
    BY <1>0, <2>6 DEF AssignJob
  <2>7. CASE LeaveOnMessage(s)
    BY <1>0, <2>7 DEF LeaveOnMessage
  <2> QED
    BY <1>2, <2>1, <2>2, <2>3, <2>4, <2>5, <2>6, <2>7 DEF OnMessage
<1>3. CASE BackgroundThread
  <2>1. CASE CheckLoop \/ SwapFinished \/ PreSpin \/ PostSpin \/ Populate
    BY <1>0, <2>1 DEF CheckLoop, SwapFinished, PreSpin, PostSpin, Populate
  <2>2. CASE JoinWorker \/ RequestLoopEnd \/ \E w \in Workers : RequestWorker(w) \/ ShutdownWorker(w)
    BY <1>0, <2>2 DEF JoinWorker, RequestLoopEnd, RequestWorker, ShutdownWorker
  <2>3. CASE JoinLoopEnd
    <3>1. CASE pool = "tmp"
      BY <1>0, <2>3, <3>1 DEF JoinLoopEnd
    <3>2. CASE pool = "free"
      BY <1>0, <2>3, <3>2 DEF JoinLoopEnd
    <3>3. CASE pool = "active"
      BY <1>0, <2>3, <3>3 DEF JoinLoopEnd
    <3>4. CASE pool = "finished"
      BY <1>0, <2>3, <3>4 DEF JoinLoopEnd
    <3> QED
      BY <1>0, <3>1, <3>2, <3>3, <3>4 DEF Pools
  <2>4. CASE LockPool
    <3>1. pool \in {"free", "active", "finished"}
      BY <1>0, <2>4 DEF LockPool, Pools
    <3> QED
      BY <1>0, <2>4, <3>1 DEF LockPool, MutexOf, Pools
  <2> QED
    BY <1>3, <2>1, <2>2, <2>3, <2>4 DEF BackgroundThread
<1>4. CASE ListenerMessage \/ Startup \/ RequestShutdown \/ UNCHANGED vars
  BY <1>0, <1>4, Identities DEF ListenerMessage, Startup, RequestShutdown, vars
<1> QED
  BY <1>1, <1>2, <1>3, <1>4 DEF Next, Terminated

(* Whoever moves itself to finishedWorkers is in activeWorkers.            *)
LEMMA ReporterFound ==
  ASSUME OwnInv, NEW s \in Senders, MoveToFinished(s)
  PROVE  s \in activeWorkers /\ s \in Workers
BY Identities DEF MoveToFinished, OwnInv, IInv, TypeInv, Handing, SendingInside, BusyIsActive,
   QuiescentShutdown, Inside

(* No step puts a worker into a second collection.                         *)
LEMMA ApartStep == OwnInv /\ [Next]_vars => Apart'
<1> SUFFICES ASSUME OwnInv, [Next]_vars PROVE Apart'
  OBVIOUS
<1>0. Apart
  BY DEF OwnInv
<1>1. ASSUME NEW w \in Workers, WorkerThread(w) PROVE Apart'
  BY <1>0, <1>1 DEF WorkerThread, TakeJob, HandshakeDone, TunnelWrites, TunnelWritten, TunnelDone,
       FinishJob, WorkerMessage,
     listVars, bgVars, Apart
<1>2. ASSUME NEW s \in Senders, OnMessage(s) PROVE Apart'
  <2>1. CASE CheckShutdown(s) \/ SearchActive(s) \/ SpawnOneWorker(s) \/ LeaveOnMessage(s)
    BY <1>0, <2>1 DEF CheckShutdown, SearchActive, SpawnOneWorker, LeaveOnMessage, listVars, bgVars, Apart
  <2>2. CASE MoveToFinished(s)
    <3>1. s \in activeWorkers
      BY <2>2, ReporterFound
    <3> QED
      BY <1>0, <2>2, <3>1 DEF MoveToFinished, bgVars, Apart
  <2>3. CASE PickFreeWorker(s)
    BY <1>0, <2>3 DEF PickFreeWorker, PopBack, bgVars, Apart
  <2>4. CASE AssignJob(s)
    <3>1. picked[s] \in Workers /\ picked[s] \notin InPools
      BY <2>4, Distinct DEF AssignJob, OwnInv, PickedAlone, IInv, TypeInv, Handing
    <3> QED
      BY <1>0, <2>4, <3>1 DEF AssignJob, Activated, bgVars, Apart, InPools
  <2> QED
    BY <1>2, <2>1, <2>2, <2>3, <2>4 DEF OnMessage
<1>3. CASE BackgroundThread
  <2>1. CASE SwapFinished
    BY <1>0, <2>1 DEF SwapFinished, Apart
  <2>2. CASE JoinLoopEnd
    BY <1>0, <2>2 DEF JoinLoopEnd, listVars, Apart
  <2>3. CASE Populate
    <3>1. \A w \in workerID .. (workerID + SpawnNow - 1) : w \notin InPools
      <4>1. workerID \in Int
        BY DEF OwnInv, IInv, TypeInv, TypeOK
      <4>2. ASSUME NEW w \in InPools PROVE w \in Workers /\ ~(w >= workerID)
        BY <4>2 DEF OwnInv, Owned, IInv, TypeInv, TypeOK, SendingInside, InPools
      <4>3. ASSUME NEW w \in workerID .. (workerID + SpawnNow - 1) PROVE w >= workerID
        BY <4>3, SpawnNowNat, <4>1 DEF OwnInv
      <4> QED
        BY <4>2, <4>3
    <3> QED
      BY <1>0, <2>3, <3>1 DEF Populate, Apart, InPools
  <2>4. CASE CheckLoop \/ PreSpin \/ PostSpin \/ JoinWorker \/ RequestLoopEnd \/ LockPool
             \/ \E w \in Workers : RequestWorker(w) \/ ShutdownWorker(w)
    BY <1>0, <2>4 DEF CheckLoop, PreSpin, PostSpin, JoinWorker, RequestLoopEnd, LockPool,
       RequestWorker, ShutdownWorker, listVars, Apart
  <2> QED
    BY <1>3, <2>1, <2>2, <2>3, <2>4 DEF BackgroundThread
<1>4. CASE ListenerMessage \/ Startup \/ RequestShutdown \/ UNCHANGED vars
  BY <1>0, <1>4 DEF ListenerMessage, Startup, RequestShutdown, vars, listVars, bgVars, Apart
<1> QED
  BY <1>1, <1>2, <1>3, <1>4 DEF Next, Terminated

(* A worker in the hands of a thread of OnMessage is in nobody else's.     *)
LEMMA PickedStep == OwnInv /\ [Next]_vars => PickedAlone'
<1> SUFFICES ASSUME OwnInv, [Next]_vars PROVE PickedAlone'
  OBVIOUS
<1>0. /\ PickedAlone /\ LocksHeld /\ TypeOK /\ Handing /\ SendingInside /\ Owned /\ Apart
      /\ Batches /\ FreeIsReady
      /\ PastPreSpin => \A s \in Senders : opc[s] \notin Inside
  BY DEF OwnInv, IInv, TypeInv, QuiescentShutdown
<1>1. ASSUME NEW w \in Workers, WorkerThread(w) PROVE PickedAlone'
  <2>1. UNCHANGED <<picked, jobSet, listVars, tmp>>
    BY <1>1 DEF WorkerThread, TakeJob, HandshakeDone, TunnelWrites, TunnelWritten, TunnelDone,
         FinishJob, WorkerMessage,
       bgVars, msgVars, workerVars
  <2>2. \A s \in Senders : opc[s] = "assign" => opc'[s] = "assign"
    BY <1>0, <1>1, Identities DEF WorkerThread, TakeJob, HandshakeDone, TunnelWrites, TunnelWritten, TunnelDone,
         FinishJob, WorkerMessage,
       msgVars, TypeOK
  <2>3. \A v \in Workers : wpc[v] # "none" => wpc'[v] # "none"
    BY <1>0, <1>1 DEF WorkerThread, TakeJob, HandshakeDone, TunnelWrites, TunnelWritten, TunnelDone,
         FinishJob, WorkerMessage,
       workerVars, TypeOK
  <2> QED
    BY <1>0, <2>1, <2>2, <2>3 DEF PickedAlone, InPools, listVars, TypeOK
<1>2. ASSUME NEW s \in Senders, OnMessage(s) PROVE PickedAlone'
  <2>1. CASE CheckShutdown(s) \/ SearchActive(s)
    BY <1>0, <2>1 DEF CheckShutdown, SearchActive, listVars, bgVars, workerVars, PickedAlone, InPools, TypeOK
  <2>2. CASE MoveToFinished(s)
    <3>1. s \in activeWorkers
      BY <2>2, ReporterFound
    <3> QED
      BY <1>0, <2>2, <3>1 DEF MoveToFinished, bgVars, workerVars, PickedAlone, InPools, TypeOK
  <2>3. CASE PickFreeWorker(s)
    <3>1. PICK w \in freeWorkers :
            freeWorkers' = freeWorkers \ {w} /\ picked' = [picked EXCEPT ![s] = w]
      BY <2>3 DEF PickFreeWorker, PopBack
    <3>2. w \in Workers /\ ~PastPreSpin /\ ~jobSet[w] /\ wpc[w] # "none"
      BY <1>0, <2>3 DEF PickFreeWorker, Inside, FreeIsReady, Owned, InPools, TypeOK
    <3>3. \A q \in Senders : opc[q] # "assign"
      BY <1>0, <2>3, Distinct DEF PickFreeWorker, LocksHeld
    <3>4. \A q \in Senders : q # s => picked'[q] = Nobody
      BY <1>0, <3>1, <3>3 DEF PickedAlone, TypeOK
    <3>5. picked'[s] = w /\ opc'[s] = "assign" /\ w \notin InPools' /\ wpc' = wpc /\ jobSet' = jobSet
      BY <1>0, <2>3, <3>1 DEF PickFreeWorker, TypeOK, Apart, InPools, bgVars, workerVars
    <3> QED
      BY <3>2, <3>4, <3>5 DEF PickedAlone
  <2>4. CASE SpawnOneWorker(s)
    <3>1. workerID \in Workers /\ wpc[workerID] = "none" /\ wpc'[workerID] = "waiting"
      BY <1>0, <2>4, Identities, ConstantsAssumption
         DEF SpawnOneWorker, SpawnWorkers, TypeOK, SendingInside
    <3>2. workerID \notin InPools /\ ~jobSet[workerID]
      BY <1>0, <3>1 DEF Owned
    <3>3. \A q \in Senders : opc[q] # "assign"
      BY <1>0, <2>4, Distinct DEF SpawnOneWorker, LocksHeld
    <3>4. \A q \in Senders : q # s => picked'[q] = Nobody
      BY <1>0, <2>4, <3>3 DEF SpawnOneWorker, PickedAlone, TypeOK
    <3>5. picked'[s] = workerID /\ opc'[s] = "assign" /\ InPools' = InPools /\ jobSet' = jobSet
      BY <1>0, <2>4 DEF SpawnOneWorker, TypeOK, InPools, bgVars, listVars
    <3> QED
      BY <3>1, <3>2, <3>4, <3>5 DEF PickedAlone
  <2>5. CASE AssignJob(s)
    <3>1. \A q \in Senders : q # s => opc[q] # "assign"
      BY <1>0, <2>5 DEF AssignJob, LocksHeld
    <3>2. \A q \in Senders : picked'[q] = Nobody
      BY <1>0, <2>5, <3>1 DEF AssignJob, PickedAlone, TypeOK
    <3> QED
      BY <3>2 DEF PickedAlone
  <2>6. CASE LeaveOnMessage(s)
    <3>1. UNCHANGED <<picked, jobSet, InPools>>
      BY <2>6 DEF LeaveOnMessage, listVars, bgVars, InPools
    <3>2. \A q \in Senders : opc[q] = "assign" => opc'[q] = "assign"
      BY <1>0, <2>6 DEF LeaveOnMessage, TypeOK
    <3>3. \A v \in Workers : wpc[v] # "none" => wpc'[v] # "none"
      BY <1>0, <2>6 DEF LeaveOnMessage, TypeOK
    <3> QED
      BY <1>0, <3>1, <3>2, <3>3 DEF PickedAlone, TypeOK
  <2> QED
    BY <1>2, <2>1, <2>2, <2>3, <2>4, <2>5, <2>6 DEF OnMessage
<1>3. CASE BackgroundThread \/ Startup \/ RequestShutdown \/ UNCHANGED vars
  <2>1. UNCHANGED <<picked, opc>>
    BY <1>3 DEF BackgroundThread, CheckLoop, SwapFinished, RequestLoopEnd, JoinWorker,
       JoinLoopEnd, Populate, PreSpin, LockPool, PostSpin, RequestWorker, ShutdownWorker,
       Startup, RequestShutdown, vars, msgVars
  <2>2. CASE PastPreSpin
    <3>1. \A q \in Senders : picked[q] = Nobody
      BY <1>0, <2>2 DEF PickedAlone, Inside
    <3> QED
      BY <2>1, <3>1 DEF PickedAlone
  <2>3. CASE ~PastPreSpin
    <3>1. jobSet' = jobSet
      BY <1>3, <2>3 DEF BackgroundThread, CheckLoop, SwapFinished, RequestLoopEnd, JoinWorker,
         JoinLoopEnd, Populate, PreSpin, LockPool, PostSpin, RequestWorker, ShutdownWorker,
         Startup, RequestShutdown, vars, workerVars, PastPreSpin
    <3>2. \A v \in Workers : wpc[v] # "none" => wpc'[v] # "none"
      BY <1>0, <1>3 DEF BackgroundThread, CheckLoop, SwapFinished, RequestLoopEnd, JoinWorker,
         JoinLoopEnd, Populate, SpawnWorkers, PreSpin, LockPool, PostSpin, RequestWorker, ShutdownWorker,
         Startup, RequestShutdown, vars, workerVars, TypeOK
    <3>3. \A v \in Workers : wpc[v] # "none" /\ v \notin InPools => v \notin InPools'
      <4>1. CASE Populate
        <5>1. \A w \in workerID .. (workerID + SpawnNow - 1) : w \in Workers => wpc[w] = "none"
          BY <1>0, SpawnNowNat DEF SendingInside, TypeOK
        <5> QED
          BY <4>1, <5>1 DEF Populate, InPools
      <4>2. CASE ~Populate
        BY <1>3, <4>2 DEF BackgroundThread, CheckLoop, SwapFinished, RequestLoopEnd, JoinWorker,
           JoinLoopEnd, PreSpin, LockPool, PostSpin, RequestWorker, ShutdownWorker,
           Startup, RequestShutdown, vars, listVars, bgVars, InPools
      <4> QED
        BY <4>1, <4>2
    <3> QED
      BY <1>0, <2>1, <3>1, <3>2, <3>3 DEF PickedAlone, TypeOK
  <2> QED
    BY <2>2, <2>3
<1>4. CASE ListenerMessage
  BY <1>0, <1>4, Identities DEF ListenerMessage, listVars, bgVars, workerVars, PickedAlone, InPools, TypeOK
<1> QED
  BY <1>1, <1>2, <1>3, <1>4 DEF Next, Terminated

(* No worker thread is left without an owner.                              *)
LEMMA OwnedStep == OwnInv /\ [Next]_vars => Owned'
<1> SUFFICES ASSUME OwnInv, [Next]_vars PROVE Owned'
  OBVIOUS
<1>0. /\ PickedAlone /\ TypeOK /\ Handing /\ SendingInside /\ Owned /\ Batches /\ LoopOrder
      /\ PastPreSpin => \A s \in Senders : opc[s] \notin Inside
  BY DEF OwnInv, IInv, TypeInv, QuiescentShutdown
<1>1. ASSUME UNCHANGED <<picked, jobSet>>, InPools' = InPools,
             \A v \in Workers : /\ wpc'[v] \notin {"none", "joined"} => wpc[v] \notin {"none", "joined"}
                                /\ wpc'[v] = "none" => wpc[v] = "none"
      PROVE  Owned'
  BY <1>0, <1>1 DEF Owned
<1>2. ASSUME NEW w \in Workers, WorkerThread(w) PROVE Owned'
  <2>1. UNCHANGED <<picked, jobSet>> /\ InPools' = InPools
    BY <1>2 DEF WorkerThread, TakeJob, HandshakeDone, TunnelWrites, TunnelWritten, TunnelDone,
         FinishJob, WorkerMessage,
       listVars, bgVars, msgVars, workerVars, InPools
  <2>2. \A v \in Workers : /\ wpc'[v] \notin {"none", "joined"} => wpc[v] \notin {"none", "joined"}
                           /\ wpc'[v] = "none" => wpc[v] = "none"
    BY <1>0, <1>2 DEF WorkerThread, TakeJob, HandshakeDone, TunnelWrites, TunnelWritten, TunnelDone,
         FinishJob, WorkerMessage,
       workerVars, TypeOK
  <2> QED
    BY <1>1, <2>1, <2>2
<1>3. ASSUME NEW s \in Senders, OnMessage(s) PROVE Owned'
  <2>1. CASE CheckShutdown(s) \/ SearchActive(s)
    BY <1>1, <2>1 DEF CheckShutdown, SearchActive, listVars, bgVars, workerVars, InPools
  <2>2. CASE MoveToFinished(s)
    <3>1. s \in activeWorkers
      BY <2>2, ReporterFound
    <3>2. InPools' = InPools
      BY <2>2, <3>1 DEF MoveToFinished, bgVars, InPools
    <3> QED
      BY <1>1, <2>2, <3>2 DEF MoveToFinished, workerVars
  <2>3. CASE PickFreeWorker(s)
    <3>1. PICK w \in freeWorkers :
            freeWorkers' = freeWorkers \ {w} /\ picked' = [picked EXCEPT ![s] = w]
      BY <2>3 DEF PickFreeWorker, PopBack
    <3>2. UNCHANGED <<jobSet, wpc>> /\ InPools' \subseteq InPools /\ InPools \subseteq InPools' \cup {w}
      BY <2>3, <3>1 DEF PickFreeWorker, InPools, workerVars, bgVars
    <3>3. picked[s] = Nobody
      BY <1>0, <2>3 DEF PickFreeWorker, PickedAlone
    <3>4. \A v \in Workers : (\E q \in Senders : picked[q] = v) => \E q \in Senders : picked'[q] = v
      BY <1>0, <3>1, <3>3, Distinct DEF TypeOK
    <3>5. picked'[s] = w
      BY <1>0, <3>1 DEF TypeOK
    <3> QED
      BY <1>0, <3>2, <3>4, <3>5 DEF Owned
  <2>4. CASE SpawnOneWorker(s)
    <3>1. workerID \in Workers /\ InPools' = InPools /\ jobSet' = jobSet
      BY <1>0, <2>4, Identities, ConstantsAssumption
         DEF SpawnOneWorker, SpawnWorkers, TypeOK, InPools, bgVars, listVars
    <3>2. wpc' = [w \in Workers |-> IF w = workerID THEN "waiting" ELSE wpc[w]]
      BY <1>0, <2>4 DEF SpawnOneWorker, SpawnWorkers, TypeOK
    <3>3. picked[s] = Nobody
      BY <1>0, <2>4 DEF SpawnOneWorker, PickedAlone
    <3>4. \A v \in Workers : (\E q \in Senders : picked[q] = v) => \E q \in Senders : picked'[q] = v
      BY <1>0, <2>4, <3>3, Distinct DEF SpawnOneWorker, TypeOK
    <3>5. picked'[s] = workerID
      BY <1>0, <2>4 DEF SpawnOneWorker, TypeOK
    <3> QED
      BY <1>0, <3>1, <3>2, <3>4, <3>5 DEF Owned
  <2>5. CASE AssignJob(s)
    <3>1. picked[s] \in Workers /\ wpc[picked[s]] # "none"
      BY <1>0, <2>5, Distinct DEF AssignJob, Handing, PickedAlone
    <3>2. InPools' = InPools \cup {picked[s]} /\ wpc' = wpc
      BY <2>5 DEF AssignJob, Activated, InPools, bgVars
    <3>3. \A v \in Workers : v # picked[s] => jobSet'[v] = jobSet[v]
      BY <1>0, <2>5, <3>1 DEF AssignJob, SetJob, TypeOK
    <3>4. \A q \in Senders : q # s => picked'[q] = picked[q]
      BY <1>0, <2>5 DEF AssignJob, TypeOK
    <3> QED
      BY <1>0, <3>1, <3>2, <3>3, <3>4 DEF Owned
  <2>6. CASE LeaveOnMessage(s)
    <3>1. UNCHANGED <<picked, jobSet>> /\ InPools' = InPools
      BY <2>6 DEF LeaveOnMessage, listVars, bgVars, InPools
    <3>2. \A v \in Workers : v = s => wpc[v] = "sending"
      BY <1>0, <2>6 DEF LeaveOnMessage, SendingInside
    <3>3. \A v \in Workers : wpc'[v] = IF v = s THEN "exited" ELSE wpc[v]
      BY <2>6 DEF LeaveOnMessage
    <3> QED
      BY <1>1, <3>1, <3>2, <3>3
  <2> QED
    BY <1>3, <2>1, <2>2, <2>3, <2>4, <2>5, <2>6 DEF OnMessage
<1>4. CASE BackgroundThread
  <2>0. picked' = picked
    BY <1>4 DEF BackgroundThread, CheckLoop, SwapFinished, RequestLoopEnd, JoinWorker,
       JoinLoopEnd, Populate, PreSpin, LockPool, PostSpin, RequestWorker, ShutdownWorker, msgVars
  <2>1. CASE CheckLoop \/ RequestLoopEnd \/ PreSpin \/ LockPool \/ PostSpin
             \/ \E w \in Workers : ShutdownWorker(w)
    BY <1>1, <2>0, <2>1 DEF CheckLoop, RequestLoopEnd, PreSpin, LockPool, PostSpin, ShutdownWorker,
       listVars, workerVars, InPools
  <2>2. CASE JoinWorker
    <3>1. UNCHANGED jobSet /\ InPools' = InPools
      BY <2>2 DEF JoinWorker, listVars, InPools
    <3>2. joining \in Workers
      BY <1>0, <2>2 DEF JoinWorker, TypeOK
    <3> QED
      BY <1>0, <1>1, <2>0, <2>2, <3>1, <3>2 DEF JoinWorker, TypeOK
  <2>3. CASE SwapFinished
    <3>1. \A w \in tmp : wpc[w] = "joined"
      BY <1>0, <2>3 DEF SwapFinished, Batches
    <3>2. InPools' \subseteq InPools /\ \A w \in InPools : w \in InPools' \/ w \in tmp
      BY <2>3 DEF SwapFinished, InPools
    <3> QED
      BY <1>0, <2>0, <2>3, <3>1, <3>2 DEF SwapFinished, Owned, workerVars
  <2>4. CASE JoinLoopEnd
    <3>1. InPools' \subseteq InPools /\ UNCHANGED <<wpc, jobSet>>
      BY <2>4 DEF JoinLoopEnd, InPools, listVars, workerVars
    <3>2. \A w \in InPools : w \in InPools' \/ w \in Batch
      BY <2>4 DEF JoinLoopEnd, InPools, listVars, Batch
    <3>3. \A w \in Batch : wpc[w] = "joined"
      BY <1>0, <2>4 DEF JoinLoopEnd, Batches
    <3> QED
      BY <1>0, <2>0, <3>1, <3>2, <3>3 DEF Owned
  <2>5. CASE Populate
    <3> DEFINE new == workerID .. (workerID + SpawnNow - 1)
    <3>1. \A w \in Workers : wpc'[w] = IF w \in new THEN "waiting" ELSE wpc[w]
      BY <2>5 DEF Populate, SpawnWorkers
    <3>2. InPools' = InPools \cup new /\ jobSet' = jobSet
      BY <2>5 DEF Populate, InPools
    <3> HIDE DEF new
    <3> QED
      BY <1>0, <2>0, <3>1, <3>2 DEF Owned
  <2>6. ASSUME NEW w \in Workers, RequestWorker(w) PROVE Owned'
    <3>1. w \in InPools
      BY <1>0, <2>6 DEF RequestWorker, Batches, Batch, InPools, TypeOK, Pools
    <3>2. InPools' = InPools /\ wpc' = wpc
      BY <2>6 DEF RequestWorker, InPools, listVars
    <3>3. \A v \in Workers : v # w => jobSet'[v] = jobSet[v]
      BY <1>0, <2>6 DEF RequestWorker, SetJob, TypeOK
    <3> QED
      BY <1>0, <2>0, <3>1, <3>2, <3>3 DEF Owned
  <2> QED
    BY <1>4, <2>1, <2>2, <2>3, <2>4, <2>5, <2>6 DEF BackgroundThread
<1>5. CASE ListenerMessage \/ Startup \/ RequestShutdown \/ UNCHANGED vars
  BY <1>1, <1>5 DEF ListenerMessage, Startup, RequestShutdown, vars, listVars, bgVars, msgVars,
     workerVars, InPools
<1> QED
  BY <1>2, <1>3, <1>4, <1>5 DEF Next, Terminated

(* Until the shutdown loops begin, only AssignJob gives a worker a job.    *)
LEMMA ReadyStep == OwnInv /\ [Next]_vars => FreeIsReady'
<1> SUFFICES ASSUME OwnInv, [Next]_vars, ~PastPreSpin' PROVE \A w \in freeWorkers' : ~jobSet'[w]
  BY DEF FreeIsReady
<1>0. /\ TypeOK /\ SendingInside /\ Owned /\ Apart /\ PickedAlone /\ Handing
      /\ LoopOrder /\ FreeIsReady
      /\ dpc \in {"lock", "postSpin", "done"} => PastPreSpin
  BY DEF OwnInv, IInv, TypeInv, Batches, PastPreSpin
<1>1. ~PastPreSpin
  BY <1>0 DEF Next, WorkerThread, TakeJob, HandshakeDone, TunnelWrites, TunnelWritten, TunnelDone,
       FinishJob, WorkerMessage, OnMessage,
     CheckShutdown, SearchActive, MoveToFinished, PickFreeWorker, SpawnOneWorker, AssignJob, LeaveOnMessage,
     BackgroundThread, CheckLoop, SwapFinished, RequestLoopEnd, JoinWorker,
     JoinLoopEnd, Populate, PreSpin, LockPool, PostSpin, RequestWorker, ShutdownWorker, ListenerMessage,
     Startup, RequestShutdown, Terminated, vars, bgVars, PastPreSpin, LoopOrder
<1>2. \A w \in freeWorkers : ~jobSet[w]
  BY <1>0, <1>1 DEF FreeIsReady
<1>3. CASE \E s \in Senders : AssignJob(s)
  <2>1. PICK s \in Senders : AssignJob(s)
    BY <1>3
  <2>2. picked[s] \in Workers /\ picked[s] \notin freeWorkers
    BY <1>0, <2>1, Distinct DEF AssignJob, Handing, PickedAlone, InPools
  <2>3. \A v \in Workers : v # picked[s] => jobSet'[v] = jobSet[v]
    BY <1>0, <2>1, <2>2 DEF AssignJob, SetJob, TypeOK
  <2>4. freeWorkers' = freeWorkers /\ freeWorkers \subseteq Workers
    BY <1>0, <2>1 DEF AssignJob, TypeOK
  <2> QED
    BY <1>2, <2>2, <2>3, <2>4
<1>4. CASE Populate
  <2>1. \A w \in workerID .. (workerID + SpawnNow - 1) : w \in Workers => ~jobSet[w]
    BY <1>0, SpawnNowNat DEF SendingInside, TypeOK, Owned
  <2>2. freeWorkers' \subseteq Workers
    BY StepIInv DEF OwnInv, IInv, TypeInv, TypeOK
  <2>3. jobSet' = jobSet /\ freeWorkers' = freeWorkers \cup (workerID .. (workerID + SpawnNow - 1))
    BY <1>4 DEF Populate
  <2> QED
    BY <1>2, <2>1, <2>2, <2>3
<1>5. CASE ~Populate /\ ~\E s \in Senders : AssignJob(s)
  <2>1. jobSet' = jobSet /\ freeWorkers' \subseteq freeWorkers
    BY <1>1, <1>5 DEF Next, WorkerThread, TakeJob, HandshakeDone, TunnelWrites, TunnelWritten, TunnelDone,
         FinishJob, WorkerMessage, OnMessage,
     CheckShutdown, SearchActive, MoveToFinished, PickFreeWorker, PopBack, SpawnOneWorker, LeaveOnMessage,
     BackgroundThread, CheckLoop, SwapFinished, RequestLoopEnd, JoinWorker,
     JoinLoopEnd, PreSpin, LockPool, PostSpin, RequestWorker, ShutdownWorker, ListenerMessage,
     Startup, RequestShutdown, Terminated, vars, listVars, workerVars, PastPreSpin
  <2> QED
    BY <1>2, <2>1
<1> QED
  BY <1>3, <1>4, <1>5

(* SetJob and the insertion into activeWorkers are one step for everybody  *)
(* who could look, so no job ends before its worker is active.             *)
LEMMA BusyStep == OwnInv /\ [Next]_vars => BusyIsActive'
<1> SUFFICES ASSUME OwnInv, [Next]_vars, ~PastPreSpin' PROVE BusyIsActive'
  BY DEF BusyIsActive
<1>0. /\ TypeOK /\ SendingInside /\ Owned /\ PickedAlone /\ Handing
      /\ LoopOrder /\ BusyIsActive /\ FreeIsReady
      /\ dpc \in {"lock", "postSpin", "done"} => PastPreSpin
  BY DEF OwnInv, IInv, TypeInv, Batches, PastPreSpin
<1>1. ASSUME NEW w \in Workers, WorkerThread(w) PROVE BusyIsActive'
  BY <1>0, <1>1, Identities
     DEF WorkerThread, TakeJob, HandshakeDone, TunnelWrites, TunnelWritten, TunnelDone,
          FinishJob, WorkerMessage, TypeOK, BusyIsActive,
     PastPreSpin, bgVars, listVars, workerVars, msgVars, SendingInside
<1>2. ASSUME NEW s \in Senders, OnMessage(s) PROVE BusyIsActive'
  <2>0. ~PastPreSpin
    BY <1>2 DEF OnMessage, CheckShutdown, SearchActive, MoveToFinished, PickFreeWorker,
       SpawnOneWorker, AssignJob, LeaveOnMessage, bgVars, PastPreSpin
  <2>1. CASE CheckShutdown(s) \/ SearchActive(s) \/ PickFreeWorker(s)
    BY <1>0, <2>0, <2>1, Identities DEF CheckShutdown, AfterCheck, SearchActive, PickFreeWorker, TypeOK,
       BusyIsActive, listVars, workerVars, SendingInside
  <2>2. CASE MoveToFinished(s)
    BY <1>0, <2>0, <2>2, Identities DEF MoveToFinished, TypeOK, BusyIsActive, listVars, workerVars, SendingInside
  <2>3. CASE SpawnOneWorker(s)
    <3>1. workerID \in Workers /\ ~jobSet[workerID]
      BY <1>0, <2>3, Identities, ConstantsAssumption
         DEF SpawnOneWorker, SpawnWorkers, TypeOK, SendingInside, Owned
    <3>2. wpc' = [w \in Workers |-> IF w = workerID THEN "waiting" ELSE wpc[w]]
      BY <1>0, <2>3 DEF SpawnOneWorker, SpawnWorkers, TypeOK
    <3>3. UNCHANGED <<activeWorkers, jobSet>> /\ \A w \in Workers : w = s \/ opc'[w] = opc[w]
      BY <1>0, <2>3, Identities DEF SpawnOneWorker, TypeOK, listVars
    <3>4. opc'[s] = "assign"
      BY <1>0, <2>3 DEF SpawnOneWorker, TypeOK
    <3> QED
      BY <1>0, <2>0, <3>1, <3>2, <3>3, <3>4 DEF BusyIsActive
  <2>4. CASE AssignJob(s)
    <3>1. picked[s] \in Workers
      BY <1>0, <2>4 DEF AssignJob, Handing
    <3>2. \A v \in Workers : v # picked[s] => jobSet'[v] = jobSet[v]
      BY <1>0, <2>4, <3>1 DEF AssignJob, SetJob, TypeOK
    <3>3. wpc' = wpc /\ activeWorkers' = activeWorkers \cup {picked[s]} /\ opc'[s] = "create"
          /\ \A w \in Workers : w = s \/ opc'[w] = opc[w]
      BY <1>0, <2>4, Identities DEF AssignJob, Activated, TypeOK
    <3> QED
      BY <1>0, <2>0, <3>1, <3>2, <3>3 DEF BusyIsActive
  <2>5. CASE LeaveOnMessage(s)
    BY <1>0, <2>0, <2>5, Identities DEF LeaveOnMessage, TypeOK, BusyIsActive, listVars
  <2> QED
    BY <1>2, <2>1, <2>2, <2>3, <2>4, <2>5 DEF OnMessage
<1>3. CASE BackgroundThread
  <2>0. ~PastPreSpin
    BY <1>0, <1>3 DEF BackgroundThread, CheckLoop, SwapFinished, RequestLoopEnd, JoinWorker,
       JoinLoopEnd, Populate, PreSpin, LockPool, PostSpin, RequestWorker, ShutdownWorker, PastPreSpin, LoopOrder
  <2>1. UNCHANGED <<activeWorkers, jobSet, opc>>
    BY <1>0, <1>3, <2>0 DEF BackgroundThread, CheckLoop, SwapFinished, RequestLoopEnd, JoinWorker,
       JoinLoopEnd, Populate, PreSpin, LockPool, PostSpin, RequestWorker, ShutdownWorker, PastPreSpin,
       listVars, workerVars, msgVars
  <2>2. CASE Populate
    <3>1. \A w \in workerID .. (workerID + SpawnNow - 1) : w \in Workers => ~jobSet[w]
      BY <1>0, SpawnNowNat DEF SendingInside, TypeOK, Owned
    <3>2. \A w \in Workers : wpc'[w] = IF w \in workerID .. (workerID + SpawnNow - 1)
                                        THEN "waiting" ELSE wpc[w]
      BY <2>2 DEF Populate, SpawnWorkers
    <3> HIDE DEF SpawnNow
    <3> QED
      BY <1>0, <2>0, <2>1, <3>1, <3>2 DEF BusyIsActive
  <2>3. CASE ~Populate
    <3>1. \A w \in Workers : wpc'[w] \in {wpc[w], "joined"}
      BY <1>0, <1>3, <2>3 DEF BackgroundThread, CheckLoop, SwapFinished, RequestLoopEnd, JoinWorker,
         JoinLoopEnd, PreSpin, LockPool, PostSpin, RequestWorker, ShutdownWorker, workerVars, TypeOK
    <3> QED
      BY <1>0, <2>0, <2>1, <3>1 DEF BusyIsActive
  <2> QED
    BY <2>2, <2>3
<1>4. CASE ListenerMessage \/ Startup \/ RequestShutdown \/ UNCHANGED vars
  BY <1>0, <1>4, Identities DEF ListenerMessage, Startup, RequestShutdown, vars, listVars, bgVars, msgVars,
     workerVars, BusyIsActive, PastPreSpin, TypeOK
<1> QED
  BY <1>1, <1>2, <1>3, <1>4 DEF Next, Terminated

(* The loops join everything they walk over before it is dropped, and      *)
(* nothing is added to a collection behind them.                           *)
LEMMA BatchesStep == OwnInv /\ [Next]_vars => Batches'
<1> SUFFICES ASSUME OwnInv, [Next]_vars PROVE Batches'
  OBVIOUS
<1>0. /\ TypeOK /\ SendingInside /\ Handing /\ LoopOrder /\ Batches
      /\ PastPreSpin => \A s \in Senders : opc[s] \notin Inside
  BY DEF OwnInv, IInv, TypeInv, QuiescentShutdown
<1>1. ASSUME UNCHANGED bgVars, PastPreSpin => UNCHANGED listVars,
             \A w \in Workers : wpc[w] = "joined" => wpc'[w] = "joined"
      PROVE  Batches'
  <2>1. Batch' = Batch /\ (PastPreSpin' <=> PastPreSpin)
    BY <1>0, <1>1 DEF Batch, PastPreSpin, bgVars, listVars, TypeOK, Pools
  <2>2. Batch \subseteq Workers
    BY <1>0 DEF Batch, TypeOK, Pools
  <2>3. \A w \in Batch \ todo : wpc[w] = "joined" => wpc'[w] = "joined"
    BY <1>1, <2>2
  <2>4. \A w \in tmp : wpc[w] = "joined" => wpc'[w] = "joined"
    BY <1>0, <1>1 DEF TypeOK
  <2> QED
    BY <1>0, <1>1, <2>1, <2>3, <2>4 DEF Batches, PastPreSpin, bgVars, listVars
<1>2. ASSUME NEW w \in Workers, WorkerThread(w) PROVE Batches'
  <2>1. UNCHANGED <<bgVars, listVars>>
    BY <1>2 DEF WorkerThread, TakeJob, HandshakeDone, TunnelWrites, TunnelWritten, TunnelDone,
         FinishJob, WorkerMessage
  <2>2. \A v \in Workers : wpc[v] = "joined" => wpc'[v] = "joined"
    BY <1>0, <1>2 DEF WorkerThread, TakeJob, HandshakeDone, TunnelWrites, TunnelWritten, TunnelDone,
         FinishJob, WorkerMessage,
       workerVars, TypeOK
  <2> QED
    BY <1>1, <2>1, <2>2
<1>3. ASSUME NEW s \in Senders, OnMessage(s) PROVE Batches'
  <2>1. UNCHANGED bgVars
    BY <1>3 DEF OnMessage, CheckShutdown, SearchActive, MoveToFinished, PickFreeWorker,
       SpawnOneWorker, AssignJob, LeaveOnMessage
  <2>2. PastPreSpin => UNCHANGED listVars
    BY <1>0, <1>3 DEF OnMessage, CheckShutdown, SearchActive, MoveToFinished, PickFreeWorker,
       SpawnOneWorker, AssignJob, LeaveOnMessage, Inside
  <2>3. CASE LeaveOnMessage(s)
    <3>1. \A v \in Workers : v = s => wpc[v] = "sending"
      BY <1>0, <2>3 DEF LeaveOnMessage, SendingInside
    <3> QED
      BY <1>1, <2>1, <2>2, <2>3, <3>1 DEF LeaveOnMessage
  <2>4. CASE SpawnOneWorker(s)
    <3>1. \A v \in Workers : v \in workerID .. (workerID + 1 - 1) => wpc[v] = "none"
      BY <1>0 DEF TypeOK, SendingInside
    <3> QED
      BY <1>1, <2>1, <2>2, <2>4, <3>1 DEF SpawnOneWorker, SpawnWorkers
  <2>5. CASE ~LeaveOnMessage(s) /\ ~SpawnOneWorker(s)
    BY <1>1, <1>3, <2>1, <2>2, <2>5 DEF OnMessage, CheckShutdown, SearchActive, MoveToFinished, PickFreeWorker,
       AssignJob, workerVars
  <2> QED
    BY <2>3, <2>4, <2>5
<1>4. CASE BackgroundThread
  <2>1. CASE CheckLoop
    BY <1>0, <2>1 DEF CheckLoop, Batches, Batch, PastPreSpin, LoopOrder, listVars, workerVars
  <2>2. CASE SwapFinished
    BY <1>0, <2>2 DEF SwapFinished, Batches, Batch, PastPreSpin, LoopOrder, workerVars
  <2>3. CASE RequestLoopEnd
    BY <1>0, <2>3 DEF RequestLoopEnd, Batches, Batch, PastPreSpin, listVars, workerVars, Pools, TypeOK
  <2>4. CASE JoinWorker
    <3>1. joining \in Workers /\ joining # Nobody /\ dpc = "join" /\ joining \in todo
      BY <1>0, <2>4 DEF JoinWorker, Batches, TypeOK
    <3>2. \A w \in Workers : wpc'[w] = IF w = joining THEN "joined" ELSE wpc[w]
      BY <1>0, <2>4, <3>1 DEF JoinWorker, TypeOK
    <3>3. Batch' = Batch /\ Batch \subseteq Workers
      BY <1>0, <2>4 DEF JoinWorker, Batch, TypeOK, Pools, listVars
    <3> QED
      BY <1>0, <2>4, <3>1, <3>2, <3>3 DEF JoinWorker, Batches, PastPreSpin, listVars, TypeOK
  <2>5. CASE JoinLoopEnd
    <3>1. CASE pool = "tmp"
      BY <1>0, <2>5, <3>1 DEF JoinLoopEnd, Batches, Batch, PastPreSpin, listVars, workerVars
    <3>2. CASE pool # "tmp"
      BY <1>0, <2>5, <3>2 DEF JoinLoopEnd, Batches, PastPreSpin, workerVars
    <3> QED
      BY <3>1, <3>2
  <2>6. CASE Populate
    <3>1. dpc = "populate" /\ pool = "tmp" /\ joining = Nobody
      BY <1>0, <2>6 DEF Populate, LoopOrder, Batches
    <3>2. \A w \in tmp : wpc'[w] = "joined"
      <4>1. \A v \in Workers : v \in workerID .. (workerID + SpawnNow - 1) => wpc[v] = "none"
        BY <1>0, SpawnNowNat DEF TypeOK, SendingInside
      <4>2. \A w \in tmp : w \in Workers /\ wpc[w] = "joined"
        BY <1>0, <3>1 DEF Batches, TypeOK
      <4>3. \A v \in Workers : wpc[v] = "joined" => wpc'[v] = "joined"
        BY <2>6, <4>1 DEF Populate, SpawnWorkers
      <4> QED
        BY <4>2, <4>3
    <3> QED
      BY <2>6, <3>1, <3>2 DEF Populate, Batches, PastPreSpin
  <2>7. CASE PreSpin
    BY <1>0, <2>7 DEF PreSpin, Batches, PastPreSpin, LoopOrder, listVars, workerVars
  <2>8. CASE LockPool
    BY <1>0, <2>8 DEF LockPool, Batches, Batch, PastPreSpin, listVars, workerVars, TypeOK, Pools
  <2>9. CASE PostSpin
    BY <1>0, <2>9 DEF PostSpin, Batches, PastPreSpin, listVars, workerVars
  <2>10. ASSUME NEW w \in Workers, RequestWorker(w) \/ ShutdownWorker(w) PROVE Batches'
    <3>1. Batch' = Batch
      BY <1>0, <2>10 DEF RequestWorker, ShutdownWorker, Batch, TypeOK, Pools, listVars
    <3> QED
      BY <1>0, <2>10, <3>1, Distinct DEF RequestWorker, ShutdownWorker, Batches, PastPreSpin, listVars
  <2> QED
    BY <1>4, <2>1, <2>2, <2>3, <2>4, <2>5, <2>6, <2>7, <2>8, <2>9, <2>10 DEF BackgroundThread
<1>5. CASE Startup
  BY <1>0, <1>5 DEF Startup, Batches, Batch, PastPreSpin, LoopOrder, listVars, workerVars
<1>6. CASE ListenerMessage \/ RequestShutdown \/ UNCHANGED vars
  BY <1>1, <1>6 DEF ListenerMessage, RequestShutdown, vars, workerVars
<1> QED
  BY <1>2, <1>3, <1>4, <1>5, <1>6 DEF Next, Terminated

(* Only the top-up adds to freeWorkers, and never beyond the -wc.          *)
LEMMA PoolBoundStep == OwnInv /\ [Next]_vars => PoolBound'
<1> SUFFICES ASSUME OwnInv, [Next]_vars PROVE PoolBound'
  OBVIOUS
<1>0. TypeOK /\ PoolBound /\ IsFiniteSet(freeWorkers) /\ Cardinality(freeWorkers) \in Nat
  BY Identities, FS_Subset, FS_CardinalityType DEF OwnInv, IInv, TypeInv, TypeOK
<1>1. ASSUME freeWorkers' \subseteq freeWorkers PROVE PoolBound'
  <2>1. Cardinality(freeWorkers') <= Cardinality(freeWorkers) /\ Cardinality(freeWorkers') \in Nat
    BY <1>0, <1>1, FS_Subset, FS_CardinalityType
  <2> QED
    BY <1>0, <2>1, ConstantsAssumption DEF PoolBound
<1>2. CASE Populate
  <2> DEFINE n == SpawnNow
             new == workerID .. (workerID + n - 1)
  <2>1. n \in Nat /\ workerID \in Int
    BY <1>0, SpawnNowNat DEF TypeOK
  <2>2. n = 0 \/ n <= WorkersCount - Cardinality(freeWorkers)
    BY <1>0, ConstantsAssumption DEF SpawnNow
  <2>3. freeWorkers' = freeWorkers \cup new
    BY <1>2 DEF Populate
  <2> HIDE DEF n
  <2>4. IsFiniteSet(new) /\ Cardinality(new) = n
    BY <2>1, FS_Interval
  <2>5. IsFiniteSet(freeWorkers \cap new)
    BY <1>0, FS_Subset
  <2> HIDE DEF new
  <2>6. Cardinality(freeWorkers') = Cardinality(freeWorkers) + n - Cardinality(freeWorkers \cap new)
    BY <1>0, <2>3, <2>4, FS_Union
  <2>7. Cardinality(freeWorkers \cap new) \in Nat
    BY <2>5, FS_CardinalityType
  <2> QED
    BY <1>0, <2>1, <2>2, <2>6, <2>7, ConstantsAssumption DEF PoolBound
<1>3. CASE ~Populate
  <2>1. freeWorkers' \subseteq freeWorkers
    BY <1>3 DEF Next, WorkerThread, TakeJob, HandshakeDone, TunnelWrites, TunnelWritten, TunnelDone,
         FinishJob, WorkerMessage, OnMessage,
     CheckShutdown, SearchActive, MoveToFinished, PickFreeWorker, PopBack, SpawnOneWorker, AssignJob, LeaveOnMessage,
     BackgroundThread, CheckLoop, SwapFinished, RequestLoopEnd, JoinWorker,
     JoinLoopEnd, PreSpin, LockPool, PostSpin, RequestWorker, ShutdownWorker, ListenerMessage,
     Startup, RequestShutdown, Terminated, vars, listVars
  <2> QED
    BY <1>1, <2>1
<1> QED
  BY <1>2, <1>3
-----------------------------------------------------------------------------
(* OwnInv is an inductive invariant of the dispatcher.                     *)
THEOREM OwnershipInductive == Spec => []OwnInv
<1>1. OwnInv /\ [Next]_vars => OwnInv'
  <2>1. OwnInv => IInv
    BY DEF OwnInv
  <2> QED
    BY <2>1, StepIInv, LocksStep, ApartStep, PickedStep, OwnedStep, ReadyStep, BusyStep, BatchesStep,
       PoolBoundStep DEF OwnInv
<1> QED
  BY <1>1, OwnInit, PTL DEF Spec

(* A worker thread that is not joined yet is in exactly one collection or  *)
(* in the hands of exactly one thread: neither leaked nor shared.          *)
THEOREM EveryWorkerHasOneOwner == Spec => []OneOwner
<1>1. OwnInv => OneOwner
  <2> SUFFICES ASSUME OwnInv, NEW w \in Workers, wpc[w] \notin {"none", "joined"}
               PROVE  Owners(w) = 1
    BY DEF OneOwner
  <2> DEFINE P == {p \in Pools : w \in Members(p)}
             S == {s \in Senders : picked[s] = w}
  <2>1. Owners(w) = Cardinality(P) + Cardinality(S)
    BY DEF Owners
  <2>2. \A s \in Senders : picked[s] = w => w \notin InPools /\ opc[s] = "assign"
    BY Distinct DEF OwnInv, PickedAlone
  <2>3. CASE w \in InPools
    <3>1. S = {}
      BY <2>2, <2>3
    <3>2. PICK p \in Pools : P = {p}
      BY <2>3 DEF OwnInv, Apart, InPools, Members, Pools
    <3>3. Cardinality(S) = 0
      BY <3>1, FS_EmptySet
    <3>4. Cardinality(P) = 1
      BY <3>2, FS_Singleton, Zenon
    <3> HIDE DEF P, S
    <3> QED
      BY <2>1, <3>3, <3>4
  <2>4. CASE w \notin InPools
    <3>1. P = {}
      BY <2>4 DEF InPools, Members, Pools
    <3>2. PICK s \in Senders : picked[s] = w
      BY <2>4 DEF OwnInv, Owned
    <3>3. \A q \in Senders : picked[q] = w => q = s
      BY <2>2, <3>2 DEF OwnInv, LocksHeld
    <3>4. S = {s}
      BY <3>2, <3>3
    <3>5. Cardinality(P) = 0
      BY <3>1, FS_EmptySet
    <3>6. Cardinality(S) = 1
      BY <3>4, FS_Singleton, Zenon
    <3> HIDE DEF P, S
    <3> QED
      BY <2>1, <3>5, <3>6
  <2> QED
    BY <2>3, <2>4
<1> QED
  BY <1>1, OwnershipInductive, PTL

(* SetJob never refuses the job of the worker it is called for.            *)
THEOREM NoJobIsRefused == Spec => []NoJobRefused
<1>1. OwnInv => NoJobRefused
  BY Distinct DEF OwnInv, PickedAlone, IInv, TypeInv, Handing, NoJobRefused
<1> QED
  BY <1>1, OwnershipInductive, PTL

(* OnMessage finds the worker that reports a result in activeWorkers.      *)
THEOREM ReporterIsFound == Spec => []ReporterIsActive
<1>1. OwnInv => ReporterIsActive
  BY Identities DEF OwnInv, BusyIsActive, IInv, TypeInv, SendingInside, QuiescentShutdown, Inside,
     ReporterIsActive
<1> QED
  BY <1>1, OwnershipInductive, PTL

(* freeWorkers never exceeds the -wc parameter.                            *)
THEOREM PoolIsBounded == Spec => []PoolBound
<1>1. OwnInv => PoolBound
  BY DEF OwnInv
<1> QED
  BY <1>1, OwnershipInductive, PTL

(* When the background thread returns, every worker thread is joined and   *)
(* no mutex is held.                                                       *)
THEOREM ExitIsClean == Spec => []CleanExit
<1>1. OwnInv => CleanExit
  <2> SUFFICES ASSUME OwnInv, dpc = "done"
               PROVE  /\ \A w \in Workers : wpc[w] \in {"none", "joined"}
                      /\ \A m \in Mutexes : lock[m] = Nobody
    BY DEF CleanExit
  <2>1. /\ pool = "finished" /\ freeWorkers = {} /\ activeWorkers = {} /\ finishedWorkers = {}
        /\ \A w \in tmp : wpc[w] = "joined"
    BY DEF OwnInv, Batches, PastPreSpin
  <2>2. \A s \in Senders : opc[s] \notin Inside
    BY <2>1 DEF OwnInv, IInv, QuiescentShutdown, PastPreSpin
  <2>3. \A s \in Senders : picked[s] = Nobody
    BY <2>2 DEF OwnInv, PickedAlone, Inside
  <2>4. \A w \in Workers : wpc[w] \in {"none", "joined"}
    BY <2>1, <2>3, Distinct DEF OwnInv, Owned, InPools
  <2>5. \A m \in Mutexes : lock[m] \in Senders \cup {Dispatcher, Nobody}
    BY DEF OwnInv, IInv, TypeInv, TypeOK
  <2>6. \A m \in Mutexes : lock[m] # Dispatcher /\ lock[m] \notin Senders
    BY <2>1, <2>2 DEF OwnInv, LocksHeld, Mutexes, Inside
  <2> QED
    BY <2>4, <2>5, <2>6
<1> QED
  BY <1>1, OwnershipInductive, PTL
=============================================================================
