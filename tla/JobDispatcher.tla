---------------------------- MODULE JobDispatcher ----------------------------
(***************************************************************************)
(* The worker pool of TinySox: JobDispatcher (its background thread, and   *)
(* OnMessage as run by the threads that deliver MSG_JOB_COMPLETE), the     *)
(* JobWorker threads it manages and the WorkerBase life cycle they share.  *)
(*                                                                         *)
(* One step is one access to shared state between two blocking points: a   *)
(* section that runs entirely under one mutex is one step, a section that  *)
(* asks for a second mutex while it holds the first is split there.  All   *)
(* atomics are used with their default, sequentially consistent, order.    *)
(*                                                                         *)
(* Abstracted: a job is its kind and what Execute may return for it (the   *)
(* number of jobs JobFactory builds from the result).  WorkerBase::Startup *)
(* of a new worker never returns false, and a std::thread that cannot be   *)
(* created ends the process by an uncaught exception, so the error exits   *)
(* behind _SpawnWorkers are unreachable and have no action.                *)
(***************************************************************************)
EXTENDS Integers, FiniteSets

CONSTANTS
  MaxWorkers,         (* bound: workers created in one run of the program  *)
  WorkersCount,       (* config.GetWorkersCount(), the -wc parameter       *)
  WorkersSpawnCount,  (* config.GetWorkersSpawnCount(), -ws                *)
  MaxClients          (* bound: connections the listener accepts           *)

ASSUME ConstantsAssumption ==
  /\ MaxWorkers \in Nat
  /\ WorkersCount \in Nat \ {0}
  /\ WorkersSpawnCount \in Nat \ {0}
  /\ MaxClients \in Nat

(* Workers are numbered in the order of their creation, as workerID does.  *)
Workers    == 0 .. (MaxWorkers - 1)
Listener   == -1
Dispatcher == -2
Nobody     == -3
Senders    == Workers \cup {Listener}
Mutexes    == {"free", "active", "dispose"}
Pools      == {"tmp", "free", "active", "finished"}

VARIABLES
  shutdownPending, msgProcCount, workerID,
  freeWorkers, activeWorkers, finishedWorkers,
  lock,      (* holder of freeLock, activeLock, disposeLock                *)
  tmp,       (* workers the background thread is disposing of              *)
  dpc,       (* where the background thread is                             *)
  pool,      (* the collection its RequestShutdown/Shutdown loops walk     *)
  todo,      (* what is left of that loop                                  *)
  joining,   (* the worker whose thread it is joining, or Nobody           *)
  wpc,       (* where each worker thread is                                *)
  jobSet, job,
  cancelled, (* Job_TCPTunnel::cancel of the worker's job                  *)
  opc,       (* where each thread is inside OnMessage                      *)
  left,      (* jobs still to be handed out by that OnMessage              *)
  picked,    (* the worker newInstance points to                           *)
  clients    (* connections accepted so far                                *)

flagVars   == <<shutdownPending, msgProcCount>>
listVars   == <<freeWorkers, activeWorkers, finishedWorkers>>
bgVars     == <<tmp, dpc, pool, todo, joining>>
workerVars == <<wpc, jobSet, job, cancelled>>
msgVars    == <<opc, left, picked, clients>>
vars == <<flagVars, workerID, listVars, lock, bgVars, workerVars, msgVars>>

(* Locations of a thread inside OnMessageInternal, after its check.        *)
Inside == {"search", "move", "create", "assign"}
(* The background thread has left its main loop and seen no message.       *)
PastPreSpin == pool # "tmp"

TypeOK ==
  /\ shutdownPending \in BOOLEAN
  /\ msgProcCount \in Int
  /\ workerID \in 0 .. MaxWorkers
  /\ freeWorkers \in SUBSET Workers
  /\ activeWorkers \in SUBSET Workers
  /\ finishedWorkers \in SUBSET Workers
  /\ lock \in [Mutexes -> Senders \cup {Dispatcher, Nobody}]
  /\ tmp \in SUBSET Workers
  /\ dpc \in {"init", "check", "swap", "request", "join", "populate",
              "preSpin", "lock", "postSpin", "done"}
  /\ pool \in Pools
  /\ todo \in SUBSET Workers
  /\ joining \in Workers \cup {Nobody}
  /\ wpc \in [Workers -> {"none", "waiting", "running", "writing", "sending", "exited", "joined"}]
  /\ jobSet \in [Workers -> BOOLEAN]
  /\ job \in [Workers -> {"none", "handshake", "tunnel"}]
  /\ cancelled \in [Workers -> BOOLEAN]
  /\ opc \in [Senders -> {"idle", "entered", "leave"} \cup Inside]
  /\ left \in [Senders -> 0 .. 2]
  /\ picked \in [Senders -> Workers \cup {Nobody}]
  /\ clients \in 0 .. MaxClients

Init ==
  /\ shutdownPending = FALSE
  /\ msgProcCount = 0
  /\ workerID = 0
  /\ freeWorkers = {} /\ activeWorkers = {} /\ finishedWorkers = {}
  /\ lock = [m \in Mutexes |-> Nobody]
  /\ tmp = {} /\ dpc = "init" /\ pool = "tmp" /\ todo = {} /\ joining = Nobody
  /\ wpc = [w \in Workers |-> "none"]
  /\ jobSet = [w \in Workers |-> FALSE]
  /\ job = [w \in Workers |-> "none"]
  /\ cancelled = [w \in Workers |-> FALSE]
  /\ opc = [s \in Senders |-> "idle"]
  /\ left = [s \in Senders |-> 0]
  /\ picked = [s \in Senders |-> Nobody]
  /\ clients = 0
-----------------------------------------------------------------------------
(* WorkerBase and JobWorker                                                *)

(* Startup of n new workers: their threads begin and wait for a job.       *)
SpawnWorkers(n) ==
  /\ workerID + n <= MaxWorkers
  /\ workerID' = workerID + n
  /\ wpc' = [w \in Workers |->
               IF w \in workerID .. (workerID + n - 1) THEN "waiting" ELSE wpc[w]]

(* SetJob: a second job for the same worker is refused.                    *)
SetJob(w, j) ==
  IF jobSet[w]
    THEN UNCHANGED <<jobSet, job>>
    ELSE /\ jobSet' = [jobSet EXCEPT ![w] = TRUE]
         /\ job' = [job EXCEPT ![w] = j]

(* OnShutdown after a (possible) SetJob: Cancel of the current job.  A     *)
(* handshake ignores Cancel, a tunnel raises its flag.                     *)
OnShutdownNoCancel(w) == UNCHANGED cancelled

OnShutdown(w) ==
  cancelled' = [cancelled EXCEPT ![w] = @ \/ (jobSet'[w] /\ job'[w] = "tunnel")]

(* Worker: a job has been set; an empty one ends the thread.               *)
TakeJob(w) ==
  /\ wpc[w] = "waiting"
  /\ jobSet[w]
  /\ wpc' = [wpc EXCEPT ![w] = IF job[w] = "none" THEN "exited" ELSE "running"]
  /\ UNCHANGED <<flagVars, workerID, listVars, lock, bgVars, jobSet, job, cancelled, msgVars>>

(* Execute returned a result from which n jobs will be made; job=nullptr.  *)
FinishJob(w, n) ==
  /\ wpc' = [wpc EXCEPT ![w] = "sending"]
  /\ job' = [job EXCEPT ![w] = "none"]
  /\ left' = [left EXCEPT ![w] = n]
  /\ UNCHANGED <<flagVars, workerID, listVars, lock, bgVars, jobSet, cancelled,
                 opc, picked, clients>>

(* JobFactory::CreateJobsFromResult by the kind of the job that ended:     *)
(* JR_TERMINAL makes no job, JR_CLIENT_MODE_CONNECT makes two tunnels.     *)
JobsMadeThird(j) == IF j = "handshake" THEN {0, 3} ELSE {0}

JobsMade(j) == IF j = "handshake" THEN {0, 2} ELSE {0}

HandshakeDone(w) ==
  /\ wpc[w] = "running" /\ job[w] = "handshake"
  /\ \E n \in JobsMade("handshake") : FinishJob(w, n)

(* A tunnel read something and is in its write loop ...                    *)
TunnelWrites(w) ==
  /\ wpc[w] = "running" /\ job[w] = "tunnel"
  /\ wpc' = [wpc EXCEPT ![w] = "writing"]
  /\ UNCHANGED <<flagVars, workerID, listVars, lock, bgVars, jobSet, job, cancelled, msgVars>>

(* ... which does not look at the flag: only after it does the main loop.  *)
TunnelWritten(w) ==
  /\ wpc[w] = "writing"
  /\ ~cancelled[w]
  /\ wpc' = [wpc EXCEPT ![w] = "running"]
  /\ UNCHANGED <<flagVars, workerID, listVars, lock, bgVars, jobSet, job, cancelled, msgVars>>

(* The flag is seen, or one of the two sockets has failed or ended.        *)
TunnelDone(w) ==
  /\ wpc[w] \in {"running", "writing"} /\ job[w] = "tunnel"
  /\ \E n \in JobsMade("tunnel") : FinishJob(w, n)
-----------------------------------------------------------------------------
(* JobDispatcher::OnMessage, run by the thread that sends the message      *)

(* msgProcCount.fetch_add(1): by a worker with its result ...              *)
WorkerMessage(w) ==
  /\ wpc[w] = "sending" /\ opc[w] = "idle"
  /\ msgProcCount' = msgProcCount + 1
  /\ opc' = [opc EXCEPT ![w] = "entered"]
  /\ UNCHANGED <<shutdownPending, workerID, listVars, lock, bgVars, workerVars,
                 left, picked, clients>>

(* ... or by the listener for a new client (one handshake job).            *)
ListenerMessage ==
  /\ clients < MaxClients
  /\ opc[Listener] = "idle"
  /\ msgProcCount' = msgProcCount + 1
  /\ opc' = [opc EXCEPT ![Listener] = "entered"]
  /\ left' = [left EXCEPT ![Listener] = 1]
  /\ clients' = clients + 1
  /\ UNCHANGED <<shutdownPending, workerID, listVars, lock, bgVars, workerVars, picked>>

(* "stop creating new jobs and messing with the locks if shuting down"     *)
MustReturnNever == FALSE

MustReturn == shutdownPending

AfterCheckWaits == IF MustReturn THEN "entered" ELSE "search"

AfterCheck == IF MustReturn THEN "leave" ELSE "search"

CheckShutdown(s) ==
  /\ opc[s] = "entered"
  /\ opc' = [opc EXCEPT ![s] = AfterCheck]
  /\ UNCHANGED <<flagVars, workerID, listVars, lock, bgVars, workerVars,
                 left, picked, clients>>

(* Search activeWorkers for the sender; activeLock is kept if it is there. *)
SearchActive(s) ==
  /\ opc[s] = "search"
  /\ lock["active"] = Nobody
  /\ IF s \in activeWorkers
       THEN /\ lock' = [lock EXCEPT !["active"] = s]
            /\ opc' = [opc EXCEPT ![s] = "move"]
       ELSE /\ opc' = [opc EXCEPT ![s] = "create"]
            /\ UNCHANGED lock
  /\ UNCHANGED <<flagVars, workerID, listVars, bgVars, workerVars, left, picked, clients>>

(* Under disposeLock as well: from activeWorkers to finishedWorkers.       *)
MoveToFinished(s) ==
  /\ opc[s] = "move"
  /\ lock["dispose"] = Nobody
  /\ finishedWorkers' = finishedWorkers \cup {s}
  /\ activeWorkers' = activeWorkers \ {s}
  /\ lock' = [lock EXCEPT !["active"] = Nobody]
  /\ opc' = [opc EXCEPT ![s] = "create"]
  /\ UNCHANGED <<flagVars, workerID, freeWorkers, bgVars, workerVars, left, picked, clients>>

(* freeWorkers.pop_back() when w is its back.                              *)
PopBackKeeps(w) == freeWorkers

PopBack(w) == freeWorkers \ {w}

(* _CreateWorkerInstance under freeLock.  Numbers only grow, so the back   *)
(* of freeWorkers is its largest member.                                   *)
PickFreeWorker(s) ==
  /\ opc[s] = "create" /\ left[s] > 0
  /\ lock["free"] = Nobody
  /\ \E w \in freeWorkers :
       /\ \A v \in freeWorkers : v <= w
       /\ freeWorkers' = PopBack(w)
       /\ picked' = [picked EXCEPT ![s] = w]
  /\ lock' = [lock EXCEPT !["free"] = s]
  /\ opc' = [opc EXCEPT ![s] = "assign"]
  /\ UNCHANGED <<flagVars, workerID, activeWorkers, finishedWorkers, bgVars, workerVars,
                 left, clients>>

SpawnOneWorker(s) ==
  /\ opc[s] = "create" /\ left[s] > 0
  /\ lock["free"] = Nobody
  /\ freeWorkers = {}
  /\ SpawnWorkers(1)
  /\ picked' = [picked EXCEPT ![s] = workerID]
  /\ lock' = [lock EXCEPT !["free"] = s]
  /\ opc' = [opc EXCEPT ![s] = "assign"]
  /\ UNCHANGED <<flagVars, listVars, bgVars, jobSet, job, cancelled, left, clients>>

(* activeWorkers.insert                                                    *)
ActivatedForgets(w) == activeWorkers

Activated(w) == activeWorkers \cup {w}

(* Under activeLock as well: insert into activeWorkers, then SetJob.       *)
AssignJob(s) ==
  /\ opc[s] = "assign"
  /\ lock["active"] = Nobody
  /\ activeWorkers' = Activated(picked[s])
  /\ SetJob(picked[s], IF s = Listener THEN "handshake" ELSE "tunnel")
  /\ left' = [left EXCEPT ![s] = @ - 1]
  /\ picked' = [picked EXCEPT ![s] = Nobody]
  /\ lock' = [lock EXCEPT !["free"] = Nobody]
  /\ opc' = [opc EXCEPT ![s] = "create"]
  /\ UNCHANGED <<flagVars, workerID, freeWorkers, finishedWorkers, bgVars, wpc, cancelled, clients>>

(* msgProcCount.fetch_sub(1); after it a worker's thread function returns. *)
LeaveOnMessage(s) ==
  /\ opc[s] = "leave" \/ (opc[s] = "create" /\ left[s] = 0)
  /\ msgProcCount' = msgProcCount - 1
  /\ opc' = [opc EXCEPT ![s] = "idle"]
  /\ left' = [left EXCEPT ![s] = 0]
  /\ wpc' = [w \in Workers |-> IF w = s THEN "exited" ELSE wpc[w]]
  /\ UNCHANGED <<shutdownPending, workerID, listVars, lock, bgVars, jobSet, job, cancelled,
                 picked, clients>>
-----------------------------------------------------------------------------
(* JobDispatcher::Worker, the background thread                            *)

(* jobDispatcher.Startup() by the main thread.                             *)
Startup ==
  /\ dpc = "init"
  /\ dpc' = "check"
  /\ UNCHANGED <<flagVars, workerID, listVars, lock, tmp, pool, todo, joining, workerVars, msgVars>>

(* jobDispatcher.RequestShutdown() by the main thread, after Startup.      *)
RequestShutdown ==
  /\ dpc # "init"
  /\ ~shutdownPending
  /\ shutdownPending' = TRUE
  /\ UNCHANGED <<msgProcCount, workerID, listVars, lock, bgVars, workerVars, msgVars>>

CheckLoop ==
  /\ dpc = "check"
  /\ dpc' = IF shutdownPending THEN "preSpin" ELSE "swap"
  /\ UNCHANGED <<flagVars, workerID, listVars, lock, tmp, pool, todo, joining, workerVars, msgVars>>

(* Under disposeLock: take over the finished workers.                      *)
SwapFinishedNoClear ==
  /\ dpc = "swap"
  /\ lock["dispose"] = Nobody
  /\ tmp' = finishedWorkers
  /\ todo' = finishedWorkers
  /\ pool' = "tmp"
  /\ dpc' = "request"
  /\ UNCHANGED <<flagVars, workerID, listVars, lock, joining, workerVars, msgVars>>

SwapFinished ==
  /\ dpc = "swap"
  /\ lock["dispose"] = Nobody
  /\ tmp' = finishedWorkers
  /\ finishedWorkers' = {}
  /\ todo' = finishedWorkers
  /\ pool' = "tmp"
  /\ dpc' = "request"
  /\ UNCHANGED <<flagVars, workerID, freeWorkers, activeWorkers, lock, joining, workerVars, msgVars>>

(* What the current pair of loops walks over.                              *)
BatchSkipsFinished ==
  CASE pool = "tmp" -> tmp [] pool = "free" -> freeWorkers
    [] pool = "active" -> activeWorkers [] pool = "finished" -> {}

Batch ==
  CASE pool = "tmp" -> tmp
    [] pool = "free" -> freeWorkers
    [] pool = "active" -> activeWorkers
    [] pool = "finished" -> finishedWorkers

(* First loop: RequestShutdown; a free worker gets an empty job before it. *)
RequestWorker(w) ==
  /\ dpc = "request"
  /\ w \in todo
  /\ todo' = todo \ {w}
  /\ IF pool = "free" THEN SetJob(w, "none") ELSE UNCHANGED <<jobSet, job>>
  /\ OnShutdown(w)
  /\ UNCHANGED <<flagVars, workerID, listVars, lock, tmp, dpc, pool, joining, wpc, msgVars>>

RequestLoopEnd ==
  /\ dpc = "request"
  /\ todo = {}
  /\ todo' = Batch
  /\ dpc' = "join"
  /\ UNCHANGED <<flagVars, workerID, listVars, lock, tmp, pool, joining, workerVars, msgVars>>

(* Second loop: Shutdown, that is OnShutdown and then join.                *)
ShutdownWorker(w) ==
  /\ dpc = "join"
  /\ joining = Nobody
  /\ w \in todo
  /\ joining' = w
  /\ UNCHANGED <<jobSet, job>>
  /\ OnShutdown(w)
  /\ UNCHANGED <<flagVars, workerID, listVars, lock, tmp, dpc, pool, todo, wpc, msgVars>>

JoinWorker ==
  /\ joining # Nobody
  /\ wpc[joining] = "exited"
  /\ wpc' = [wpc EXCEPT ![joining] = "joined"]
  /\ todo' = todo \ {joining}
  /\ joining' = Nobody
  /\ UNCHANGED <<flagVars, workerID, listVars, lock, tmp, dpc, pool, jobSet, job, cancelled, msgVars>>

(* The loops over tmp are followed by the top-up of the pool, each of the  *)
(* loops of the shutdown by clear(), unlock and the next collection.       *)
JoinLoopEnd ==
  /\ dpc = "join" /\ joining = Nobody /\ todo = {}
  /\ \/ /\ pool = "tmp"
        /\ dpc' = "populate"
        /\ UNCHANGED <<listVars, lock, pool>>
     \/ /\ pool = "free"
        /\ freeWorkers' = {}
        /\ lock' = [lock EXCEPT !["free"] = Nobody]
        /\ pool' = "active" /\ dpc' = "lock"
        /\ UNCHANGED <<activeWorkers, finishedWorkers>>
     \/ /\ pool = "active"
        /\ activeWorkers' = {}
        /\ lock' = [lock EXCEPT !["active"] = Nobody]
        /\ pool' = "finished" /\ dpc' = "lock"
        /\ UNCHANGED <<freeWorkers, finishedWorkers>>
     \/ /\ pool = "finished"
        /\ finishedWorkers' = {}
        /\ lock' = [lock EXCEPT !["dispose"] = Nobody]
        /\ dpc' = "postSpin"
        /\ UNCHANGED <<freeWorkers, activeWorkers, pool>>
  /\ UNCHANGED <<flagVars, workerID, tmp, todo, joining, workerVars, msgVars>>

(* How many workers one round adds.                                        *)
SpawnNowUnchecked == WorkersSpawnCount

SpawnNow ==
  LET missing == WorkersCount - Cardinality(freeWorkers)
  IN  IF missing <= 0 THEN 0
      ELSE IF missing > WorkersSpawnCount THEN WorkersSpawnCount ELSE missing

(* Under freeLock: populate the pool; then sleep and go round again.       *)
Populate ==
  /\ dpc = "populate"
  /\ lock["free"] = Nobody
  /\ SpawnWorkers(SpawnNow)
  /\ freeWorkers' = freeWorkers \cup (workerID .. (workerID + SpawnNow - 1))
  /\ dpc' = "check"
  /\ UNCHANGED <<flagVars, activeWorkers, finishedWorkers, lock, tmp, pool, todo, joining,
                 jobSet, job, cancelled, msgVars>>

(* "spin until no workers processing messages" (pre)                       *)
NoMessageInProgressSkipped == TRUE

NoMessageInProgress == msgProcCount <= 0

PreSpin ==
  /\ dpc = "preSpin"
  /\ NoMessageInProgress
  /\ pool' = "free" /\ dpc' = "lock"
  /\ UNCHANGED <<flagVars, workerID, listVars, lock, tmp, todo, joining, workerVars, msgVars>>

MutexOf == [p \in Pools |-> IF p \in {"tmp", "finished"} THEN "dispose" ELSE p]

(* The scoped lock in front of each pair of shutdown loops.                *)
LockPool ==
  /\ dpc = "lock"
  /\ lock[MutexOf[pool]] = Nobody
  /\ lock' = [lock EXCEPT ![MutexOf[pool]] = Dispatcher]
  /\ todo' = Batch
  /\ dpc' = "request"
  /\ UNCHANGED <<flagVars, workerID, listVars, tmp, pool, joining, workerVars, msgVars>>

(* "spin until no workers processing messages" (post); Worker returns.     *)
PostSpin ==
  /\ dpc = "postSpin"
  /\ msgProcCount <= 0
  /\ dpc' = "done"
  /\ UNCHANGED <<flagVars, workerID, listVars, lock, tmp, pool, todo, joining, workerVars, msgVars>>

(* Main has joined the dispatcher and nothing is left to do.               *)
Terminated ==
  /\ dpc = "done"
  /\ clients = MaxClients
  /\ opc[Listener] = "idle"
  /\ UNCHANGED vars
-----------------------------------------------------------------------------
WorkerThread(w) ==
  \/ TakeJob(w) \/ HandshakeDone(w) \/ WorkerMessage(w)
  \/ TunnelWrites(w) \/ TunnelWritten(w) \/ TunnelDone(w)

OnMessage(s) ==
  \/ CheckShutdown(s) \/ SearchActive(s) \/ MoveToFinished(s)
  \/ PickFreeWorker(s) \/ SpawnOneWorker(s) \/ AssignJob(s) \/ LeaveOnMessage(s)

BackgroundThread ==
  \/ CheckLoop \/ SwapFinished \/ RequestLoopEnd \/ JoinWorker \/ JoinLoopEnd
  \/ Populate \/ PreSpin \/ LockPool \/ PostSpin
  \/ \E w \in Workers : RequestWorker(w) \/ ShutdownWorker(w)

Next ==
  \/ \E w \in Workers : WorkerThread(w)
  \/ \E s \in Senders : OnMessage(s)
  \/ BackgroundThread
  \/ ListenerMessage \/ Startup \/ RequestShutdown \/ Terminated

Spec == Init /\ [][Next]_vars

(* Every thread keeps running.  A handshake always ends (its transfers,    *)
(* lookups and connects have timeouts).  A tunnel may run for as long as   *)
(* its peers like; cancelled, it ends if it is reading, since a read times *)
(* out and the main loop looks at the flag.  A write need never end: its   *)
(* loop does not look.  Main starts the dispatcher; a shutdown and new     *)
(* connections need not happen.                                            *)
Fairness ==
  /\ \A w \in Workers :
       /\ WF_vars(TakeJob(w) \/ HandshakeDone(w) \/ WorkerMessage(w))
       /\ WF_vars(cancelled[w] /\ wpc[w] = "running" /\ TunnelDone(w))
  /\ \A s \in Senders : WF_vars(OnMessage(s))
  /\ WF_vars(BackgroundThread)
  /\ WF_vars(Startup)

FairSpec == Spec /\ Fairness
-----------------------------------------------------------------------------
(* Correctness                                                             *)

(* Once the first spin of the shutdown is over, no thread is past the      *)
(* check of OnMessageInternal: "any worker that start processing message   *)
(* at this moment should be aware of shutdownPending value".               *)
QuiescentShutdown == PastPreSpin => \A s \in Senders : opc[s] \notin Inside

(* From then on no worker is created and no worker is given a real job:    *)
(* "so it will not spawn any new workers".                                 *)
NoNewWorkInShutdown ==
  [][PastPreSpin => /\ workerID' = workerID
                    /\ \A w \in Workers : job'[w] \in {job[w], "none"}]_vars

(* Who owns a worker: the four collections and the threads that have taken *)
(* it from freeWorkers.                                                    *)
Members(p) ==
  CASE p = "tmp" -> tmp [] p = "free" -> freeWorkers
    [] p = "active" -> activeWorkers [] p = "finished" -> finishedWorkers

Owners(w) ==
  Cardinality({p \in Pools : w \in Members(p)}) + Cardinality({s \in Senders : picked[s] = w})

(* A worker whose thread is not joined yet has exactly one owner, so it is *)
(* neither leaked nor shut down from two places.                           *)
OneOwner == \A w \in Workers : wpc[w] \notin {"none", "joined"} => Owners(w) = 1

(* The result of SetJob is ignored by the dispatcher, so a worker chosen   *)
(* for a job must not have one already: the job would be lost in silence.  *)
NoJobRefused == \A s \in Senders : opc[s] = "assign" => ~jobSet[picked[s]]

(* A worker that reports its result is found in activeWorkers, however     *)
(* quickly its job ends after SetJob; otherwise it would never be joined.  *)
ReporterIsActive == \A w \in Workers : opc[w] \in {"search", "move"} => w \in activeWorkers

(* freeWorkers never exceeds -wc, the "maximum workers count awailable for *)
(* use immediately", although two kinds of threads add to it.              *)
PoolBound == Cardinality(freeWorkers) <= WorkersCount

(* When the background thread returns, every worker thread is joined and   *)
(* every mutex released: destroying a joinable std::thread would abort.    *)
CleanExit ==
  dpc = "done" => /\ \A w \in Workers : wpc[w] \in {"none", "joined"}
                  /\ \A m \in Mutexes : lock[m] = Nobody

(* No write loop of a tunnel lasts for ever.  That is not this module's to *)
(* promise: a stalled loop ends when TCPCommService cancels both sockets   *)
(* (EndsWhenCancelled of TCPTunnel, CancelReachesHandlers of CommService), *)
(* which it does in every shutdown unless its own thread has failed.       *)
WritesEnd == \A w \in Workers : []<>(wpc[w] # "writing")

(* If so, a requested shutdown completes, although tunnels wait for data   *)
(* until their flag is raised and idle workers wait for a job.             *)
ShutdownCompletes == WritesEnd => (shutdownPending ~> dpc = "done")

(* A thread that ended is joined, in normal operation and, if no write is  *)
(* stuck in front of it in the loops that join, in a shutdown.             *)
EndedIsJoined == WritesEnd => \A w \in Workers : wpc[w] = "exited" ~> wpc[w] = "joined"

(* No thread is stuck in OnMessage, whatever it meets on the three locks.  *)
MessageHandled == \A s \in Senders : opc[s] = "entered" ~> opc[s] = "idle"
=============================================================================
