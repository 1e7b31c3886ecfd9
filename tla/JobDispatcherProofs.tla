------------------------- MODULE JobDispatcherProofs -------------------------
(***************************************************************************)
(* Theorems about JobDispatcher for every number of workers, every pool    *)
(* size and every number of clients.                                       *)
(***************************************************************************)
EXTENDS JobDispatcher, FiniteSetTheorems, TLAPS

(* What a thread inside OnMessage knows: a worker is ready for the job it  *)
(* is about to assign, and only workers are found in activeWorkers.        *)
Handing ==
  \A s \in Senders : /\ opc[s] = "assign" => left[s] > 0 /\ picked[s] \in Workers
                     /\ opc[s] = "move" => s \in Workers

(* A worker is inside OnMessage only while it delivers its result, and the *)
(* threads of the workers not created yet have not begun.                  *)
SendingInside ==
  \A w \in Workers : /\ opc[w] # "idle" => wpc[w] = "sending"
                     /\ w >= workerID => wpc[w] = "none"

TypeInv == TypeOK /\ Handing /\ SendingInside

(* msgProcCount counts the threads between fetch_add and fetch_sub.        *)
InMessage == {s \in Senders : opc[s] # "idle"}

Counted == msgProcCount = Cardinality(InMessage)

(* The background thread walks tmp until it leaves its main loop, and it   *)
(* leaves the loop only when the shutdown is pending.                      *)
LoopOrder ==
  /\ dpc \in {"init", "check", "swap", "populate", "preSpin"} => pool = "tmp"
  /\ dpc = "preSpin" \/ PastPreSpin => shutdownPending

IInv == TypeInv /\ Counted /\ LoopOrder /\ QuiescentShutdown
-----------------------------------------------------------------------------
(* Type correctness                                                        *)

(* The identities of the threads.                                          *)
LEMMA Identities ==
  /\ Workers \subseteq Senders /\ Workers \subseteq Int
  /\ Listener \in Senders /\ Listener \notin Workers
  /\ Senders \subseteq Workers \cup {Listener}
  /\ \A i \in Nat : i < MaxWorkers => i \in Workers
  /\ \A i \in Workers : i \in Nat /\ i < MaxWorkers
  /\ IsFiniteSet(Workers) /\ IsFiniteSet(Senders)
<1>1. IsFiniteSet(Workers)
  BY ConstantsAssumption, FS_Interval DEF Workers
<1>2. IsFiniteSet(Senders)
  BY <1>1, FS_AddElement DEF Senders
<1> QED
  BY <1>1, <1>2, ConstantsAssumption DEF Workers, Senders, Listener

(* Raising or lowering a worker's flag keeps the map of flags well typed.  *)
LEMMA FlagUpdate ==
  ASSUME NEW f \in [Workers -> BOOLEAN], NEW w \in Workers, NEW b \in BOOLEAN
  PROVE  [f EXCEPT ![w] = b] \in [Workers -> BOOLEAN]
  OBVIOUS

(* SetJob keeps the job and its flag well typed, OnShutdown the flag of    *)
(* cancelled tunnels.                                                      *)
LEMMA SetJobType ==
  ASSUME TypeOK, NEW w \in Workers, NEW j \in {"none", "handshake", "tunnel"}, SetJob(w, j)
  PROVE  /\ jobSet' \in [Workers -> BOOLEAN]
         /\ job' \in [Workers -> {"none", "handshake", "tunnel"}]
<1>1. CASE jobSet[w]
  BY <1>1 DEF SetJob, TypeOK
<1>2. CASE ~jobSet[w]
  <2>1. jobSet' = [jobSet EXCEPT ![w] = TRUE] /\ job' = [job EXCEPT ![w] = j]
    BY <1>2 DEF SetJob
  <2>2. jobSet \in [Workers -> BOOLEAN] /\ job \in [Workers -> {"none", "handshake", "tunnel"}]
    BY DEF TypeOK
  <2>3. jobSet' \in [Workers -> BOOLEAN]
    BY <2>1, <2>2, FlagUpdate, Zenon
  <2>4. job' \in [Workers -> {"none", "handshake", "tunnel"}]
    BY <2>1, <2>2
  <2> QED
    BY <2>3, <2>4
<1> QED
  BY <1>1, <1>2

(* A shutdown cancels at most the tunnel of the worker.                    *)
LEMMA OnShutdownType ==
  ASSUME TypeOK, NEW w \in Workers, OnShutdown(w)
  PROVE  cancelled' \in [Workers -> BOOLEAN]
<1> DEFINE b == cancelled[w] \/ (jobSet'[w] /\ job'[w] = "tunnel")
<1>1. cancelled' = [cancelled EXCEPT ![w] = b]
  BY DEF OnShutdown
<1>2. b \in BOOLEAN
  BY Zenon
<1>3. cancelled \in [Workers -> BOOLEAN]
  BY DEF TypeOK
<1> QED
  BY <1>1, <1>2, <1>3, FlagUpdate, Zenon

(* The initial state of the program is well typed.                         *)
LEMMA TypeInit == Init => TypeInv
<1> SUFFICES ASSUME Init PROVE TypeInv
  OBVIOUS
<1>1. TypeOK
  <2> USE DEF Init
  <2>1. /\ lock \in [Mutexes -> Senders \cup {Dispatcher, Nobody}]
        /\ picked \in [Senders -> Workers \cup {Nobody}]
        /\ left \in [Senders -> 0 .. 2]
        /\ opc \in [Senders -> {"idle", "entered", "leave"} \cup Inside]
    OBVIOUS
  <2>2. /\ jobSet \in [Workers -> BOOLEAN]
        /\ cancelled \in [Workers -> BOOLEAN]
        /\ job \in [Workers -> {"none", "handshake", "tunnel"}]
        /\ wpc \in [Workers -> {"none", "waiting", "running", "writing", "sending", "exited", "joined"}]
    OBVIOUS
  <2>3. shutdownPending \in BOOLEAN
    BY Zenon
  <2>8. msgProcCount \in Int
    OBVIOUS
  <2>4. workerID \in 0 .. MaxWorkers /\ clients \in 0 .. MaxClients
    BY ConstantsAssumption
  <2>5. /\ freeWorkers \in SUBSET Workers /\ activeWorkers \in SUBSET Workers
        /\ finishedWorkers \in SUBSET Workers /\ tmp \in SUBSET Workers
        /\ todo \in SUBSET Workers /\ joining \in Workers \cup {Nobody}
    OBVIOUS
  <2>6. pool \in Pools
    BY DEF Pools
  <2>7. dpc \in {"init", "check", "swap", "request", "join", "populate",
                "preSpin", "lock", "postSpin", "done"}
    OBVIOUS
  <2> HIDE DEF Init
  <2> QED
    BY <2>1, <2>2, <2>3, <2>4, <2>5, <2>6, <2>7, <2>8 DEF TypeOK
<1>2. Handing /\ SendingInside
  BY Identities, ConstantsAssumption DEF Init, Handing, SendingInside
<1> QED
  BY <1>1, <1>2 DEF TypeInv

(* Every step of a worker thread, of OnMessage, of the background thread   *)
(* and of main keeps the state well typed.                                 *)
LEMMA TypeStep == TypeInv /\ [Next]_vars => TypeInv'
<1> SUFFICES ASSUME TypeInv, [Next]_vars PROVE TypeInv'
  OBVIOUS
<1> USE DEF TypeInv, TypeOK, Handing, SendingInside, Inside
<1>0. /\ Workers \subseteq Senders /\ Listener \in Senders /\ Listener \notin Workers
      /\ Senders \subseteq Workers \cup {Listener}
  BY Identities
<1> USE <1>0
<1>1. ASSUME NEW w \in Workers, WorkerThread(w) PROVE TypeInv'
  <2> USE DEF flagVars, listVars, bgVars, workerVars, msgVars
  <2>1. CASE TakeJob(w)
    BY <2>1 DEF TakeJob
  <2>2. ASSUME NEW n \in 0 .. 2, wpc[w] \in {"running", "writing"}, FinishJob(w, n) PROVE TypeInv'
    BY <2>2 DEF FinishJob
  <2>3. CASE WorkerMessage(w)
    BY <2>3 DEF WorkerMessage
  <2>4. CASE TunnelWrites(w)
    BY <2>4 DEF TunnelWrites
  <2>5. CASE TunnelWritten(w)
    BY <2>5 DEF TunnelWritten
  <2> QED
    BY <1>1, <2>1, <2>2, <2>3, <2>4, <2>5 DEF WorkerThread, HandshakeDone, TunnelDone, JobsMade
<1>2. ASSUME NEW s \in Senders, OnMessage(s) PROVE TypeInv'
  <2> USE DEF flagVars, listVars, bgVars, workerVars, msgVars
  <2>1. CASE CheckShutdown(s)
    BY <2>1 DEF CheckShutdown, AfterCheck
  <2>2. CASE SearchActive(s)
    BY <2>2 DEF SearchActive
  <2>3. CASE MoveToFinished(s)
    <3> USE <2>3 DEF MoveToFinished
    <3>1. finishedWorkers' \in SUBSET Workers /\ activeWorkers' \in SUBSET Workers
      OBVIOUS
    <3>2. lock' \in [Mutexes -> Senders \cup {Dispatcher, Nobody}]
      OBVIOUS
    <3>3. opc' \in [Senders -> {"idle", "entered", "leave"} \cup Inside] /\ Handing' /\ SendingInside'
      OBVIOUS
    <3> QED
      BY <3>1, <3>2, <3>3
  <2>4. CASE PickFreeWorker(s)
    <3> USE <2>4 DEF PickFreeWorker, PopBack
    <3>1. freeWorkers' \in SUBSET Workers /\ picked'[s] \in Workers
      OBVIOUS
    <3>2. lock' \in [Mutexes -> Senders \cup {Dispatcher, Nobody}]
      OBVIOUS
    <3>3. opc' \in [Senders -> {"idle", "entered", "leave"} \cup Inside] /\ picked' \in [Senders -> Workers \cup {Nobody}]
      OBVIOUS
    <3>4. Handing' /\ SendingInside'
      BY <3>1
    <3> QED
      BY <3>1, <3>2, <3>3, <3>4
  <2>5. CASE SpawnOneWorker(s)
    <3>1. workerID \in Workers /\ workerID' \in 0 .. MaxWorkers
      BY <2>5, Identities, ConstantsAssumption DEF SpawnOneWorker, SpawnWorkers
    <3>2. lock' \in [Mutexes -> Senders \cup {Dispatcher, Nobody}]
      BY <2>5 DEF SpawnOneWorker
    <3>3. opc' \in [Senders -> {"idle", "entered", "leave"} \cup Inside] /\ picked' \in [Senders -> Workers \cup {Nobody}]
      BY <2>5, <3>1 DEF SpawnOneWorker
    <3>4. wpc' \in [Workers -> {"none", "waiting", "running", "writing", "sending", "exited", "joined"}]
      BY <2>5 DEF SpawnOneWorker, SpawnWorkers
    <3>5. Handing'
      BY <2>5, <3>1 DEF SpawnOneWorker
    <3>6. SendingInside'
      BY <2>5, <3>1 DEF SpawnOneWorker, SpawnWorkers
    <3> QED
      BY <2>5, <3>1, <3>2, <3>3, <3>4, <3>5, <3>6 DEF SpawnOneWorker
  <2>6. CASE AssignJob(s)
    <3>1. picked[s] \in Workers /\ left[s] \in 1 .. 2
      BY <2>6 DEF AssignJob
    <3>2. lock' \in [Mutexes -> Senders \cup {Dispatcher, Nobody}]
      BY <2>6 DEF AssignJob
    <3>3. opc' \in [Senders -> {"idle", "entered", "leave"} \cup Inside] /\ picked' \in [Senders -> Workers \cup {Nobody}]
      BY <2>6 DEF AssignJob
    <3>4. left' \in [Senders -> 0 .. 2]
      BY <2>6, <3>1 DEF AssignJob
    <3>5. activeWorkers' \in SUBSET Workers
      BY <2>6, <3>1 DEF AssignJob, Activated
    <3>6. SetJob(picked[s], "handshake") \/ SetJob(picked[s], "tunnel")
      BY <2>6 DEF AssignJob
    <3>7. /\ jobSet' \in [Workers -> BOOLEAN]
          /\ job' \in [Workers -> {"none", "handshake", "tunnel"}]
      BY <3>1, <3>6, SetJobType
    <3>8. Handing' /\ SendingInside'
      BY <2>6 DEF AssignJob
    <3> QED
      BY <2>6, <3>2, <3>3, <3>4, <3>5, <3>7, <3>8 DEF AssignJob
  <2>7. CASE LeaveOnMessage(s)
    BY <2>7 DEF LeaveOnMessage
  <2> QED
    BY <1>2, <2>1, <2>2, <2>3, <2>4, <2>5, <2>6, <2>7 DEF OnMessage
<1>3. CASE BackgroundThread
  <2> USE DEF flagVars, listVars, bgVars, workerVars, msgVars
  <2>1. CASE CheckLoop \/ SwapFinished \/ PreSpin \/ PostSpin
    BY <2>1 DEF CheckLoop, SwapFinished, PreSpin, PostSpin, Pools
  <2>2. CASE JoinWorker
    BY <2>2 DEF JoinWorker
  <2>3. CASE RequestLoopEnd
    BY <2>3 DEF RequestLoopEnd, Batch, Pools
  <2>4. CASE JoinLoopEnd
    BY <2>4 DEF JoinLoopEnd, Pools
  <2>5. CASE Populate
    <3>1. Cardinality(freeWorkers) \in Nat
      BY Identities, FS_Subset, FS_CardinalityType
    <3>2. SpawnNow \in Nat
      BY <3>1, ConstantsAssumption DEF SpawnNow
    <3>3. workerID .. (workerID + SpawnNow - 1) \subseteq Workers
      BY <2>5, Identities, <3>2, ConstantsAssumption DEF Populate, SpawnWorkers
    <3>4. workerID' \in 0 .. MaxWorkers
      BY <2>5, <3>2, ConstantsAssumption DEF Populate, SpawnWorkers
    <3>5. freeWorkers' \in SUBSET Workers
      BY <2>5, <3>3 DEF Populate
    <3>6. wpc' \in [Workers -> {"none", "waiting", "running", "writing", "sending", "exited", "joined"}]
      BY <2>5 DEF Populate, SpawnWorkers
    <3>7. Handing' /\ SendingInside'
      BY <2>5, <3>2, Identities, ConstantsAssumption DEF Populate, SpawnWorkers
    <3> QED
      BY <2>5, <3>4, <3>5, <3>6, <3>7 DEF Populate
  <2>6. CASE LockPool
    <3>1. MutexOf[pool] \in Mutexes
      BY DEF MutexOf, Pools, Mutexes
    <3> QED
      BY <2>6, <3>1 DEF LockPool, Batch, Pools
  <2>7. ASSUME NEW w \in Workers, RequestWorker(w) \/ ShutdownWorker(w) PROVE TypeInv'
    <3>1. SetJob(w, "none") \/ UNCHANGED <<jobSet, job>>
      BY <2>7 DEF RequestWorker, ShutdownWorker
    <3>2. /\ jobSet' \in [Workers -> BOOLEAN]
          /\ job' \in [Workers -> {"none", "handshake", "tunnel"}]
      BY <3>1, SetJobType
    <3>3. cancelled' \in [Workers -> BOOLEAN]
      BY <2>7, OnShutdownType DEF RequestWorker, ShutdownWorker
    <3>4. todo' \in SUBSET Workers /\ joining' \in Workers \cup {Nobody}
      BY <2>7 DEF RequestWorker, ShutdownWorker
    <3>5. Handing' /\ SendingInside'
      BY <2>7 DEF RequestWorker, ShutdownWorker
    <3> QED
      BY <2>7, <3>2, <3>3, <3>4, <3>5 DEF RequestWorker, ShutdownWorker
  <2> QED
    BY <1>3, <2>1, <2>2, <2>3, <2>4, <2>5, <2>6, <2>7 DEF BackgroundThread
<1>4. CASE ListenerMessage
  BY <1>4, ConstantsAssumption
     DEF ListenerMessage, flagVars, listVars, bgVars, workerVars, msgVars
<1>5. CASE Startup
  BY <1>5 DEF Startup, flagVars, listVars, bgVars, workerVars, msgVars
<1>7. CASE RequestShutdown
  <2>1. shutdownPending' \in BOOLEAN
    BY <1>7, Zenon DEF RequestShutdown
  <2> QED
    BY <1>7, <2>1 DEF RequestShutdown, flagVars, listVars, bgVars, workerVars, msgVars
<1>6. CASE UNCHANGED vars
  BY <1>6 DEF vars, flagVars, listVars, bgVars, workerVars, msgVars
<1> QED
  BY <1>1, <1>2, <1>3, <1>4, <1>5, <1>6, <1>7 DEF Next, Terminated

(* Type correctness of the dispatcher, the workers and the messages.       *)
THEOREM TypeCorrect == Spec => []TypeOK
<1>1. TypeInv => TypeOK
  BY DEF TypeInv
<1> QED
  BY <1>1, TypeInit, TypeStep, PTL DEF Spec
-----------------------------------------------------------------------------
(* The shutdown handshake between OnMessage and the background thread      *)

(* A step of OnMessage other than its last one leaves the thread counted.  *)
LEMMA CountStays ==
  ASSUME TypeInv, Counted, NEW s \in Senders, OnMessage(s), ~LeaveOnMessage(s)
  PROVE  Counted'
<1>1. /\ msgProcCount' = msgProcCount
      /\ opc[s] # "idle"
      /\ \E l \in {"leave"} \cup Inside : opc' = [opc EXCEPT ![s] = l]
  BY DEF OnMessage, CheckShutdown, AfterCheck, SearchActive, MoveToFinished, PickFreeWorker,
         SpawnOneWorker, AssignJob, Inside, flagVars
<1>2. InMessage' = InMessage
  BY <1>1 DEF TypeInv, TypeOK, InMessage, Inside
<1> QED
  BY <1>1, <1>2 DEF Counted

(* fetch_add and fetch_sub count the threads inside OnMessage exactly.     *)
LEMMA CountStep == TypeInv /\ Counted /\ [Next]_vars => Counted'
<1> SUFFICES ASSUME TypeInv, Counted, [Next]_vars PROVE Counted'
  OBVIOUS
<1>0. IsFiniteSet(InMessage) /\ opc \in [Senders -> {"idle", "entered", "leave"} \cup Inside]
  BY Identities, FS_Subset DEF InMessage, TypeInv, TypeOK
<1>1. ASSUME NEW s \in Senders, opc[s] = "idle", opc' = [opc EXCEPT ![s] = "entered"],
             msgProcCount' = msgProcCount + 1
      PROVE  Counted'
  <2>1. InMessage' = InMessage \cup {s} /\ s \notin InMessage
    BY <1>0, <1>1 DEF InMessage
  <2> QED
    BY <1>0, <1>1, <2>1, FS_AddElement DEF Counted
<1>2. ASSUME NEW s \in Senders, LeaveOnMessage(s) PROVE Counted'
  <2>1. InMessage' = InMessage \ {s} /\ s \in InMessage
    BY <1>0, <1>2 DEF InMessage, LeaveOnMessage
  <2> QED
    BY <1>0, <1>2, <2>1, FS_RemoveElement DEF Counted, LeaveOnMessage
<1>3. ASSUME UNCHANGED <<opc, msgProcCount>> PROVE Counted'
  BY <1>3 DEF Counted, InMessage
<1>4. ASSUME NEW w \in Workers, WorkerThread(w) PROVE Counted'
  BY <1>1, <1>3, <1>4, Identities
     DEF WorkerThread, TakeJob, HandshakeDone, TunnelWrites, TunnelWritten, TunnelDone,
          FinishJob, WorkerMessage,
         flagVars, msgVars
<1>5. ASSUME NEW s \in Senders, OnMessage(s) PROVE Counted'
  BY <1>2, <1>5, CountStays
<1>6. CASE BackgroundThread \/ Startup \/ RequestShutdown \/ UNCHANGED vars
  <2>1. UNCHANGED <<opc, msgProcCount>>
    BY <1>6 DEF BackgroundThread, CheckLoop, SwapFinished, RequestLoopEnd, JoinWorker,
         JoinLoopEnd, Populate, PreSpin, LockPool, PostSpin, RequestWorker, ShutdownWorker,
         Startup, RequestShutdown, vars, flagVars, msgVars
  <2> QED
    BY <1>3, <2>1
<1>7. CASE ListenerMessage
  BY <1>1, <1>7, Identities DEF ListenerMessage
<1> QED
  BY <1>4, <1>5, <1>6, <1>7 DEF Next, Terminated

(* The background thread leaves its main loop only into a shutdown.        *)
LEMMA LoopStep == TypeInv /\ LoopOrder /\ [Next]_vars => LoopOrder'
<1> SUFFICES ASSUME TypeInv, LoopOrder, [Next]_vars PROVE LoopOrder'
  OBVIOUS
<1> USE DEF LoopOrder, PastPreSpin
<1>1. CASE BackgroundThread
  BY <1>1 DEF BackgroundThread, CheckLoop, SwapFinished, RequestLoopEnd, JoinWorker,
       JoinLoopEnd, Populate, PreSpin, LockPool, PostSpin, RequestWorker, ShutdownWorker,
       flagVars
<1>2. CASE Startup \/ RequestShutdown \/ ListenerMessage \/ UNCHANGED vars
  BY <1>2 DEF Startup, RequestShutdown, ListenerMessage, vars, flagVars, bgVars
<1>3. ASSUME NEW w \in Workers, WorkerThread(w) PROVE LoopOrder'
  BY <1>3 DEF WorkerThread, TakeJob, HandshakeDone, TunnelWrites, TunnelWritten, TunnelDone,
       FinishJob, WorkerMessage,
       flagVars, bgVars
<1>4. ASSUME NEW s \in Senders, OnMessage(s) PROVE LoopOrder'
  BY <1>4 DEF OnMessage, CheckShutdown, SearchActive, MoveToFinished, PickFreeWorker,
       SpawnOneWorker, AssignJob, LeaveOnMessage, flagVars, bgVars
<1> QED
  BY <1>1, <1>2, <1>3, <1>4 DEF Next, Terminated

(* The spin lets the background thread through when nobody is inside, and  *)
(* whoever enters afterwards sees shutdownPending.                         *)
LEMMA QuiescentStep == IInv /\ [Next]_vars => QuiescentShutdown'
<1> SUFFICES ASSUME IInv, [Next]_vars PROVE QuiescentShutdown'
  OBVIOUS
<1>0. /\ opc \in [Senders -> {"idle", "entered", "leave"} \cup Inside]
      /\ PastPreSpin => shutdownPending
      /\ PastPreSpin => \A s \in Senders : opc[s] \notin Inside
  BY DEF IInv, TypeInv, TypeOK, LoopOrder, QuiescentShutdown
<1>1. CASE PreSpin
  <2>1. IsFiniteSet(InMessage)
    BY Identities, FS_Subset DEF InMessage
  <2>2. Cardinality(InMessage) \in Nat /\ Cardinality(InMessage) <= 0
    BY <1>1, <2>1, FS_CardinalityType DEF PreSpin, NoMessageInProgress, IInv, Counted
  <2>3. InMessage = {}
    BY <2>1, <2>2, FS_EmptySet
  <2>4. opc' = opc /\ \A s \in Senders : opc[s] = "idle"
    BY <1>1, <2>3 DEF InMessage, PreSpin, msgVars
  <2> QED
    BY <2>4 DEF QuiescentShutdown, Inside
<1>2. ASSUME NEW s \in Senders, OnMessage(s) PROVE QuiescentShutdown'
  <2>1. PastPreSpin' = PastPreSpin
    BY <1>2 DEF OnMessage, CheckShutdown, SearchActive, MoveToFinished, PickFreeWorker,
         SpawnOneWorker, AssignJob, LeaveOnMessage, bgVars, PastPreSpin
  <2>2. ASSUME PastPreSpin PROVE opc' = [opc EXCEPT ![s] = "leave"]
                              \/ opc' = [opc EXCEPT ![s] = "idle"]
    BY <1>0, <1>2, <2>2 DEF OnMessage, CheckShutdown, AfterCheck, MustReturn, SearchActive,
         MoveToFinished, PickFreeWorker, SpawnOneWorker, AssignJob, LeaveOnMessage, Inside
  <2> QED
    BY <1>0, <2>1, <2>2 DEF QuiescentShutdown, Inside
<1>3. ASSUME NEW w \in Workers, WorkerThread(w) PROVE QuiescentShutdown'
  BY <1>0, <1>3, Identities
     DEF WorkerThread, TakeJob, HandshakeDone, TunnelWrites, TunnelWritten, TunnelDone,
          FinishJob, WorkerMessage,
         bgVars, msgVars, QuiescentShutdown, PastPreSpin, Inside
<1>4. CASE ListenerMessage
  BY <1>0, <1>4, Identities DEF ListenerMessage, bgVars, QuiescentShutdown, PastPreSpin, Inside
<1>5. CASE (BackgroundThread /\ ~PreSpin) \/ Startup \/ RequestShutdown \/ UNCHANGED vars
  <2>1. opc' = opc /\ (PastPreSpin' => PastPreSpin)
    BY <1>5 DEF BackgroundThread, CheckLoop, SwapFinished, RequestLoopEnd, JoinWorker,
         JoinLoopEnd, Populate, LockPool, PostSpin, RequestWorker, ShutdownWorker,
         Startup, RequestShutdown, vars, bgVars, msgVars, PastPreSpin
  <2> QED
    BY <1>0, <2>1 DEF QuiescentShutdown
<1> QED
  BY <1>1, <1>2, <1>3, <1>4, <1>5 DEF Next, Terminated

(* The invariant holds when the program starts.                            *)
LEMMA InitIInv == Init => IInv
<1> SUFFICES ASSUME Init PROVE IInv
  OBVIOUS
<1>1. InMessage = {}
  BY DEF Init, InMessage
<1>2. Counted /\ LoopOrder /\ QuiescentShutdown
  BY <1>1, FS_EmptySet DEF Init, Counted, LoopOrder, QuiescentShutdown, PastPreSpin
<1> QED
  BY <1>2, TypeInit DEF IInv

(* Every step keeps it.                                                    *)
LEMMA StepIInv == IInv /\ [Next]_vars => IInv'
BY TypeStep, CountStep, LoopStep, QuiescentStep DEF IInv

(* IInv is an inductive invariant of the dispatcher.                       *)
THEOREM Inductive == Spec => []IInv
BY InitIInv, StepIInv, PTL DEF Spec

(* No thread is past the check of OnMessageInternal once the background    *)
(* thread has begun to dispose of the workers.                             *)
THEOREM ShutdownIsQuiescent == Spec => []QuiescentShutdown
<1>1. IInv => QuiescentShutdown
  BY DEF IInv
<1> QED
  BY <1>1, Inductive, PTL

(* From that moment no worker is created and no worker is given a job.     *)
THEOREM ShutdownAddsNoWork == Spec => NoNewWorkInShutdown
<1> DEFINE A == PastPreSpin => /\ workerID' = workerID
                               /\ \A w \in Workers : job'[w] \in {job[w], "none"}
<1>1. IInv /\ [Next]_vars => [A]_vars
  <2> SUFFICES ASSUME IInv, [Next]_vars, PastPreSpin PROVE A \/ UNCHANGED vars
    OBVIOUS
  <2>0. /\ job \in [Workers -> {"none", "handshake", "tunnel"}]
        /\ \A s \in Senders : opc[s] \notin Inside
        /\ dpc # "populate"
    BY DEF IInv, TypeInv, TypeOK, QuiescentShutdown, LoopOrder, PastPreSpin
  <2>1. ASSUME NEW w \in Workers, WorkerThread(w) PROVE A
    BY <2>0, <2>1 DEF WorkerThread, TakeJob, HandshakeDone, TunnelWrites, TunnelWritten, TunnelDone,
         FinishJob,
         WorkerMessage, workerVars
  <2>2. ASSUME NEW s \in Senders, OnMessage(s) PROVE A
    BY <2>0, <2>2 DEF OnMessage, CheckShutdown, SearchActive, MoveToFinished, PickFreeWorker,
         SpawnOneWorker, AssignJob, LeaveOnMessage, workerVars, Inside
  <2>3. CASE BackgroundThread
    BY <2>0, <2>3 DEF BackgroundThread, CheckLoop, SwapFinished, RequestLoopEnd, JoinWorker,
         JoinLoopEnd, Populate, PreSpin, LockPool, PostSpin, RequestWorker, ShutdownWorker,
         SetJob, workerVars
  <2>4. CASE ListenerMessage \/ Startup \/ RequestShutdown
    BY <2>4 DEF ListenerMessage, Startup, RequestShutdown, workerVars
  <2> QED
    BY <2>1, <2>2, <2>3, <2>4 DEF Next, Terminated
<1> QED
  BY <1>1, Inductive, PTL DEF Spec, NoNewWorkInShutdown
=============================================================================
