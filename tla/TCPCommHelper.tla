---------------------------- MODULE TCPCommHelper ----------------------------
(***************************************************************************)
(* One TCPCommHelper, the socket behind it and the epoll thread of         *)
(* TCPCommService that notifies it.                                        *)
(*                                                                         *)
(* Sockets are registered edge-triggered and shared by a reader and a      *)
(* writer.  extCnt counts notifications, intCnt the last one after which   *)
(* the socket was found exhausted; Transfer sleeps while extCnt <= intCnt. *)
(* N_HUP and N_CANCEL are two reserved top values of extCnt.               *)
(*                                                                         *)
(* The kernel's side is external: it is modelled from what read, write and *)
(* edge-triggered epoll promise.  Data are counted, not stored.  errno     *)
(* belongs to the thread, which uses other sockets between two transfers.  *)
(***************************************************************************)
EXTENDS Integers, FiniteSets

CONSTANTS
  Calls,         (* [isReader, len, allowPartial]: the transfers of callers *)
  Total,         (* bound: Total[isReader] bytes pass through the socket   *)
  Capacity,      (* bytes the socket buffer holds (writer)                 *)
  LowWater,      (* free bytes that make a socket writable (EPOLLOUT)      *)
  MaxOther,      (* bound: edges caused by the other direction             *)
  N_HUP          (* UINT64_MAX-1 in the code                               *)

N_CANCEL == N_HUP + 1

ASSUME HelperAssumption ==
  /\ Calls \subseteq [isReader : BOOLEAN, len : Nat, allowPartial : BOOLEAN]
  /\ Total \in [BOOLEAN -> Nat]
  /\ {Capacity, MaxOther} \subseteq Nat
  /\ LowWater \in Nat \ {0}
  /\ N_HUP \in Nat

(* The count of notifications does not reach the reserved values: every    *)
(* one needs an edge, and 2^64-2 of them never happen.                     *)
ASSUME CountAssumption == \A r \in BOOLEAN : Total[r] + MaxOther + 4 < N_HUP

VARIABLES
  isReader,      (* never changes: a helper reads or writes                *)
  extCnt, intCnt, status,
  errno,         (* of the calling thread                                  *)
  tpc,           (* where the caller is in Transfer                        *)
  len, allowPartial, dataLeft, curCnt,
  ret,           (* what Transfer returned last                            *)
  returned,      (* bytes its callers were told of                         *)
  avail,         (* bytes read / write could move now                      *)
  moved,         (* bytes read / write have moved                          *)
  supplied,      (* bytes the peer has sent (reader) or taken (writer)     *)
  peer,          (* what the peer has done to the connection               *)
  noSpace,       (* the kernel owes the writer an edge                     *)
  ready,         (* the socket is in epoll's ready list                    *)
  ev,            (* what epoll_wait has returned and not processed yet     *)
  service,       (* the epoll thread is running                            *)
  other          (* edges of the other direction so far                    *)

callVars   == <<tpc, len, allowPartial, dataLeft, curCnt, ret, returned, errno>>
helperVars == <<isReader, extCnt, intCnt, status>>
sockVars   == <<avail, moved, supplied, peer, noSpace>>
epollVars  == <<ready, ev, service, other>>
vars == <<helperVars, callVars, sockVars, epollVars>>

Errnos == {"none", "EAGAIN", "fatal"}
Events == {"data", "hup"}

TypeOK ==
  /\ isReader \in BOOLEAN
  /\ extCnt \in 0 .. N_CANCEL /\ intCnt \in 0 .. (N_HUP - 1)
  /\ status \in {0, -1, -2}
  /\ errno \in Errnos
  /\ tpc \in {"idle", "check", "sleep", "io"}
  /\ len \in {0} \cup {c.len : c \in Calls} /\ dataLeft \in 0 .. len
  /\ allowPartial \in BOOLEAN
  /\ curCnt \in 0 .. N_CANCEL
  /\ ret \in {-1, -2} \cup 0 .. Total[isReader]
  /\ {returned, moved, supplied} \subseteq 0 .. Total[isReader]
  /\ avail \in 0 .. (IF isReader THEN Total[isReader] ELSE Capacity)
  /\ peer \in {"open", "fin", "reset"}
  /\ noSpace \in BOOLEAN /\ ready \in BOOLEAN /\ service \in BOOLEAN
  /\ ev \in SUBSET Events
  /\ other \in 0 .. MaxOther

(* The constructor: "first transfer will try to read/write data, and block *)
(* only after second attempt"; a new socket is writable, so EPOLL_CTL_ADD  *)
(* puts it in the ready list at once.                                      *)
Init ==
  /\ isReader \in {c.isReader : c \in Calls}
  /\ extCnt = 1 /\ intCnt = 0 /\ status = 0
  /\ errno = "none"
  /\ tpc = "idle" /\ len = 0 /\ allowPartial = FALSE /\ dataLeft = 0 /\ curCnt = 0
  /\ ret = 0 /\ returned = 0
  /\ avail = (IF isReader THEN 0 ELSE Capacity)
  /\ moved = 0 /\ supplied = 0 /\ peer = "open" /\ noSpace = FALSE
  /\ ready = TRUE /\ ev = {} /\ service = TRUE /\ other = 0
-----------------------------------------------------------------------------
(* The socket and epoll (external)                                         *)

(* The bits of epoll_wait that matter to this helper.                      *)
Mask ==
  {e \in Events :
     \/ e = "hup" /\ (peer = "reset" \/ (isReader /\ peer = "fin"))
     \/ e = "data" /\ (avail >= (IF isReader THEN 1 ELSE LowWater) \/ peer = "reset")}

(* The peer sends a byte, or takes one from the writer's buffer.  New data *)
(* always make an edge, new space only when the writer has run out of it.  *)
Supply ==
  /\ peer # "reset"
  /\ IF isReader THEN peer = "open" /\ supplied < Total[isReader] ELSE supplied < moved
  /\ supplied' = supplied + 1
  /\ avail' = avail + 1
  /\ IF isReader
       THEN ready' = TRUE /\ UNCHANGED noSpace
       ELSE /\ ready' = (ready \/ (noSpace /\ avail' >= LowWater))
            /\ noSpace' = (noSpace /\ avail' < LowWater)
  /\ UNCHANGED <<helperVars, callVars, moved, peer, ev, service, other>>

(* FIN closes the peer's direction; RST throws the buffered data away.     *)
PeerCloses ==
  \/ /\ peer = "open" /\ isReader
     /\ peer' = "fin"
     /\ ready' = TRUE
     /\ UNCHANGED <<helperVars, callVars, avail, moved, supplied, noSpace, ev, service, other>>
  \/ /\ peer # "reset"
     /\ peer' = "reset"
     /\ avail' = 0
     /\ ready' = TRUE
     /\ UNCHANGED <<helperVars, callVars, moved, supplied, noSpace, ev, service, other>>

(* An event of the other direction makes epoll look at the socket again.   *)
OtherEdge ==
  /\ other < MaxOther
  /\ other' = other + 1
  /\ ready' = TRUE
  /\ UNCHANGED <<helperVars, callVars, sockVars, ev, service>>
-----------------------------------------------------------------------------
(* TCPCommService::Worker                                                  *)

(* epoll_wait takes the socket off the ready list and reports its state;   *)
(* a socket that is not writable is asked to report when it is again.      *)
EpollWait ==
  /\ service /\ ready /\ ev = {}
  /\ ready' = FALSE
  /\ ev' = Mask
  /\ noSpace' = (noSpace \/ (~isReader /\ avail < LowWater))
  /\ UNCHANGED <<helperVars, callVars, avail, moved, supplied, peer, service, other>>

(* NotifyDataAvail: the counter stops at the first of the reserved values. *)
NotifyDataAvailOnce == extCnt' = IF extCnt < 2 THEN extCnt + 1 ELSE extCnt

NotifyDataAvail == extCnt' = IF extCnt < N_HUP THEN extCnt + 1 ELSE extCnt

NotifyHUPCounts == extCnt' = IF extCnt < N_HUP - 1 THEN extCnt + 1 ELSE extCnt

NotifyHUP == extCnt' = IF extCnt < N_HUP THEN N_HUP ELSE extCnt

(* Under manageLock: a hup is sent instead of, never after, data.          *)
ProcessEvents ==
  /\ service /\ ev # {}
  /\ IF "hup" \in ev THEN NotifyHUP ELSE NotifyDataAvail
  /\ ev' = {}
  /\ UNCHANGED <<isReader, intCnt, status, callVars, sockVars, ready, service, other>>

(* The service is shut down: Cancel for every handler, then no more events.*)
CancelAll ==
  /\ service
  /\ service' = FALSE
  /\ ev' = {}
  /\ extCnt' = IF extCnt < N_CANCEL THEN N_CANCEL ELSE extCnt
  /\ UNCHANGED <<isReader, intCnt, status, callVars, sockVars, ready, other>>
-----------------------------------------------------------------------------
(* Transfer                                                                *)

Return(r) ==
  /\ ret' = r
  /\ returned' = IF r > 0 THEN returned + r ELSE returned
  /\ tpc' = "idle"

(* Entry: a failed helper stays failed, an empty transfer is done.         *)
FailedNever == FALSE

Failed == status < 0

Call(n, p) ==
  /\ tpc = "idle"
  /\ ~isReader /\ ~Failed => moved + n <= Total[isReader]
  /\ IF Failed \/ n < 1
       THEN /\ Return(IF Failed THEN status ELSE 0)
            /\ UNCHANGED <<len, allowPartial, dataLeft, curCnt>>
       ELSE /\ tpc' = "check"
            /\ len' = n /\ dataLeft' = n /\ allowPartial' = p
            /\ UNCHANGED <<curCnt, ret, returned>>
  /\ UNCHANGED <<helperVars, errno, sockVars, epollVars>>

(* Between two transfers the thread makes other calls, which set its errno.*)
OtherCalls ==
  /\ tpc = "idle"
  /\ \E e \in Errnos \ {errno} : errno' = e
  /\ UNCHANGED <<helperVars, tpc, len, allowPartial, dataLeft, curCnt, ret, returned,
                 sockVars, epollVars>>

(* Under notifyLock: go on with the current count or wait on the condition.*)
Check ==
  /\ tpc = "check"
  /\ IF extCnt > intCnt
       THEN tpc' = "io" /\ curCnt' = extCnt
       ELSE tpc' = "sleep" /\ UNCHANGED curCnt
  /\ UNCHANGED <<helperVars, len, allowPartial, dataLeft, ret, returned, errno, sockVars, epollVars>>

(* notify_one reached the wait (one without a new count changes nothing).  *)
Wake ==
  /\ tpc = "sleep"
  /\ extCnt > intCnt
  /\ tpc' = "check"
  /\ UNCHANGED <<helperVars, len, allowPartial, dataLeft, curCnt, ret, returned, errno,
                 sockVars, epollVars>>

(* cv_status::timeout, possibly with a notification just arrived.          *)
Timeout ==
  /\ tpc = "sleep"
  /\ Return(0)
  /\ UNCHANGED <<helperVars, len, allowPartial, dataLeft, curCnt, errno, sockVars, epollVars>>

Cancelled ==
  /\ tpc = "io" /\ curCnt = N_CANCEL
  /\ status' = -2
  /\ Return(-2)
  /\ UNCHANGED <<isReader, extCnt, intCnt, len, allowPartial, dataLeft, curCnt, errno, sockVars, epollVars>>

(* read / write moves n bytes, or none and sets errno unless at the end of *)
(* the stream; a writer that could not move all it had is owed an edge.    *)
Amount == IF avail < dataLeft THEN avail ELSE dataLeft

SysCall ==
  /\ avail' = avail - Amount
  /\ moved' = moved + Amount
  /\ errno' = CASE Amount > 0 -> errno
                [] Amount = 0 /\ peer = "reset" -> "fatal"
                [] Amount = 0 /\ peer = "fin" /\ isReader -> errno
                [] OTHER -> "EAGAIN"
  /\ noSpace' = (noSpace \/ (~isReader /\ Amount < dataLeft))
  /\ UNCHANGED <<supplied, peer>>

(* "update intCnt to curCnt" below N_HUP, a hup ends the transfers above.  *)
SeenAlways == extCnt

SeenReserved == curCnt

Seen == IF curCnt < N_HUP THEN curCnt ELSE intCnt

HupStatus == IF curCnt < N_HUP THEN status ELSE -1

TransferAllEnds ==
  /\ Amount = dataLeft
  /\ Return(len)
  /\ status' = HupStatus
  /\ UNCHANGED intCnt

TransferAll ==
  /\ Amount = dataLeft
  /\ Return(len)
  /\ UNCHANGED <<intCnt, status>>

TransferPartialFails ==
  /\ 0 < Amount /\ Amount < dataLeft /\ allowPartial
  /\ intCnt' = Seen
  /\ status' = HupStatus
  /\ Return(IF HupStatus < 0 THEN HupStatus ELSE len - dataLeft + Amount)

TransferPartial ==
  /\ 0 < Amount /\ Amount < dataLeft /\ allowPartial
  /\ intCnt' = Seen
  /\ status' = HupStatus
  /\ Return(len - dataLeft + Amount)

(* "tSz<=0, so check error" (reached with tSz>0 as well when the transfer  *)
(* may not be partial): fail, or wait for the next notification.           *)
TransferRetry ==
  /\ Amount < dataLeft /\ ~(Amount > 0 /\ allowPartial)
  /\ intCnt' = Seen
  /\ status' = IF errno' # "EAGAIN" THEN -1 ELSE HupStatus
  /\ IF status' < 0 THEN Return(status') ELSE tpc' = "check" /\ UNCHANGED <<ret, returned>>

(* What follows the system call touches only intCnt, status and locals,    *)
(* all used by this thread alone, and the count taken before the call: the *)
(* two are one step, although a notification may come between them.        *)
IO ==
  /\ tpc = "io" /\ curCnt # N_CANCEL
  /\ SysCall
  /\ dataLeft' = dataLeft - Amount
  /\ TransferAll \/ TransferPartial \/ TransferRetry
  /\ UNCHANGED <<isReader, extCnt, len, allowPartial, curCnt, epollVars>>

(* Shutdown of one direction by the owner of the helper.                   *)
Shutdown ==
  /\ tpc = "idle"
  /\ status >= -1
  /\ status' = -2
  /\ UNCHANGED <<isReader, extCnt, intCnt, callVars, sockVars, epollVars>>
-----------------------------------------------------------------------------
Caller == \E c \in Calls : c.isReader = isReader /\ Call(c.len, c.allowPartial)
Transfer == Check \/ Wake \/ Cancelled \/ IO
Service == EpollWait \/ ProcessEvents

Next ==
  \/ Supply \/ PeerCloses \/ OtherEdge
  \/ Service \/ CancelAll
  \/ Caller \/ OtherCalls \/ Transfer \/ Timeout \/ Shutdown

Spec == Init /\ [][Next]_vars

(* The epoll thread and the thread inside Transfer run on; the owner calls *)
(* Transfer again and again.  Nothing is assumed of timeouts, of the peer  *)
(* and of the shutdown.                                                    *)
FairSpec == Spec /\ WF_vars(Service) /\ WF_vars(Transfer) /\ WF_vars(Caller)
-----------------------------------------------------------------------------
(* Correctness                                                             *)

(* The caller would have to sleep although read or write could go on.      *)
WouldSleep == extCnt <= intCnt /\ tpc # "io" /\ status = 0

(* No lost wake-up: edge-triggered epoll reports a change once, so when    *)
(* the next Transfer sleeps although the socket has something for it, a    *)
(* notification is on its way.  Sleeping through it would stall the tunnel *)
(* until the timeout, and again after that.                                *)
NoLostWakeup == service /\ WouldSleep /\ Mask # {} => ready \/ ev # {}

(* A caller that reads with partial transfers, as a tunnel does, is handed *)
(* every byte taken from the socket, whatever notification, timeout or hup *)
(* intervenes.                                                             *)
NothingDropped ==
  (tpc = "idle" /\ \A c \in Calls : c.isReader = isReader => c.allowPartial) => returned = moved

(* A reader that fails while the peer closed in order has delivered all    *)
(* that the peer sent: the hup must not overtake the data.                 *)
NoTruncation == (isReader /\ status = -1 /\ peer # "reset") => peer = "fin" /\ returned = supplied

Contract == INSTANCE CommHelper WITH
  Lens <- {c.len : c \in Calls}, Partials <- {c.allowPartial : c \in Calls},
  MaxMoved <- Total[TRUE] + Total[FALSE],
  noted <- IF extCnt < N_HUP THEN 0 ELSE IF extCnt = N_HUP THEN -1 ELSE -2,
  busy <- tpc # "idle"

(* Transfer, GetStatus and Shutdown of TCPCommHelper do what ICommHelper   *)
(* promises to the jobs, under every schedule of the epoll thread.         *)
ImplementsCommHelper == Contract!Spec

(* A helper reports a failure only if the connection has one; the test of  *)
(* errno is meant for "tSz<=0".                                            *)
FailsOnlyOnError == status = -1 => peer # "open"

(* Whatever the peer sends is read, and the space it makes is used by a    *)
(* writer that waits for it, with no help from the timeout, unless the     *)
(* connection or the program ends first.                                   *)
Over == peer = "reset" \/ status = -2 \/ ~service

DataArrives ==
  /\ \A n \in 1 .. Total[TRUE] : (isReader /\ supplied >= n) ~> (moved >= n \/ Over)
  /\ (~isReader /\ tpc # "idle" /\ avail >= LowWater) ~> (avail < LowWater \/ tpc = "idle" \/ Over)

(* The bound on bytes leaves a writer nothing to call Transfer with.       *)
OutOfData ==
  ~isReader /\ \A c \in Calls : ~c.isReader => moved + c.len > Total[isReader]

(* A connection that the peer ends, and a shutdown, reach the caller.      *)
EndIsNoticed == (Mask # {} /\ "hup" \in Mask) \/ ~service ~> (status < 0 \/ OutOfData)
=============================================================================
