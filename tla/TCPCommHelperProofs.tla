------------------------- MODULE TCPCommHelperProofs -------------------------
(***************************************************************************)
(* Theorems about TCPCommHelper for all transfers, all amounts of data and *)
(* all buffer sizes.                                                       *)
(***************************************************************************)
EXTENDS TCPCommHelper, TLAPS

Busy == tpc # "idle"

(* The peer has ended what this helper lives on.                           *)
Hup == peer = "reset" \/ (isReader /\ peer = "fin")

(* No byte is invented or lost between the peer and read or write; a reset *)
(* throws the buffer away.                                                 *)
Conserved ==
  /\ peer # "reset" => avail + moved = supplied + (IF isReader THEN 0 ELSE Capacity)
  /\ peer = "reset" => avail = 0
  /\ isReader => moved <= supplied
  /\ ~isReader => supplied <= moved
  /\ ~isReader => peer # "fin"

(* What a transfer has moved and not yet returned.                         *)
Progress ==
  /\ Busy => status = 0 /\ dataLeft > 0 /\ (allowPartial => dataLeft = len)
  /\ Busy /\ ~isReader => moved + dataLeft <= Total[isReader]
  /\ returned + (IF Busy THEN len - dataLeft ELSE 0) <= moved

(* The notification counters: intCnt never passes extCnt, and extCnt is    *)
(* below the reserved values until a hup or a cancel puts it there, since  *)
(* every count needs an edge.                                              *)
One(b) == IF b THEN 1 ELSE 0

Edges == 2 + supplied + other + One(peer # "open") + One(peer = "reset")

Counters ==
  /\ intCnt <= extCnt
  /\ tpc = "io" => intCnt < curCnt /\ curCnt <= extCnt
  /\ extCnt < N_HUP => extCnt + One(ready) + One(ev # {}) <= Edges
  /\ extCnt = N_HUP => Hup
  /\ tpc = "io" /\ curCnt = N_HUP => Hup
  /\ extCnt = N_CANCEL => ~service
  /\ "hup" \in ev => Hup

(* What edge-triggered epoll still owes the helper.                        *)
HupNoted == service /\ Hup => ready \/ "hup" \in ev \/ extCnt >= N_HUP

DataNoted ==
  service /\ extCnt <= intCnt =>
    \/ ready \/ ev # {}
    \/ isReader /\ avail = 0
    \/ ~isReader /\ noSpace /\ avail < LowWater

HInv == TypeOK /\ Conserved /\ Progress /\ Counters /\ HupNoted /\ DataNoted

PartialOnly == \A c \in Calls : c.isReader = isReader => c.allowPartial

(* With partial transfers every byte moved is returned at once, and a      *)
(* reader fails only when the peer has closed and nothing is left.         *)
PartialInv ==
  PartialOnly =>
    /\ returned = moved
    /\ Busy => allowPartial
    /\ isReader /\ status = -1 /\ peer # "reset" => peer = "fin" /\ avail = 0
-----------------------------------------------------------------------------
(* The constants as numbers.                                               *)
LEMMA Numbers ==
  TypeOK => /\ Total[isReader] \in Nat /\ Capacity \in Nat /\ MaxOther \in Nat
            /\ LowWater \in Nat /\ LowWater > 0 /\ N_HUP \in Nat
            /\ N_CANCEL = N_HUP + 1 /\ Total[isReader] + MaxOther + 4 < N_HUP
BY HelperAssumption, CountAssumption DEF TypeOK, N_CANCEL

(* What a caller may ask for.                                              *)
LEMMA CallTypes ==
  ASSUME NEW c \in Calls
  PROVE  c.isReader \in BOOLEAN /\ c.len \in Nat /\ c.allowPartial \in BOOLEAN
BY HelperAssumption

(* A helper that has just been constructed.                                *)
LEMMA HelperInit == Init => HInv
<1> SUFFICES ASSUME Init PROVE HInv
  OBVIOUS
<1>1. isReader \in BOOLEAN
  BY CallTypes DEF Init
<1>2. /\ Total[isReader] \in Nat /\ Capacity \in Nat /\ MaxOther \in Nat
      /\ LowWater \in Nat /\ LowWater > 0 /\ N_HUP \in Nat
      /\ N_CANCEL = N_HUP + 1 /\ Total[isReader] + MaxOther + 4 < N_HUP
  BY <1>1, HelperAssumption, CountAssumption DEF N_CANCEL
<1>3. /\ allowPartial \in BOOLEAN /\ noSpace \in BOOLEAN /\ ready \in BOOLEAN
      /\ service \in BOOLEAN
  BY Zenon DEF Init
<1>4. TypeOK
  BY <1>1, <1>2, <1>3 DEF Init, TypeOK, Errnos, Events
<1>5. Conserved /\ Progress
  BY <1>2 DEF Init, Conserved, Progress, Busy
<1>6. Counters /\ HupNoted /\ DataNoted
  BY <1>2 DEF Init, Counters, One, Edges, Hup, HupNoted, DataNoted
<1> QED
  BY <1>4, <1>5, <1>6 DEF HInv

(* One read or write moves no more than there is and no more than is left. *)
LEMMA AmountBounds ==
  ASSUME HInv, Busy
  PROVE  /\ Amount \in 0 .. avail /\ Amount \in 0 .. dataLeft
         /\ Amount < dataLeft => Amount = avail
         /\ moved + Amount \in 0 .. Total[isReader]
BY Numbers DEF HInv, TypeOK, Conserved, Progress, Amount

(* What IO does to the call: it returns, or goes on waiting.               *)
LEMMA IOEffect ==
  ASSUME HInv, IO
  PROVE  /\ Busy /\ status = 0 /\ dataLeft' = dataLeft - Amount
         /\ moved' = moved + Amount /\ avail' = avail - Amount
         /\ status' \in {0, -1} /\ intCnt' \in {intCnt, Seen}
         /\ intCnt' # intCnt => Amount < dataLeft
         /\ \/ tpc' = "check" /\ UNCHANGED <<ret, returned>> /\ status' = 0 /\ dataLeft' > 0
               /\ (allowPartial => Amount = 0)
            \/ tpc' = "idle" /\ ret' = len - dataLeft' /\ returned' = returned + ret' /\ ret' > 0
               /\ Amount > 0 /\ (status' = -1 => Amount = avail /\ curCnt >= N_HUP)
            \/ tpc' = "idle" /\ ret' = -1 /\ status' = -1 /\ UNCHANGED returned /\ Amount = avail
               /\ (allowPartial => Amount = 0)
<1>1. Busy /\ status = 0 /\ dataLeft > 0
  BY DEF HInv, Progress, IO, Busy
<1>2. /\ Amount \in 0 .. avail /\ Amount \in 0 .. dataLeft
      /\ Amount < dataLeft => Amount = avail
  BY <1>1, AmountBounds
<1>3. /\ avail \in Nat /\ moved \in Nat /\ len \in Nat /\ dataLeft \in 0 .. len
      /\ curCnt \in Nat /\ N_HUP \in Nat
  BY CallTypes, Numbers DEF HInv, TypeOK
<1>4. dataLeft' = dataLeft - Amount /\ moved' = moved + Amount /\ avail' = avail - Amount
  BY DEF IO, SysCall
<1>5. CASE TransferAll
  BY <1>1, <1>2, <1>3, <1>4, <1>5 DEF TransferAll, Return
<1>6. CASE TransferPartial
  BY <1>1, <1>2, <1>3, <1>4, <1>6 DEF TransferPartial, Return, HupStatus
<1>7. CASE TransferRetry
  BY <1>1, <1>2, <1>3, <1>4, <1>7 DEF TransferRetry, Return, HupStatus
<1> QED
  BY <1>5, <1>6, <1>7 DEF IO

(* A call returns at once, or begins a transfer.                           *)
LEMMA CallEffect ==
  ASSUME HInv, NEW c \in Calls, c.isReader = isReader, Call(c.len, c.allowPartial)
  PROVE  /\ tpc = "idle"
         /\ \/ tpc' = "idle" /\ UNCHANGED <<len, allowPartial, dataLeft, curCnt, returned>>
               /\ ret' = (IF status < 0 THEN status ELSE 0)
               /\ (status < 0 \/ c.len < 1)
            \/ tpc' = "check" /\ status = 0 /\ len' = c.len /\ c.len > 0 /\ dataLeft' = len'
               /\ allowPartial' = c.allowPartial /\ UNCHANGED <<curCnt, ret, returned>>
               /\ (~isReader => moved + len' <= Total[isReader])
<1>1. c.len \in Nat /\ status \in {0, -1, -2}
  BY CallTypes DEF HInv, TypeOK
<1>0. tpc = "idle"
  BY DEF Call
<1>2. CASE Failed \/ c.len < 1
  <2>1. Return(IF Failed THEN status ELSE 0) /\ UNCHANGED <<len, allowPartial, dataLeft, curCnt>>
    BY <1>2 DEF Call
  <2>2. tpc' = "idle" /\ ret' = (IF status < 0 THEN status ELSE 0) /\ returned' = returned
    BY <1>1, <2>1 DEF Return, Failed
  <2> QED
    BY <1>0, <1>2, <2>1, <2>2 DEF Failed
<1>3. CASE ~(Failed \/ c.len < 1)
  <2>1. /\ tpc' = "check" /\ len' = c.len /\ dataLeft' = c.len /\ allowPartial' = c.allowPartial
        /\ UNCHANGED <<curCnt, ret, returned>>
    BY <1>3 DEF Call
  <2>2. status = 0 /\ c.len > 0
    BY <1>1, <1>3 DEF Failed
  <2>3. ~isReader => moved + len' <= Total[isReader]
    BY <1>3, <2>1 DEF Call
  <2> QED
    BY <1>0, <2>1, <2>2, <2>3
<1> QED
  BY <1>2, <1>3
-----------------------------------------------------------------------------
(* Every step keeps the state well typed: no counter leaves its range.     *)
LEMMA TypeStep == HInv /\ [Next]_vars => TypeOK'
<1> SUFFICES ASSUME HInv, [Next]_vars PROVE TypeOK'
  OBVIOUS
<1>0. /\ Total[isReader] \in Nat /\ Capacity \in Nat /\ MaxOther \in Nat
      /\ LowWater \in Nat /\ LowWater > 0 /\ N_HUP \in Nat
      /\ N_CANCEL = N_HUP + 1 /\ Total[isReader] + MaxOther + 4 < N_HUP
      /\ TypeOK
  BY Numbers DEF HInv
<1> USE DEF helperVars, callVars, sockVars, epollVars
<1>1. CASE Supply
  <2>1. ready' \in BOOLEAN /\ noSpace' \in BOOLEAN
    BY <1>0, <1>1, Zenon DEF Supply, TypeOK
  <2>2. supplied' \in 0 .. Total[isReader]
        /\ avail' \in 0 .. (IF isReader THEN Total[isReader] ELSE Capacity)
    BY <1>0, <1>1 DEF Supply, TypeOK, HInv, Conserved
  <2> QED
    BY <1>0, <1>1, <2>1, <2>2 DEF Supply, TypeOK
<1>2. CASE PeerCloses \/ OtherEdge
  <2>1. ready' \in BOOLEAN
    BY <1>2, Zenon DEF PeerCloses, OtherEdge
  <2> QED
    BY <1>0, <1>2, <2>1 DEF PeerCloses, OtherEdge, TypeOK
<1>3. CASE EpollWait
  <2>1. ready' \in BOOLEAN /\ noSpace' \in BOOLEAN
    BY <1>3, Zenon DEF EpollWait
  <2> QED
    BY <1>0, <1>3, <2>1 DEF EpollWait, TypeOK, Mask
<1>4. CASE ProcessEvents
  BY <1>0, <1>4 DEF ProcessEvents, NotifyHUP, NotifyDataAvail, TypeOK
<1>5. CASE CancelAll
  <2>1. service' \in BOOLEAN
    BY <1>5, Zenon DEF CancelAll
  <2> QED
    BY <1>0, <1>5, <2>1 DEF CancelAll, TypeOK
<1>6. CASE Caller
  <2>1. PICK c \in Calls : c.isReader = isReader /\ Call(c.len, c.allowPartial)
    BY <1>6 DEF Caller
  <2>2. UNCHANGED <<helperVars, errno, sockVars, epollVars>>
    BY <2>1 DEF Call
  <2>3. c.len \in Nat /\ c.allowPartial \in BOOLEAN
    BY CallTypes
  <2>4. tpc' \in {"idle", "check"} /\ ret' \in {-1, -2} \cup 0 .. Total[isReader]
        /\ UNCHANGED <<curCnt, returned>>
    BY <1>0, <2>1, CallEffect DEF TypeOK
  <2>5. len' \in {0} \cup {k.len : k \in Calls} /\ dataLeft' \in 0 .. len' /\ allowPartial' \in BOOLEAN
    BY <1>0, <2>1, <2>3, CallEffect DEF TypeOK
  <2> QED
    BY <1>0, <2>2, <2>4, <2>5 DEF TypeOK
<1>7. CASE OtherCalls \/ Check \/ Wake \/ Timeout \/ Cancelled \/ Shutdown
  BY <1>0, <1>7 DEF OtherCalls, Check, Wake, Timeout, Cancelled, Shutdown, Return, TypeOK
<1>8. CASE IO
  <2>1. noSpace' \in BOOLEAN
    BY <1>8, Zenon DEF IO, SysCall
  <2>2. errno' \in Errnos
    BY <1>0, <1>8 DEF IO, SysCall, TypeOK, Errnos
  <2>3. /\ Amount \in 0 .. avail /\ Amount \in 0 .. dataLeft
        /\ moved + Amount \in 0 .. Total[isReader]
    BY <1>8, AmountBounds DEF IO, Busy
  <2>4. len \in Nat
    BY <1>0, CallTypes DEF TypeOK
  <2>5. /\ moved' \in 0 .. Total[isReader] /\ dataLeft' \in 0 .. len
        /\ avail' \in 0 .. (IF isReader THEN Total[isReader] ELSE Capacity)
    BY <1>0, <1>8, <2>3, <2>4, IOEffect DEF TypeOK
  <2>6. ret' \in {-1, -2} \cup 0 .. Total[isReader] /\ returned' \in 0 .. Total[isReader]
    <3>1. returned + (len - dataLeft) <= moved
      BY <1>8 DEF HInv, Progress, IO, Busy
    <3> QED
      BY <1>0, <1>8, <2>3, <2>4, <3>1, IOEffect DEF TypeOK
  <2>7. tpc' \in {"idle", "check"} /\ status' \in {0, -1} /\ intCnt' \in 0 .. (N_HUP - 1)
    BY <1>0, <1>8, IOEffect DEF TypeOK, Seen
  <2>8. UNCHANGED <<isReader, extCnt, len, allowPartial, curCnt, epollVars, supplied, peer>>
    BY <1>8 DEF IO, SysCall
  <2> QED
    BY <1>0, <2>1, <2>2, <2>5, <2>6, <2>7, <2>8 DEF TypeOK
<1>9. CASE UNCHANGED vars
  BY <1>0, <1>9 DEF vars, TypeOK
<1> QED
  BY <1>1, <1>2, <1>3, <1>4, <1>5, <1>6, <1>7, <1>8, <1>9 DEF Next, Service, Transfer

(* The bytes are conserved by the socket, read and write.                  *)
LEMMA ConservedStep == HInv /\ [Next]_vars => Conserved'
<1> SUFFICES ASSUME HInv, [Next]_vars PROVE Conserved'
  OBVIOUS
<1>0. /\ Total[isReader] \in Nat /\ Capacity \in Nat /\ TypeOK /\ Conserved
  BY Numbers DEF HInv
<1> USE DEF helperVars, callVars, sockVars, epollVars, Conserved
<1>1. CASE Supply \/ PeerCloses
  BY <1>0, <1>1 DEF Supply, PeerCloses, TypeOK
<1>2. CASE IO
  <2>1. /\ Amount \in 0 .. avail /\ moved' = moved + Amount /\ avail' = avail - Amount
        /\ moved' \in 0 .. Total[isReader]
    BY <1>2, AmountBounds, IOEffect
  <2> QED
    BY <1>0, <1>2, <2>1 DEF IO, SysCall, TypeOK
<1>3. CASE UNCHANGED <<isReader, avail, moved, supplied, peer>>
  BY <1>0, <1>3
<1> QED
  BY <1>1, <1>2, <1>3 DEF Next, OtherEdge, Service, EpollWait, ProcessEvents, CancelAll, Caller, Call,
     OtherCalls, Transfer, Check, Wake, Cancelled, Timeout, Shutdown, vars

(* A transfer accounts for what it has moved.                              *)
LEMMA ProgressStep == HInv /\ [Next]_vars => Progress'
<1> SUFFICES ASSUME HInv, [Next]_vars PROVE Progress'
  OBVIOUS
<1>0. /\ Total[isReader] \in Nat /\ len \in Nat /\ TypeOK /\ Progress
  BY Numbers, CallTypes DEF HInv, TypeOK
<1> USE DEF helperVars, callVars, sockVars, epollVars, Progress, Busy
<1>1. CASE Caller
  <2>1. PICK c \in Calls : c.isReader = isReader /\ Call(c.len, c.allowPartial)
    BY <1>1 DEF Caller
  <2>2. UNCHANGED <<isReader, status, moved>> /\ c.len \in Nat
    BY <2>1, CallTypes DEF Call
  <2> QED
    BY <1>0, <2>1, <2>2, CallEffect DEF TypeOK
<1>2. CASE Check \/ Wake \/ Timeout \/ Cancelled \/ Shutdown
  BY <1>0, <1>2 DEF Check, Wake, Timeout, Cancelled, Shutdown, Return, TypeOK
<1>3. CASE IO
  <2>1. /\ Amount \in 0 .. dataLeft /\ moved' = moved + Amount /\ dataLeft' = dataLeft - Amount
        /\ UNCHANGED <<isReader, len, allowPartial>> /\ tpc = "io"
    BY <1>3, AmountBounds, IOEffect DEF IO
  <2>2. CASE tpc' = "check"
    <3>1. /\ UNCHANGED <<ret, returned>> /\ status' = 0 /\ dataLeft' > 0
          /\ (allowPartial => Amount = 0)
      BY <1>3, <2>2, IOEffect
    <3>2. allowPartial' => dataLeft' = len'
      BY <1>0, <2>1, <3>1 DEF TypeOK
    <3>3. ~isReader' => moved' + dataLeft' <= Total[isReader']
      BY <1>0, <2>1 DEF TypeOK
    <3>4. returned' + (len' - dataLeft') <= moved'
      BY <1>0, <2>1, <3>1 DEF TypeOK
    <3> QED
      BY <2>2, <3>1, <3>2, <3>3, <3>4
  <2>3. CASE tpc' = "idle"
    <3>1. returned' <= moved'
      <4>1. returned + (len - dataLeft) <= moved
        BY <1>0, <2>1
      <4>2. \/ returned' = returned + ret' /\ ret' = len - dataLeft'
            \/ returned' = returned
        BY <1>3, <2>3, IOEffect
      <4> QED
        BY <1>0, <2>1, <4>1, <4>2 DEF TypeOK
    <3>2. returned' \in Nat
      BY TypeStep, <1>0, <2>1 DEF TypeOK
    <3> QED
      BY <2>3, <3>1, <3>2
  <2> QED
    BY <1>3, <2>2, <2>3, IOEffect
<1>4. CASE UNCHANGED <<isReader, status, tpc, len, allowPartial, dataLeft, returned, moved>>
  BY <1>0, <1>4
<1> QED
  BY <1>1, <1>2, <1>3, <1>4 DEF Next, Supply, PeerCloses, OtherEdge, Service, EpollWait, ProcessEvents,
     CancelAll, OtherCalls, Transfer, vars

(* Every notification is counted, and counts no more than one edge.        *)
LEMMA CountersStep == HInv /\ [Next]_vars => Counters'
<1> SUFFICES ASSUME HInv, [Next]_vars PROVE Counters'
  OBVIOUS
<1>0. /\ Total[isReader] \in Nat /\ MaxOther \in Nat /\ N_HUP \in Nat
      /\ N_CANCEL = N_HUP + 1 /\ Total[isReader] + MaxOther + 4 < N_HUP
      /\ TypeOK /\ Counters
  BY Numbers DEF HInv
<1> USE DEF helperVars, callVars, sockVars, epollVars
<1>1. CASE Supply \/ OtherEdge
  BY <1>0, <1>1 DEF Supply, OtherEdge, TypeOK, Counters, One, Edges, Hup
<1>2. CASE PeerCloses
  BY <1>0, <1>2 DEF PeerCloses, TypeOK, Counters, One, Edges, Hup
<1>3. CASE EpollWait
  BY <1>0, <1>3 DEF EpollWait, Mask, TypeOK, Counters, One, Edges, Hup
<1>4. CASE ProcessEvents
  BY <1>0, <1>4 DEF ProcessEvents, NotifyHUP, NotifyDataAvail, TypeOK, Counters, One, Edges, Hup
<1>5. CASE CancelAll
  BY <1>0, <1>5 DEF CancelAll, TypeOK, Counters, One, Edges, Hup
<1>6. CASE Check
  BY <1>0, <1>6 DEF Check, TypeOK, Counters, One, Edges, Hup
<1>7. CASE IO
  <2>1. tpc' # "io" /\ tpc = "io" /\ intCnt' \in {intCnt, curCnt}
    BY <1>7, IOEffect DEF IO, Seen
  <2> QED
    BY <1>0, <1>7, <2>1 DEF IO, SysCall, TypeOK, Counters, One, Edges, Hup
<1>8. CASE tpc' # "io" /\ UNCHANGED <<isReader, extCnt, intCnt, supplied, peer, epollVars>>
  BY <1>0, <1>8 DEF TypeOK, Counters, One, Edges, Hup
<1>9. CASE UNCHANGED vars
  BY <1>0, <1>9 DEF vars, TypeOK, Counters, One, Edges, Hup
<1>10. CASE Caller
  <2>1. tpc' # "io"
    BY <1>10, CallEffect DEF Caller
  <2> QED
    BY <1>8, <1>10, <2>1 DEF Caller, Call
<1>11. CASE OtherCalls \/ Wake \/ Cancelled \/ Timeout \/ Shutdown
  BY <1>8, <1>11 DEF OtherCalls, Wake, Cancelled, Timeout, Shutdown, Return
<1> QED
  BY <1>1, <1>2, <1>3, <1>4, <1>5, <1>6, <1>7, <1>9, <1>10, <1>11 DEF Next, Service, Transfer

(* The end of the connection is never forgotten.                           *)
LEMMA HupStep == HInv /\ [Next]_vars => HupNoted'
<1> SUFFICES ASSUME HInv, [Next]_vars PROVE HupNoted'
  OBVIOUS
<1>0. N_HUP \in Nat /\ N_CANCEL = N_HUP + 1 /\ TypeOK /\ HupNoted
  BY Numbers DEF HInv
<1> USE DEF helperVars, callVars, sockVars, epollVars, HupNoted, Hup
<1>1. CASE Supply \/ PeerCloses \/ OtherEdge
  BY <1>0, <1>1 DEF Supply, PeerCloses, OtherEdge
<1>2. CASE EpollWait
  BY <1>0, <1>2 DEF EpollWait, Mask, Events
<1>3. CASE ProcessEvents
  BY <1>0, <1>3 DEF ProcessEvents, NotifyHUP, NotifyDataAvail, TypeOK
<1>4. CASE CancelAll
  BY <1>4 DEF CancelAll
<1>5. CASE UNCHANGED <<isReader, extCnt, peer, epollVars>>
  BY <1>0, <1>5
<1> QED
  BY <1>1, <1>2, <1>3, <1>4, <1>5 DEF Next, Service, Caller, Call, OtherCalls, Transfer, Check, Wake,
     Cancelled, IO, SysCall, Timeout, Shutdown, vars

(* Data and space are never forgotten: the helper sleeps only on a socket  *)
(* it has exhausted, or with an edge still to come.                        *)
LEMMA DataStep == HInv /\ [Next]_vars => DataNoted'
<1> SUFFICES ASSUME HInv, [Next]_vars PROVE DataNoted'
  OBVIOUS
<1>0. /\ N_HUP \in Nat /\ N_CANCEL = N_HUP + 1 /\ LowWater \in Nat /\ LowWater > 0
      /\ TypeOK /\ DataNoted /\ Counters /\ Conserved /\ avail \in Nat
  BY Numbers DEF HInv, TypeOK
<1> USE DEF helperVars, callVars, sockVars, epollVars, DataNoted
<1>1. CASE Supply
  BY <1>0, <1>1 DEF Supply, TypeOK
<1>2. CASE PeerCloses \/ OtherEdge
  BY <1>0, <1>2 DEF PeerCloses, OtherEdge
<1>3. CASE EpollWait
  <2>1. CASE isReader
    BY <1>0, <1>3, <2>1 DEF EpollWait, Mask, Events
  <2>2. CASE ~isReader /\ avail < LowWater
    <3>1. noSpace' /\ avail' = avail /\ isReader' = isReader
      BY <1>3, <2>2 DEF EpollWait
    <3> QED
      BY <2>2, <3>1
  <2>3. CASE ~isReader /\ avail >= LowWater
    <3>1. "data" \in Mask
      BY <2>3 DEF Mask, Events
    <3>2. ev' = Mask
      BY <1>3 DEF EpollWait
    <3> QED
      BY <3>1, <3>2
  <2> QED
    BY <1>0, <2>1, <2>2, <2>3
<1>4. CASE ProcessEvents
  BY <1>0, <1>4 DEF ProcessEvents, NotifyHUP, NotifyDataAvail, TypeOK, Counters
<1>5. CASE CancelAll
  BY <1>5 DEF CancelAll
<1>6. CASE IO
  <2>1. /\ Amount < dataLeft => Amount = avail
        /\ Amount \in 0 .. dataLeft /\ dataLeft \in Nat
    <3>1. Busy /\ dataLeft \in Nat
      BY <1>0, <1>6, CallTypes DEF IO, Busy, TypeOK
    <3> QED
      BY <3>1, AmountBounds
  <2>2. UNCHANGED <<isReader, extCnt, ready, ev, service>> /\ tpc = "io"
    BY <1>6 DEF IO
  <2>3. avail' = avail - Amount /\ (intCnt' # intCnt => Amount < dataLeft)
    BY <1>6, IOEffect
  <2>4. CASE intCnt' = intCnt
    BY <1>0, <2>2, <2>4 DEF Counters, TypeOK
  <2>5. CASE intCnt' # intCnt
    <3>1. avail' = 0 /\ Amount < dataLeft
      BY <1>0, <2>1, <2>3, <2>5
    <3>2. ~isReader => noSpace'
      BY <1>6, <3>1 DEF IO, SysCall
    <3> QED
      BY <1>0, <2>2, <3>1, <3>2
  <2> QED
    BY <2>4, <2>5
<1>7. CASE UNCHANGED <<isReader, extCnt, intCnt, avail, noSpace, epollVars>>
  BY <1>0, <1>7
<1> QED
  BY <1>1, <1>2, <1>3, <1>4, <1>5, <1>6, <1>7 DEF Next, Service, Caller, Call, OtherCalls, Transfer, Check,
     Wake, Cancelled, Timeout, Shutdown, vars
-----------------------------------------------------------------------------
(* The inductive invariant, for every helper.                              *)
LEMMA HelperStep == HInv /\ [Next]_vars => HInv'
BY TypeStep, ConservedStep, ProgressStep, CountersStep, HupStep, DataStep DEF HInv

(* HInv: bytes are conserved, a transfer accounts for what it has moved,   *)
(* every count of a notification is an edge of the socket, and what epoll  *)
(* owes the helper is not forgotten.                                       *)
THEOREM HelperInductive == Spec => []HInv
BY HelperInit, HelperStep, PTL DEF Spec

(* The type invariant: the counters stay in their ranges, the bytes within *)
(* what the peer and the buffer allow.                                     *)
THEOREM HelperTypeCorrect == Spec => []TypeOK
<1>1. HInv => TypeOK
  BY DEF HInv
<1> QED
  BY <1>1, HelperInductive, PTL

(* No wake-up is lost: a helper that would sleep although its socket has   *)
(* something for it has a notification under way.                          *)
THEOREM NoWakeupIsLost == Spec => []NoLostWakeup
<1>1. HInv => NoLostWakeup
  <2> SUFFICES ASSUME HInv, service, WouldSleep, Mask # {}, ~ready, ev = {}
               PROVE  FALSE
    BY DEF NoLostWakeup
  <2>0. N_HUP \in Nat /\ LowWater \in Nat /\ LowWater > 0 /\ TypeOK
    BY Numbers DEF HInv
  <2>1. extCnt <= intCnt /\ extCnt < N_HUP
    BY <2>0 DEF WouldSleep, TypeOK
  <2>2. ~Hup
    BY <2>0, <2>1 DEF HInv, HupNoted, TypeOK
  <2>3. avail < (IF isReader THEN 1 ELSE LowWater)
    BY <2>0, <2>1 DEF HInv, DataNoted, TypeOK
  <2>4. "hup" \notin Mask /\ "data" \notin Mask
    BY <2>0, <2>2, <2>3 DEF Mask, Hup, TypeOK
  <2> QED
    BY <2>4 DEF Mask, Events
<1> QED
  BY <1>1, HelperInductive, PTL
-----------------------------------------------------------------------------
(* Without a hup and with nothing moved, read and write report EAGAIN.     *)
LEMMA ErrnoIsHonest ==
  ASSUME SysCall, Amount = 0, errno' # "EAGAIN"
  PROVE  Hup
BY DEF SysCall, Hup

(* A partial transfer fails on a hup, with nothing left to read.           *)
LEMMA PartialFailure ==
  ASSUME HInv, IO, allowPartial, status' = -1
  PROVE  Hup /\ avail' = 0
<1>1. /\ Busy /\ avail' = avail - Amount /\ Amount = avail /\ avail \in Nat
  BY IOEffect DEF HInv, TypeOK
<1>2. N_HUP \in Nat /\ N_CANCEL = N_HUP + 1 /\ curCnt \in Nat /\ curCnt <= extCnt
      /\ curCnt # N_CANCEL /\ curCnt \in 0 .. N_CANCEL /\ extCnt \in 0 .. N_CANCEL
  BY Numbers DEF HInv, TypeOK, Counters, IO
<1>3. curCnt >= N_HUP => Hup
  BY <1>2 DEF HInv, Counters, IO
<1>4. CASE TransferAll
  BY <1>4, IOEffect DEF TransferAll
<1>5. CASE TransferPartial
  BY <1>1, <1>2, <1>3, <1>5, IOEffect DEF TransferPartial, HupStatus
<1>6. CASE TransferRetry
  <2>1. Amount = 0 /\ (errno' # "EAGAIN" \/ curCnt >= N_HUP)
    BY <1>2, <1>6, IOEffect DEF TransferRetry, HupStatus
  <2> QED
    BY <1>1, <1>3, <2>1, ErrnoIsHonest DEF IO
<1> QED
  BY <1>1, <1>3, <1>4, <1>5, <1>6 DEF IO

(* Partial transfers return at once what they move.                        *)
LEMMA PartialStep == HInv /\ PartialInv /\ [Next]_vars => PartialInv'
<1> SUFFICES ASSUME HInv, PartialInv, [Next]_vars, PartialOnly'
             PROVE  /\ returned' = moved'
                    /\ Busy' => allowPartial'
                    /\ isReader' /\ status' = -1 /\ peer' # "reset" => peer' = "fin" /\ avail' = 0
  BY DEF PartialInv
<1> USE DEF helperVars, callVars, sockVars, epollVars
<1>0. isReader' = isReader
  BY DEF Next, Supply, PeerCloses, OtherEdge, Service, EpollWait, ProcessEvents, CancelAll, Caller, Call,
     OtherCalls, Transfer, Check, Wake, Cancelled, IO, Timeout, Shutdown, vars
<1>1. /\ PartialOnly /\ returned = moved /\ (Busy => allowPartial)
      /\ isReader /\ status = -1 /\ peer # "reset" => peer = "fin" /\ avail = 0
  BY <1>0 DEF PartialInv, PartialOnly
<1>2. CASE Supply \/ PeerCloses
  BY <1>1, <1>2 DEF Supply, PeerCloses, Busy
<1>3. CASE Caller
  <2>1. PICK c \in Calls : c.isReader = isReader /\ Call(c.len, c.allowPartial)
    BY <1>3 DEF Caller
  <2>2. UNCHANGED <<helperVars, sockVars, returned>>
    BY <2>1, CallEffect DEF Call
  <2>3. Busy' => allowPartial'
    BY <1>1, <2>1, CallEffect DEF PartialOnly, Busy
  <2> QED
    BY <1>1, <2>2, <2>3
<1>4. CASE IO
  <2>1. allowPartial /\ allowPartial' = allowPartial /\ peer' = peer
    BY <1>1, <1>4 DEF IO, SysCall, Busy
  <2>2. returned' = moved'
    <3>1. /\ moved' = moved + Amount /\ dataLeft' = dataLeft - Amount
          /\ \/ returned' = returned /\ Amount = 0
             \/ returned' = returned + ret' /\ ret' = len - dataLeft'
      BY <1>4, <2>1, IOEffect
    <3>2. dataLeft = len /\ Amount \in 0 .. dataLeft /\ len \in Nat /\ moved \in Nat
      BY <1>4, <2>1, AmountBounds, IOEffect, CallTypes DEF HInv, Progress, TypeOK
    <3> QED
      BY <1>1, <3>1, <3>2
  <2>3. status' = -1 => Hup /\ avail' = 0
    BY <1>4, <2>1, PartialFailure
  <2> QED
    BY <1>0, <2>1, <2>2, <2>3 DEF Hup
<1>5. CASE OtherEdge \/ EpollWait \/ ProcessEvents \/ CancelAll \/ OtherCalls
  BY <1>1, <1>5 DEF OtherEdge, EpollWait, ProcessEvents, CancelAll, OtherCalls, Busy
<1>6. CASE Check \/ Wake \/ Cancelled \/ Timeout \/ Shutdown
  BY <1>1, <1>6 DEF Check, Wake, Cancelled, Timeout, Shutdown, Return, Busy
<1>7. CASE UNCHANGED vars
  BY <1>1, <1>7 DEF vars, Busy
<1> QED
  BY <1>2, <1>3, <1>4, <1>5, <1>6, <1>7 DEF Next, Service, Transfer

(* The same for a whole behaviour.                                         *)
LEMMA PartialAlways == Spec => [](HInv /\ PartialInv)
<1>1. Init => PartialInv
  BY DEF Init, PartialInv, Busy
<1> QED
  BY <1>1, PartialStep, HelperInit, HelperStep, PTL DEF Spec

(* A caller whose transfers may be partial is handed every byte that read  *)
(* or write has moved, whatever notification, timeout or hup intervenes.   *)
THEOREM NothingIsDropped == Spec => []NothingDropped
<1>1. PartialInv => NothingDropped
  BY DEF PartialInv, PartialOnly, NothingDropped
<1> QED
  BY <1>1, PartialAlways, PTL

(* A reader whose transfers may be partial, as those of a tunnel are, does *)
(* not fail before it has delivered all that a peer sent which closed in   *)
(* order.  (The exact reads of the handshake may: see FailsOnlyOnError.)   *)
THEOREM NoTruncationByPartialReads ==
  ASSUME \A c \in Calls : c.isReader => c.allowPartial
  PROVE  Spec => []NoTruncation
<1>1. HInv /\ PartialInv => NoTruncation
  <2> SUFFICES ASSUME HInv, PartialInv, isReader, status = -1, peer # "reset"
               PROVE  peer = "fin" /\ returned = supplied
    BY DEF NoTruncation
  <2>1. PartialOnly
    BY CallTypes DEF PartialOnly
  <2>2. returned = moved /\ peer = "fin" /\ avail = 0
    BY <2>1 DEF PartialInv
  <2>3. moved \in Nat /\ supplied \in Nat /\ avail + moved = supplied + 0
    BY Numbers DEF HInv, TypeOK, Conserved
  <2> QED
    BY <2>2, <2>3
<1> QED
  BY <1>1, PartialAlways, PTL
-----------------------------------------------------------------------------
(* The refinement.  What the contract keeps of a call changes only in the  *)
(* steps below; the others are stutters of it.                             *)
LEMMA Stutter ==
  ASSUME UNCHANGED <<extCnt, status, len, allowPartial, dataLeft, ret, moved>>, Busy' = Busy
  PROVE  UNCHANGED Contract!vars
BY DEF Contract!vars, Busy

(* A notification is a Notice, or says nothing new.                        *)
LEMMA NotifyRefines ==
  ASSUME HInv, ProcessEvents \/ CancelAll
  PROVE  Contract!Notice \/ UNCHANGED Contract!vars
<1>1. N_HUP \in Nat /\ N_CANCEL = N_HUP + 1 /\ extCnt \in 0 .. N_CANCEL
  BY Numbers DEF HInv, TypeOK
<1>2. /\ extCnt' \in Nat /\ extCnt <= extCnt' /\ extCnt' <= N_CANCEL
      /\ UNCHANGED <<status, len, allowPartial, dataLeft, ret, moved, tpc>>
  BY <1>1 DEF ProcessEvents, CancelAll, NotifyHUP, NotifyDataAvail, callVars, sockVars
<1> QED
  BY <1>1, <1>2 DEF Contract!Notice, Contract!vars, Contract!callVars

(* Entry and early return.                                                 *)
LEMMA CallRefines ==
  ASSUME HInv, Caller
  PROVE  \E n \in {c.len : c \in Calls}, p \in {c.allowPartial : c \in Calls} : Contract!Begin(n, p)
<1>1. PICK c \in Calls : c.isReader = isReader /\ Call(c.len, c.allowPartial)
  BY DEF Caller
<1>2. UNCHANGED <<extCnt, status, moved>> /\ c.len \in Nat /\ status \in {0, -1, -2}
  BY <1>1, CallTypes DEF Call, helperVars, sockVars, HInv, TypeOK
<1>3. Contract!Begin(c.len, c.allowPartial)
  BY <1>1, <1>2, CallEffect DEF Contract!Begin, Contract!callVars
<1> QED
  BY <1>3

(* One read or write and what Transfer makes of it.                        *)
LEMMA IORefines ==
  ASSUME HInv, IO
  PROVE  \E k \in 0 .. dataLeft : Contract!Move(k)
<1>1. /\ Amount \in 0 .. dataLeft /\ moved + Amount \in 0 .. Total[isReader]
      /\ dataLeft \in Nat /\ len \in Nat /\ moved \in Nat
  BY AmountBounds, IOEffect, CallTypes DEF HInv, TypeOK
<1>2. moved + Amount <= Total[TRUE] + Total[FALSE]
  <2>1. Total[TRUE] \in Nat /\ Total[FALSE] \in Nat
    BY HelperAssumption
  <2>2. isReader \in BOOLEAN
    BY DEF HInv, TypeOK
  <2>3. Total[isReader] = Total[TRUE] \/ Total[isReader] = Total[FALSE]
    BY <2>2, Zenon
  <2>4. moved + Amount <= Total[isReader] /\ moved \in Nat /\ Amount \in Nat
    BY <1>1
  <2>5. moved + Amount <= Total[TRUE] \/ moved + Amount <= Total[FALSE]
    BY <2>3, <2>4, Zenon
  <2>6. \A x, t, f \in Nat : x <= t \/ x <= f => x <= t + f
    OBVIOUS
  <2>7. moved + Amount \in Nat
    BY <2>4
  <2> QED
    BY <2>1, <2>5, <2>6, <2>7, Zenon
<1>3. UNCHANGED <<extCnt, len, allowPartial>> /\ tpc = "io"
  BY DEF IO
<1>4. N_HUP \in Nat /\ extCnt \in Nat /\ curCnt \in Nat /\ curCnt <= extCnt
  BY <1>3, Numbers DEF HInv, TypeOK, Counters
<1>5. status = 0 /\ dataLeft' = dataLeft - Amount /\ moved' = moved + Amount
  BY IOEffect
<1>6. \/ /\ dataLeft' = 0
         /\ tpc' = "idle" /\ ret' = len /\ status' = status
      \/ /\ dataLeft' > 0 /\ Amount > 0 /\ allowPartial
         /\ tpc' = "idle" /\ ret' = len - dataLeft'
         /\ status' = status \/ (extCnt >= N_HUP /\ status' = -1)
      \/ /\ dataLeft' > 0 /\ ~(Amount > 0 /\ allowPartial)
         /\ \/ tpc' = "check" /\ status' = status /\ ret' = ret
            \/ tpc' = "idle" /\ status' = -1 /\ ret' = -1
  <2>1. CASE TransferAll
    BY <1>1, <1>5, <2>1 DEF TransferAll, Return
  <2>2. CASE TransferPartial
    BY <1>1, <1>4, <1>5, <2>2 DEF TransferPartial, HupStatus, Return
  <2>3. CASE TransferRetry
    BY <1>1, <1>5, <2>3, IOEffect DEF TransferRetry, HupStatus, Return
  <2> QED
    BY <2>1, <2>2, <2>3 DEF IO
<1>7. Contract!Move(Amount)
  <2>1. (tpc # "idle") /\ moved + Amount <= Total[TRUE] + Total[FALSE]
        /\ moved' = moved + Amount /\ dataLeft' = dataLeft - Amount
        /\ UNCHANGED <<extCnt, len, allowPartial>>
    BY <1>2, <1>3, <1>5
  <2>2. CASE dataLeft' = 0 /\ tpc' = "idle" /\ ret' = len /\ status' = status
    BY <2>1, <2>2 DEF Contract!Move, Contract!callVars
  <2>3. CASE /\ dataLeft' > 0 /\ Amount > 0 /\ allowPartial
             /\ tpc' = "idle" /\ ret' = len - dataLeft'
             /\ status' = status \/ (extCnt >= N_HUP /\ status' = -1)
    <3>1. (IF extCnt < N_HUP THEN 0 ELSE IF extCnt = N_HUP THEN -1 ELSE -2) < 0
            \/ status' = status
      BY <1>4, <2>3
    <3> QED
      BY <2>1, <2>3, <3>1 DEF Contract!Move, Contract!callVars
  <2>4. CASE /\ dataLeft' > 0 /\ ~(Amount > 0 /\ allowPartial)
             /\ \/ tpc' = "check" /\ status' = status /\ ret' = ret
                \/ tpc' = "idle" /\ status' = -1 /\ ret' = -1
    BY <1>3, <2>1, <2>4 DEF Contract!Move, Contract!callVars
  <2> QED
    BY <1>6, <2>2, <2>3, <2>4
<1> QED
  BY <1>1, <1>7

(* A step of TCPCommHelper is a step of the contract or none.              *)
LEMMA ContractStep == HInv /\ [Next]_vars => [Contract!Next]_(Contract!vars)
<1> SUFFICES ASSUME HInv, [Next]_vars PROVE Contract!Next \/ UNCHANGED Contract!vars
  OBVIOUS
<1> USE DEF helperVars, callVars, sockVars, epollVars
<1>1. CASE ProcessEvents \/ CancelAll
  BY <1>1, NotifyRefines DEF Contract!Next
<1>2. CASE Caller
  BY <1>2, CallRefines DEF Contract!Next
<1>3. CASE IO
  BY <1>3, IORefines DEF Contract!Next, Contract!Working
<1>4. CASE Timeout
  <2>1. Contract!GiveUp
    BY <1>4 DEF Timeout, Return, Contract!GiveUp, Contract!callVars, HInv, Progress, Busy
  <2> QED
    BY <2>1 DEF Contract!Next, Contract!Working
<1>5. CASE Cancelled
  <2>1. extCnt = N_CANCEL /\ N_HUP \in Nat /\ N_CANCEL = N_HUP + 1
    BY <1>5, Numbers DEF Cancelled, HInv, TypeOK, Counters
  <2>2. Contract!CancelledReturn
    BY <1>5, <2>1 DEF Cancelled, Return, Contract!CancelledReturn, Contract!callVars
  <2> QED
    BY <2>2 DEF Contract!Next, Contract!Working
<1>6. CASE Shutdown
  BY <1>6 DEF Shutdown, Contract!Shutdown, Contract!callVars, Contract!Next
<1>7. CASE Supply \/ PeerCloses \/ OtherEdge \/ EpollWait \/ OtherCalls \/ Check \/ Wake \/ UNCHANGED vars
  <2>1. UNCHANGED <<extCnt, status, len, allowPartial, dataLeft, ret, moved>>
    BY <1>7 DEF Supply, PeerCloses, OtherEdge, EpollWait, OtherCalls, Check, Wake, vars
  <2>2. Busy' = Busy
    BY <1>7 DEF Supply, PeerCloses, OtherEdge, EpollWait, OtherCalls, Check, Wake, vars, Busy
  <2> QED
    BY <2>1, <2>2, Stutter
<1> QED
  BY <1>1, <1>2, <1>3, <1>4, <1>5, <1>6, <1>7 DEF Next, Service, Transfer

(* TCPCommHelper, with its notifications, sleeps and retries, implements   *)
(* the contract of ICommHelper that the jobs are written against.          *)
THEOREM HelperImplementsContract == Spec => ImplementsCommHelper
<1>1. Init => Contract!Init
  BY HelperAssumption, CountAssumption DEF Init, Contract!Init
<1> QED
  BY <1>1, HelperInductive, ContractStep, PTL DEF Spec, ImplementsCommHelper, Contract!Spec
=============================================================================
