----------------------------- MODULE CommHelper ------------------------------
(***************************************************************************)
(* What ICommHelper promises to the jobs: the contract of Transfer,        *)
(* GetStatus and Shutdown, without notifications, epoll and the socket.    *)
(* TCPCommHelper implements it, Job_TCPTunnel is written against it.       *)
(***************************************************************************)
EXTENDS Integers

CONSTANTS Lens, Partials, MaxMoved   (* MaxMoved bounds the bytes moved    *)

VARIABLES
  noted,      (* 0, or the end of the connection as GetStatus reports it   *)
  status,     (* 0, -1 failed, -2 cancelled or shut down                   *)
  busy,       (* a thread is inside Transfer                               *)
  len, allowPartial, dataLeft, ret,
  moved       (* bytes that went through the socket                        *)

vars == <<noted, status, busy, len, allowPartial, dataLeft, ret, moved>>
callVars == <<len, allowPartial>>

TypeOK ==
  /\ noted \in {0, -1, -2} /\ status \in {0, -1, -2}
  /\ busy \in BOOLEAN /\ allowPartial \in BOOLEAN
  /\ len \in Lens \cup {0} /\ dataLeft \in 0 .. len
  /\ ret \in {-1, -2} \cup 0 .. MaxMoved
  /\ moved \in 0 .. MaxMoved

Init ==
  /\ noted = 0 /\ status = 0
  /\ busy = FALSE /\ len = 0 /\ allowPartial = FALSE /\ dataLeft = 0
  /\ ret = 0 /\ moved = 0

(* GetStatus: a hup or a cancel counts before anybody has met it.          *)
GetStatus == IF noted < 0 THEN noted ELSE status

(* NotifyHUP and Cancel: the end of the connection only gets worse.        *)
Notice ==
  /\ \E n \in {-1, -2} : n < noted /\ noted' = n
  /\ UNCHANGED <<status, busy, callVars, dataLeft, ret, moved>>

Begin(n, p) ==
  /\ ~busy
  /\ IF status < 0 \/ n < 1
       THEN /\ ret' = IF status < 0 THEN status ELSE 0
            /\ UNCHANGED <<busy, callVars, dataLeft>>
       ELSE /\ busy' = TRUE
            /\ len' = n /\ dataLeft' = n /\ allowPartial' = p
            /\ UNCHANGED ret
  /\ UNCHANGED <<noted, status, moved>>

(* One read or write of k bytes and what Transfer makes of it: all of len  *)
(* is returned; a partial transfer returns what it has, perhaps as the     *)
(* last one; otherwise it goes on or fails.                                *)
Move(k) ==
  /\ busy /\ moved + k <= MaxMoved
  /\ moved' = moved + k
  /\ dataLeft' = dataLeft - k
  /\ \/ /\ dataLeft' = 0
        /\ busy' = FALSE /\ ret' = len
        /\ UNCHANGED status
     \/ /\ dataLeft' > 0 /\ k > 0 /\ allowPartial
        /\ busy' = FALSE /\ ret' = len - dataLeft'
        /\ status' = status \/ (noted < 0 /\ status' = -1)
     \/ /\ dataLeft' > 0 /\ ~(k > 0 /\ allowPartial)
        /\ \/ UNCHANGED <<busy, status, ret>>
           \/ busy' = FALSE /\ status' = -1 /\ ret' = -1
  /\ UNCHANGED <<noted, callVars>>

(* Transfer gives up waiting: 0, whatever an exact transfer has moved.     *)
GiveUp ==
  /\ busy
  /\ allowPartial => dataLeft = len
  /\ busy' = FALSE /\ ret' = 0
  /\ UNCHANGED <<noted, status, callVars, dataLeft, moved>>

CancelledReturn ==
  /\ busy /\ noted = -2
  /\ busy' = FALSE /\ status' = -2 /\ ret' = -2
  /\ UNCHANGED <<noted, callVars, dataLeft, moved>>

Shutdown ==
  /\ ~busy
  /\ status' = -2
  /\ UNCHANGED <<noted, busy, callVars, dataLeft, ret, moved>>

Working == CancelledReturn \/ GiveUp \/ \E k \in 0 .. dataLeft : Move(k)

Next == Notice \/ (\E n \in Lens, p \in Partials : Begin(n, p)) \/ Working \/ Shutdown

Spec == Init /\ [][Next]_vars
=============================================================================
