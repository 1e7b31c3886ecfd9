------------------------------ MODULE TCPTunnel ------------------------------
(***************************************************************************)
(* Job_TCPTunnel::Execute: one direction of a tunnel, from the reader of   *)
(* one handler to the writer of the other, each used through the contract  *)
(* CommHelper.  Bytes are numbered in the order in which they are read, so *)
(* the buffer holds the last dr bytes read, and counting the bytes moved   *)
(* tells which of them goes out next.  The two exits in front of the main  *)
(* loop (no two claims, no valid handler) have no action: HandlerClaims    *)
(* shows that a tunnel holds both handlers and that both are open.         *)
(***************************************************************************)
EXTENDS Integers

CONSTANTS
  BuffSz,      (* config.GetTCPBuffSz()                                    *)
  MaxRead,     (* bound: bytes read                                        *)
  MaxWritten   (* bound: bytes written, more than MaxRead                  *)

ASSUME TunnelAssumption ==
  /\ BuffSz \in Nat \ {0} /\ MaxRead \in Nat /\ MaxWritten \in Nat

VARIABLES
  cancel,
  pc,          (* where Execute is                                         *)
  dr,          (* bytes in the buffer                                      *)
  resent,      (* bytes that a repeated Transfer has to write once more    *)
  rNoted, rStatus, rBusy, rLen, rPartial, rLeft, rRet, rMoved,
  wNoted, wStatus, wBusy, wLen, wPartial, wLeft, wRet, wMoved

jobVars == <<cancel, pc, dr, resent>>
rVars == <<rNoted, rStatus, rBusy, rLen, rPartial, rLeft, rRet, rMoved>>
wVars == <<wNoted, wStatus, wBusy, wLen, wPartial, wLeft, wRet, wMoved>>
vars == <<jobVars, rVars, wVars>>

(* rHandler.reader                                                         *)
R == INSTANCE CommHelper WITH
  Lens <- {BuffSz}, Partials <- {TRUE}, MaxMoved <- MaxRead,
  noted <- rNoted, status <- rStatus, busy <- rBusy, len <- rLen, allowPartial <- rPartial,
  dataLeft <- rLeft, ret <- rRet, moved <- rMoved

(* wHandler.writer                                                         *)
W == INSTANCE CommHelper WITH
  Lens <- 1 .. BuffSz, Partials <- {FALSE}, MaxMoved <- MaxWritten,
  noted <- wNoted, status <- wStatus, busy <- wBusy, len <- wLen, allowPartial <- wPartial,
  dataLeft <- wLeft, ret <- wRet, moved <- wMoved

TypeOK ==
  /\ cancel \in BOOLEAN
  /\ pc \in {"loop", "status", "reading", "write", "writing", "track", "end", "ended"}
  /\ dr \in 0 .. BuffSz /\ resent \in 0 .. MaxWritten
  /\ R!TypeOK /\ W!TypeOK

Init ==
  /\ cancel = FALSE /\ pc = "loop" /\ dr = 0 /\ resent = 0
  /\ R!Init /\ W!Init
-----------------------------------------------------------------------------
(* A helper's answer that ends the job: failed, or cancelled.              *)
GoneNotCancelled(r) == r = -1

Gone(r) == r < 0

(* Job_TCPTunnel::Cancel, by the dispatcher that shuts down.               *)
Cancel ==
  /\ ~cancel
  /\ cancel' = TRUE
  /\ UNCHANGED <<pc, dr, resent, rVars, wVars>>

(* while(!cancel.load())                                                   *)
Loop ==
  /\ pc = "loop"
  /\ pc' = IF cancel THEN "end" ELSE "status"
  /\ UNCHANGED <<cancel, dr, resent, rVars, wVars>>

(* "get writer-end current status", then read a buffer, maybe partially.   *)
Read ==
  /\ pc = "status"
  /\ IF Gone(W!GetStatus)
       THEN pc' = "end" /\ UNCHANGED rVars
       ELSE pc' = "reading" /\ R!Begin(BuffSz, TRUE)
  /\ UNCHANGED <<cancel, dr, resent, wVars>>

(* The buffer is filled from its beginning.                                *)
Buffered == rRet

ReadDone ==
  /\ pc = "reading" /\ ~rBusy
  /\ pc' = IF Gone(rRet) THEN "end" ELSE IF rRet = 0 THEN "loop" ELSE "write"
  /\ dr' = IF rRet > 0 THEN Buffered ELSE dr
  /\ UNCHANGED <<cancel, resent, rVars, wVars>>

(* "try to write data we read to writer-end": always from its first byte.  *)
WriteLengthWhole == BuffSz

WriteLength == dr

Write ==
  /\ pc = "write"
  /\ pc' = "writing"
  /\ W!Begin(WriteLength, FALSE)
  /\ UNCHANGED <<cancel, dr, resent, rVars>>

WriteDone ==
  /\ pc = "writing" /\ ~wBusy
  /\ pc' = IF Gone(wRet) THEN "end" ELSE IF wRet = 0 THEN "track" ELSE "loop"
  /\ UNCHANGED <<cancel, dr, resent, rVars, wVars>>

(* "also track reader status"; the buffer is written again otherwise.      *)
TrackReader ==
  /\ pc = "track"
  /\ IF Gone(R!GetStatus)
       THEN pc' = "end" /\ UNCHANGED resent
       ELSE pc' = "write" /\ resent' = resent + (dr - wLeft)
  /\ UNCHANGED <<cancel, dr, rVars, wVars>>

(* Shutdown of both helpers, then the terminal result.                     *)
End ==
  /\ pc = "end"
  /\ pc' = "ended"
  /\ R!Shutdown /\ W!Shutdown
  /\ UNCHANGED <<cancel, dr, resent>>

Ended == pc = "ended" /\ UNCHANGED vars

(* A thread inside Transfer, and the ends of the two connections.          *)
Reading == R!Working /\ UNCHANGED <<jobVars, wVars>>
Writing == W!Working /\ UNCHANGED <<jobVars, rVars>>
ReaderNotice == R!Notice /\ UNCHANGED <<jobVars, wVars>>
WriterNotice == W!Notice /\ UNCHANGED <<jobVars, rVars>>

Job == Loop \/ Read \/ ReadDone \/ Write \/ WriteDone \/ TrackReader \/ End

Next ==
  \/ Job \/ Reading \/ Writing
  \/ ReaderNotice \/ WriterNotice \/ Cancel \/ Ended

Spec == Init /\ [][Next]_vars

(* The job's thread runs on, a waiting Transfer times out, and a cancelled *)
(* one returns.  Peers need not send, take or close anything.              *)
FairSpec ==
  /\ Spec
  /\ WF_vars(Job)
  /\ WF_vars(R!GiveUp /\ UNCHANGED <<jobVars, wVars>>)
  /\ WF_vars(W!GiveUp /\ UNCHANGED <<jobVars, rVars>>)
  /\ WF_vars(R!CancelledReturn /\ UNCHANGED <<jobVars, wVars>>)
  /\ WF_vars(W!CancelledReturn /\ UNCHANGED <<jobVars, rVars>>)
-----------------------------------------------------------------------------
(* Correctness                                                             *)

(* Bytes that were read and have still to be written for the first time or *)
(* once more.                                                              *)
Pending ==
  CASE pc = "reading" /\ ~rBusy /\ rRet > 0 -> rRet
    [] pc = "write" -> dr
    [] pc \in {"writing", "track"} -> wLeft
    [] OTHER -> 0

(* While the tunnel works, the bytes written are the bytes read, in order, *)
(* except the ones that a repeated write sends again: nothing is skipped   *)
(* and nothing is written that was not read.                               *)
StreamAccounted ==
  pc \notin {"end", "ended"} => wMoved - resent = rMoved - Pending

(* Every byte is written once: the socket timeout only sets the "reaction  *)
(* to tunnel disconnection events".                                        *)
EachByteOnce == resent = 0

(* When both connections are cancelled by the service, the job ends.       *)
EndsWhenCancelled == (rNoted = -2 /\ wNoted = -2) ~> pc = "ended"
=============================================================================
