--------------------------- MODULE TCPTunnelProofs ---------------------------
(***************************************************************************)
(* Theorems about TCPTunnel for every size of the buffer and every amount  *)
(* of data.                                                                *)
(***************************************************************************)
EXTENDS TCPTunnel, TLAPS

(* The reader: a partial read moves bytes only in the step that returns    *)
(* them, and what it returns fits the buffer.                              *)
ReadInv ==
  /\ rBusy => pc = "reading" /\ rPartial /\ rLen = BuffSz /\ rLeft = rLen
  /\ rRet <= BuffSz /\ rRet <= rMoved
  /\ dr <= rMoved

(* The writer: it works on the whole buffer, and has failed only if the    *)
(* job is about to learn of it.                                            *)
WriteInv ==
  /\ wBusy => pc = "writing" /\ ~wPartial /\ wLeft > 0
  /\ pc \in {"write", "writing", "track"} => dr > 0
  /\ pc \in {"writing", "track"} => wLen = dr
  /\ pc = "writing" /\ ~wBusy /\ wRet > 0 => wLeft = 0
  /\ wStatus < 0 => pc \in {"end", "ended"} \/ (pc = "writing" /\ ~wBusy /\ wRet < 0)

TInv == TypeOK /\ ReadInv /\ WriteInv /\ StreamAccounted
-----------------------------------------------------------------------------
(* The type invariant, spelled out.                                        *)
LEMMA Types ==
  TypeOK <=>
    /\ cancel \in BOOLEAN
    /\ pc \in {"loop", "status", "reading", "write", "writing", "track", "end", "ended"}
    /\ dr \in 0 .. BuffSz /\ resent \in 0 .. MaxWritten
    /\ rNoted \in {0, -1, -2} /\ rStatus \in {0, -1, -2} /\ rBusy \in BOOLEAN /\ rPartial \in BOOLEAN
    /\ rLen \in {BuffSz, 0} /\ rLeft \in 0 .. rLen /\ rMoved \in 0 .. MaxRead
    /\ rRet \in {-1, -2} \cup 0 .. MaxRead
    /\ wNoted \in {0, -1, -2} /\ wStatus \in {0, -1, -2} /\ wBusy \in BOOLEAN /\ wPartial \in BOOLEAN
    /\ wLen \in 0 .. BuffSz /\ wLeft \in 0 .. wLen /\ wMoved \in 0 .. MaxWritten
    /\ wRet \in {-1, -2} \cup 0 .. MaxWritten
<1>1. BuffSz \in Nat /\ (1 .. BuffSz) \cup {0} = 0 .. BuffSz /\ {BuffSz} \cup {0} = {BuffSz, 0}
  BY TunnelAssumption
<1> QED
  BY <1>1 DEF TypeOK, R!TypeOK, W!TypeOK

(* A tunnel that has just been started.                                    *)
LEMMA TunnelInit == Init => TInv
<1> SUFFICES ASSUME Init PROVE TInv
  OBVIOUS
<1>1. /\ cancel \in BOOLEAN /\ rBusy \in BOOLEAN /\ rPartial \in BOOLEAN
      /\ wBusy \in BOOLEAN /\ wPartial \in BOOLEAN /\ ~rBusy /\ ~wBusy
  BY Zenon DEF Init, R!Init, W!Init
<1>2. TypeOK
  BY <1>1, TunnelAssumption, Types DEF Init, R!Init, W!Init
<1>3. ReadInv /\ WriteInv /\ StreamAccounted
  BY <1>1, TunnelAssumption DEF Init, R!Init, W!Init, ReadInv, WriteInv, StreamAccounted, Pending
<1> QED
  BY <1>2, <1>3 DEF TInv

(* What the reader's Transfer may do next: move bytes and return them,     *)
(* move none and go on, or return 0 or a failure.                          *)
LEMMA ReadingEffect ==
  ASSUME TInv, R!Working
  PROVE  /\ rBusy /\ UNCHANGED <<rNoted, rLen, rPartial>> /\ rStatus' \in {rStatus, -1, -2}
         /\ rBusy' \in BOOLEAN
         /\ \/ \E k \in 1 .. rLeft : /\ rMoved' = rMoved + k /\ rMoved' <= MaxRead
                                     /\ ~rBusy' /\ rRet' = k /\ rLeft' = rLeft - k
            \/ UNCHANGED <<rMoved, rLeft>> /\ rBusy' /\ UNCHANGED rRet
            \/ UNCHANGED <<rMoved, rLeft>> /\ ~rBusy' /\ rRet' \in {0, -1, -2}
<1>1. BuffSz \in Nat /\ BuffSz > 0 /\ TypeOK /\ ReadInv
  BY TunnelAssumption DEF TInv
<1>2. CASE R!CancelledReturn \/ R!GiveUp
  BY <1>2 DEF R!CancelledReturn, R!GiveUp, R!callVars
<1>3. ASSUME NEW k \in 0 .. rLeft, R!Move(k)
      PROVE  /\ rBusy /\ UNCHANGED <<rNoted, rLen, rPartial>> /\ rStatus' \in {rStatus, -1, -2}
             /\ \/ /\ k \in 1 .. rLeft /\ rMoved' = rMoved + k /\ rMoved' <= MaxRead
                   /\ ~rBusy' /\ rRet' = k /\ rLeft' = rLeft - k
                \/ UNCHANGED <<rMoved, rLeft>> /\ rBusy' /\ UNCHANGED rRet
                \/ UNCHANGED <<rMoved, rLeft>> /\ ~rBusy' /\ rRet' \in {0, -1, -2}
  <2>1. /\ rBusy /\ rMoved + k <= MaxRead /\ rMoved' = rMoved + k /\ rLeft' = rLeft - k
        /\ UNCHANGED <<rNoted, rLen, rPartial>>
    BY <1>3 DEF R!Move, R!callVars
  <2>2. rPartial /\ rLen = BuffSz /\ rLeft = BuffSz /\ rMoved \in Nat
    BY <1>1, <2>1, Types DEF ReadInv
  <2>3. \/ rLeft' = 0 /\ ~rBusy' /\ rRet' = rLen /\ UNCHANGED rStatus
        \/ rLeft' > 0 /\ k > 0 /\ ~rBusy' /\ rRet' = rLen - rLeft' /\ rStatus' \in {rStatus, -1}
        \/ rLeft' > 0 /\ ~(k > 0) /\ rBusy' /\ UNCHANGED <<rStatus, rRet>>
        \/ rLeft' > 0 /\ ~(k > 0) /\ ~rBusy' /\ rStatus' = -1 /\ rRet' = -1
    BY <1>3, <2>1, <2>2 DEF R!Move
  <2>4. k \in Nat /\ rLeft' = BuffSz - k /\ BuffSz \in Nat /\ BuffSz > 0
    BY <1>1, <1>3, <2>1, <2>2
  <2>5. CASE k > 0
    <3>1. ~rBusy' /\ rRet' = k /\ rStatus' \in {rStatus, -1}
      BY <2>2, <2>3, <2>4, <2>5
    <3> QED
      BY <1>3, <2>1, <2>5, <3>1
  <2>6. CASE k = 0
    <3>1. rMoved' = rMoved /\ rLeft' = rLeft
      BY <2>1, <2>2, <2>4, <2>6
    <3>2. \/ rBusy' /\ UNCHANGED <<rStatus, rRet>>
          \/ ~rBusy' /\ rStatus' = -1 /\ rRet' = -1
      BY <2>2, <2>3, <2>4, <2>6
    <3> QED
      BY <2>1, <3>1, <3>2
  <2> QED
    BY <2>4, <2>5, <2>6
<1>5. rBusy' \in BOOLEAN
  BY <1>1, Types, Zenon DEF R!Working, R!CancelledReturn, R!GiveUp, R!Move
<1> QED
  BY <1>2, <1>3, <1>5 DEF R!Working

(* The writer's: it moves bytes and returns when all are moved, goes on,   *)
(* or returns 0 or a failure.                                              *)
LEMMA WritingEffect ==
  ASSUME TInv, W!Working
  PROVE  /\ wBusy /\ UNCHANGED <<wNoted, wLen, wPartial>> /\ wStatus' \in {wStatus, -1, -2}
         /\ wBusy' \in BOOLEAN
         /\ \E k \in 0 .. wLeft :
              /\ wMoved' = wMoved + k /\ wMoved' <= MaxWritten /\ wLeft' = wLeft - k
              /\ \/ ~wBusy' /\ wRet' = wLen /\ wLeft' = 0 /\ UNCHANGED wStatus
                 \/ wBusy' /\ UNCHANGED <<wRet, wStatus>> /\ wLeft' > 0
                 \/ ~wBusy' /\ wRet' = 0 /\ UNCHANGED wStatus
                 \/ ~wBusy' /\ wRet' \in {-1, -2}
<1>1. BuffSz \in Nat /\ MaxWritten \in Nat /\ TypeOK /\ WriteInv
  BY TunnelAssumption DEF TInv
<1>2. wMoved \in 0 .. MaxWritten /\ wLeft \in Nat
  BY <1>1, Types
<1>3. CASE W!CancelledReturn \/ W!GiveUp
  <2>1. wMoved' = wMoved + 0 /\ wLeft' = wLeft - 0 /\ 0 \in 0 .. wLeft /\ wMoved' <= MaxWritten
    BY <1>2, <1>3 DEF W!CancelledReturn, W!GiveUp
  <2> QED
    BY <1>3, <2>1 DEF W!CancelledReturn, W!GiveUp, W!callVars
<1>4. ASSUME NEW k \in 0 .. wLeft, W!Move(k)
      PROVE  /\ wBusy /\ UNCHANGED <<wNoted, wLen, wPartial>> /\ wStatus' \in {wStatus, -1, -2}
             /\ wMoved' = wMoved + k /\ wMoved' <= MaxWritten /\ wLeft' = wLeft - k
             /\ \/ ~wBusy' /\ wRet' = wLen /\ wLeft' = 0 /\ UNCHANGED wStatus
                \/ wBusy' /\ UNCHANGED <<wRet, wStatus>> /\ wLeft' > 0
                \/ ~wBusy' /\ wRet' \in {-1, -2}
  <2>1. /\ wBusy /\ wMoved + k <= MaxWritten /\ wMoved' = wMoved + k /\ wLeft' = wLeft - k
        /\ UNCHANGED <<wNoted, wLen, wPartial>>
    BY <1>4 DEF W!Move, W!callVars
  <2>2. ~wPartial
    BY <1>1, <2>1 DEF WriteInv
  <2>3. \/ wLeft' = 0 /\ ~wBusy' /\ wRet' = wLen /\ UNCHANGED wStatus
        \/ wLeft' > 0 /\ wBusy' /\ UNCHANGED <<wStatus, wRet>>
        \/ wLeft' > 0 /\ ~wBusy' /\ wStatus' = -1 /\ wRet' = -1
    BY <1>4, <2>1, <2>2 DEF W!Move
  <2> QED
    BY <1>2, <2>1, <2>3
<1>5. wBusy' \in BOOLEAN
  BY <1>1, Types, Zenon DEF W!Working, W!CancelledReturn, W!GiveUp, W!Move
<1> QED
  BY <1>3, <1>4, <1>5 DEF W!Working
-----------------------------------------------------------------------------
(* Transfer of the reader keeps the invariant: the bytes it moves are the  *)
(* bytes it returns.                                                       *)
LEMMA ReadingStep ==
  ASSUME TInv, Reading
  PROVE  TInv'
<1>0. /\ BuffSz \in Nat /\ BuffSz > 0 /\ MaxRead \in Nat /\ MaxWritten \in Nat
      /\ TypeOK /\ ReadInv /\ WriteInv /\ StreamAccounted
  BY TunnelAssumption DEF TInv
<1>1. UNCHANGED <<jobVars, wVars>>
  BY DEF Reading
<1>2. /\ rBusy /\ UNCHANGED <<rNoted, rLen, rPartial>> /\ rStatus' \in {rStatus, -1, -2}
      /\ rBusy' \in BOOLEAN
  BY ReadingEffect DEF Reading
<1>3. pc = "reading" /\ rPartial /\ rLen = BuffSz /\ rLeft = rLen /\ pc' = pc
  BY <1>0, <1>1, <1>2 DEF ReadInv, jobVars
<1>4. /\ rRet' \in {-1, -2} \cup 0 .. MaxRead /\ rMoved' \in 0 .. MaxRead /\ rLeft' \in 0 .. rLen
      /\ rRet' <= BuffSz /\ rRet' <= rMoved' /\ rMoved <= rMoved' /\ (rBusy' => rLeft' = rLeft)
      /\ rMoved' = rMoved + (IF ~rBusy' /\ rRet' > 0 THEN rRet' ELSE 0)
  <2>1. /\ rMoved \in 0 .. MaxRead /\ rLeft \in Nat
        /\ rRet \in {-1, -2} \cup 0 .. MaxRead /\ rRet <= BuffSz /\ rRet <= rMoved
    BY <1>0, <1>3, Types DEF ReadInv
  <2>2. CASE \E k \in 1 .. rLeft : /\ rMoved' = rMoved + k /\ rMoved' <= MaxRead
                                  /\ ~rBusy' /\ rRet' = k /\ rLeft' = rLeft - k
    BY <1>0, <1>3, <2>1, <2>2
  <2>3. CASE UNCHANGED <<rMoved, rLeft>> /\ rBusy' /\ UNCHANGED rRet
    BY <1>0, <1>3, <2>1, <2>3
  <2>4. CASE UNCHANGED <<rMoved, rLeft>> /\ ~rBusy' /\ rRet' \in {0, -1, -2}
    <3>1. rRet' \in {-1, -2} \cup 0 .. MaxRead /\ rRet' <= 0 /\ ~(rRet' > 0)
      BY <1>0, <2>4
    <3>2. rMoved' = rMoved /\ rLeft' = rLeft /\ ~rBusy' /\ rRet' \in Int
      BY <2>4
    <3> QED
      BY <1>0, <1>3, <2>1, <3>1, <3>2
  <2> QED
    BY <2>2, <2>3, <2>4, ReadingEffect DEF Reading
<1>5. TypeOK'
  <2>1. W!TypeOK'
    BY <1>0, <1>1 DEF TypeOK, W!TypeOK, wVars
  <2>2. R!TypeOK'
    BY <1>0, <1>2, <1>4 DEF TypeOK, R!TypeOK
  <2> QED
    BY <1>0, <1>1, <2>1, <2>2 DEF TypeOK, jobVars
<1>6. ReadInv'
  BY <1>0, <1>1, <1>2, <1>3, <1>4, Types DEF ReadInv, jobVars
<1>7. WriteInv'
  BY <1>0, <1>1 DEF WriteInv, jobVars, wVars
<1>8. StreamAccounted'
  <2>1. Pending = 0
    BY <1>2, <1>3 DEF Pending
  <2>2. wMoved \in Nat /\ resent \in Nat /\ rMoved \in Nat /\ wMoved' = wMoved /\ resent' = resent
    BY <1>0, <1>1, Types DEF jobVars, wVars
  <2>3. wMoved - resent = rMoved
    BY <1>0, <1>3, <2>1, <2>2 DEF StreamAccounted
  <2>4. CASE ~rBusy' /\ rRet' > 0
    <3>1. Pending' = rRet'
      BY <1>3, <2>4 DEF Pending
    <3>2. rMoved' = rMoved + rRet' /\ rRet' \in Int
      BY <1>0, <1>4, <2>4
    <3>3. rMoved' - rRet' = rMoved
      <4>1. \A x, y \in Int : (x + y) - y = x
        OBVIOUS
      <4>2. rMoved \in Int
        BY <2>2
      <4> QED
        BY <3>2, <4>1, <4>2, Zenon
    <3> QED
      BY <2>2, <2>3, <3>1, <3>3, Zenon DEF StreamAccounted
  <2>5. CASE rBusy' \/ ~(rRet' > 0)
    <3>1. Pending' = 0 /\ rMoved' = rMoved + 0
      BY <1>3, <1>4, <2>5 DEF Pending
    <3>2. wMoved' - resent' = rMoved' - 0
      BY <2>2, <2>3, <3>1
    <3> QED
      BY <3>1, <3>2 DEF StreamAccounted
  <2> QED
    BY <2>4, <2>5
<1> QED
  BY <1>5, <1>6, <1>7, <1>8 DEF TInv

(* Transfer of the writer: what it moves is no longer pending.             *)
LEMMA WritingStep ==
  ASSUME TInv, Writing
  PROVE  TInv'
<1>0. /\ BuffSz \in Nat /\ BuffSz > 0 /\ MaxRead \in Nat /\ MaxWritten \in Nat
      /\ TypeOK /\ ReadInv /\ WriteInv /\ StreamAccounted
  BY TunnelAssumption DEF TInv
<1>1. UNCHANGED <<jobVars, rVars>>
  BY DEF Writing
<1>2. /\ wBusy /\ UNCHANGED <<wNoted, wLen, wPartial>> /\ wStatus' \in {wStatus, -1, -2}
      /\ wBusy' \in BOOLEAN
  BY WritingEffect DEF Writing
<1>3. pc = "writing" /\ ~wPartial /\ wLen = dr /\ pc' = pc /\ dr > 0 /\ wStatus = 0
  BY <1>0, <1>1, <1>2, Types DEF WriteInv, jobVars
<1>4. PICK k \in 0 .. wLeft :
        /\ wMoved' = wMoved + k /\ wMoved' <= MaxWritten /\ wLeft' = wLeft - k
        /\ \/ ~wBusy' /\ wRet' = wLen /\ wLeft' = 0 /\ UNCHANGED wStatus
           \/ wBusy' /\ UNCHANGED <<wRet, wStatus>> /\ wLeft' > 0
           \/ ~wBusy' /\ wRet' = 0 /\ UNCHANGED wStatus
           \/ ~wBusy' /\ wRet' \in {-1, -2}
  BY WritingEffect DEF Writing
<1>5. StreamAccounted' /\ wMoved' - resent = rMoved - wLeft'
  <2>1. Pending = wLeft /\ Pending' = wLeft'
    BY <1>3 DEF Pending
  <2>2. wMoved - resent = rMoved - wLeft /\ rMoved' = rMoved /\ resent' = resent
    BY <1>0, <1>1, <1>3, <2>1 DEF StreamAccounted, jobVars, rVars
  <2>3. wMoved \in Nat /\ resent \in Nat /\ rMoved \in Nat /\ wLeft \in Nat
    BY <1>0, Types
  <2> QED
    BY <1>4, <2>1, <2>2, <2>3 DEF StreamAccounted
<1>6. /\ wRet' \in {-1, -2} \cup 0 .. MaxWritten /\ wMoved' \in 0 .. MaxWritten /\ wLeft' \in 0 .. wLen
  <2>1. /\ wMoved \in Nat /\ resent \in Nat /\ rMoved \in Nat /\ wLeft \in Nat /\ wLen \in Nat /\ dr \in Nat
        /\ wRet \in {-1, -2} \cup 0 .. MaxWritten /\ wLeft <= wLen /\ dr <= rMoved
    BY <1>0, Types DEF ReadInv
  <2>2. wLeft' = 0 => wMoved' >= dr
    BY <1>4, <1>5, <2>1
  <2> QED
    BY <1>0, <1>3, <1>4, <2>1, <2>2
<1>7. TypeOK'
  BY <1>0, <1>1, <1>2, <1>3, <1>6, Types DEF TypeOK, R!TypeOK, W!TypeOK, jobVars, rVars
<1>8. ReadInv'
  BY <1>0, <1>1 DEF ReadInv, jobVars, rVars
<1>9. WriteInv'
  <2>1. /\ wBusy' => wLeft' > 0
        /\ ~wBusy' /\ wRet' > 0 => wLeft' = 0
        /\ wStatus' < 0 => ~wBusy' /\ wRet' < 0
    BY <1>3, <1>4
  <2> QED
    BY <1>1, <1>2, <1>3, <2>1 DEF WriteInv, jobVars
<1> QED
  BY <1>5, <1>7, <1>8, <1>9 DEF TInv
(* The steps of the job that leave both helpers alone.                     *)
LEMMA JobAloneStep ==
  ASSUME TInv, Loop \/ ReadDone \/ WriteDone \/ TrackReader \/ Cancel
  PROVE  TInv'
<1>0. /\ BuffSz \in Nat /\ BuffSz > 0 /\ MaxRead \in Nat /\ MaxWritten \in Nat
      /\ TypeOK /\ ReadInv /\ WriteInv /\ StreamAccounted
  BY TunnelAssumption DEF TInv
<1>1. UNCHANGED <<rVars, wVars>> /\ cancel' \in BOOLEAN
  <2>1. UNCHANGED <<rVars, wVars>>
    BY DEF Loop, ReadDone, WriteDone, TrackReader, Cancel
  <2>2. cancel' \in BOOLEAN
    BY <1>0, Zenon DEF Loop, ReadDone, WriteDone, TrackReader, Cancel, TypeOK
  <2> QED
    BY <2>1, <2>2
<1>2. R!TypeOK' /\ W!TypeOK'
  BY <1>0, <1>1 DEF TypeOK, R!TypeOK, W!TypeOK, rVars, wVars
<1>3. /\ wMoved \in 0 .. MaxWritten /\ resent \in Nat /\ rMoved \in Nat /\ wLeft \in 0 .. wLen
      /\ dr \in 0 .. BuffSz /\ rRet \in Int /\ wLen \in Nat /\ wRet \in Int
      /\ UNCHANGED <<wMoved, rMoved, wLeft, wLen, rRet, wRet, rBusy, wBusy>>
  BY <1>0, <1>1, Types DEF rVars, wVars
<1>4. CASE Loop \/ Cancel
  <2>1. /\ UNCHANGED <<dr, resent>>
        /\ pc' = pc \/ (pc = "loop" /\ pc' \in {"end", "status"})
    BY <1>4 DEF Loop, Cancel
  <2>2. Pending' = Pending
    BY <1>3, <2>1 DEF Pending
  <2>3. TypeOK'
    BY <1>0, <1>1, <1>2, <2>1 DEF TypeOK
  <2>4. ReadInv' /\ WriteInv'
    BY <1>0, <1>1, <2>1 DEF ReadInv, WriteInv, rVars, wVars
  <2>5. StreamAccounted'
    BY <1>0, <1>3, <2>1, <2>2 DEF StreamAccounted
  <2> QED
    BY <2>3, <2>4, <2>5 DEF TInv
<1>5. CASE ReadDone
  <2>1. /\ pc = "reading" /\ ~rBusy /\ UNCHANGED resent
        /\ \/ rRet < 0 /\ pc' = "end" /\ dr' = dr
           \/ rRet = 0 /\ pc' = "loop" /\ dr' = dr
           \/ rRet > 0 /\ pc' = "write" /\ dr' = rRet
    BY <1>3, <1>5 DEF ReadDone, Gone, Buffered
  <2>2. rRet <= BuffSz /\ rRet <= rMoved /\ dr <= rMoved
    BY <1>0 DEF ReadInv
  <2>3. TypeOK'
    BY <1>0, <1>1, <1>2, <1>3, <2>1, <2>2 DEF TypeOK
  <2>4. ReadInv'
    BY <1>1, <1>3, <2>1, <2>2 DEF ReadInv
  <2>5. WriteInv'
    BY <1>0, <1>1, <2>1 DEF WriteInv, wVars
  <2>6. StreamAccounted'
    <3>1. pc' # "end" => Pending' = Pending
      BY <1>3, <2>1 DEF Pending
    <3> QED
      BY <1>0, <1>3, <2>1, <3>1 DEF StreamAccounted
  <2> QED
    BY <2>3, <2>4, <2>5, <2>6 DEF TInv
<1>6. CASE WriteDone
  <2>1. /\ pc = "writing" /\ ~wBusy /\ UNCHANGED <<dr, resent>>
        /\ \/ wRet < 0 /\ pc' = "end"
           \/ wRet = 0 /\ pc' = "track"
           \/ wRet > 0 /\ pc' = "loop"
    BY <1>3, <1>6 DEF WriteDone, Gone
  <2>2. wStatus < 0 => wRet < 0
    BY <1>0, <2>1 DEF WriteInv
  <2>3. TypeOK'
    BY <1>0, <1>1, <1>2, <2>1 DEF TypeOK
  <2>4. ReadInv'
    BY <1>0, <1>1, <2>1 DEF ReadInv, rVars
  <2>5. WriteInv'
    BY <1>0, <1>1, <1>3, <2>1, <2>2 DEF WriteInv, wVars
  <2>6. StreamAccounted'
    <3>1. pc' # "end" => Pending' = Pending
      BY <1>0, <1>3, <2>1 DEF Pending, WriteInv
    <3> QED
      BY <1>0, <1>3, <2>1, <3>1 DEF StreamAccounted
  <2> QED
    BY <2>3, <2>4, <2>5, <2>6 DEF TInv
<1>7. CASE TrackReader
  <2>1. /\ pc = "track" /\ UNCHANGED dr
        /\ \/ pc' = "end" /\ UNCHANGED resent
           \/ pc' = "write" /\ resent' = resent + (dr - wLeft)
    BY <1>7 DEF TrackReader
  <2>2. wLen = dr /\ dr > 0 /\ dr <= rMoved /\ ~(wStatus < 0)
    BY <1>0, <2>1 DEF ReadInv, WriteInv
  <2>3. wMoved - resent = rMoved - wLeft
    BY <1>0, <2>1 DEF StreamAccounted, Pending
  <2>4. resent' \in 0 .. MaxWritten
    BY <1>0, <1>3, <2>1, <2>2, <2>3, Types
  <2>5. TypeOK'
    BY <1>0, <1>1, <1>2, <2>1, <2>4 DEF TypeOK
  <2>6. ReadInv'
    BY <1>0, <1>1, <2>1 DEF ReadInv, rVars
  <2>7. WriteInv'
    BY <1>0, <1>1, <1>3, <2>1, <2>2 DEF WriteInv, wVars
  <2>8. StreamAccounted'
    <3>1. CASE pc' = "write"
      <4>1. Pending' = dr' /\ resent' = resent + (dr - wLeft) /\ dr' = dr
        BY <2>1, <3>1 DEF Pending
      <4>2. wMoved - resent' = rMoved - dr
        BY <1>3, <2>3, <4>1
      <4> QED
        BY <1>3, <4>1, <4>2 DEF StreamAccounted
    <3> QED
      BY <2>1, <3>1 DEF StreamAccounted
  <2> QED
    BY <2>5, <2>6, <2>7, <2>8 DEF TInv
<1> QED
  BY <1>4, <1>5, <1>6, <1>7
(* The steps that begin a transfer: one that fails at once leaves nothing  *)
(* behind that was not accounted for.                                      *)
LEMMA BeginStep ==
  ASSUME TInv, Read \/ Write
  PROVE  TInv'
<1>0. /\ BuffSz \in Nat /\ BuffSz > 0 /\ MaxRead \in Nat /\ MaxWritten \in Nat
      /\ TypeOK /\ ReadInv /\ WriteInv /\ StreamAccounted
  BY TunnelAssumption DEF TInv
<1>1. /\ wMoved \in 0 .. MaxWritten /\ resent \in Nat /\ rMoved \in Nat /\ wLeft \in 0 .. wLen
      /\ dr \in 0 .. BuffSz /\ rRet \in Int /\ wLen \in Nat /\ wRet \in Int
      /\ rStatus \in {0, -1, -2} /\ wStatus \in {0, -1, -2}
  BY <1>0, Types
<1>2. CASE Read /\ pc' = "end"
  <2>1. UNCHANGED <<cancel, dr, resent, rVars, wVars>> /\ pc = "status"
    BY <1>2 DEF Read
  <2>2. TypeOK'
    BY <1>0, <1>2, <2>1 DEF TypeOK, R!TypeOK, W!TypeOK, rVars, wVars
  <2>3. ReadInv' /\ WriteInv'
    BY <1>0, <1>2, <2>1 DEF ReadInv, WriteInv, rVars, wVars
  <2> QED
    BY <1>2, <2>2, <2>3 DEF TInv, StreamAccounted
<1>3. CASE Read /\ pc' = "reading"
  <2>1. R!Begin(BuffSz, TRUE) /\ UNCHANGED <<cancel, dr, resent, wVars>> /\ pc = "status"
    BY <1>3 DEF Read
  <2>2. ~rBusy /\ UNCHANGED <<rNoted, rStatus, rMoved>>
    BY <2>1 DEF R!Begin
  <2>3. \/ rStatus < 0 /\ rRet' = rStatus /\ UNCHANGED <<rBusy, rLen, rPartial, rLeft>>
        \/ rBusy' = TRUE /\ rLen' = BuffSz /\ rLeft' = BuffSz /\ rPartial' = TRUE /\ UNCHANGED rRet
    BY <1>0, <2>1 DEF R!Begin, R!callVars
  <2>4. rBusy' \in BOOLEAN /\ rPartial' \in BOOLEAN
    BY <1>0, <2>3, Types, Zenon
  <2>5. R!TypeOK'
    BY <1>0, <1>1, <2>2, <2>3, <2>4, Types DEF R!TypeOK, TypeOK
  <2>6. TypeOK'
    BY <1>0, <1>3, <2>1, <2>5 DEF TypeOK, W!TypeOK, wVars
  <2>7. ReadInv'
    <3>1. rRet' <= BuffSz /\ rRet' <= rMoved
      BY <1>0, <1>1, <2>3 DEF ReadInv
    <3>2. rBusy' => rPartial' /\ rLen' = BuffSz /\ rLeft' = rLen'
      BY <2>2, <2>3
    <3> QED
      BY <1>0, <1>3, <2>1, <2>2, <3>1, <3>2 DEF ReadInv
  <2>8. WriteInv'
    BY <1>0, <1>3, <2>1 DEF WriteInv, wVars
  <2>9. StreamAccounted'
    <3>1. Pending = 0 /\ UNCHANGED <<wMoved, resent, rMoved>>
      BY <2>1, <2>2 DEF Pending, wVars
    <3>2. Pending' = 0
      <4>1. ~(~rBusy' /\ rRet' > 0)
        BY <1>1, <2>3
      <4> QED
        BY <1>3, <4>1 DEF Pending
    <3> QED
      BY <1>0, <1>3, <2>1, <3>1, <3>2 DEF StreamAccounted
  <2> QED
    BY <2>6, <2>7, <2>8, <2>9 DEF TInv
<1>4. CASE Write
  <2>1. W!Begin(dr, FALSE) /\ UNCHANGED <<cancel, dr, resent, rVars>> /\ pc = "write" /\ pc' = "writing"
    BY <1>4 DEF Write, WriteLength
  <2>2. dr > 0 /\ wStatus = 0 /\ dr <= BuffSz
    BY <1>0, <1>1, <2>1 DEF WriteInv
  <2>3. /\ UNCHANGED <<wNoted, wStatus, wMoved, wRet>>
        /\ wBusy' = TRUE /\ wLen' = dr /\ wLeft' = dr /\ wPartial' = FALSE
    BY <1>1, <2>1, <2>2 DEF W!Begin
  <2>4. wBusy' \in BOOLEAN /\ wPartial' \in BOOLEAN /\ wBusy' /\ ~wPartial'
    BY <2>3, Zenon
  <2>5. W!TypeOK'
    BY <1>0, <1>1, <2>2, <2>3, <2>4, Types DEF W!TypeOK, TypeOK
  <2>6. TypeOK'
    BY <1>0, <2>1, <2>5 DEF TypeOK, R!TypeOK, rVars
  <2>7. ReadInv'
    BY <1>0, <2>1 DEF ReadInv, rVars
  <2>8. WriteInv'
    BY <2>1, <2>2, <2>3, <2>4 DEF WriteInv
  <2>9. StreamAccounted'
    <3>1. Pending = dr /\ Pending' = wLeft' /\ UNCHANGED <<resent, rMoved>>
      BY <2>1 DEF Pending, rVars
    <3> QED
      BY <1>0, <2>1, <2>3, <3>1 DEF StreamAccounted
  <2> QED
    BY <2>6, <2>7, <2>8, <2>9 DEF TInv
<1> QED
  BY <1>2, <1>3, <1>4 DEF Read

(* The end of the job, and the notices of the service.                     *)
LEMMA EndStep ==
  ASSUME TInv, End \/ ReaderNotice \/ WriterNotice
  PROVE  TInv'
<1>0. /\ BuffSz \in Nat /\ TypeOK /\ ReadInv /\ WriteInv /\ StreamAccounted
  BY TunnelAssumption DEF TInv
<1>1. CASE End
  <2>1. /\ pc' = "ended" /\ UNCHANGED <<cancel, dr, resent>>
        /\ rStatus' = -2 /\ UNCHANGED <<rNoted, rBusy, rLen, rPartial, rLeft, rRet, rMoved>>
        /\ wStatus' = -2 /\ UNCHANGED <<wNoted, wBusy, wLen, wPartial, wLeft, wRet, wMoved>>
        /\ ~rBusy /\ ~wBusy
    BY <1>1 DEF End, R!Shutdown, W!Shutdown, R!callVars, W!callVars
  <2>2. TypeOK'
    BY <1>0, <2>1 DEF TypeOK, R!TypeOK, W!TypeOK
  <2>3. ReadInv' /\ WriteInv' /\ StreamAccounted'
    BY <1>0, <2>1 DEF ReadInv, WriteInv, StreamAccounted
  <2> QED
    BY <2>2, <2>3 DEF TInv
<1>2. CASE ReaderNotice \/ WriterNotice
  <2>1. /\ UNCHANGED <<cancel, pc, dr, resent>>
        /\ rNoted' \in {rNoted, -1, -2} /\ wNoted' \in {wNoted, -1, -2}
        /\ UNCHANGED <<rStatus, rBusy, rLen, rPartial, rLeft, rRet, rMoved>>
        /\ UNCHANGED <<wStatus, wBusy, wLen, wPartial, wLeft, wRet, wMoved>>
    BY <1>2 DEF ReaderNotice, WriterNotice, R!Notice, W!Notice, R!callVars, W!callVars, jobVars, rVars, wVars
  <2>2. TypeOK'
    BY <1>0, <2>1 DEF TypeOK, R!TypeOK, W!TypeOK
  <2>3. ReadInv' /\ WriteInv'
    BY <1>0, <2>1 DEF ReadInv, WriteInv
  <2>4. StreamAccounted'
    BY <1>0, <2>1 DEF StreamAccounted, Pending
  <2> QED
    BY <2>2, <2>3, <2>4 DEF TInv
<1> QED
  BY <1>1, <1>2

(* Every step of the tunnel, of its two transfers and of the service.      *)
LEMMA TunnelStep == TInv /\ [Next]_vars => TInv'
<1> SUFFICES ASSUME TInv, [Next]_vars PROVE TInv'
  OBVIOUS
<1>1. CASE UNCHANGED vars
  <2>1. TypeOK'
    BY <1>1 DEF TInv, TypeOK, R!TypeOK, W!TypeOK, vars, jobVars, rVars, wVars
  <2>2. ReadInv' /\ WriteInv'
    BY <1>1 DEF TInv, ReadInv, WriteInv, vars, jobVars, rVars, wVars
  <2>3. StreamAccounted'
    BY <1>1 DEF TInv, StreamAccounted, Pending, vars, jobVars, rVars, wVars
  <2> QED
    BY <2>1, <2>2, <2>3 DEF TInv
<1> QED
  BY <1>1, ReadingStep, WritingStep, JobAloneStep, BeginStep, EndStep DEF Next, Job, Ended

(* TInv: the type invariant, what the two transfers leave behind, and the  *)
(* account of the bytes.                                                   *)
THEOREM TunnelInductive == Spec => []TInv
BY TunnelInit, TunnelStep, PTL DEF Spec

(* The type invariant; a read never overruns the buffer.                   *)
THEOREM TunnelTypeCorrect == Spec => []TypeOK
<1>1. TInv => TypeOK
  BY DEF TInv
<1> QED
  BY <1>1, TunnelInductive, PTL

(* The bytes written are the bytes read, in order, except the ones that a  *)
(* repeated write sends again: a tunnel of any buffer size skips nothing   *)
(* and writes nothing that was not read, however its transfers time out.   *)
THEOREM StreamIsAccounted == Spec => []StreamAccounted
<1>1. TInv => StreamAccounted
  BY DEF TInv
<1> QED
  BY <1>1, TunnelInductive, PTL
=============================================================================
