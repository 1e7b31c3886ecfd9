-------------------------- MODULE CommServiceProofs --------------------------
(***************************************************************************)
(* Theorems about CommService for all numbers of connections, descriptors  *)
(* and events in a batch.                                                  *)
(***************************************************************************)
EXTENDS CommService, SequenceTheorems, WellFoundedInduction, TLAPS

(* Who holds the descriptor of a connection: its owner until there is a    *)
(* handler, then the registry, and each of the two knows the other.        *)
Holders ==
  /\ \A c \in Conns :
       /\ cpc[c] \in {"connecting", "opened"} => cfd[c] \in DOMAIN sockets /\ sockets[cfd[c]] = c
       /\ cpc[c] \notin {"connecting", "opened"} => cfd[c] = 0
       /\ cpc[c] = "live" => cid[c] \in DOMAIN commHandlers /\ commHandlers[cid[c]].conn = c
       /\ cpc[c] # "live" => cid[c] = 0
  /\ \A i \in DOMAIN commHandlers :
       cpc[commHandlers[i].conn] = "live" /\ cid[commHandlers[i].conn] = i

(* What epoll watches: live handlers by their id, all of them unless an    *)
(* error was reported; and only those are ready.                           *)
Watched ==
  /\ \A r \in interest : cpc[r.conn] = "live" /\ r.data = cid[r.conn]
  /\ \A k \in 1 .. Len(ready) : \E r \in interest : r.conn = ready[k]
  /\ \A c \in Conns : cpc[c] = "live" /\ ~asked => \E r \in interest : r.conn = c

(* The batch: there is one only between epoll_wait and its processing, its *)
(* ids have been given out, and for a handler that is still there it says  *)
(* what is true of the handler's own socket.                               *)
Batch ==
  /\ spc # "process" => events = <<>>
  /\ \A k \in 1 .. Len(events) :
       /\ events[k].data \in 1 .. handlerIdCounter
       /\ events[k].data \in DOMAIN commHandlers
            => events[k].ev \subseteq raised[commHandlers[events[k].data].conn]

SInv ==
  /\ TypeOK /\ Holders /\ DescriptorsAccounted /\ Watched /\ Batch
  /\ OwnEventsOnly /\ NoEventLost
-----------------------------------------------------------------------------
(* Minima, sequences and functions.                                        *)

(* A set of numbers has a least one: a descriptor, the size of a batch.    *)
LEMMA HasLeast ==
  ASSUME NEW T, T \subseteq Nat, T # {}
  PROVE  Min(T) \in T /\ \A y \in T : Min(T) <= y
<1> DEFINE R == OpToRel(<, Nat)
<1>1. PICK x \in T : \A y \in T : <<y, x>> \notin R
  <2>1. IsWellFoundedOn(R, Nat)
    BY NatLessThanWellFounded
  <2> HIDE DEF R
  <2> QED
    BY <2>1, WFMin, Zenon
<1>2. \A y \in T : <<y, x>> \in R <=> y < x
  BY DEF OpToRel
<1> HIDE DEF R
<1>3. \A y \in T : ~(y < x)
  BY <1>1, <1>2, Zenon
<1>4. \A y \in T : x <= y
  BY <1>3
<1> QED
  BY <1>4, Zenon DEF Min

(* A sequence without its k-th element.                                    *)
LEMMA RemovedAt ==
  ASSUME NEW S, NEW s \in Seq(S), NEW k \in 1 .. Len(s)
  PROVE  /\ RemoveAt(s, k) \in Seq(S) /\ Len(RemoveAt(s, k)) = Len(s) - 1
         /\ \A i \in 1 .. Len(s) - 1 : RemoveAt(s, k)[i] = IF i < k THEN s[i] ELSE s[i + 1]
<1> DEFINE a == SubSeq(s, 1, k - 1)
           b == SubSeq(s, k + 1, Len(s))
<1>1. a \in Seq(S) /\ Len(a) = k - 1 /\ \A i \in 1 .. k - 1 : a[i] = s[i]
  <2>1. \A i \in 1 .. k - 1 : s[i] \in S
    OBVIOUS
  <2> QED
    BY <2>1, SubSeqProperties
<1>2. b \in Seq(S) /\ Len(b) = Len(s) - k /\ \A i \in 1 .. Len(s) - k : b[i] = s[k + i]
  <2>1. \A i \in k + 1 .. Len(s) : s[i] \in S
    OBVIOUS
  <2> QED
    BY <2>1, SubSeqProperties
<1>3. RemoveAt(s, k) = a \o b
  BY DEF RemoveAt
<1> HIDE DEF a, b
<1>4. /\ a \o b \in Seq(S) /\ Len(a \o b) = Len(s) - 1
      /\ \A i \in 1 .. Len(s) - 1 : (a \o b)[i] = IF i <= k - 1 THEN a[i] ELSE b[i - (k - 1)]
  BY <1>1, <1>2, ConcatProperties
<1>5. \A i \in 1 .. Len(s) - 1 : (a \o b)[i] = IF i < k THEN s[i] ELSE s[i + 1]
  BY <1>1, <1>2, <1>4
<1> QED
  BY <1>3, <1>4, <1>5

(* The first occurrence of an element is at some position.                 *)
LEMMA RemovedFirst ==
  ASSUME NEW S, NEW s \in Seq(S), NEW e, \E i \in 1 .. Len(s) : s[i] = e
  PROVE  \E k \in 1 .. Len(s) : s[k] = e /\ RemoveFirst(s, e) = RemoveAt(s, k)
<1> DEFINE I == {i \in 1 .. Len(s) : s[i] = e}
<1>1. I # {} /\ I \subseteq Nat
  OBVIOUS
<1>2. Min(I) \in I
  BY <1>1, HasLeast
<1>3. RemoveFirst(s, e) = RemoveAt(s, Min(I))
  BY <1>1 DEF RemoveFirst, SelectInSeq
<1> QED
  BY <1>2, <1>3

(* Closing a socket takes it off the ready list and leaves the others.     *)
LEMMA RemovedFromList ==
  ASSUME NEW S, NEW s \in Seq(S), IsInjective(s), NEW e
  PROVE  /\ RemoveFirst(s, e) \in Seq(S) /\ IsInjective(RemoveFirst(s, e))
         /\ \A k \in 1 .. Len(RemoveFirst(s, e)) :
              RemoveFirst(s, e)[k] # e /\ \E i \in 1 .. Len(s) : s[i] = RemoveFirst(s, e)[k]
         /\ \A x : x # e /\ Contains(s, x) => Contains(RemoveFirst(s, e), x)
<1> DEFINE t == RemoveFirst(s, e)
<1>1. CASE \E i \in 1 .. Len(s) : s[i] = e
  <2>1. PICK k \in 1 .. Len(s) : s[k] = e /\ t = RemoveAt(s, k)
    BY <1>1, RemovedFirst
  <2>2. /\ t \in Seq(S) /\ Len(t) = Len(s) - 1 /\ DOMAIN t = 1 .. Len(s) - 1
        /\ \A i \in 1 .. Len(s) - 1 : t[i] = IF i < k THEN s[i] ELSE s[i + 1]
    <3>1. /\ t \in Seq(S) /\ Len(t) = Len(s) - 1
          /\ \A i \in 1 .. Len(s) - 1 : t[i] = IF i < k THEN s[i] ELSE s[i + 1]
      BY <2>1, RemovedAt
    <3> HIDE DEF t
    <3> QED
      BY <3>1
  <2>3. \A i, j \in 1 .. Len(s) : s[i] = s[j] => i = j
    BY DEF IsInjective
  <2> HIDE DEF t
  <2>4. IsInjective(t)
    <3> SUFFICES ASSUME NEW i \in 1 .. Len(s) - 1, NEW j \in 1 .. Len(s) - 1, t[i] = t[j]
                 PROVE  i = j
      BY <2>2, Zenon DEF IsInjective
    <3> QED
      BY <2>2, <2>3
  <2>5. \A i \in 1 .. Len(t) : t[i] # e /\ \E l \in 1 .. Len(s) : s[l] = t[i]
    <3> SUFFICES ASSUME NEW i \in 1 .. Len(s) - 1
                 PROVE  t[i] # e /\ \E l \in 1 .. Len(s) : s[l] = t[i]
      BY <2>2
    <3>1. CASE i < k
      BY <2>1, <2>2, <2>3, <3>1
    <3>2. CASE ~(i < k)
      <4>1. t[i] = s[i + 1] /\ i + 1 \in 1 .. Len(s) /\ i + 1 # k
        BY <2>2, <3>2
      <4> QED
        BY <2>1, <2>3, <4>1
    <3> QED
      BY <3>1, <3>2
  <2>6. ASSUME NEW x, x # e, Contains(s, x)
        PROVE  Contains(t, x)
    <3>1. PICK l \in 1 .. Len(s) : s[l] = x
      BY <2>6 DEF Contains
    <3>2. CASE l < k
      <4>1. l \in 1 .. Len(t) /\ t[l] = x
        BY <2>2, <3>1, <3>2
      <4> QED
        BY <4>1 DEF Contains
    <3>3. CASE ~(l < k)
      <4>1. l # k
        BY <2>1, <2>6, <3>1
      <4>2. l - 1 \in 1 .. Len(t) /\ ~(l - 1 < k) /\ (l - 1) + 1 = l
        BY <2>2, <3>3, <4>1
      <4>3. t[l - 1] = x
        BY <2>2, <3>1, <4>2
      <4> QED
        BY <4>2, <4>3 DEF Contains
    <3> QED
      BY <3>2, <3>3
  <2> QED
    BY <2>2, <2>4, <2>5, <2>6 DEF t
<1>2. CASE ~\E i \in 1 .. Len(s) : s[i] = e
  <2>1. t = s
    BY <1>2 DEF RemoveFirst
  <2> QED
    BY <1>2, <2>1
<1> QED
  BY <1>1, <1>2

(* Queueing a socket that is not queued.                                   *)
LEMMA Queued ==
  ASSUME NEW S, NEW s \in Seq(S), IsInjective(s), NEW e \in S, ~Contains(s, e)
  PROVE  /\ Append(s, e) \in Seq(S) /\ IsInjective(Append(s, e))
         /\ \A k \in 1 .. Len(Append(s, e)) :
              Append(s, e)[k] = e \/ \E i \in 1 .. Len(s) : s[i] = Append(s, e)[k]
         /\ Contains(Append(s, e), e)
         /\ \A x : Contains(s, x) => Contains(Append(s, e), x)
<1> DEFINE t == Append(s, e)
<1>1. /\ t \in Seq(S) /\ Len(t) = Len(s) + 1 /\ DOMAIN t = 1 .. Len(s) + 1
      /\ t[Len(s) + 1] = e /\ \A i \in 1 .. Len(s) : t[i] = s[i]
  OBVIOUS
<1>2. /\ \A i, j \in 1 .. Len(s) : s[i] = s[j] => i = j
      /\ \A i \in 1 .. Len(s) : s[i] # e
  BY DEF IsInjective, Contains
<1> HIDE DEF t
<1>3. IsInjective(t)
  <2> SUFFICES ASSUME NEW i \in 1 .. Len(s) + 1, NEW j \in 1 .. Len(s) + 1, t[i] = t[j]
               PROVE  i = j
    BY <1>1, Zenon DEF IsInjective
  <2> QED
    BY <1>1, <1>2
<1>4. \A k \in 1 .. Len(t) : t[k] = e \/ \E i \in 1 .. Len(s) : s[i] = t[k]
  BY <1>1
<1>5. Contains(t, e)
  <2>1. Len(s) + 1 \in 1 .. Len(t)
    BY <1>1
  <2> QED
    BY <1>1, <2>1, Zenon DEF Contains
<1>6. \A x : Contains(s, x) => Contains(t, x)
  <2>1. \A i \in 1 .. Len(s) : i \in 1 .. Len(t) /\ t[i] = s[i]
    BY <1>1
  <2> QED
    BY <2>1, Zenon DEF Contains
<1> QED
  BY <1>1, <1>3, <1>4, <1>5, <1>6 DEF t

(* What epoll_wait leaves on the ready list.                               *)
LEMMA RestOfList ==
  ASSUME NEW S, NEW s \in Seq(S), IsInjective(s), NEW n \in 0 .. Len(s)
  PROVE  /\ SubSeq(s, n + 1, Len(s)) \in Seq(S) /\ IsInjective(SubSeq(s, n + 1, Len(s)))
         /\ \A k \in 1 .. Len(SubSeq(s, n + 1, Len(s))) :
              \E i \in 1 .. Len(s) : s[i] = SubSeq(s, n + 1, Len(s))[k]
         /\ \A x : Contains(s, x) =>
              Contains(SubSeq(s, n + 1, Len(s)), x) \/ \E k \in 1 .. n : s[k] = x
<1> DEFINE t == SubSeq(s, n + 1, Len(s))
<1>1. /\ t \in Seq(S) /\ Len(t) = Len(s) - n
      /\ \A i \in 1 .. Len(s) - n : t[i] = s[n + i]
  <2>1. \A i \in n + 1 .. Len(s) : s[i] \in S
    OBVIOUS
  <2> QED
    BY <2>1, SubSeqProperties
<1> HIDE DEF t
<1>2. DOMAIN t = 1 .. Len(s) - n
  BY <1>1
<1>3. \A i, j \in 1 .. Len(s) : s[i] = s[j] => i = j
  BY DEF IsInjective
<1>4. IsInjective(t)
  <2> SUFFICES ASSUME NEW i \in 1 .. Len(s) - n, NEW j \in 1 .. Len(s) - n, t[i] = t[j]
               PROVE  i = j
    BY <1>2, Zenon DEF IsInjective
  <2>1. n + i \in 1 .. Len(s) /\ n + j \in 1 .. Len(s) /\ s[n + i] = s[n + j]
    BY <1>1
  <2>2. n + i = n + j
    BY <1>3, <2>1
  <2> QED
    BY <2>2
<1>5. \A k \in 1 .. Len(t) : \E i \in 1 .. Len(s) : s[i] = t[k]
  <2> SUFFICES ASSUME NEW k \in 1 .. Len(s) - n PROVE \E i \in 1 .. Len(s) : s[i] = t[k]
    BY <1>1
  <2>1. n + k \in 1 .. Len(s) /\ t[k] = s[n + k]
    BY <1>1
  <2> QED
    BY <2>1
<1>6. ASSUME NEW x, Contains(s, x)
      PROVE  Contains(t, x) \/ \E k \in 1 .. n : s[k] = x
  <2>1. PICK l \in 1 .. Len(s) : s[l] = x
    BY <1>6 DEF Contains
  <2>2. CASE l <= n
    BY <2>1, <2>2
  <2>3. CASE ~(l <= n)
    <3>1. l - n \in 1 .. Len(t) /\ n + (l - n) = l /\ l - n \in 1 .. Len(s) - n
      BY <1>1, <2>3
    <3>2. t[l - n] = x
      BY <1>1, <2>1, <3>1
    <3> QED
      BY <3>1, <3>2 DEF Contains
  <2> QED
    BY <2>2, <2>3
<1> QED
  BY <1>1, <1>4, <1>5, <1>6 DEF t

(* A function with one argument less.                                      *)
LEMMA WithoutValue ==
  ASSUME NEW f, NEW x
  PROVE  /\ DOMAIN Without(f, {x}) = DOMAIN f \ {x}
         /\ \A z \in DOMAIN f \ {x} : Without(f, {x})[z] = f[z]
BY DEF Without
-----------------------------------------------------------------------------
(* Parts of the invariant, one connection at a time.                       *)

(* Both ends of an entry of the descriptor table.                          *)
LEMMA HolderOfSocket ==
  ASSUME SInv, NEW f \in DOMAIN sockets, NEW c, c = sockets[f]
  PROVE  /\ c \in Conns /\ f \in Fds /\ f # 0
         /\ \/ cpc[c] \in {"connecting", "opened"} /\ cfd[c] = f
            \/ /\ cpc[c] = "live" /\ cfd[c] = 0 /\ cid[c] \in DOMAIN commHandlers
               /\ commHandlers[cid[c]] = [fd |-> f, conn |-> c]
<1>1. c \in Conns /\ f \in Fds /\ f # 0
  BY ServiceAssumption DEF SInv, TypeOK
<1>2. CASE cfd[c] = f
  BY <1>1, <1>2 DEF SInv, Holders
<1>3. CASE \E i \in DOMAIN commHandlers : commHandlers[i] = [fd |-> f, conn |-> c]
  <2>1. PICK i \in DOMAIN commHandlers : commHandlers[i] = [fd |-> f, conn |-> c]
    BY <1>3
  <2>2. commHandlers[i].conn = c
    BY <2>1
  <2>3. cpc[c] = "live" /\ cid[c] = i
    BY <2>2 DEF SInv, Holders
  <2>4. cfd[c] = 0
    BY <1>1, <2>3 DEF SInv, Holders
  <2> QED
    BY <1>1, <2>1, <2>3, <2>4
<1> QED
  BY <1>1, <1>2, <1>3 DEF SInv, DescriptorsAccounted

(* NoEventLost of one connection, with ids as event data.                  *)
LostFree(c) ==
  cpc[c] = "live" /\ ~asked /\ ~shutdownPending =>
    \A b \in raised[c] :
      \/ Heard(c, b)
      \/ Contains(ready, c)
      \/ \E k \in 1 .. Len(events) : events[k].data = cid[c] /\ b \in events[k].ev

(* NoEventLost speaks of every connection.                                 *)
LEMMA LostFreeIsNoEventLost == NoEventLost <=> \A c \in Conns : LostFree(c)
BY DEF NoEventLost, LostFree, OnItsWay, EventData

(* The same in the next state.                                             *)
LEMMA LostFreeIsNoEventLostNext == NoEventLost' <=> \A c \in Conns : LostFree(c)'
BY DEF NoEventLost, LostFree, OnItsWay, EventData

(* What the helpers have heard stays heard.                                *)
LEMMA HeardStays ==
  ASSUME NEW c, NEW b, Heard(c, b), told[c] \subseteq told'[c], b \in Bits
  PROVE  Heard(c, b)'
<1>1. CASE b = "IN"
  BY <1>1 DEF Heard
<1>2. CASE b = "OUT"
  BY <1>2 DEF Heard
<1>3. CASE b = "RDHUP"
  BY <1>3 DEF Heard
<1>4. CASE b = "HUP"
  BY <1>4 DEF Heard
<1> QED
  BY <1>1, <1>2, <1>3, <1>4 DEF Bits

(* A step that takes nothing away from a connection.                       *)
LEMMA LostFreeStays ==
  ASSUME NEW c \in Conns, LostFree(c), raised[c] \subseteq Bits,
         cpc'[c] = "live" => cpc[c] = "live" /\ cid'[c] = cid[c] /\ raised'[c] = raised[c]
                             /\ told[c] \subseteq told'[c],
         events' = events, Contains(ready, c) => Contains(ready, c)',
         asked => asked', shutdownPending => shutdownPending'
  PROVE  LostFree(c)'
<1> SUFFICES ASSUME cpc'[c] = "live", ~asked', ~shutdownPending', NEW b \in raised'[c]
             PROVE  \/ Heard(c, b)'
                    \/ Contains(ready, c)'
                    \/ \E k \in 1 .. Len(events') : events'[k].data = cid'[c] /\ b \in events'[k].ev
  BY DEF LostFree
<1>1. b \in raised[c] /\ b \in Bits /\ cid'[c] = cid[c] /\ told[c] \subseteq told'[c]
  OBVIOUS
<1>2. \/ Heard(c, b)
      \/ Contains(ready, c)
      \/ \E k \in 1 .. Len(events) : events[k].data = cid[c] /\ b \in events[k].ev
  BY <1>1 DEF LostFree
<1>3. Heard(c, b) => Heard(c, b)'
  BY <1>1, HeardStays
<1> QED
  BY <1>1, <1>2, <1>3

(* Where nothing about sockets and events changes.                         *)
LEMMA QuietStep ==
  ASSUME SInv, TypeOK', UNCHANGED <<commHandlers, handlerIdCounter, events, cpc, cfd, cid, told, sockets,
                                    interest, ready, raised>>,
         asked => asked', shutdownPending => shutdownPending', spc' # "process" => spc # "process"
  PROVE  SInv'
<1>1. Holders' /\ DescriptorsAccounted' /\ Watched'
  BY DEF SInv, Holders, DescriptorsAccounted, Watched
<1>2. Batch'
  BY DEF SInv, Batch
<1>3. OwnEventsOnly'
  BY DEF SInv, OwnEventsOnly
<1>4. NoEventLost'
  <2>1. ASSUME NEW c \in Conns PROVE LostFree(c)'
    <3>1. LostFree(c) /\ raised[c] \subseteq Bits
      BY LostFreeIsNoEventLost DEF SInv, TypeOK
    <3>2. Contains(ready, c) => Contains(ready, c)'
      BY DEF Contains
    <3> QED
      BY <3>1, <3>2, LostFreeStays
  <2> QED
    BY <2>1, LostFreeIsNoEventLostNext
<1> QED
  BY <1>1, <1>2, <1>3, <1>4 DEF SInv

(* The invariant holds before the first connection.                        *)
LEMMA InitSInv == Init => SInv
<1> SUFFICES ASSUME Init PROVE SInv
  OBVIOUS
<1>1. /\ DOMAIN commHandlers = {} /\ DOMAIN sockets = {} /\ Len(ready) = 0 /\ Len(events) = 0
      /\ events \in Seq([data : Nat, ev : SUBSET Bits]) /\ ready \in Seq(Conns) /\ DOMAIN ready = {}
  BY DEF Init
<1>2. TypeOK
  <2>1. handlerIdCounter \in Nat /\ Len(events) <= MaxEvents
    BY <1>1, ServiceAssumption DEF Init
  <2>2. /\ cpc \in [Conns -> {"none", "connecting", "opened", "live", "gone"}]
        /\ cfd \in [Conns -> Fds \cup {0}] /\ cid \in [Conns -> 0 .. handlerIdCounter]
        /\ told \in [Conns -> SUBSET Notes] /\ raised \in [Conns -> SUBSET Bits]
        /\ interest \subseteq [conn : Conns, data : Nat]
        /\ spc \in {"start", "waiting", "process", "cancel", "done", "failed"}
    BY DEF Init, Bits
  <2>3. shutdownPending \in BOOLEAN /\ asked \in BOOLEAN
    BY Zenon DEF Init
  <2>4. IsInjective(ready)
    BY <1>1, Zenon DEF IsInjective
  <2> QED
    BY <1>1, <2>1, <2>2, <2>3, <2>4, Zenon DEF TypeOK
<1>3. Holders /\ DescriptorsAccounted
  BY <1>1 DEF Init, Holders, DescriptorsAccounted
<1>4. Watched
  BY <1>1 DEF Init, Watched
<1>5. Batch
  BY <1>1 DEF Init, Batch
<1>6. OwnEventsOnly /\ NoEventLost
  BY DEF Init, OwnEventsOnly, NoEventLost
<1> QED
  BY <1>2, <1>3, <1>4, <1>5, <1>6 DEF SInv

(* accept or socket: the lowest free descriptor has no other holder.       *)
LEMMA OpenKeepsSInv ==
  ASSUME SInv, NEW c \in Conns, cpc[c] = "none", Open(c), NEW p \in {"connecting", "opened"},
         cpc' = [cpc EXCEPT ![c] = p], UNCHANGED <<serviceVars, cid, interest, ready, raised>>
  PROVE  SInv'
<1> DEFINE f == Min(FreeFds)
<1>0. /\ commHandlers' = commHandlers /\ handlerIdCounter' = handlerIdCounter
      /\ shutdownPending' = shutdownPending /\ asked' = asked /\ spc' = spc /\ events' = events
      /\ told' = told /\ cid' = cid /\ interest' = interest /\ ready' = ready /\ raised' = raised
  BY DEF serviceVars
<1>1. f \in Fds /\ f \notin DOMAIN sockets /\ f # 0
  <2>1. FreeFds \subseteq Nat /\ FreeFds # {}
    BY ServiceAssumption DEF FreeFds, Open
  <2>2. f \in FreeFds
    BY <2>1, HasLeast
  <2> QED
    BY <2>2, ServiceAssumption DEF FreeFds
<1>2. /\ sockets' = With(sockets, f, c) /\ cfd' = [cfd EXCEPT ![c] = f]
  BY DEF Open
<1> HIDE DEF f
<1>3. /\ DOMAIN sockets' = DOMAIN sockets \cup {f} /\ sockets'[f] = c
      /\ \A g \in DOMAIN sockets : sockets'[g] = sockets[g]
  <2>1. /\ DOMAIN With(sockets, f, c) = DOMAIN sockets \cup {f} /\ With(sockets, f, c)[f] = c
        /\ \A g \in DOMAIN sockets : g # f => With(sockets, f, c)[g] = sockets[g]
    BY DEF With
  <2>2. \A g \in DOMAIN sockets : g # f
    BY <1>1
  <2> QED
    BY <1>2, <2>1, <2>2, Zenon
<1>4. /\ cpc' \in [Conns -> {"none", "connecting", "opened", "live", "gone"}]
      /\ cpc'[c] = p /\ \A d \in Conns \ {c} : cpc'[d] = cpc[d]
      /\ cfd' \in [Conns -> Fds \cup {0}]
      /\ cfd'[c] = f /\ \A d \in Conns \ {c} : cfd'[d] = cfd[d]
  BY <1>1, <1>2 DEF SInv, TypeOK
<1>5. TypeOK'
  BY <1>0, <1>1, <1>3, <1>4 DEF SInv, TypeOK
<1>6. \A i \in DOMAIN commHandlers : commHandlers[i].conn \in Conns \ {c}
  BY DEF SInv, TypeOK, Holders
<1>7. Holders'
  BY <1>0, <1>3, <1>4, <1>6 DEF SInv, Holders
<1>8. DescriptorsAccounted'
  <2>1. \A g \in DOMAIN sockets : sockets[g] \in Conns \ {c}
    BY HolderOfSocket
  <2> QED
    BY <1>0, <1>1, <1>3, <1>4, <1>6, <2>1 DEF SInv, DescriptorsAccounted
<1>9. Watched'
  <2>1. \A r \in interest : r.conn \in Conns \ {c}
    BY DEF SInv, TypeOK, Watched
  <2> QED
    BY <1>0, <1>4, <2>1 DEF SInv, Watched
<1>10. Batch' /\ OwnEventsOnly'
  BY <1>0 DEF SInv, Batch, OwnEventsOnly
<1>11. NoEventLost'
  <2>1. ASSUME NEW d \in Conns PROVE LostFree(d)'
    <3>1. LostFree(d) /\ raised[d] \subseteq Bits
      BY LostFreeIsNoEventLost DEF SInv, TypeOK
    <3>2. Contains(ready, d) => Contains(ready, d)'
      BY <1>0
    <3>3. cpc'[d] = "live" => cpc[d] = "live"
      BY <1>4
    <3> QED
      BY <1>0, <3>1, <3>2, <3>3, LostFreeStays
  <2> QED
    BY <2>1, LostFreeIsNoEventLostNext
<1> QED
  BY <1>5, <1>7, <1>8, <1>9, <1>10, <1>11 DEF SInv

(* What close does to epoll's lists.                                       *)
LEMMA ClosedLists ==
  ASSUME SInv, NEW f \in DOMAIN sockets, NEW c, c = sockets[f], Close(f)
  PROVE  /\ DOMAIN sockets' = DOMAIN sockets \ {f}
         /\ \A g \in DOMAIN sockets' : sockets'[g] = sockets[g]
         /\ interest' \subseteq interest /\ \A r \in interest : r.conn # c => r \in interest'
         /\ \A r \in interest' : r.conn # c
         /\ ready' \in Seq(Conns) /\ IsInjective(ready')
         /\ \A k \in 1 .. Len(ready') : \E r \in interest' : r.conn = ready'[k]
         /\ \A d : d # c /\ Contains(ready, d) => Contains(ready, d)'
<1>0. /\ sockets' = Without(sockets, {f}) /\ interest' = {r \in interest : r.conn # c}
      /\ ready' = RemoveFirst(ready, c) /\ ready \in Seq(Conns) /\ IsInjective(ready)
  BY DEF Close, SInv, TypeOK
<1>1. DOMAIN sockets' = DOMAIN sockets \ {f} /\ \A g \in DOMAIN sockets' : sockets'[g] = sockets[g]
  BY <1>0, WithoutValue
<1>2. /\ interest' \subseteq interest /\ \A r \in interest : r.conn # c => r \in interest'
      /\ \A r \in interest' : r.conn # c
  BY <1>0
<1>3. /\ ready' \in Seq(Conns) /\ IsInjective(ready')
      /\ \A k \in 1 .. Len(ready') : ready'[k] # c /\ \E i \in 1 .. Len(ready) : ready[i] = ready'[k]
      /\ \A d : d # c /\ Contains(ready, d) => Contains(ready', d)
  BY <1>0, RemovedFromList
<1>4. \A k \in 1 .. Len(ready') : \E r \in interest' : r.conn = ready'[k]
  <2> SUFFICES ASSUME NEW k \in 1 .. Len(ready') PROVE \E r \in interest' : r.conn = ready'[k]
    OBVIOUS
  <2>1. PICK i \in 1 .. Len(ready) : ready[i] = ready'[k]
    BY <1>3
  <2>2. PICK r \in interest : r.conn = ready[i]
    BY DEF SInv, Watched
  <2> QED
    BY <1>2, <1>3, <2>1, <2>2
<1> QED
  BY <1>1, <1>2, <1>3, <1>4

(* socket fails, or connect succeeds.                                      *)
LEMMA MoveKeepsSInv ==
  ASSUME SInv, NEW c \in Conns, NEW p, cpc' = [cpc EXCEPT ![c] = p],
         (cpc[c] = "none" /\ p = "gone") \/ (cpc[c] = "connecting" /\ p = "opened"),
         asked => asked', asked' \in BOOLEAN,
         UNCHANGED <<commHandlers, handlerIdCounter, shutdownPending, spc, events, told, cfd, cid,
                     sockets, interest, ready, raised>>
  PROVE  SInv'
<1>1. /\ cpc' \in [Conns -> {"none", "connecting", "opened", "live", "gone"}]
      /\ cpc'[c] = p /\ cpc[c] # "live" /\ p # "live" /\ \A d \in Conns \ {c} : cpc'[d] = cpc[d]
  BY DEF SInv, TypeOK
<1>2. TypeOK'
  BY <1>1 DEF SInv, TypeOK
<1>3. \A i \in DOMAIN commHandlers : commHandlers[i].conn \in Conns \ {c}
  BY <1>1 DEF SInv, TypeOK, Holders
<1>4. Holders'
  BY <1>1, <1>3 DEF SInv, Holders
<1>5. DescriptorsAccounted' /\ OwnEventsOnly' /\ Batch'
  BY DEF SInv, DescriptorsAccounted, OwnEventsOnly, Batch
<1>6. Watched'
  <2>1. \A r \in interest : r.conn \in Conns \ {c}
    BY <1>1 DEF SInv, TypeOK, Watched
  <2> QED
    BY <1>1, <2>1 DEF SInv, Watched
<1>7. NoEventLost'
  <2>1. ASSUME NEW d \in Conns PROVE LostFree(d)'
    <3>1. LostFree(d) /\ raised[d] \subseteq Bits
      BY LostFreeIsNoEventLost DEF SInv, TypeOK
    <3>2. Contains(ready, d) => Contains(ready, d)'
      BY DEF Contains
    <3>3. cpc'[d] = "live" => cpc[d] = "live"
      BY <1>1
    <3> QED
      BY <3>1, <3>2, <3>3, LostFreeStays
  <2> QED
    BY <2>1, LostFreeIsNoEventLostNext
<1> QED
  BY <1>2, <1>4, <1>5, <1>6, <1>7 DEF SInv

(* connect fails: its descriptor goes, the lists of epoll stay.            *)
LEMMA ConnectFailsKeepsSInv ==
  ASSUME SInv, NEW c \in Conns, cpc[c] = "connecting", Close(cfd[c]),
         cfd' = [cfd EXCEPT ![c] = 0], cpc' = [cpc EXCEPT ![c] = "gone"],
         asked => asked', asked' \in BOOLEAN,
         UNCHANGED <<commHandlers, handlerIdCounter, shutdownPending, spc, events, told, cid, raised>>
  PROVE  SInv'
<1> DEFINE f == cfd[c]
<1>0. f \in DOMAIN sockets /\ sockets[f] = c
  BY DEF SInv, Holders
<1>1. /\ DOMAIN sockets' = DOMAIN sockets \ {f}
      /\ \A g \in DOMAIN sockets' : sockets'[g] = sockets[g]
      /\ interest' \subseteq interest /\ \A r \in interest : r.conn # c => r \in interest'
      /\ \A r \in interest' : r.conn # c
      /\ ready' \in Seq(Conns) /\ IsInjective(ready')
      /\ \A k \in 1 .. Len(ready') : \E r \in interest' : r.conn = ready'[k]
      /\ \A d : d # c /\ Contains(ready, d) => Contains(ready, d)'
  BY <1>0, ClosedLists
<1>2. /\ cpc' \in [Conns -> {"none", "connecting", "opened", "live", "gone"}]
      /\ cpc'[c] = "gone" /\ \A d \in Conns \ {c} : cpc'[d] = cpc[d]
      /\ cfd' \in [Conns -> Fds \cup {0}]
      /\ cfd'[c] = 0 /\ \A d \in Conns \ {c} : cfd'[d] = cfd[d]
  BY DEF SInv, TypeOK
<1>3. TypeOK'
  BY <1>1, <1>2 DEF SInv, TypeOK
<1>4. \A i \in DOMAIN commHandlers : commHandlers[i].conn \in Conns \ {c} /\ commHandlers[i].fd # f
  BY <1>0 DEF SInv, TypeOK, Holders, DescriptorsAccounted
<1>5. \A g \in DOMAIN sockets \ {f} : sockets[g] \in Conns \ {c}
  BY HolderOfSocket
<1>6. \A d \in Conns \ {c} : cpc[d] \in {"connecting", "opened"} => cfd[d] # f
  BY <1>0 DEF SInv, Holders
<1> HIDE DEF f
<1>7. Holders'
  BY <1>1, <1>2, <1>4, <1>6 DEF SInv, Holders
<1>8. DescriptorsAccounted'
  BY <1>1, <1>2, <1>4, <1>5 DEF SInv, DescriptorsAccounted
<1>9. Watched'
  <2>1. \A r \in interest' : r.conn \in Conns \ {c}
    BY <1>1 DEF SInv, TypeOK
  <2> QED
    BY <1>1, <1>2, <2>1 DEF SInv, Watched
<1>10. Batch' /\ OwnEventsOnly'
  BY DEF SInv, Batch, OwnEventsOnly
<1>11. NoEventLost'
  <2>1. ASSUME NEW d \in Conns PROVE LostFree(d)'
    <3>1. LostFree(d) /\ raised[d] \subseteq Bits
      BY LostFreeIsNoEventLost DEF SInv, TypeOK
    <3>2. CASE d = c
      BY <1>2, <3>2 DEF LostFree
    <3>3. CASE d # c
      <4>1. cpc'[d] = cpc[d] /\ (Contains(ready, d) => Contains(ready, d)')
        BY <1>1, <1>2, <3>3
      <4> QED
        BY <3>1, <4>1, LostFreeStays
    <3> QED
      BY <3>2, <3>3
  <2> QED
    BY <2>1, LostFreeIsNoEventLostNext
<1> QED
  BY <1>3, <1>7, <1>8, <1>9, <1>10, <1>11 DEF SInv

(* CreateHandlerFromSocket: the id is new, so no event of the batch speaks *)
(* of it, and the new socket is queued or an error was reported.           *)
LEMMA CreateKeepsSInv ==
  ASSUME SInv, NEW c \in Conns, CreateHandlerFromSocket(c)
  PROVE  SInv'
<1> DEFINE id == handlerIdCounter + 1
           f == cfd[c]
<1>0. /\ cpc[c] = "opened" /\ handlerIdCounter' = id
      /\ commHandlers' = With(commHandlers, id, [fd |-> f, conn |-> c])
      /\ cpc' = [cpc EXCEPT ![c] = "live"] /\ cid' = [cid EXCEPT ![c] = id]
      /\ cfd' = [cfd EXCEPT ![c] = 0]
      /\ shutdownPending' = shutdownPending /\ spc' = spc /\ events' = events /\ told' = told
      /\ sockets' = sockets /\ raised' = raised
  BY DEF CreateHandlerFromSocket
<1>1. \/ /\ interest' = interest \cup {[conn |-> c, data |-> id]} /\ ready' = Append(ready, c)
         /\ asked' = asked
      \/ asked' /\ asked' \in BOOLEAN /\ interest' = interest /\ ready' = ready
  BY DEF CreateHandlerFromSocket, EpollAdd, EventData, HandleError
<1>2. /\ id \in Nat /\ id # 0 /\ id \notin DOMAIN commHandlers /\ f \in DOMAIN sockets /\ sockets[f] = c
      /\ f \in Fds /\ id \notin 1 .. handlerIdCounter /\ 1 .. handlerIdCounter \subseteq 1 .. id
      /\ 0 .. handlerIdCounter \subseteq 0 .. id /\ id \in 1 .. id
  BY <1>0 DEF SInv, TypeOK, Holders
<1> HIDE DEF id, f
<1>3. /\ DOMAIN commHandlers' = DOMAIN commHandlers \cup {id}
      /\ commHandlers'[id] = [fd |-> f, conn |-> c]
      /\ \A i \in DOMAIN commHandlers : commHandlers'[i] = commHandlers[i]
  BY <1>0, <1>2 DEF With
<1>4. /\ cpc' \in [Conns -> {"none", "connecting", "opened", "live", "gone"}]
      /\ cpc'[c] = "live" /\ \A d \in Conns \ {c} : cpc'[d] = cpc[d]
      /\ cfd' \in [Conns -> Fds \cup {0}]
      /\ cfd'[c] = 0 /\ \A d \in Conns \ {c} : cfd'[d] = cfd[d]
      /\ cid' \in [Conns -> 0 .. id]
      /\ cid'[c] = id /\ \A d \in Conns \ {c} : cid'[d] = cid[d]
  BY <1>0, <1>2 DEF SInv, TypeOK
<1>5. \A i \in DOMAIN commHandlers : commHandlers[i].conn \in Conns \ {c}
  BY <1>0 DEF SInv, TypeOK, Holders
<1>6. \A r \in interest : r.conn \in Conns \ {c}
  BY <1>0 DEF SInv, TypeOK, Watched
<1>7. /\ ready' \in Seq(Conns) /\ IsInjective(ready')
      /\ \A k \in 1 .. Len(ready') : \E r \in interest' : r.conn = ready'[k]
      /\ \A d : Contains(ready, d) => Contains(ready, d)'
      /\ ~asked' => Contains(ready, c)'
  <2>1. CASE /\ interest' = interest \cup {[conn |-> c, data |-> id]} /\ ready' = Append(ready, c)
             /\ asked' = asked
    <3>1. /\ ready \in Seq(Conns) /\ IsInjective(ready)
          /\ \A k \in 1 .. Len(ready) : \E r \in interest : r.conn = ready[k]
      BY DEF SInv, TypeOK, Watched
    <3>2. ~Contains(ready, c)
      BY <1>6, <3>1 DEF Contains
    <3>3. /\ ready' \in Seq(Conns) /\ IsInjective(ready')
          /\ \A k \in 1 .. Len(ready') :
               ready'[k] = c \/ \E i \in 1 .. Len(ready) : ready[i] = ready'[k]
          /\ Contains(ready', c)
          /\ \A x : Contains(ready, x) => Contains(ready', x)
      BY <2>1, <3>1, <3>2, Queued
    <3>4. \A r \in interest : r \in interest'
      BY <2>1
    <3>5. \E r \in interest' : r.conn = c
      <4>1. [conn |-> c, data |-> id] \in interest' /\ [conn |-> c, data |-> id].conn = c
        BY <2>1
      <4> QED
        BY <4>1, Zenon
    <3>6. \A k \in 1 .. Len(ready') : \E r \in interest' : r.conn = ready'[k]
      BY <3>1, <3>3, <3>4, <3>5
    <3> QED
      BY <3>3, <3>6
  <2>2. CASE asked' /\ interest' = interest /\ ready' = ready
    BY <2>2 DEF SInv, TypeOK, Watched
  <2> QED
    BY <1>1, <2>1, <2>2
<1>8. TypeOK'
  <2>1. interest' \subseteq [conn : Conns, data : Nat] /\ asked' \in BOOLEAN
    BY <1>1, <1>2 DEF SInv, TypeOK
  <2>2. \A i \in DOMAIN commHandlers' : commHandlers'[i] \in [fd : Fds, conn : Conns]
    BY <1>2, <1>3 DEF SInv, TypeOK
  <2>3. DOMAIN commHandlers' \subseteq 1 .. handlerIdCounter'
    BY <1>0, <1>2, <1>3 DEF SInv, TypeOK
  <2> QED
    BY <1>0, <1>2, <1>4, <1>7, <2>1, <2>2, <2>3 DEF SInv, TypeOK
<1>9. Holders'
  <2>1. commHandlers'[id].conn = c
    BY <1>3
  <2> QED
    BY <1>0, <1>2, <1>3, <1>4, <1>5, <2>1 DEF SInv, Holders
<1>10. DescriptorsAccounted'
  <2>1. commHandlers'[id].conn = c /\ commHandlers'[id].fd = f
    BY <1>3
  <2>2. ASSUME NEW g \in DOMAIN sockets
        PROVE  \/ cfd'[sockets[g]] = g
               \/ \E i \in DOMAIN commHandlers' : commHandlers'[i] = [fd |-> g, conn |-> sockets[g]]
    <3>1. CASE sockets[g] = c
      <4>1. g = f
        BY <1>0, <3>1, HolderOfSocket DEF f
      <4> QED
        BY <1>3, <3>1, <4>1
    <3>2. CASE sockets[g] # c
      BY <1>3, <1>4, <3>2, HolderOfSocket
    <3> QED
      BY <3>1, <3>2
  <2> QED
    BY <1>0, <1>2, <1>3, <2>1, <2>2 DEF SInv, DescriptorsAccounted
<1>11. Watched'
  <2>1. \A r \in interest' : cpc'[r.conn] = "live" /\ r.data = cid'[r.conn]
    BY <1>1, <1>4, <1>6 DEF SInv, Watched
  <2>2. \A d \in Conns : cpc'[d] = "live" /\ ~asked' => \E r \in interest' : r.conn = d
    <3> SUFFICES ASSUME NEW d \in Conns, cpc'[d] = "live", ~asked' PROVE \E r \in interest' : r.conn = d
      OBVIOUS
    <3>1. interest' = interest \cup {[conn |-> c, data |-> id]} /\ ~asked
      BY <1>1
    <3>2. CASE d = c
      <4>1. [conn |-> c, data |-> id] \in interest' /\ [conn |-> c, data |-> id].conn = d
        BY <3>1, <3>2
      <4> QED
        BY <4>1, Zenon
    <3>3. CASE d # c
      <4>1. PICK r \in interest : r.conn = d
        BY <1>4, <3>1, <3>3 DEF SInv, Watched
      <4> QED
        BY <3>1, <4>1
    <3> QED
      BY <3>2, <3>3
  <2> QED
    BY <1>7, <2>1, <2>2 DEF Watched
<1>12. Batch'
  BY <1>0, <1>2, <1>3 DEF SInv, Batch
<1>13. OwnEventsOnly'
  BY <1>0 DEF SInv, OwnEventsOnly
<1>14. NoEventLost'
  <2>1. ASSUME NEW d \in Conns PROVE LostFree(d)'
    <3>1. CASE d = c
      BY <1>7, <3>1 DEF LostFree
    <3>2. CASE d # c
      <4>1. LostFree(d) /\ raised[d] \subseteq Bits
        BY LostFreeIsNoEventLost DEF SInv, TypeOK
      <4>2. cpc'[d] = cpc[d] /\ cid'[d] = cid[d] /\ (Contains(ready, d) => Contains(ready, d)')
        BY <1>4, <1>7, <3>2
      <4>3. asked => asked'
        BY <1>1
      <4> QED
        BY <1>0, <4>1, <4>2, <4>3, LostFreeStays
    <3> QED
      BY <3>1, <3>2
  <2> QED
    BY <2>1, LostFreeIsNoEventLostNext
<1> QED
  BY <1>8, <1>9, <1>10, <1>11, <1>12, <1>13, <1>14 DEF SInv

(* DisposeHandler: the descriptor, the watch and the place in the ready    *)
(* list go with the id, which no later event can find.                     *)
LEMMA DisposeKeepsSInv ==
  ASSUME SInv, NEW c \in Conns, DisposeHandler(c)
  PROVE  SInv'
<1> DEFINE id == cid[c]
           f == commHandlers[id].fd
<1>0. /\ cpc[c] = "live" /\ id \in DOMAIN commHandlers
      /\ commHandlers' = Without(commHandlers, {id}) /\ Close(f)
      /\ cpc' = [cpc EXCEPT ![c] = "gone"] /\ cid' = [cid EXCEPT ![c] = 0]
      /\ told' = [told EXCEPT ![c] = {}] /\ raised' = [raised EXCEPT ![c] = {}]
      /\ handlerIdCounter' = handlerIdCounter /\ shutdownPending' = shutdownPending
      /\ spc' = spc /\ events' = events /\ cfd' = cfd
  BY DEF DisposeHandler
<1>1. asked' \in BOOLEAN /\ (asked => asked')
  <2>1. asked \in BOOLEAN
    BY DEF SInv, TypeOK
  <2>2. asked' = TRUE \/ asked' = asked
    BY DEF DisposeHandler, HandleError
  <2> QED
    BY <2>1, <2>2, Zenon
<1>2. f \in DOMAIN sockets /\ sockets[f] = c /\ commHandlers[id].conn = c
  BY <1>0 DEF SInv, Holders, DescriptorsAccounted
<1>3. /\ DOMAIN commHandlers' = DOMAIN commHandlers \ {id}
      /\ \A i \in DOMAIN commHandlers \ {id} : commHandlers'[i] = commHandlers[i]
  BY <1>0, WithoutValue
<1>4. /\ DOMAIN sockets' = DOMAIN sockets \ {f}
      /\ \A g \in DOMAIN sockets' : sockets'[g] = sockets[g]
      /\ interest' \subseteq interest /\ \A r \in interest : r.conn # c => r \in interest'
      /\ \A r \in interest' : r.conn # c
      /\ ready' \in Seq(Conns) /\ IsInjective(ready')
      /\ \A k \in 1 .. Len(ready') : \E r \in interest' : r.conn = ready'[k]
      /\ \A d : d # c /\ Contains(ready, d) => Contains(ready, d)'
  BY <1>0, <1>2, ClosedLists
<1>5. /\ cpc' \in [Conns -> {"none", "connecting", "opened", "live", "gone"}]
      /\ cpc'[c] = "gone" /\ \A d \in Conns \ {c} : cpc'[d] = cpc[d]
      /\ cid' \in [Conns -> 0 .. handlerIdCounter]
      /\ cid'[c] = 0 /\ \A d \in Conns \ {c} : cid'[d] = cid[d]
  BY <1>0 DEF SInv, TypeOK
<1>6. /\ told' \in [Conns -> SUBSET Notes]
      /\ told'[c] = {} /\ \A d \in Conns \ {c} : told'[d] = told[d]
      /\ raised' \in [Conns -> SUBSET Bits]
      /\ raised'[c] = {} /\ \A d \in Conns \ {c} : raised'[d] = raised[d]
  BY <1>0 DEF SInv, TypeOK
<1>7. \A i \in DOMAIN commHandlers \ {id} :
        /\ commHandlers[i].conn \in Conns \ {c} /\ commHandlers[i].fd \in DOMAIN sockets \ {f}
        /\ sockets[commHandlers[i].fd] = commHandlers[i].conn
  <2> SUFFICES ASSUME NEW i \in DOMAIN commHandlers \ {id}
               PROVE  /\ commHandlers[i].conn \in Conns \ {c} /\ commHandlers[i].fd \in DOMAIN sockets \ {f}
                      /\ sockets[commHandlers[i].fd] = commHandlers[i].conn
    OBVIOUS
  <2>1. commHandlers[i].conn \in Conns /\ cid[commHandlers[i].conn] = i
    BY DEF SInv, TypeOK, Holders
  <2>2. commHandlers[i].conn # c
    BY <2>1
  <2>3. commHandlers[i].fd \in DOMAIN sockets /\ sockets[commHandlers[i].fd] = commHandlers[i].conn
    BY DEF SInv, DescriptorsAccounted
  <2> QED
    BY <1>2, <2>1, <2>2, <2>3
<1>8. \A g \in DOMAIN sockets \ {f} : sockets[g] \in Conns \ {c}
  <2> SUFFICES ASSUME NEW g \in DOMAIN sockets \ {f}, sockets[g] = c PROVE FALSE
    BY DEF SInv, TypeOK
  <2>1. commHandlers[id] = [fd |-> g, conn |-> c]
    BY <1>0, HolderOfSocket
  <2> QED
    BY <2>1
<1>9. \A d \in Conns \ {c} : cpc[d] = "live" => cid[d] \in DOMAIN commHandlers \ {id}
  BY <1>2 DEF SInv, Holders
<1> HIDE DEF id, f
<1>10. TypeOK'
  <2>1. \A i \in DOMAIN commHandlers' : commHandlers'[i] \in [fd : Fds, conn : Conns]
    BY <1>3 DEF SInv, TypeOK
  <2> QED
    BY <1>0, <1>1, <1>3, <1>4, <1>5, <1>6, <2>1 DEF SInv, TypeOK
<1>11. Holders'
  <2>1. \A d \in Conns : /\ cpc[d] \in {"connecting", "opened"} => cfd[d] \in DOMAIN sockets \ {f}
                         /\ cpc[d] = "live" => cfd[d] = 0
    BY <1>0, <1>2 DEF SInv, Holders
  <2>2. \A i \in DOMAIN commHandlers' :
          cpc'[commHandlers'[i].conn] = "live" /\ cid'[commHandlers'[i].conn] = i
    BY <1>3, <1>5, <1>7 DEF SInv, Holders
  <2>3. ASSUME NEW d \in Conns
        PROVE  /\ cpc'[d] \in {"connecting", "opened"} => cfd'[d] \in DOMAIN sockets' /\ sockets'[cfd'[d]] = d
               /\ cpc'[d] \notin {"connecting", "opened"} => cfd'[d] = 0
    <3>1. cfd' = cfd /\ cpc[c] = "live"
      BY <1>0
    <3> QED
      BY <1>4, <1>5, <2>1, <3>1 DEF SInv, Holders
  <2>4. ASSUME NEW d \in Conns
        PROVE  /\ cpc'[d] = "live" => cid'[d] \in DOMAIN commHandlers' /\ commHandlers'[cid'[d]].conn = d
               /\ cpc'[d] # "live" => cid'[d] = 0
    BY <1>3, <1>5, <1>9 DEF SInv, Holders
  <2> QED
    BY <2>2, <2>3, <2>4 DEF Holders
<1>12. DescriptorsAccounted'
  <2>1. ASSUME NEW g \in DOMAIN sockets \ {f}
        PROVE  \/ cfd[sockets[g]] = g
               \/ \E i \in DOMAIN commHandlers' : commHandlers'[i] = [fd |-> g, conn |-> sockets[g]]
    BY <1>3, <1>8, <1>9, HolderOfSocket
  <2>2. cfd' = cfd
    BY <1>0
  <2>3. \A g \in DOMAIN sockets' :
          \/ cfd'[sockets'[g]] = g
          \/ \E i \in DOMAIN commHandlers' : commHandlers'[i] = [fd |-> g, conn |-> sockets'[g]]
    BY <1>4, <2>1, <2>2
  <2>4. \A i \in DOMAIN commHandlers' : /\ commHandlers'[i].fd \in DOMAIN sockets'
                                        /\ sockets'[commHandlers'[i].fd] = commHandlers'[i].conn
    BY <1>3, <1>4, <1>7
  <2> QED
    BY <2>3, <2>4 DEF DescriptorsAccounted
<1>13. Watched'
  <2>1. \A r \in interest' : r.conn \in Conns \ {c}
    BY <1>4 DEF SInv, TypeOK
  <2> QED
    BY <1>1, <1>4, <1>5, <2>1 DEF SInv, Watched
<1>14. Batch'
  BY <1>0, <1>3, <1>6, <1>7 DEF SInv, Batch
<1>15. OwnEventsOnly'
  BY <1>6 DEF SInv, OwnEventsOnly
<1>16. NoEventLost'
  <2>1. ASSUME NEW d \in Conns PROVE LostFree(d)'
    <3>1. CASE d = c
      BY <1>5, <3>1 DEF LostFree
    <3>2. CASE d # c
      <4>1. LostFree(d) /\ raised[d] \subseteq Bits
        BY LostFreeIsNoEventLost DEF SInv, TypeOK
      <4>2. /\ cpc'[d] = cpc[d] /\ cid'[d] = cid[d] /\ told'[d] = told[d] /\ raised'[d] = raised[d]
            /\ Contains(ready, d) => Contains(ready, d)'
        BY <1>4, <1>5, <1>6, <3>2
      <4> QED
        BY <1>0, <1>1, <4>1, <4>2, LostFreeStays
    <3> QED
      BY <3>1, <3>2
  <2> QED
    BY <2>1, LostFreeIsNoEventLostNext
<1> QED
  BY <1>10, <1>11, <1>12, <1>13, <1>14, <1>15, <1>16 DEF SInv

(* A condition of a socket grows: epoll queues the socket if it watches it *)
(* at all, and it watches every live one unless an error was reported.     *)
LEMMA RaiseKeepsSInv ==
  ASSUME SInv, NEW c \in Conns, NEW bits \in Conditions, Raise(c, bits)
  PROVE  SInv'
<1>0. /\ raised' = [raised EXCEPT ![c] = bits] /\ raised[c] \subseteq bits
      /\ ready' = IF (\E r \in interest : r.conn = c) /\ ~Contains(ready, c) THEN Append(ready, c) ELSE ready
      /\ commHandlers' = commHandlers /\ handlerIdCounter' = handlerIdCounter
      /\ shutdownPending' = shutdownPending /\ asked' = asked /\ spc' = spc /\ events' = events
      /\ told' = told /\ cpc' = cpc /\ cfd' = cfd /\ cid' = cid /\ sockets' = sockets /\ interest' = interest
  BY DEF Raise, serviceVars, ownerVars
<1>1. /\ ready \in Seq(Conns) /\ IsInjective(ready)
      /\ \A k \in 1 .. Len(ready) : \E r \in interest : r.conn = ready[k]
  BY DEF SInv, TypeOK, Watched
<1>2. /\ ready' \in Seq(Conns) /\ IsInjective(ready')
      /\ \A k \in 1 .. Len(ready') : \E r \in interest : r.conn = ready'[k]
      /\ \A d : Contains(ready, d) => Contains(ready, d)'
      /\ (\E r \in interest : r.conn = c) => Contains(ready, c)'
  <2>1. CASE (\E r \in interest : r.conn = c) /\ ~Contains(ready, c)
    <3>1. ready' = Append(ready, c)
      BY <1>0, <2>1
    <3>2. /\ ready' \in Seq(Conns) /\ IsInjective(ready')
          /\ \A k \in 1 .. Len(ready') :
               ready'[k] = c \/ \E i \in 1 .. Len(ready) : ready[i] = ready'[k]
          /\ Contains(ready', c)
          /\ \A x : Contains(ready, x) => Contains(ready', x)
      BY <1>1, <2>1, <3>1, Queued
    <3> QED
      BY <1>1, <2>1, <3>2
  <2>2. CASE ~((\E r \in interest : r.conn = c) /\ ~Contains(ready, c))
    <3>1. ready' = ready
      BY <1>0, <2>2
    <3> QED
      BY <1>1, <2>2, <3>1
  <2> QED
    BY <2>1, <2>2
<1>3. /\ raised' \in [Conns -> SUBSET Bits] /\ raised'[c] = bits
      /\ \A d \in Conns \ {c} : raised'[d] = raised[d]
  BY <1>0 DEF SInv, TypeOK, Conditions, Bits
<1>4. \A d \in Conns : raised[d] \subseteq raised'[d]
  BY <1>0, <1>3
<1>5. TypeOK'
  BY <1>0, <1>2, <1>3 DEF SInv, TypeOK
<1>6. Holders' /\ DescriptorsAccounted'
  BY <1>0 DEF SInv, Holders, DescriptorsAccounted
<1>7. Watched'
  BY <1>0, <1>2 DEF SInv, Watched
<1>8. Batch'
  <2>1. \A i \in DOMAIN commHandlers : commHandlers[i].conn \in Conns
    BY DEF SInv, TypeOK
  <2>2. ASSUME NEW k \in 1 .. Len(events), events[k].data \in DOMAIN commHandlers
        PROVE  events[k].ev \subseteq raised'[commHandlers[events[k].data].conn]
    BY <1>4, <2>1, <2>2 DEF SInv, Batch
  <2> QED
    BY <1>0, <2>2 DEF SInv, Batch
<1>9. OwnEventsOnly'
  BY <1>0, <1>4 DEF SInv, OwnEventsOnly
<1>10. NoEventLost'
  <2>1. ASSUME NEW d \in Conns PROVE LostFree(d)'
    <3>1. CASE d = c
      <4>1. cpc[c] = "live" /\ ~asked => \E r \in interest : r.conn = c
        BY DEF SInv, Watched
      <4> QED
        BY <1>0, <1>2, <3>1, <4>1 DEF LostFree
    <3>2. CASE d # c
      <4>1. LostFree(d) /\ raised[d] \subseteq Bits
        BY LostFreeIsNoEventLost DEF SInv, TypeOK
      <4>2. raised'[d] = raised[d] /\ (Contains(ready, d) => Contains(ready, d)')
        BY <1>2, <1>3, <3>2
      <4> QED
        BY <1>0, <4>1, <4>2, LostFreeStays
    <3> QED
      BY <3>1, <3>2
  <2> QED
    BY <2>1, LostFreeIsNoEventLostNext
<1> QED
  BY <1>5, <1>6, <1>7, <1>8, <1>9, <1>10 DEF SInv

(* epoll_wait: what leaves the ready list is in the batch, with the id of  *)
(* the handler that is live now.                                           *)
LEMMA EpollWaitKeepsSInv ==
  ASSUME SInv, EpollWait
  PROVE  SInv'
<1> DEFINE n == Min({BatchLimit, Len(ready)})
           reported(k) == [data |-> (CHOOSE r \in interest : r.conn = ready[k]).data,
                           ev   |-> raised[ready[k]]]
<1>0. /\ spc = "waiting" /\ spc' = "process" /\ ready' = SubSeq(ready, n + 1, Len(ready))
      /\ events' = [k \in 1 .. n |-> reported(k)]
      /\ commHandlers' = commHandlers /\ handlerIdCounter' = handlerIdCounter
      /\ shutdownPending' = shutdownPending /\ asked' = asked
      /\ told' = told /\ cpc' = cpc /\ cfd' = cfd /\ cid' = cid /\ sockets' = sockets
      /\ interest' = interest /\ raised' = raised
  BY DEF EpollWait, Goto, ownerVars
<1>1. /\ ready \in Seq(Conns) /\ IsInjective(ready)
      /\ \A k \in 1 .. Len(ready) : ready[k] \in Conns /\ \E r \in interest : r.conn = ready[k]
  BY DEF SInv, TypeOK, Watched
<1>2. n \in Nat /\ n <= MaxEvents /\ n <= Len(ready)
  <2>1. {BatchLimit, Len(ready)} \subseteq Nat /\ {BatchLimit, Len(ready)} # {}
    BY <1>1, ServiceAssumption DEF BatchLimit
  <2>2. n \in {BatchLimit, Len(ready)} /\ \A y \in {BatchLimit, Len(ready)} : n <= y
    BY <2>1, HasLeast
  <2> HIDE DEF n
  <2> QED
    BY <2>1, <2>2 DEF BatchLimit
<1> HIDE DEF n
<1>3. ASSUME NEW k \in 1 .. n
      PROVE  /\ ready[k] \in Conns /\ cid[ready[k]] \in DOMAIN commHandlers
             /\ commHandlers[cid[ready[k]]].conn = ready[k]
             /\ reported(k) = [data |-> cid[ready[k]], ev |-> raised[ready[k]]]
  <2> DEFINE r == CHOOSE q \in interest : q.conn = ready[k]
  <2>1. ready[k] \in Conns /\ \E q \in interest : q.conn = ready[k]
    BY <1>1, <1>2
  <2>2. r \in interest /\ r.conn = ready[k]
    BY <2>1
  <2>3. reported(k) = [data |-> r.data, ev |-> raised[ready[k]]]
    OBVIOUS
  <2> HIDE DEF r
  <2>4. cpc[ready[k]] = "live" /\ r.data = cid[ready[k]]
    BY <2>2 DEF SInv, Watched
  <2>5. cid[ready[k]] \in DOMAIN commHandlers /\ commHandlers[cid[ready[k]]].conn = ready[k]
    BY <2>1, <2>4 DEF SInv, Holders
  <2> HIDE DEF reported
  <2> QED
    BY <2>1, <2>3, <2>4, <2>5
<1> HIDE DEF reported
<1>4. /\ events' \in Seq([data : Nat, ev : SUBSET Bits]) /\ Len(events') = n
      /\ \A k \in 1 .. n : events'[k] = [data |-> cid[ready[k]], ev |-> raised[ready[k]]]
  <2>1. ASSUME NEW k \in 1 .. n PROVE reported(k) \in [data : Nat, ev : SUBSET Bits]
    <3>1. cid[ready[k]] \in Nat /\ raised[ready[k]] \in SUBSET Bits
      BY <1>3 DEF SInv, TypeOK
    <3> QED
      BY <1>3, <3>1
  <2>2. \A k \in 1 .. n : events'[k] = reported(k)
    BY <1>0
  <2>3. Len(events') = n /\ events' \in Seq([data : Nat, ev : SUBSET Bits])
    BY <1>0, <1>2, <2>1
  <2> QED
    BY <1>3, <2>2, <2>3
<1>5. /\ ready' \in Seq(Conns) /\ IsInjective(ready')
      /\ \A k \in 1 .. Len(ready') : \E i \in 1 .. Len(ready) : ready[i] = ready'[k]
      /\ \A x : Contains(ready, x) => Contains(ready', x) \/ \E k \in 1 .. n : ready[k] = x
  <2>1. n \in 0 .. Len(ready)
    BY <1>2
  <2> QED
    BY <1>0, <1>1, <2>1, RestOfList
<1>6. TypeOK'
  BY <1>0, <1>2, <1>4, <1>5 DEF SInv, TypeOK
<1>7. Holders' /\ DescriptorsAccounted' /\ OwnEventsOnly'
  BY <1>0 DEF SInv, Holders, DescriptorsAccounted, OwnEventsOnly
<1>8. Watched'
  BY <1>0, <1>1, <1>5, SMTT(60) DEF SInv, Watched
<1>9. Batch'
  <2>1. \A k \in 1 .. n : events'[k].data = cid[ready[k]] /\ events'[k].ev = raised[ready[k]]
    BY <1>4
  <2>2. \A k \in 1 .. n : cid[ready[k]] \in 1 .. handlerIdCounter
    BY <1>3 DEF SInv, TypeOK
  <2>3. ASSUME NEW k \in 1 .. n
        PROVE  /\ events'[k].data \in 1 .. handlerIdCounter
               /\ events'[k].ev \subseteq raised[commHandlers[events'[k].data].conn]
    BY <1>3, <2>1, <2>2
  <2>4. spc' = "process" /\ Len(events') = n
    BY <1>0, <1>4
  <2> QED
    BY <1>0, <2>3, <2>4 DEF Batch
<1>10. NoEventLost'
  <2>1. ASSUME NEW d \in Conns PROVE LostFree(d)'
    <3>1. LostFree(d) /\ raised[d] \subseteq Bits /\ events = <<>> /\ Len(events) = 0
      BY <1>0, LostFreeIsNoEventLost DEF SInv, TypeOK, Batch
    <3> SUFFICES ASSUME cpc[d] = "live", ~asked, ~shutdownPending, NEW b \in raised[d]
                 PROVE  \/ Heard(d, b)'
                        \/ Contains(ready, d)'
                        \/ \E k \in 1 .. Len(events') : events'[k].data = cid[d] /\ b \in events'[k].ev
      BY <1>0 DEF LostFree
    <3>2. CASE Heard(d, b)
      BY <1>0, <3>1, <3>2, HeardStays
    <3>3. CASE Contains(ready, d)
      <4>1. ASSUME NEW k \in 1 .. n, ready[k] = d
            PROVE  \E j \in 1 .. Len(events') : events'[j].data = cid[d] /\ b \in events'[j].ev
        <5>1. k \in 1 .. Len(events') /\ events'[k].data = cid[d] /\ events'[k].ev = raised[d]
          BY <1>4, <4>1
        <5> QED
          BY <5>1
      <4> QED
        BY <1>5, <3>3, <4>1
    <3> QED
      BY <3>1, <3>2, <3>3 DEF LostFree
  <2> QED
    BY <2>1, LostFreeIsNoEventLostNext
<1> QED
  BY <1>6, <1>7, <1>8, <1>9, <1>10 DEF SInv

(* The notifications of an event say no more than the event.               *)
LEMMA NotesAreTrue ==
  ASSUME NEW ev
  PROVE  /\ NotesOf(ev) \subseteq Notes
         /\ "readerData" \in NotesOf(ev) => "IN" \in ev
         /\ "readerHUP" \in NotesOf(ev) => ev \cap {"RDHUP", "HUP"} # {}
         /\ "writerHUP" \in NotesOf(ev) => "HUP" \in ev
BY DEF NotesOf, Notes

(* The notifications of an event say all of the event.                     *)
LEMMA NotesAreComplete ==
  ASSUME NEW c, NEW ev, NEW b \in ev, b \in Bits, NotesOf(ev) \subseteq told'[c]
  PROVE  Heard(c, b)'
<1>1. CASE b = "IN"
  BY <1>1 DEF Heard, NotesOf
<1>2. CASE b = "OUT"
  BY <1>2 DEF Heard, NotesOf
<1>3. CASE b = "RDHUP"
  BY <1>3 DEF Heard, NotesOf
<1>4. CASE b = "HUP"
  BY <1>4 DEF Heard, NotesOf
<1> QED
  BY <1>1, <1>2, <1>3, <1>4 DEF Bits

(* The batch is processed: an event finds the handler it is about or, that *)
(* one being gone, nobody.                                                 *)
LEMMA ProcessKeepsSInv ==
  ASSUME SInv, ProcessEvents
  PROVE  SInv'
<1> DEFINE Mine(c) == {l \in Processed : \E i \in Found(events[l]) : commHandlers[i].conn = c}
           New(c)  == UNION {NotesOf(events[k].ev) : k \in Mine(c)}
<1>0. /\ told' = [c \in Conns |-> told[c] \cup New(c)] /\ events' = <<>>
      /\ spc' \in {"cancel", "waiting"}
      /\ commHandlers' = commHandlers /\ handlerIdCounter' = handlerIdCounter
      /\ shutdownPending' = shutdownPending /\ asked' = asked
      /\ cpc' = cpc /\ cfd' = cfd /\ cid' = cid /\ sockets' = sockets
      /\ interest' = interest /\ ready' = ready /\ raised' = raised
  BY DEF ProcessEvents, GotoLoop, Goto, ownerVars, kernelVars
<1>1. ASSUME NEW c, NEW k \in Mine(c)
      PROVE  k \in 1 .. Len(events) /\ events[k].ev \subseteq raised[c]
  <2>1. PICK i \in Found(events[k]) : commHandlers[i].conn = c
    OBVIOUS
  <2>2. k \in 1 .. Len(events) /\ i \in DOMAIN commHandlers /\ i = events[k].data
    BY <2>1 DEF Processed, Found, EventData
  <2> QED
    BY <2>1, <2>2 DEF SInv, Batch
<1>2. ASSUME NEW c, NEW k \in 1 .. Len(events), events[k].data \in DOMAIN commHandlers,
             commHandlers[events[k].data].conn = c
      PROVE  NotesOf(events[k].ev) \subseteq New(c)
  <2>1. events[k].data \in Found(events[k])
    BY <1>2 DEF Found, EventData
  <2>2. k \in Mine(c)
    BY <1>2, <2>1 DEF Processed
  <2> QED
    BY <2>2, Zenon
<1>3. ASSUME NEW c, NEW x \in New(c)
      PROVE  /\ x \in Notes
             /\ x = "readerData" => "IN" \in raised[c]
             /\ x = "readerHUP" => raised[c] \cap {"RDHUP", "HUP"} # {}
             /\ x = "writerHUP" => "HUP" \in raised[c]
  <2>1. PICK k \in Mine(c) : x \in NotesOf(events[k].ev)
    BY Zenon
  <2>2. events[k].ev \subseteq raised[c]
    BY <1>1
  <2> HIDE DEF Mine, New
  <2> QED
    BY <2>1, <2>2, NotesAreTrue
<1> HIDE DEF Mine, New
<1>4. \A c \in Conns : told'[c] = told[c] \cup New(c)
  BY <1>0
<1>5. TypeOK'
  <2>1. told' \in [Conns -> SUBSET Notes]
    BY <1>0, <1>3 DEF SInv, TypeOK
  <2>2. events' \in Seq([data : Nat, ev : SUBSET Bits]) /\ Len(events') <= MaxEvents
    BY <1>0, ServiceAssumption
  <2> QED
    BY <1>0, <2>1, <2>2 DEF SInv, TypeOK
<1>6. Holders' /\ DescriptorsAccounted' /\ Watched'
  BY <1>0 DEF SInv, Holders, DescriptorsAccounted, Watched
<1>7. Batch'
  BY <1>0 DEF Batch
<1>8. OwnEventsOnly'
  BY <1>0, <1>3, <1>4 DEF SInv, OwnEventsOnly
<1>9. NoEventLost'
  <2>1. ASSUME NEW d \in Conns PROVE LostFree(d)'
    <3>1. LostFree(d) /\ raised[d] \subseteq Bits /\ told[d] \subseteq told'[d]
      BY <1>4, LostFreeIsNoEventLost DEF SInv, TypeOK
    <3> SUFFICES ASSUME cpc[d] = "live", ~asked, ~shutdownPending, NEW b \in raised[d]
                 PROVE  Heard(d, b)' \/ Contains(ready, d)'
      BY <1>0 DEF LostFree
    <3>2. CASE Heard(d, b)
      BY <3>1, <3>2, HeardStays
    <3>3. CASE Contains(ready, d)
      BY <1>0, <3>3
    <3>4. CASE \E k \in 1 .. Len(events) : events[k].data = cid[d] /\ b \in events[k].ev
      <4>1. PICK k \in 1 .. Len(events) : events[k].data = cid[d] /\ b \in events[k].ev
        BY <3>4
      <4>2. cid[d] \in DOMAIN commHandlers /\ commHandlers[cid[d]].conn = d
        BY DEF SInv, Holders
      <4>3. NotesOf(events[k].ev) \subseteq told'[d]
        BY <1>2, <1>4, <4>1, <4>2
      <4> QED
        BY <3>1, <4>1, <4>3, NotesAreComplete
    <3> QED
      BY <3>1, <3>2, <3>3, <3>4 DEF LostFree
  <2> QED
    BY <2>1, LostFreeIsNoEventLostNext
<1> QED
  BY <1>5, <1>6, <1>7, <1>8, <1>9 DEF SInv

(* The cancellation of the handlers adds notifications of its own only.    *)
LEMMA CancelKeepsSInv ==
  ASSUME SInv, CancelAll
  PROVE  SInv'
<1>0. /\ spc = "cancel" /\ spc' = "done" /\ events' = events
      /\ commHandlers' = commHandlers /\ handlerIdCounter' = handlerIdCounter
      /\ shutdownPending' = shutdownPending /\ asked' = asked
      /\ cpc' = cpc /\ cfd' = cfd /\ cid' = cid /\ sockets' = sockets
      /\ interest' = interest /\ ready' = ready /\ raised' = raised
  BY DEF CancelAll, Goto, ownerVars, kernelVars
<1>1. /\ told' \in [Conns -> SUBSET Notes]
      /\ \A c \in Conns : /\ told[c] \subseteq told'[c]
                          /\ told'[c] \subseteq told[c] \cup {"readerCancel", "writerCancel"}
  BY DEF CancelAll, SInv, TypeOK, Notes
<1>2. TypeOK'
  BY <1>0, <1>1 DEF SInv, TypeOK
<1>3. Holders' /\ DescriptorsAccounted' /\ Watched' /\ Batch'
  BY <1>0 DEF SInv, Holders, DescriptorsAccounted, Watched, Batch
<1>4. OwnEventsOnly'
  BY <1>0, <1>1 DEF SInv, OwnEventsOnly
<1>5. NoEventLost'
  <2>1. ASSUME NEW d \in Conns PROVE LostFree(d)'
    <3>1. LostFree(d) /\ raised[d] \subseteq Bits
      BY LostFreeIsNoEventLost DEF SInv, TypeOK
    <3> QED
      BY <1>0, <1>1, <3>1, LostFreeStays
  <2> QED
    BY <2>1, LostFreeIsNoEventLostNext
<1> QED
  BY <1>2, <1>3, <1>4, <1>5 DEF SInv
-----------------------------------------------------------------------------
(* Every step of the program.                                              *)
LEMMA StepSInv ==
  ASSUME SInv, [Next]_vars
  PROVE  SInv'
<1>1. ASSUME NEW c \in Conns, Owner(c) PROVE SInv'
  <2>1. CASE Accept(c)
    BY <2>1, OpenKeepsSInv DEF Accept, IsNext
  <2>2. CASE ConnectOpens(c)
    <3>1. CASE Open(c) /\ cpc' = [cpc EXCEPT ![c] = "connecting"] /\ UNCHANGED asked
      BY <2>2, <3>1, OpenKeepsSInv DEF ConnectOpens, IsNext, serviceVars
    <3>2. CASE HandleError /\ cpc' = [cpc EXCEPT ![c] = "gone"] /\ UNCHANGED <<sockets, cfd>>
      BY <2>2, <3>2, MoveKeepsSInv DEF ConnectOpens, IsNext, HandleError
    <3> QED
      BY <2>2, <3>1, <3>2 DEF ConnectOpens
  <2>3. CASE ConnectReturns(c)
    <3>0. asked \in BOOLEAN
      BY DEF SInv, TypeOK
    <3>1. CASE cpc' = [cpc EXCEPT ![c] = "opened"] /\ UNCHANGED <<cfd, asked, sockets, interest, ready>>
      BY <2>3, <3>0, <3>1, MoveKeepsSInv DEF ConnectReturns
    <3>2. CASE /\ CloseAfterFailure(cfd[c]) /\ cfd' = [cfd EXCEPT ![c] = 0]
               /\ cpc' = [cpc EXCEPT ![c] = "gone"] /\ (HandleError \/ UNCHANGED asked)
      <4>1. asked' \in BOOLEAN /\ (asked => asked')
        <5>1. asked' = TRUE \/ asked' = asked
          BY <3>2 DEF HandleError
        <5> QED
          BY <3>0, <5>1, Zenon
      <4> QED
        BY <2>3, <3>2, <4>1, ConnectFailsKeepsSInv DEF ConnectReturns, CloseAfterFailure
    <3> QED
      BY <2>3, <3>1, <3>2 DEF ConnectReturns
  <2>4. CASE CreateHandlerFromSocket(c)
    BY <2>4, CreateKeepsSInv
  <2>5. CASE DisposeHandler(c)
    BY <2>5, DisposeKeepsSInv
  <2> QED
    BY <1>1, <2>1, <2>2, <2>3, <2>4, <2>5 DEF Owner
<1>2. ASSUME NEW c \in Conns, NEW bits \in Conditions, Raise(c, bits) PROVE SInv'
  BY <1>2, RaiseKeepsSInv
<1>3. CASE Worker
  <2>1. CASE WorkerStarts \/ EpollWaitNothing
    <3>1. /\ spc # "process" /\ spc' \in {"cancel", "waiting"}
          /\ UNCHANGED <<commHandlers, handlerIdCounter, events, cpc, cfd, cid, told, sockets,
                         interest, ready, raised, asked, shutdownPending>>
      BY <2>1 DEF WorkerStarts, EpollWaitNothing, GotoLoop, Goto, ownerVars, kernelVars
    <3>2. TypeOK'
      BY <3>1 DEF SInv, TypeOK
    <3> QED
      BY <3>1, <3>2, QuietStep
  <2>2. CASE EpollWait
    BY <2>2, EpollWaitKeepsSInv
  <2>3. CASE ProcessEvents
    BY <2>3, ProcessKeepsSInv
  <2>4. CASE CancelAll
    BY <2>4, CancelKeepsSInv
  <2> QED
    BY <1>3, <2>1, <2>2, <2>3, <2>4 DEF Worker
<1>4. CASE WorkerFails
  <2>1. /\ spc # "process" /\ spc' = "failed" /\ asked' = TRUE
        /\ UNCHANGED <<commHandlers, handlerIdCounter, events, cpc, cfd, cid, told, sockets,
                       interest, ready, raised, shutdownPending>>
    BY <1>4 DEF WorkerFails, HandleError, Goto, ownerVars, kernelVars
  <2>2. TypeOK'
    BY <2>1 DEF SInv, TypeOK
  <2> QED
    BY <2>1, <2>2, QuietStep
<1>5. CASE OnShutdown
  <2>1. /\ shutdownPending' = TRUE
        /\ UNCHANGED <<commHandlers, handlerIdCounter, events, cpc, cfd, cid, told, sockets,
                       interest, ready, raised, asked, spc>>
    BY <1>5 DEF OnShutdown, ownerVars, kernelVars
  <2>2. TypeOK'
    BY <2>1 DEF SInv, TypeOK
  <2> QED
    BY <2>1, <2>2, QuietStep
<1>6. CASE Ended \/ UNCHANGED vars
  <2>1. UNCHANGED <<commHandlers, handlerIdCounter, events, cpc, cfd, cid, told, sockets,
                    interest, ready, raised, asked, spc, shutdownPending>>
    BY <1>6 DEF Ended, vars, serviceVars, ownerVars, kernelVars
  <2>2. TypeOK'
    BY <2>1 DEF SInv, TypeOK
  <2> QED
    BY <2>1, <2>2, QuietStep
<1> QED
  BY <1>1, <1>2, <1>3, <1>4, <1>5, <1>6 DEF Next

(* The inductive invariant: the registry, the descriptor table, epoll's    *)
(* lists, the batch and what the helpers were told agree at every step of  *)
(* the owners, the peers and the thread.                                   *)
THEOREM ServiceInductive == Spec => []SInv
<1>1. Init => SInv
  BY InitSInv
<1>2. SInv /\ [Next]_vars => SInv'
  BY StepSInv
<1> QED
  BY <1>1, <1>2, PTL DEF Spec

(* Type correctness of the service.                                        *)
THEOREM ServiceTypes == Spec => []TypeOK
<1>1. SInv => TypeOK
  BY DEF SInv
<1> QED
  BY <1>1, ServiceInductive, PTL

(* No helper is told of what happened to another socket, although the      *)
(* thread looks handlers up after epoll_wait has returned and descriptors  *)
(* are handed out again meanwhile.                                         *)
THEOREM HelpersHearOwnEvents == Spec => []OwnEventsOnly
<1>1. SInv => OwnEventsOnly
  BY DEF SInv
<1> QED
  BY <1>1, ServiceInductive, PTL

(* Every edge that epoll reports about a live handler is heard, in the     *)
(* batch or queued, unless an error or a shutdown intervened.              *)
THEOREM EdgesAreKept == Spec => []NoEventLost
<1>1. SInv => NoEventLost
  BY DEF SInv
<1> QED
  BY <1>1, ServiceInductive, PTL

(* Every open descriptor has one holder, and a handler's descriptor is     *)
(* open and its own: DisposeHandler never closes somebody else's.          *)
THEOREM DescriptorsHaveHolders == Spec => []DescriptorsAccounted
<1>1. SInv => DescriptorsAccounted
  BY DEF SInv
<1> QED
  BY <1>1, ServiceInductive, PTL
=============================================================================
