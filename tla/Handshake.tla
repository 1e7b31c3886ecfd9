------------------------------ MODULE Handshake ------------------------------
(***************************************************************************)
(* Job_ClientHandshake::Execute: the SOCKS5 dialogue with a client, the    *)
(* attempts to connect to what it asks for, the reply and the job's result.*)
(*                                                                         *)
(* The client is any peer: what it sends is chosen at every read.  A       *)
(* transfer of n bytes returns n, 0 after a timeout (part of the bytes may *)
(* have passed) or a negative status (CommHelper).  Consecutive reads that *)
(* fail in the same way are one step.  The job shares nothing but handlers *)
(* with other threads, so its steps need no interleaving; what becomes of  *)
(* its claims is in HandlerClaims.  GetHandler finds the handlers, as      *)
(* HandlerClaims shows.  udns and the kernel are external.                 *)
(***************************************************************************)
EXTENDS Config, Sequences, SequencesExt

CONSTANTS
  CommandLines,    (* sets of options the program may be started with      *)
  MethodLists,     (* auth methods a client may offer, in order            *)
  Names,           (* logins and passwords a client may send               *)
  RawIPs,          (* addresses, as numbers                                *)
  NetPorts,        (* ports as they stand in messages and sockaddrs        *)
  Answers6, Answers4   (* bound: addresses that a name resolves to         *)

ASSUME HandshakeAssumption ==
  /\ \E a \in CommandLines : Accepted(a)
  /\ MethodLists \subseteq Seq(0 .. 255)
  /\ RawIPs \subseteq Nat /\ NetPorts \subseteq Ports
  /\ {Answers6, Answers4} \subseteq Nat

VARIABLES
  args, config,    (* the command line and what main made of it            *)
  pc,              (* where Execute is                                     *)
  heard,           (* every field used so far was received in full         *)
  methods,         (* what the client offered                              *)
  selectedAuthMethod,
  login,           (* name and password the client sent, if any            *)
  cmd, destIPs, nsport,
  wanted,          (* the addresses the client's request stands for        *)
  tried, spent,    (* attempts made, the most time they can take (usec)    *)
  met,             (* how the attempts ended                               *)
  dialled,         (* the sockaddr of the last attempt                     *)
  target,          (* a handler for the target exists                      *)
  claims,          (* handlers in finalState                               *)
  bound,           (* the local sockaddr of the target's socket            *)
  rep, bindEP,
  reply,           (* the response, once the client has all of it          *)
  result           (* the job's result and the handlers it disclaims       *)

confVars   == <<args, config>>
clientVars == <<heard, methods, selectedAuthMethod, login>>
reqVars    == <<cmd, destIPs, nsport, wanted>>
connVars   == <<tried, spent, met, dialled, target, claims, bound>>
replyVars  == <<rep, bindEP, reply>>
vars == <<confVars, pc, clientVars, reqVars, connVars, replyVars, result>>

None == [none |-> TRUE]
Failures == {"refused", "timeout", "unreachable", "other"}

TypeOK ==
  /\ args \in CommandLines
  /\ pc \in {"greeting", "method", "auth", "authOk", "request", "port", "connect", "bind", "reply", "over"}
  /\ heard \in BOOLEAN /\ target \in BOOLEAN
  /\ methods \in MethodLists \cup {<<>>} /\ selectedAuthMethod \in {-1, 0, 2}
  /\ login = None \/ login \in Names \X Names
  /\ cmd \in 0 .. 255 /\ nsport \in NetPorts \cup {0}
  /\ Len(destIPs) <= Answers6 + Answers4 + 1
  /\ tried \in 0 .. Len(destIPs) /\ spent \in Nat
  /\ met \subseteq Failures
  /\ claims \subseteq {"client", "target"}
  /\ rep \in {0, 1, 3, 5, 7}
  /\ result = None \/ result.type \in {"terminal", "connect"}

Init ==
  /\ args \in {a \in CommandLines : Accepted(a)}
  /\ config = Configuration(args)
  /\ pc = "greeting" /\ heard = TRUE
  /\ methods = <<>> /\ selectedAuthMethod = -1 /\ login = None
  /\ cmd = 0 /\ destIPs = <<>> /\ nsport = 0 /\ wanted = {}
  /\ tried = 0 /\ spent = 0 /\ met = {} /\ dialled = None
  /\ target = FALSE /\ claims = {"client"} /\ bound = None
  /\ rep = 1 /\ bindEP = NoEndpoint /\ reply = None
  /\ result = None
-----------------------------------------------------------------------------
(* Transfer(buff, n, false)                                                *)
Outcomes(n) == {n, 0, -1, -2}

(* The test of the reads: Transfer(...) < n fails.                         *)
CompleteUnlessError(r, n) == r >= 0

Complete(r, n) == r >= n

(* A field of one byte, or a length and then n bytes.                      *)
Receive(r, q, n) == heard' = (heard /\ r >= 1 /\ q >= n)

End(type, handlers) ==
  /\ pc' = "over"
  /\ result' = [type |-> type, handlers |-> handlers]

(* Both overloads of the failure: the terminal result of a State.          *)
FailWithDisclaim(handlers) == End("terminal", handlers)

Fails(handlers) ==
  /\ FailWithDisclaim(handlers)
  /\ UNCHANGED <<methods, selectedAuthMethod, login, reqVars, connVars, replyVars>>
-----------------------------------------------------------------------------
(* Greeting: version, number of methods, methods.                          *)
Supported(m) == (GetUser(config, "") /\ m = 0) \/ m = 2

SelectFirst(ms) == IF ms = <<>> THEN -1 ELSE ms[1]

Select(ms) ==
  LET good == {k \in 1 .. Len(ms) : Supported(ms[k])}
  IN  IF good = {} THEN -1 ELSE ms[CHOOSE k \in good : \A l \in good : k <= l]

Greeting ==
  /\ pc = "greeting"
  /\ \E version \in {4, 5}, ms \in MethodLists :
     \E r \in Outcomes(1), q \in Outcomes(Len(ms)) :
       /\ Receive(r, q, Len(ms))
       /\ IF Complete(r, 1) /\ Complete(q, Len(ms)) /\ version = 5 /\ Select(ms) >= 0
            THEN /\ methods' = ms /\ selectedAuthMethod' = Select(ms)
                 /\ pc' = "method"
                 /\ UNCHANGED <<login, reqVars, connVars, replyVars, result>>
            (* with no method in common the client is told so first *)
            ELSE Fails(claims)
  /\ UNCHANGED confVars

(* "notify client about selected auth method".                             *)
SendMethod ==
  /\ pc = "method"
  /\ \E r \in Outcomes(2) :
       IF r = 2
         THEN /\ pc' = IF selectedAuthMethod = 2 THEN "auth" ELSE "request"
              /\ UNCHANGED <<methods, selectedAuthMethod, login, reqVars, connVars, replyVars, result>>
         ELSE Fails(claims)
  /\ UNCHANGED <<confVars, heard>>

(* "check authentification"                                                *)
LoginOk(name, password) == GetUser(config, name) /\ config.users[name] = password

(* What there is to read after the two lengths: a transfer of no bytes     *)
(* returns 0, and that is not less than the 0 asked for.                   *)
FieldLen(name, password) == IF name = "" /\ password = "" THEN 0 ELSE 1

(* Version, name and password; a failure of either of the last two tests   *)
(* is sent to the client (SendAuthFailWithDisclaim), whatever becomes of   *)
(* that transfer.                                                          *)
Auth ==
  /\ pc = "auth"
  /\ \E version \in {1, 5}, name \in Names, password \in Names :
     \E r \in Outcomes(1), q \in Outcomes(FieldLen(name, password)) :
       /\ Receive(r, q, FieldLen(name, password))
       /\ IF /\ Complete(r, 1) /\ Complete(q, FieldLen(name, password))
             /\ version = 1 /\ LoginOk(name, password)
            THEN /\ login' = <<name, password>>
                 /\ pc' = "authOk"
                 /\ UNCHANGED <<methods, selectedAuthMethod, reqVars, connVars, replyVars, result>>
            ELSE Fails(claims)
  /\ UNCHANGED confVars

(* "confirm login"                                                         *)
SendAuthOk ==
  /\ pc = "authOk"
  /\ \E r \in Outcomes(2) :
       IF r = 2
         THEN /\ pc' = "request"
              /\ UNCHANGED <<methods, selectedAuthMethod, login, reqVars, connVars, replyVars, result>>
         ELSE Fails(claims)
  /\ UNCHANGED <<confVars, heard>>
-----------------------------------------------------------------------------
(* Request: version, command, address type, address.                       *)

V4(raw) == FromRaw(raw, IPV4_ADDR_LEN)
V6(raw) == FromRaw(raw, IPV6_ADDR_LEN)

(* The addresses a request names: one of either kind, as bytes or as text  *)
(* in a domain name, or a name that udns resolves, IPv6 answers first.     *)
Resolved(n6, n4) == [k \in 1 .. n6 |-> V6(k)] \o [k \in 1 .. n4 |-> V4(k)]

Destinations ==
  {<<V4(raw)>> : raw \in RawIPs} \cup {<<V6(raw)>> : raw \in RawIPs}
    \cup {Resolved(n[1], n[2]) : n \in (0 .. Answers6) \X (0 .. Answers4)}

(* An unknown version or address type, and a lookup that cannot be started *)
(* (dns_new, dns_open), end the job without an answer to the client.       *)
Request ==
  /\ pc = "request"
  /\ \E c \in {1, 2}, ips \in Destinations, good \in BOOLEAN :
     \E r \in Outcomes(1), q \in Outcomes(1) :
       /\ Receive(r, q, 1)
       /\ IF Complete(r, 1) /\ Complete(q, 1) /\ good
            THEN /\ cmd' = c /\ destIPs' = ips
                 /\ wanted' = {ToSA(a) : a \in ToSet(ips)}
                 /\ pc' = "port"
                 /\ UNCHANGED <<methods, selectedAuthMethod, login, nsport, connVars, replyVars, result>>
            ELSE Fails(claims)
  /\ UNCHANGED confVars

(* "read port", "check CMD".                                               *)
Port ==
  /\ pc = "port"
  /\ \E p \in NetPorts, r \in Outcomes(2) :
       /\ Receive(r, r, 2)
       /\ IF Complete(r, 2)
            THEN /\ nsport' = p
                 /\ pc' = IF cmd = 1 THEN "connect" ELSE "reply"
                 /\ rep' = IF cmd = 1 THEN rep ELSE 7
                 /\ UNCHANGED <<methods, selectedAuthMethod, login, cmd, destIPs, wanted, connVars,
                                bindEP, reply, result>>
            ELSE Fails(claims)
  /\ UNCHANGED confVars
-----------------------------------------------------------------------------
(* ntohs(nsport)                                                           *)
PortOfRequest == Swapped(nsport)

(* "calculate timeouts for connection attempts", in microseconds.          *)
ConnectTimeoutUndivided(n) == config.settings["cmax"] * 1000000

ConnectTimeout(n) ==
  LET proposed == (config.settings["cmax"] * 1000000) \div n
      least    == config.settings["cmin"] * 1000000
  IN  IF proposed < least THEN least ELSE proposed

(* What ConnectAndCreateHandler gives to connect.                          *)
SockAddr(a, port) == [to |-> ToSA(a), port |-> Swapped(port)]

(* HANDLER_ERROR_CONN_REFUSED, _NET_UNAVAIL and _OTHER.                    *)
RepAfter(failure) ==
  CASE failure \in {"refused", "timeout"} -> 5
    [] failure = "unreachable" -> 3
    [] failure = "other" -> rep

(* One call of ConnectAndCreateHandler; SO_SNDTIMEO ends it in time.       *)
Attempt ==
  /\ pc = "connect" /\ tried < Len(destIPs)
  /\ tried' = tried + 1
  /\ dialled' = SockAddr(destIPs[tried + 1], PortOfRequest)
  /\ spent' = spent + ConnectTimeout(Len(destIPs))

(* The next address is tried after a failure of any kind.                  *)
AttemptFails ==
  /\ Attempt
  /\ \E f \in Failures :
       /\ met' = met \cup {f}
       /\ rep' = RepAfter(f)
  /\ UNCHANGED <<confVars, pc, clientVars, reqVars, target, claims, bound, bindEP, reply, result>>

(* The new handler is added to finalState at once.                         *)
AttemptSucceeds ==
  /\ Attempt
  /\ rep' = 0
  /\ target' = TRUE /\ claims' = claims \cup {"target"}
  /\ pc' = "bind"
  /\ UNCHANGED <<confVars, clientVars, reqVars, met, bound, bindEP, reply, result>>

(* The handlers of the result when the job fails.                          *)
ClaimsOfFailureOld == {"client"}

ClaimsOfFailure == claims

(* getsockname fills a sockaddr of 16 bytes: the second half of an IPv6    *)
(* address is read from beyond it and may be anything.                     *)
AddressRead(family, raw) == IF family = AF_INET6 THEN RawIPs ELSE {raw}

BindKnown ==
  /\ pc = "bind"
  /\ \E raw \in RawIPs, port \in NetPorts :
       /\ bound' = [family |-> dialled.to.family, addr |-> raw, port |-> port]
       /\ \E seen \in AddressRead(dialled.to.family, raw) :
            bindEP' = EndpointFromSA([bound' EXCEPT !.addr = seen])
  /\ pc' = "reply"
  /\ UNCHANGED <<confVars, clientVars, reqVars, tried, spent, met, dialled, target, claims,
                 rep, reply, result>>

(* getsockname fails or returns another family: no reply is sent.          *)
BindUnknown ==
  /\ pc = "bind"
  /\ FailWithDisclaim(ClaimsOfFailure)
  /\ UNCHANGED <<confVars, clientVars, reqVars, connVars, replyVars>>

(* The loop is over without a connection.                                  *)
NoAddressLeft ==
  /\ pc = "connect" /\ tried = Len(destIPs)
  /\ pc' = "reply"
  /\ UNCHANGED <<confVars, clientVars, reqVars, connVars, replyVars, result>>

(* "send client response": the job goes on to a tunnel only if the client  *)
(* has been told of its success.                                           *)
ResultAfterReply == IF cmd = 1 /\ rep = 0 THEN "connect" ELSE "terminal"

(* The version, the code, a zero, the address type and the endpoint.       *)
respLen == 4 + ToRawBuff(bindEP).len

SentUnlessError(r) == r >= 0

Sent(r) == r >= respLen

SendReply ==
  /\ pc = "reply"
  /\ \E r \in Outcomes(respLen) :
       IF Sent(r)
         THEN /\ End(ResultAfterReply, claims)
              /\ reply' = IF r = respLen THEN [rep |-> rep, ep |-> ToRawBuff(bindEP)] ELSE reply
         ELSE /\ FailWithDisclaim(ClaimsOfFailure)
              /\ UNCHANGED reply
  /\ UNCHANGED <<confVars, clientVars, reqVars, connVars, rep, bindEP>>

Over == pc = "over" /\ UNCHANGED vars

Next ==
  \/ Greeting \/ SendMethod \/ Auth \/ SendAuthOk \/ Request \/ Port
  \/ AttemptFails \/ AttemptSucceeds \/ BindKnown \/ BindUnknown \/ NoAddressLeft \/ SendReply
  \/ Over

Spec == Init /\ [][Next]_vars
-----------------------------------------------------------------------------
(* Correctness                                                             *)

(* What the command line says of the client: with -usr only that user with *)
(* the password of -pwd, without it anybody.  An empty user name is that   *)
(* of the anonymous login, whatever -pwd says.                             *)
Entitled ==
  \/ Name(args, "usr") = ""
  \/ login # None /\ login[1] = args["usr"] /\ login[2] = Name(args, "pwd")

(* Nobody is connected anywhere before the whole dialogue was received,    *)
(* by a method the client offered and with the user of the command line;   *)
(* and the connection goes to an address and the port that were asked for. *)
AuthorizedConnect ==
  tried > 0 =>
    /\ heard /\ Entitled /\ cmd = 1
    /\ Contains(methods, selectedAuthMethod)
    /\ dialled.to \in wanted /\ dialled.port = nsport

(* Client and dispatcher are told the same: a tunnel follows exactly when  *)
(* the client has got the whole of a success reply, and then both handlers *)
(* are handed over.  Any other reply says why there is no connection.      *)
ReplyIsHonest ==
  /\ result # None => (result.type = "connect" <=> (reply # None /\ reply.rep = 0))
  /\ result # None /\ result.type = "connect" => target /\ result.handlers = {"client", "target"}
  /\ reply # None =>
       CASE reply.rep = 0 -> target
         [] reply.rep = 1 -> ~target /\ met \subseteq {"other"}
         [] reply.rep = 3 -> ~target /\ "unreachable" \in met
         [] reply.rep = 5 -> ~target /\ met \cap {"refused", "timeout"} # {}
         [] reply.rep = 7 -> cmd # 1 /\ tried = 0

(* Every handler the job has made is in the State of its result, on every  *)
(* path out of Execute that can be reached (GetHandler finds the target,   *)
(* as HandlerClaims shows): otherwise nobody would ever close it.          *)
TargetIsHandedBack ==
  result # None => result.handlers = {"client"} \cup (IF target THEN {"target"} ELSE {})

(* "-cmax <seconds> max total time for establishing connection": all the   *)
(* attempts together, however many addresses the name has.                 *)
TotalTimeKept == spent <= config.settings["cmax"] * 1000000

(* The promise is kept where "-cmin", the least time of each attempt,      *)
(* leaves room for it: rounding and the last attempts included.            *)
ConnectTime ==
  Len(destIPs) * config.settings["cmin"] <= config.settings["cmax"] => TotalTimeKept
=============================================================================
