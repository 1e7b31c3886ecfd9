--------------------------- MODULE HandshakeProofs ---------------------------
(***************************************************************************)
(* Theorems about Handshake for every command line that main accepts, all  *)
(* method lists, logins, addresses and ports.                              *)
(***************************************************************************)
EXTENDS Handshake, SequenceTheorems, WellFoundedInduction, TLAPS

IPAddresses == [isValid : BOOLEAN, isV6 : BOOLEAN, ip : Nat]

(* The stages of the dialogue, each a part of the one before.              *)
Chosen    == {"method", "auth", "authOk", "request", "port", "connect", "bind", "reply"}
LoggedIn  == {"authOk", "request", "port", "connect", "bind", "reply"}
Asked     == {"port", "connect", "bind", "reply"}
Unstarted == {"greeting", "method", "auth", "authOk", "request", "port"}

(* Main accepted the command line.                                         *)
Configured == Accepted(args) /\ config = Configuration(args)

(* Until the job is over there is no result, and nothing was missed.       *)
Running ==
  /\ pc # "over" => result = None /\ reply = None /\ heard
  /\ claims = {"client"} \cup (IF target THEN {"target"} ELSE {})

(* The dialogue so far.                                                    *)
Dialogue ==
  /\ pc \in Chosen => Contains(methods, selectedAuthMethod) /\ selectedAuthMethod \in {0, 2}
                      /\ Supported(selectedAuthMethod)
  /\ pc \in LoggedIn => Entitled
  /\ destIPs \in Seq(IPAddresses)
  /\ pc \in Asked => wanted = {ToSA(a) : a \in ToSet(destIPs)}
  /\ pc = "connect" => cmd = 1 /\ nsport \in NetPorts

(* What the reply code says about the attempts.                            *)
Reasons ==
  /\ pc \in Unstarted => tried = 0 /\ met = {} /\ ~target /\ rep = 1
  /\ pc = "connect" => ~target
  /\ pc = "bind" => target /\ rep = 0 /\ cmd = 1
  /\ pc \in {"connect", "reply"} =>
       /\ rep = 0 => pc = "reply" /\ target /\ cmd = 1
       /\ rep = 1 => ~target /\ met \subseteq {"other"}
       /\ rep = 3 => ~target /\ "unreachable" \in met
       /\ rep = 5 => ~target /\ met \cap {"refused", "timeout"} # {}
       /\ rep = 7 => ~target /\ cmd # 1 /\ tried = 0

(* The time of the attempts so far.                                        *)
Clock ==
  /\ tried = 0 => spent = 0
  /\ tried > 0 => spent = tried * ConnectTimeout(Len(destIPs))

HsInv ==
  /\ TypeOK /\ Configured /\ Running /\ Dialogue /\ Reasons /\ Clock
  /\ AuthorizedConnect /\ ReplyIsHonest /\ TargetIsHandedBack
-----------------------------------------------------------------------------
(* The bytes of a port are exchanged twice.                                *)
LEMMA SwappedTwice == \A p \in Ports : Swapped(Swapped(p)) = p
BY SMTT(90) DEF Ports, Swapped

(* The limits of main on the two connection timeouts.                      *)
LEMMA LimitsOfTimeouts ==
  /\ Limits(args, "cmin") = 1 .. 60
  /\ Limits(args, "cmax") = (Setting(args, "cmin") \div 1000) .. 120
<1>1. Least(args)["cmin"] = 1 /\ Least(args)["cmax"] = Setting(args, "cmin") \div 1000
  BY DEF Least
<1>2. Most(args)["cmin"] = 60 /\ Most(args)["cmax"] = 120
  BY DEF Most
<1> QED
  BY <1>1, <1>2, Zenon DEF Limits

(* The values of the two timeouts, given or not.                           *)
LEMMA TimeoutsInRange ==
  ASSUME Configured
  PROVE  config.settings["cmin"] \in 1 .. 60 /\ config.settings["cmax"] \in 0 .. 120
<1> DEFINE S(o) == Setting(args, o)
<1>1. {"cmin", "cmax"} \subseteq DOMAIN Default /\ Default["cmin"] = 5 /\ Default["cmax"] = 20
  BY DEF Default
<1>2. config.settings["cmin"] = S("cmin") /\ config.settings["cmax"] = S("cmax")
  BY <1>1 DEF Configured, Configuration
<1>3. /\ S("cmin") \in Limits(args, "cmin") \/ S("cmin") = 5
      /\ S("cmax") \in Limits(args, "cmax") \/ S("cmax") = 20
  <2>1. \A o \in {"cmin", "cmax"} : S(o) \in Limits(args, o) \/ S(o) = Default[o]
    BY <1>1, Zenon DEF Configured, Accepted, Setting
  <2> QED
    BY <1>1, <2>1, Zenon
<1> HIDE DEF S
<1>4. S("cmin") \in 1 .. 60
  <2>1. 5 \in 1 .. 60 /\ Limits(args, "cmin") = 1 .. 60
    BY LimitsOfTimeouts
  <2> QED
    BY <1>3, <2>1
<1>5. S("cmax") \in 0 .. 120
  <2> DEFINE least == S("cmin") \div 1000
  <2>1. Limits(args, "cmax") = least .. 120
    BY LimitsOfTimeouts DEF S
  <2>2. least = 0
    BY <1>4
  <2> HIDE DEF least
  <2>3. Limits(args, "cmax") = 0 .. 120
    BY <2>1, <2>2, Zenon
  <2> QED
    BY <1>3, <2>3
<1> QED
  BY <1>2, <1>4, <1>5

(* The one user of the command line.                                       *)
LEMMA OneUser ==
  ASSUME Configured
  PROVE  /\ DOMAIN config.users = {Name(args, "usr")}
         /\ Given(args, "usr") => config.users[Name(args, "usr")] = Name(args, "pwd")
<1>1. config.users = Users(args)
  BY DEF Configured, Configuration
<1>2. DOMAIN <<>> = {}
  OBVIOUS
<1>3. CASE Given(args, "usr")
  <2>1. AddUser(<<>>, args["usr"], Name(args, "pwd")) = [n \in {args["usr"]} |-> Name(args, "pwd")]
    BY <1>2 DEF AddUser
  <2> QED
    BY <1>1, <1>3, <2>1 DEF Users, AddUser, Name
<1>4. CASE ~Given(args, "usr")
  <2>1. AddUser(<<>>, "", "") = [n \in {""} |-> ""]
    BY <1>2 DEF AddUser
  <2> QED
    BY <1>1, <1>4, <2>1 DEF Users, AddUser, Name
<1> QED
  BY <1>3, <1>4

(* A set of numbers has a least one: the first method of several.          *)
LEMMA HasLeast ==
  ASSUME NEW T, T \subseteq Nat, T # {}
  PROVE  \E x \in T : \A y \in T : x <= y
<1> DEFINE R == OpToRel(<, Nat)
<1>1. PICK x \in T : \A y \in T : <<y, x>> \notin R
  <2>1. IsWellFoundedOn(R, Nat)
    BY NatLessThanWellFounded
  <2> HIDE DEF R
  <2> QED
    BY <2>1, WFMin, Zenon
<1>2. \A y \in T : <<y, x>> \in R <=> y < x
  BY DEF OpToRel
<1> HIDE DEF R
<1>3. \A y \in T : ~(y < x)
  BY <1>1, <1>2, Zenon
<1>4. \A y \in T : x <= y
  BY <1>3
<1> QED
  BY <1>4

(* Select returns a method the client offered and the server supports.     *)
LEMMA SelectOffered ==
  ASSUME NEW ms \in MethodLists, Select(ms) >= 0
  PROVE  Contains(ms, Select(ms)) /\ Select(ms) \in {0, 2} /\ Supported(Select(ms))
<1> DEFINE good == {k \in 1 .. Len(ms) : Supported(ms[k])}
           first == CHOOSE k \in good : \A l \in good : k <= l
<1>0. ms \in Seq(0 .. 255)
  BY HandshakeAssumption
<1>1. good # {}
  <2>1. ~(-1 >= 0)
    OBVIOUS
  <2> QED
    BY <2>1, Zenon DEF Select
<1>2. \E k \in good : \A l \in good : k <= l
  <2>1. good \subseteq Nat
    BY <1>0
  <2> HIDE DEF good
  <2> QED
    BY <1>1, <2>1, HasLeast
<1>3. first \in good
  BY <1>2, Zenon
<1>4. Select(ms) = ms[first]
  BY <1>1, Zenon DEF Select
<1>5. first \in 1 .. Len(ms) /\ Supported(ms[first])
  BY <1>3, Zenon
<1> HIDE DEF first
<1>6. Contains(ms, ms[first])
  BY <1>5, Zenon DEF Contains
<1>7. ms[first] \in {0, 2}
  BY <1>5, Zenon DEF Supported
<1> QED
  BY <1>4, <1>5, <1>6, <1>7, Zenon

(* What a request stands for: some addresses, no more than a name has.     *)
LEMMA DestinationsAreAddresses ==
  ASSUME NEW ips \in Destinations
  PROVE  ips \in Seq(IPAddresses) /\ Len(ips) <= Answers6 + Answers4 + 1
<1>0. Answers6 \in Nat /\ Answers4 \in Nat /\ RawIPs \subseteq Nat
  BY HandshakeAssumption
<1>1. \A raw \in Nat : V4(raw) \in IPAddresses /\ V6(raw) \in IPAddresses
  BY DEF V4, V6, FromRaw, IPV4_ADDR_LEN, IPV6_ADDR_LEN, IPAddresses
<1>2. ASSUME NEW raw \in RawIPs, ips = <<V4(raw)>> \/ ips = <<V6(raw)>>
      PROVE  ips \in Seq(IPAddresses) /\ Len(ips) <= Answers6 + Answers4 + 1
  <2>1. \A a \in IPAddresses : <<a>> \in Seq(IPAddresses) /\ Len(<<a>>) = 1
    OBVIOUS
  <2>2. ips \in Seq(IPAddresses) /\ Len(ips) = 1
    BY <1>0, <1>1, <1>2, <2>1, Zenon
  <2> QED
    BY <1>0, <2>2
<1>3. ASSUME NEW n6 \in 0 .. Answers6, NEW n4 \in 0 .. Answers4, ips = Resolved(n6, n4)
      PROVE  ips \in Seq(IPAddresses) /\ Len(ips) <= Answers6 + Answers4 + 1
  <2> DEFINE six == [k \in 1 .. n6 |-> V6(k)]
             four == [k \in 1 .. n4 |-> V4(k)]
  <2>1. six \in Seq(IPAddresses) /\ Len(six) = n6
    BY <1>0, <1>1
  <2>2. four \in Seq(IPAddresses) /\ Len(four) = n4
    BY <1>0, <1>1
  <2>3. ips = six \o four
    BY <1>3, Zenon DEF Resolved
  <2> HIDE DEF six, four
  <2>4. ips \in Seq(IPAddresses) /\ Len(ips) = n6 + n4
    BY <2>1, <2>2, <2>3, ConcatProperties
  <2> QED
    BY <1>0, <2>4
<1>4. \/ \E raw \in RawIPs : ips = <<V4(raw)>> \/ ips = <<V6(raw)>>
      \/ \E n6 \in 0 .. Answers6, n4 \in 0 .. Answers4 : ips = Resolved(n6, n4)
  <2>1. \A n \in (0 .. Answers6) \X (0 .. Answers4) : n[1] \in 0 .. Answers6 /\ n[2] \in 0 .. Answers4
    OBVIOUS
  <2> QED
    BY <2>1, Zenon DEF Destinations
<1> QED
  BY <1>2, <1>3, <1>4, Zenon

(* Fewer attempts of the same length take less time.                       *)
LEMMA FewerTakeLess ==
  ASSUME NEW a \in Nat, NEW b \in Nat, NEW c \in Nat, a <= b
  PROVE  a * c <= b * c
OBVIOUS

(* The shares of n attempts fit into the whole.                            *)
LEMMA SharesFit ==
  ASSUME NEW x \in Nat, NEW n \in Nat \ {0}
  PROVE  x \div n \in Nat /\ n * (x \div n) <= x
OBVIOUS
-----------------------------------------------------------------------------
(* A result is not None.                                                   *)
LEMMA ResultIsNotNone ==
  ASSUME NEW type, NEW handlers
  PROVE  [type |-> type, handlers |-> handlers] # None
BY DEF None

(* A reply is not None.                                                    *)
LEMMA ReplyIsNotNone ==
  ASSUME NEW code, NEW ep
  PROVE  [rep |-> code, ep |-> ep] # None
BY DEF None

(* A login is not None.                                                    *)
LEMMA LoginIsNotNone ==
  ASSUME NEW name, NEW password
  PROVE  <<name, password>> # None
BY DEF None

(* Config never changes, and what was read from it does not either.        *)
LEMMA ConfigStays ==
  ASSUME UNCHANGED confVars
  PROVE  /\ Configured => Configured'
         /\ \A m : Supported(m) => Supported(m)'
         /\ \A n : ConnectTimeout(n)' = ConnectTimeout(n)
         /\ login' = login /\ Entitled => Entitled'
<1>1. args' = args /\ config' = config
  BY DEF confVars
<1>2. Configured => Configured'
  BY <1>1, Zenon DEF Configured
<1>3. \A m : Supported(m) => Supported(m)'
  BY <1>1, Zenon DEF Supported, GetUser
<1>4. \A n : ConnectTimeout(n)' = ConnectTimeout(n)
  BY <1>1 DEF ConnectTimeout
<1>5. login' = login /\ Entitled => Entitled'
  BY <1>1, Zenon DEF Entitled, Name, Given
<1> QED
  BY <1>2, <1>3, <1>4, <1>5

(* The invariant holds when Execute starts.                                *)
LEMMA InitHsInv == Init => HsInv
<1> SUFFICES ASSUME Init PROVE HsInv
  OBVIOUS
<1>1. TypeOK
  <2>1. Answers6 \in Nat /\ Answers4 \in Nat
    BY HandshakeAssumption
  <2>2. Len(destIPs) = 0
    BY DEF Init
  <2>3. Len(destIPs) <= Answers6 + Answers4 + 1 /\ tried \in 0 .. Len(destIPs) /\ spent \in Nat
    BY <2>1, <2>2 DEF Init
  <2>4. methods \in MethodLists \cup {<<>>}
    BY Zenon DEF Init
  <2>5. selectedAuthMethod \in {-1, 0, 2} /\ cmd \in 0 .. 255 /\ rep \in {0, 1, 3, 5, 7}
    BY DEF Init
  <2>6. args \in CommandLines
    BY DEF Init
  <2>7. heard \in BOOLEAN /\ target \in BOOLEAN /\ (login = None \/ login \in Names \X Names)
    BY Zenon DEF Init
  <2>8. /\ pc \in {"greeting", "method", "auth", "authOk", "request", "port", "connect", "bind",
                   "reply", "over"}
        /\ nsport \in NetPorts \cup {0} /\ met \subseteq Failures /\ claims \subseteq {"client", "target"}
    BY Zenon DEF Init
  <2> QED
    BY <2>3, <2>4, <2>5, <2>6, <2>7, <2>8, Zenon DEF Init, TypeOK
<1>2. Configured
  BY DEF Init, Configured
<1>3. Running
  BY DEF Init, Running
<1>4. Dialogue
  BY DEF Init, Dialogue, Chosen, LoggedIn, Asked
<1>5. Reasons
  BY DEF Init, Reasons, Unstarted
<1>6. Clock
  BY DEF Init, Clock
<1>7. AuthorizedConnect /\ ReplyIsHonest /\ TargetIsHandedBack
  BY DEF Init, AuthorizedConnect, ReplyIsHonest, TargetIsHandedBack
<1> QED
  BY <1>1, <1>2, <1>3, <1>4, <1>5, <1>6, <1>7 DEF HsInv

(* A failure before the first attempt.                                     *)
LEMMA FailsKeepsHsInv ==
  ASSUME HsInv, pc \in Unstarted, Fails(claims), heard' \in BOOLEAN, UNCHANGED confVars
  PROVE  HsInv'
<1>0. /\ pc' = "over" /\ result' = [type |-> "terminal", handlers |-> claims]
      /\ methods' = methods /\ selectedAuthMethod' = selectedAuthMethod /\ login' = login
      /\ cmd' = cmd /\ destIPs' = destIPs /\ nsport' = nsport /\ wanted' = wanted
      /\ tried' = tried /\ spent' = spent /\ met' = met /\ dialled' = dialled /\ target' = target
      /\ claims' = claims /\ bound' = bound /\ rep' = rep /\ bindEP' = bindEP /\ reply' = reply
      /\ args' = args
  BY DEF Fails, FailWithDisclaim, End, reqVars, connVars, replyVars, confVars
<1>1. result' # None /\ result'.type = "terminal" /\ result'.handlers = claims
  BY <1>0, ResultIsNotNone
<1>2. tried = 0 /\ reply = None /\ pc # "over"
  BY DEF HsInv, Reasons, Running, Unstarted
<1>3. TypeOK'
  BY <1>0, <1>1 DEF HsInv, TypeOK
<1>4. Configured'
  BY ConfigStays DEF HsInv
<1>5. Running'
  BY <1>0 DEF HsInv, Running
<1>6. Dialogue'
  BY <1>0 DEF HsInv, Dialogue, Chosen, LoggedIn, Asked
<1>7. Reasons'
  BY <1>0 DEF HsInv, Reasons, Unstarted
<1>8. Clock'
  BY <1>0, <1>2 DEF HsInv, Clock
<1>9. AuthorizedConnect' /\ ReplyIsHonest'
  BY <1>0, <1>1, <1>2 DEF AuthorizedConnect, ReplyIsHonest
<1>10. TargetIsHandedBack'
  BY <1>0, <1>1 DEF HsInv, Running, TargetIsHandedBack
<1> QED
  BY <1>3, <1>4, <1>5, <1>6, <1>7, <1>8, <1>9, <1>10 DEF HsInv

(* A step of the dialogue up to the port.                                  *)
LEMMA DialogueStep ==
  ASSUME HsInv, pc \in Unstarted, pc' \in Unstarted, heard', TypeOK', Dialogue',
         UNCHANGED <<confVars, connVars, replyVars, result>>
  PROVE  HsInv'
<1>0. /\ tried' = tried /\ spent' = spent /\ met' = met /\ target' = target
      /\ claims' = claims /\ rep' = rep /\ reply' = reply /\ result' = result
  BY DEF connVars, replyVars
<1>1. tried = 0 /\ reply = None /\ result = None /\ spent = 0
  BY DEF HsInv, Reasons, Running, Unstarted, Clock
<1>2. Configured'
  BY ConfigStays DEF HsInv
<1>3. Running'
  BY <1>0, <1>1 DEF HsInv, Running
<1>4. Reasons'
  BY <1>0 DEF HsInv, Reasons, Unstarted
<1>5. Clock'
  BY <1>0, <1>1 DEF Clock
<1>6. AuthorizedConnect' /\ ReplyIsHonest' /\ TargetIsHandedBack'
  BY <1>0, <1>1 DEF AuthorizedConnect, ReplyIsHonest, TargetIsHandedBack
<1> QED
  BY <1>2, <1>3, <1>4, <1>5, <1>6 DEF HsInv

(* The greeting.                                                           *)
LEMMA GreetingKeepsHsInv ==
  ASSUME HsInv, Greeting
  PROVE  HsInv'
<1>0. pc = "greeting" /\ pc \in Unstarted /\ heard /\ UNCHANGED confVars
  BY DEF Greeting, Unstarted, HsInv, Running
<1>1. PICK version \in {4, 5}, ms \in MethodLists :
        \E r \in Outcomes(1), q \in Outcomes(Len(ms)) :
          /\ Receive(r, q, Len(ms))
          /\ IF Complete(r, 1) /\ Complete(q, Len(ms)) /\ version = 5 /\ Select(ms) >= 0
               THEN /\ methods' = ms /\ selectedAuthMethod' = Select(ms)
                    /\ pc' = "method"
                    /\ UNCHANGED <<login, reqVars, connVars, replyVars, result>>
               ELSE Fails(claims)
  BY Zenon DEF Greeting
<1>2. PICK r \in Outcomes(1), q \in Outcomes(Len(ms)) :
          /\ Receive(r, q, Len(ms))
          /\ IF Complete(r, 1) /\ Complete(q, Len(ms)) /\ version = 5 /\ Select(ms) >= 0
               THEN /\ methods' = ms /\ selectedAuthMethod' = Select(ms)
                    /\ pc' = "method"
                    /\ UNCHANGED <<login, reqVars, connVars, replyVars, result>>
               ELSE Fails(claims)
  BY <1>1, Zenon
<1>3. heard' \in BOOLEAN
  BY <1>2, Zenon DEF Receive
<1>4. CASE Complete(r, 1) /\ Complete(q, Len(ms)) /\ version = 5 /\ Select(ms) >= 0
  <2>1. /\ methods' = ms /\ selectedAuthMethod' = Select(ms) /\ pc' = "method"
        /\ login' = login /\ UNCHANGED <<reqVars, connVars, replyVars, result>>
    BY <1>2, <1>4
  <2>2. heard'
    BY <1>0, <1>2, <1>4, Zenon DEF Receive, Complete
  <2>3. Contains(ms, Select(ms)) /\ Select(ms) \in {0, 2} /\ Supported(Select(ms))
    BY <1>4, SelectOffered, Zenon
  <2>4. TypeOK'
    BY <1>0, <1>3, <2>1, <2>3 DEF HsInv, TypeOK, confVars, reqVars, connVars, replyVars
  <2>5. Dialogue'
    <3>0. config' = config
      BY <1>0 DEF confVars
    <3>1. Supported(selectedAuthMethod)'
      BY <2>1, <2>3, <3>0, Zenon DEF Supported, GetUser
    <3>2. Contains(methods, selectedAuthMethod)' /\ selectedAuthMethod' \in {0, 2}
      BY <2>1, <2>3, Zenon DEF Contains
    <3> QED
      BY <2>1, <3>1, <3>2 DEF HsInv, Dialogue, Chosen, LoggedIn, Asked, reqVars
  <2> QED
    BY <1>0, <2>1, <2>2, <2>4, <2>5, DialogueStep DEF Unstarted
<1>5. CASE ~(Complete(r, 1) /\ Complete(q, Len(ms)) /\ version = 5 /\ Select(ms) >= 0)
  BY <1>0, <1>2, <1>3, <1>5, FailsKeepsHsInv
<1> QED
  BY <1>4, <1>5

(* The notice of the selected method; without a login the user is the      *)
(* anonymous one, who exists only if the command line names no other.      *)
LEMMA SendMethodKeepsHsInv ==
  ASSUME HsInv, SendMethod
  PROVE  HsInv'
<1>0. pc = "method" /\ pc \in Unstarted /\ UNCHANGED confVars /\ heard' = heard /\ heard /\ heard \in BOOLEAN
  BY DEF SendMethod, Unstarted, HsInv, Running, TypeOK
<1>1. PICK r \in Outcomes(2) :
        IF r = 2
          THEN /\ pc' = IF selectedAuthMethod = 2 THEN "auth" ELSE "request"
               /\ UNCHANGED <<methods, selectedAuthMethod, login, reqVars, connVars, replyVars, result>>
          ELSE Fails(claims)
  BY Zenon DEF SendMethod
<1>2. CASE r = 2
  <2>1. /\ pc' = IF selectedAuthMethod = 2 THEN "auth" ELSE "request"
        /\ methods' = methods /\ selectedAuthMethod' = selectedAuthMethod
        /\ login' = login /\ UNCHANGED <<reqVars, connVars, replyVars, result>>
    BY <1>1, <1>2
  <2>2. /\ Contains(methods, selectedAuthMethod) /\ selectedAuthMethod \in {0, 2}
        /\ Supported(selectedAuthMethod)
    BY <1>0 DEF HsInv, Dialogue, Chosen
  <2>3. TypeOK'
    BY <1>0, <2>1 DEF HsInv, TypeOK, confVars, reqVars, connVars, replyVars
  <2>4. selectedAuthMethod # 2 => Entitled
    <3>1. selectedAuthMethod # 2 => GetUser(config, "")
      BY <2>2, Zenon DEF Supported
    <3>2. GetUser(config, "") => Name(args, "usr") = ""
      BY OneUser, Zenon DEF HsInv, GetUser
    <3> QED
      BY <3>1, <3>2 DEF Entitled
  <2>5. Dialogue'
    <3>0. selectedAuthMethod' = selectedAuthMethod /\ config' = config
      BY <1>0, <2>1 DEF confVars
    <3>1. Supported(selectedAuthMethod)'
      BY <2>2, <3>0, Zenon DEF Supported, GetUser
    <3>2. selectedAuthMethod # 2 => Entitled'
      BY <1>0, <2>1, <2>4, ConfigStays
    <3> QED
      BY <2>1, <2>2, <3>1, <3>2 DEF HsInv, Dialogue, Chosen, LoggedIn, Asked, reqVars
  <2> QED
    BY <1>0, <2>1, <2>3, <2>5, DialogueStep DEF Unstarted
<1>3. CASE r # 2
  BY <1>0, <1>1, <1>3, FailsKeepsHsInv
<1> QED
  BY <1>2, <1>3

(* The login.                                                              *)
LEMMA AuthKeepsHsInv ==
  ASSUME HsInv, Auth
  PROVE  HsInv'
<1>0. pc = "auth" /\ pc \in Unstarted /\ heard /\ UNCHANGED confVars
  BY DEF Auth, Unstarted, HsInv, Running
<1>1. PICK version \in {1, 5}, name \in Names, password \in Names :
        \E r \in Outcomes(1), q \in Outcomes(FieldLen(name, password)) :
          /\ Receive(r, q, FieldLen(name, password))
          /\ IF /\ Complete(r, 1) /\ Complete(q, FieldLen(name, password))
                /\ version = 1 /\ LoginOk(name, password)
               THEN /\ login' = <<name, password>>
                    /\ pc' = "authOk"
                    /\ UNCHANGED <<methods, selectedAuthMethod, reqVars, connVars, replyVars, result>>
               ELSE Fails(claims)
  BY Zenon DEF Auth
<1>2. PICK r \in Outcomes(1), q \in Outcomes(FieldLen(name, password)) :
          /\ Receive(r, q, FieldLen(name, password))
          /\ IF /\ Complete(r, 1) /\ Complete(q, FieldLen(name, password))
                /\ version = 1 /\ LoginOk(name, password)
               THEN /\ login' = <<name, password>>
                    /\ pc' = "authOk"
                    /\ UNCHANGED <<methods, selectedAuthMethod, reqVars, connVars, replyVars, result>>
               ELSE Fails(claims)
  BY <1>1, Zenon
<1>3. heard' \in BOOLEAN
  BY <1>2, Zenon DEF Receive
<1>4. CASE Complete(r, 1) /\ Complete(q, FieldLen(name, password)) /\ version = 1 /\ LoginOk(name, password)
  <2>1. /\ login' = <<name, password>> /\ pc' = "authOk"
        /\ methods' = methods /\ selectedAuthMethod' = selectedAuthMethod
        /\ UNCHANGED <<reqVars, connVars, replyVars, result>>
    BY <1>2, <1>4
  <2>2. heard'
    BY <1>0, <1>2, <1>4, Zenon DEF Receive, Complete
  <2>3. TypeOK'
    BY <1>0, <1>3, <2>1 DEF HsInv, TypeOK, confVars, reqVars, connVars, replyVars
  <2>4. Entitled'
    <3>1. name = Name(args, "usr") /\ config.users[name] = password
      BY <1>4, OneUser, Zenon DEF HsInv, LoginOk, GetUser
    <3>2. ~Given(args, "usr") => Name(args, "usr") = ""
      BY Zenon DEF Name
    <3>3. Given(args, "usr") => name = args["usr"] /\ password = Name(args, "pwd")
      BY <3>1, OneUser, Zenon DEF HsInv, Name
    <3>4. <<name, password>> # None /\ <<name, password>>[1] = name /\ <<name, password>>[2] = password
      BY LoginIsNotNone
    <3>5. args' = args
      BY <1>0 DEF confVars
    <3>6. \A o : Name(args, o)' = Name(args, o)
      BY <3>5, Zenon DEF Name, Given
    <3> QED
      BY <2>1, <3>2, <3>3, <3>4, <3>5, <3>6, Zenon DEF Entitled
  <2>5. Dialogue'
    <3>1. Supported(selectedAuthMethod)'
      BY <1>0, <2>1, ConfigStays DEF HsInv, Dialogue, Chosen
    <3> QED
      BY <1>0, <2>1, <2>4, <3>1 DEF HsInv, Dialogue, Chosen, LoggedIn, Asked, reqVars
  <2> QED
    BY <1>0, <2>1, <2>2, <2>3, <2>5, DialogueStep DEF Unstarted
<1>5. CASE ~(Complete(r, 1) /\ Complete(q, FieldLen(name, password)) /\ version = 1 /\ LoginOk(name, password))
  BY <1>0, <1>2, <1>3, <1>5, FailsKeepsHsInv
<1> QED
  BY <1>4, <1>5

(* The confirmation of the login.                                          *)
LEMMA SendAuthOkKeepsHsInv ==
  ASSUME HsInv, SendAuthOk
  PROVE  HsInv'
<1>0. /\ pc = "authOk" /\ pc \in Unstarted /\ UNCHANGED confVars
      /\ heard' = heard /\ heard /\ heard \in BOOLEAN
  BY DEF SendAuthOk, Unstarted, HsInv, Running, TypeOK
<1>1. PICK r \in Outcomes(2) :
        IF r = 2
          THEN /\ pc' = "request"
               /\ UNCHANGED <<methods, selectedAuthMethod, login, reqVars, connVars, replyVars, result>>
          ELSE Fails(claims)
  BY Zenon DEF SendAuthOk
<1>2. CASE r = 2
  <2>1. /\ pc' = "request" /\ methods' = methods /\ selectedAuthMethod' = selectedAuthMethod
        /\ login' = login /\ UNCHANGED <<reqVars, connVars, replyVars, result>>
    BY <1>1, <1>2
  <2>2. TypeOK'
    BY <1>0, <2>1 DEF HsInv, TypeOK, confVars, reqVars, connVars, replyVars
  <2>3. Dialogue'
    <3>1. Supported(selectedAuthMethod)' /\ Entitled'
      BY <1>0, <2>1, ConfigStays DEF HsInv, Dialogue, Chosen, LoggedIn
    <3> QED
      BY <1>0, <2>1, <3>1 DEF HsInv, Dialogue, Chosen, LoggedIn, Asked, reqVars
  <2> QED
    BY <1>0, <2>1, <2>2, <2>3, DialogueStep DEF Unstarted
<1>3. CASE r # 2
  BY <1>0, <1>1, <1>3, FailsKeepsHsInv
<1> QED
  BY <1>2, <1>3

(* The request.                                                            *)
LEMMA RequestKeepsHsInv ==
  ASSUME HsInv, Request
  PROVE  HsInv'
<1>0. pc = "request" /\ pc \in Unstarted /\ heard /\ UNCHANGED confVars
  BY DEF Request, Unstarted, HsInv, Running
<1>1. PICK c \in {1, 2}, ips \in Destinations, good \in BOOLEAN :
        \E r \in Outcomes(1), q \in Outcomes(1) :
          /\ Receive(r, q, 1)
          /\ IF Complete(r, 1) /\ Complete(q, 1) /\ good
               THEN /\ cmd' = c /\ destIPs' = ips
                    /\ wanted' = {ToSA(a) : a \in ToSet(ips)}
                    /\ pc' = "port"
                    /\ UNCHANGED <<methods, selectedAuthMethod, login, nsport, connVars, replyVars, result>>
               ELSE Fails(claims)
  BY Zenon DEF Request
<1>2. PICK r \in Outcomes(1), q \in Outcomes(1) :
          /\ Receive(r, q, 1)
          /\ IF Complete(r, 1) /\ Complete(q, 1) /\ good
               THEN /\ cmd' = c /\ destIPs' = ips
                    /\ wanted' = {ToSA(a) : a \in ToSet(ips)}
                    /\ pc' = "port"
                    /\ UNCHANGED <<methods, selectedAuthMethod, login, nsport, connVars, replyVars, result>>
               ELSE Fails(claims)
  BY <1>1, Zenon
<1>3. heard' \in BOOLEAN
  BY <1>2, Zenon DEF Receive
<1>4. CASE Complete(r, 1) /\ Complete(q, 1) /\ good
  <2>1. /\ cmd' = c /\ destIPs' = ips /\ wanted' = {ToSA(a) : a \in ToSet(ips)} /\ pc' = "port"
        /\ methods' = methods /\ selectedAuthMethod' = selectedAuthMethod /\ login' = login
        /\ nsport' = nsport /\ UNCHANGED <<connVars, replyVars, result>>
    BY <1>2, <1>4, Zenon
  <2>2. heard'
    BY <1>0, <1>2, <1>4, Zenon DEF Receive, Complete
  <2>3. ips \in Seq(IPAddresses) /\ Len(ips) <= Answers6 + Answers4 + 1
    BY DestinationsAreAddresses
  <2>4. TypeOK'
    <3>1. tried' = 0
      BY <1>0, <2>1 DEF HsInv, Reasons, connVars
    <3>2. Len(ips) \in Nat
      BY <2>3
    <3>3. tried' \in 0 .. Len(ips)
      BY <3>1, <3>2
    <3>4. cmd' \in 0 .. 255
      BY <2>1
    <3> QED
      BY <1>0, <1>3, <2>1, <2>3, <3>3, <3>4 DEF HsInv, TypeOK, confVars, connVars, replyVars
  <2>5. Dialogue'
    <3>1. Supported(selectedAuthMethod)' /\ Entitled'
      BY <1>0, <2>1, ConfigStays DEF HsInv, Dialogue, Chosen, LoggedIn
    <3>2. wanted' = {ToSA(a) : a \in ToSet(destIPs')}
      BY <2>1, Zenon
    <3> QED
      BY <1>0, <2>1, <2>3, <3>1, <3>2 DEF HsInv, Dialogue, Chosen, LoggedIn, Asked
  <2> QED
    BY <1>0, <2>1, <2>2, <2>4, <2>5, DialogueStep DEF Unstarted
<1>5. CASE ~(Complete(r, 1) /\ Complete(q, 1) /\ good)
  BY <1>0, <1>2, <1>3, <1>5, FailsKeepsHsInv
<1> QED
  BY <1>4, <1>5

(* The port, after which the job connects or refuses the command.          *)
LEMMA PortKeepsHsInv ==
  ASSUME HsInv, Port
  PROVE  HsInv'
<1>0. pc = "port" /\ pc \in Unstarted /\ heard /\ UNCHANGED confVars
  BY DEF Port, Unstarted, HsInv, Running
<1>1. PICK p \in NetPorts, r \in Outcomes(2) :
        /\ Receive(r, r, 2)
        /\ IF Complete(r, 2)
             THEN /\ nsport' = p
                  /\ pc' = IF cmd = 1 THEN "connect" ELSE "reply"
                  /\ rep' = IF cmd = 1 THEN rep ELSE 7
                  /\ UNCHANGED <<methods, selectedAuthMethod, login, cmd, destIPs, wanted, connVars,
                                 bindEP, reply, result>>
             ELSE Fails(claims)
  BY Zenon DEF Port
<1>2. heard' \in BOOLEAN
  BY <1>1, Zenon DEF Receive
<1>3. CASE Complete(r, 2)
  <2>1. /\ nsport' = p
        /\ pc' = IF cmd = 1 THEN "connect" ELSE "reply"
        /\ rep' = IF cmd = 1 THEN rep ELSE 7
        /\ methods' = methods /\ selectedAuthMethod' = selectedAuthMethod /\ login' = login
        /\ cmd' = cmd /\ destIPs' = destIPs /\ wanted' = wanted
        /\ tried' = tried /\ spent' = spent /\ met' = met /\ target' = target /\ claims' = claims
        /\ reply' = reply /\ result' = result /\ args' = args
    BY <1>0, <1>1, <1>3 DEF connVars, confVars
  <2>2. heard'
    <3>1. r >= 1 /\ r >= 2
      BY <1>3 DEF Complete, Outcomes
    <3> QED
      BY <1>0, <1>1, <3>1, Zenon DEF Receive
  <2>3. tried = 0 /\ spent = 0 /\ met = {} /\ ~target /\ rep = 1 /\ reply = None /\ result = None
    BY <1>0 DEF HsInv, Reasons, Running, Clock, Unstarted
  <2>4. TypeOK'
    BY <1>2, <2>1, <2>3 DEF HsInv, TypeOK
  <2>5. Configured'
    BY <1>0, ConfigStays DEF HsInv
  <2>6. Running'
    BY <2>1, <2>2, <2>3 DEF HsInv, Running
  <2>7. Dialogue'
    <3>1. Supported(selectedAuthMethod)' /\ Entitled'
      BY <1>0, <2>1, ConfigStays DEF HsInv, Dialogue, Chosen, LoggedIn
    <3>2. wanted' = {ToSA(a) : a \in ToSet(destIPs')}
      BY <1>0, <2>1, Zenon DEF HsInv, Dialogue, Asked
    <3> QED
      BY <1>0, <2>1, <3>1, <3>2 DEF HsInv, Dialogue, Chosen, LoggedIn, Asked
  <2>8. Reasons'
    BY <2>1, <2>3 DEF Reasons, Unstarted
  <2>9. Clock' /\ AuthorizedConnect' /\ ReplyIsHonest' /\ TargetIsHandedBack'
    BY <2>1, <2>3 DEF Clock, AuthorizedConnect, ReplyIsHonest, TargetIsHandedBack
  <2> QED
    BY <2>4, <2>5, <2>6, <2>7, <2>8, <2>9 DEF HsInv
<1>4. CASE ~Complete(r, 2)
  BY <1>0, <1>1, <1>2, <1>4, FailsKeepsHsInv
<1> QED
  BY <1>3, <1>4
-----------------------------------------------------------------------------
(* The time of one attempt: -cmin at least, and for up to n attempts       *)
(* together no more than -cmax or n times -cmin.                           *)
LEMMA TimeOfAttempts ==
  ASSUME Configured, NEW n \in Nat \ {0}, NEW k \in 0 .. n
  PROVE  /\ ConnectTimeout(n) \in Nat
         /\ ConnectTimeout(n) >= config.settings["cmin"] * 1000000
         /\ k * ConnectTimeout(n) <= 1000000 * (IF n * config.settings["cmin"] > config.settings["cmax"]
                                                THEN n * config.settings["cmin"]
                                                ELSE config.settings["cmax"])
<1> DEFINE cmin == config.settings["cmin"]
           cmax == config.settings["cmax"]
           share == (cmax * 1000000) \div n
<1>1. cmin \in Nat /\ cmax \in Nat
  BY TimeoutsInRange
<1>2. ConnectTimeout(n) = IF share < cmin * 1000000 THEN cmin * 1000000 ELSE share
  BY DEF ConnectTimeout
<1> HIDE DEF cmin, cmax
<1>3. cmax * 1000000 \in Nat
  BY <1>1
<1>4. share \in Nat /\ n * share <= cmax * 1000000
  BY <1>3, SharesFit
<1> HIDE DEF share
<1>5. ConnectTimeout(n) \in Nat /\ ConnectTimeout(n) >= cmin * 1000000
  BY <1>1, <1>2, <1>4
<1>6. n * cmin \in Nat /\ n * (cmin * 1000000) = 1000000 * (n * cmin)
  BY <1>1
<1>7. n * ConnectTimeout(n) <= 1000000 * (IF n * cmin > cmax THEN n * cmin ELSE cmax)
  <2>1. CASE share < cmin * 1000000
    <3>1. ConnectTimeout(n) = cmin * 1000000
      BY <1>2, <2>1
    <3>2. n * ConnectTimeout(n) = 1000000 * (n * cmin)
      BY <1>6, <3>1
    <3> QED
      BY <1>1, <1>6, <3>2
  <2>2. CASE ~(share < cmin * 1000000)
    <3>1. ConnectTimeout(n) = share
      BY <1>2, <2>2
    <3>2. n * ConnectTimeout(n) <= cmax * 1000000
      BY <1>4, <3>1
    <3>3. n * ConnectTimeout(n) \in Nat
      BY <1>5
    <3> QED
      BY <1>1, <1>6, <3>2, <3>3
  <2> QED
    BY <2>1, <2>2
<1>8. k * ConnectTimeout(n) <= n * ConnectTimeout(n)
  BY <1>5, FewerTakeLess
<1>9. k * ConnectTimeout(n) <= 1000000 * (IF n * cmin > cmax THEN n * cmin ELSE cmax)
  <2> DEFINE most == 1000000 * (IF n * cmin > cmax THEN n * cmin ELSE cmax)
  <2>1. most \in Int
    BY <1>1, <1>6
  <2>2. k * ConnectTimeout(n) \in Int /\ n * ConnectTimeout(n) \in Int
    BY <1>5
  <2>3. n * ConnectTimeout(n) <= most
    BY <1>7
  <2> HIDE DEF most
  <2>4. k * ConnectTimeout(n) <= most
    BY <1>8, <2>1, <2>2, <2>3
  <2> QED
    BY <2>4 DEF most
<1> QED
  BY <1>5, <1>9 DEF cmin, cmax

(* While the job connects and answers, what it was told stays.             *)
LEMMA RequestStays ==
  ASSUME HsInv, pc \in {"connect", "bind", "reply"}, pc' \in {"connect", "bind", "reply", "over"},
         pc' = "connect" => pc = "connect", UNCHANGED <<confVars, clientVars, reqVars>>
  PROVE  /\ Configured' /\ Dialogue' /\ heard /\ heard' /\ Entitled'
         /\ Contains(methods, selectedAuthMethod)'
         /\ heard' = heard /\ methods' = methods /\ selectedAuthMethod' = selectedAuthMethod
         /\ login' = login /\ cmd' = cmd /\ destIPs' = destIPs /\ nsport' = nsport
         /\ wanted' = wanted /\ args' = args /\ config' = config
<1>1. /\ heard' = heard /\ methods' = methods /\ selectedAuthMethod' = selectedAuthMethod
      /\ login' = login /\ cmd' = cmd /\ destIPs' = destIPs /\ nsport' = nsport
      /\ wanted' = wanted /\ args' = args /\ config' = config /\ UNCHANGED confVars
  BY DEF clientVars, reqVars, confVars
<1>2. heard
  BY DEF HsInv, Running
<1>3. /\ Contains(methods, selectedAuthMethod) /\ selectedAuthMethod \in {0, 2}
      /\ Supported(selectedAuthMethod) /\ Entitled
  BY DEF HsInv, Dialogue, Chosen, LoggedIn
<1>4. Supported(selectedAuthMethod)' /\ Entitled' /\ Configured'
  BY <1>1, <1>3, ConfigStays DEF HsInv
<1>5. Contains(methods, selectedAuthMethod)'
  BY <1>1, <1>3
<1>6. wanted' = {ToSA(a) : a \in ToSet(destIPs')}
  BY <1>1, Zenon DEF HsInv, Dialogue, Asked
<1>7. Dialogue'
  BY <1>1, <1>3, <1>4, <1>5, <1>6 DEF HsInv, Dialogue
<1>8. heard'
  BY <1>1, <1>2
<1> QED
  BY <1>1, <1>2, <1>4, <1>5, <1>7, <1>8

(* One attempt goes to an address and the port of the request.             *)
LEMMA AttemptIsAuthorized ==
  ASSUME HsInv, Attempt, pc' \in {"connect", "bind"}, UNCHANGED <<confVars, clientVars, reqVars>>
  PROVE  /\ AuthorizedConnect' /\ Clock'
         /\ tried' \in 0 .. Len(destIPs') /\ tried' > 0 /\ spent' \in Nat
<1>0. /\ pc = "connect" /\ tried < Len(destIPs) /\ tried' = tried + 1
      /\ dialled' = SockAddr(destIPs[tried + 1], PortOfRequest)
      /\ spent' = spent + ConnectTimeout(Len(destIPs))
  BY DEF Attempt
<1>1. /\ heard' /\ Entitled' /\ Contains(methods, selectedAuthMethod)'
      /\ cmd' = cmd /\ destIPs' = destIPs /\ nsport' = nsport /\ wanted' = wanted /\ config' = config
  BY <1>0, RequestStays
<1>2. /\ destIPs \in Seq(IPAddresses) /\ wanted = {ToSA(a) : a \in ToSet(destIPs)}
      /\ cmd = 1 /\ nsport \in NetPorts
  BY <1>0 DEF HsInv, Dialogue, Asked
<1>3. /\ Len(destIPs) \in Nat \ {0} /\ tried + 1 \in 1 .. Len(destIPs) /\ tried \in Nat
      /\ tried + 1 \in DOMAIN destIPs
  BY <1>0, <1>2 DEF HsInv, TypeOK
<1>4. tried' \in 0 .. Len(destIPs') /\ tried' > 0
  BY <1>0, <1>1, <1>3
<1>5. dialled'.to \in wanted' /\ dialled'.port = nsport'
  <2>1. destIPs[tried + 1] \in ToSet(destIPs)
    BY <1>3, Zenon DEF ToSet
  <2>2. dialled'.to = ToSA(destIPs[tried + 1]) /\ dialled'.port = Swapped(PortOfRequest)
    BY <1>0 DEF SockAddr
  <2>3. Swapped(Swapped(nsport)) = nsport
    BY <1>2, HandshakeAssumption, SwappedTwice
  <2> QED
    BY <1>1, <1>2, <2>1, <2>2, <2>3, Zenon DEF PortOfRequest
<1>6. AuthorizedConnect'
  BY <1>1, <1>2, <1>5 DEF AuthorizedConnect
<1>7. ConnectTimeout(Len(destIPs)) \in Nat
  BY <1>3, TimeOfAttempts DEF HsInv
<1>8. spent' = tried' * ConnectTimeout(Len(destIPs))
  <2>1. spent = tried * ConnectTimeout(Len(destIPs))
    BY <1>3, <1>7 DEF HsInv, Clock
  <2> QED
    BY <1>0, <1>3, <1>7, <2>1
<1>9. spent' \in Nat
  BY <1>0, <1>7 DEF HsInv, TypeOK
<1>10. Clock'
  <2>1. ConnectTimeout(Len(destIPs))' = ConnectTimeout(Len(destIPs))
    BY <1>1 DEF ConnectTimeout
  <2> QED
    BY <1>4, <1>8, <2>1 DEF Clock
<1> QED
  BY <1>4, <1>6, <1>9, <1>10

(* An attempt that fails: the reply code follows what was met.             *)
LEMMA AttemptFailsKeepsHsInv ==
  ASSUME HsInv, AttemptFails
  PROVE  HsInv'
<1>0. /\ Attempt /\ pc = "connect" /\ pc' = "connect" /\ UNCHANGED <<confVars, clientVars, reqVars>>
      /\ target' = target /\ claims' = claims /\ reply' = reply /\ result' = result
  BY DEF AttemptFails, Attempt
<1>1. PICK f \in Failures : met' = met \cup {f} /\ rep' = RepAfter(f)
  BY DEF AttemptFails
<1>2. /\ AuthorizedConnect' /\ Clock'
      /\ tried' \in 0 .. Len(destIPs') /\ spent' \in Nat
  BY <1>0, AttemptIsAuthorized
<1>3. /\ Configured' /\ Dialogue' /\ heard /\ heard'
      /\ heard' = heard /\ methods' = methods /\ selectedAuthMethod' = selectedAuthMethod
      /\ login' = login /\ cmd' = cmd /\ destIPs' = destIPs /\ nsport' = nsport /\ args' = args
  BY <1>0, RequestStays
<1>4. /\ ~target /\ cmd = 1 /\ rep \in {1, 3, 5} /\ reply = None /\ result = None
      /\ rep = 1 => met \subseteq {"other"}
      /\ rep = 3 => "unreachable" \in met
      /\ rep = 5 => met \cap {"refused", "timeout"} # {}
  BY <1>0 DEF HsInv, TypeOK, Reasons, Running, Dialogue
<1>5. /\ rep' \in {1, 3, 5}
      /\ rep' = 1 => met' \subseteq {"other"}
      /\ rep' = 3 => "unreachable" \in met'
      /\ rep' = 5 => met' \cap {"refused", "timeout"} # {}
  <2>1. CASE f \in {"refused", "timeout"}
    <3>1. rep' = 5
      BY <1>1, <2>1 DEF RepAfter
    <3> QED
      BY <1>1, <2>1, <3>1
  <2>2. CASE f = "unreachable"
    <3>1. rep' = 3
      BY <1>1, <2>2 DEF RepAfter
    <3> QED
      BY <1>1, <2>2, <3>1
  <2>3. CASE f = "other"
    <3>1. rep' = rep
      BY <1>1, <2>3 DEF RepAfter
    <3> QED
      BY <1>1, <1>4, <2>3, <3>1
  <2> QED
    BY <2>1, <2>2, <2>3 DEF Failures
<1>6. TypeOK'
  BY <1>0, <1>1, <1>2, <1>3, <1>5 DEF HsInv, TypeOK
<1>7. Running'
  BY <1>0, <1>3, <1>4 DEF HsInv, Running
<1>8. Reasons'
  BY <1>0, <1>3, <1>4, <1>5 DEF Reasons, Unstarted
<1>9. ReplyIsHonest' /\ TargetIsHandedBack'
  BY <1>0, <1>4 DEF ReplyIsHonest, TargetIsHandedBack
<1> QED
  BY <1>2, <1>3, <1>6, <1>7, <1>8, <1>9 DEF HsInv

(* An attempt that succeeds.                                               *)
LEMMA AttemptSucceedsKeepsHsInv ==
  ASSUME HsInv, AttemptSucceeds
  PROVE  HsInv'
<1>0. /\ Attempt /\ pc = "connect" /\ pc' = "bind" /\ UNCHANGED <<confVars, clientVars, reqVars>>
      /\ target' /\ target' \in BOOLEAN /\ claims' = claims \cup {"target"} /\ rep' = 0
      /\ met' = met /\ reply' = reply /\ result' = result
  BY DEF AttemptSucceeds, Attempt
<1>2. /\ AuthorizedConnect' /\ Clock'
      /\ tried' \in 0 .. Len(destIPs') /\ spent' \in Nat
  BY <1>0, AttemptIsAuthorized
<1>3. /\ Configured' /\ Dialogue' /\ heard /\ heard'
      /\ heard' = heard /\ methods' = methods /\ selectedAuthMethod' = selectedAuthMethod
      /\ login' = login /\ cmd' = cmd /\ destIPs' = destIPs /\ nsport' = nsport /\ args' = args
  BY <1>0, RequestStays
<1>4. ~target /\ cmd = 1 /\ reply = None /\ result = None /\ claims = {"client"}
  BY <1>0 DEF HsInv, Reasons, Running, Dialogue
<1>6. TypeOK'
  BY <1>0, <1>2, <1>3, <1>4 DEF HsInv, TypeOK
<1>7. Running'
  <2>1. claims' = {"client"} \cup {"target"}
    BY <1>0, <1>4
  <2> QED
    BY <1>0, <1>3, <1>4, <2>1 DEF Running
<1>8. Reasons'
  BY <1>0, <1>3, <1>4 DEF Reasons, Unstarted
<1>9. ReplyIsHonest' /\ TargetIsHandedBack'
  BY <1>0, <1>4 DEF ReplyIsHonest, TargetIsHandedBack
<1> QED
  BY <1>2, <1>3, <1>6, <1>7, <1>8, <1>9 DEF HsInv

(* The attempts are over and the job goes on to the reply.                 *)
LEMMA ToReplyKeepsHsInv ==
  ASSUME HsInv, BindKnown \/ NoAddressLeft
  PROVE  HsInv'
<1>0. /\ pc \in {"connect", "bind"} /\ pc' = "reply" /\ UNCHANGED <<confVars, clientVars, reqVars>>
      /\ tried' = tried /\ spent' = spent /\ met' = met /\ dialled' = dialled /\ target' = target
      /\ claims' = claims /\ rep' = rep /\ reply' = reply /\ result' = result
  BY DEF BindKnown, NoAddressLeft, connVars, replyVars
<1>1. /\ Configured' /\ Dialogue' /\ heard /\ heard' /\ Entitled'
      /\ Contains(methods, selectedAuthMethod)'
      /\ heard' = heard /\ methods' = methods /\ selectedAuthMethod' = selectedAuthMethod
      /\ login' = login /\ cmd' = cmd /\ destIPs' = destIPs /\ nsport' = nsport
      /\ wanted' = wanted /\ args' = args /\ config' = config
  BY <1>0, RequestStays
<1>2. TypeOK'
  BY <1>0, <1>1 DEF HsInv, TypeOK
<1>3. reply = None /\ result = None
  BY <1>0 DEF HsInv, Running
<1>4. Running'
  BY <1>0, <1>1, <1>3 DEF HsInv, Running
<1>5. Reasons'
  BY <1>0, <1>1 DEF HsInv, TypeOK, Reasons, Unstarted
<1>6. Clock'
  <2>1. ConnectTimeout(Len(destIPs))' = ConnectTimeout(Len(destIPs))
    BY <1>1 DEF ConnectTimeout
  <2> QED
    BY <1>0, <2>1, Zenon DEF HsInv, Clock
<1>7. AuthorizedConnect'
  BY <1>0, <1>1 DEF HsInv, AuthorizedConnect
<1>8. ReplyIsHonest' /\ TargetIsHandedBack'
  BY <1>0, <1>3 DEF ReplyIsHonest, TargetIsHandedBack
<1> QED
  BY <1>1, <1>2, <1>4, <1>5, <1>6, <1>7, <1>8 DEF HsInv

(* The end of the job after the attempts: what it returns, and what the    *)
(* client has been told.                                                   *)
LEMMA EndKeepsHsInv ==
  ASSUME HsInv, pc \in {"bind", "reply"}, NEW type \in {"terminal", "connect"}, End(type, claims),
         UNCHANGED <<confVars, clientVars, reqVars, connVars, rep, bindEP>>,
         \/ type = "terminal" /\ reply' = reply
         \/ /\ pc = "reply" /\ type = ResultAfterReply
            /\ reply' # None /\ reply'.rep = rep
  PROVE  HsInv'
<1>0. /\ pc' = "over" /\ result' = [type |-> type, handlers |-> claims]
      /\ tried' = tried /\ spent' = spent /\ met' = met /\ dialled' = dialled /\ target' = target
      /\ claims' = claims /\ rep' = rep
  BY DEF End, connVars
<1>1. /\ Configured' /\ Dialogue' /\ heard /\ heard' /\ Entitled'
      /\ Contains(methods, selectedAuthMethod)'
      /\ heard' = heard /\ methods' = methods /\ selectedAuthMethod' = selectedAuthMethod
      /\ login' = login /\ cmd' = cmd /\ destIPs' = destIPs /\ nsport' = nsport
      /\ wanted' = wanted /\ args' = args /\ config' = config
  BY <1>0, RequestStays
<1>2. result' # None /\ result'.type = type /\ result'.handlers = claims
  BY <1>0, ResultIsNotNone
<1>3. TypeOK'
  BY <1>0, <1>1, <1>2 DEF HsInv, TypeOK
<1>4. reply = None /\ claims = {"client"} \cup (IF target THEN {"target"} ELSE {})
  BY DEF HsInv, Running
<1>5. Running'
  BY <1>0, <1>4 DEF Running
<1>6. Reasons'
  BY <1>0 DEF Reasons, Unstarted
<1>7. Clock'
  <2>1. ConnectTimeout(Len(destIPs))' = ConnectTimeout(Len(destIPs))
    BY <1>1 DEF ConnectTimeout
  <2> QED
    BY <1>0, <2>1, Zenon DEF HsInv, Clock
<1>8. AuthorizedConnect'
  BY <1>0, <1>1 DEF HsInv, AuthorizedConnect
<1>9. TargetIsHandedBack'
  BY <1>0, <1>2, <1>4 DEF TargetIsHandedBack
<1>10. ReplyIsHonest'
  <2>1. CASE type = "terminal" /\ reply' = reply
    BY <1>2, <1>4, <2>1 DEF ReplyIsHonest
  <2>2. CASE /\ pc = "reply" /\ type = ResultAfterReply
             /\ reply' # None /\ reply'.rep = rep
    <3>1. /\ rep \in {0, 1, 3, 5, 7}
          /\ rep = 0 => target /\ cmd = 1
          /\ rep = 1 => ~target /\ met \subseteq {"other"}
          /\ rep = 3 => ~target /\ "unreachable" \in met
          /\ rep = 5 => ~target /\ met \cap {"refused", "timeout"} # {}
          /\ rep = 7 => ~target /\ cmd # 1 /\ tried = 0
      BY <2>2 DEF HsInv, TypeOK, Reasons
    <3>2. type = "connect" <=> rep = 0
      BY <2>2, <3>1 DEF ResultAfterReply
    <3>3. result'.type = "connect" <=> (reply' # None /\ reply'.rep = 0)
      BY <1>2, <2>2, <3>2
    <3>4. result'.type = "connect" => target' /\ result'.handlers = {"client", "target"}
      BY <1>0, <1>2, <1>4, <3>1, <3>2
    <3>5. CASE rep = 0
      BY <1>0, <2>2, <3>1, <3>3, <3>4, <3>5 DEF ReplyIsHonest
    <3>6. CASE rep = 1
      BY <1>0, <2>2, <3>1, <3>3, <3>4, <3>6 DEF ReplyIsHonest
    <3>7. CASE rep = 3
      BY <1>0, <2>2, <3>1, <3>3, <3>4, <3>7 DEF ReplyIsHonest
    <3>8. CASE rep = 5
      BY <1>0, <2>2, <3>1, <3>3, <3>4, <3>8 DEF ReplyIsHonest
    <3>9. CASE rep = 7
      BY <1>0, <1>1, <2>2, <3>1, <3>3, <3>4, <3>9 DEF ReplyIsHonest
    <3> QED
      BY <3>1, <3>5, <3>6, <3>7, <3>8, <3>9
  <2> QED
    BY <2>1, <2>2
<1> QED
  BY <1>1, <1>3, <1>5, <1>6, <1>7, <1>8, <1>9, <1>10 DEF HsInv

(* No reply, since the local address is unknown.                           *)
LEMMA BindUnknownKeepsHsInv ==
  ASSUME HsInv, BindUnknown
  PROVE  HsInv'
<1>1. /\ pc = "bind" /\ End("terminal", claims) /\ reply' = reply
      /\ UNCHANGED <<confVars, clientVars, reqVars, connVars, rep, bindEP>>
  BY DEF BindUnknown, FailWithDisclaim, ClaimsOfFailure, replyVars
<1> QED
  BY <1>1, EndKeepsHsInv

(* The reply: only a transfer of its whole length counts as sent.          *)
LEMMA SendReplyKeepsHsInv ==
  ASSUME HsInv, SendReply
  PROVE  HsInv'
<1>0. pc = "reply" /\ UNCHANGED <<confVars, clientVars, reqVars, connVars, rep, bindEP>>
  BY DEF SendReply
<1>1. PICK r \in Outcomes(respLen) :
        IF Sent(r)
          THEN /\ End(ResultAfterReply, claims)
               /\ reply' = IF r = respLen THEN [rep |-> rep, ep |-> ToRawBuff(bindEP)] ELSE reply
          ELSE /\ FailWithDisclaim(ClaimsOfFailure)
               /\ UNCHANGED reply
  BY Zenon DEF SendReply
<1>2. CASE Sent(r)
  <2>1. respLen \in {10, 22}
    BY DEF respLen, ToRawBuff, IPV4_ADDR_LEN, IPV6_ADDR_LEN
  <2>2. r = respLen
    BY <1>2, <2>1 DEF Sent, Outcomes
  <2>3. End(ResultAfterReply, claims) /\ reply' = [rep |-> rep, ep |-> ToRawBuff(bindEP)]
    BY <1>1, <1>2, <2>2, Zenon
  <2>4. reply' # None /\ reply'.rep = rep
    BY <2>3, ReplyIsNotNone
  <2>5. ResultAfterReply \in {"terminal", "connect"}
    BY DEF ResultAfterReply
  <2> QED
    BY <1>0, <2>3, <2>4, <2>5, EndKeepsHsInv
<1>3. CASE ~Sent(r)
  <2>1. End("terminal", claims) /\ reply' = reply
    BY <1>1, <1>3 DEF FailWithDisclaim, ClaimsOfFailure
  <2> QED
    BY <1>0, <2>1, EndKeepsHsInv
<1> QED
  BY <1>2, <1>3

(* Nothing changes.                                                        *)
LEMMA StutterKeepsHsInv ==
  ASSUME HsInv, UNCHANGED vars
  PROVE  HsInv'
<1>0. /\ UNCHANGED confVars /\ pc' = pc /\ heard' = heard /\ methods' = methods
      /\ selectedAuthMethod' = selectedAuthMethod /\ login' = login
      /\ cmd' = cmd /\ destIPs' = destIPs /\ nsport' = nsport /\ wanted' = wanted
      /\ tried' = tried /\ spent' = spent /\ met' = met /\ dialled' = dialled /\ target' = target
      /\ claims' = claims /\ rep' = rep /\ reply' = reply /\ result' = result
      /\ args' = args /\ config' = config
  BY DEF vars, clientVars, reqVars, connVars, replyVars, confVars
<1>1. Configured' /\ (Entitled => Entitled') /\ (Supported(selectedAuthMethod) => Supported(selectedAuthMethod)')
  BY <1>0, ConfigStays DEF HsInv
<1>2. ConnectTimeout(Len(destIPs))' = ConnectTimeout(Len(destIPs))
  BY <1>0 DEF ConnectTimeout
<1>3. TypeOK'
  BY <1>0 DEF HsInv, TypeOK
<1>4. Running'
  BY <1>0 DEF HsInv, Running
<1>5. Dialogue'
  BY <1>0, <1>1 DEF HsInv, Dialogue
<1>6. Reasons'
  BY <1>0 DEF HsInv, Reasons
<1>7. Clock'
  BY <1>0, <1>2, Zenon DEF HsInv, Clock
<1>8. AuthorizedConnect'
  BY <1>0, <1>1 DEF HsInv, AuthorizedConnect
<1>9. ReplyIsHonest'
  BY <1>0, Zenon DEF HsInv, ReplyIsHonest
<1>10. TargetIsHandedBack'
  BY <1>0 DEF HsInv, TargetIsHandedBack
<1> QED
  BY <1>1, <1>3, <1>4, <1>5, <1>6, <1>7, <1>8, <1>9, <1>10 DEF HsInv

(* Every step keeps the invariant.                                         *)
LEMMA StepHsInv == HsInv /\ [Next]_vars => HsInv'
<1> SUFFICES ASSUME HsInv, [Next]_vars PROVE HsInv'
  OBVIOUS
<1>1. CASE Greeting
  BY <1>1, GreetingKeepsHsInv
<1>2. CASE SendMethod
  BY <1>2, SendMethodKeepsHsInv
<1>3. CASE Auth
  BY <1>3, AuthKeepsHsInv
<1>4. CASE SendAuthOk
  BY <1>4, SendAuthOkKeepsHsInv
<1>5. CASE Request
  BY <1>5, RequestKeepsHsInv
<1>6. CASE Port
  BY <1>6, PortKeepsHsInv
<1>7. CASE AttemptFails
  BY <1>7, AttemptFailsKeepsHsInv
<1>8. CASE AttemptSucceeds
  BY <1>8, AttemptSucceedsKeepsHsInv
<1>9. CASE BindKnown \/ NoAddressLeft
  BY <1>9, ToReplyKeepsHsInv
<1>10. CASE BindUnknown
  BY <1>10, BindUnknownKeepsHsInv
<1>11. CASE SendReply
  BY <1>11, SendReplyKeepsHsInv
<1>12. CASE Over \/ UNCHANGED vars
  BY <1>12, StutterKeepsHsInv DEF Over
<1> QED
  BY <1>1, <1>2, <1>3, <1>4, <1>5, <1>6, <1>7, <1>8, <1>9, <1>10, <1>11, <1>12 DEF Next
-----------------------------------------------------------------------------
(* Where the dialogue is, what was read from the client so far, what the   *)
(* attempts met and the time they took belong together in every state of   *)
(* Job_ClientHandshake::Execute.                                           *)
THEOREM HandshakeInductive == Spec => []HsInv
BY InitHsInv, StepHsInv, PTL DEF Spec

(* The variables of Execute keep their types, whatever the client sends.   *)
THEOREM HandshakeTypeCorrect == Spec => []TypeOK
<1>1. HsInv => TypeOK
  BY DEF HsInv
<1> QED
  BY <1>1, HandshakeInductive, PTL

(* ConnectAndCreateHandler is called only for a client that offered the    *)
(* selected method and is entitled by the command line, and only for an    *)
(* address and the port of its request.                                    *)
THEOREM ConnectsOnlyAuthorized == Spec => []AuthorizedConnect
<1>1. HsInv => AuthorizedConnect
  BY DEF HsInv
<1> QED
  BY <1>1, HandshakeInductive, PTL

(* The reply the client gets and the result the dispatcher gets agree, and *)
(* a reply other than success says why there is no connection.             *)
THEOREM RepliesHonestly == Spec => []ReplyIsHonest
<1>1. HsInv => ReplyIsHonest
  BY DEF HsInv
<1> QED
  BY <1>1, HandshakeInductive, PTL

(* Every return of Execute hands back the client's handler, and the        *)
(* target's as soon as there is one.                                       *)
THEOREM TargetAlwaysHandedBack == Spec => []TargetIsHandedBack
<1>1. HsInv => TargetIsHandedBack
  BY DEF HsInv
<1> QED
  BY <1>1, HandshakeInductive, PTL

(* For every command line that main accepts and every number of addresses  *)
(* whose least times fit into -cmax, the attempts together keep to -cmax.  *)
THEOREM ConnectTimeBounded == Spec => []ConnectTime
<1>1. HsInv => ConnectTime
  <2> DEFINE n == Len(destIPs)
             cmin == config.settings["cmin"]
             cmax == config.settings["cmax"]
  <2>0. Configured => cmin \in Nat /\ cmax \in Nat
    BY TimeoutsInRange
  <2> SUFFICES ASSUME HsInv, n * cmin <= cmax PROVE spent <= cmax * 1000000
    BY DEF ConnectTime, TotalTimeKept
  <2>1. n \in Nat /\ tried \in 0 .. n
    BY DEF HsInv, Dialogue, TypeOK
  <2>2. Configured
    BY DEF HsInv
  <2>3. cmin \in Nat /\ cmax \in Nat
    BY <2>0, <2>2, Zenon
  <2>4. CASE n = 0
    <3>1. spent = 0
      <4>1. tried = 0
        BY <2>1, <2>4 DEF n
      <4> QED
        BY <4>1, Zenon DEF HsInv, Clock
    <3> HIDE DEF cmax
    <3> QED
      BY <2>3, <3>1
  <2>5. CASE n # 0
    <3>1. ConnectTimeout(n) \in Nat
      BY <2>1, <2>2, <2>5, TimeOfAttempts
    <3>2. spent = tried * ConnectTimeout(n)
      BY <2>1, <3>1 DEF HsInv, Clock
    <3>3. tried * ConnectTimeout(n) <= 1000000 * (IF n * cmin > cmax THEN n * cmin ELSE cmax)
      BY <2>1, <2>2, <2>5, TimeOfAttempts
    <3> HIDE DEF n, cmin, cmax
    <3>4. ~(n * cmin > cmax)
      BY <2>1, <2>3
    <3> QED
      BY <2>3, <3>2, <3>3, <3>4
  <2> QED
    BY <2>4, <2>5
<1> QED
  BY <1>1, HandshakeInductive, PTL
=============================================================================
