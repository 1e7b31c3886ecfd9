------------------------------- MODULE Config --------------------------------
(***************************************************************************)
(* The command line of main and the Config object it fills: values are     *)
(* constants for the rest of the program.                                  *)
(*                                                                         *)
(* args maps the options that were given to their values.  The value of a  *)
(* numeric option is what atoi makes of its text (0 for one that is not a  *)
(* number); -l and -dns are addresses as inet_pton reads them; -usr, -pwd, *)
(* -src and -ns are names.  Options that only set the privileges of the    *)
(* process belong to the first stage of the start-up (Lifecycle).          *)
(***************************************************************************)
EXTENDS Addresses

Given(args, o) == o \in DOMAIN args

(* args[o] of std::unordered_map creates an empty value: atoi("") = 0.     *)
Atoi(args, o) == IF Given(args, o) THEN args[o] ELSE 0

Default == [wc |-> 50, ws |-> 10, ac |-> 250, mt |-> 500, st |-> 5000, bsz |-> 65536,
            cf |-> 30, cmin |-> 5, cmax |-> 20, dt |-> 60, hc |-> 30]

(* The option whose text is converted: for -ws it is that of -wc.          *)
TextOf(o) == IF o = "ws" THEN "wc" ELSE o

Setting(args, o) == IF Given(args, o) THEN Atoi(args, TextOf(o)) ELSE Default[o]

(* What each test compares with; those of -ws and -cmax use values that    *)
(* were set before.                                                        *)
Least(args) ==
  [p |-> 1, wc |-> 1, ws |-> 1, ac |-> 1, mt |-> 100, st |-> 100, bsz |-> 128, cf |-> -1,
   cmin |-> 1, cmax |-> Setting(args, "cmin") \div 1000, dt |-> 1, hc |-> 1]

Most(args) ==
  [p |-> 65535, wc |-> 1000, ws |-> Setting(args, "wc"), ac |-> 10000, mt |-> 10000, st |-> 60000,
   bsz |-> 524288, cf |-> 600, cmin |-> 60, cmax |-> 120, dt |-> 7200, hc |-> 7200]

Limits(args, o) == Least(args)[o] .. Most(args)[o]

(* main goes on to the start-up; otherwise param_error ends it with 1.     *)
Accepted(args) ==
  /\ Given(args, "p") /\ args["p"] \in Limits(args, "p")
  /\ Given(args, "l") => args["l"].isValid /\ ~args["l"].isV6
  /\ \A o \in DOMAIN Default : Given(args, o) => Setting(args, o) \in Limits(args, o)
  /\ Given(args, "dns") => args["dns"].isValid

-----------------------------------------------------------------------------
(* AddUser inserts: the first user of a name stays.                        *)
AddUser(users, login, password) ==
  IF login \in DOMAIN users
    THEN users
    ELSE [n \in DOMAIN users \cup {login} |-> IF n = login THEN password ELSE users[n]]

Name(args, o) == IF Given(args, o) THEN args[o] ELSE ""

(* The user of the command line is added in either branch and once more.   *)
Users(args) ==
  LET first == IF Given(args, "usr") THEN AddUser(<<>>, args["usr"], Name(args, "pwd"))
                                     ELSE AddUser(<<>>, "", "")
  IN  AddUser(first, Name(args, "usr"), Name(args, "pwd"))

(* The Config object; 127.0.0.1 is named by its last byte.                 *)
Configuration(args) ==
  [settings     |-> [o \in DOMAIN Default |-> Setting(args, o)],
   listenAddr   |-> Endpoint(IF Given(args, "l") THEN args["l"] ELSE FromRaw(1, IPV4_ADDR_LEN),
                             args["p"]),
   users        |-> Users(args),
   searchDomain |-> Given(args, "dns") /\ Given(args, "src"),
   netns        |-> Name(args, "ns")]

GetUser(config, login) == login \in DOMAIN config.users
=============================================================================
