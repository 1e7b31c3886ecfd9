----------------------------- MODULE MCHandshake -----------------------------
(***************************************************************************)
(* Command lines with and without a user, with other time limits, and ones *)
(* that main refuses; a client that may offer any mixture of methods.      *)
(***************************************************************************)
EXTENDS Handshake

MCCommandLines ==
  {[p |-> 1080],
   [p |-> 1080, pwd |-> "b"],
   [p |-> 1080, usr |-> "a", pwd |-> "b"],
   [p |-> 1080, usr |-> "", pwd |-> "b"],
   [p |-> 1080, usr |-> "a", cmax |-> 7],
   [p |-> 0],
   [p |-> 1080, ws |-> 5],
   [p |-> 1080, cmin |-> 0]}

MCMethodLists == {<<>>, <<0>>, <<2>>, <<0, 2>>, <<2, 0>>, <<9, 2>>, <<9>>}

(* Of two addresses, and of two endpoints, one is less, equal or greater;  *)
(* for addresses exactly one of the three.                                 *)
SomeAddresses == {NoAddress} \cup {FromRaw(raw, len) : raw \in RawIPs, len \in {4, 16}}
SomeEndpoints == {Endpoint(a, p) : a \in SomeAddresses, p \in {0, 80, 1080}}

ASSUME AddressOrder ==
  \A a \in SomeAddresses, b \in SomeAddresses :
    /\ Less(a, b) <=> Greater(b, a)
    /\ Equals(a, b) <=> ~Less(a, b) /\ ~Greater(a, b)
    /\ ~(Less(a, b) /\ Greater(a, b))

ASSUME EndpointOrder ==
  \A e \in SomeEndpoints, f \in SomeEndpoints :
    /\ EndpointEquals(e, f) <=> ~EndpointLess(e, f) /\ ~EndpointGreater(e, f)
    /\ EndpointLess(e, f) <=> EndpointGreater(f, e)
=============================================================================
