------------------------------ MODULE Addresses ------------------------------
(***************************************************************************)
(* IPAddress and IPEndpoint, and the fields of a sockaddr they are made    *)
(* from and turned into.                                                   *)
(*                                                                         *)
(* The sixteen bytes of an address are a number, so that memcmp is <.      *)
(* Ports keep their width: the port of a sockaddr and of a SOCKS5 message  *)
(* is in network order, which on a little-endian machine is the number     *)
(* with its two bytes exchanged.                                           *)
(***************************************************************************)
EXTENDS Integers

Ports == 0 .. 65535

(* htons and ntohs.                                                        *)
Swapped(p) == (p % 256) * 256 + p \div 256

AF_INET == 2
AF_INET6 == 10
IPV4_ADDR_LEN == 4
IPV6_ADDR_LEN == 16
-----------------------------------------------------------------------------
(* IPAddress                                                               *)

NoAddress == [isValid |-> FALSE, isV6 |-> FALSE, ip |-> 0]

FromRaw(raw, len) ==
  IF len \in {IPV4_ADDR_LEN, IPV6_ADDR_LEN}
    THEN [isValid |-> TRUE, isV6 |-> len = IPV6_ADDR_LEN, ip |-> raw]
    ELSE NoAddress

FromSA(sa) ==
  IF sa.family \in {AF_INET, AF_INET6}
    THEN [isValid |-> TRUE, isV6 |-> sa.family = AF_INET6, ip |-> sa.addr]
    ELSE NoAddress

(* ToSA: family and address; an invalid address leaves the zeroed target.  *)
ToSA(a) ==
  IF a.isValid
    THEN [family |-> IF a.isV6 THEN AF_INET6 ELSE AF_INET, addr |-> a.ip]
    ELSE [family |-> 0, addr |-> 0]

Flags(a) == (IF a.isValid THEN 10 ELSE 0) + (IF a.isV6 THEN 1 ELSE 0)

Less(a, b) == Flags(a) < Flags(b) \/ (Flags(a) = Flags(b) /\ a.ip < b.ip)

Greater(a, b) == Flags(a) > Flags(b) \/ (Flags(a) = Flags(b) /\ a.ip > b.ip)

Equals(a, b) == a.isValid = b.isValid /\ a.isV6 = b.isV6 /\ a.ip = b.ip
-----------------------------------------------------------------------------
(* IPEndpoint                                                              *)

Endpoint(a, port) == [address |-> a, port |-> port]

NoEndpoint == Endpoint(NoAddress, 0)

(* The port of a sockaddr, as it stands there.                             *)
DecodePort(sa) == sa.port

EndpointFromSA(sa) == Endpoint(FromSA(sa), DecodePort(sa))

(* ToRawBuff: address and port of a SOCKS5 message.                        *)
ToRawBuff(ep) ==
  [len  |-> (IF ep.address.isV6 THEN IPV6_ADDR_LEN ELSE IPV4_ADDR_LEN) + 2,
   addr |-> ep.address.ip, port |-> Swapped(ep.port)]

EndpointEquals(e, f) == Equals(e.address, f.address) /\ e.port = f.port

EndpointLess(e, f) == Less(e.address, f.address) \/ e.port < f.port

EndpointGreater(e, f) == Greater(e.address, f.address) \/ e.port > f.port
=============================================================================
