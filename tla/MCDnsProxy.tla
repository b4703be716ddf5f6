----------------------------- MODULE MCDnsProxy -----------------------------
(* DnsProxy for TLC: the first query arrives on the IPv6 socket, the others *)
(* on the IPv4 one.                                                         *)
EXTENDS DnsProxy

CONSTANT FirstQuery

MCSockOf == [q \in Queries |-> IF q = FirstQuery THEN "v6" ELSE "v4"]
=============================================================================
