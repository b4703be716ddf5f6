----------------------------- MODULE MCBlocking -----------------------------
(* BlockedQueries for TLC.  The first version's filter hits new, which only *)
(* the second version has; the seed's does not hit ad.                       *)
EXTENDS BlockedQueries, TLC

CONSTANTS ad, new, v1, v2

MCListed == v1 :> {ad} @@ v2 :> {ad, new} @@ Seed :> {new}

MCh1 == ad :> 5 @@ new :> 10
MCh2 == ad :> 14 @@ new :> 5

AnyUpdater == Permutations(Updaters)

MCAllowlists == {{ad}}

MCSizes == 1 .. 9
MCCounts == 0 .. 3
MCLengths == 0 .. 6

-----------------------------------------------------------------------------
(* Messages: bodies that are any bytes of Alphabet cut anywhere, and names  *)
(* of up to three labels, with upper case, a dot and a zero inside a label.  *)
Header == [header |-> 12, txid |-> 7, qr |-> 0, aatc |-> 1, rd |-> 1, ra |-> 0,
           rcode |-> 5, qd |-> 1, an |-> 0, ns |-> 0, ar |-> 0, body |-> <<>>]

MCHeaders == {Header, [Header EXCEPT !.qd = 0], [Header EXCEPT !.qd = 2]}

Alphabet == {0, 1, 2, 65, 46, 192}

MCBodies == {SubSeq(b \o <<0, 1, 0, 1>>, 1, n) : b \in [1 .. 4 -> Alphabet], n \in 0 .. 8}

Labels == {<<65>>, <<97>>, <<46>>, <<0>>, <<66, 97>>, <<67, 68, 69>>}

MCNames == UNION {[1 .. n -> Labels] : n \in 0 .. 3}

MCTails == {<<>>, <<0, 1, 0>>, <<0, 1, 0, 1>>, <<0, 28, 0, 1, 9>>}

MCQueries ==
  {[Header EXCEPT !.body = Encoding(n) \o <<0, type, 0, 1>> \o more, !.ar = Len(more), !.qd = qd] :
     n \in MCNames, type \in {1, 16, 28}, more \in {<<>>, <<41>>}, qd \in {1, 2}}
=============================================================================
