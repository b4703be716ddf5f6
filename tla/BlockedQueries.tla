--------------------------- MODULE BlockedQueries ---------------------------
(***************************************************************************)
(* The decision with the data it decides on: Blocking, with filters of any *)
(* size and the datagrams of any client.                                   *)
(***************************************************************************)
EXTENDS Blocking, DnsWire

CONSTANTS
  Sizes, Counts, Lengths,   \* filters: bits, hashes, bytes of the buffer
  Names, Tails,             \* well-formed questions: a name, what follows it
  Bodies,                   \* what else may come after a header
  Headers,
  Queries                   \* datagrams that fit in the receive buffer

Byte == 0 .. 255

Label == {l \in Seq(Byte) : Len(l) \in 1 .. 63}

Datagram ==
  [header : 0 .. DNS_WIRE_HEADER_LEN, txid : Nat, qr : Nat, aatc : Nat, rd : Nat,
   ra : Nat, rcode : Nat, qd : Nat, an : Nat, ns : Nat, ar : Nat, body : Seq(Byte)]

ASSUME QueriesAssumption ==
  /\ Sizes \subseteq Nat \ {0}
  /\ {Counts, Lengths} \subseteq SUBSET Nat
  /\ Names \subseteq Seq(Label)
  /\ {Tails, Bodies} \subseteq SUBSET Seq(Byte)
  /\ Headers \subseteq {m \in Datagram : m.header = DNS_WIRE_HEADER_LEN}
  /\ Queries \subseteq {m \in Datagram : Length(m) <= DNS_WIRE_MAX_MSG_LEN}

-----------------------------------------------------------------------------
FilterBuilds == NoFalseNegative(Sizes, Counts)

FilterReads == ReadsWithin(Sizes, Counts, Lengths)

WellFormed == ReadsEveryName(Names, Tails, Headers)

AnyBytes == ReadsOnlyNames(Bodies, Headers)

Blocks == AnswersQuestion(Queries)

(* A filter is tested only when it is ready: it then says of every name that *)
(* the builder put into it that it is there (bloom_filter.c:34-37).          *)
FiltersComplete == pc = "filter" => FilterBuilds

(* ... and it reads nothing beyond the buffer it was accepted in             *)
(* (bloom_filter.c:16-19).                                                   *)
FiltersInBounds == pc = "filter" => FilterReads

(* Whatever arrives while the proxy waits: a well-formed question is read    *)
(* as its name, lower-cased, up to a zero byte in a label (dns_wire.c:32-66), *)
EveryNameRead == pc = "idle" => WellFormed

(* ... and nothing else is read as a question. *)
OnlyNamesRead == pc = "idle" => AnyBytes

(* A query that is blocked gets one answer of its own, within the buffer,    *)
(* well-formed if it has one question (dns_proxy.c:387-398).                 *)
BlockedAnswered == pc = "blocked" => Blocks
=============================================================================
