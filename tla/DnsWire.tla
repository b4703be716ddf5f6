------------------------------ MODULE DnsWire ------------------------------
(***************************************************************************)
(* components/dns_proxy/dns_wire.c: the question of a DNS message and the  *)
(* answers made out of it in place.                                        *)
(*                                                                         *)
(* A datagram is a record: how many bytes of the header are there (a       *)
(* shorter datagram has nothing else), the fields of the header, of the    *)
(* flags only those the code writes, and the bytes after the header.       *)
(***************************************************************************)
EXTENDS Integers, SequencesExt

CONSTANTS
  DNS_WIRE_MAX_NAME_LEN,    \* 255
  DNS_WIRE_MAX_MSG_LEN      \* 512

DNS_WIRE_HEADER_LEN == 12

ASSUME WireAssumption ==
  /\ DNS_WIRE_MAX_NAME_LEN \in Nat
  /\ DNS_WIRE_MAX_MSG_LEN \in Nat

NOERROR  == 0
SERVFAIL == 2
NXDOMAIN == 3

DNS_TYPE_A    == 1
DNS_TYPE_AAAA == 28

Dot == 46

Length(m) == m.header + Len(m.body)

-----------------------------------------------------------------------------
(* dns_wire_parse_question *)

Lower(c) == IF c \in 65 .. 90 THEN c + 32 ELSE c

NoName == [ok |-> FALSE, labels |-> <<>>, next |-> 0]

(* Whether there is a name at position p of the bytes b, its labels in lower *)
(* case and the position after it; from gives that for the positions after p. *)
ReadName(b, from, p) ==
  IF p > Len(b) THEN NoName
  ELSE IF b[p] = 0 THEN [ok |-> TRUE, labels |-> <<>>, next |-> p + 1]
  ELSE IF b[p] >= 64 \/ p + b[p] > Len(b) THEN NoName
  ELSE LET rest  == from[p + b[p] + 1]
           label == [j \in 1 .. b[p] |-> Lower(b[p + j])]
       IN [ok |-> rest.ok, labels |-> <<label>> \o rest.labels, next |-> rest.next]

NamesFrom(b) ==
  LET from[p \in 1 .. Len(b) + 1] == ReadName(b, from, p) IN from

Name(b) == NamesFrom(b)[1]

(* A dot goes before each label but the first. *)
Dotted(labels, joined, n) ==
  IF n = 0 THEN <<>>
  ELSE IF joined[n - 1] = <<>> THEN labels[n]
  ELSE joined[n - 1] \o <<Dot>> \o labels[n]

Joined(labels) ==
  LET joined[n \in 0 .. Len(labels)] == Dotted(labels, joined, n) IN joined

(* Mutant of Join: the labels are run together. *)
JoinRun(labels) == FlattenSeq(labels)

Join(labels) == Joined(labels)[Len(labels)]

(* QTYPE and QCLASS follow the name.                                        *)
(* Mutant of QuestionEnd: QCLASS is forgotten.                              *)
QuestionEndEarly(next) == next + 1

QuestionEnd(next) == next + 3

(* qname has no length: strlen and strcmp read it up to the first zero byte, *)
(* which a label may hold.                                                    *)
CString(chars) ==
  LET zeros == {j \in DOMAIN chars : chars[j] = 0}
  IN IF zeros = {} THEN chars ELSE SubSeq(chars, 1, Min(zeros) - 1)

NoQuestion == [ok |-> FALSE]

Question(m) ==
  LET name  == Name(m.body)
      text  == Join(name.labels)
      end   == QuestionEnd(name.next)
  IN IF /\ m.header = DNS_WIRE_HEADER_LEN
        /\ m.qd # 0
        /\ name.ok
        /\ Len(text) < DNS_WIRE_MAX_NAME_LEN
        /\ end <= Len(m.body)
     THEN [ok |-> TRUE, qname |-> CString(text),
           qtype |-> 256 * m.body[name.next] + m.body[name.next + 1],
           question_end |-> DNS_WIRE_HEADER_LEN + end]
     ELSE NoQuestion

-----------------------------------------------------------------------------
(* dns_wire_make_error_response *)
ErrorResponse(m, rcode) ==
  IF m.header < DNS_WIRE_HEADER_LEN THEN m
  ELSE [m EXCEPT !.qr = 1, !.aatc = 0, !.ra = 1, !.rcode = rcode]

(* dns_wire_make_zero_answer: NoAnswer stands for the result 0. *)
NoAnswer == [none |-> TRUE]

RdLength(qtype) == IF qtype = DNS_TYPE_A THEN 4 ELSE 16

Answer(qtype) ==
  <<192, 12, qtype \div 256, qtype % 256, 0, 1, 0, 0, 0, 60, 0, RdLength(qtype)>>
    \o [j \in 1 .. RdLength(qtype) |-> 0]

(* Mutant of ZeroAnswer: what followed the question is kept. *)
ZeroAnswerKept(m, question_end, buf_cap, qtype) ==
  IF \/ qtype \notin {DNS_TYPE_A, DNS_TYPE_AAAA}
     \/ question_end + 12 + RdLength(qtype) > buf_cap
  THEN NoAnswer
  ELSE [ErrorResponse(m, NOERROR) EXCEPT
          !.an = 1, !.ns = 0, !.ar = 0,
          !.body = @ \o Answer(qtype)]

ZeroAnswer(m, question_end, buf_cap, qtype) ==
  IF \/ qtype \notin {DNS_TYPE_A, DNS_TYPE_AAAA}
     \/ question_end + 12 + RdLength(qtype) > buf_cap
  THEN NoAnswer
  ELSE [ErrorResponse(m, NOERROR) EXCEPT
          !.an = 1, !.ns = 0, !.ar = 0,
          !.body = SubSeq(@, 1, question_end - DNS_WIRE_HEADER_LEN) \o Answer(qtype)]

(* try_block: the answer to a query that is blocked. *)
BlockedResponse(m, zero_ip) ==
  LET q    == Question(m)
      zero == ZeroAnswer(m, q.question_end, DNS_WIRE_MAX_MSG_LEN, q.qtype)
  IN IF zero_ip /\ zero # NoAnswer THEN zero ELSE ErrorResponse(m, NXDOMAIN)

-----------------------------------------------------------------------------
(* The format, stated the other way round: a name and how it is encoded.    *)
Encoding(labels) ==
  FlattenSeq([j \in DOMAIN labels |-> <<Len(labels[j])>> \o labels[j]]) \o <<0>>

Text(labels) ==
  IF labels = <<>> THEN <<>>
  ELSE Tail(FlattenSeq([j \in DOMAIN labels |-> <<Dot>> \o labels[j]]))

LowerAll(s) == [j \in DOMAIN s |-> Lower(s[j])]

(* What is left of a text whose first zero byte ends it. *)
UpToZero(read, text) ==
  /\ Len(read) <= Len(text)
  /\ \A j \in DOMAIN read : read[j] = text[j] /\ read[j] # 0
  /\ Len(read) < Len(text) => text[Len(read) + 1] = 0

(* Every well-formed question is read to its end, whatever follows it, unless *)
(* the name is longer than the buffer; the name is read in lower case, whole *)
(* if none of its labels holds a zero byte, else cut at the first one.        *)
ReadsEveryName(names, tails, messages) ==
  \A labels \in names, tail \in tails, m \in messages :
    LET q == Question([m EXCEPT !.body = Encoding(labels) \o tail])
    IN /\ q.ok <=> /\ m.qd # 0 /\ Len(tail) >= 4
                   /\ Len(Text(labels)) < DNS_WIRE_MAX_NAME_LEN
       /\ q.ok => /\ UpToZero(q.qname, LowerAll(Text(labels)))
                  /\ q.question_end = DNS_WIRE_HEADER_LEN + Len(Encoding(labels)) + 4

(* Nothing else is read as a question: the bytes up to the end that is      *)
(* reported encode the labels whose text, up to a zero byte, is the name.    *)
ReadsOnlyNames(bodies, messages) ==
  \A b \in bodies, m \in messages :
    LET q == Question([m EXCEPT !.body = b])
    IN q.ok => /\ q.question_end \in DNS_WIRE_HEADER_LEN + 5 .. DNS_WIRE_HEADER_LEN + Len(b)
               /\ Encoding(Name(b).labels)
                    = LowerAll(SubSeq(b, 1, q.question_end - DNS_WIRE_HEADER_LEN - 4))
               /\ UpToZero(q.qname, Text(Name(b).labels))

(* A blocked client gets one message with its own id, the question that was  *)
(* looked up, and nothing but the zero address of the type it asked for; or  *)
(* its query as NXDOMAIN when it asked for something else, when there is no  *)
(* room, or when that is the policy.  It never outgrows the buffer.  The     *)
(* zero address comes with a count of questions that is right only if the   *)
(* query had one: of more only the first is kept, and all are counted.       *)
AnswersQuestion(messages) ==
  \A m \in messages, zero_ip \in BOOLEAN :
    LET q    == Question(m)
        r    == BlockedResponse(m, zero_ip)
        head == q.question_end - DNS_WIRE_HEADER_LEN
        rr   == SubSeq(r.body, head + 1, Len(r.body))
        room == q.question_end + 12 + RdLength(q.qtype) <= DNS_WIRE_MAX_MSG_LEN
    IN q.ok =>
         /\ r.qr = 1 /\ r.aatc = 0 /\ r.txid = m.txid /\ r.rd = m.rd
         /\ Length(r) <= DNS_WIRE_MAX_MSG_LEN
         /\ IF zero_ip /\ q.qtype \in {DNS_TYPE_A, DNS_TYPE_AAAA} /\ room
              THEN /\ r.rcode = NOERROR
                   /\ <<r.an, r.ns, r.ar>> = <<1, 0, 0>>
                   /\ m.qd = 1 => r.qd = 1
                   /\ SubSeq(r.body, 1, head) = SubSeq(m.body, 1, head)
                   /\ SubSeq(rr, 1, 2) = <<192, DNS_WIRE_HEADER_LEN>>
                   /\ 256 * rr[3] + rr[4] = q.qtype
                   /\ 256 * rr[11] + rr[12] = Len(rr) - 12
                   /\ \A j \in 13 .. Len(rr) : rr[j] = 0
              ELSE /\ r.rcode = NXDOMAIN
                   /\ r.body = m.body
                   /\ <<r.qd, r.an, r.ns, r.ar>> = <<m.qd, m.an, m.ns, m.ar>>
=============================================================================
