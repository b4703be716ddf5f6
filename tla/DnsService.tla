----------------------------- MODULE DnsService -----------------------------
(***************************************************************************)
(* What the proxy promises its clients, whatever the upstream resolver and *)
(* the network do: every query that reaches it is answered once.  The      *)
(* answer is made by the proxy itself (a block or a SERVFAIL), or it is    *)
(* the upstream's answer to the query, or -- because the transaction id of *)
(* the upstream side is only a table index -- the upstream's answer to an  *)
(* earlier query whose client has been answered already.                   *)
(***************************************************************************)
EXTENDS Naturals

CONSTANT Queries          \* the datagrams the clients send, one element each

None  == "none"           \* no answer yet; not a query
Local == "local"          \* an answer the proxy made; not a query

VARIABLES
  asked,     \* the queries that have reached the proxy
  answers,   \* how many answers each query has been sent
  reply      \* where its last answer came from: None, Local, or the query
             \* the upstream was answering
vars == <<asked, answers, reply>>

Init ==
  /\ asked = {}
  /\ answers = [q \in Queries |-> 0]
  /\ reply = [q \in Queries |-> None]

Ask(q) ==
  /\ q \notin asked
  /\ asked' = asked \cup {q}
  /\ UNCHANGED <<answers, reply>>

Answer(q) ==
  /\ q \in asked
  /\ answers[q] = 0
  /\ answers' = [answers EXCEPT ![q] = 1]
  /\ \E r \in {Local, q} \cup {p \in asked : answers[p] > 0} :
        reply' = [reply EXCEPT ![q] = r]
  /\ UNCHANGED asked

Next == \E q \in Queries : Ask(q) \/ Answer(q)

SafeSpec == Init /\ [][Next]_vars

Answering == \A q \in Queries : WF_vars(Answer(q))

Spec == SafeSpec /\ Answering
=============================================================================
