------------------------------ MODULE DnsProxy ------------------------------
(***************************************************************************)
(* The UDP forwarding loop of components/dns_proxy/dns_proxy.c: one task   *)
(* that selects over two listening sockets and one upstream socket, a      *)
(* table of pending queries whose index is the upstream transaction id, a  *)
(* timeout sweep after every round, and the fail-over between the two      *)
(* configured resolvers.  The HTTP server's task changes the upstream      *)
(* configuration at any moment, and the network loses, delays, duplicates  *)
(* and reorders the upstream's replies.                                    *)
(*                                                                         *)
(* The verdict of try_block is a free choice here: any query may be        *)
(* blocked or not.  A datagram is an element of Queries; its bytes are not *)
(* modelled.                                                               *)
(***************************************************************************)
EXTENDS Naturals, FiniteSets

CONSTANTS
  Queries,          \* the datagrams the clients send, each a query of its own
  SockOf,           \* the listening socket, "v4" or "v6", a query arrives on
  MaxPending,       \* CONFIG_DNS_PROXY_MAX_PENDING
  UpstreamTimeout,  \* CONFIG_DNS_PROXY_UPSTREAM_TIMEOUT_MS, in clock ticks
  FailThreshold,    \* CONFIG_DNS_PROXY_UPSTREAM_FAIL_THRESHOLD
  MaxApplies        \* bound: how often the upstream configuration is applied

None  == "none"
Local == "local"

ASSUME ProxyAssumption ==
  /\ {None, Local} \cap Queries = {}
  /\ SockOf \in [Queries -> {"v4", "v6"}]
  /\ MaxPending \in Nat \ {0}
  /\ UpstreamTimeout \in Nat \ {0}
  /\ FailThreshold \in Nat \ {0}
  /\ MaxApplies \in Nat

(* The counters are compared with cardinalities. *)
ASSUME QueriesFinite == IsFiniteSet(Queries)

Slots == 0 .. MaxPending - 1

VARIABLES
  unsent,                  \* queries the clients have not sent yet
  listenq,                 \* datagrams waiting in the two listening sockets
  pending,                 \* s_pending: the query each slot holds, None when the
                           \* slot is not in_use
  age,                     \* s_pending[].sent_at_us, as the time since then
  sentTo,                  \* the resolver that was current then (not in the code:
                           \* for the fail-over property)
  pc,                      \* where dns_proxy_task is in its loop
  rfds,                    \* the sockets the last select found readable
  due,                     \* expired slots the current sweep still has to visit
  wire,                    \* what the upstream may still answer on this socket
  rxbuf,                   \* replies waiting in the upstream socket
  s_upstream_sock,         \* "open" or "none"
  s_upstream_index,
  s_consecutive_timeouts,
  s_stats,
  answers,                 \* how many responses each client query was sent
  reply,                   \* the source of the last one: Local, or the query
                           \* the relayed upstream answer was about
  applies                  \* how often the configuration was applied

taskVars     == <<pc, rfds, due>>
upstreamVars == <<s_upstream_sock, s_upstream_index, s_consecutive_timeouts,
                  wire, rxbuf>>
clientVars   == <<unsent, listenq, answers, reply>>
tableVars    == <<pending, age, sentTo>>
vars == <<taskVars, upstreamVars, clientVars, tableVars, s_stats, applies>>

-----------------------------------------------------------------------------
(* Mutant of FreeSlots: the in_use flag is not looked at. *)
AnySlot == Slots

InUse     == {i \in Slots : pending[i] # None}
FreeSlots == Slots \ InUse
Expired   == {i \in InUse : age[i] >= UpstreamTimeout}

Counters == {"total", "blocked", "servfail", "forwarded"}

(* s_stats after one more event in each of these counters. *)
Count(counters) ==
  [c \in Counters |-> IF c \in counters THEN s_stats[c] + 1 ELSE s_stats[c]]

Message == [txid : Slots, query : Queries]

Lowest(i, S) == i \in S /\ \A j \in S : i <= j

Sockets == {"v4", "v6", "upstream"}

(* Mutant of After: the sweep is left to the rounds that find nothing to do. *)
SweepWhenIdle(s) == CASE s = "v4" -> "v6"
                      [] s = "v6" -> "upstream"
                      [] s = "upstream" -> "select"

(* The loop visits the readable sockets in this order, and then sweeps. *)
After(s) == CASE s = "v4" -> "v6"
              [] s = "v6" -> "upstream"
              [] s = "upstream" -> "sweep_start"

Init ==
  /\ unsent = Queries
  /\ listenq = {}
  /\ pending = [i \in Slots |-> None]
  /\ age = [i \in Slots |-> 0]
  /\ sentTo = [i \in Slots |-> 0]
  /\ pc = "select"
  /\ rfds = {}
  /\ due = {}
  /\ wire = {}
  /\ rxbuf = {}
  /\ s_upstream_sock = "open"
  /\ s_upstream_index = 0
  /\ s_consecutive_timeouts = 0
  /\ s_stats = [c \in Counters |-> 0]
  /\ answers = [q \in Queries |-> 0]
  /\ reply = [q \in Queries |-> None]
  /\ applies = 0

-----------------------------------------------------------------------------
(* Sending a response to the client of query q. *)
Respond(q, source) ==
  /\ answers' = [answers EXCEPT ![q] = @ + 1]
  /\ reply' = [reply EXCEPT ![q] = source]

(* Mutant of Release: in_use stays set after the response. *)
ReleaseForgotten(i) == UNCHANGED tableVars

(* p->in_use = false.  What else a slot holds is not read until it is used   *)
(* again.                                                                    *)
Release(i) ==
  /\ pending' = [pending EXCEPT ![i] = None]
  /\ age' = [age EXCEPT ![i] = 0]
  /\ sentTo' = [sentTo EXCEPT ![i] = 0]

(* connect_upstream_socket: the old socket is closed and a new one, with a  *)
(* port of its own, connected.  Replies addressed to the old port are lost. *)
(* When socket() or connect() fails no upstream socket is left.             *)
Reconnect ==
  /\ s_upstream_sock' \in {"open", "none"}
  /\ wire' = {}
  /\ rxbuf' = {}

-----------------------------------------------------------------------------
(* The round of dns_proxy_task up to the sweep. *)

(* select returns with the readable sockets, or with none after 200 ms. *)
Select ==
  /\ pc = "select"
  /\ rfds' = {SockOf[q] : q \in listenq}
               \cup {s \in {"upstream"} : rxbuf # {}}
  /\ pc' = IF rfds' = {} THEN "sweep_start" ELSE "v4"
  /\ UNCHANGED <<due, upstreamVars, clientVars, tableVars, s_stats, applies>>

SkipSocket ==
  /\ pc \in Sockets
  /\ pc \notin rfds
  /\ pc' = After(pc)
  /\ UNCHANGED <<rfds, due, upstreamVars, clientVars, tableVars, s_stats, applies>>

(* handle_client_datagram takes one datagram from the socket it is called on *)
Receive(q) ==
  /\ pc \in rfds
  /\ q \in listenq
  /\ SockOf[q] = pc
  /\ listenq' = listenq \ {q}
  /\ pc' = After(pc)
  /\ UNCHANGED <<rfds, due, unsent, applies>>

(* ... and try_block answers it, *)
BlockQuery(q) ==
  /\ Receive(q)
  /\ Respond(q, Local)
  /\ s_stats' = Count({"total", "blocked"})
  /\ UNCHANGED <<upstreamVars, tableVars>>

(* Mutant of RejectQuery: the SERVFAIL of a full table is not counted. *)
RejectUncounted(q) ==
  /\ Receive(q)
  /\ FreeSlots = {}
  /\ Respond(q, Local)
  /\ s_stats' = Count({"total"})
  /\ UNCHANGED <<upstreamVars, tableVars>>

(* ... or the table is full and the client gets SERVFAIL at once, *)
RejectQuery(q) ==
  /\ Receive(q)
  /\ FreeSlots = {}
  /\ Respond(q, Local)
  /\ s_stats' = Count({"total", "servfail"})
  /\ UNCHANGED <<upstreamVars, tableVars>>

(* ... or it is forwarded under the first free slot's index.  A failed      *)
(* send() is logged and otherwise treated like a reply that never comes.    *)
ForwardQuery(q) ==
  /\ Receive(q)
  /\ \E slot \in Slots :
       /\ Lowest(slot, FreeSlots)
       /\ pending' = [pending EXCEPT ![slot] = q]
       /\ age' = [age EXCEPT ![slot] = 0]
       /\ sentTo' = [sentTo EXCEPT ![slot] = s_upstream_index]
       /\ wire' = IF s_upstream_sock = "open"
                    THEN wire \cup {[txid |-> slot, query |-> q]}
                    ELSE wire
  /\ s_stats' = Count({"total", "forwarded"})
  /\ UNCHANGED <<answers, reply, rxbuf, s_upstream_sock, s_upstream_index,
                 s_consecutive_timeouts>>

(* handle_upstream_datagram: recv() is blocking, so nothing of the task is  *)
(* enabled here when the socket holds no datagram.                          *)
TakeReply(m) ==
  /\ pc = "upstream"
  /\ pc \in rfds
  /\ m \in rxbuf
  /\ rxbuf' = rxbuf \ {m}
  /\ pc' = After(pc)
  /\ UNCHANGED <<rfds, due, wire, s_upstream_sock, s_upstream_index, unsent,
                 listenq, s_stats, applies>>

RelayReply(m) ==
  /\ TakeReply(m)
  /\ m.txid \in InUse
  /\ Respond(pending[m.txid], m.query)
  /\ Release(m.txid)
  /\ s_consecutive_timeouts' = 0

DropReply(m) ==
  /\ TakeReply(m)
  /\ m.txid \notin InUse
  /\ UNCHANGED <<answers, reply, tableVars, s_consecutive_timeouts>>

-----------------------------------------------------------------------------
(* sweep_timeouts: the clock is read once, then the expired slots are       *)
(* visited in the order of the table.                                       *)

StartSweep ==
  /\ pc = "sweep_start"
  /\ due' = Expired
  /\ pc' = IF due' = {} THEN "select" ELSE "sweep"
  /\ UNCHANGED <<rfds, upstreamVars, clientVars, tableVars, s_stats, applies>>

(* Mutant of FailOver: the count that reached the threshold is not reset. *)
FailOverKeepsCount ==
  /\ s_upstream_index' = 1 - s_upstream_index
  /\ s_consecutive_timeouts' = s_consecutive_timeouts + 1
  /\ Reconnect

(* fail_over_upstream *)
FailOver ==
  /\ s_upstream_index' = 1 - s_upstream_index
  /\ s_consecutive_timeouts' = 0
  /\ Reconnect

CountTimeout ==
  IF s_consecutive_timeouts + 1 >= FailThreshold
    THEN FailOver
    ELSE /\ s_consecutive_timeouts' = s_consecutive_timeouts + 1
         /\ UNCHANGED <<s_upstream_sock, s_upstream_index, wire, rxbuf>>

SweepSlot(i) ==
  /\ pc = "sweep"
  /\ Lowest(i, due)
  /\ Respond(pending[i], Local)
  /\ Release(i)
  /\ s_stats' = Count({"servfail"})
  /\ CountTimeout
  /\ due' = due \ {i}
  /\ pc' = IF due' = {} THEN "select" ELSE "sweep"
  /\ UNCHANGED <<rfds, unsent, listenq, applies>>

DnsTask ==
  \/ Select
  \/ SkipSocket
  \/ \E q \in Queries : BlockQuery(q) \/ RejectQuery(q) \/ ForwardQuery(q)
  \/ \E m \in Message : RelayReply(m) \/ DropReply(m)
  \/ StartSweep
  \/ \E i \in Slots : SweepSlot(i)

-----------------------------------------------------------------------------
(* The other actors. *)

ClientSends(q) ==
  /\ q \in unsent
  /\ unsent' = unsent \ {q}
  /\ listenq' = listenq \cup {q}
  /\ UNCHANGED <<taskVars, upstreamVars, answers, reply, tableVars, s_stats, applies>>

(* The upstream's answer arrives, and may arrive once more later. *)
ReplyArrives(m) ==
  /\ m \in wire
  /\ rxbuf' = rxbuf \cup {m}
  /\ wire' \in {wire, wire \ {m}}
  /\ UNCHANGED <<taskVars, s_upstream_sock, s_upstream_index,
                 s_consecutive_timeouts, clientVars, tableVars, s_stats, applies>>

(* dns_proxy_apply_upstream_config, called by the HTTP server's task.  The  *)
(* descriptor of the new socket may be the number select reported readable  *)
(* or another one; without a socket FD_ISSET and recv() fail.               *)
ApplyUpstreamConfig ==
  /\ applies < MaxApplies
  /\ applies' = applies + 1
  /\ s_upstream_index' = 0
  /\ s_consecutive_timeouts' = 0
  /\ Reconnect
  /\ \/ s_upstream_sock' = "open" /\ UNCHANGED rfds
     \/ rfds' = rfds \ {"upstream"}
  /\ UNCHANGED <<pc, due, clientVars, tableVars, s_stats>>

(* Time passes: every pending query grows older. *)
Tick ==
  /\ InUse # Expired
  /\ age' = [i \in Slots |-> IF i \in InUse \ Expired THEN age[i] + 1 ELSE age[i]]
  /\ UNCHANGED <<taskVars, upstreamVars, clientVars, pending, sentTo, s_stats,
                 applies>>

Next ==
  \/ DnsTask
  \/ \E q \in Queries : ClientSends(q)
  \/ \E m \in Message : ReplyArrives(m)
  \/ ApplyUpstreamConfig
  \/ Tick

Spec == Init /\ [][Next]_vars

(* The task runs whenever it can, and the clock goes on.  Clients, upstream *)
(* and HTTP server owe nothing.                                             *)
FairSpec == Spec /\ WF_vars(DnsTask) /\ WF_vars(Tick)

-----------------------------------------------------------------------------
TypeOK ==
  /\ unsent \subseteq Queries
  /\ listenq \subseteq Queries
  /\ pending \in [Slots -> Queries \cup {None}]
  /\ age \in [Slots -> 0 .. UpstreamTimeout]
  /\ sentTo \in [Slots -> {0, 1}]
  /\ pc \in {"select", "v4", "v6", "upstream", "sweep_start", "sweep"}
  /\ rfds \subseteq Sockets
  /\ due \subseteq Slots
  /\ wire \subseteq Message
  /\ rxbuf \subseteq Message
  /\ s_upstream_sock \in {"open", "none"}
  /\ s_upstream_index \in {0, 1}
  /\ s_consecutive_timeouts \in 0 .. FailThreshold - 1
  /\ s_stats \in [Counters -> Nat]
  /\ answers \in [Queries -> Nat]
  /\ reply \in [Queries -> Queries \cup {None, Local}]
  /\ applies \in 0 .. MaxApplies

(* Every query is in exactly one place -- with its client, in a listening   *)
(* socket, in one slot of the table, or answered -- and it is answered      *)
(* once: no path through the handler, the relay and the sweep answers       *)
(* twice, loses a query, or keeps it in two slots.                          *)
Held == {pending[i] : i \in InUse}

QueryAccounted ==
  /\ unsent \cap listenq = {}
  /\ (unsent \cup listenq) \cap Held = {}
  /\ \A i, j \in InUse : pending[i] = pending[j] => i = j
  /\ \A q \in Queries :
       answers[q] = IF q \in unsent \cup listenq \cup Held THEN 0 ELSE 1

(* An answer about another query can only reach a client when that other    *)
(* query has been answered before (by a timeout or a first copy of the same *)
(* reply), whichever slots were reused in between.                          *)
StrangeAnswerIsLate ==
  \A q \in Queries :
    reply[q] \in Queries \ {q} => answers[reply[q]] > 0

(* The counters the web page shows add up with what is still in the table:  *)
(* received = blocked + SERVFAIL + relayed + pending.                       *)
Relayed == {q \in Queries : reply[q] \in Queries}

StatsAddUp ==
  /\ s_stats["total"] = s_stats["blocked"] + s_stats["servfail"]
                       + Cardinality(Relayed) + Cardinality(InUse)
  /\ s_stats["total"] = Cardinality({q \in Queries : q \notin unsent \cup listenq})

(* The proxy does what DnsService promises: always as far as its answers go, *)
(* and as long as nobody changes the upstream configuration every query that *)
(* has reached it is answered in the end, by the upstream, a timeout or a    *)
(* fail-over, with or without a socket.                                      *)
Service == INSTANCE DnsService WITH asked <- Queries \ unsent

RefinesService ==
  /\ Service!SafeSpec
  /\ [](applies = 0) => Service!Answering

-----------------------------------------------------------------------------
(* Two statements of the documentation that the code does not keep.         *)

(* README.md:93: the proxy "auto-fails over between the two after repeated  *)
(* timeouts": the timeout that makes it leave a resolver is one of a query  *)
(* sent to that resolver.                                                   *)
FailoverBlamesCurrent ==
  [][\A i \in Slots :
       SweepSlot(i) /\ s_upstream_index' # s_upstream_index
         => sentTo[i] = s_upstream_index]_vars

(* Kconfig, DNS_PROXY_UPSTREAM_TIMEOUT_MS: a query whose upstream is silent *)
(* gets a synthesized SERVFAIL, so every query that arrives is answered.    *)
EveryQueryAnswered ==
  \A q \in Queries : q \in listenq ~> answers[q] > 0
=============================================================================
