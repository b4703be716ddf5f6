--------------------------- MODULE DnsProxyProofs ---------------------------
(***************************************************************************)
(* Proofs about DnsProxy, for every table size, timeout, threshold and set *)
(* of queries: type correctness, the accounting of queries, the bound on   *)
(* the damage a late reply can do, the step simulation by which the proxy  *)
(* implements the safety part of DnsService, and the counters.             *)
(***************************************************************************)
EXTENDS DnsProxy, FiniteSetTheorems, TLAPS

USE ProxyAssumption

(* The messages that can still reach the upstream socket, and the slots a   *)
(* sweep has left to visit.  Both are needed to make the properties          *)
(* inductive: a reply names a slot by its index only, and a sweep works on   *)
(* a list made before its first answer.                                      *)
RepliesKnown ==
  \A m \in wire \cup rxbuf :
    \/ pending[m.txid] = m.query
    \/ answers[m.query] > 0

SweepInUse ==
  /\ due \subseteq InUse
  /\ pc # "sweep" => due = {}

IInv ==
  /\ TypeOK
  /\ QueryAccounted
  /\ SweepInUse
  /\ RepliesKnown
  /\ StrangeAnswerIsLate

-----------------------------------------------------------------------------
(* Every variable stays in its type; in particular the fail-over counter    *)
(* never reaches the threshold between two steps.                            *)
LEMMA TypeInit == Init => TypeOK
BY DEF Init, TypeOK, Sockets

LEMMA ReceiveType ==
  ASSUME TypeOK, NEW q \in Queries, Receive(q)
  PROVE  /\ listenq' \subseteq Queries
         /\ pc' \in {"v6", "upstream"}
         /\ UNCHANGED <<rfds, due, unsent, applies>>
BY DEF TypeOK, Receive, After, Sockets

LEMMA RespondType ==
  ASSUME TypeOK, NEW q \in Queries, NEW r \in Queries \cup {None, Local},
         Respond(q, r)
  PROVE  /\ answers' \in [Queries -> Nat]
         /\ reply' \in [Queries -> Queries \cup {None, Local}]
BY DEF TypeOK, Respond

LEMMA TakeReplyType ==
  ASSUME TypeOK, NEW m \in Message, TakeReply(m)
  PROVE  /\ rxbuf' \subseteq Message
         /\ m.txid \in Slots
         /\ m.query \in Queries
         /\ pc' = "sweep_start"
         /\ UNCHANGED <<rfds, due, wire, s_upstream_sock, s_upstream_index,
                        unsent, listenq, s_stats, applies>>
BY DEF TypeOK, TakeReply, After, Message

LEMMA CountType ==
  ASSUME TypeOK, NEW C
  PROVE  Count(C) \in [Counters -> Nat]
BY DEF TypeOK, Count

LEMMA ReleaseType ==
  ASSUME TypeOK, NEW i \in Slots, Release(i)
  PROVE  /\ pending' \in [Slots -> Queries \cup {None}]
         /\ age' \in [Slots -> 0 .. UpstreamTimeout]
         /\ sentTo' \in [Slots -> {0, 1}]
BY DEF TypeOK, Release

LEMMA ReconnectType ==
  ASSUME Reconnect
  PROVE  wire' \subseteq Message /\ rxbuf' \subseteq Message
         /\ s_upstream_sock' \in {"open", "none"}
BY DEF Reconnect

LEMMA TypeStep == TypeOK /\ SweepInUse /\ [Next]_vars => TypeOK'
<1> SUFFICES ASSUME TypeOK, SweepInUse, [Next]_vars PROVE TypeOK'
  OBVIOUS
<1>1. CASE Select
  BY <1>1 DEF TypeOK, Select, Sockets, upstreamVars, clientVars, tableVars
<1>2. CASE SkipSocket
  BY <1>2 DEF TypeOK, SkipSocket, After, Sockets, upstreamVars, clientVars, tableVars
<1>3. ASSUME NEW q \in Queries, BlockQuery(q) PROVE TypeOK'
  <2>1. s_stats' \in [Counters -> Nat]
    BY <1>3, CountType DEF BlockQuery
  <2>2. /\ answers' \in [Queries -> Nat]
        /\ reply' \in [Queries -> Queries \cup {None, Local}]
    BY <1>3, RespondType DEF BlockQuery
  <2>3. QED
    BY <1>3, <2>1, <2>2, ReceiveType DEF BlockQuery, TypeOK, upstreamVars, tableVars
<1>4. ASSUME NEW q \in Queries, RejectQuery(q) PROVE TypeOK'
  <2>1. s_stats' \in [Counters -> Nat]
    BY <1>4, CountType DEF RejectQuery
  <2>2. /\ answers' \in [Queries -> Nat]
        /\ reply' \in [Queries -> Queries \cup {None, Local}]
    BY <1>4, RespondType DEF RejectQuery
  <2>3. QED
    BY <1>4, <2>1, <2>2, ReceiveType DEF RejectQuery, TypeOK, upstreamVars, tableVars
<1>5. ASSUME NEW q \in Queries, ForwardQuery(q) PROVE TypeOK'
  <2>1. s_stats' \in [Counters -> Nat]
    BY <1>5, CountType DEF ForwardQuery
  <2>2. /\ pending' \in [Slots -> Queries \cup {None}]
        /\ age' \in [Slots -> 0 .. UpstreamTimeout]
        /\ sentTo' \in [Slots -> {0, 1}]
    BY <1>5 DEF ForwardQuery, TypeOK
  <2>3. wire' \subseteq Message
    BY <1>5 DEF ForwardQuery, Message, TypeOK
  <2>4. QED
    BY <1>5, <2>1, <2>2, <2>3, ReceiveType DEF ForwardQuery, TypeOK
<1>6. ASSUME NEW m \in Message, RelayReply(m) PROVE TypeOK'
  <2>1. /\ answers' \in [Queries -> Nat]
        /\ reply' \in [Queries -> Queries \cup {None, Local}]
    <3>1. pending[m.txid] \in Queries
      BY <1>6, TakeReplyType DEF RelayReply, InUse, TypeOK
    <3>2. QED
      BY <1>6, <3>1, RespondType, TakeReplyType DEF RelayReply
  <2>2. /\ pending' \in [Slots -> Queries \cup {None}]
        /\ age' \in [Slots -> 0 .. UpstreamTimeout]
        /\ sentTo' \in [Slots -> {0, 1}]
    BY <1>6, TakeReplyType, ReleaseType DEF RelayReply
  <2>3. QED
    BY <1>6, <2>1, <2>2, TakeReplyType DEF RelayReply, TypeOK
<1>7. ASSUME NEW m \in Message, DropReply(m) PROVE TypeOK'
  BY <1>7, TakeReplyType DEF DropReply, TypeOK, tableVars
<1>8. CASE StartSweep
  BY <1>8 DEF TypeOK, StartSweep, Expired, InUse, upstreamVars, clientVars, tableVars
<1>9. ASSUME NEW i \in Slots, SweepSlot(i) PROVE TypeOK'
  <2>1. pending[i] \in Queries
    BY <1>9 DEF SweepSlot, Lowest, SweepInUse, InUse, TypeOK
  <2>2. /\ answers' \in [Queries -> Nat]
        /\ reply' \in [Queries -> Queries \cup {None, Local}]
    BY <1>9, <2>1, RespondType DEF SweepSlot
  <2>3. /\ s_stats' \in [Counters -> Nat]
        /\ pending' \in [Slots -> Queries \cup {None}]
        /\ age' \in [Slots -> 0 .. UpstreamTimeout]
        /\ sentTo' \in [Slots -> {0, 1}]
    BY <1>9, CountType, ReleaseType DEF SweepSlot
  <2>4. /\ s_upstream_index' \in {0, 1}
        /\ s_consecutive_timeouts' \in 0 .. FailThreshold - 1
        /\ s_upstream_sock' \in {"open", "none"}
        /\ wire' \subseteq Message /\ rxbuf' \subseteq Message
    <3>1. CASE s_consecutive_timeouts + 1 >= FailThreshold
      BY <1>9, <3>1, ReconnectType DEF SweepSlot, CountTimeout, FailOver, TypeOK
    <3>2. CASE ~(s_consecutive_timeouts + 1 >= FailThreshold)
      BY <1>9, <3>2 DEF SweepSlot, CountTimeout, TypeOK
    <3>3. QED
      BY <3>1, <3>2
  <2>5. /\ due' \subseteq Slots
        /\ pc' \in {"select", "sweep"}
        /\ UNCHANGED <<rfds, unsent, listenq, applies>>
    BY <1>9 DEF SweepSlot, TypeOK
  <2>6. QED
    BY <2>2, <2>3, <2>4, <2>5 DEF TypeOK
<1>10. ASSUME NEW q \in Queries, ClientSends(q) PROVE TypeOK'
  BY <1>10 DEF TypeOK, ClientSends, taskVars, upstreamVars, tableVars
<1>11. ASSUME NEW m \in Message, ReplyArrives(m) PROVE TypeOK'
  BY <1>11 DEF TypeOK, ReplyArrives, taskVars, clientVars, tableVars
<1>12. CASE ApplyUpstreamConfig
  BY <1>12, ReconnectType DEF TypeOK, ApplyUpstreamConfig, clientVars, tableVars
<1>13. CASE Tick
  BY <1>13 DEF TypeOK, Tick, Expired, taskVars, upstreamVars, clientVars
<1>14. CASE UNCHANGED vars
  BY <1>14 DEF TypeOK, vars, taskVars, upstreamVars, clientVars, tableVars
<1> QED
  BY <1>1, <1>2, <1>3, <1>4, <1>5, <1>6, <1>7, <1>8, <1>9, <1>10, <1>11, <1>12,
     <1>13, <1>14 DEF Next, DnsTask

-----------------------------------------------------------------------------
(* What releasing and filling a slot does to the table.                      *)
LEMMA ReleaseHeld ==
  ASSUME TypeOK, QueryAccounted, NEW i \in InUse, Release(i)
  PROVE  /\ pending[i] \in Held
         /\ InUse' = InUse \ {i}
         /\ Held' = Held \ {pending[i]}
         /\ \A j \in InUse' : pending'[j] = pending[j]
<1>1. i \in Slots /\ pending \in [Slots -> Queries \cup {None}]
  BY DEF TypeOK, InUse
<1>2. \A j \in Slots : pending'[j] = IF j = i THEN None ELSE pending[j]
  BY <1>1 DEF Release
<1>3. InUse' = InUse \ {i}
  BY <1>2 DEF InUse
<1>4. \A j \in InUse' : pending'[j] = pending[j] /\ j # i /\ j \in InUse
  BY <1>2, <1>3 DEF InUse
<1>5. Held' = {pending[j] : j \in InUse \ {i}}
  BY <1>3, <1>4 DEF Held
<1>6. \A j \in InUse : pending[j] = pending[i] => j = i
  BY DEF QueryAccounted
<1>7. {pending[j] : j \in InUse \ {i}} = Held \ {pending[i]}
  BY <1>6 DEF Held
<1>8. QED
  BY <1>3, <1>4, <1>5, <1>7 DEF Held

LEMMA FillHeld ==
  ASSUME TypeOK, NEW q \in Queries, NEW slot \in FreeSlots,
         pending' = [pending EXCEPT ![slot] = q]
  PROVE  /\ InUse' = InUse \cup {slot}
         /\ Held' = Held \cup {q}
         /\ \A j \in InUse : pending'[j] = pending[j] /\ j # slot
         /\ pending'[slot] = q
<1>1. slot \in Slots /\ pending \in [Slots -> Queries \cup {None}] /\ q # None
  BY DEF TypeOK, FreeSlots
<1>2. \A j \in Slots : pending'[j] = IF j = slot THEN q ELSE pending[j]
  BY <1>1
<1>3. InUse' = InUse \cup {slot}
  BY <1>1, <1>2 DEF InUse
<1>4. \A j \in InUse : pending'[j] = pending[j] /\ j # slot
  BY <1>2 DEF InUse, FreeSlots
<1>5. pending'[slot] = q
  BY <1>1, <1>2
<1>6. Held' = Held \cup {q}
  BY <1>3, <1>4, <1>5 DEF Held
<1>7. QED
  BY <1>3, <1>4, <1>5, <1>6

LEMMA SameHeld ==
  ASSUME UNCHANGED pending
  PROVE  InUse' = InUse /\ Held' = Held
<1>1. InUse' = InUse
  BY DEF InUse
<1>2. QED
  BY <1>1 DEF Held

(* A slot a sweep still has to visit stays in use: only the sweep itself     *)
(* releases slots while there are any left.                                  *)
LEMMA SweepStep == TypeOK /\ SweepInUse /\ QueryAccounted /\ [Next]_vars => SweepInUse'
<1> SUFFICES ASSUME TypeOK, SweepInUse, QueryAccounted, [Next]_vars PROVE SweepInUse'
  OBVIOUS
<1>1. ASSUME UNCHANGED <<pending, due>>, pc # "sweep", pc' # "sweep" PROVE SweepInUse'
  BY <1>1, SameHeld DEF SweepInUse
<1>2. ASSUME UNCHANGED <<pending, due, pc>> PROVE SweepInUse'
  BY <1>2, SameHeld DEF SweepInUse
<1>3. ASSUME NEW q \in Queries, ForwardQuery(q) PROVE SweepInUse'
  <2>1. PICK slot \in FreeSlots : pending' = [pending EXCEPT ![slot] = q]
    BY <1>3 DEF ForwardQuery, Lowest
  <2>2. InUse' = InUse \cup {slot}
    BY <2>1, FillHeld
  <2>3. due' = due /\ pc \in {"v4", "v6"} /\ pc' \in {"v6", "upstream"}
    BY <1>3, ReceiveType DEF ForwardQuery, Receive
  <2>4. QED
    BY <2>2, <2>3 DEF SweepInUse
<1>4. ASSUME NEW m \in Message, RelayReply(m) PROVE SweepInUse'
  <2>1. due = {} /\ due' = due
    BY <1>4 DEF RelayReply, TakeReply, SweepInUse
  <2>2. QED
    BY <2>1 DEF SweepInUse
<1>5. CASE StartSweep
  <2>1. due' = Expired /\ UNCHANGED pending /\ (pc' # "sweep" => due' = {})
    BY <1>5 DEF StartSweep, tableVars
  <2>2. QED
    BY <2>1, SameHeld DEF SweepInUse, Expired
<1>6. ASSUME NEW i \in Slots, SweepSlot(i) PROVE SweepInUse'
  <2>1. due' = due \ {i} /\ (pc' # "sweep" => due' = {})
    BY <1>6 DEF SweepSlot
  <2>2. InUse' = InUse \ {i}
    BY <1>6, ReleaseHeld DEF SweepSlot, Lowest, SweepInUse
  <2>3. QED
    BY <2>1, <2>2 DEF SweepInUse
<1>7. ASSUME NEW q \in Queries, BlockQuery(q) \/ RejectQuery(q) PROVE SweepInUse'
  BY <1>1, <1>7, ReceiveType DEF BlockQuery, RejectQuery, Receive, tableVars
<1>8. ASSUME NEW m \in Message, DropReply(m) PROVE SweepInUse'
  BY <1>1, <1>8, TakeReplyType DEF DropReply, TakeReply, tableVars
<1>9. CASE Select \/ SkipSocket
  <2>1. UNCHANGED <<pending, due>> /\ pc # "sweep" /\ pc' # "sweep"
    BY <1>9 DEF Select, SkipSocket, After, Sockets, tableVars
  <2>2. QED
    BY <1>1, <2>1
<1>10. ASSUME NEW q \in Queries, ClientSends(q) PROVE SweepInUse'
  BY <1>2, <1>10 DEF ClientSends, taskVars, tableVars
<1>11. ASSUME NEW m \in Message, ReplyArrives(m) PROVE SweepInUse'
  BY <1>2, <1>11 DEF ReplyArrives, taskVars, tableVars
<1>12. CASE ApplyUpstreamConfig \/ Tick \/ UNCHANGED vars
  BY <1>2, <1>12 DEF ApplyUpstreamConfig, Tick, vars, taskVars, tableVars
<1> QED
  BY <1>3, <1>4, <1>5, <1>6, <1>7, <1>8, <1>9, <1>10, <1>11, <1>12 DEF Next, DnsTask

-----------------------------------------------------------------------------
(* Every step either leaves the answers alone or answers one query for the   *)
(* first time; it moves at most that query.                                  *)
LEMMA AccountedQuiet ==
  ASSUME QueryAccounted, UNCHANGED <<pending, answers>>,
         unsent' \cup listenq' = unsent \cup listenq, unsent' \cap listenq' = {}
  PROVE  QueryAccounted'
BY SameHeld DEF QueryAccounted

LEMMA AccountedReceive ==
  ASSUME TypeOK, QueryAccounted, NEW q \in Queries, Receive(q)
  PROVE  /\ unsent' = unsent /\ listenq' = listenq \ {q} /\ q \in listenq
         /\ q \notin unsent /\ q \notin Held /\ answers[q] = 0
BY DEF Receive, QueryAccounted

LEMMA AccountedStep == TypeOK /\ SweepInUse /\ QueryAccounted /\ [Next]_vars
                         => QueryAccounted'
<1> SUFFICES ASSUME TypeOK, SweepInUse, QueryAccounted, [Next]_vars
             PROVE  QueryAccounted'
  OBVIOUS
<1>1. ASSUME NEW q \in Queries, BlockQuery(q) \/ RejectQuery(q)
      PROVE  QueryAccounted'
  <2>1. /\ Receive(q) /\ UNCHANGED pending
        /\ answers' = [answers EXCEPT ![q] = @ + 1]
    BY <1>1 DEF BlockQuery, RejectQuery, Respond, tableVars
  <2>2. /\ unsent' = unsent /\ listenq' = listenq \ {q}
        /\ q \notin unsent /\ q \notin Held /\ answers[q] = 0
    BY <2>1, AccountedReceive
  <2>3. \A p \in Queries : answers'[p] = IF p = q THEN 1 ELSE answers[p]
    BY <2>1, <2>2 DEF TypeOK
  <2>4. Held' = Held /\ InUse' = InUse
    BY <2>1, SameHeld
  <2>5. \A p \in Queries :
          answers'[p] = IF p \in unsent' \cup listenq' \cup Held' THEN 0 ELSE 1
    BY <2>2, <2>3, <2>4 DEF QueryAccounted
  <2>6. QED
    BY <2>1, <2>2, <2>4, <2>5 DEF QueryAccounted
<1>2. ASSUME NEW q \in Queries, ForwardQuery(q) PROVE QueryAccounted'
  <2>1. PICK slot \in FreeSlots : pending' = [pending EXCEPT ![slot] = q]
    BY <1>2 DEF ForwardQuery, Lowest
  <2>2. /\ unsent' = unsent /\ listenq' = listenq \ {q} /\ q \in listenq
        /\ q \notin unsent /\ q \notin Held /\ answers[q] = 0
    BY <1>2, AccountedReceive DEF ForwardQuery
  <2>3. /\ InUse' = InUse \cup {slot}
        /\ Held' = Held \cup {q}
        /\ \A j \in InUse : pending'[j] = pending[j] /\ j # slot
        /\ pending'[slot] = q
    BY <2>1, FillHeld
  <2>4. answers' = answers
    BY <1>2 DEF ForwardQuery
  <2>5. \A i, j \in InUse' : pending'[i] = pending'[j] => i = j
    BY <2>2, <2>3 DEF QueryAccounted, Held
  <2>6. \A p \in Queries :
          answers'[p] = IF p \in unsent' \cup listenq' \cup Held' THEN 0 ELSE 1
    BY <2>2, <2>3, <2>4 DEF QueryAccounted
  <2>7. (unsent' \cup listenq') \cap Held' = {} /\ unsent' \cap listenq' = {}
    BY <2>2, <2>3 DEF QueryAccounted
  <2>8. QED
    BY <2>5, <2>6, <2>7 DEF QueryAccounted
<1>3. ASSUME NEW i \in InUse, Release(i),
             answers' = [answers EXCEPT ![pending[i]] = @ + 1],
             UNCHANGED <<unsent, listenq>>
      PROVE  QueryAccounted'
  <2>1. /\ pending[i] \in Held
        /\ InUse' = InUse \ {i}
        /\ Held' = Held \ {pending[i]}
        /\ \A j \in InUse' : pending'[j] = pending[j]
    BY <1>3, ReleaseHeld
  <2>2. pending[i] \in Queries
    BY DEF TypeOK, InUse
  <2>3. answers[pending[i]] = 0 /\ pending[i] \notin unsent \cup listenq
    BY <2>1, <2>2 DEF QueryAccounted
  <2>4. \A p \in Queries : answers'[p] = IF p = pending[i] THEN 1 ELSE answers[p]
    BY <1>3, <2>2, <2>3 DEF TypeOK
  <2>5. \A p \in Queries :
          answers'[p] = IF p \in unsent' \cup listenq' \cup Held' THEN 0 ELSE 1
    BY <1>3, <2>1, <2>2, <2>3, <2>4 DEF QueryAccounted
  <2>6. \A j, k \in InUse' : pending'[j] = pending'[k] => j = k
    BY <2>1 DEF QueryAccounted
  <2>7. (unsent' \cup listenq') \cap Held' = {} /\ unsent' \cap listenq' = {}
    BY <1>3, <2>1 DEF QueryAccounted
  <2>8. QED
    BY <2>5, <2>6, <2>7 DEF QueryAccounted
<1>4. ASSUME NEW m \in Message, RelayReply(m) PROVE QueryAccounted'
  BY <1>3, <1>4, TakeReplyType DEF RelayReply, Respond
<1>5. ASSUME NEW i \in Slots, SweepSlot(i) PROVE QueryAccounted'
  BY <1>3, <1>5 DEF SweepSlot, Respond, Lowest, SweepInUse
<1>6. ASSUME NEW q \in Queries, ClientSends(q) PROVE QueryAccounted'
  <2>1. /\ unsent' \cup listenq' = unsent \cup listenq
        /\ unsent' \cap listenq' = {}
    BY <1>6 DEF ClientSends, QueryAccounted
  <2>2. QED
    BY <1>6, <2>1, AccountedQuiet DEF ClientSends, tableVars
<1>7. ASSUME UNCHANGED <<pending, answers, unsent, listenq>> PROVE QueryAccounted'
  BY <1>7, AccountedQuiet DEF QueryAccounted
<1>8. ASSUME NEW m \in Message, DropReply(m) \/ ReplyArrives(m) PROVE QueryAccounted'
  BY <1>7, <1>8, TakeReplyType DEF DropReply, ReplyArrives, clientVars, tableVars
<1>9. CASE Select \/ SkipSocket \/ StartSweep
  BY <1>7, <1>9 DEF Select, SkipSocket, StartSweep, clientVars, tableVars
<1>10. CASE ApplyUpstreamConfig \/ Tick \/ UNCHANGED vars
  BY <1>7, <1>10 DEF ApplyUpstreamConfig, Tick, vars, clientVars, tableVars
<1> QED
  BY <1>1, <1>2, <1>4, <1>5, <1>6, <1>8, <1>9, <1>10 DEF Next, DnsTask

-----------------------------------------------------------------------------
(* The answers of a query only become more.                                  *)
LEMMA RespondGrows ==
  ASSUME TypeOK, NEW q \in Queries, NEW r, Respond(q, r)
  PROVE  /\ \A p \in Queries : answers[p] > 0 => answers'[p] > 0
         /\ answers'[q] > 0
         /\ \A p \in Queries : reply'[p] = IF p = q THEN r ELSE reply[p]
BY DEF TypeOK, Respond

LEMMA AnswersGrow ==
  ASSUME TypeOK, SweepInUse, [Next]_vars
  PROVE  \A p \in Queries : answers[p] > 0 => answers'[p] > 0
<1>1. ASSUME NEW q \in Queries, BlockQuery(q) \/ RejectQuery(q) \/ ForwardQuery(q)
      PROVE  \A p \in Queries : answers[p] > 0 => answers'[p] > 0
  BY <1>1, RespondGrows DEF BlockQuery, RejectQuery, ForwardQuery
<1>2. ASSUME NEW m \in Message, RelayReply(m) \/ DropReply(m)
      PROVE  \A p \in Queries : answers[p] > 0 => answers'[p] > 0
  <2>1. m.txid \in InUse => pending[m.txid] \in Queries
    BY DEF InUse, TypeOK
  <2>2. QED
    BY <1>2, <2>1, RespondGrows DEF RelayReply, DropReply
<1>3. ASSUME NEW i \in Slots, SweepSlot(i)
      PROVE  \A p \in Queries : answers[p] > 0 => answers'[p] > 0
  <2>1. pending[i] \in Queries
    BY <1>3 DEF SweepSlot, Lowest, SweepInUse, InUse, TypeOK
  <2>2. QED
    BY <1>3, <2>1, RespondGrows DEF SweepSlot
<1>4. ASSUME UNCHANGED answers
      PROVE  \A p \in Queries : answers[p] > 0 => answers'[p] > 0
  BY <1>4
<1>5. ASSUME NEW q \in Queries, ClientSends(q) PROVE UNCHANGED answers
  BY <1>5 DEF ClientSends
<1>6. ASSUME NEW m \in Message, ReplyArrives(m) PROVE UNCHANGED answers
  BY <1>6 DEF ReplyArrives, clientVars
<1>7. ASSUME Select \/ SkipSocket \/ StartSweep \/ ApplyUpstreamConfig \/ Tick
             \/ UNCHANGED vars
      PROVE  UNCHANGED answers
  BY <1>7 DEF Select, SkipSocket, StartSweep, ApplyUpstreamConfig, Tick, vars, clientVars
<1> QED
  BY <1>1, <1>2, <1>3, <1>4, <1>5, <1>6, <1>7 DEF Next, DnsTask

(* A message that can still arrive names the slot its query is in, unless    *)
(* that query has been answered.  A slot is only filled when it is free, and *)
(* what leaves a slot is answered in the same step.                          *)
LEMMA RepliesStep ==
  TypeOK /\ SweepInUse /\ QueryAccounted /\ RepliesKnown /\ [Next]_vars => RepliesKnown'
<1> SUFFICES ASSUME TypeOK, SweepInUse, QueryAccounted, RepliesKnown, [Next]_vars
             PROVE  RepliesKnown'
  OBVIOUS
<1>0. \A m \in wire \cup rxbuf : m \in Message /\ m.query \in Queries /\ m.txid \in Slots
  BY DEF TypeOK, Message
<1>1. ASSUME UNCHANGED pending, wire' \cup rxbuf' \subseteq wire \cup rxbuf
      PROVE  RepliesKnown'
  BY <1>0, <1>1, AnswersGrow DEF RepliesKnown
<1>2. ASSUME NEW i \in InUse, NEW r, Release(i), Respond(pending[i], r),
             wire' \cup rxbuf' \subseteq wire \cup rxbuf
      PROVE  RepliesKnown'
  <2>1. i \in Slots /\ pending[i] \in Queries
    BY DEF InUse, TypeOK
  <2>2. answers'[pending[i]] > 0
    BY <1>2, <2>1, RespondGrows
  <2>3. \A j \in Slots : j # i => pending'[j] = pending[j]
    BY <1>2 DEF Release, TypeOK
  <2>4. ASSUME NEW m \in wire \cup rxbuf
        PROVE  pending'[m.txid] = m.query \/ answers'[m.query] > 0
    <3>1. CASE answers[m.query] > 0
      BY <1>0, <3>1, AnswersGrow
    <3>2. CASE pending[m.txid] = m.query
      BY <1>0, <2>2, <2>3, <3>2
    <3>3. QED
      BY <3>1, <3>2 DEF RepliesKnown
  <2>5. QED
    BY <1>2, <2>4 DEF RepliesKnown
<1>3. ASSUME NEW q \in Queries, ForwardQuery(q) PROVE RepliesKnown'
  <2>1. PICK slot \in Slots :
          /\ Lowest(slot, FreeSlots)
          /\ pending' = [pending EXCEPT ![slot] = q]
          /\ wire' = IF s_upstream_sock = "open"
                       THEN wire \cup {[txid |-> slot, query |-> q]}
                       ELSE wire
    BY <1>3 DEF ForwardQuery
  <2>2. pending[slot] = None /\ rxbuf' = rxbuf /\ answers' = answers
    BY <1>3, <2>1 DEF ForwardQuery, Lowest, FreeSlots, InUse
  <2>3. \A j \in Slots : pending'[j] = IF j = slot THEN q ELSE pending[j]
    BY <2>1 DEF TypeOK
  <2>4. ASSUME NEW m \in wire' \cup rxbuf'
        PROVE  pending'[m.txid] = m.query \/ answers'[m.query] > 0
    <3>1. CASE m = [txid |-> slot, query |-> q]
      BY <2>3, <3>1
    <3>2. CASE m \in wire \cup rxbuf
      <4>1. m.query # None
        BY <1>0, <3>2
      <4>2. QED
        BY <1>0, <2>2, <2>3, <3>2, <4>1 DEF RepliesKnown
    <3>3. QED
      BY <2>1, <2>2, <3>1, <3>2
  <2>5. QED
    BY <2>4 DEF RepliesKnown
<1>4. ASSUME NEW m \in Message, RelayReply(m) PROVE RepliesKnown'
  <2>1. /\ m.txid \in InUse /\ Release(m.txid)
        /\ Respond(pending[m.txid], m.query)
        /\ wire' \cup rxbuf' \subseteq wire \cup rxbuf
    BY <1>4 DEF RelayReply, TakeReply
  <2>2. QED
    BY <1>2, <2>1
<1>5. ASSUME NEW i \in Slots, SweepSlot(i) PROVE RepliesKnown'
  <2>1. wire' \cup rxbuf' \subseteq wire \cup rxbuf
    BY <1>5 DEF SweepSlot, CountTimeout, FailOver, Reconnect
  <2>2. QED
    BY <1>2, <1>5, <2>1 DEF SweepSlot, Lowest, SweepInUse
<1>6. ASSUME NEW m \in Message, DropReply(m) \/ ReplyArrives(m) PROVE RepliesKnown'
  <2>1. UNCHANGED pending /\ wire' \cup rxbuf' \subseteq wire \cup rxbuf
    BY <1>6, TakeReplyType DEF DropReply, TakeReply, ReplyArrives, tableVars
  <2>2. QED
    BY <1>1, <2>1
<1>7. ASSUME NEW q \in Queries, BlockQuery(q) \/ RejectQuery(q) \/ ClientSends(q)
      PROVE  RepliesKnown'
  BY <1>1, <1>7 DEF BlockQuery, RejectQuery, ClientSends, upstreamVars, tableVars
<1>8. CASE Select \/ SkipSocket \/ StartSweep \/ Tick \/ UNCHANGED vars
  BY <1>1, <1>8 DEF Select, SkipSocket, StartSweep, Tick, vars, upstreamVars, tableVars
<1>9. CASE ApplyUpstreamConfig
  BY <1>1, <1>9 DEF ApplyUpstreamConfig, Reconnect, tableVars
<1> QED
  BY <1>3, <1>4, <1>5, <1>6, <1>7, <1>8, <1>9 DEF Next, DnsTask

(* What a client is relayed comes from a message that can arrive, so it is    *)
(* about its own query or about one that RepliesKnown says is answered.       *)
LEMMA StrangeStep ==
  TypeOK /\ SweepInUse /\ RepliesKnown /\ StrangeAnswerIsLate /\ [Next]_vars
    => StrangeAnswerIsLate'
<1> SUFFICES ASSUME TypeOK, SweepInUse, RepliesKnown, StrangeAnswerIsLate, [Next]_vars
             PROVE  StrangeAnswerIsLate'
  OBVIOUS
<1>1. ASSUME UNCHANGED reply PROVE StrangeAnswerIsLate'
  BY <1>1, AnswersGrow DEF StrangeAnswerIsLate
<1>2. ASSUME NEW q \in Queries, NEW r, Respond(q, r),
             r \in Queries \ {q} => answers[r] > 0
      PROVE  StrangeAnswerIsLate'
  BY <1>2, AnswersGrow, RespondGrows DEF StrangeAnswerIsLate
<1>3. ASSUME NEW q \in Queries, BlockQuery(q) \/ RejectQuery(q)
      PROVE  StrangeAnswerIsLate'
  BY <1>2, <1>3 DEF BlockQuery, RejectQuery
<1>4. ASSUME NEW m \in Message, RelayReply(m) PROVE StrangeAnswerIsLate'
  <2>1. /\ m \in rxbuf
        /\ pending[m.txid] \in Queries
        /\ Respond(pending[m.txid], m.query)
    BY <1>4, TakeReplyType DEF RelayReply, TakeReply, InUse, TypeOK
  <2>2. m.query # pending[m.txid] => answers[m.query] > 0
    BY <2>1 DEF RepliesKnown
  <2>3. QED
    BY <1>2, <2>1, <2>2
<1>5. ASSUME NEW i \in Slots, SweepSlot(i) PROVE StrangeAnswerIsLate'
  <2>1. pending[i] \in Queries /\ Respond(pending[i], Local)
    BY <1>5 DEF SweepSlot, Lowest, SweepInUse, InUse, TypeOK
  <2>2. QED
    BY <1>2, <2>1
<1>6. ASSUME NEW q \in Queries, ForwardQuery(q) \/ ClientSends(q)
      PROVE  StrangeAnswerIsLate'
  BY <1>1, <1>6 DEF ForwardQuery, ClientSends
<1>7. ASSUME NEW m \in Message, DropReply(m) \/ ReplyArrives(m)
      PROVE  StrangeAnswerIsLate'
  BY <1>1, <1>7 DEF DropReply, ReplyArrives, clientVars
<1>8. CASE Select \/ SkipSocket \/ StartSweep \/ ApplyUpstreamConfig \/ Tick
           \/ UNCHANGED vars
  BY <1>1, <1>8 DEF Select, SkipSocket, StartSweep, ApplyUpstreamConfig, Tick, vars,
                    clientVars
<1> QED
  BY <1>3, <1>4, <1>5, <1>6, <1>7, <1>8 DEF Next, DnsTask

-----------------------------------------------------------------------------
(* The inductive invariant holds in every reachable state: the slots a sweep  *)
(* has collected stay in use, and every reply that can arrive is accounted    *)
(* for, across relays, sweeps, fail-overs and changes of the configuration.   *)
THEOREM Invariance == Spec => []IInv
<1>1. Init => IInv
  BY TypeInit DEF Init, IInv, QueryAccounted, SweepInUse, RepliesKnown,
                  StrangeAnswerIsLate, InUse, Held
<1>2. IInv /\ [Next]_vars => IInv'
  BY TypeStep, SweepStep, AccountedStep, RepliesStep, StrangeStep DEF IInv
<1>3. QED
  BY <1>1, <1>2, PTL DEF Spec

(* Every variable of the loop keeps its type; in particular the fail-over     *)
(* counter of fail_over_upstream stays below the threshold between steps.     *)
THEOREM TypeCorrect == Spec => []TypeOK
<1>1. IInv => TypeOK
  BY DEF IInv
<1>2. QED
  BY <1>1, Invariance, PTL

(* Every query handle_client_datagram takes is held in exactly one slot or    *)
(* has been answered exactly once, for every size of the pending table.       *)
THEOREM Accounting == Spec => []QueryAccounted
<1>1. IInv => QueryAccounted
  BY DEF IInv
<1>2. QED
  BY <1>1, Invariance, PTL

(* A client that is relayed the answer to another query (handle_upstream_      *)
(* datagram matches by slot index only) gets that of an answered one.         *)
THEOREM LateRepliesOnly == Spec => []StrangeAnswerIsLate
<1>1. IInv => StrangeAnswerIsLate
  BY DEF IInv
<1>2. QED
  BY <1>1, Invariance, PTL

-----------------------------------------------------------------------------
(* The simulation.  A response of the proxy to q is DnsService's answer to q. *)
LEMMA RespondIsAnswer ==
  ASSUME TypeOK, QueryAccounted, NEW q \in Queries, NEW r, Respond(q, r),
         q \notin unsent, answers[q] = 0, UNCHANGED unsent,
         r = Local \/ r = q \/ (r \in Queries /\ answers[r] > 0)
  PROVE  Service!Next
<1>1. answers' = [answers EXCEPT ![q] = 1]
  <2>1. answers' = [answers EXCEPT ![q] = answers[q] + 1]
    BY DEF Respond
  <2>2. QED
    BY <2>1
<1>2. r \in Queries /\ answers[r] > 0 => r \in Queries \ unsent
  BY DEF QueryAccounted
<1>3. r \in {Local, q} \cup {p \in Queries \ unsent : answers[p] > 0}
  BY <1>2
<1>4. reply' = [reply EXCEPT ![q] = r] /\ UNCHANGED (Queries \ unsent)
  BY DEF Respond
<1>5. Service!Answer(q)
  BY <1>1, <1>3, <1>4 DEF Service!Answer, Service!Local, Local
<1>6. QED
  BY <1>5 DEF Service!Next

LEMMA StepSimulation ==
  IInv /\ [Next]_vars => [Service!Next]_(Service!vars)
<1> SUFFICES ASSUME IInv, [Next]_vars PROVE [Service!Next]_(Service!vars)
  OBVIOUS
<1>0. TypeOK /\ QueryAccounted /\ SweepInUse /\ RepliesKnown
  BY DEF IInv
<1>1. ASSUME UNCHANGED <<unsent, answers, reply>> PROVE UNCHANGED Service!vars
  BY <1>1 DEF Service!vars
<1>2. ASSUME NEW q \in Queries, BlockQuery(q) \/ RejectQuery(q) PROVE Service!Next
  <2>1. Receive(q) /\ Respond(q, Local)
    BY <1>2 DEF BlockQuery, RejectQuery
  <2>2. q \notin unsent /\ answers[q] = 0 /\ UNCHANGED unsent
    BY <1>0, <2>1, AccountedReceive
  <2>3. QED
    BY <1>0, <2>1, <2>2, RespondIsAnswer
<1>3. \A i \in InUse : pending[i] \in Queries \ unsent /\ answers[pending[i]] = 0
  BY <1>0 DEF InUse, TypeOK, QueryAccounted, Held
<1>4. ASSUME NEW m \in Message, RelayReply(m) PROVE Service!Next
  <2>1. /\ m \in rxbuf /\ m.txid \in InUse /\ UNCHANGED unsent
        /\ Respond(pending[m.txid], m.query)
    BY <1>4 DEF RelayReply, TakeReply
  <2>2. m.query = pending[m.txid] \/ (m.query \in Queries /\ answers[m.query] > 0)
    BY <1>0, <2>1 DEF RepliesKnown, Message
  <2>3. QED
    BY <1>0, <1>3, <2>1, <2>2, RespondIsAnswer
<1>5. ASSUME NEW i \in Slots, SweepSlot(i) PROVE Service!Next
  <2>1. i \in InUse /\ UNCHANGED unsent /\ Respond(pending[i], Local)
    BY <1>0, <1>5 DEF SweepSlot, Lowest, SweepInUse
  <2>2. QED
    BY <1>0, <1>3, <2>1, RespondIsAnswer
<1>6. ASSUME NEW q \in Queries, ClientSends(q) PROVE Service!Next
  <2>1. Service!Ask(q)
    BY <1>0, <1>6 DEF ClientSends, Service!Ask, TypeOK
  <2>2. QED
    BY <2>1 DEF Service!Next
<1>7. ASSUME NEW q \in Queries, ForwardQuery(q) PROVE UNCHANGED Service!vars
  BY <1>1, <1>7 DEF ForwardQuery, Receive
<1>8. ASSUME NEW m \in Message, DropReply(m) \/ ReplyArrives(m)
      PROVE  UNCHANGED Service!vars
  BY <1>1, <1>8 DEF DropReply, TakeReply, ReplyArrives, clientVars
<1>9. ASSUME Select \/ SkipSocket \/ StartSweep \/ ApplyUpstreamConfig \/ Tick
             \/ UNCHANGED vars
      PROVE  UNCHANGED Service!vars
  BY <1>1, <1>9 DEF Select, SkipSocket, StartSweep, ApplyUpstreamConfig, Tick, vars,
                    clientVars
<1> QED
  BY <1>2, <1>4, <1>5, <1>6, <1>7, <1>8, <1>9 DEF Next, DnsTask

(* dns_proxy_task, with the table, the sweep, the fail-over and a change of   *)
(* the configuration at any moment, does nothing DnsService does not allow.   *)
THEOREM ImplementsService == Spec => Service!SafeSpec
<1>1. Init => Service!Init
  BY DEF Init, Service!Init, Service!None, None
<1>2. QED
  BY <1>1, StepSimulation, Invariance, PTL DEF Spec, Service!SafeSpec
-----------------------------------------------------------------------------
(* The counters, for every finite set of queries.  The four counters are    *)
(* incremented in handle_client_datagram and sweep_timeouts, at different   *)
(* moments of a query's life, and the relay of an answer increments none of *)
(* them: StatsAddUp relates the counters to the table and the answers.      *)

(* The queries the loop has received. *)
Received == {q \in Queries : q \notin unsent \cup listenq}

(* A query nobody has answered has no source of an answer yet: it cannot be *)
(* among the relayed ones while a slot still holds it.                       *)
NoReplyYet == \A q \in Queries : answers[q] = 0 => reply[q] = None

CountInv == NoReplyYet /\ StatsAddUp

-----------------------------------------------------------------------------
LEMMA FiniteParts ==
  /\ IsFiniteSet(InUse) /\ Cardinality(InUse) \in Nat
  /\ IsFiniteSet(Relayed) /\ Cardinality(Relayed) \in Nat
  /\ IsFiniteSet(Received) /\ Cardinality(Received) \in Nat
<1>1. IsFiniteSet(Slots)
  BY FS_Interval DEF Slots
<1>2. InUse \in SUBSET Slots
  BY DEF InUse
<1>3. Relayed \in SUBSET Queries /\ Received \in SUBSET Queries
  BY DEF Relayed, Received
<1>4. IsFiniteSet(InUse)
  BY <1>1, <1>2, FS_Subset
<1>5. IsFiniteSet(Relayed) /\ IsFiniteSet(Received)
  BY <1>3, QueriesFinite, FS_Subset
<1> QED
  BY <1>4, <1>5, FS_CardinalityType

(* What a response does to the set of relayed queries. *)
LEMMA RespondRelayed ==
  ASSUME TypeOK, NoReplyYet, NEW q \in Queries, answers[q] = 0,
         NEW r \in Queries \cup {Local}, Respond(q, r)
  PROVE  /\ NoReplyYet'
         /\ q \notin Relayed
         /\ Relayed' = IF r = Local THEN Relayed ELSE Relayed \cup {q}
<1>1. \A p \in Queries :
        /\ answers'[p] = IF p = q THEN 1 ELSE answers[p]
        /\ reply'[p] = IF p = q THEN r ELSE reply[p]
  BY DEF Respond, TypeOK
<1>2. reply[q] = None /\ None \notin Queries /\ Local \notin Queries
  BY DEF NoReplyYet
<1>3. NoReplyYet'
  BY <1>1 DEF NoReplyYet
<1>4. q \notin Relayed
  BY <1>2 DEF Relayed
<1>5. Relayed' = IF r = Local THEN Relayed ELSE Relayed \cup {q}
  <2>1. CASE r = Local
    BY <1>1, <1>2, <2>1 DEF Relayed
  <2>2. CASE r # Local
    BY <1>1, <1>2, <2>2 DEF Relayed
  <2> QED
    BY <2>1, <2>2
<1> QED
  BY <1>3, <1>4, <1>5

(* Taking a datagram from a listening socket receives one query more. *)
LEMMA ReceiveCounts ==
  ASSUME TypeOK, QueryAccounted, NEW q \in Queries, Receive(q)
  PROVE  Cardinality(Received') = Cardinality(Received) + 1
<1>1. Received' = Received \cup {q} /\ q \notin Received
  BY AccountedReceive DEF Received
<1> QED
  BY <1>1, FiniteParts, FS_AddElement

LEMMA CountOne ==
  ASSUME TypeOK, NEW C, s_stats' = Count(C), NEW c \in Counters
  PROVE  /\ s_stats[c] \in Nat
         /\ s_stats'[c] = IF c \in C THEN s_stats[c] + 1 ELSE s_stats[c]
BY DEF Count, TypeOK

-----------------------------------------------------------------------------
LEMMA CountQuiet ==
  ASSUME CountInv, UNCHANGED <<s_stats, pending, answers, reply>>,
         unsent' \cup listenq' = unsent \cup listenq
  PROVE  CountInv'
<1>1. InUse' = InUse
  BY DEF InUse
<1>2. Relayed' = Relayed
  BY DEF Relayed
<1>3. NoReplyYet'
  BY DEF NoReplyYet, CountInv
<1>4. StatsAddUp'
  BY <1>1, <1>2 DEF StatsAddUp, CountInv
<1> QED
  BY <1>3, <1>4 DEF CountInv

LEMMA CountLocal ==
  ASSUME TypeOK, QueryAccounted, CountInv, NEW q \in Queries,
         BlockQuery(q) \/ RejectQuery(q)
  PROVE  CountInv'
<1>1. Receive(q) /\ Respond(q, Local) /\ UNCHANGED pending
  BY DEF BlockQuery, RejectQuery, tableVars
<1>2. answers[q] = 0
  BY <1>1, AccountedReceive
<1>3. NoReplyYet' /\ Relayed' = Relayed
  BY <1>1, <1>2, RespondRelayed DEF CountInv
<1>4. InUse' = InUse
  BY <1>1 DEF InUse
<1>5. Cardinality(Received') = Cardinality(Received) + 1
  BY <1>1, ReceiveCounts
<1>6. /\ s_stats'["total"] = s_stats["total"] + 1
      /\ s_stats'["blocked"] + s_stats'["servfail"]
           = s_stats["blocked"] + s_stats["servfail"] + 1
      /\ \A c \in Counters : s_stats[c] \in Nat
  <2>1. CASE BlockQuery(q)
    BY <2>1, CountOne DEF BlockQuery, Counters
  <2>2. CASE RejectQuery(q)
    BY <2>2, CountOne DEF RejectQuery, Counters
  <2> QED
    BY <2>1, <2>2
<1>7. StatsAddUp'
  <2>1. /\ s_stats["total"] = s_stats["blocked"] + s_stats["servfail"]
                               + Cardinality(Relayed) + Cardinality(InUse)
        /\ s_stats["total"] = Cardinality(Received)
    BY DEF CountInv, StatsAddUp, Received
  <2>2. s_stats'["total"] = s_stats'["blocked"] + s_stats'["servfail"]
                               + Cardinality(Relayed') + Cardinality(InUse')
    <3>1. /\ s_stats'["blocked"] \in Nat /\ s_stats'["servfail"] \in Nat
      BY CountOne DEF BlockQuery, RejectQuery, Counters
    <3> QED
      BY <1>3, <1>4, <1>6, <2>1, <3>1, FiniteParts DEF Counters
  <2>3. s_stats'["total"] = Cardinality(Received')
    BY <1>5, <1>6, <2>1
  <2> QED
    BY <2>2, <2>3 DEF StatsAddUp, Received
<1> QED
  BY <1>3, <1>7 DEF CountInv

LEMMA CountForward ==
  ASSUME TypeOK, QueryAccounted, CountInv, NEW q \in Queries, ForwardQuery(q)
  PROVE  CountInv'
<1>1. PICK slot \in FreeSlots : pending' = [pending EXCEPT ![slot] = q]
  BY DEF ForwardQuery, Lowest
<1>2. InUse' = InUse \cup {slot} /\ slot \notin InUse
  BY <1>1, FillHeld DEF FreeSlots
<1>3. Cardinality(InUse') = Cardinality(InUse) + 1
  BY <1>2, FiniteParts, FS_AddElement
<1>4. NoReplyYet' /\ Relayed' = Relayed
  BY DEF ForwardQuery, NoReplyYet, CountInv, Relayed
<1>5. Cardinality(Received') = Cardinality(Received) + 1
  BY ReceiveCounts DEF ForwardQuery
<1>6. /\ s_stats'["total"] = s_stats["total"] + 1
      /\ s_stats'["blocked"] = s_stats["blocked"]
      /\ s_stats'["servfail"] = s_stats["servfail"]
      /\ \A c \in Counters : s_stats[c] \in Nat
  BY CountOne DEF ForwardQuery, Counters
<1>7. /\ s_stats["total"] = s_stats["blocked"] + s_stats["servfail"]
                             + Cardinality(Relayed) + Cardinality(InUse)
      /\ s_stats["total"] = Cardinality(Received)
  BY DEF CountInv, StatsAddUp, Received
<1>8. StatsAddUp'
  <2>1. s_stats'["total"] = s_stats'["blocked"] + s_stats'["servfail"]
                             + Cardinality(Relayed') + Cardinality(InUse')
    BY <1>3, <1>4, <1>6, <1>7, FiniteParts DEF Counters
  <2> QED
    BY <1>5, <1>6, <1>7, <2>1 DEF StatsAddUp, Received
<1> QED
  BY <1>4, <1>8 DEF CountInv

(* A slot that is released with a response to the query it held. *)
LEMMA ReleaseCounts ==
  ASSUME TypeOK, QueryAccounted, CountInv, NEW i \in InUse, Release(i),
         NEW r \in Queries \cup {Local}, Respond(pending[i], r),
         UNCHANGED <<unsent, listenq>>
  PROVE  /\ NoReplyYet'
         /\ Cardinality(InUse') = Cardinality(InUse) - 1
         /\ Cardinality(Relayed') = Cardinality(Relayed) + (IF r = Local THEN 0 ELSE 1)
         /\ Received' = Received
<1>1. pending[i] \in Queries /\ pending[i] \in Held
  BY ReleaseHeld DEF InUse, TypeOK
<1>2. answers[pending[i]] = 0
  BY <1>1 DEF QueryAccounted
<1>3. /\ NoReplyYet' /\ pending[i] \notin Relayed
      /\ Relayed' = IF r = Local THEN Relayed ELSE Relayed \cup {pending[i]}
  BY <1>1, <1>2, RespondRelayed DEF CountInv
<1>4. Cardinality(Relayed') = Cardinality(Relayed) + (IF r = Local THEN 0 ELSE 1)
  <2>1. CASE r = Local
    BY <1>3, <2>1, FiniteParts
  <2>2. CASE r # Local
    <3>1. Relayed' = Relayed \cup {pending[i]}
      BY <1>3, <2>2
    <3>2. Cardinality(Relayed \cup {pending[i]}) = Cardinality(Relayed) + 1
      BY <1>3, FiniteParts, FS_AddElement
    <3> QED
      BY <2>2, <3>1, <3>2
  <2> QED
    BY <2>1, <2>2
<1>5. Cardinality(InUse') = Cardinality(InUse) - 1
  BY ReleaseHeld, FiniteParts, FS_RemoveElement
<1> QED
  BY <1>3, <1>4, <1>5 DEF Received

LEMMA CountRelay ==
  ASSUME TypeOK, QueryAccounted, CountInv, NEW m \in Message, RelayReply(m)
  PROVE  CountInv'
<1>1. /\ m.txid \in InUse /\ Release(m.txid) /\ m.query \in Queries
      /\ Respond(pending[m.txid], m.query)
      /\ UNCHANGED <<unsent, listenq, s_stats>>
  BY TakeReplyType DEF RelayReply
<1>2. m.query # Local
  BY <1>1
<1>3. /\ NoReplyYet'
      /\ Cardinality(InUse') = Cardinality(InUse) - 1
      /\ Cardinality(Relayed') = Cardinality(Relayed) + 1
      /\ Received' = Received
  BY <1>1, <1>2, ReleaseCounts
<1>4. /\ s_stats["total"] = s_stats["blocked"] + s_stats["servfail"]
                             + Cardinality(Relayed) + Cardinality(InUse)
      /\ s_stats["total"] = Cardinality(Received)
      /\ \A c \in Counters : s_stats[c] \in Nat
  BY DEF CountInv, StatsAddUp, Received, TypeOK
<1>5. s_stats["total"] = s_stats["blocked"] + s_stats["servfail"]
                             + Cardinality(Relayed') + Cardinality(InUse')
  BY <1>3, <1>4, FiniteParts DEF Counters
<1> QED
  BY <1>1, <1>3, <1>4, <1>5 DEF CountInv, StatsAddUp, Received

LEMMA CountSweep ==
  ASSUME TypeOK, QueryAccounted, SweepInUse, CountInv, NEW i \in Slots, SweepSlot(i)
  PROVE  CountInv'
<1>1. /\ i \in InUse /\ Release(i) /\ Respond(pending[i], Local)
      /\ UNCHANGED <<unsent, listenq>> /\ s_stats' = Count({"servfail"})
  BY DEF SweepSlot, Lowest, SweepInUse
<1>2. /\ NoReplyYet'
      /\ Cardinality(InUse') = Cardinality(InUse) - 1
      /\ Cardinality(Relayed') = Cardinality(Relayed)
      /\ Received' = Received
  <2>1. /\ NoReplyYet'
        /\ Cardinality(InUse') = Cardinality(InUse) - 1
        /\ Cardinality(Relayed') = Cardinality(Relayed) + 0
        /\ Received' = Received
    BY <1>1, ReleaseCounts
  <2> QED
    BY <2>1, FiniteParts
<1>3. /\ s_stats'["total"] = s_stats["total"]
      /\ s_stats'["blocked"] = s_stats["blocked"]
      /\ s_stats'["servfail"] = s_stats["servfail"] + 1
      /\ \A c \in Counters : s_stats[c] \in Nat
  BY <1>1, CountOne DEF Counters
<1>4. /\ s_stats["total"] = s_stats["blocked"] + s_stats["servfail"]
                             + Cardinality(Relayed) + Cardinality(InUse)
      /\ s_stats["total"] = Cardinality(Received)
  BY DEF CountInv, StatsAddUp, Received
<1>5. s_stats'["total"] = s_stats'["blocked"] + s_stats'["servfail"]
                             + Cardinality(Relayed') + Cardinality(InUse')
  BY <1>2, <1>3, <1>4, FiniteParts DEF Counters
<1> QED
  BY <1>2, <1>3, <1>4, <1>5 DEF CountInv, StatsAddUp, Received

LEMMA CountStep == IInv /\ CountInv /\ [Next]_vars => CountInv'
<1> SUFFICES ASSUME IInv, CountInv, [Next]_vars PROVE CountInv'
  OBVIOUS
<1>0. TypeOK /\ QueryAccounted /\ SweepInUse
  BY DEF IInv
<1>1. ASSUME NEW q \in Queries, BlockQuery(q) \/ RejectQuery(q) PROVE CountInv'
  BY <1>0, <1>1, CountLocal
<1>2. ASSUME NEW q \in Queries, ForwardQuery(q) PROVE CountInv'
  BY <1>0, <1>2, CountForward
<1>3. ASSUME NEW m \in Message, RelayReply(m) PROVE CountInv'
  BY <1>0, <1>3, CountRelay
<1>4. ASSUME NEW i \in Slots, SweepSlot(i) PROVE CountInv'
  BY <1>0, <1>4, CountSweep
<1>5. ASSUME NEW q \in Queries, ClientSends(q) PROVE CountInv'
  BY <1>5, CountQuiet DEF ClientSends, tableVars
<1>6. ASSUME NEW m \in Message, DropReply(m) \/ ReplyArrives(m) PROVE CountInv'
  BY <1>6, CountQuiet DEF DropReply, TakeReply, ReplyArrives, tableVars, clientVars
<1>7. CASE Select \/ SkipSocket \/ StartSweep \/ ApplyUpstreamConfig \/ Tick
           \/ UNCHANGED vars
  BY <1>7, CountQuiet DEF Select, SkipSocket, StartSweep, ApplyUpstreamConfig, Tick,
                          vars, tableVars, clientVars
<1> QED
  BY <1>1, <1>2, <1>3, <1>4, <1>5, <1>6, <1>7 DEF Next, DnsTask

LEMMA CountInit == Init => CountInv
<1> SUFFICES ASSUME Init PROVE CountInv
  OBVIOUS
<1>1. NoReplyYet
  BY DEF Init, NoReplyYet
<1>2. InUse = {} /\ Relayed = {} /\ {q \in Queries : q \notin unsent \cup listenq} = {}
  BY DEF Init, InUse, Relayed
<1>3. \A c \in Counters : s_stats[c] = 0
  BY DEF Init
<1>4. StatsAddUp
  BY <1>2, <1>3, FS_EmptySet DEF StatsAddUp, Counters
<1> QED
  BY <1>1, <1>4 DEF CountInv

(* The counters of handle_client_datagram and sweep_timeouts add              *)
(* up with the relayed answers and the pending table in every state, however   *)
(* relays, time-outs, fail-overs and configuration changes interleave.        *)
THEOREM CountersAddUp == Spec => []StatsAddUp
<1>1. CountInv => StatsAddUp
  BY DEF CountInv
<1>2. QED
  BY <1>1, CountInit, CountStep, Invariance, PTL DEF Spec
=============================================================================
