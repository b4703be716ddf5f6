--------------------------- MODULE SettingsProofs ---------------------------
(***************************************************************************)
(* Settings, for every set of requests, values and descriptors.            *)
(***************************************************************************)
EXTENDS Settings, TLAPS

(* The keys and the requests. *)
LEMMA KeyFacts ==
  /\ Len(Keys) = 9 /\ DOMAIN Keys = 1 .. 9
  /\ {"upstream1", "upstream2", "net_mode", "static_ip"} \subseteq KeySet
  /\ \A i \in 1 .. 9 : Keys[i] \in KeySet
  <1>1. Len(Keys) = 9 /\ DOMAIN Keys = 1 .. 9
    BY DEF Keys
  <1>2. \A i \in 1 .. 9 : Keys[i] \in KeySet
    BY <1>1 DEF KeySet
  <1>3. Keys[1] = "upstream1" /\ Keys[2] = "upstream2" /\ Keys[8] = "net_mode"
        /\ Keys[9] = "static_ip"
    BY DEF Keys
  <1>4. {1, 2, 8, 9} \subseteq 1 .. 9
    OBVIOUS
  <1> QED BY <1>1, <1>2, <1>3, <1>4

LEMMA BodyFacts ==
  \A b \in Bodies \cup {<<>>} : DOMAIN b \subseteq KeySet /\ b \in [DOMAIN b -> Values]
  <1>1. DOMAIN <<>> = {} /\ <<>> \in [{} -> Values]
    OBVIOUS
  <1> QED BY <1>1, SettingsAssumption

(* A finite set of keys has a first one. *)
LEMMA FirstOf ==
  ASSUME NEW S, S \subseteq 1 .. 10, S # {}
  PROVE  Min(S) \in S
  <1> DEFINE Least(x) == \A y \in S : x <= y
  <1>1. \E x \in S : Least(x)
    <2> SUFFICES ASSUME \A x \in S : \E y \in S : y < x PROVE FALSE
      OBVIOUS
    <2>1. S \cap {1, 2, 3} = {}
      <3>1. 1 \notin S
        OBVIOUS
      <3>2. 2 \notin S
        BY <3>1
      <3> QED BY <3>1, <3>2
    <2>2. S \cap {4, 5, 6} = {}
      <3>1. 4 \notin S
        BY <2>1
      <3>2. 5 \notin S
        BY <2>1, <3>1
      <3> QED BY <2>1, <3>1, <3>2
    <2>3. S \cap {7, 8, 9, 10} = {}
      <3>1. 7 \notin S
        BY <2>1, <2>2
      <3>2. 8 \notin S
        BY <2>1, <2>2, <3>1
      <3>3. 9 \notin S
        BY <2>1, <2>2, <3>1, <3>2
      <3> QED BY <2>1, <2>2, <3>1, <3>2, <3>3
    <2>4. PICK x \in S : TRUE
      OBVIOUS
    <2>5. x \notin {1, 2, 3} /\ x \notin {4, 5, 6} /\ x \notin {7, 8, 9, 10} /\ x \in 1 .. 10
      BY <2>1, <2>2, <2>3
    <2> QED BY <2>5
  <1> HIDE DEF Least
  <1>2. (CHOOSE x \in S : Least(x)) \in S
    BY <1>1
  <1> QED BY <1>2 DEF Min, Least

LEMMA FollowingBounds ==
  ASSUME NEW b, NEW i \in 1 .. 10
  PROVE  /\ Following(b, i) \in i .. 10
         /\ Following(b, i) \in 1 .. 9 => Keys[Following(b, i)] \in DOMAIN b
  <1> DEFINE S == {j \in 1 .. 9 : j >= i /\ Keys[j] \in DOMAIN b} \cup {10}
  <1>1. Following(b, i) = Min(S)
    BY KeyFacts DEF Following
  <1>2. S \subseteq 1 .. 10 /\ S # {}
    OBVIOUS
  <1>3. Min(S) \in S
    BY <1>2, FirstOf
  <1> QED BY <1>1, <1>3

-----------------------------------------------------------------------------
(* The request that is under way. *)

NextKey == next \in 1 .. 9 => Keys[next] \in DOMAIN body

WebConnects == cpc["web"] # "done" => next = 11

RequestInv == TypeOK /\ NextKey /\ WebConnects

LEMMA NextTyped ==
  ASSUME TypeOK
  PROVE  next \in 0 .. 11
  BY KeyFacts DEF TypeOK

LEMMA CurrentTyped ==
  ASSUME TypeOK
  PROVE  current_upstream_ip \in Values \cup {Unset}
  <1>1. Upstreams[s_upstream_index + 1] \in KeySet
    BY KeyFacts DEF TypeOK, Upstreams
  <1> QED BY <1>1 DEF TypeOK, current_upstream_ip

LEMMA NetworkTyped ==
  ASSUME NEW settings \in [KeySet -> Values \cup {Unset}]
  PROVE  Network(settings) \in Values /\ settings["static_ip"] \in Values \cup {Unset}
  BY KeyFacts, SettingsAssumption DEF Network

LEMMA RequestInit == Init => RequestInv
  <1> SUFFICES ASSUME Init PROVE RequestInv
    OBVIOUS
  <1>1. Default \in [KeySet -> Values \cup {Unset}] /\ Default["upstream1"] \in Values \cup {Unset}
    BY KeyFacts, SettingsAssumption
  <1>2. Network(Default) \in Values
    BY <1>1, NetworkTyped
  <1>3. table \in [Fds -> Values \cup {Unset, Free, Other, Fresh}]
    BY <1>1 DEF Init, Empty
  <1>4. TypeOK
    <2>1. next \in 0 .. Len(Keys) + 2
          /\ cpc \in [Tasks -> {"done", "look", "close", "open", "resolve", "connect"}]
          /\ old \in [Tasks -> Fds \cup {-1}] /\ addr \in [Tasks -> Values \cup {Unset}]
      BY KeyFacts DEF Init
    <2> QED BY <1>1, <1>2, <1>3, <2>1 DEF Init, TypeOK
  <1>5. NextKey /\ WebConnects
    BY DEF Init, NextKey, WebConnects, Tasks
  <1> QED BY <1>4, <1>5 DEF RequestInv

LEMMA RequestStep == RequestInv /\ [Next]_vars => RequestInv'
  <1> SUFFICES ASSUME RequestInv, [Next]_vars PROVE RequestInv'
    OBVIOUS
  <1> USE DEF RequestInv
  <1>0. next \in 0 .. 11 /\ Len(Keys) = 9 /\ DOMAIN Keys = 1 .. 9
    BY NextTyped, KeyFacts
  <1>1. CASE UNCHANGED vars
    <2>1. UNCHANGED <<nvs, body, next, asked, net, running, s_upstream_index, s_upstream_sock,
                      table, cpc, old, addr, clash, overlapped, stolen>>
      BY <1>1 DEF vars, webVars, sockVars
    <2>2. TypeOK'
      BY <2>1 DEF TypeOK
    <2> QED BY <2>1, <2>2 DEF NextKey, WebConnects
  <1>2. ASSUME NEW t \in Tasks, ConnectSteps(t) PROVE RequestInv'
    <2>1. UNCHANGED <<nvs, body, next, asked, net, running, s_upstream_index, overlapped, clash>>
      BY <1>2 DEF ConnectSteps, Look, CloseOld, Open, OpenFails, Resolve, Connect, ConnectFails,
             webVars
    <2>2. cpc[t] # "done" /\ \E step \in {"done", "close", "open", "resolve", "connect"} :
            cpc' = [cpc EXCEPT ![t] = step]
      BY <1>2 DEF ConnectSteps, Look, CloseOld, Open, OpenFails, Resolve, Connect, ConnectFails,
             Goto
    <2>3. NextKey' /\ WebConnects'
      BY <2>1, <2>2 DEF NextKey, WebConnects, TypeOK, Tasks
    <2>4. s_upstream_sock' \in Fds \cup {-1}
      BY <1>2 DEF ConnectSteps, Look, CloseOld, Open, OpenFails, Resolve, Connect, ConnectFails,
                  TypeOK, Available
    <2>5. table' \in [Fds -> Values \cup {Unset, Free, Other, Fresh}]
      <3>1. CASE Look(t) \/ OpenFails(t) \/ Resolve(t)
        BY <3>1 DEF Look, OpenFails, Resolve, TypeOK
      <3>2. CASE CloseOld(t) \/ ConnectFails(t)
        BY <3>2 DEF CloseOld, ConnectFails, Close, TypeOK
      <3>3. CASE Open(t)
        BY <3>3 DEF Open, TypeOK
      <3>4. CASE Connect(t)
        BY <3>4 DEF Connect, TypeOK
      <3> QED BY <1>2, <3>1, <3>2, <3>3, <3>4 DEF ConnectSteps
    <2>6. old' \in [Tasks -> Fds \cup {-1}] /\ addr' \in [Tasks -> Values \cup {Unset}]
      BY <1>2, CurrentTyped DEF ConnectSteps, Look, CloseOld, Open, OpenFails, Resolve, Connect,
             ConnectFails, TypeOK
    <2>7. stolen' \in BOOLEAN
      BY <1>2 DEF ConnectSteps, Look, CloseOld, Open, OpenFails, Resolve, Connect, ConnectFails,
                  Close, TypeOK
    <2>8. cpc' \in [Tasks -> {"done", "look", "close", "open", "resolve", "connect"}]
      BY <2>2 DEF TypeOK
    <2>9. TypeOK'
      BY <2>1, <2>4, <2>5, <2>6, <2>7, <2>8 DEF TypeOK
    <2> QED BY <2>3, <2>9
  <1>3. ASSUME NEW t \in Tasks, NEW index \in {0, 1}, Begin(t, index)
        PROVE  /\ cpc' \in [Tasks -> {"done", "look", "close", "open", "resolve", "connect"}]
               /\ s_upstream_index' \in {0, 1} /\ clash' \in BOOLEAN /\ overlapped' \in BOOLEAN
               /\ UNCHANGED <<s_upstream_sock, table, old, addr, stolen>>
    BY <1>3 DEF Begin, TypeOK
  <1>4. CASE FailOver
    <2>1. Begin("proxy", Alternative) /\ Alternative \in {0, 1} /\ "proxy" \in Tasks
          /\ UNCHANGED <<nvs, body, next, asked, net, running>>
      BY <1>4 DEF FailOver, Alternative, TypeOK, Tasks, webVars
    <2>2. TypeOK'
      BY <2>1, <1>3 DEF TypeOK
    <2>3. cpc'["web"] = cpc["web"]
      BY <2>1 DEF Begin, TypeOK, Tasks
    <2> QED BY <2>1, <2>2, <2>3 DEF NextKey, WebConnects
  <1>5. ASSUME NEW b \in Bodies, Post(b) PROVE RequestInv'
    <2>1. b \in [DOMAIN b -> Values] /\ DOMAIN b \subseteq KeySet
      BY BodyFacts
    <2>2. Requested(b) \in [KeySet -> Values \cup {Unset}]
      BY <2>1 DEF Requested, TypeOK
    <2>3. asked' \subseteq Values
      <3>1. Network(nvs) \in Values /\ Network(Requested(b)) \in Values
            /\ {nvs["static_ip"], Requested(b)["static_ip"]} \subseteq Values \cup {Unset}
        BY <2>2, NetworkTyped DEF TypeOK
      <3> QED BY <1>5, <3>1 DEF Post
    <2>4. next' \in 1 .. 10 /\ (next' \in 1 .. 9 => Keys[next'] \in DOMAIN b)
      BY <1>5, FollowingBounds DEF Post
    <2>5. TypeOK'
      BY <1>0, <1>5, <2>3, <2>4 DEF Post, TypeOK, sockVars
    <2> QED BY <1>5, <2>4, <2>5 DEF Post, NextKey, WebConnects, sockVars
  <1>6. CASE Store
    <2>1. next \in 1 .. 9 /\ Keys[next] \in KeySet /\ body[Keys[next]] \in Values
      BY <1>0, <1>6, KeyFacts, BodyFacts DEF Store, NextKey, TypeOK
    <2>2. nvs' \in [KeySet -> Values \cup {Unset}]
      BY <1>6, <2>1 DEF Store, TypeOK
    <2>3. next' \in 1 .. 10 /\ (next' \in 1 .. 9 => Keys[next'] \in DOMAIN body)
      BY <1>6, <2>1, FollowingBounds DEF Store
    <2>4. TypeOK'
      BY <1>0, <1>6, <2>2, <2>3 DEF Store, TypeOK, sockVars
    <2> QED BY <1>6, <2>1, <2>3, <2>4 DEF Store, NextKey, WebConnects, sockVars
  <1>7. CASE ApplyUpstreamConfig
    <2>1. Begin("web", 0) /\ "web" \in Tasks /\ next' = 11
          /\ UNCHANGED <<nvs, body, asked, net, running>>
      BY <1>0, <1>7 DEF ApplyUpstreamConfig, Tasks
    <2>2. TypeOK'
      BY <1>0, <2>1, <1>3 DEF TypeOK
    <2> QED BY <2>1, <2>2 DEF NextKey, WebConnects
  <1>8. CASE Respond
    <2>1. cpc["web"] = "done" /\ next' = 0 /\ body' = <<>>
      BY <1>0, <1>8 DEF Respond, WebConnects
    <2>2. TypeOK'
      BY <1>0, <1>8 DEF Respond, TypeOK, sockVars
    <2> QED BY <1>8, <2>1, <2>2 DEF Respond, NextKey, WebConnects, sockVars
  <1>9. ASSUME NEW fd \in Fds, OtherOpens(fd) \/ OtherCloses(fd) PROVE RequestInv'
    <2>1. UNCHANGED <<nvs, body, next, asked, net, running, s_upstream_index, s_upstream_sock,
                      cpc, old, addr, clash, overlapped, stolen>>
      BY <1>9 DEF OtherOpens, OtherCloses, webVars
    <2>2. table' \in [Fds -> Values \cup {Unset, Free, Other, Fresh}]
      BY <1>9 DEF OtherOpens, OtherCloses, TypeOK
    <2>3. TypeOK'
      BY <2>1, <2>2 DEF TypeOK
    <2> QED BY <2>1, <2>3 DEF NextKey, WebConnects
  <1>10. CASE Restart
    <2>1. Network(nvs) \in Values /\ nvs["upstream1"] \in Values \cup {Unset}
      BY NetworkTyped, KeyFacts DEF TypeOK
    <2>2. running' \in BOOLEAN /\ s_upstream_sock' \in Fds \cup {-1}
          /\ table' \in [Fds -> Values \cup {Unset, Free, Other, Fresh}]
      BY <1>10, <2>1 DEF Restart, Started, Empty
    <2>3. cpc' \in [Tasks -> {"done", "look", "close", "open", "resolve", "connect"}]
          /\ old' \in [Tasks -> Fds \cup {-1}] /\ addr' \in [Tasks -> Values \cup {Unset}]
      BY <1>10 DEF Restart
    <2>4. UNCHANGED <<nvs, asked>> /\ net' = Network(nvs) /\ s_upstream_index' = 0 /\ next' = 0
          /\ body' = <<>> /\ clash' = FALSE /\ overlapped' = FALSE /\ stolen' = FALSE
      BY <1>10 DEF Restart
    <2>5. next' \in 0 .. Len(Keys) + 2
      BY <1>0, <2>4
    <2>6. TypeOK'
      BY <2>1, <2>2, <2>3, <2>4, <2>5 DEF TypeOK
    <2> QED BY <1>10, <2>6 DEF Restart, NextKey, WebConnects, Tasks
  <1> QED BY <1>1, <1>2, <1>4, <1>5, <1>6, <1>7, <1>8, <1>9, <1>10 DEF Next

(* The state of settings and sockets is well typed (TypeOK); a key is stored *)
(* only if it was posted, and the connect of the web page is over when the   *)
(* request is.                                                               *)
THEOREM RequestInvariance == Spec => []RequestInv
  BY RequestInit, RequestStep, PTL DEF Spec

(* The state of the settings and the socket is well typed (TypeOK). *)
THEOREM TypeCorrect == Spec => []TypeOK
  <1>1. RequestInv => TypeOK
    BY DEF RequestInv
  <1> QED BY <1>1, RequestInvariance, PTL

-----------------------------------------------------------------------------
(* The network: a restart takes mode and address as they are in NVS, each   *)
(* of them that of before the request or that of the request.                *)

NetworkOf(mode, address) ==
  IF mode = Static /\ address # Unset THEN address ELSE Dhcp

Possible(k) == {nvs[k]} \cup (IF k \in DOMAIN body THEN {body[k]} ELSE {})

NetworksAsked ==
  \A mode \in Possible("net_mode"), address \in Possible("static_ip") :
    NetworkOf(mode, address) \in asked

LEMMA NetworkInit == Init => NetworksAsked
  <1> SUFFICES ASSUME Init PROVE NetworksAsked
    OBVIOUS
  <1>1. DOMAIN body = {} /\ Network(nvs) \in asked
    BY DEF Init
  <1> QED BY <1>1 DEF NetworksAsked, Possible, NetworkOf, Network

LEMMA NetworkStep == RequestInv /\ NetworksAsked /\ [Next]_vars => NetworksAsked'
  <1> SUFFICES ASSUME RequestInv, NetworksAsked, [Next]_vars PROVE NetworksAsked'
    OBVIOUS
  <1> DEFINE Mode == "net_mode"
             Address == "static_ip"
  <1>1. ASSUME UNCHANGED asked, Possible(Mode)' \subseteq Possible(Mode),
               Possible(Address)' \subseteq Possible(Address)
        PROVE  NetworksAsked'
    BY <1>1 DEF NetworksAsked
  <1>2. ASSUME UNCHANGED <<nvs, asked>>, body' = body \/ body' = <<>> PROVE NetworksAsked'
    <2>1. body' = <<>> => DOMAIN body' = {}
      OBVIOUS
    <2>2. Possible(Mode)' \subseteq Possible(Mode) /\ Possible(Address)' \subseteq Possible(Address)
      BY <1>2, <2>1 DEF Possible
    <2> QED BY <1>1, <1>2, <2>2
  <1>3. CASE Store
    <2>1. next \in 1 .. 9 /\ Keys[next] \in DOMAIN body /\ nvs \in [KeySet -> Values \cup {Unset}]
          /\ UNCHANGED <<body, asked>>
      BY <1>3, KeyFacts DEF Store, RequestInv, NextKey, TypeOK
    <2>2. \A k \in KeySet : nvs'[k] = nvs[k] \/ (k \in DOMAIN body /\ nvs'[k] = body[k])
      BY <1>3, <2>1 DEF Store
    <2>3. nvs'[Mode] \in Possible(Mode) /\ nvs'[Address] \in Possible(Address)
      BY <2>2, KeyFacts DEF Possible
    <2>4. Possible(Mode)' \subseteq Possible(Mode) /\ Possible(Address)' \subseteq Possible(Address)
      BY <2>1, <2>3 DEF Possible
    <2> QED BY <1>1, <2>1, <2>4
  <1>4. ASSUME NEW b \in Bodies, Post(b) PROVE NetworksAsked'
    <2> DEFINE new == Requested(b)
    <2>1. new[Mode] = (IF Mode \in DOMAIN b THEN b[Mode] ELSE nvs[Mode])
          /\ new[Address] = (IF Address \in DOMAIN b THEN b[Address] ELSE nvs[Address])
      BY KeyFacts DEF Requested
    <2>2. Possible(Mode)' \subseteq {nvs[Mode], new[Mode]}
          /\ Possible(Address)' \subseteq {nvs[Address], new[Address]}
      BY <1>4, <2>1 DEF Post, Possible
    <2>3. asked' = {Network(nvs), Network(new), nvs[Address], new[Address]} \ {Unset}
      BY <1>4 DEF Post
    <2>4. Unset # Dhcp
      BY DEF Unset, Dhcp
    <2> HIDE DEF new
    <2>5. ASSUME NEW mode \in {nvs[Mode], new[Mode]}, NEW address \in {nvs[Address], new[Address]}
          PROVE  NetworkOf(mode, address) \in asked'
      <3>1. CASE Dhcp \in asked'
        BY <2>3, <3>1 DEF NetworkOf
      <3>2. CASE Dhcp \notin asked'
        <4>1. Network(nvs) # Dhcp /\ Network(new) # Dhcp
          BY <2>3, <2>4, <3>2
        <4>2. mode = Static /\ address # Unset
          BY <4>1 DEF Network
        <4> QED BY <2>3, <4>2 DEF NetworkOf
      <3> QED BY <3>1, <3>2
    <2> QED BY <2>2, <2>5 DEF NetworksAsked
  <1>5. CASE UNCHANGED vars
    BY <1>2, <1>5 DEF vars, webVars
  <1>6. ASSUME NEW t \in Tasks, ConnectSteps(t) PROVE NetworksAsked'
    BY <1>2, <1>6 DEF ConnectSteps, Look, CloseOld, Open, OpenFails, Resolve, Connect, ConnectFails,
             webVars
  <1>7. CASE FailOver \/ ApplyUpstreamConfig \/ Respond \/ Restart
    BY <1>2, <1>7 DEF FailOver, ApplyUpstreamConfig, Respond, Restart, webVars
  <1>8. ASSUME NEW fd \in Fds, OtherOpens(fd) \/ OtherCloses(fd) PROVE NetworksAsked'
    BY <1>2, <1>8 DEF OtherOpens, OtherCloses, webVars
  <1> QED BY <1>3, <1>4, <1>5, <1>6, <1>7, <1>8 DEF Next

(* Whatever is lost of a request, a start takes up a network that it leaves *)
(* room for (NetworkWasAsked).                                               *)
THEOREM NetworkNeverInvented == Spec => NetworkWasAsked
  <1> DEFINE Guarded == net' # net => net' \in asked
  <1>1. RequestInv /\ NetworksAsked /\ [Next]_vars => [Guarded]_vars
    <2> SUFFICES ASSUME NetworksAsked, Next PROVE Guarded
      OBVIOUS
    <2>1. CASE Restart
      <3>1. Network(nvs) = NetworkOf(nvs["net_mode"], nvs["static_ip"])
        BY DEF Network, NetworkOf
      <3> QED BY <2>1, <3>1 DEF Restart, NetworksAsked, Possible
    <2>2. CASE net' = net
      BY <2>2
    <2>3. Restart \/ net' = net
      BY DEF Next, ConnectSteps, Look, CloseOld, Open, OpenFails, Resolve, Connect, ConnectFails,
             FailOver, Post, Store, ApplyUpstreamConfig, Respond, OtherOpens, OtherCloses, webVars
    <2> QED BY <2>1, <2>2, <2>3
  <1>2. Spec => []NetworksAsked
    BY NetworkInit, NetworkStep, RequestInvariance, PTL DEF Spec
  <1> QED BY <1>1, <1>2, RequestInvariance, PTL DEF Spec, NetworkWasAsked

-----------------------------------------------------------------------------
(* The socket, as long as no two connects overlap: at most one task is      *)
(* connecting, and the descriptor that is the proxy's is the one of its      *)
(* stage.                                                                    *)

AllDone == \A t \in Tasks : cpc[t] = "done"

SoleConnect ==
  ~clash => \A t, u \in Tasks : cpc[t] # "done" /\ cpc[u] # "done" => t = u

FreshSocket ==
  ~clash => \A t \in Tasks : cpc[t] \in {"resolve", "connect"} =>
    s_upstream_sock \in Fds /\ table[s_upstream_sock] = Fresh

Unapplied == next \in 1 .. 10 /\ upstream_changed

Resolved ==
  ~clash => \A t \in Tasks : cpc[t] = "connect" /\ ~Unapplied => addr[t] = current_upstream_ip

UpToDate ==
  ~clash /\ AllDone /\ ~Unapplied =>
    s_upstream_sock = -1 \/ table[s_upstream_sock] = current_upstream_ip

SocketInv == SoleConnect /\ FreshSocket /\ Resolved /\ UpToDate

LEMMA SocketInit == Init => SocketInv
  <1> SUFFICES ASSUME Init PROVE SocketInv
    OBVIOUS
  <1>1. table[s_upstream_sock] = current_upstream_ip
    <2>1. table[s_upstream_sock] = Default["upstream1"]
      BY DEF Init, Empty
    <2>2. current_upstream_ip = Default["upstream1"]
      BY DEF Init, current_upstream_ip, Upstreams
    <2> QED BY <2>1, <2>2
  <1>2. \A t \in Tasks : cpc[t] = "done"
    BY DEF Init
  <1> QED BY <1>1, <1>2 DEF SocketInv, SoleConnect, FreshSocket, Resolved, UpToDate

(* A connect that begins is alone unless it clashes. *)
LEMMA BeginSole ==
  ASSUME TypeOK, NEW t \in Tasks, NEW index, Begin(t, index)
  PROVE  SocketInv'
  <1>1. cpc' = [cpc EXCEPT ![t] = "look"] /\ clash' = (\E u \in Tasks \ {t} : cpc[u] # "done")
    BY DEF Begin
  <1>2. cpc'[t] = "look" /\ \A u \in Tasks \ {t} : cpc'[u] = cpc[u]
    BY <1>1 DEF TypeOK
  <1>3. ~clash' => \A u \in Tasks \ {t} : cpc[u] = "done"
    BY <1>1
  <1> QED BY <1>2, <1>3 DEF SocketInv, SoleConnect, FreshSocket, Resolved, UpToDate, AllDone

LEMMA ConnectSole ==
  ASSUME TypeOK, SocketInv, NEW t \in Tasks, ConnectSteps(t)
  PROVE  SocketInv'
  <1> USE DEF SocketInv
  <1>1. UNCHANGED <<nvs, body, next, s_upstream_index, clash>>
    BY DEF ConnectSteps, Look, CloseOld, Open, OpenFails, Resolve, Connect, ConnectFails,
             webVars
  <1>2. PICK step \in {"done", "close", "open", "resolve", "connect"} :
         cpc' = [cpc EXCEPT ![t] = step]
    BY DEF ConnectSteps, Look, CloseOld, Open, OpenFails, Resolve, Connect, ConnectFails,
             Goto
  <1>3. cpc[t] # "done" /\ cpc'[t] = step /\ \A u \in Tasks \ {t} : cpc'[u] = cpc[u]
    BY <1>2 DEF ConnectSteps, Look, CloseOld, Open, OpenFails, Resolve, Connect,
             ConnectFails, TypeOK
  <1>4. SoleConnect'
    BY <1>1, <1>3 DEF SoleConnect
  <1>5. ~clash => \A u \in Tasks \ {t} : cpc'[u] = "done"
    BY <1>3 DEF SoleConnect
  <1>6. CASE Look(t) \/ CloseOld(t)
    <2>1. cpc'[t] \in {"close", "open"}
      BY <1>6 DEF Look, CloseOld, Goto, TypeOK
    <2> QED BY <1>1, <1>4, <1>5, <2>1 DEF FreshSocket, Resolved, UpToDate, AllDone
  <1>7. CASE Open(t) /\ Available # {}
    <2>1. PICK fd \in Available : s_upstream_sock' = fd /\ table' = [table EXCEPT ![fd] = Fresh]
      BY <1>7 DEF Open
    <2>2. fd \in Fds /\ table'[fd] = Fresh
      BY <2>1 DEF Available, TypeOK
    <2>3. cpc'[t] = "resolve"
      BY <1>7 DEF Open, Goto, TypeOK
    <2> QED BY <1>1, <1>4, <1>5, <2>1, <2>2, <2>3 DEF FreshSocket, Resolved, UpToDate, AllDone
  <1>8. CASE (Open(t) /\ Available = {}) \/ OpenFails(t) \/ ConnectFails(t)
    <2>1. s_upstream_sock' = -1 /\ cpc'[t] = "done"
      BY <1>8 DEF Open, OpenFails, ConnectFails, Goto, TypeOK
    <2> QED BY <1>1, <1>4, <1>5, <2>1 DEF FreshSocket, Resolved, UpToDate
  <1>9. current_upstream_ip' = current_upstream_ip /\ Unapplied' = Unapplied
    BY <1>1 DEF current_upstream_ip, Unapplied, upstream_changed
  <1>10. CASE Resolve(t)
    <2>1. cpc[t] = "resolve" /\ cpc'[t] = "connect" /\ addr'[t] = current_upstream_ip
          /\ UNCHANGED <<s_upstream_sock, table>>
      BY <1>10 DEF Resolve, Goto, TypeOK
    <2> QED BY <1>1, <1>4, <1>5, <1>9, <2>1 DEF FreshSocket, Resolved, UpToDate, AllDone
  <1>11. CASE Connect(t)
    <2>1. cpc[t] = "connect" /\ cpc'[t] = "done" /\ s_upstream_sock' = s_upstream_sock
          /\ table'[s_upstream_sock] = addr[t]
      BY <1>11 DEF Connect, Goto, TypeOK
    <2>2. ~clash /\ ~Unapplied => addr[t] = current_upstream_ip
      BY <2>1 DEF Resolved
    <2>3. ~clash => FreshSocket' /\ Resolved'
      BY <1>1, <1>5, <2>1 DEF FreshSocket, Resolved
    <2>4. UpToDate'
      BY <1>1, <1>9, <2>1, <2>2 DEF UpToDate
    <2> QED BY <1>1, <1>4, <2>3, <2>4 DEF FreshSocket, Resolved
  <1> QED BY <1>6, <1>7, <1>8, <1>10, <1>11 DEF ConnectSteps

LEMMA SocketStep == RequestInv /\ SocketInv /\ [Next]_vars => SocketInv'
  <1> SUFFICES ASSUME RequestInv, SocketInv, [Next]_vars PROVE SocketInv'
    OBVIOUS
  <1> USE DEF RequestInv, SocketInv
  <1>0. next \in 0 .. 11 /\ Len(Keys) = 9 /\ DOMAIN Keys = 1 .. 9
    BY NextTyped, KeyFacts
  <1>1. ASSUME UNCHANGED <<cpc, clash, s_upstream_sock, table, addr>>,
               ~Unapplied' => ~Unapplied /\ current_upstream_ip' = current_upstream_ip
        PROVE  SocketInv'
    <2>1. SoleConnect' /\ FreshSocket' /\ Resolved'
      BY <1>1 DEF SoleConnect, FreshSocket, Resolved
    <2>2. AllDone' = AllDone
      BY <1>1 DEF AllDone
    <2>3. UpToDate'
      BY <1>1, <2>2 DEF UpToDate
    <2> QED BY <2>1, <2>3
  <1>2. CASE UNCHANGED vars
    <2>1. UNCHANGED <<cpc, clash, s_upstream_sock, table, addr, nvs, s_upstream_index, next, body>>
      BY <1>2 DEF vars, webVars, sockVars
    <2>2. Unapplied' = Unapplied /\ current_upstream_ip' = current_upstream_ip
      BY <2>1 DEF Unapplied, upstream_changed, current_upstream_ip
    <2> QED BY <1>1, <2>1, <2>2
  <1>3. ASSUME NEW b \in Bodies, Post(b) PROVE SocketInv'
    <2>1. next = 0 /\ UNCHANGED <<cpc, clash, s_upstream_sock, table, addr, nvs, s_upstream_index>>
      BY <1>3 DEF Post, sockVars
    <2>2. ~Unapplied /\ current_upstream_ip' = current_upstream_ip
      BY <2>1 DEF Unapplied, current_upstream_ip
    <2> QED BY <1>1, <2>1, <2>2
  <1>4. CASE Store
    <2>1. next \in 1 .. 9 /\ Keys[next] \in DOMAIN body /\ next' \in 1 .. 10
          /\ UNCHANGED <<cpc, clash, s_upstream_sock, table, addr, s_upstream_index, body>>
      BY <1>0, <1>4, FollowingBounds DEF Store, NextKey, sockVars
    <2>2. Unapplied' = upstream_changed /\ Unapplied = upstream_changed
      BY <2>1 DEF Unapplied, upstream_changed
    <2>3. Upstreams[s_upstream_index + 1] \in {"upstream1", "upstream2"} \cap KeySet
      BY KeyFacts DEF TypeOK, Upstreams
    <2>4. ~upstream_changed => Keys[next] # Upstreams[s_upstream_index + 1]
      BY <2>1, <2>3 DEF upstream_changed
    <2>5. ~upstream_changed => current_upstream_ip' = current_upstream_ip
      BY <1>4, <2>1, <2>3, <2>4 DEF Store, current_upstream_ip, TypeOK
    <2> QED BY <1>1, <2>1, <2>2, <2>5
  <1>5. CASE FailOver \/ ApplyUpstreamConfig
    <2>1. \E t \in Tasks, index \in {Alternative, 0} : Begin(t, index)
      BY <1>5 DEF FailOver, ApplyUpstreamConfig, Tasks
    <2> QED BY <2>1, BeginSole
  <1>6. CASE Respond
    <2>1. UNCHANGED <<cpc, clash, s_upstream_sock, table, addr, nvs, s_upstream_index>>
      BY <1>6 DEF Respond, sockVars
    <2>2. ~Unapplied
      BY <1>0, <1>6 DEF Respond, Unapplied
    <2>3. current_upstream_ip' = current_upstream_ip
      BY <2>1 DEF current_upstream_ip
    <2> QED BY <1>1, <2>1, <2>2, <2>3
  <1>7. ASSUME NEW t \in Tasks, ConnectSteps(t) PROVE SocketInv'
    BY <1>7, ConnectSole
  <1>8. ASSUME NEW fd \in Fds, OtherOpens(fd) \/ OtherCloses(fd) PROVE SocketInv'
    <2>1. UNCHANGED <<cpc, clash, s_upstream_sock, addr, nvs, s_upstream_index, next, body>>
      BY <1>8 DEF OtherOpens, OtherCloses, webVars
    <2>2. \A x \in Fds : table[x] \notin {Free, Other} => table'[x] = table[x]
      BY <1>8 DEF OtherOpens, OtherCloses, TypeOK
    <2>3. Fresh \notin {Free, Other} /\ current_upstream_ip \notin {Free, Other}
      BY CurrentTyped, SettingsAssumption DEF Free, Other, Fresh, Unset
    <2>4. SoleConnect' /\ FreshSocket'
      BY <2>1, <2>2, <2>3 DEF SoleConnect, FreshSocket
    <2>5. current_upstream_ip' = current_upstream_ip /\ Unapplied' = Unapplied /\ AllDone' = AllDone
      BY <2>1 DEF current_upstream_ip, Unapplied, upstream_changed, AllDone
    <2>6. UpToDate' /\ Resolved'
      BY <2>1, <2>2, <2>3, <2>5 DEF UpToDate, Resolved, TypeOK
    <2> QED BY <2>4, <2>6
  <1>9. CASE Restart
    <2>1. s_upstream_index' = 0 /\ nvs' = nvs /\ \A t \in Tasks : cpc'[t] = "done"
      BY <1>9 DEF Restart
    <2>2. current_upstream_ip' = nvs["upstream1"]
      BY <2>1 DEF current_upstream_ip, Upstreams
    <2>3. s_upstream_sock' = -1 \/ table'[s_upstream_sock'] = nvs["upstream1"]
      BY <1>9 DEF Restart, Started, Empty
    <2> QED BY <2>1, <2>2, <2>3 DEF SoleConnect, FreshSocket, Resolved, UpToDate
  <1> QED BY <1>2, <1>3, <1>4, <1>5, <1>6, <1>7, <1>8, <1>9 DEF Next

(* Between requests and fail-overs the socket is connected to the resolver  *)
(* in use as it is stored, or there is none (ConnectedAsConfigured).         *)
THEOREM UpstreamFollowsSettings == Spec => []ConnectedAsConfigured
  <1>1. SocketInv => ConnectedAsConfigured
    BY DEF SocketInv, UpToDate, AllDone, Unapplied, ConnectedAsConfigured, Quiet
  <1> QED BY <1>1, SocketInit, SocketStep, RequestInvariance, PTL DEF Spec

-----------------------------------------------------------------------------
(* The descriptors. *)

Own == {fd \in Fds : table[fd] \notin {Free, Other}}

(* The descriptor that task t has to do with. *)
Held(t) ==
  CASE cpc[t] = "close" -> {old[t]} \ {-1}
    [] cpc[t] = "open" -> {}
    [] OTHER -> {s_upstream_sock} \ {-1}

Tracked ==
  ~overlapped =>
    /\ ~clash /\ ~stolen
    /\ \A t \in Tasks : cpc[t] # "done" => Own = Held(t)
    /\ AllDone => Own = {s_upstream_sock} \ {-1}

LEMMA TrackedInit == Init => Tracked
  <1> SUFFICES ASSUME Init PROVE Tracked
    OBVIOUS
  <1>1. s_upstream_sock \in Fds /\ s_upstream_sock # -1 /\ Free \notin Values \cup {Unset}
        /\ Other \notin Values \cup {Unset} /\ Default["upstream1"] \in Values \cup {Unset}
    BY SettingsAssumption, KeyFacts DEF Init, Free, Other, Unset
  <1>2. table = [fd \in Fds |-> IF fd = s_upstream_sock THEN Default["upstream1"] ELSE Free]
    BY DEF Init, Empty
  <1>3. Own = {s_upstream_sock}
    BY <1>1, <1>2 DEF Own
  <1>4. \A t \in Tasks : cpc[t] = "done"
    BY DEF Init
  <1> QED BY <1>1, <1>3, <1>4 DEF Init, Tracked

LEMMA OwnedWrite ==
  ASSUME TypeOK, NEW fd \in Fds, NEW v \in Values \cup {Unset, Fresh},
         table' = [table EXCEPT ![fd] = v]
  PROVE  Own' = Own \cup {fd}
  <1>1. v \notin {Free, Other}
    BY SettingsAssumption DEF Free, Other, Unset, Fresh
  <1> QED BY <1>1 DEF Own, TypeOK

LEMMA CloseOwned ==
  ASSUME TypeOK, NEW fd \in Fds \cup {-1}, Close(fd), Own = {fd} \ {-1}
  PROVE  Own' = {} /\ stolen' = stolen
  <1>1. -1 \notin Fds
    BY SettingsAssumption
  <1>2. CASE fd = -1
    <2>1. table' = table /\ stolen' = stolen
      BY <1>1, <1>2 DEF Close, TypeOK
    <2> QED BY <1>2, <2>1 DEF Own
  <1>3. CASE fd \in Fds
    <2>1. fd \in Own /\ table[fd] # Other
      BY <1>1, <1>3 DEF Own
    <2>2. stolen' = stolen
      BY <1>3, <2>1 DEF Close, TypeOK
    <2>3. table' = [table EXCEPT ![fd] = Free]
      BY <1>3 DEF Close
    <2> QED BY <1>3, <2>2, <2>3 DEF Own, TypeOK
  <1> QED BY <1>2, <1>3

LEMMA ConnectTracked ==
  ASSUME TypeOK, SocketInv, Tracked, NEW t \in Tasks, ConnectSteps(t)
  PROVE  Tracked'
  <1> SUFFICES ASSUME ~overlapped' PROVE Tracked'
    BY DEF Tracked
  <1>1. overlapped' = overlapped /\ clash' = clash /\ cpc[t] # "done"
    BY DEF ConnectSteps, Look, CloseOld, Open, OpenFails, Resolve, Connect, ConnectFails
  <1>2. ~overlapped /\ ~clash /\ ~stolen /\ Own = Held(t)
    BY <1>1 DEF Tracked
  <1>3. PICK step \in {"done", "close", "open", "resolve", "connect"} :
         cpc' = [cpc EXCEPT ![t] = step]
    BY DEF ConnectSteps, Look, CloseOld, Open, OpenFails, Resolve, Connect, ConnectFails,
             Goto
  <1>4. cpc'[t] = step /\ \A u \in Tasks \ {t} : cpc'[u] = "done"
    BY <1>1, <1>2, <1>3 DEF TypeOK, SocketInv, SoleConnect
  <1>5. ASSUME ~stolen', cpc'[t] # "done" => Own' = Held(t)',
               cpc'[t] = "done" => Own' = {s_upstream_sock'} \ {-1}
        PROVE  Tracked'
    BY <1>1, <1>2, <1>4, <1>5 DEF Tracked, AllDone
  <1>6. -1 \notin Fds
    BY SettingsAssumption
  <1>7. CASE Look(t)
    <2>1. cpc[t] = "look" /\ cpc'[t] = "close" /\ old'[t] = s_upstream_sock
          /\ UNCHANGED <<table, stolen>>
      BY <1>7 DEF Look, Goto, TypeOK
    <2>2. Own' = Held(t)'
      BY <1>2, <2>1 DEF Own, Held
    <2> QED BY <1>2, <1>5, <2>1, <2>2
  <1>8. CASE CloseOld(t)
    <2>1. cpc[t] = "close" /\ cpc'[t] = "open" /\ Close(old[t]) /\ old[t] \in Fds \cup {-1}
      BY <1>8 DEF CloseOld, Goto, TypeOK
    <2>2. Own = {old[t]} \ {-1}
      BY <1>2, <2>1 DEF Held
    <2>3. Own' = {} /\ stolen' = stolen
      BY <2>1, <2>2, CloseOwned
    <2> QED BY <1>2, <1>5, <2>1, <2>3 DEF Held
  <1>9. CASE Open(t) \/ OpenFails(t)
    <2>1. cpc[t] = "open" /\ stolen' = stolen
      BY <1>9 DEF Open, OpenFails
    <2>2. Own = {}
      BY <1>2, <2>1 DEF Held
    <2>3. CASE Open(t) /\ Available # {}
      <3>1. PICK fd \in Available : s_upstream_sock' = fd /\ table' = [table EXCEPT ![fd] = Fresh]
        BY <2>3 DEF Open
      <3>2. fd \in Fds /\ fd # -1
        BY <1>6, <3>1 DEF Available
      <3>3. Own' = {fd}
        BY <2>2, <3>1, <3>2, OwnedWrite
      <3>4. cpc'[t] = "resolve"
        BY <2>3 DEF Open, Goto, TypeOK
      <3>5. Held(t)' = {fd}
        BY <3>1, <3>2, <3>4 DEF Held
      <3> QED BY <1>2, <1>5, <2>1, <3>3, <3>4, <3>5
    <2>4. CASE (Open(t) /\ Available = {}) \/ OpenFails(t)
      <3>1. s_upstream_sock' = -1 /\ cpc'[t] = "done" /\ table' = table
        BY <2>4 DEF Open, OpenFails, Goto, TypeOK
      <3>2. Own' = {}
        BY <2>2, <3>1 DEF Own
      <3> QED BY <1>2, <1>5, <2>1, <3>1, <3>2
    <2> QED BY <1>9, <2>3, <2>4
  <1>r. CASE Resolve(t)
    <2>1. cpc[t] = "resolve" /\ cpc'[t] = "connect" /\ UNCHANGED <<table, s_upstream_sock, stolen>>
      BY <1>r DEF Resolve, Goto, TypeOK
    <2>2. Own' = Held(t)'
      BY <1>2, <2>1 DEF Own, Held
    <2> QED BY <1>2, <1>5, <2>1, <2>2
  <1>10. CASE Connect(t)
    <2>1. cpc[t] = "connect" /\ cpc'[t] = "done" /\ s_upstream_sock \in Fds
          /\ table' = [table EXCEPT ![s_upstream_sock] = addr[t]]
          /\ addr[t] \in Values \cup {Unset}
          /\ UNCHANGED <<s_upstream_sock, stolen>>
      BY <1>10 DEF Connect, Goto, TypeOK
    <2>2. Own = {s_upstream_sock} /\ s_upstream_sock # -1
      BY <1>2, <1>6, <2>1 DEF Held
    <2>3. Own' = {s_upstream_sock}
      BY <2>1, <2>2, OwnedWrite
    <2> QED BY <1>2, <1>5, <2>1, <2>2, <2>3
  <1>11. CASE ConnectFails(t)
    <2>1. cpc[t] = "connect" /\ cpc'[t] = "done" /\ Close(s_upstream_sock) /\ s_upstream_sock' = -1
      BY <1>11 DEF ConnectFails, Goto, TypeOK
    <2>2. Own = {s_upstream_sock} \ {-1} /\ s_upstream_sock \in Fds \cup {-1}
      BY <1>2, <2>1 DEF Held, TypeOK
    <2>3. Own' = {} /\ stolen' = stolen
      BY <2>1, <2>2, CloseOwned
    <2> QED BY <1>2, <1>5, <2>1, <2>3
  <1> QED BY <1>7, <1>8, <1>9, <1>r, <1>10, <1>11 DEF ConnectSteps

LEMMA TrackedStep == RequestInv /\ SocketInv /\ Tracked /\ [Next]_vars => Tracked'
  <1> SUFFICES ASSUME RequestInv, SocketInv, Tracked, [Next]_vars PROVE Tracked'
    OBVIOUS
  <1> USE DEF RequestInv
  <1>1. ASSUME UNCHANGED <<s_upstream_sock, cpc, old, clash, overlapped, stolen>>, Own' = Own
        PROVE  Tracked'
    <2>1. \A t \in Tasks : Held(t)' = Held(t)
      BY <1>1 DEF Held
    <2> QED BY <1>1, <2>1 DEF Tracked, AllDone
  <1>2. CASE UNCHANGED vars \/ (\E b \in Bodies : Post(b)) \/ Store \/ Respond
    <2>1. UNCHANGED <<s_upstream_sock, cpc, old, clash, overlapped, stolen, table>>
      BY <1>2 DEF vars, Post, Store, Respond, sockVars
    <2>2. Own' = Own
      BY <2>1 DEF Own
    <2> QED BY <1>1, <2>1, <2>2
  <1>3. ASSUME NEW fd \in Fds, OtherOpens(fd) \/ OtherCloses(fd) PROVE Tracked'
    <2>1. UNCHANGED <<s_upstream_sock, cpc, old, clash, overlapped, stolen>>
      BY <1>3 DEF OtherOpens, OtherCloses
    <2>2. Own' = Own
      BY <1>3 DEF OtherOpens, OtherCloses, Own, TypeOK
    <2> QED BY <1>1, <2>1, <2>2
  <1>4. CASE FailOver \/ ApplyUpstreamConfig
    <2>1. PICK t \in Tasks : cpc[t] = "done" /\ \E index \in {Alternative, 0} : Begin(t, index)
      <3>1. next = 10 => cpc["web"] = "done"
        BY DEF WebConnects
      <3> QED BY <1>4, <3>1, KeyFacts DEF FailOver, ApplyUpstreamConfig, Tasks
    <2>2. cpc' = [cpc EXCEPT ![t] = "look"] /\ clash' = (\E u \in Tasks \ {t} : cpc[u] # "done")
          /\ overlapped' = (overlapped \/ clash')
          /\ UNCHANGED <<s_upstream_sock, table, old, stolen>>
      BY <2>1 DEF Begin
    <2>3. cpc'[t] = "look" /\ \A u \in Tasks \ {t} : cpc'[u] = cpc[u]
      BY <2>2 DEF TypeOK
    <2>4. Own' = Own
      BY <2>2 DEF Own
    <2> SUFFICES ASSUME ~overlapped' PROVE Tracked'
      BY DEF Tracked
    <2>5. ~overlapped /\ ~clash'
      BY <2>2
    <2>6. \A u \in Tasks \ {t} : cpc[u] = "done"
      BY <2>2, <2>5
    <2>7. AllDone
      BY <2>1, <2>6 DEF AllDone
    <2>8. Own' = {s_upstream_sock} \ {-1} /\ ~stolen'
      BY <2>2, <2>4, <2>5, <2>7 DEF Tracked
    <2>9. Held(t)' = {s_upstream_sock} \ {-1}
      BY <2>2, <2>3 DEF Held
    <2> QED BY <2>3, <2>5, <2>6, <2>8, <2>9 DEF Tracked, AllDone
  <1>5. ASSUME NEW t \in Tasks, ConnectSteps(t) PROVE Tracked'
    BY <1>5, ConnectTracked
  <1>6. CASE Restart
    <2>1. nvs["upstream1"] \in Values \cup {Unset}
      BY KeyFacts DEF TypeOK
    <2>2. Free \notin Values \cup {Unset} /\ Other \notin Values \cup {Unset} /\ -1 \notin Fds
      BY SettingsAssumption DEF Free, Other, Unset
    <2>3. Own' = {s_upstream_sock'} \ {-1}
      <3>1. CASE s_upstream_sock' = -1 /\ table' = Empty
        BY <3>1 DEF Own, Empty
      <3>2. ASSUME NEW fd \in Fds, s_upstream_sock' = fd,
                   table' = [Empty EXCEPT ![fd] = nvs["upstream1"]]
            PROVE  Own' = {s_upstream_sock'} \ {-1}
        <4>1. table' = [x \in Fds |-> IF x = fd THEN nvs["upstream1"] ELSE Free]
          BY <3>2 DEF Empty
        <4> QED BY <2>1, <2>2, <3>2, <4>1 DEF Own
      <3> QED BY <1>6, <3>1, <3>2 DEF Restart, Started
    <2>4. \A t \in Tasks : cpc'[t] = "done"
      BY <1>6 DEF Restart
    <2> QED BY <1>6, <2>3, <2>4 DEF Restart, Tracked
  <1> QED BY <1>2, <1>3, <1>4, <1>5, <1>6 DEF Next

(* Without overlapping connects exactly the descriptor of the socket is the *)
(* proxy's, and nobody else's was closed (DescriptorsKept).                  *)
THEOREM DescriptorsTracked == Spec => []DescriptorsKept
  <1>1. Tracked => DescriptorsKept
    BY DEF Tracked, AllDone, Own, DescriptorsKept, Quiet
  <1> QED BY <1>1, TrackedInit, TrackedStep, SocketInit, SocketStep, RequestInvariance, PTL DEF Spec
=============================================================================
