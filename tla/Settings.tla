------------------------------ MODULE Settings ------------------------------
(***************************************************************************)
(* The web page's settings: config_post_handler (web_ui.c), the keys of    *)
(* NVS it writes one after the other (app_config.c), and what takes them   *)
(* up, the upstream socket at once (dns_proxy.c) and the network address   *)
(* after a restart (eth_init.c).                                           *)
(*                                                                         *)
(* The upstream socket is replaced by two tasks without a lock, by the     *)
(* forwarding task when it fails over and by the HTTP server's task when   *)
(* the resolvers were changed.  Descriptors are numbers that the system    *)
(* gives out again, to whoever opens a socket next.                        *)
(***************************************************************************)
EXTENDS Integers, Sequences, FiniteSetsExt

CONSTANTS
  Values,          \* what a key may hold
  Bodies,          \* what may be posted: functions from some of the keys
  Default,         \* what a getter returns for a key that was never stored
  Fds              \* the system's descriptors

Unset  == "unset"
Static == "static"
Dhcp   == "dhcp"

(* A descriptor that is not the proxy's, and one of its that is not         *)
(* connected yet.                                                            *)
Free  == "free"
Other == "other"
Fresh == "fresh"

(* The order in which config_post_handler looks for them. *)
Keys == <<"upstream1", "upstream2", "block_policy", "blocking_enabled", "blocklist_url",
          "blocklist_refresh_interval_hours", "fw_update_url", "net_mode", "static_ip">>

KeySet == {Keys[i] : i \in DOMAIN Keys}

Upstreams == <<"upstream1", "upstream2">>

Tasks == {"proxy", "web"}

ASSUME SettingsAssumption ==
  /\ {Static, Dhcp} \subseteq Values /\ {Unset, Free, Other, Fresh} \cap Values = {}
  /\ \A b \in Bodies : DOMAIN b \subseteq KeySet /\ b \in [DOMAIN b -> Values]
  /\ Default \in [KeySet -> Values \cup {Unset}]
  /\ Default["net_mode"] = Dhcp /\ Default["static_ip"] = Unset
  /\ Fds \subseteq Nat

VARIABLES
  nvs,               \* every key, with its default when it was not stored
  body, next,        \* the request and the position of its next key, 0 between requests
  asked,             \* the networks it leaves room for (not in the code)
  net,               \* the address since the last start: Dhcp or a static one
  running,           \* dns_proxy_task was created
  s_upstream_index, s_upstream_sock,
  table,             \* the system's descriptors: free, other, fresh or a peer
  cpc, old, addr,    \* connect_upstream_socket in each task: the descriptor it closes,
                     \* the resolver it connects to
  clash,             \* the last connect did not run alone (not in the code)
  overlapped,        \* some connect since the start did not (not in the code)
  stolen             \* somebody else's descriptor was closed (not in the code)

webVars == <<nvs, body, next, asked, net>>
sockVars == <<s_upstream_index, s_upstream_sock, table, cpc, old, addr>>
vars == <<webVars, running, sockVars, clash, overlapped, stolen>>

Empty == [fd \in Fds |-> Free]

Available == {fd \in Fds : table[fd] = Free}

current_upstream_ip == nvs[Upstreams[s_upstream_index + 1]]

(* eth_init_start: a static address, if there is one.                       *)
(* Mutant of Network: that there is one is not checked.                     *)
NetworkUnchecked(settings) ==
  IF settings["net_mode"] = Static THEN settings["static_ip"] ELSE Dhcp

Network(settings) ==
  IF settings["net_mode"] = Static /\ settings["static_ip"] # Unset
    THEN settings["static_ip"] ELSE Dhcp

(* dns_proxy_start: no task without a first connection, and perhaps none    *)
(* with it.                                                                  *)
Started(settings) ==
  \/ /\ running' \in BOOLEAN
     /\ \E fd \in Fds : /\ s_upstream_sock' = fd
                        /\ table' = [Empty EXCEPT ![fd] = settings["upstream1"]]
  \/ running' = FALSE /\ s_upstream_sock' = -1 /\ table' = Empty

Init ==
  /\ nvs = Default
  /\ body = <<>> /\ next = 0
  /\ net = Network(Default) /\ asked = {net}
  /\ running = TRUE
  /\ s_upstream_index = 0
  /\ s_upstream_sock \in Fds
  /\ table = [Empty EXCEPT ![s_upstream_sock] = Default["upstream1"]]
  /\ cpc = [t \in Tasks |-> "done"] /\ old = [t \in Tasks |-> -1]
  /\ addr = [t \in Tasks |-> Unset]
  /\ clash = FALSE /\ overlapped = FALSE /\ stolen = FALSE

-----------------------------------------------------------------------------
(* connect_upstream_socket, in either task. *)

Begin(t, index) ==
  /\ s_upstream_index' = index
  /\ cpc' = [cpc EXCEPT ![t] = "look"]
  /\ clash' = (\E u \in Tasks \ {t} : cpc[u] # "done")
  /\ overlapped' = (overlapped \/ clash')
  /\ UNCHANGED <<s_upstream_sock, table, old, addr, stolen>>

Goto(t, step) == cpc' = [cpc EXCEPT ![t] = step]

Close(fd) ==
  /\ table' = IF fd \in Fds THEN [table EXCEPT ![fd] = Free] ELSE table
  /\ stolen' = (stolen \/ (fd \in Fds /\ table[fd] = Other))

(* The old socket, *)
Look(t) ==
  /\ cpc[t] = "look"
  /\ Goto(t, "close")
  /\ old' = [old EXCEPT ![t] = s_upstream_sock]
  /\ UNCHANGED <<webVars, running, s_upstream_index, s_upstream_sock, table, addr,
                 clash, overlapped, stolen>>

(* ... is closed, *)
CloseOld(t) ==
  /\ cpc[t] = "close"
  /\ Goto(t, "open")
  /\ Close(old[t])
  /\ old' = [old EXCEPT ![t] = -1]
  /\ UNCHANGED <<webVars, running, s_upstream_index, s_upstream_sock, addr, clash, overlapped>>

(* ... a new one is opened, or not, *)
Open(t) ==
  /\ cpc[t] = "open"
  /\ IF Available # {}
       THEN \E fd \in Available : /\ s_upstream_sock' = fd
                                 /\ table' = [table EXCEPT ![fd] = Fresh]
                                 /\ Goto(t, "resolve")
       ELSE s_upstream_sock' = -1 /\ Goto(t, "done") /\ UNCHANGED table
  /\ UNCHANGED <<webVars, running, s_upstream_index, old, addr, clash, overlapped, stolen>>

OpenFails(t) ==
  /\ cpc[t] = "open"
  /\ s_upstream_sock' = -1
  /\ Goto(t, "done")
  /\ UNCHANGED <<webVars, running, s_upstream_index, table, old, addr, clash, overlapped, stolen>>

(* ... the resolver that is configured at the index is read from NVS, *)
Resolve(t) ==
  /\ cpc[t] = "resolve"
  /\ Goto(t, "connect")
  /\ addr' = [addr EXCEPT ![t] = current_upstream_ip]
  /\ UNCHANGED <<webVars, running, s_upstream_index, s_upstream_sock, table, old,
                 clash, overlapped, stolen>>

(* ... and the socket connected to it: one of the proxy's, whichever task   *)
(* opened it.                                                                *)
Connect(t) ==
  /\ cpc[t] = "connect"
  /\ s_upstream_sock \in Fds
  /\ table[s_upstream_sock] \notin {Free, Other}
  /\ table' = [table EXCEPT ![s_upstream_sock] = addr[t]]
  /\ addr' = [addr EXCEPT ![t] = Unset]
  /\ Goto(t, "done")
  /\ UNCHANGED <<webVars, running, s_upstream_index, s_upstream_sock, old,
                 clash, overlapped, stolen>>

(* Or that fails, as it does on a socket of somebody else.                  *)
(* Mutant of ConnectFails: the new socket is not closed.                    *)
ConnectLeaks(t) ==
  /\ cpc[t] = "connect"
  /\ s_upstream_sock' = -1
  /\ addr' = [addr EXCEPT ![t] = Unset]
  /\ Goto(t, "done")
  /\ UNCHANGED <<webVars, running, s_upstream_index, table, old, clash, overlapped, stolen>>

ConnectFails(t) ==
  /\ cpc[t] = "connect"
  /\ Close(s_upstream_sock)
  /\ s_upstream_sock' = -1
  /\ addr' = [addr EXCEPT ![t] = Unset]
  /\ Goto(t, "done")
  /\ UNCHANGED <<webVars, running, s_upstream_index, old, clash, overlapped>>

ConnectSteps(t) ==
  \/ Look(t) \/ CloseOld(t) \/ Open(t) \/ OpenFails(t)
  \/ Resolve(t) \/ Connect(t) \/ ConnectFails(t)

(* fail_over_upstream: enough queries have timed out.                       *)
(* Mutant of Alternative: the index does not come back to the first.        *)
NextOne == s_upstream_index + 1

Alternative == IF s_upstream_index = 0 THEN 1 ELSE 0

FailOver ==
  /\ running
  /\ cpc["proxy"] = "done"
  /\ Begin("proxy", Alternative)
  /\ UNCHANGED <<webVars, running>>

-----------------------------------------------------------------------------
(* config_post_handler. *)

Requested(b) == [k \in KeySet |-> IF k \in DOMAIN b THEN b[k] ELSE nvs[k]]

(* The first key of b from position i on. *)
Following(b, i) ==
  Min({j \in DOMAIN Keys : j >= i /\ Keys[j] \in DOMAIN b} \cup {Len(Keys) + 1})

Post(b) ==
  /\ next = 0
  /\ body' = b
  /\ next' = Following(b, 1)
  /\ asked' = {Network(nvs), Network(Requested(b)),
                nvs["static_ip"], Requested(b)["static_ip"]} \ {Unset}
  /\ UNCHANGED <<nvs, net, running, sockVars, clash, overlapped, stolen>>

(* The setter of a key that was posted: whether NVS took it is not looked at. *)
Store ==
  /\ next \in DOMAIN Keys
  /\ \/ nvs' = [nvs EXCEPT ![Keys[next]] = body[Keys[next]]]
     \/ UNCHANGED nvs
  /\ next' = Following(body, next + 1)
  /\ UNCHANGED <<body, asked, net, running, sockVars, clash, overlapped, stolen>>

(* Mutant of upstream_changed: the second resolver is forgotten. *)
upstream1_changed == "upstream1" \in DOMAIN body

upstream_changed == {"upstream1", "upstream2"} \cap DOMAIN body # {}

(* dns_proxy_apply_upstream_config *)
ApplyUpstreamConfig ==
  /\ next = Len(Keys) + 1
  /\ upstream_changed
  /\ Begin("web", 0)
  /\ next' = Len(Keys) + 2
  /\ UNCHANGED <<nvs, body, asked, net, running>>

(* The answer, which says ok. *)
Respond ==
  /\ \/ next = Len(Keys) + 1 /\ ~upstream_changed
     \/ next = Len(Keys) + 2 /\ cpc["web"] = "done"
  /\ next' = 0 /\ body' = <<>>
  /\ UNCHANGED <<nvs, asked, net, running, sockVars, clash, overlapped, stolen>>

-----------------------------------------------------------------------------
(* The other sockets of the system. *)
OtherOpens(fd) ==
  /\ table[fd] = Free
  /\ table' = [table EXCEPT ![fd] = Other]
  /\ UNCHANGED <<webVars, running, s_upstream_index, s_upstream_sock, cpc, old, addr,
                 clash, overlapped, stolen>>

OtherCloses(fd) ==
  /\ table[fd] = Other
  /\ table' = [table EXCEPT ![fd] = Free]
  /\ UNCHANGED <<webVars, running, s_upstream_index, s_upstream_sock, cpc, old, addr,
                 clash, overlapped, stolen>>

(* The power goes, or the page's reboot. *)
Restart ==
  /\ net' = Network(nvs)
  /\ Started(nvs)
  /\ s_upstream_index' = 0
  /\ next' = 0 /\ body' = <<>>
  /\ cpc' = [t \in Tasks |-> "done"] /\ old' = [t \in Tasks |-> -1]
  /\ addr' = [t \in Tasks |-> Unset]
  /\ clash' = FALSE /\ overlapped' = FALSE /\ stolen' = FALSE
  /\ UNCHANGED <<nvs, asked>>

Next ==
  \/ \E t \in Tasks : ConnectSteps(t)
  \/ FailOver
  \/ \E b \in Bodies : Post(b)
  \/ Store \/ ApplyUpstreamConfig \/ Respond
  \/ \E fd \in Fds : OtherOpens(fd) \/ OtherCloses(fd)
  \/ Restart

Spec == Init /\ [][Next]_vars

-----------------------------------------------------------------------------
TypeOK ==
  /\ nvs \in [KeySet -> Values \cup {Unset}]
  /\ body \in Bodies \cup {<<>>}
  /\ next \in 0 .. Len(Keys) + 2
  /\ net \in Values /\ asked \subseteq Values
  /\ running \in BOOLEAN
  /\ s_upstream_index \in {0, 1} /\ s_upstream_sock \in Fds \cup {-1}
  /\ table \in [Fds -> Values \cup {Unset, Free, Other, Fresh}]
  /\ cpc \in [Tasks -> {"done", "look", "close", "open", "resolve", "connect"}]
  /\ old \in [Tasks -> Fds \cup {-1}] /\ addr \in [Tasks -> Values \cup {Unset}]
  /\ clash \in BOOLEAN /\ overlapped \in BOOLEAN /\ stolen \in BOOLEAN

Quiet == next = 0 /\ \A t \in Tasks : cpc[t] = "done"

(* "Forces the upstream socket to reconnect using the currently-configured  *)
(* upstream1" (dns_proxy.h:54-59): between requests and fail-overs the      *)
(* socket is connected to the resolver stored for the index, or there is     *)
(* none, provided the last connect ran alone; one that does repairs what    *)
(* those before it have left.                                                *)
ConnectedAsConfigured ==
  Quiet /\ ~clash =>
    s_upstream_sock = -1 \/ table[s_upstream_sock] = current_upstream_ip

(* Without overlapping connects the proxy keeps exactly one descriptor, or  *)
(* none after a failure, and closes nobody else's.                           *)
DescriptorsKept ==
  ~overlapped =>
    /\ ~stolen
    /\ Quiet => {fd \in Fds : table[fd] \notin {Free, Other}} = {s_upstream_sock} \ {-1}

(* Mode and address are two keys, written one after the other, each of them *)
(* perhaps in vain: a restart, in the middle of a request or later, finds   *)
(* the network of before the request, the one it asked for, or the address  *)
(* of either; never an address that nobody gave, and DHCP only if it was     *)
(* in use or asked for.                                                      *)
NetworkWasAsked == [][net' # net => net' \in asked]_vars
=============================================================================
