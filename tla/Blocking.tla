------------------------------ MODULE Blocking ------------------------------
(***************************************************************************)
(* The decision whether a query is blocked, and the reloads that replace   *)
(* what it reads while it reads: try_block, is_allowlisted and the two     *)
(* reloads of dns_proxy.c, the exact list of sd_storage.c.                 *)
(*                                                                         *)
(* The forwarding task decides; update tasks, the periodic one and one for *)
(* each request to update now, replace filter and list; the HTTP server's   *)
(* task replaces the allowlist.  They share the three structures without a *)
(* lock.  Each is read in two steps, a look at its pointer or count and the *)
(* reads behind it: when it is taken away in between, or is gone already,   *)
(* the reads are of freed or unmapped memory and may return anything, which *)
(* misread notes.  And two update tasks may be in the reload of one and the *)
(* same structure, each freeing what the other builds, which raced notes:   *)
(* from then on its pointers may dangle whether a reload is under way or    *)
(* not, until the device restarts.                                          *)
(***************************************************************************)
EXTENDS BloomFilter

CONSTANTS
  Updaters,           \* the tasks in blocklist_updater_check_and_apply
  Versions,           \* published versions of filter and list
  Listed,             \* the domains of each version, and of the embedded seed
  m_bits, k_hashes,   \* of every filter
  SeedParses,         \* the embedded seed is a valid filter
  Allowlists          \* what the web page saves

Seed  == "seed"
Blank == "blank"      \* an erased partition

Filters == Versions \cup {Seed}

ASSUME BlockingAssumption ==
  /\ {Seed, Blank} \cap Versions = {}
  /\ Listed \in [Filters -> (SUBSET Domains) \ {{}}]
  /\ m_bits \in Nat \ {0} /\ k_hashes \in Nat
  /\ SeedParses \in BOOLEAN
  /\ Allowlists \subseteq SUBSET Domains

VARIABLES
  bloom_part, list_file,      \* flash and card: the active partition and file
  allow_nvs,                  \* NVS
  s_bloom, s_bloom_ready,     \* the filter, and whether its mapping is there
  s_domains,                  \* the exact list and ...
  s_allowlist,                \* ... the allowlist: loaded, freed or empty
  booting,                    \* app_main has not loaded the list yet
  upc, wpc,                   \* the update tasks, the HTTP server's task
  raced,                      \* two update tasks were in one reload (not in the code)
  list_served,                \* there was a list since the start (not in the code)
  pc, qname,                  \* the forwarding task
  misread,                    \* structures this decision read in vain (not in the code)
  seen                        \* what it could have found (not in the code)

storeVars == <<bloom_part, list_file, allow_nvs>>
bloomVars == <<s_bloom, s_bloom_ready>>
taskVars  == <<booting, upc, wpc, raced>>
vars == <<storeVars, bloomVars, s_domains, s_allowlist, taskVars, list_served,
          pc, qname, misread, seen>>

Empty == [state |-> "empty", names |-> {}]

Freed == [state |-> "freed", names |-> {}]

Loaded(names) == [state |-> "loaded", names |-> names]

(* What try_load_bloom_from_partition and the fallback to the seed leave in *)
(* s_bloom: a blank partition is never mapped, another one may fail to be.   *)
(* Mutant of Mappable: the header of the partition is not checked.          *)
MappableBlank(part) == {Seed, part}

Mappable(part) == {Seed} \cup ({part} \ {Blank})

(* A list is loaded whole, cut short by a read error, or not at all, as     *)
(* when there is no file or no memory.                                       *)
Loadable(file) == {Empty} \cup {Loaded(names) : names \in (SUBSET Listed[file]) \ {{}}}

Allowable(names) == {Empty} \cup {Loaded(n) : n \in {names} \ {{}}}

(* dns_proxy_start maps the filter and loads the allowlist before the first *)
(* query.                                                                     *)
Booted(part) == {[version |-> v, live |-> TRUE] : v \in Mappable(part)}

Ready(bloom) == bloom.version # Seed \/ SeedParses

Hit(name) == Test(Build(m_bits, k_hashes, Listed[s_bloom.version]), name)

Reasons == {"off", "hit", "not in filter", "allowed", "not allowed",
            "no list", "list gone", "in list", "not in list"}

(* What the structure that the decision is at, if it is there, says about    *)
(* its domain.                                                                 *)
Verdict(list, there, absent) ==
  IF list.state # "loaded" THEN {}
    ELSE IF qname \in list.names THEN {there} ELSE {absent}

Facts ==
  CASE pc = "filter" ->
         (IF Hit(qname) THEN {"hit"} ELSE {})
           \cup (IF qname \in Listed[s_bloom.version] THEN {} ELSE {"not in filter"})
    [] pc \in {"hit", "allowlist"} ->
         IF s_allowlist = Empty THEN {"not allowed"}
           ELSE Verdict(s_allowlist, "allowed", "not allowed")
    [] pc \in {"confirm", "list"} ->
         IF s_domains = Empty THEN {IF list_served THEN "list gone" ELSE "no list"}
           ELSE Verdict(s_domains, "in list", "not in list")
    [] OTHER -> {}

Init ==
  /\ bloom_part \in Versions \cup {Blank}
  /\ list_file \in Versions
  /\ allow_nvs \in Allowlists
  /\ s_bloom \in Booted(bloom_part) /\ s_bloom_ready = Ready(s_bloom)
  /\ s_domains = Empty
  /\ s_allowlist \in Allowable(allow_nvs)
  /\ booting = TRUE
  /\ upc = [u \in Updaters |-> "idle"] /\ wpc = "idle"
  /\ raced = FALSE /\ list_served = FALSE
  /\ pc = "idle" /\ qname \in Domains
  /\ misread = {}
  /\ seen = {}

-----------------------------------------------------------------------------
(* The reloads. *)

queryVars == <<pc, qname>>

(* What a step takes away or replaces is misread by the query that reads it. *)
Disturb(structure) == misread' = misread \cup ({structure} \cap {pc})

(* app_main loads the list, then starts the web page and the updates. *)
BootList ==
  /\ booting
  /\ booting' = FALSE
  /\ s_domains' \in Loadable(list_file)
  /\ UNCHANGED <<storeVars, bloomVars, s_allowlist, upc, wpc, raced, queryVars, misread>>

Step(u, from, to) == upc[u] = from /\ upc' = [upc EXCEPT ![u] = to]

Others(u, stages) == \E w \in Updaters \ {u} : upc[w] \in stages

(* update_bloom and update_domain_list activate the new version, *)
PublishFilter(u, v) ==
  /\ ~booting
  /\ Step(u, "idle", "unmap")
  /\ bloom_part' = v
  /\ UNCHANGED <<list_file, allow_nvs, bloomVars, s_domains, s_allowlist,
                 booting, wpc, raced, queryVars, misread>>

PublishList(u, v) ==
  /\ ~booting
  /\ Step(u, "idle", "free")
  /\ list_file' = v
  /\ UNCHANGED <<bloom_part, allow_nvs, bloomVars, s_domains, s_allowlist,
                 booting, wpc, raced, queryVars, misread>>

(* ... dns_proxy_reload_bloom_filter then unmaps the old one, though s_bloom *)
(* still points into it and s_bloom_ready is still set, *)
Unmap(u) ==
  /\ Step(u, "unmap", "map")
  /\ raced' = (raced \/ Others(u, {"map"}))
  /\ IF s_bloom.version = Seed
       THEN UNCHANGED <<s_bloom, misread>>
       ELSE s_bloom' = [s_bloom EXCEPT !.live = FALSE] /\ Disturb("filter")
  /\ UNCHANGED <<storeVars, s_bloom_ready, s_domains, s_allowlist, booting, wpc, queryVars>>

(* ... and maps the new one or falls back to the seed.  A task may have read *)
(* which is active before another activated its own.                         *)
Active(u, now, since) == {now} \cup {v \in Versions : Others(u, {since})}

(* Mutant of Map: without a mapping the old filter is kept.                  *)
MapOrKeep(u) ==
  /\ Step(u, "map", "idle")
  /\ \/ bloom_part # Blank /\ s_bloom' = [version |-> bloom_part, live |-> TRUE]
     \/ UNCHANGED s_bloom
  /\ Disturb("filter")
  /\ UNCHANGED <<storeVars, s_bloom_ready, s_domains, s_allowlist, booting, wpc, raced,
                 queryVars>>

Map(u) ==
  /\ Step(u, "map", "idle")
  /\ \E part \in Active(u, bloom_part, "unmap") : \E bloom \in Booted(part) :
       /\ s_bloom' \in {IF Ready(bloom) THEN bloom ELSE s_bloom}
                         \cup {b \in {[bloom EXCEPT !.live = FALSE]} : raced}
       /\ s_bloom_ready' = Ready(bloom)
  /\ Disturb("filter")
  /\ UNCHANGED <<storeVars, s_domains, s_allowlist, booting, wpc, raced, queryVars>>

(* sd_storage_load_domain_list: the text of the entries is freed, then their *)
(* array and its count are cleared, *)
FreeList(u) ==
  /\ Step(u, "free", "clear")
  /\ raced' = (raced \/ Others(u, {"clear", "load"}))
  /\ IF s_domains = Empty
       THEN UNCHANGED <<s_domains, misread>>
       ELSE s_domains' = Freed /\ Disturb("list")
  /\ UNCHANGED <<storeVars, bloomVars, s_allowlist, booting, wpc, queryVars>>

(* (the array of another task, when they raced) *)
ClearList(u) ==
  /\ Step(u, "clear", "load")
  /\ s_domains' = Empty
  /\ IF raced THEN Disturb("list") ELSE UNCHANGED misread
  /\ UNCHANGED <<storeVars, bloomVars, s_allowlist, booting, wpc, raced, queryVars>>

(* ... and the count is set last. *)
LoadList(u) ==
  /\ Step(u, "load", "idle")
  /\ \E file \in Active(u, list_file, "free") :
       s_domains' \in {s_domains} \cup (Loadable(file) \ {Empty})
                       \cup {l \in {Freed} : raced}
  /\ IF raced THEN Disturb("list") ELSE UNCHANGED misread
  /\ UNCHANGED <<storeVars, bloomVars, s_allowlist, booting, wpc, raced, queryVars>>

(* The web page's allowlist, which is loaded again whether or not NVS took  *)
(* it.                                                                       *)
SaveAllowlist(names) ==
  /\ ~booting
  /\ wpc = "idle"
  /\ allow_nvs' \in {names, allow_nvs}
  /\ wpc' = "free"
  /\ UNCHANGED <<bloom_part, list_file, bloomVars, s_domains, s_allowlist,
                 booting, upc, raced, queryVars, misread>>

(* dns_proxy_reload_allowlist: text and array are freed before the count is *)
(* cleared, and set again before it.                                         *)
FreeAllowlist ==
  /\ wpc = "free"
  /\ wpc' = "clear"
  /\ IF s_allowlist = Empty
       THEN UNCHANGED <<s_allowlist, misread>>
       ELSE s_allowlist' = Freed /\ Disturb("allowlist")
  /\ UNCHANGED <<storeVars, bloomVars, s_domains, booting, upc, raced, queryVars>>

(* Mutant of ClearAllowlist: the count is not cleared. *)
ClearNothing ==
  /\ wpc = "clear"
  /\ wpc' = "load"
  /\ UNCHANGED <<storeVars, bloomVars, s_domains, s_allowlist, booting, upc, raced,
                 queryVars, misread>>

ClearAllowlist ==
  /\ wpc = "clear"
  /\ wpc' = "load"
  /\ s_allowlist' = Empty
  /\ UNCHANGED <<storeVars, bloomVars, s_domains, booting, upc, raced, queryVars,
                 misread>>

LoadAllowlist ==
  /\ wpc = "load"
  /\ wpc' = "idle"
  /\ s_allowlist' \in {s_allowlist} \cup (Allowable(allow_nvs) \ {Empty})
  /\ UNCHANGED <<storeVars, bloomVars, s_domains, booting, upc, raced, queryVars,
                 misread>>

(* The power goes, or a misread address stops the program; it starts again. *)
Restart ==
  /\ s_bloom' \in Booted(bloom_part) /\ s_bloom_ready' = Ready(s_bloom')
  /\ s_domains' = Empty
  /\ s_allowlist' \in Allowable(allow_nvs)
  /\ booting' = TRUE
  /\ upc' = [u \in Updaters |-> "idle"] /\ wpc' = "idle"
  /\ raced' = FALSE
  /\ pc' = "idle"
  /\ misread' = {}
  /\ UNCHANGED <<storeVars, qname>>

-----------------------------------------------------------------------------
(* The decision: try_block. *)

ramVars == <<storeVars, bloomVars, s_domains, s_allowlist, taskVars>>

(* What the reads of a structure return. *)
Outcomes(structure, exact) == IF structure \in misread THEN BOOLEAN ELSE {exact}

(* The switch of the web page, read for every query, and the filter's. *)
Receive(name, blocking_enabled) ==
  /\ pc = "idle"
  /\ qname' = name
  /\ pc' = IF blocking_enabled /\ s_bloom_ready THEN "filter" ELSE "passed"
  /\ misread' = IF s_bloom.live THEN {} ELSE {"filter"} \cap {pc'}
  /\ UNCHANGED ramVars

TestFilter ==
  /\ pc = "filter"
  /\ \E hit \in Outcomes("filter", Hit(qname)) :
       pc' = IF hit THEN "hit" ELSE "passed"
  /\ UNCHANGED <<ramVars, qname, misread>>

(* is_allowlisted: the count, *)
OpenAllowlist ==
  /\ pc = "hit"
  /\ pc' = IF s_allowlist = Empty THEN "confirm" ELSE "allowlist"
  /\ misread' = misread \cup IF s_allowlist.state = "freed" THEN {"allowlist"} ELSE {}
  /\ UNCHANGED <<ramVars, qname>>

(* ... and the entries. *)
ScanAllowlist ==
  /\ pc = "allowlist"
  /\ \E found \in Outcomes("allowlist", qname \in s_allowlist.names) :
       pc' = IF found THEN "passed" ELSE "confirm"
  /\ UNCHANGED <<ramVars, qname, misread>>

(* sd_storage_confirm: without a list the hit alone blocks,                 *)
(* Mutant of OpenList: without a list the query is let through.             *)
OpenListOrPass ==
  /\ pc = "confirm"
  /\ pc' = IF s_domains = Empty THEN "passed" ELSE "list"
  /\ misread' = misread \cup IF s_domains.state = "freed" THEN {"list"} ELSE {}
  /\ UNCHANGED <<ramVars, qname>>

OpenList ==
  /\ pc = "confirm"
  /\ pc' = IF s_domains = Empty THEN "blocked" ELSE "list"
  /\ misread' = misread \cup IF s_domains.state = "freed" THEN {"list"} ELSE {}
  /\ UNCHANGED <<ramVars, qname>>

(* ... with one it is searched.                                              *)
(* Mutant of SearchList: a hit of the filter is not confirmed.              *)
SearchNothing ==
  /\ pc = "list"
  /\ pc' = "blocked"
  /\ UNCHANGED <<ramVars, qname, misread>>

SearchList ==
  /\ pc = "list"
  /\ \E found \in Outcomes("list", qname \in s_domains.names) :
       pc' = IF found THEN "blocked" ELSE "passed"
  /\ UNCHANGED <<ramVars, qname, misread>>

(* The query is answered or forwarded. *)
Finish ==
  /\ pc \in {"blocked", "passed"}
  /\ pc' = "idle"
  /\ misread' = {}
  /\ UNCHANGED <<ramVars, qname>>

(* What the structure a decision is at says of its domain is noted in seen    *)
(* at each moment, "off" if the decision asks none.  When the decision goes on *)
(* to the next structure only what speaks for that is kept, and nothing when *)
(* something was misread: its verdict may be anything.                        *)
Grounds ==
  CASE pc \in {"hit", "allowlist"} -> {"hit", "allowed", "not allowed"}
    [] pc \in {"confirm", "list"} -> Reasons \ {"not in filter", "allowed"}
    [] OTHER -> Reasons

Watch ==
  /\ list_served' = (~booting' /\ (list_served \/ s_domains'.state = "loaded"))
  /\ seen' = CASE pc' = "idle" \/ misread' # {} -> {}
                [] pc = "idle" /\ pc' = "passed" -> {"off"}
                [] OTHER -> (seen \cup Facts') \cap Grounds'

Reload(u) == (\E v \in Versions : PublishFilter(u, v) \/ PublishList(u, v))
               \/ Unmap(u) \/ Map(u) \/ FreeList(u) \/ ClearList(u) \/ LoadList(u)

Update == BootList \/ \E u \in Updaters : Reload(u)

Web == (\E names \in Allowlists : SaveAllowlist(names))
         \/ FreeAllowlist \/ ClearAllowlist \/ LoadAllowlist

Decide == (\E name \in Domains, on \in BOOLEAN : Receive(name, on))
            \/ TestFilter \/ OpenAllowlist \/ ScanAllowlist \/ OpenList \/ SearchList
            \/ Finish

Next == (Update \/ Web \/ Decide \/ Restart) /\ Watch

Spec == Init /\ [][Next]_vars

-----------------------------------------------------------------------------
TypeOK ==
  /\ bloom_part \in Versions \cup {Blank} /\ list_file \in Versions
  /\ allow_nvs \in Allowlists
  /\ s_bloom \in [version : Filters, live : BOOLEAN] /\ s_bloom_ready \in BOOLEAN
  /\ s_domains \in [state : {"loaded", "freed", "empty"}, names : SUBSET Domains]
  /\ s_allowlist \in [state : {"loaded", "freed", "empty"}, names : SUBSET Domains]
  /\ {booting, raced, list_served} \subseteq BOOLEAN
  /\ upc \in [Updaters -> {"idle", "unmap", "map", "free", "clear", "load"}]
  /\ wpc \in {"idle", "free", "clear", "load"}
  /\ pc \in {"idle", "filter", "hit", "allowlist", "confirm", "list", "blocked", "passed"}
  /\ qname \in Domains
  /\ misread \subseteq {"filter", "allowlist", "list"}
  /\ seen \subseteq Reasons

Quiet(stages) == \A u \in Updaters : upc[u] \notin stages

(* "the update takes effect without a reboot", "so the change takes effect  *)
(* immediately" (dns_proxy.h:34, :67): whatever fails on the way, when the  *)
(* reloads of a structure are over it holds nothing that is freed, and what *)
(* was activated last and not an older version, or its fallback: the active *)
(* filter or the seed; the allowlist or none; the exact list as far as it   *)
(* could be read, which sd_storage.c:130 does not tell from the whole, or   *)
(* none.  As long as no two tasks were in one reload at the same time.       *)
Restored ==
  /\ ~raced /\ s_bloom_ready /\ Quiet({"unmap", "map"}) =>
       s_bloom.live /\ s_bloom.version \in {bloom_part, Seed}
  /\ ~raced /\ Quiet({"free", "clear", "load"}) => s_domains \in Loadable(list_file)
  /\ wpc = "idle" => s_allowlist \in Allowable(allow_nvs)

(* Memory is misread only by a decision that meets a reload of that          *)
(* structure under way ("Safe to call again", sd_storage.h:36, is so between *)
(* queries only): when reloads are over, whatever failed in them, no pointer *)
(* dangles and no count is stale, as long as no two of them overlapped.      *)
MisreadNeedsReload ==
  [][/\ ~raced /\ "filter" \in misread' \ misread => ~Quiet({"unmap", "map"})
     /\ ~raced /\ "list" \in misread' \ misread => ~Quiet({"free", "clear"})
     /\ "allowlist" \in misread' \ misread => wpc \in {"free", "clear"}]_vars

(* A verdict that rests on what really was in memory has a reason for each  *)
(* of its parts at some moment of the decision, reloads or not.  To block:  *)
(* a hit, no allowlisting, and an entry of the exact list or no list at all, *)
(* which is the fail-safe of sd_storage.h:28.  A hit is never enough while   *)
(* there is a list; that there is one, or is one again soon, is not said.    *)
BlockedHasReason ==
  pc = "blocked" /\ misread = {} =>
    /\ "hit" \in seen /\ "not allowed" \in seen
    /\ {"in list", "no list", "list gone"} \cap seen # {}

(* To let through: blocking is off, the filter was built without the domain, *)
(* the allowlist has it, or the list, as far as it was read, does not; never *)
(* just a missing list.                                                       *)
PassedHasReason ==
  pc = "passed" /\ misread = {} =>
    {"off", "not in filter", "allowed", "not in list"} \cap seen # {}

-----------------------------------------------------------------------------
(* A statement of README.md:23-26 that the code does not keep.               *)

(* "no false positives ever reach a client", "a bloom-filter hit is always  *)
(* double-checked against the real list before blocking": once there is a   *)
(* list in memory, no query is blocked for a domain that neither the filter *)
(* was built with nor the stored list has.                                   *)
NoFalsePositive ==
  pc = "blocked" /\ misread = {} /\ "list gone" \in seen =>
    qname \in Listed[s_bloom.version] \cup Listed[list_file]
=============================================================================
