-------------------------- MODULE BlocklistUpdater --------------------------
(***************************************************************************)
(* The A/B update of the two blocklist artifacts:                          *)
(* components/blocklist_updater/blocklist_updater.c with the parts of      *)
(* dns_proxy.c, sd_storage.c and app_config.c it drives and the boot       *)
(* sequence of main/app_main.c.                                            *)
(*                                                                         *)
(* bloom.bin lives in two flash partitions and is served straight from the *)
(* mapped partition; domains.idx lives in two files of the SD card and is  *)
(* served from a copy in PSRAM.  NVS holds which of each pair is active.   *)
(* Downloads fail, are truncated, or deliver any published version (a      *)
(* cache, or a publication between two requests); flash and NVS operations *)
(* fail; the power goes at any moment.                                     *)
(*                                                                         *)
(* Updaters are the tasks that may be in blocklist_updater_check_and_apply *)
(* at the same time: the periodic task and one per request to update now.  *)
(***************************************************************************)
CONSTANTS
  Updaters,
  Versions      \* published versions; an artifact that is complete is one of them

(* What a partition or a file may hold besides a complete version. *)
Erased == "erased"
Torn   == "torn"         \* partly erased or written, truncated, or mixed
Absent == "absent"       \* no such file

Seed        == "seed"         \* the filter embedded in the firmware
Unavailable == "unavailable"  \* no list in memory: SD_STORAGE_CONFIRM_UNAVAILABLE
None        == "none"

(* What is served is an artifact from its beginning to its end or, of a list, *)
(* only as far as it could be read.                                           *)
Extents == {"whole", "part"}

NoList == [version |-> Unavailable, extent |-> "whole"]

ASSUME UpdaterAssumption ==
  {Erased, Torn, Absent, Seed, Unavailable, None} \cap Versions = {}

Slots == {"a", "b"}

Other(slot) == IF slot = "a" THEN "b" ELSE "a"

VARIABLES
  flash,        \* the partitions bloom_a and bloom_b
  bloom_slot,   \* NVS: the active one
  mapped,       \* the partition s_bloom reads, or Seed
  sd,           \* the files domains_a.idx and domains_b.idx
  legacy,       \* the file domains.idx of a card prepared by hand
  list_slot,    \* NVS: the active one
  mounted,      \* s_mounted
  domains,      \* s_domain_lines: the version in memory and its extent, or NoList
  booting,      \* app_main has not reached the SD card yet
  pc, target, buf, sha    \* the updaters: program counter and locals

filterVars == <<flash, bloom_slot, mapped>>
listVars   == <<sd, list_slot, domains>>
bootVars   == <<mounted, booting, legacy>>
localVars  == <<pc, target, buf, sha>>
vars == <<filterVars, listVars, bootVars, localVars>>

-----------------------------------------------------------------------------
(* dns_proxy_reload_bloom_filter: what s_bloom may read afterwards.  Only   *)
(* the header of the partition is looked at, so a torn one may pass; when   *)
(* the header or the mapping fails, the embedded seed is used.              *)
Loadable(slot) ==
  {Seed} \cup {s \in {slot} : flash[slot] # Erased}

(* sd_storage_load_domain_list: what a file that could be opened leaves in   *)
(* memory; a read that stops short is taken for the end of the list.         *)
(* Mutant of Contents: a missing file is taken for an empty list.            *)
ContentsUnchecked(file) == {[version |-> file, extent |-> e] : e \in Extents}

Contents(file) ==
  {[version |-> f, extent |-> e] : f \in {file} \ {Absent}, e \in Extents}

(* The active file, the one prepared by hand when that cannot be opened,     *)
(* missing or not, or nothing: no file, an empty one, no memory, no line.    *)
Readable == {NoList} \cup Contents(sd[list_slot]) \cup Contents(legacy)

Init ==
  /\ flash \in {f \in [Slots -> Versions \cup {Erased}] : f["b"] = Erased}
  /\ bloom_slot = "a"
  /\ mapped \in Loadable(bloom_slot)
  /\ sd \in {f \in [Slots -> Versions \cup {Absent}] : f["b"] = Absent}
  /\ legacy \in Versions \cup {Absent}
  /\ list_slot = "a"
  /\ mounted \in BOOLEAN
  /\ domains = NoList
  /\ booting = TRUE
  /\ pc = [u \in Updaters |-> "idle"]
  /\ target = [u \in Updaters |-> "a"]
  /\ buf = [u \in Updaters |-> None]
  /\ sha = [u \in Updaters |-> None]

-----------------------------------------------------------------------------
At(u, label) == pc[u] = label
Goto(u, label) == pc' = [pc EXCEPT ![u] = label]

(* update_bloom *)

(* The inactive partition is chosen before the download. *)
StartCheck(u) ==
  /\ At(u, "idle")
  /\ ~booting
  /\ target' = [target EXCEPT ![u] = Other(bloom_slot)]
  /\ Goto(u, "download")
  /\ UNCHANGED <<filterVars, listVars, bootVars, buf, sha>>

(* What arrives with a valid header and checksum is a complete version. *)
DownloadBloom(u) ==
  /\ At(u, "download")
  /\ \E v \in Versions : buf' = [buf EXCEPT ![u] = v]
  /\ Goto(u, "erase")
  /\ UNCHANGED <<filterVars, listVars, bootVars, target, sha>>

(* No memory, no response, a bad header or checksum. *)
DownloadBloomFails(u) ==
  /\ At(u, "download")
  /\ Goto(u, "list")
  /\ UNCHANGED <<filterVars, listVars, bootVars, target, buf, sha>>

(* Mutant of EraseSlot: the result of the erase is not looked at. *)
EraseSlotUnchecked(u) ==
  /\ At(u, "erase")
  /\ \E c \in {Erased, Torn} : flash' = [flash EXCEPT ![target[u]] = c]
  /\ Goto(u, "write")
  /\ UNCHANGED <<bloom_slot, mapped, listVars, bootVars, target, buf, sha>>

EraseSlot(u) ==
  /\ At(u, "erase")
  /\ \/ /\ flash' = [flash EXCEPT ![target[u]] = Erased]
        /\ Goto(u, "write")
        /\ UNCHANGED buf
     \/ /\ flash' = [flash EXCEPT ![target[u]] = Torn]
        /\ Goto(u, "list")
        /\ buf' = [buf EXCEPT ![u] = None]
  /\ UNCHANGED <<bloom_slot, mapped, listVars, bootVars, target, sha>>

(* Flash that is not erased keeps the bits it has lost: writing mixes. *)
WriteSlot(u) ==
  /\ At(u, "write")
  /\ \/ /\ flash' = [flash EXCEPT ![target[u]] =
                       IF @ \in {Erased, buf[u]} THEN buf[u] ELSE Torn]
        /\ Goto(u, "activate")
     \/ /\ flash' = [flash EXCEPT ![target[u]] = Torn]
        /\ Goto(u, "list")
  /\ buf' = [buf EXCEPT ![u] = None]
  /\ UNCHANGED <<bloom_slot, mapped, listVars, bootVars, target, sha>>

ActivateSlot(u) ==
  /\ At(u, "activate")
  /\ bloom_slot' = target[u]
  /\ Goto(u, "reload")
  /\ UNCHANGED <<flash, mapped, listVars, bootVars, target, buf, sha>>

(* The write of a key to NVS succeeds or fails as a whole. *)
ActivateSlotFails(u) ==
  /\ At(u, "activate")
  /\ Goto(u, "list")
  /\ UNCHANGED <<filterVars, listVars, bootVars, target, buf, sha>>

(* Mutant of ReloadFilter: the new filter is only used after a restart. *)
ReloadForgotten(u) ==
  /\ At(u, "reload")
  /\ Goto(u, "list")
  /\ UNCHANGED <<filterVars, listVars, bootVars, target, buf, sha>>

ReloadFilter(u) ==
  /\ At(u, "reload")
  /\ mapped' \in Loadable(bloom_slot)
  /\ Goto(u, "list")
  /\ UNCHANGED <<flash, bloom_slot, listVars, bootVars, target, buf, sha>>

-----------------------------------------------------------------------------
(* update_domain_list *)

(* Mutant of StartList: the active file is replaced in place. *)
StartListInPlace(u) ==
  /\ At(u, "list")
  /\ target' = IF mounted THEN [target EXCEPT ![u] = list_slot] ELSE target
  /\ Goto(u, IF mounted THEN "open" ELSE "idle")
  /\ UNCHANGED <<filterVars, listVars, bootVars, buf, sha>>

StartList(u) ==
  /\ At(u, "list")
  /\ target' = IF mounted THEN [target EXCEPT ![u] = Other(list_slot)] ELSE target
  /\ Goto(u, IF mounted THEN "open" ELSE "idle")
  /\ UNCHANGED <<filterVars, listVars, bootVars, buf, sha>>

(* http_get_to_file: fopen(.., "wb") empties the inactive file, *)
OpenList(u) ==
  /\ At(u, "open")
  /\ \/ sd' = [sd EXCEPT ![target[u]] = Torn] /\ Goto(u, "fetch")
     \/ UNCHANGED sd /\ Goto(u, "idle")
  /\ UNCHANGED <<filterVars, list_slot, domains, bootVars, target, buf, sha>>

(* ... which is then filled, perhaps not to its end, or left empty. *)
FetchList(u) ==
  /\ At(u, "fetch")
  /\ \/ \E c \in Versions \cup {Torn} : sd' = [sd EXCEPT ![target[u]] = c]
        /\ Goto(u, "sha")
     \/ UNCHANGED sd /\ Goto(u, "idle")
  /\ UNCHANGED <<filterVars, list_slot, domains, bootVars, target, buf, sha>>

FetchSha(u) ==
  /\ At(u, "sha")
  /\ \E v \in Versions : sha' = [sha EXCEPT ![u] = v]
  /\ Goto(u, "verify")
  /\ UNCHANGED <<filterVars, listVars, bootVars, target, buf>>

(* Mutant of AcceptList: the digest is fetched but not compared. *)
AcceptAnyList(u) ==
  /\ At(u, "verify")
  /\ sha' = [sha EXCEPT ![u] = None]
  /\ Goto(u, "list_activate")
  /\ UNCHANGED <<filterVars, listVars, bootVars, target, buf>>

AcceptList(u) ==
  /\ At(u, "verify")
  /\ sd[target[u]] = sha[u]
  /\ sha' = [sha EXCEPT ![u] = None]
  /\ Goto(u, "list_activate")
  /\ UNCHANGED <<filterVars, listVars, bootVars, target, buf>>

(* No digest, another digest, or the file cannot be read back. *)
RejectList(u) ==
  /\ At(u, "sha") \/ At(u, "verify")
  /\ sd' = [sd EXCEPT ![target[u]] = Absent]
  /\ sha' = [sha EXCEPT ![u] = None]
  /\ Goto(u, "idle")
  /\ UNCHANGED <<filterVars, list_slot, domains, bootVars, target, buf>>

ActivateList(u) ==
  /\ At(u, "list_activate")
  /\ \/ list_slot' = target[u] /\ Goto(u, "list_free")
     \/ UNCHANGED list_slot /\ Goto(u, "idle")
  /\ UNCHANGED <<filterVars, sd, domains, bootVars, target, buf, sha>>

(* sd_storage_load_domain_list frees the list before it opens the file. *)
FreeList(u) ==
  /\ At(u, "list_free")
  /\ domains' = NoList
  /\ Goto(u, "list_load")
  /\ UNCHANGED <<filterVars, sd, list_slot, bootVars, target, buf, sha>>

LoadList(u) ==
  /\ At(u, "list_load")
  /\ domains' \in Readable
  /\ Goto(u, "idle")
  /\ UNCHANGED <<filterVars, sd, list_slot, bootVars, target, buf, sha>>

Check(u) ==
  \/ StartCheck(u) \/ DownloadBloom(u) \/ DownloadBloomFails(u)
  \/ EraseSlot(u) \/ WriteSlot(u)
  \/ ActivateSlot(u) \/ ActivateSlotFails(u) \/ ReloadFilter(u)
  \/ StartList(u) \/ OpenList(u) \/ FetchList(u) \/ FetchSha(u)
  \/ AcceptList(u) \/ RejectList(u)
  \/ ActivateList(u) \/ FreeList(u) \/ LoadList(u)

-----------------------------------------------------------------------------
(* The power goes and comes back.  A partition that was being erased or     *)
(* written is torn; app_main maps the filter first, then mounts the card    *)
(* and loads the list.                                                      *)
PowerLoss ==
  /\ \E S \in SUBSET {target[u] : u \in {w \in Updaters : pc[w] \in {"erase", "write"}}} :
        flash' = [s \in Slots |-> IF s \in S THEN Torn ELSE flash[s]]
  /\ mapped' \in {Seed} \cup {s \in {bloom_slot} : flash'[s] # Erased}
  /\ mounted' \in BOOLEAN
  /\ domains' = NoList
  /\ booting' = TRUE
  /\ pc' = [u \in Updaters |-> "idle"]
  /\ target' = [u \in Updaters |-> "a"]
  /\ buf' = [u \in Updaters |-> None]
  /\ sha' = [u \in Updaters |-> None]
  /\ UNCHANGED <<bloom_slot, sd, legacy, list_slot>>

BootList ==
  /\ booting
  /\ booting' = FALSE
  /\ domains' \in IF mounted THEN Readable ELSE {NoList}
  /\ UNCHANGED <<filterVars, sd, legacy, list_slot, mounted, localVars>>

Next ==
  \/ \E u \in Updaters : Check(u)
  \/ PowerLoss
  \/ BootList

Spec == Init /\ [][Next]_vars

-----------------------------------------------------------------------------
Labels == {"idle", "download", "erase", "write", "activate", "reload", "list",
           "open", "fetch", "sha", "verify", "list_activate", "list_free",
           "list_load"}

TypeOK ==
  /\ flash \in [Slots -> Versions \cup {Erased, Torn}]
  /\ bloom_slot \in Slots
  /\ mapped \in Slots \cup {Seed}
  /\ sd \in [Slots -> Versions \cup {Torn, Absent}]
  /\ legacy \in Versions \cup {Absent}
  /\ list_slot \in Slots
  /\ mounted \in BOOLEAN
  /\ domains \in [version : Versions, extent : Extents] \cup {NoList}
  /\ booting \in BOOLEAN
  /\ pc \in [Updaters -> Labels]
  /\ target \in [Updaters -> Slots]
  /\ buf \in [Updaters -> Versions \cup {None}]
  /\ sha \in [Updaters -> Versions \cup {None}]

(* A partition is erased or written only while it is neither the one a      *)
(* restart would serve nor the one queries are answered from right now.     *)
EraseIsSafe ==
  \A u \in Updaters :
    pc[u] \in {"erase", "write"} => target[u] \notin {bloom_slot, mapped}

(* The list file that is emptied and filled is not the active one, and the  *)
(* one that is activated is complete.                                       *)
ListWriteIsSafe ==
  \A u \in Updaters :
    /\ pc[u] \in {"open", "fetch", "sha", "verify"} => target[u] # list_slot
    /\ pc[u] = "list_activate" => sd[target[u]] \in Versions

(* Both artifacts keep the promise of ServedArtifact, across power losses.   *)
(* Of the list it is: what is in memory is the active version, whole or as   *)
(* far as it was read, or, when that cannot be opened, the file prepared by   *)
(* hand, or nothing; never a file that is torn, another version than the one *)
(* activated last, or one that was rejected.  That the list which was served *)
(* before is kept when the load of a new one fails is not promised: the code *)
(* frees it first.                                                           *)
Filter == INSTANCE ServedArtifact WITH
  Extents <- {"whole"},
  fallbacks <- {[version |-> Seed, extent |-> "whole"]},
  stored <- flash[bloom_slot],
  served <- [version |-> IF mapped = Seed THEN Seed ELSE flash[mapped],
             extent |-> "whole"]

List == INSTANCE ServedArtifact WITH
  fallbacks <- {NoList} \cup Contents(legacy),
  stored <- sd[list_slot],
  served <- domains

FilterServed == Filter!Spec
ListServed   == List!Spec

-----------------------------------------------------------------------------
(* A statement of blocklist_updater.h:24-25 that the code does not keep.    *)

(* "... can never leave the device without a working (if stale) filter": an *)
(* active filter that queries are answered from is a complete version.       *)
WorkingFilter == mapped = bloom_slot => flash[mapped] \in Versions
=============================================================================
