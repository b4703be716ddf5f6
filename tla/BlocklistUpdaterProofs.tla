----------------------- MODULE BlocklistUpdaterProofs -----------------------
(***************************************************************************)
(* Proofs about BlocklistUpdater with at most one update task at a time,   *)
(* for every set of versions: what is erased, written or emptied is never  *)
(* what is served or would be after a restart, and both artifacts keep the *)
(* promise of ServedArtifact through failures and power losses.  The code  *)
(* does nothing to keep two tasks apart, so the assumption is needed; the  *)
(* run with two tasks shows what happens without it.                       *)
(***************************************************************************)
EXTENDS BlocklistUpdater, TLAPS

SingleUpdater == \A u, w \in Updaters : u = w

(* The filter between two steps of the update.  The chosen partition stays   *)
(* the inactive one until the task itself activates it, and only while the   *)
(* task is about to reload may the other partition still be mapped.          *)
FilterInv ==
  /\ flash[bloom_slot] # Torn
  /\ mapped \in Slots => flash[mapped] \in Versions
  /\ mapped \in {bloom_slot, Seed} \/ \E u \in Updaters : pc[u] = "reload"
  /\ \A u \in Updaters :
       /\ pc[u] \in {"download", "erase", "write", "activate"}
            => target[u] = Other(bloom_slot)
       /\ pc[u] \in {"erase", "write"} => buf[u] \in Versions
       /\ pc[u] = "write" => flash[target[u]] = Erased
       /\ pc[u] = "activate" => flash[target[u]] \in Versions

(* The list likewise: the file being filled is the inactive one, and it is   *)
(* complete when it is about to be activated.                                *)
ListInv ==
  /\ sd[list_slot] # Torn
  /\ \A u \in Updaters :
       /\ pc[u] \in {"open", "fetch", "sha", "verify", "list_activate"}
            => target[u] = Other(list_slot)
       /\ pc[u] = "verify" => sha[u] \in Versions
       /\ pc[u] = "list_activate" => sd[target[u]] \in Versions

(* The update tasks are started last. *)
BootInv == booting => \A u \in Updaters : pc[u] = "idle"

UInv == TypeOK /\ FilterInv /\ ListInv /\ BootInv

LEMMA OtherSlot ==
  /\ \A s \in Slots : Other(s) \in Slots /\ Other(s) # s
  /\ \A s, t \in Slots : s = t \/ s = Other(t)
BY DEF Slots, Other

-----------------------------------------------------------------------------
LEMMA UInit == Init => UInv
BY UpdaterAssumption
   DEF Init, UInv, TypeOK, FilterInv, ListInv, BootInv, Loadable, Slots, Labels,
       Erased, Torn, Absent, Seed, Unavailable, None, NoList

(* Type correctness, action by action. *)
LEMMA UTypeStep == UInv /\ [Next]_vars => TypeOK'
<1> SUFFICES ASSUME UInv, [Next]_vars PROVE TypeOK'
  OBVIOUS
<1> USE DEF UInv
<1>1. ASSUME NEW u \in Updaters,
             \/ StartCheck(u) \/ DownloadBloom(u) \/ DownloadBloomFails(u)
             \/ ActivateSlot(u) \/ ActivateSlotFails(u)
      PROVE  TypeOK'
  BY <1>1, OtherSlot
     DEF TypeOK, StartCheck, DownloadBloom, DownloadBloomFails, ActivateSlot,
         ActivateSlotFails, Goto, Labels, filterVars, listVars, bootVars
<1>2. ASSUME NEW u \in Updaters, EraseSlot(u) PROVE TypeOK'
  BY <1>2 DEF TypeOK, EraseSlot, Goto, Labels, listVars, bootVars
<1>3. ASSUME NEW u \in Updaters, WriteSlot(u) PROVE TypeOK'
  BY <1>3 DEF TypeOK, FilterInv, WriteSlot, At, Goto, Labels, listVars, bootVars
<1>4. ASSUME NEW u \in Updaters, ReloadFilter(u) PROVE TypeOK'
  BY <1>4 DEF TypeOK, ReloadFilter, Loadable, Goto, Labels, listVars, bootVars
<1>5. ASSUME NEW u \in Updaters, StartList(u) PROVE TypeOK'
  BY <1>5, OtherSlot
     DEF TypeOK, StartList, Goto, Labels, filterVars, listVars, bootVars
<1>6. ASSUME NEW u \in Updaters, OpenList(u) \/ FetchList(u) PROVE TypeOK'
  BY <1>6 DEF TypeOK, OpenList, FetchList, Goto, Labels, filterVars, bootVars
<1>7. ASSUME NEW u \in Updaters, FetchSha(u) \/ AcceptList(u) PROVE TypeOK'
  BY <1>7 DEF TypeOK, FetchSha, AcceptList, Goto, Labels, filterVars, listVars, bootVars
<1>8. ASSUME NEW u \in Updaters, RejectList(u) \/ ActivateList(u) PROVE TypeOK'
  BY <1>8 DEF TypeOK, RejectList, ActivateList, Goto, Labels, filterVars, bootVars
<1>9. sd[list_slot] \in Versions \cup {Absent} /\ legacy \in Versions \cup {Absent}
  BY DEF TypeOK, ListInv
<1>10. Readable \subseteq [version : Versions, extent : Extents] \cup {NoList}
  BY <1>9 DEF Readable, Contents
<1>11. ASSUME NEW u \in Updaters, FreeList(u) \/ LoadList(u) PROVE TypeOK'
  BY <1>10, <1>11 DEF TypeOK, FreeList, LoadList, Goto, Labels, filterVars, bootVars
<1>12. CASE PowerLoss
  <2>1. flash' \in [Slots -> Versions \cup {Erased, Torn}]
    BY <1>12 DEF TypeOK, PowerLoss
  <2>2. QED
    BY <1>12, <2>1 DEF TypeOK, PowerLoss, Slots, Labels
<1>13. CASE BootList
  BY <1>10, <1>13 DEF TypeOK, BootList, filterVars, localVars
<1>14. CASE UNCHANGED vars
  BY <1>14 DEF TypeOK, vars, filterVars, listVars, bootVars, localVars
<1> QED
  BY <1>1, <1>2, <1>3, <1>4, <1>5, <1>6, <1>7, <1>8, <1>11, <1>12, <1>13, <1>14
     DEF Next, Check

-----------------------------------------------------------------------------
(* The steps on the list do not disturb the filter, and the other way round. *)
LEMMA FilterStep ==
  SingleUpdater /\ UInv /\ [Next]_vars => FilterInv'
<1> SUFFICES ASSUME SingleUpdater, UInv, [Next]_vars PROVE FilterInv'
  OBVIOUS
<1>0. TypeOK /\ FilterInv /\ BootInv
  BY DEF UInv
<1>1. ASSUME NEW u \in Updaters, StartCheck(u) PROVE FilterInv'
  <2>1. /\ pc' = [pc EXCEPT ![u] = "download"]
        /\ target' = [target EXCEPT ![u] = Other(bloom_slot)]
        /\ pc[u] = "idle"
        /\ UNCHANGED <<flash, bloom_slot, mapped, buf>>
    BY <1>1 DEF StartCheck, At, Goto, filterVars
  <2>2. QED
    BY <1>0, <2>1 DEF SingleUpdater, FilterInv, TypeOK
<1>2. ASSUME NEW u \in Updaters, DownloadBloom(u) PROVE FilterInv'
  <2>1. PICK v \in Versions :
        /\ pc' = [pc EXCEPT ![u] = "erase"]
        /\ buf' = [buf EXCEPT ![u] = v]
        /\ pc[u] = "download"
        /\ UNCHANGED <<flash, bloom_slot, mapped, target>>
    BY <1>2 DEF DownloadBloom, At, Goto, filterVars
  <2>2. QED
    BY <1>0, <2>1 DEF SingleUpdater, FilterInv, TypeOK
<1>3. ASSUME NEW u \in Updaters, EraseSlot(u) PROVE FilterInv'
  <2>1. /\ pc[u] = "erase"
        /\ UNCHANGED <<bloom_slot, mapped, target>>
        /\ \/ /\ flash' = [flash EXCEPT ![target[u]] = Erased]
              /\ pc' = [pc EXCEPT ![u] = "write"] /\ UNCHANGED buf
           \/ /\ flash' = [flash EXCEPT ![target[u]] = Torn]
              /\ pc' = [pc EXCEPT ![u] = "list"]
    BY <1>3 DEF EraseSlot, At, Goto
  <2>2. target[u] = Other(bloom_slot) /\ mapped \in {bloom_slot, Seed}
    BY <1>0, <2>1 DEF FilterInv, SingleUpdater
  <2>3. flash'[bloom_slot] = flash[bloom_slot]
    BY <1>0, <2>1, <2>2, OtherSlot DEF TypeOK
  <2>4. mapped \in Slots => flash'[mapped] = flash[mapped]
    BY <2>2, <2>3 DEF Slots, Seed
  <2>5. pc'[u] = "write" => flash'[target[u]] = Erased
    BY <1>0, <2>1 DEF TypeOK
  <2>6. QED
    BY <1>0, <2>1, <2>2, <2>3, <2>4, <2>5 DEF SingleUpdater, FilterInv, TypeOK
<1>4. ASSUME NEW u \in Updaters, WriteSlot(u) PROVE FilterInv'
  <2>1. /\ pc[u] = "write"
        /\ UNCHANGED <<bloom_slot, mapped, target>>
        /\ \/ /\ flash' = [flash EXCEPT ![target[u]] = buf[u]]
              /\ pc' = [pc EXCEPT ![u] = "activate"]
           \/ /\ flash' = [flash EXCEPT ![target[u]] = Torn]
              /\ pc' = [pc EXCEPT ![u] = "list"]
    BY <1>0, <1>4 DEF WriteSlot, At, Goto, FilterInv
  <2>2. /\ target[u] = Other(bloom_slot) /\ mapped \in {bloom_slot, Seed}
        /\ buf[u] \in Versions
    BY <1>0, <2>1 DEF FilterInv, SingleUpdater
  <2>3. flash'[bloom_slot] = flash[bloom_slot]
    BY <1>0, <2>1, <2>2, OtherSlot DEF TypeOK
  <2>4. mapped \in Slots => flash'[mapped] = flash[mapped]
    BY <2>2, <2>3 DEF Slots, Seed
  <2>5. pc'[u] = "activate" => flash'[target[u]] \in Versions
    BY <1>0, <2>1, <2>2 DEF TypeOK
  <2>6. QED
    BY <1>0, <2>1, <2>2, <2>3, <2>4, <2>5 DEF SingleUpdater, FilterInv, TypeOK
<1>5. ASSUME NEW u \in Updaters, ActivateSlot(u) PROVE FilterInv'
  <2>1. /\ pc[u] = "activate"
        /\ pc' = [pc EXCEPT ![u] = "reload"]
        /\ bloom_slot' = target[u]
        /\ UNCHANGED <<flash, mapped, target, buf>>
    BY <1>5 DEF ActivateSlot, At, Goto
  <2>2. flash'[bloom_slot'] # Torn
    BY <1>0, <2>1, UpdaterAssumption DEF FilterInv
  <2>3. QED
    BY <1>0, <2>1, <2>2 DEF SingleUpdater, FilterInv, TypeOK
<1>6. ASSUME NEW u \in Updaters, ReloadFilter(u) PROVE FilterInv'
  <2>1. /\ pc[u] = "reload"
        /\ pc' = [pc EXCEPT ![u] = "list"]
        /\ mapped' \in {bloom_slot, Seed}
        /\ mapped' # Seed => mapped' = bloom_slot /\ flash[bloom_slot] # Erased
        /\ UNCHANGED <<flash, bloom_slot, target, buf>>
    BY <1>6 DEF ReloadFilter, At, Goto, Loadable
  <2>2. mapped' \in Slots => flash'[mapped'] \in Versions
    BY <1>0, <2>1 DEF FilterInv, TypeOK, Slots, Seed
  <2>3. QED
    BY <1>0, <2>1, <2>2 DEF SingleUpdater, FilterInv, TypeOK
<1>7. ASSUME NEW u \in Updaters, NEW l \in Labels,
             l \notin {"download", "erase", "write", "activate", "reload"},
             pc[u] # "reload",
             pc' = [pc EXCEPT ![u] = l],
             UNCHANGED <<flash, bloom_slot, mapped>>
      PROVE  FilterInv'
  BY <1>0, <1>7 DEF SingleUpdater, FilterInv, TypeOK
<1>8. ASSUME NEW u \in Updaters, DownloadBloomFails(u) \/ ActivateSlotFails(u)
      PROVE  FilterInv'
  BY <1>7, <1>8 DEF DownloadBloomFails, ActivateSlotFails, At, Goto, Labels, filterVars
<1>9. ASSUME NEW u \in Updaters, StartList(u) PROVE FilterInv'
  <2>1. pc[u] = "list" /\ UNCHANGED <<flash, bloom_slot, mapped>>
    BY <1>9 DEF StartList, At, filterVars
  <2>2. PICK l \in {"open", "idle"} : pc' = [pc EXCEPT ![u] = l]
    BY <1>9 DEF StartList, Goto
  <2>3. QED
    BY <1>7, <2>1, <2>2 DEF Labels
<1>10. ASSUME NEW u \in Updaters, OpenList(u) \/ FetchList(u) \/ FetchSha(u)
       PROVE  FilterInv'
  BY <1>7, <1>10 DEF OpenList, FetchList, FetchSha, At, Goto, Labels, filterVars
<1>11. ASSUME NEW u \in Updaters, AcceptList(u) \/ RejectList(u) \/ ActivateList(u)
       PROVE  FilterInv'
  BY <1>7, <1>11 DEF AcceptList, RejectList, ActivateList, At, Goto, Labels, filterVars
<1>12. ASSUME NEW u \in Updaters, FreeList(u) \/ LoadList(u) PROVE FilterInv'
  BY <1>7, <1>12 DEF FreeList, LoadList, At, Goto, Labels, filterVars
<1>13. CASE PowerLoss
  <2>1. /\ bloom_slot' = bloom_slot
        /\ pc' = [u \in Updaters |-> "idle"]
        /\ mapped' \in {Seed, bloom_slot}
        /\ mapped' # Seed => flash'[bloom_slot] # Erased
    BY <1>13 DEF PowerLoss
  <2>2. PICK S \in SUBSET {target[u] : u \in {w \in Updaters : pc[w] \in {"erase", "write"}}} :
          flash' = [s \in Slots |-> IF s \in S THEN Torn ELSE flash[s]]
    BY <1>13 DEF PowerLoss
  <2>3. bloom_slot \notin S
    BY <1>0, OtherSlot DEF FilterInv, TypeOK
  <2>4. flash'[bloom_slot] = flash[bloom_slot]
    BY <1>0, <2>2, <2>3 DEF TypeOK
  <2>5. mapped' \in Slots => flash'[mapped'] \in Versions
    BY <1>0, <2>1, <2>4 DEF FilterInv, TypeOK, Slots, Seed
  <2>6. QED
    BY <1>0, <2>1, <2>4, <2>5 DEF FilterInv
<1>14. CASE BootList \/ UNCHANGED vars
  BY <1>0, <1>14 DEF BootList, FilterInv, vars, filterVars, localVars
<1> QED
  BY <1>1, <1>2, <1>3, <1>4, <1>5, <1>6, <1>8, <1>9, <1>10, <1>11, <1>12, <1>13, <1>14
     DEF Next, Check

LEMMA ListStep ==
  SingleUpdater /\ UInv /\ [Next]_vars => ListInv'
<1> SUFFICES ASSUME SingleUpdater, UInv, [Next]_vars PROVE ListInv'
  OBVIOUS
<1>0. TypeOK /\ ListInv
  BY DEF UInv
<1>1. ASSUME NEW u \in Updaters, NEW l \in Labels,
             l \notin {"open", "fetch", "sha", "verify", "list_activate"},
             pc' = [pc EXCEPT ![u] = l],
             UNCHANGED <<sd, list_slot>>
      PROVE  ListInv'
  BY <1>0, <1>1 DEF SingleUpdater, ListInv, TypeOK
<1>2. ASSUME NEW u \in Updaters,
             \/ StartCheck(u) \/ DownloadBloom(u) \/ DownloadBloomFails(u)
             \/ ActivateSlot(u) \/ ActivateSlotFails(u) \/ ReloadFilter(u)
      PROVE  ListInv'
  BY <1>1, <1>2 DEF StartCheck, DownloadBloom, DownloadBloomFails, ActivateSlot,
                    ActivateSlotFails, ReloadFilter, Goto, Labels, listVars
<1>3. ASSUME NEW u \in Updaters, EraseSlot(u) PROVE ListInv'
  BY <1>1, <1>3 DEF EraseSlot, Goto, Labels, listVars
<1>4. ASSUME NEW u \in Updaters, WriteSlot(u) PROVE ListInv'
  BY <1>1, <1>4 DEF WriteSlot, Goto, Labels, listVars
<1>5. ASSUME NEW u \in Updaters, StartList(u) PROVE ListInv'
  <2>1. CASE mounted
    <3>1. /\ pc' = [pc EXCEPT ![u] = "open"]
          /\ target' = [target EXCEPT ![u] = Other(list_slot)]
          /\ UNCHANGED <<sd, list_slot, sha>>
      BY <1>5, <2>1 DEF StartList, Goto, listVars
    <3>2. QED
      BY <1>0, <3>1 DEF SingleUpdater, ListInv, TypeOK
  <2>2. CASE ~mounted
    BY <1>1, <1>5, <2>2 DEF StartList, Goto, Labels, listVars
  <2>3. QED
    BY <2>1, <2>2
<1>6. ASSUME NEW u \in Updaters, target[u] = Other(list_slot),
             NEW c \in Versions \cup {Torn, Absent},
             sd' = [sd EXCEPT ![target[u]] = c] \/ sd' = sd
      PROVE  sd'[list_slot] = sd[list_slot]
  BY <1>0, <1>6, OtherSlot DEF TypeOK
<1>7. ASSUME NEW u \in Updaters, OpenList(u) PROVE ListInv'
  <2>1. /\ pc[u] = "open" /\ UNCHANGED <<list_slot, target, sha>>
        /\ \/ sd' = [sd EXCEPT ![target[u]] = Torn] /\ pc' = [pc EXCEPT ![u] = "fetch"]
           \/ sd' = sd /\ pc' = [pc EXCEPT ![u] = "idle"]
    BY <1>7 DEF OpenList, At, Goto
  <2>2. sd'[list_slot] = sd[list_slot]
    BY <1>0, <1>6, <2>1 DEF ListInv
  <2>3. QED
    BY <1>0, <2>1, <2>2 DEF SingleUpdater, ListInv, TypeOK
<1>8. ASSUME NEW u \in Updaters, FetchList(u) PROVE ListInv'
  <2>1. /\ pc[u] = "fetch" /\ UNCHANGED <<list_slot, target, sha>>
        /\ \/ /\ \E c \in Versions \cup {Torn} : sd' = [sd EXCEPT ![target[u]] = c]
              /\ pc' = [pc EXCEPT ![u] = "sha"]
           \/ sd' = sd /\ pc' = [pc EXCEPT ![u] = "idle"]
    BY <1>8 DEF FetchList, At, Goto
  <2>2. sd'[list_slot] = sd[list_slot]
    BY <1>0, <1>6, <2>1 DEF ListInv
  <2>3. QED
    BY <1>0, <2>1, <2>2 DEF SingleUpdater, ListInv, TypeOK
<1>9. ASSUME NEW u \in Updaters, FetchSha(u) PROVE ListInv'
  <2>1. PICK v \in Versions :
          /\ pc[u] = "sha" /\ pc' = [pc EXCEPT ![u] = "verify"]
          /\ sha' = [sha EXCEPT ![u] = v]
          /\ UNCHANGED <<sd, list_slot, target>>
    BY <1>9 DEF FetchSha, At, Goto, listVars
  <2>2. QED
    BY <1>0, <2>1 DEF SingleUpdater, ListInv, TypeOK
<1>10. ASSUME NEW u \in Updaters, AcceptList(u) PROVE ListInv'
  <2>1. /\ pc[u] = "verify" /\ pc' = [pc EXCEPT ![u] = "list_activate"]
        /\ sd[target[u]] = sha[u]
        /\ UNCHANGED <<sd, list_slot, target>>
    BY <1>10 DEF AcceptList, At, Goto, listVars
  <2>2. QED
    BY <1>0, <2>1 DEF SingleUpdater, ListInv, TypeOK
<1>11. ASSUME NEW u \in Updaters, RejectList(u) PROVE ListInv'
  <2>1. /\ pc[u] \in {"sha", "verify"} /\ pc' = [pc EXCEPT ![u] = "idle"]
        /\ sd' = [sd EXCEPT ![target[u]] = Absent]
        /\ UNCHANGED <<list_slot, target>>
    BY <1>11 DEF RejectList, At, Goto
  <2>2. sd'[list_slot] = sd[list_slot]
    BY <1>0, <1>6, <2>1 DEF ListInv
  <2>3. QED
    BY <1>0, <2>1, <2>2 DEF SingleUpdater, ListInv, TypeOK
<1>12. ASSUME NEW u \in Updaters, ActivateList(u) PROVE ListInv'
  <2>1. CASE list_slot' = target[u] /\ pc' = [pc EXCEPT ![u] = "list_free"]
    <3>1. sd[target[u]] \in Versions /\ UNCHANGED <<sd, target, sha>>
      BY <1>0, <1>12 DEF ActivateList, At, ListInv
    <3>2. sd'[list_slot'] # Torn
      BY <2>1, <3>1, UpdaterAssumption
    <3>3. QED
      BY <1>0, <2>1, <3>1, <3>2 DEF SingleUpdater, ListInv, TypeOK
  <2>2. CASE UNCHANGED list_slot /\ pc' = [pc EXCEPT ![u] = "idle"]
    BY <1>1, <1>12, <2>2 DEF ActivateList, Labels
  <2>3. QED
    BY <1>12, <2>1, <2>2 DEF ActivateList, Goto
<1>13. ASSUME NEW u \in Updaters, FreeList(u) \/ LoadList(u) PROVE ListInv'
  BY <1>1, <1>13 DEF FreeList, LoadList, Goto, Labels
<1>14. CASE PowerLoss
  BY <1>0, <1>14 DEF PowerLoss, ListInv
<1>15. CASE BootList \/ UNCHANGED vars
  BY <1>0, <1>15 DEF BootList, ListInv, vars, listVars, localVars
<1> QED
  BY <1>2, <1>3, <1>4, <1>5, <1>7, <1>8, <1>9, <1>10, <1>11, <1>12, <1>13, <1>14, <1>15
     DEF Next, Check

LEMMA BootStep == UInv /\ [Next]_vars => BootInv'
<1> SUFFICES ASSUME UInv, [Next]_vars PROVE BootInv'
  OBVIOUS
<1>1. ASSUME NEW u \in Updaters, Check(u) PROVE ~booting'
  <2>1. ~booting
    BY <1>1 DEF Check, StartCheck, DownloadBloom, DownloadBloomFails, EraseSlot,
      WriteSlot, ActivateSlot, ActivateSlotFails, ReloadFilter, StartList, OpenList,
      FetchList, FetchSha, AcceptList, RejectList, ActivateList, FreeList, LoadList,
      At, UInv, BootInv
  <2>2. booting' = booting
    BY <1>1 DEF Check, StartCheck, DownloadBloom, DownloadBloomFails, EraseSlot,
      WriteSlot, ActivateSlot, ActivateSlotFails, ReloadFilter, StartList, OpenList,
      FetchList, FetchSha, AcceptList, RejectList, ActivateList, FreeList, LoadList,
      bootVars
  <2>3. QED
    BY <2>1, <2>2
<1>2. CASE PowerLoss
  BY <1>2 DEF PowerLoss, BootInv
<1>3. CASE BootList
  BY <1>3 DEF BootList, BootInv
<1>4. CASE UNCHANGED vars
  BY <1>4 DEF UInv, BootInv, vars, bootVars, localVars
<1> QED
  BY <1>1, <1>2, <1>3, <1>4 DEF Next, BootInv

-----------------------------------------------------------------------------
(* The invariant of a device with one update task at a time.                 *)
THEOREM UpdaterInvariance ==
  ASSUME SingleUpdater
  PROVE  Spec => []UInv
<1>1. UInv /\ [Next]_vars => UInv'
  BY UTypeStep, FilterStep, ListStep, BootStep DEF UInv
<1>2. QED
  BY UInit, <1>1, PTL DEF Spec

(* Every variable keeps its type; a torn or missing file is never loaded.    *)
THEOREM UpdaterTypeCorrect ==
  ASSUME SingleUpdater
  PROVE  Spec => []TypeOK
<1>1. UInv => TypeOK
  BY DEF UInv
<1>2. QED
  BY <1>1, UpdaterInvariance, PTL

(* update_bloom erases and writes neither the active nor the mapped          *)
(* partition, whatever failed before and wherever the power went.            *)
THEOREM SafeErase ==
  ASSUME SingleUpdater
  PROVE  Spec => []EraseIsSafe
<1>1. UInv => EraseIsSafe
  <2> SUFFICES ASSUME UInv, NEW u \in Updaters, pc[u] \in {"erase", "write"}
               PROVE  target[u] \notin {bloom_slot, mapped}
    BY DEF EraseIsSafe
  <2>1. target[u] = Other(bloom_slot) /\ mapped \in {bloom_slot, Seed}
    BY DEF UInv, FilterInv, SingleUpdater
  <2>2. QED
    BY <2>1, OtherSlot DEF UInv, TypeOK, Slots, Seed
<1>2. QED
  BY <1>1, UpdaterInvariance, PTL

(* update_domain_list empties and fills only the inactive file, and what it  *)
(* activates is complete.                                                    *)
THEOREM SafeListWrite ==
  ASSUME SingleUpdater
  PROVE  Spec => []ListWriteIsSafe
<1>1. UInv => ListWriteIsSafe
  BY OtherSlot DEF UInv, ListInv, ListWriteIsSafe, TypeOK
<1>2. QED
  BY <1>1, UpdaterInvariance, PTL

-----------------------------------------------------------------------------
(* The Bloom filter keeps ServedArtifact's promise.  UInv also of the next   *)
(* state tells what has been mapped or activated.                            *)
LEMMA FilterSimulation ==
  SingleUpdater /\ UInv /\ UInv' /\ [Next]_vars
    => [Filter!Replace \/ Filter!Load]_<<flash[bloom_slot],
         {[version |-> Seed, extent |-> "whole"]},
         [version |-> IF mapped = Seed THEN Seed ELSE flash[mapped], extent |-> "whole"]>>
<1> DEFINE store == flash[bloom_slot]
           spare == {[version |-> Seed, extent |-> "whole"]}
           content == IF mapped = Seed THEN Seed ELSE flash[mapped]
           serve == [version |-> content, extent |-> "whole"]
<1> SUFFICES ASSUME SingleUpdater, UInv, UInv', [Next]_vars,
                    ~(UNCHANGED <<store, spare, serve>>)
             PROVE  Filter!Replace \/ Filter!Load
  OBVIOUS
<1>0. TypeOK /\ FilterInv
  BY DEF UInv
<1>1. ASSUME UNCHANGED filterVars PROVE FALSE
  BY <1>1 DEF filterVars
<1>2. ASSUME NEW u \in Updaters, EraseSlot(u) \/ WriteSlot(u) PROVE FALSE
  <2>1. /\ pc[u] \in {"erase", "write"} /\ UNCHANGED <<bloom_slot, mapped>>
        /\ \E c : flash' = [flash EXCEPT ![target[u]] = c]
    BY <1>2 DEF EraseSlot, WriteSlot, At
  <2>2. target[u] = Other(bloom_slot) /\ mapped \in {bloom_slot, Seed}
    BY <1>0, <2>1 DEF FilterInv, SingleUpdater
  <2>3. flash'[bloom_slot] = flash[bloom_slot]
    BY <1>0, <2>1, <2>2, OtherSlot DEF TypeOK
  <2>4. QED
    BY <2>1, <2>2, <2>3
<1>3. ASSUME NEW u \in Updaters, ActivateSlot(u) PROVE Filter!Replace
  <2>1. flash'[bloom_slot'] \in Versions
    BY <1>0, <1>3 DEF ActivateSlot, At, FilterInv
  <2>2. UNCHANGED serve
    BY <1>3 DEF ActivateSlot
  <2>3. QED
    BY <2>1, <2>2 DEF Filter!Replace
<1>4. ASSUME UNCHANGED store, mapped' \in {bloom_slot', Seed} PROVE Filter!Load
  <2>1. FilterInv'
    BY DEF UInv
  <2>2. content' \in ({store} \cap Versions) \cup {Seed}
    BY <1>4, <2>1 DEF FilterInv, UInv, TypeOK
  <2>3. serve' \in Filter!Usable
    BY <2>2 DEF Filter!Usable
  <2>4. QED
    BY <1>4, <2>3 DEF Filter!Load
<1>5. ASSUME NEW u \in Updaters, ReloadFilter(u) PROVE Filter!Load
  BY <1>4, <1>5 DEF ReloadFilter, Loadable
<1>6. CASE PowerLoss
  <2>1. /\ bloom_slot' = bloom_slot /\ mapped' \in {bloom_slot', Seed}
    BY <1>6 DEF PowerLoss
  <2>2. PICK S \in SUBSET {target[u] : u \in {w \in Updaters : pc[w] \in {"erase", "write"}}} :
          flash' = [s \in Slots |-> IF s \in S THEN Torn ELSE flash[s]]
    BY <1>6 DEF PowerLoss
  <2>3. bloom_slot \notin S
    BY <1>0, OtherSlot DEF FilterInv, TypeOK
  <2>4. UNCHANGED store
    BY <1>0, <2>1, <2>2, <2>3 DEF TypeOK
  <2>5. QED
    BY <1>4, <2>1, <2>4
<1>7. ASSUME NEW u \in Updaters,
             \/ StartCheck(u) \/ DownloadBloom(u) \/ DownloadBloomFails(u)
             \/ ActivateSlotFails(u) \/ StartList(u) \/ OpenList(u) \/ FetchList(u)
             \/ FetchSha(u) \/ AcceptList(u) \/ RejectList(u) \/ ActivateList(u)
             \/ FreeList(u) \/ LoadList(u)
      PROVE  UNCHANGED filterVars
  BY <1>7 DEF StartCheck, DownloadBloom, DownloadBloomFails, ActivateSlotFails,
    StartList, OpenList, FetchList, FetchSha, AcceptList, RejectList, ActivateList,
    FreeList, LoadList
<1>8. CASE BootList \/ UNCHANGED vars
  BY <1>1, <1>8 DEF BootList, vars
<1> QED
  BY <1>1, <1>2, <1>3, <1>5, <1>6, <1>7, <1>8 DEF Next, Check

(* Through failures and power losses the filter that answers queries only    *)
(* changes to the stored filter or the seed, and the stored one only to a    *)
(* complete version (blocklist_updater.h:22-25).                             *)
THEOREM FilterImplements ==
  ASSUME SingleUpdater
  PROVE  Spec => FilterServed
<1>1. Init => Filter!Init
  BY DEF Init, Filter!Init, Filter!Usable, Loadable, Slots, Seed, Erased
<1>2. QED
  BY <1>1, FilterSimulation, UpdaterInvariance, PTL DEF Spec, FilterServed, Filter!Spec

LEMMA ListSimulation ==
  SingleUpdater /\ UInv /\ UInv' /\ [Next]_vars
    => [List!Replace \/ List!Load]_<<sd[list_slot], {NoList} \cup Contents(legacy), domains>>
<1> DEFINE store == sd[list_slot]
           spare == {NoList} \cup Contents(legacy)
<1> SUFFICES ASSUME SingleUpdater, UInv, UInv', [Next]_vars,
                    ~(UNCHANGED <<store, spare, domains>>)
             PROVE  List!Replace \/ List!Load
  OBVIOUS
<1>0. TypeOK /\ ListInv
  BY DEF UInv
<1>1. legacy' = legacy /\ UNCHANGED spare
  <2>1. legacy' = legacy
    BY DEF Next, Check, StartCheck, DownloadBloom, DownloadBloomFails, EraseSlot,
      WriteSlot, ActivateSlot, ActivateSlotFails, ReloadFilter, StartList, OpenList,
      FetchList, FetchSha, AcceptList, RejectList, ActivateList, FreeList, LoadList,
      PowerLoss, BootList, vars, bootVars
  <2>2. QED
    BY <2>1 DEF Contents
<1>2. ASSUME UNCHANGED <<sd, list_slot, domains>> PROVE FALSE
  BY <1>1, <1>2
<1>3. ASSUME UNCHANGED <<sd, list_slot>>, domains' \in Readable \cup {NoList}
      PROVE  List!Load
  <2>1. store \in Versions \cup {Absent}
    BY <1>0 DEF ListInv, TypeOK
  <2>2. Contents(store)
          \subseteq {[version |-> v, extent |-> e] : v \in {store} \cap Versions, e \in Extents}
    BY <2>1 DEF Contents
  <2>3. domains' \in List!Usable
    BY <1>3, <2>2 DEF Readable, List!Usable
  <2>4. QED
    BY <1>1, <1>3, <2>3 DEF List!Load
<1>4. ASSUME NEW u \in Updaters, OpenList(u) \/ FetchList(u) \/ RejectList(u)
      PROVE  FALSE
  <2>1. /\ pc[u] \in {"open", "fetch", "sha", "verify"}
        /\ \/ \E c : sd' = [sd EXCEPT ![target[u]] = c]
           \/ sd' = sd
        /\ UNCHANGED <<list_slot, domains>>
    BY <1>4 DEF OpenList, FetchList, RejectList, At
  <2>2. target[u] = Other(list_slot)
    BY <1>0, <2>1 DEF ListInv
  <2>3. sd'[list_slot] = sd[list_slot]
    BY <1>0, <2>1, <2>2, OtherSlot DEF TypeOK
  <2>4. QED
    BY <1>1, <2>1, <2>3
<1>5. ASSUME NEW u \in Updaters, ActivateList(u) PROVE List!Replace
  <2>1. /\ sd[target[u]] \in Versions
        /\ UNCHANGED <<sd, domains>>
        /\ list_slot' \in {target[u], list_slot}
    BY <1>0, <1>5 DEF ActivateList, At, ListInv
  <2>2. list_slot' = target[u]
    BY <1>2, <2>1
  <2>3. store' \in Versions
    BY <2>1, <2>2
  <2>4. QED
    BY <1>1, <2>1, <2>3 DEF List!Replace
<1>6. ASSUME NEW u \in Updaters, FreeList(u) \/ LoadList(u) PROVE List!Load
  <2>1. UNCHANGED <<sd, list_slot>> /\ domains' \in Readable \cup {NoList}
    BY <1>6 DEF FreeList, LoadList
  <2>2. QED
    BY <1>3, <2>1
<1>7. ASSUME PowerLoss \/ BootList PROVE List!Load
  <2>1. UNCHANGED <<sd, list_slot>> /\ domains' \in Readable \cup {NoList}
    BY <1>7 DEF PowerLoss, BootList
  <2>2. QED
    BY <1>3, <2>1
<1>8. ASSUME NEW u \in Updaters,
             \/ StartCheck(u) \/ DownloadBloom(u) \/ DownloadBloomFails(u)
             \/ EraseSlot(u) \/ WriteSlot(u)
             \/ ActivateSlot(u) \/ ActivateSlotFails(u) \/ ReloadFilter(u)
             \/ StartList(u) \/ FetchSha(u) \/ AcceptList(u)
      PROVE  FALSE
  <2>1. UNCHANGED listVars
    BY <1>8 DEF StartCheck, DownloadBloom, DownloadBloomFails, EraseSlot, WriteSlot,
      ActivateSlot, ActivateSlotFails, ReloadFilter, StartList, FetchSha, AcceptList
  <2>2. QED
    BY <1>2, <2>1 DEF listVars
<1>9. ASSUME UNCHANGED vars PROVE FALSE
  BY <1>2, <1>9 DEF vars, listVars
<1> QED
  BY <1>4, <1>5, <1>6, <1>7, <1>8, <1>9 DEF Next, Check

(* The exact list: what is in memory only changes to the stored list as far   *)
(* as it could be read, to the one prepared by hand likewise, or to none, and *)
(* the stored one only to a complete version.                                 *)
THEOREM ListImplements ==
  ASSUME SingleUpdater
  PROVE  Spec => ListServed
<1>1. Init => List!Init
  BY DEF Init, List!Init, List!Usable
<1>2. QED
  BY <1>1, ListSimulation, UpdaterInvariance, PTL DEF Spec, ListServed, List!Spec
=============================================================================
