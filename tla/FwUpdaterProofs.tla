-------------------------- MODULE FwUpdaterProofs --------------------------
(***************************************************************************)
(* Proofs about FwUpdater, for every set of images and any number of       *)
(* update tasks: the device can always be restarted, an update is a trial  *)
(* of one boot, and over DHCP only a working image passes it.              *)
(***************************************************************************)
EXTENDS FwUpdater, TLAPS

USE FwAssumption

(* What otadata says of the running partition, and of the other one when it *)
(* is chosen for the next boot; and that no update task is past its connect *)
(* when the running image is still to be confirmed, because such a task     *)
(* cannot have survived the reboot.                                         *)
BootOK ==
  /\ ota_state[running] \in {"undefined", "valid", "pending"}
  /\ OnTrial => boot = running /\ \A t \in Tasks : fw_update[t] \in {"none", "connect"}
  /\ boot = Other(running) => ota_state[boot] \in {"new", "pending"}

(* The bit stands for an address obtained, or for a static one.             *)
GotIpOK == got_ip => UsesStatic \/ image[running] \in Working

(* The confirming task waits only during a trial.                           *)
WaitOK == fw_confirm = "waiting" => OnTrial

IInv == TypeOK /\ CanRestart /\ BootOK /\ GotIpOK /\ WaitOK

LEMMA OtherPartition ==
  ASSUME NEW p \in Partitions
  PROVE  /\ Other(p) \in Partitions
         /\ Other(p) # p
         /\ Other(Other(p)) = p
         /\ Partitions = {p, Other(p)}
BY DEF Partitions, Other

LEMMA InitInv == Init => IInv
<1> SUFFICES ASSUME Init PROVE IInv
  OBVIOUS
<1> USE DEF Init, Partitions
<1>1. TypeOK
  BY DEF TypeOK
<1>2. CanRestart
  BY DEF CanRestart, OnTrial
<1>3. BootOK
  <2>1. Other(running) # boot
    BY OtherPartition
  <2> QED
    BY <2>1 DEF BootOK, OnTrial
<1>4. GotIpOK /\ WaitOK
  BY DEF GotIpOK, WaitOK
<1> QED
  BY <1>1, <1>2, <1>3, <1>4 DEF IInv

-----------------------------------------------------------------------------
(* The steps that change neither the flash nor the running partition.       *)
ProgramStep ==
  \/ EthInit \/ Address \/ EthStart \/ GotIp \/ ConfirmBootIfHealthy
  \/ ReadState \/ GiveUp
  \/ \E m \in NetModes : SetNetMode(m)
  \/ SetStaticIp
  \/ \E t \in Tasks : CheckAndUpdateAsync(t) \/ UpdateFails(t)

LEMMA ProgramKeepsFlash ==
  ASSUME ProgramStep
  PROVE  UNCHANGED <<flashVars, running>>
BY DEF ProgramStep, EthInit, Address, EthStart, GotIp, ConfirmBootIfHealthy, ReadState,
       GiveUp, SetNetMode, SetStaticIp, CheckAndUpdateAsync, UpdateFails, Becomes

LEMMA ProgramType ==
  ASSUME TypeOK, ProgramStep
  PROVE  TypeOK'
<1> USE DEF TypeOK, flashVars, nvsVars, netVars
<1>0. UNCHANGED <<image, ota_state, boot, running>>
  BY ProgramKeepsFlash
<1>1. CASE EthInit
  BY <1>0, <1>1 DEF EthInit, EthFails
<1>2. CASE Address
  BY <1>0, <1>2 DEF Address, EthFails, UsesStatic
<1>3. CASE EthStart
  BY <1>0, <1>3 DEF EthStart, EthFails
<1>4. CASE GotIp
  BY <1>0, <1>4 DEF GotIp
<1>5. CASE ConfirmBootIfHealthy
  BY <1>0, <1>5 DEF ConfirmBootIfHealthy
<1>6. CASE ReadState \/ GiveUp
  BY <1>0, <1>6 DEF ReadState, GiveUp
<1>7. CASE (\E m \in NetModes : SetNetMode(m)) \/ SetStaticIp
  BY <1>0, <1>7 DEF SetNetMode, SetStaticIp
<1>8. CASE \E t \in Tasks : CheckAndUpdateAsync(t) \/ UpdateFails(t)
  BY <1>0, <1>8 DEF CheckAndUpdateAsync, UpdateFails, Becomes
<1> QED
  BY <1>1, <1>2, <1>3, <1>4, <1>5, <1>6, <1>7, <1>8 DEF ProgramStep

(* A change of the settings can undo "static" only on a working image.      *)
LEMMA ProgramGotIp ==
  ASSUME TypeOK, GotIpOK, ProgramStep
  PROVE  GotIpOK'
<1> USE DEF GotIpOK, UsesStatic, flashVars, nvsVars, netVars
<1>0. UNCHANGED <<image, running>>
  BY ProgramKeepsFlash
<1>1. CASE EthInit
  BY <1>0, <1>1 DEF EthInit, EthFails
<1>2. CASE Address
  BY <1>0, <1>2 DEF Address, EthFails
<1>3. CASE EthStart
  BY <1>0, <1>3 DEF EthStart, EthFails
<1>4. CASE GotIp
  BY <1>0, <1>4 DEF GotIp
<1>5. CASE ConfirmBootIfHealthy \/ ReadState \/ GiveUp
  BY <1>0, <1>5 DEF ConfirmBootIfHealthy, ReadState, GiveUp
<1>6. CASE (\E m \in NetModes : SetNetMode(m)) \/ SetStaticIp
  BY <1>0, <1>6 DEF SetNetMode, SetStaticIp, Reachable
<1>7. CASE \E t \in Tasks : CheckAndUpdateAsync(t) \/ UpdateFails(t)
  <2>1. UNCHANGED <<nvsVars, netVars>>
    BY <1>7 DEF CheckAndUpdateAsync, UpdateFails, Becomes
  <2> QED
    BY <1>0, <2>1
<1> QED
  BY <1>1, <1>2, <1>3, <1>4, <1>5, <1>6, <1>7 DEF ProgramStep

LEMMA ProgramInv ==
  ASSUME IInv, ProgramStep
  PROVE  IInv' /\ UNCHANGED Trial!vars
<1> USE DEF IInv
<1>0. UNCHANGED <<image, ota_state, boot, running>>
  BY ProgramKeepsFlash DEF flashVars
<1>1. CanRestart'
  BY <1>0 DEF CanRestart, OnTrial
<1>2. ASSUME OnTrial, NEW t \in Tasks
      PROVE  fw_update'[t] \in {"none", "connect"}
  BY <1>2 DEF BootOK, TypeOK, ProgramStep, EthInit, Address, EthStart, GotIp,
              ConfirmBootIfHealthy, ReadState, GiveUp, SetNetMode, SetStaticIp,
              CheckAndUpdateAsync, UpdateFails, Becomes
<1>3. BootOK'
  BY <1>0, <1>2 DEF BootOK, OnTrial
<1>4. WaitOK'
  BY <1>0 DEF WaitOK, OnTrial, ProgramStep, EthInit, Address, EthStart, GotIp,
              ConfirmBootIfHealthy, ReadState, GiveUp, SetNetMode, SetStaticIp,
              CheckAndUpdateAsync, UpdateFails, Becomes
<1>5. UNCHANGED Trial!vars
  BY <1>0 DEF Trial!vars, OnTrial
<1> QED
  BY <1>1, <1>3, <1>4, <1>5, ProgramType, ProgramGotIp

-----------------------------------------------------------------------------
(* Confirming ends the trial: the image is the one to fall back on.         *)
LEMMA MarkValidInv ==
  ASSUME IInv, MarkValid
  PROVE  IInv' /\ (Trial!Confirm \/ UNCHANGED Trial!vars)
<1> USE DEF IInv
<1>1. /\ UNCHANGED <<image, boot, running, net_mode, static_ip, got_ip, fw_update>>
      /\ fw_confirm' = "none"
  BY DEF MarkValid, nvsVars, netVars
<1>2. OnTrial /\ boot = running /\ boot # Other(running)
  BY OtherPartition DEF MarkValid, WaitOK, BootOK, TypeOK
<1>3. TypeOK'
  BY DEF MarkValid, TypeOK, nvsVars, netVars
<1>4. GotIpOK' /\ WaitOK'
  BY <1>1 DEF GotIpOK, UsesStatic, WaitOK
<1>5. CASE ota_state' = [ota_state EXCEPT ![running] = "valid"]
  <2>1. /\ ota_state'[running] = "valid"
        /\ ota_state'[Other(running)] = ota_state[Other(running)]
    BY <1>5, OtherPartition DEF TypeOK
  <2>2. CanRestart' /\ BootOK'
    BY <1>1, <1>2, <2>1 DEF CanRestart, BootOK, OnTrial
  <2>3. Trial!Confirm
    BY <1>1, <1>2, <2>1 DEF Trial!Confirm, OnTrial
  <2> QED
    BY <1>3, <1>4, <2>2, <2>3
<1>6. CASE UNCHANGED ota_state
  <2>1. CanRestart' /\ BootOK'
    BY <1>1, <1>6 DEF CanRestart, BootOK, OnTrial
  <2>2. UNCHANGED Trial!vars
    BY <1>1, <1>6 DEF Trial!vars, OnTrial
  <2> QED
    BY <1>3, <1>4, <2>1, <2>2
<1> QED
  BY <1>5, <1>6 DEF MarkValid

(* An update writes the other partition, and only when there is no trial.   *)
OtaStep(t) == OtaBegin(t) \/ OtaWrite(t) \/ OtaFinish(t)

LEMMA OtaInv ==
  ASSUME IInv, NEW t \in Tasks, OtaStep(t)
  PROVE  IInv' /\ Trial!Stage
<1> USE DEF IInv, OtaStep
<1> DEFINE o == Other(running)
<1>0. o \in Partitions /\ o # running
  BY OtherPartition DEF TypeOK
<1>1. /\ UNCHANGED <<running, net_mode, static_ip, app_main, driver, got_ip, fw_confirm>>
      /\ fw_update' \in [Tasks -> {"none", "connect", "write", "end", "restart"}]
  BY DEF OtaBegin, OtaWrite, OtaFinish, Becomes, nvsVars, netVars, TypeOK
<1>2. ~OnTrial
  BY DEF OtaBegin, OtaWrite, OtaFinish, OnTrial, BootOK
<1>3. \E v \in Images \cup {Partial} : image' = [image EXCEPT ![o] = v]
  <2>1. CASE OtaBegin(t) \/ OtaWrite(t)
    BY <2>1 DEF OtaBegin, OtaWrite
  <2>2. CASE OtaFinish(t)
    <3>1. image' = [image EXCEPT ![o] = image[o]]
      BY <2>2 DEF OtaFinish, TypeOK
    <3>2. image[o] \in Images \cup {Partial}
      BY <1>0 DEF TypeOK
    <3> QED
      BY <3>1, <3>2
  <2> QED
    BY <2>1, <2>2
<1>4. \/ UNCHANGED <<ota_state, boot>>
      \/ ota_state' = [ota_state EXCEPT ![o] = "new"] /\ boot' = o
  BY DEF OtaBegin, OtaWrite, OtaFinish
<1> HIDE DEF OtaStep
<1>5. /\ image'[running] = image[running]
      /\ image' \in [Partitions -> Images \cup {Partial}]
  BY <1>0, <1>3 DEF TypeOK
<1>6. /\ ota_state'[running] = ota_state[running]
      /\ ota_state' \in [Partitions -> {"undefined", "new", "pending", "valid", "aborted"}]
      /\ boot' \in Partitions
      /\ boot' = o => ota_state'[boot'] \in {"new", "pending"}
  BY <1>0, <1>4 DEF TypeOK, BootOK
<1>7. ~OnTrial'
  BY <1>1, <1>2, <1>6 DEF OnTrial
<1>8. TypeOK'
  BY <1>1, <1>5, <1>6 DEF TypeOK
<1>9. CanRestart' /\ BootOK'
  BY <1>1, <1>5, <1>6, <1>7 DEF CanRestart, BootOK
<1>10. GotIpOK' /\ WaitOK'
  BY <1>1, <1>2, <1>5 DEF GotIpOK, WaitOK, UsesStatic
<1>11. Trial!Stage
  <2>1. image'[boot'] # Partial => image'[boot'] \in Images
    BY <1>5, <1>6
  <2> QED
    BY <1>1, <1>2, <1>5, <1>7, <2>1 DEF Trial!Stage, OnTrial
<1> QED
  BY <1>8, <1>9, <1>10, <1>11

(* A reboot: the other partition is started for its trial, the trusted one  *)
(* after a failed trial, or the same one again.                             *)
LEMMA BootloaderInv ==
  ASSUME IInv, Bootloader
  PROVE  IInv' /\ (Trial!BootStaged \/ Trial!BootTrusted)
<1> USE DEF IInv
<1> DEFINE r == running
           o == Other(running)
<1>0. /\ r \in Partitions /\ o \in Partitions /\ o # r
      /\ Other(o) = r
      /\ Partitions = {r, o}
  BY OtherPartition DEF TypeOK
<1>1. /\ UNCHANGED <<image, net_mode, static_ip>>
      /\ app_main' = "eth init" /\ driver' = "off" /\ got_ip' = FALSE
      /\ fw_confirm' = "none"
      /\ fw_update' = [t \in Tasks |-> "none"]
      /\ boot' = Choice
      /\ running' = IF image[Choice] = Partial THEN Other(Choice) ELSE Choice
  BY DEF Bootloader, Started, nvsVars
<1>2. \A p \in Partitions : ota_state'[p] =
        IF ota_state[p] = "pending" THEN "aborted"
        ELSE IF p = Choice /\ ota_state[p] = "new" THEN "pending"
        ELSE ota_state[p]
  BY DEF Bootloader
<1>3. TypeOK'
  <2>1. Choice \in Partitions
    BY OtherPartition DEF Choice, TypeOK
  <2>2. running' \in Partitions
    BY <1>1, <2>1, OtherPartition
  <2>3. ota_state' \in [Partitions -> {"undefined", "new", "pending", "valid", "aborted"}]
    BY DEF Bootloader, TypeOK
  <2> QED
    BY <1>1, <2>1, <2>2, <2>3 DEF TypeOK
<1>4. GotIpOK' /\ WaitOK' /\ \A t \in Tasks : fw_update'[t] \in {"none", "connect"}
  BY <1>1 DEF GotIpOK, WaitOK
<1>5. image[r] # Partial
  BY DEF CanRestart
<1>6. CASE boot = r /\ ota_state[r] = "pending"
  <2>1. Choice = o /\ image[o] # Partial /\ ota_state[o] \in {"undefined", "valid"}
    BY <1>6 DEF Choice, CanRestart, OnTrial
  <2>2. /\ running' = o /\ boot' = o
        /\ ota_state'[o] = ota_state[o] /\ ota_state'[r] = "aborted"
    BY <1>0, <1>1, <1>2, <1>6, <2>1
  <2>3. CanRestart' /\ BootOK'
    BY <1>0, <1>1, <2>1, <2>2 DEF CanRestart, BootOK, OnTrial
  <2>4. Trial!BootTrusted
    BY <1>0, <1>1, <1>6, <2>1, <2>2 DEF Trial!BootTrusted, OnTrial
  <2> QED
    BY <1>3, <1>4, <2>3, <2>4
<1>7. CASE boot = r /\ ota_state[r] # "pending"
  <2>1. Choice = r /\ ota_state[r] \in {"undefined", "valid"}
    BY <1>7 DEF Choice, BootOK
  <2>2. running' = r /\ boot' = r /\ ota_state'[r] = ota_state[r]
    BY <1>0, <1>1, <1>2, <1>5, <2>1
  <2>3. CanRestart' /\ BootOK'
    BY <1>0, <1>1, <1>5, <2>1, <2>2 DEF CanRestart, BootOK, OnTrial
  <2>4. Trial!BootTrusted
    BY <1>0, <1>1, <2>1, <2>2 DEF Trial!BootTrusted, OnTrial
  <2> QED
    BY <1>3, <1>4, <2>3, <2>4
<1>8. CASE boot = o
  <2>1. /\ ota_state[o] \in {"new", "pending"}
        /\ ota_state[r] \in {"undefined", "valid"}
    BY <1>0, <1>8 DEF BootOK, OnTrial
  <2>2. ota_state'[r] = ota_state[r]
    BY <1>0, <1>2, <2>1
  <2>3. CASE ota_state[o] = "new" /\ image[o] # Partial
    <3>1. Choice = o
      BY <1>8, <2>3 DEF Choice
    <3>2. running' = o /\ boot' = o /\ ota_state'[o] = "pending"
      BY <1>0, <1>1, <1>2, <2>3, <3>1
    <3>3. CanRestart' /\ BootOK'
      BY <1>0, <1>1, <1>4, <1>5, <2>1, <2>2, <2>3, <3>2 DEF CanRestart, BootOK, OnTrial
    <3>4. Trial!BootStaged
      <4>1. image[o] # None
        BY <1>0, <2>3 DEF TypeOK, None, Partial
      <4> QED
        BY <1>0, <1>1, <1>8, <2>1, <2>3, <3>2, <4>1 DEF Trial!BootStaged, OnTrial
    <3> QED
      BY <1>3, <1>4, <3>3, <3>4
  <2>4. CASE ota_state[o] = "new" /\ image[o] = Partial
    <3>1. Choice = o
      BY <1>8, <2>4 DEF Choice
    <3>2. running' = r /\ boot' = o /\ ota_state'[o] = "pending"
      BY <1>0, <1>1, <1>2, <2>4, <3>1
    <3>3. CanRestart' /\ BootOK'
      BY <1>0, <1>1, <1>5, <2>1, <2>2, <3>2 DEF CanRestart, BootOK, OnTrial
    <3>4. Trial!BootTrusted
      BY <1>0, <1>1, <2>1, <2>2, <3>2 DEF Trial!BootTrusted, OnTrial
    <3> QED
      BY <1>3, <1>4, <3>3, <3>4
  <2>5. CASE ota_state[o] = "pending"
    <3>1. Choice = r
      BY <1>0, <1>8, <2>5 DEF Choice
    <3>2. running' = r /\ boot' = r
      BY <1>1, <1>5, <3>1
    <3>3. CanRestart' /\ BootOK'
      BY <1>0, <1>1, <1>5, <2>1, <2>2, <3>2 DEF CanRestart, BootOK, OnTrial
    <3>4. Trial!BootTrusted
      BY <1>0, <1>1, <2>1, <2>2, <3>2 DEF Trial!BootTrusted, OnTrial
    <3> QED
      BY <1>3, <1>4, <3>3, <3>4
  <2> QED
    BY <2>1, <2>3, <2>4, <2>5
<1> QED
  BY <1>0, <1>6, <1>7, <1>8 DEF TypeOK

-----------------------------------------------------------------------------
LEMMA NextInv ==
  ASSUME IInv, [Next]_vars
  PROVE  /\ IInv'
         /\ [Trial!Stage \/ Trial!BootTrusted \/ Trial!BootStaged \/ Trial!Confirm]_Trial!vars
<1>1. CASE ProgramStep
  BY <1>1, ProgramInv
<1>2. CASE MarkValid
  BY <1>2, MarkValidInv
<1>3. CASE \E t \in Tasks : OtaStep(t)
  BY <1>3, OtaInv
<1>4. CASE Bootloader
  BY <1>4, BootloaderInv
<1>5. CASE UNCHANGED vars
  <2>1. UNCHANGED <<image, ota_state, boot, net_mode, static_ip, running, app_main,
                    driver, got_ip, fw_confirm, fw_update>>
    BY <1>5 DEF vars, flashVars, nvsVars, netVars
  <2>2. TypeOK' /\ GotIpOK' /\ WaitOK'
    BY <2>1 DEF IInv, TypeOK, GotIpOK, WaitOK, UsesStatic, OnTrial
  <2>3. CanRestart' /\ BootOK'
    BY <2>1 DEF IInv, CanRestart, BootOK, OnTrial
  <2>4. UNCHANGED Trial!vars
    BY <2>1 DEF Trial!vars, OnTrial
  <2> QED
    BY <2>2, <2>3, <2>4 DEF IInv
<1> QED
  BY <1>1, <1>2, <1>3, <1>4, <1>5 DEF Next, ProgramStep, OtaStep, UpdateRestarts, Restart

LEMMA Inductive == Spec => []IInv
BY InitInv, NextInv, PTL DEF Spec

THEOREM TypeCorrect == Spec => []TypeOK
<1>1. IInv => TypeOK
  BY DEF IInv
<1> QED
  BY <1>1, Inductive, PTL

(* The device can be restarted whatever any number of update tasks do: the  *)
(* partition it runs from is complete, and during a trial so is the one it  *)
(* was updated from.                                                        *)
THEOREM AlwaysRestartable == Spec => []CanRestart
<1>1. IInv => CanRestart
  BY DEF IInv
<1> QED
  BY <1>1, Inductive, PTL

(* fw_updater.c with the bootloader implements the one-boot trial.          *)
THEOREM UpdateIsTrial == Spec => ImplementsTrial
<1>1. Init => Trial!Init
  BY DEF Init, Trial!Init, OnTrial, Partitions, Other
<1> QED
  BY <1>1, Inductive, NextInv, PTL DEF Spec, ImplementsTrial, Trial!Spec

(* Over DHCP confirm_boot_task confirms only an image on which the network  *)
(* has come up.                                                             *)
THEOREM ConfirmsOnline == Spec => ConfirmedOnline
<1>1. ASSUME IInv, [Next]_vars, OnTrial, ota_state'[running] = "valid", ~UsesStatic
      PROVE  image[running] \in Working
  <2>1. CASE MarkValid
    BY <1>1, <2>1 DEF MarkValid, NetworkUp, IInv, GotIpOK
  <2>2. CASE ProgramStep \/ UNCHANGED vars
    BY <1>1, <2>2, ProgramKeepsFlash DEF OnTrial, vars, flashVars
  <2>3. CASE \E t \in Tasks : OtaStep(t)
    BY <1>1, <2>3 DEF OtaStep, OtaBegin, OtaWrite, OtaFinish, OnTrial, IInv, BootOK
  <2>4. CASE Bootloader
    BY <1>1, <2>4 DEF Bootloader, OnTrial, IInv, TypeOK
  <2> QED
    BY <1>1, <2>1, <2>2, <2>3, <2>4
       DEF Next, ProgramStep, OtaStep, UpdateRestarts, Restart
<1> QED
  BY <1>1, Inductive, PTL DEF Spec, ConfirmedOnline
=============================================================================
