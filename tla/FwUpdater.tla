----------------------------- MODULE FwUpdater -----------------------------
(***************************************************************************)
(* Firmware updates: fw_updater.c over two application partitions, the     *)
(* start of the network on which a new image's confirmation depends        *)
(* (eth_init.c), app_main's order of the two, and the settings and the     *)
(* buttons of the web page.  esp_https_ota, the bootloader and the         *)
(* driver's events are external.                                           *)
(*                                                                         *)
(* An image is an element of Images; on those of Working the network can   *)
(* come up, on the others it never does.  A partition that is erased or    *)
(* not completely written holds Partial, which the bootloader rejects.     *)
(***************************************************************************)
EXTENDS Naturals

CONSTANTS
  Images, Working,
  Tasks,            \* update tasks alive at once
  NetModes          \* the net_mode settings the user chooses from

Partial == "partial"
None    == "none"

ASSUME FwAssumption ==
  /\ Working \subseteq Images
  /\ {Partial, None} \cap Images = {}
  /\ NetModes \subseteq {"dhcp", "static"}
  /\ "dhcp" \in NetModes

Partitions == {0, 1}

(* Mutant of Other: updates go to the partition that is running. *)
SamePartition(p) == p

Other(p) == 1 - p

VARIABLES
  \* flash: survives a reboot
  image,            \* what each partition holds
  ota_state,        \* otadata: each partition's state
  boot,             \* otadata: the partition to start
  net_mode, static_ip,        \* NVS; static_ip is whether an address is stored
  \* RAM
  running,          \* the partition the program runs from
  app_main,         \* where app_main is
  driver,           \* the Ethernet driver: "off", or where its address comes from
  got_ip,           \* ETH_INIT_GOT_IP_BIT
  fw_confirm,       \* where confirm_boot_task is
  fw_update         \* where each update task is

flashVars == <<image, ota_state, boot>>
nvsVars   == <<net_mode, static_ip>>
netVars   == <<app_main, driver, got_ip>>
vars == <<flashVars, nvsVars, running, netVars, fw_confirm, fw_update>>

(* What is in RAM when a partition has been started. *)
Started(p) ==
  /\ running' = p
  /\ app_main' = "eth init"
  /\ driver' = "off"
  /\ got_ip' = FALSE
  /\ fw_confirm' = "none"
  /\ fw_update' = [t \in Tasks |-> "none"]

(* Flashed over USB: one image, no entry in otadata. *)
Init ==
  /\ \E v \in Working : image = [p \in Partitions |-> IF p = 0 THEN v ELSE Partial]
  /\ ota_state = [p \in Partitions |-> "undefined"]
  /\ boot = 0
  /\ net_mode = "dhcp" /\ static_ip = FALSE
  /\ running = 0
  /\ app_main = "eth init"
  /\ driver = "off"
  /\ got_ip = FALSE
  /\ fw_confirm = "none"
  /\ fw_update = [t \in Tasks |-> "none"]

-----------------------------------------------------------------------------
(* app_main and eth_init_start. *)

(* Mutant of EthFails: app_main checks the error and aborts. *)
EthFailsAborts == app_main' = "aborted" /\ UNCHANGED <<driver, got_ip>>

(* An error of eth_init_start is only logged. *)
EthFails == app_main' = "confirm" /\ UNCHANGED <<driver, got_ip>>

EthInit ==
  /\ app_main = "eth init"
  /\ EthFails \/ (app_main' = "address" /\ UNCHANGED <<driver, got_ip>>)
  /\ UNCHANGED <<flashVars, nvsVars, running, fw_confirm, fw_update>>

(* A stored address is set, and the bit with it, before the driver starts;  *)
(* without one, static mode falls back to DHCP.                              *)
UsesStatic == net_mode = "static" /\ static_ip

Address ==
  /\ app_main = "address"
  /\ \/ UsesStatic /\ EthFails
     \/ app_main' = "eth start" /\ got_ip' = UsesStatic /\ UNCHANGED driver
  /\ UNCHANGED <<flashVars, nvsVars, running, fw_confirm, fw_update>>

EthStart ==
  /\ app_main = "eth start"
  /\ \/ EthFails
     \/ /\ driver' = IF UsesStatic THEN "static" ELSE "dhcp"
        /\ app_main' = "confirm"
        /\ UNCHANGED got_ip
  /\ UNCHANGED <<flashVars, nvsVars, running, fw_confirm, fw_update>>

(* got_ip_event_handler: the driver, the link and the DHCP server permitting *)
GotIp ==
  /\ driver = "dhcp"
  /\ ~got_ip
  /\ image[running] \in Working
  /\ got_ip' = TRUE
  /\ UNCHANGED <<flashVars, nvsVars, running, app_main, driver, fw_confirm, fw_update>>

(* fw_updater_confirm_boot_if_healthy; a task that cannot be created is not  *)
(* reported.                                                                  *)
ConfirmBootIfHealthy ==
  /\ app_main = "confirm"
  /\ app_main' = "serving"
  /\ fw_confirm' \in {"none", "created"}
  /\ UNCHANGED <<flashVars, nvsVars, running, driver, got_ip, fw_update>>

-----------------------------------------------------------------------------
(* confirm_boot_task. *)

ReadState ==
  /\ fw_confirm = "created"
  /\ fw_confirm' = IF ota_state[running] = "pending" THEN "waiting" ELSE "none"
  /\ UNCHANGED <<flashVars, nvsVars, running, netVars, fw_update>>

(* Mutant of NetworkUp: the result of the wait is not looked at. *)
NetworkUpOrNot == TRUE

NetworkUp == got_ip

(* The write to otadata may fail, and nobody is told. *)
MarkValid ==
  /\ fw_confirm = "waiting"
  /\ NetworkUp
  /\ \/ ota_state' = [ota_state EXCEPT ![running] = "valid"]
     \/ UNCHANGED ota_state
  /\ fw_confirm' = "none"
  /\ UNCHANGED <<image, boot, nvsVars, running, netVars, fw_update>>

(* Thirty seconds have passed. *)
GiveUp ==
  /\ fw_confirm = "waiting"
  /\ ~got_ip
  /\ fw_confirm' = "none"
  /\ UNCHANGED <<flashVars, nvsVars, running, netVars, fw_update>>

-----------------------------------------------------------------------------
(* The web page: settings for the next boot, and an update. *)
Reachable ==
  /\ app_main = "serving"
  /\ driver # "off"
  /\ image[running] \in Working

SetNetMode(m) ==
  /\ Reachable
  /\ net_mode' = m
  /\ UNCHANGED <<flashVars, static_ip, running, netVars, fw_confirm, fw_update>>

SetStaticIp ==
  /\ Reachable
  /\ static_ip' = TRUE
  /\ UNCHANGED <<flashVars, net_mode, running, netVars, fw_confirm, fw_update>>

Becomes(t, s) ==
  /\ fw_update' = [fw_update EXCEPT ![t] = s]
  /\ UNCHANGED <<nvsVars, running, netVars, fw_confirm>>

CheckAndUpdateAsync(t) ==
  /\ Reachable
  /\ fw_update[t] = "none"
  /\ Becomes(t, "connect")
  /\ UNCHANGED flashVars

(* async_update_task: any failure before the image is activated ends it. *)
UpdateFails(t) ==
  /\ fw_update[t] \in {"connect", "write", "end"}
  /\ Becomes(t, "none")
  /\ UNCHANGED flashVars

(* Mutant of OtaBegin: also while the running image is to be confirmed. *)
OtaBeginOnTrial(t) ==
  /\ fw_update[t] = "connect"
  /\ image' = [image EXCEPT ![Other(running)] = Partial]
  /\ Becomes(t, "write")
  /\ UNCHANGED <<ota_state, boot>>

(* esp_https_ota: the partition that is not running is erased, unless the   *)
(* running image is still to be confirmed,                                  *)
OtaBegin(t) ==
  /\ fw_update[t] = "connect"
  /\ ota_state[running] # "pending"
  /\ image' = [image EXCEPT ![Other(running)] = Partial]
  /\ Becomes(t, "write")
  /\ UNCHANGED <<ota_state, boot>>

(* ... written, perhaps across what another task is writing there,          *)
OtaWrite(t) ==
  /\ fw_update[t] = "write"
  /\ \E v \in Images \cup {Partial} : image' = [image EXCEPT ![Other(running)] = v]
  /\ Becomes(t, "end")
  /\ UNCHANGED <<ota_state, boot>>

(* ... and, when it verifies, chosen for the next boot.                     *)
OtaFinish(t) ==
  /\ fw_update[t] = "end"
  /\ image[Other(running)] # Partial
  /\ ota_state' = [ota_state EXCEPT ![Other(running)] = "new"]
  /\ boot' = Other(running)
  /\ Becomes(t, "restart")
  /\ UNCHANGED image

-----------------------------------------------------------------------------
(* The bootloader: an image still to be confirmed has had its boot; a new   *)
(* one gets it; one that does not verify is passed over.                    *)
Choice == IF ota_state[boot] = "pending" THEN Other(boot) ELSE boot

Bootloader ==
  /\ boot' = Choice
  /\ ota_state' = [p \in Partitions |->
       IF ota_state[p] = "pending" THEN "aborted"
       ELSE IF p = Choice /\ ota_state[p] = "new" THEN "pending"
       ELSE ota_state[p]]
  /\ Started(IF image[Choice] = Partial THEN Other(Choice) ELSE Choice)
  /\ UNCHANGED <<image, nvsVars>>

(* An update task restarts the device, *)
UpdateRestarts(t) ==
  /\ fw_update[t] = "restart"
  /\ Bootloader

(* ... and so do the user, a crash and the loss of power, at any time. *)
Restart == Bootloader

Next ==
  \/ EthInit \/ Address \/ EthStart \/ GotIp \/ ConfirmBootIfHealthy
  \/ ReadState \/ MarkValid \/ GiveUp
  \/ \E m \in NetModes : SetNetMode(m)
  \/ SetStaticIp
  \/ \E t \in Tasks : \/ CheckAndUpdateAsync(t) \/ UpdateFails(t)
                      \/ OtaBegin(t) \/ OtaWrite(t) \/ OtaFinish(t)
                      \/ UpdateRestarts(t)
  \/ Restart

Spec == Init /\ [][Next]_vars

-----------------------------------------------------------------------------
TypeOK ==
  /\ image \in [Partitions -> Images \cup {Partial}]
  /\ ota_state \in [Partitions -> {"undefined", "new", "pending", "valid", "aborted"}]
  /\ boot \in Partitions /\ running \in Partitions
  /\ net_mode \in NetModes /\ static_ip \in BOOLEAN
  /\ app_main \in {"eth init", "address", "eth start", "confirm", "serving"}
  /\ driver \in {"off", "dhcp", "static"}
  /\ got_ip \in BOOLEAN
  /\ fw_confirm \in {"none", "created", "waiting"}
  /\ fw_update \in [Tasks -> {"none", "connect", "write", "end", "restart"}]

(* Whatever the update tasks do, one or several, the device can be          *)
(* restarted: the running partition is complete, and while its image is to  *)
(* be confirmed so is the other one, from which it was updated.             *)
OnTrial == ota_state[running] = "pending"

CanRestart ==
  /\ image[running] # Partial
  /\ OnTrial => /\ image[Other(running)] # Partial
                /\ ota_state[Other(running)] \in {"undefined", "valid"}

(* fw_updater.h: an update gets one boot in which to be confirmed, and is   *)
(* rolled back by the next one otherwise, wherever the first is cut short   *)
(* and whatever other update tasks did to the partition meanwhile.          *)
Trial == INSTANCE FirmwareTrial WITH
  trusted <- IF OnTrial THEN image[Other(running)] ELSE image[running],
  running <- image[running],
  trial   <- OnTrial,
  staged  <- IF /\ ~OnTrial /\ boot = Other(running) /\ ota_state[boot] = "new"
                /\ image[boot] # Partial
             THEN image[boot] ELSE None

ImplementsTrial == Trial!Spec

(* fw_updater.h: it is confirmed when the network has come up.  So it is,   *)
(* when the address comes from DHCP: an image on which the network cannot   *)
(* come up is not confirmed, neither at once nor in a late race between the *)
(* address and the 30 seconds.                                              *)
ConfirmedOnline ==
  [][OnTrial /\ ota_state'[running] = "valid" /\ ~UsesStatic
       => image[running] \in Working]_vars

(* README.md: an automatic rollback if the new image never checks in        *)
(* healthy, whatever the address comes from.                                *)
BrokenRollsBack == ota_state[running] = "valid" => image[running] \in Working
=============================================================================
