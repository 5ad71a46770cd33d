----------------------------- MODULE FirmwareSlots -----------------------------
(***************************************************************************)
(* The two firmware slots across restarts: what src/ota_transfer.c writes  *)
(* to the inactive one and selects, how the boot loader of ESP-IDF         *)
(* (rollback enabled in sdkconfig) picks the slot to run, and the verdict  *)
(* of boot_health_task in main.c on an image that runs for the first time. *)
(*                                                                         *)
(* An image is a sequence of blocks; Signed are the images for which the   *)
(* holder of the update key has made a signature.                          *)
(***************************************************************************)
EXTENDS Integers, Sequences, SequencesExt

CONSTANTS
  Blocks,     \* the contents a block of an image may have
  MaxBlocks,  \* the largest image an update may announce
  Spare,      \* bound: the blocks that failed writes may have left behind
  Signed,     \* the images with a signature
  Faults      \* what may fail: "power", "flash"; "select", a selection that is
              \* stored although an error is reported

Slots  == {"ota_0", "ota_1"}
Images == BoundedSeq(Blocks, MaxBlocks) \ {<<>>}
NoImage == <<>>

Contents == BoundedSeq(Blocks, MaxBlocks + Spare)

ASSUME FirmwareAssumption ==
  /\ MaxBlocks \in Nat \ {0} /\ Spare \in Nat
  /\ Signed \subseteq Images /\ Signed # {}

VARIABLES
  flash,    \* the blocks in each slot, from its start
  state,    \* the state otadata keeps of each slot
  boot,     \* the slot otadata selects
  running,  \* the slot the chip runs
  health,   \* boot_health_task: "none" or "polling"
  overwritten   \* history: an update has begun in the selected slot

firmwareVars == <<flash, state, boot, running, health, overwritten>>

States == {"VALID", "NEW", "PENDING", "INVALID"}
OtherSlot(s) == IF s = "ota_0" THEN "ota_1" ELSE "ota_0"
SignedSlot(s) == \E n \in 1..MaxBlocks : n <= Len(flash[s]) /\ SubSeq(flash[s], 1, n) \in Signed

FirmwareInit ==
  /\ \E image \in Signed : flash = [s \in Slots |-> IF s = "ota_0" THEN image ELSE NoImage]
  /\ state = [s \in Slots |-> IF s = "ota_0" THEN "VALID" ELSE "INVALID"]
  /\ boot = "ota_0" /\ running = "ota_0" /\ health = "none" /\ overwritten = FALSE

-----------------------------------------------------------------------------
\* The boot loader: a new image becomes pending; one that is still pending has
\* had its chance and is given up for the other.
Bootloader(from, states) ==
  LET slot == IF states[from] = "PENDING" THEN OtherSlot(from) ELSE from
  IN /\ boot' = slot /\ running' = slot
     /\ state' = [s \in Slots |->
          CASE s = from /\ states[s] = "PENDING" -> "INVALID"
            [] s = slot /\ states[s] = "NEW" -> "PENDING"
            [] OTHER -> states[s]]
     /\ health' = IF states[slot] = "NEW" THEN "polling" ELSE "none"

\* esp_restart, a panic or power loss.  If the selected slot was overwritten the
\* boot loader starts a signed image that was left there, or the other slot when
\* it finds none.  (Anything else it may start is not this program.)
FirmwareRestart ==
  /\ \/ (overwritten => SignedSlot(boot)) /\ Bootloader(boot, state) /\ overwritten' = FALSE
     \/ /\ overwritten
        /\ running' = OtherSlot(boot) /\ health' = "none"
        /\ UNCHANGED <<boot, state, overwritten>>
  /\ UNCHANGED flash

\* esp_ota_mark_app_invalid_rollback_and_reboot
Rollback ==
  /\ Bootloader(OtherSlot(running), [state EXCEPT ![running] = "INVALID"])
  /\ UNCHANGED <<flash, overwritten>>

\* ota_trial_pending
OtaTrialPending == state[running] = "PENDING"

\* boot_health_task: the gauge proved healthy.  A trial image is kept, or
\* rolled back if that cannot be recorded.
HealthKeeps ==
  /\ health = "polling"
  /\ health' = "none"
  /\ state' = [state EXCEPT ![running] = "VALID"]
  /\ UNCHANGED <<flash, boot, running, overwritten>>

\* It did not within thirty seconds, or the image could not be marked.
HealthGivesUp == health = "polling" /\ OtaTrialPending /\ Rollback

-----------------------------------------------------------------------------
\* The calls of ota_transfer.c.  esp_ota_begin refuses while the running image
\* is on trial; it erases the slot, the selected one too.
EraseSlot(s) ==
  /\ ~OtaTrialPending
  /\ flash' = [flash EXCEPT ![s] = NoImage]
  /\ IF s = boot THEN overwritten' = TRUE /\ UNCHANGED state
                 ELSE state' = [state EXCEPT ![s] = "INVALID"] /\ UNCHANGED overwritten
  /\ UNCHANGED <<boot, running, health>>

\* esp_ota_write goes on where the last write ended.
WriteSlot(s, data) ==
  /\ flash' = [flash EXCEPT ![s] = @ \o data]
  /\ UNCHANGED <<state, boot, running, health, overwritten>>

\* esp_ota_set_boot_partition
SelectSlot(s) ==
  /\ boot' = s /\ state' = [state EXCEPT ![s] = "NEW"] /\ overwritten' = FALSE
  /\ UNCHANGED <<flash, running, health>>
=============================================================================
