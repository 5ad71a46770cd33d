------------------------------ MODULE ConfigBoot ------------------------------
(***************************************************************************)
(* The life of a configuration revision across restarts: the commit order  *)
(* of src/config_transfer.c (journal, marker, cancel), the trial journal   *)
(* of src/config_trial.c, the boot choice of config_runtime_load in        *)
(* src/config_runtime.c, and the confirmation by boot_health_task in       *)
(* main.c, on top of the store of ConfigStore.                             *)
(*                                                                         *)
(* The boot is one task; once the gauge is up the transfer worker and the  *)
(* boot-health task run concurrently.  The chip may restart between any    *)
(* two flash or NVS writes.  One NVS save is atomic; one that reports an   *)
(* error may have been stored or not.                                      *)
(***************************************************************************)
EXTENDS ConfigStore, ConfigTrial

CONSTANT
  Patient   \* the phone starts a transfer only over a confirmed configuration

ASSUME BootAssumption == Patient \in BOOLEAN

VARIABLES
  nvs,       \* the stored journal
  journal,   \* config_trial.c: state
  stage,     \* how far the boot is
  running,   \* g_running_config_record, or NoRecord while g_runtime is NULL
  trial,     \* running_trial: the trial bit of the runtime identity
  health,    \* boot_health_task: not running, polling, or about to confirm
  job,       \* where the worker is in the COMMIT handler
  fate       \* auxiliary: what became of the generation in each slot

trialVars == <<nvs, journal>>
bootVars  == <<stage, running, trial, health>>
vars      == <<storeVars, trialVars, bootVars, job, fate>>

Journal == [pending : Revisions, rejected : Revisions, attempted : BOOLEAN]
Stages  == {"decide", "load", "loadTrial", "fallback", "up"}
Healths == {"none", "polling", "confirming"}
Jobs    == {"idle", "commit", "cancel", "applied"}
Fates   == {"none", "untested", "trying", "confirmed", "failed", "forgotten"}

\* save_locked: the journal reaches NVS; or an error is reported by nvs_open or
\* nvs_set_blob, which left the old one, or after the new one was stored.
Save(new, err) ==
  /\ journal' = new
  /\ \/ err = "OK" /\ nvs' = new
     \/ err = "FAIL" /\ nvs' \in {nvs, new} /\ "nvs" \in Faults

\* config_trial_cancel and config_trial_confirm save only what they changed.
SaveIfChanged(new, err) ==
  IF new = journal THEN err = "OK" /\ UNCHANGED trialVars ELSE Save(new, err)

\* Auxiliary: a generation is untested once its slot validates, and has no
\* fate once it does not.
FateOf(f) ==
  [s \in Slots |-> IF ~ValidSlot(f[s]) THEN "none"
                  ELSE IF ~ValidSlot(flash[s]) THEN "untested" ELSE fate[s]]

\* Auxiliary: a trial that ends in a restart has failed.
FateAtRestart(old) ==
  [s \in Slots |-> IF old[s] = "trying" THEN "failed" ELSE old[s]]

\* Auxiliary: another journal over the stored one forgets the trial that is due
\* and the one that failed.
FateForgotten(stored) ==
  [s \in Slots |-> IF stored # nvs /\ fate[s] \in {"untested", "failed"}
                  THEN "forgotten" ELSE fate[s]]

-----------------------------------------------------------------------------
(* The chip restarts: power, panic or esp_restart.  The next boot reads    *)
(* what is stored.                                                         *)
Down(stored) ==
  /\ journal'  = stored
  /\ nvs'      = stored
  /\ stage'    = "decide"
  /\ running'  = NoRecord
  /\ trial'    = FALSE
  /\ health'   = "none"
  /\ job'      = "idle"

RestartOn(stored, fates) ==
  /\ Down(stored)
  /\ StoreReset
  /\ fate' = FateAtRestart(fates)

ChipRestart == RestartOn(nvs, fate)

PowerCut == "power" \in Faults /\ ChipRestart

\* config_trial_init cannot read the stored journal, or not all of it.  It saves
\* an empty one over it and the boot goes on with that; or NVS cannot be opened
\* or the save reports an error, and ESP_ERROR_CHECK restarts the chip.
JournalUnread ==
  /\ stage = "decide"
  /\ "journal" \in Faults
  /\ \/ /\ Save(NoJournal, "OK")
        /\ fate' = FateForgotten(NoJournal)
        /\ UNCHANGED <<storeVars, bootVars, job>>
     \/ \E stored \in {nvs, NoJournal} : RestartOn(stored, FateForgotten(stored))

-----------------------------------------------------------------------------
(* config_runtime_load                                                     *)

\* The journal decides.  A failed save sends the boot to the previous slot; a
\* trial that NVS remembers is over, then, though it never ran.
BootDecide ==
  /\ stage = "decide"
  /\ IF active.slot = NoSlot
     THEN stage' = "up" /\ UNCHANGED <<trialVars, fate>>
     ELSE \E err \in {"OK", "FAIL"} :
            /\ SaveIfChanged(TrialDecided(journal, active.revision), err)
            /\ stage' = IF err # "OK" THEN "fallback"
                        ELSE CASE TrialDecision(journal, active.revision) = "PREVIOUS" -> "fallback"
                               [] TrialDecision(journal, active.revision) = "TRIAL" -> "loadTrial"
                               [] TrialDecision(journal, active.revision) = "ACTIVE" -> "load"
            /\ fate' = IF TrialDecision(journal, active.revision) # "TRIAL" \/ nvs' = nvs
                       THEN fate
                       ELSE [fate EXCEPT ![active.slot] = IF err = "OK" THEN "trying" ELSE "failed"]
  /\ UNCHANGED <<storeVars, running, trial, health, job>>

\* The record runs; main.c starts boot_health_task if its trial is pending.
Run_NoBit(record, onTrial) ==   \* seeded bug
  /\ stage'    = "up"
  /\ running'  = record
  /\ trial'    = FALSE
  /\ health'   = IF NeedsConfirmation(journal, record.revision) THEN "polling" ELSE "none"
Run(record, onTrial) ==
  /\ stage'    = "up"
  /\ running'  = record
  /\ trial'    = onTrial
  /\ health'   = IF NeedsConfirmation(journal, record.revision) THEN "polling" ELSE "none"

\* compile_record of the active slot succeeds
BootLoad ==
  /\ stage \in {"load", "loadTrial"}
  /\ Run(active, stage = "loadTrial")
  /\ UNCHANGED <<storeVars, trialVars, job, fate>>

\* or fails, and the revision is rejected whatever becomes of the save
BootLoadFails ==
  /\ stage \in {"load", "loadTrial"}
  /\ "compile" \in Faults
  /\ \E err \in {"OK", "FAIL"} : Save(TrialReject(journal, active.revision), err)
  /\ stage' = "fallback"
  /\ fate'  = IF stage = "loadTrial" THEN [fate EXCEPT ![active.slot] = "failed"] ELSE fate
  /\ UNCHANGED <<storeVars, running, trial, health, job>>

\* The other slot, compiled and then selected as the store's base
BootFallback ==
  /\ stage = "fallback"
  /\ HasPrevious
  /\ StoreSelect(Previous)
  /\ Run(Previous, FALSE)
  /\ UNCHANGED <<trialVars, job, fate>>

\* or no configuration at all: g_runtime stays NULL and the store keeps its base
BootWithout ==
  /\ stage = "fallback"
  /\ ~HasPrevious \/ "compile" \in Faults
  /\ stage' = "up"
  /\ UNCHANGED <<storeVars, trialVars, running, trial, health, job, fate>>

-----------------------------------------------------------------------------
(* boot_health_task                                                        *)

\* The gauge proved healthy: the task ends, unless the running revision is
\* still on trial.
HealthReady_Wrong ==   \* seeded bug
  /\ health = "polling"
  /\ health' = IF NeedsConfirmation(journal, active.revision - 1) THEN "confirming" ELSE "none"
  /\ UNCHANGED <<storeVars, trialVars, stage, running, trial, job, fate>>
HealthReady ==
  /\ health = "polling"
  /\ health' = IF NeedsConfirmation(journal, running.revision) THEN "confirming" ELSE "none"
  /\ UNCHANGED <<storeVars, trialVars, stage, running, trial, job, fate>>

\* config_trial_confirm looks at the journal again, then the trial bit is
\* cleared.  If the save reports an error the chip restarts instead; the
\* confirmation counts if it was stored.
HealthConfirm ==
  /\ health = "confirming"
  /\ \/ /\ SaveIfChanged(TrialConfirm(journal, running.revision), "OK")
        /\ health' = "none"
        /\ trial'  = FALSE
        /\ fate'   = IF journal' = journal THEN fate
                     ELSE [fate EXCEPT ![running.slot] = "confirmed"]
        /\ UNCHANGED <<storeVars, stage, running, job>>
     \/ /\ NeedsConfirmation(journal, running.revision)
        /\ "nvs" \in Faults
        /\ \/ ChipRestart
           \/ RestartOn(NoJournal, [fate EXCEPT ![running.slot] = "confirmed"])

\* Thirty seconds without enough progress
HealthTimeout ==
  /\ health = "polling"
  /\ ChipRestart

-----------------------------------------------------------------------------
(* The transfer worker                                                     *)
Up == stage = "up"

\* A generation that no trial is due or going on for, nor failed: confirmed, or
\* run as an ordinary one because its journal was forgotten
Settled == {"confirmed", "forgotten"}

\* When a phone that waits for a confirmed configuration starts a transfer
Welcome ==
  \/ ~Patient
  \/ active.slot = NoSlot
  \/ running.slot # NoSlot /\ fate[running.slot] \in Settled

\* START, CHUNK and ABORT
WorkerBegin(base, length, sha, err) ==
  /\ Up /\ job = "idle" /\ Welcome
  /\ StoreBegin(base, length, sha, err)
  /\ fate' = FateOf(flash')
  /\ UNCHANGED <<trialVars, bootVars, job>>

WorkerBeginCut(base) ==
  /\ Up /\ job = "idle" /\ Welcome
  /\ "power" \in Faults
  /\ Down(nvs)
  /\ StoreBeginCut(base)
  /\ fate' = FateAtRestart(FateOf(flash'))

WorkerWrite(offset, data, err) ==
  /\ Up /\ job = "idle"
  /\ StoreWrite(offset, data, err)
  /\ UNCHANGED <<trialVars, bootVars, job, fate>>

WorkerAbort ==
  /\ Up /\ job = "idle"
  /\ StoreAbort
  /\ UNCHANGED <<trialVars, bootVars, job, fate>>

\* COMMIT: journal the candidate revision, or give up
CommitPrepare(candidate, err) ==
  /\ Up /\ job = "idle"
  /\ Save(TrialPrepare(journal, candidate), err)
  /\ job' = IF err = "OK" THEN "commit" ELSE "cancel"
  /\ UNCHANGED <<storeVars, bootVars, fate>>

\* then config_store_commit
CommitStep(err) ==
  /\ job = "commit"
  /\ StoreCommitHeader(err) \/ StoreCommitMarker(err) \/ StoreCommitFinish(err)
  /\ job' = CASE err = "MORE" -> "commit"
              [] err = "OK" -> "applied"
              [] OTHER -> "cancel"
  /\ fate' = FateOf(flash')
  /\ UNCHANGED <<trialVars, bootVars>>

\* and config_trial_cancel after any error; its own error is only logged
CommitCancel(candidate) ==
  /\ job = "cancel"
  /\ \E err \in {"OK", "FAIL"} : SaveIfChanged(TrialCancel(journal, candidate), err)
  /\ job' = "idle"
  /\ UNCHANGED <<storeVars, bootVars, fate>>

\* The fixed deadline after a commit: esp_restart
AppliedRestart ==
  /\ job = "applied"
  /\ ChipRestart

-----------------------------------------------------------------------------
(* The worker under any caller that commits only what VERIFY accepted.     *)
BootInit ==
  /\ StoreInit
  /\ nvs = NoJournal /\ journal = NoJournal
  /\ stage = "decide" /\ running = NoRecord /\ trial = FALSE /\ health = "none"
  /\ job = "idle"
  /\ fate = [s \in Slots |-> "none"]

Boot   == BootDecide \/ BootLoad \/ BootLoadFails \/ BootFallback \/ BootWithout
Health == HealthReady \/ HealthConfirm \/ HealthTimeout

Candidate == active.revision + 1
Commands ==
  \/ \E base \in Revisions, length \in Lengths, sha \in Documents, err \in StoreErrors :
        WorkerBegin(base, length, sha, err)
  \/ \E base \in Revisions : WorkerBeginCut(base)
  \/ \E offset \in 0..MaxBlocks, data \in Chunks, err \in StoreErrors :
        WorkerWrite(offset, data, err)
  \/ WorkerAbort
  \/ StagedCheck = "OK" /\ \E err \in {"OK", "FAIL"} : CommitPrepare(Candidate, err)

Committing ==
  \/ \E err \in StoreErrors : CommitStep(err)
  \/ CommitCancel(Candidate)
  \/ AppliedRestart

BootNext == PowerCut \/ JournalUnread \/ Boot \/ Health \/ Commands \/ Committing

\* Tasks that have started a sequence go on with it: the boot, the 500 ms loop
\* of boot_health_task, the COMMIT handler and the restart deadline.  Nothing
\* is assumed of the phone, of power, or of what the loop observes.
BootSpec ==
  /\ BootInit /\ [][BootNext]_vars
  /\ WF_vars(Boot \/ JournalUnread) /\ WF_vars(Health) /\ WF_vars(Committing)

-----------------------------------------------------------------------------
(* Properties *)

\* The configuration the gauge runs stays whole on the flash as long as it runs,
\* also while its successor is transferred, committed, or waits for the restart,
\* so there is always something to return to.
RunningIsKept ==
  running.slot # NoSlot =>
     ValidSlot(flash[running.slot]) /\ running = RecordOf(flash, running.slot)

\* The generation the next boot would pick
NextBoot == Scan(flash, Slots).slot

\* The journal is ahead of the flash: whenever a restart would pick a generation
\* that nothing has run yet, NVS already says that its first run is a trial
\* ("Before writing a commit marker, the transfer worker journals the candidate
\* revision in NVS", docs/architecture/config-storage.md).  A generation whose
\* journal a boot failed to read is forgotten, not untested, and one whose trial
\* NVS counts as begun though its save reported an error has failed.
UntestedIsJournalled ==
  (NextBoot # NoSlot /\ fate[NextBoot] = "untested") =>
     TrialDecision(nvs, flash[NextBoot].header.revision) = "TRIAL"

\* A trial is remembered before it starts and a rejection until its generation
\* is erased: whenever a restart would pick a generation whose trial has begun
\* or failed, NVS already sends that boot to the previous one, whatever the saves
\* between them reported.  Only a boot that cannot read its journal forgets it.
FailureIsJournalled ==
  (NextBoot # NoSlot /\ fate[NextBoot] \in {"trying", "failed"}) =>
     TrialDecision(nvs, flash[NextBoot].header.revision) = "PREVIOUS"

\* A generation nothing has run yet runs only as a trial.
UntestedRunsOnTrial ==
  running.slot # NoSlot => fate[running.slot] # "untested"

\* A generation whose trial failed, or that was rejected, never runs again.
FailedNeverRuns ==
  running.slot # NoSlot => fate[running.slot] # "failed"

\* The trial bit of the runtime identity, from which the phone concludes that a
\* configuration is saved and running, is clear only for a confirmed one.
TrialBitIsTruthful ==
  (running.slot # NoSlot /\ ~trial) => fate[running.slot] # "trying"

\* A boot whose journal could not be saved passes the newest generation over,
\* and the gauge comes up without it.
PassedOver(s) == stage = "fallback" \/ (stage = "up" /\ job = "idle" /\ running.slot # s)

\* Every generation that becomes visible to the boot gets its trial, and the
\* trial an outcome: confirmed, failed, forgotten, or given up; unless the gauge
\* restarts for good because its journal can never be read and replaced.
TrialsEnd ==
  \/ <>[](stage = "decide")
  \/ \A s \in Slots :
        fate[s] \in {"untested", "trying"} ~>
           (fate[s] \in Settled \union {"failed", "none"} \/ PassedOver(s))
=============================================================================
