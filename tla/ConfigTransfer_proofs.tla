------------------------ MODULE ConfigTransfer_proofs ------------------------
(***************************************************************************)
(* Proofs about ConfigBoot and ConfigTransfer, for every choice of their   *)
(* constants: what runs stays whole, the journal is ahead of the flash,    *)
(* the session agrees with the store, and each of the three layers makes   *)
(* only the steps of the one below.                                        *)
(*                                                                         *)
(* SlotsInv (ConfigStore_proofs) says what is on the flash.  BootInv adds  *)
(* where the boot and the COMMIT handler are, and what became of each      *)
(* generation.  The three parts that need a scan without faults, a patient *)
(* phone, or writes that succeed are implications with that premise, so    *)
(* that one induction serves every choice of Faults and Patient.           *)
(***************************************************************************)
EXTENDS ConfigTransfer, ConfigStore_proofs

(* BootSpec without its fairness: what the safety properties follow from. *)
BootSafety == BootInit /\ [][BootNext]_vars

-----------------------------------------------------------------------------
(* The inductive invariant of the boot, its journal and its worker.        *)

(* What each variable holds *)
BootTypeOK ==
  /\ nvs \in Journal /\ journal \in Journal
  /\ stage \in Stages /\ health \in Healths /\ job \in Jobs
  /\ running \in Record \union {NoRecord} /\ trial \in BOOLEAN
  /\ fate \in [Slots -> Fates]

(* A journal that rejects a revision tries none. *)
OneVerdict(j) == j.rejected # 0 => j.pending = 0

(* Before the gauge is up nothing runs, no transfer is open. *)
StageInv ==
  /\ ~Up => running = NoRecord /\ health = "none" /\ job = "idle" /\ ~transfer.open
  /\ stage = "decide" => journal = nvs
  /\ stage \in {"load", "loadTrial", "fallback"} => active.slot # NoSlot

(* Where the COMMIT handler is, in the store and in the journal. *)
JobInv ==
  /\ Calling => job = "commit"
  /\ job \in {"commit", "cancel"} =>
       /\ transfer.open
       /\ journal = [pending |-> Candidate, rejected |-> 0, attempted |-> FALSE]
  /\ job = "commit" => nvs = journal
  /\ job = "applied" => ~transfer.open

(* What runs is the active generation, until a commit has switched slots. *)
RunInv ==
  /\ health # "none" => running.slot # NoSlot
  /\ running.slot # NoSlot =>
       IF job = "applied" THEN running.slot = Other(active.slot) /\ RunningIsKept
       ELSE running = active

(* A slot has a fate when it validates; that of a transfer is untested. *)
FateInv ==
  /\ \A s \in Slots : fate[s] = "none" <=> ~ValidSlot(flash[s])
  /\ transfer.open /\ ValidSlot(flash[transfer.slot]) => fate[transfer.slot] = "untested"

(* A patient phone's transfer is over a confirmed configuration. *)
WelcomeInv ==
  Patient /\ transfer.open =>
    active.slot = NoSlot \/ (running.slot # NoSlot /\ fate[running.slot] \in Settled)

(* At most one generation is on trial, and its trial is in the journal. *)
TrialInv ==
  /\ \A s \in Slots : fate[s] = "trying" =>
       \/ stage = "loadTrial" /\ s = active.slot
       \/ Up /\ s = running.slot /\ (Patient => trial /\ NeedsConfirmation(journal, running.revision))
  /\ stage = "loadTrial" =>
       fate[active.slot] = "trying" /\ nvs = journal /\ NeedsConfirmation(journal, active.revision)

(* All of it, for every fault and every phone *)
BootInv ==
  /\ BootTypeOK /\ OneVerdict(nvs) /\ OneVerdict(journal)
  /\ StageInv /\ JobInv /\ RunInv /\ FateInv /\ WelcomeInv /\ TrialInv

(* A scan that meets no fault: the boot decides about the next boot's choice. *)
BootChoice ==
  /\ ~Up => active = Scan(flash, Slots)
  /\ stage = "load" => TrialDecision(nvs, active.revision) = "ACTIVE"
  /\ stage = "fallback" => journal.pending \in {0, active.revision}
  /\ running.slot # NoSlot /\ NeedsConfirmation(journal, running.revision) => running.slot = NextBoot

(* What is confirmed is rejected only as the newest, when it does not run. *)
ConfirmedInv ==
  \A s \in Slots : fate[s] \in Settled =>
    /\ ~NeedsConfirmation(nvs, flash[s].header.revision)
    /\ nvs.rejected = flash[s].header.revision => s = NextBoot /\ s # running.slot

(* Without a fault in the scan *)
SteadyInv == "scan" \notin Faults => BootChoice /\ ConfirmedInv

(* and with a patient phone *)
FailedInv == Patient /\ "scan" \notin Faults => FailureIsJournalled

(* and a flash that can be read and written *)
Careful == Patient /\ {"scan", "read", "write"} \cap Faults = {}
UntestedInv ==
  Careful =>
    /\ UntestedIsJournalled
    /\ transfer.open /\ commit.at # "verify" => ~ValidSlot(flash[transfer.slot])

(* The inductive invariant *)
BootAll == BootInv /\ SteadyInv /\ FailedInv /\ UntestedInv

-----------------------------------------------------------------------------
(* What a boot scan that meets no fault finds.                             *)

(* The newest slot of a flash f, the lower one on a tie *)
IsNewest(f, s) ==
  /\ s \in Slots /\ ValidSlot(f[s])
  /\ \A t \in Slots : ValidSlot(f[t]) =>
       \/ f[s].header.revision > f[t].header.revision
       \/ f[s].header.revision = f[t].header.revision /\ s <= t

(* Revisions are numbers. *)
LEMMA FlashRevisions ==
  ASSUME NEW f \in [Slots -> Partition]
  PROVE  \A s \in Slots : f[s].header.revision \in Nat
BY PartitionParts, StoreAssumption DEF Revisions

(* There is one newest slot at most. *)
LEMMA NewestIsUnique ==
  ASSUME NEW f \in [Slots -> Partition], NEW s, NEW t, IsNewest(f, s), IsNewest(f, t)
  PROVE  s = t
<1>1. s \in Slots /\ t \in Slots /\ ValidSlot(f[s]) /\ ValidSlot(f[t])
  BY DEF IsNewest
<1>2. f[s].header.revision > f[t].header.revision
      \/ (f[s].header.revision = f[t].header.revision /\ s <= t)
  BY <1>1 DEF IsNewest
<1>3. f[t].header.revision > f[s].header.revision
      \/ (f[t].header.revision = f[s].header.revision /\ t <= s)
  BY <1>1 DEF IsNewest
<1> QED
  BY <1>1, <1>2, <1>3, FlashRevisions DEF Slots

(* If any slot validates there is a newest one. *)
LEMMA NewestExists ==
  ASSUME NEW f \in [Slots -> Partition], NEW u \in Slots, ValidSlot(f[u])
  PROVE  \E s \in Slots : IsNewest(f, s)
<1>1. f[0].header.revision \in Nat /\ f[1].header.revision \in Nat /\ Slots = {0, 1}
  BY FlashRevisions DEF Slots
<1>2. CASE ValidSlot(f[0]) /\ ValidSlot(f[1])
  <2>1. CASE f[1].header.revision > f[0].header.revision
    <3>1. IsNewest(f, 1)
      BY <1>1, <1>2, <2>1 DEF IsNewest
    <3> QED
      BY <1>1, <3>1
  <2>2. CASE ~(f[1].header.revision > f[0].header.revision)
    <3>1. IsNewest(f, 0)
      BY <1>1, <1>2, <2>2 DEF IsNewest
    <3> QED
      BY <1>1, <3>1
  <2> QED
    BY <2>1, <2>2
<1>3. CASE ~(ValidSlot(f[0]) /\ ValidSlot(f[1]))
  <2>1. IsNewest(f, u)
    BY <1>1, <1>3 DEF IsNewest
  <2> QED
    BY <2>1
<1> QED
  BY <1>2, <1>3

(* The scan finds the newest slot, and no record when no slot validates. *)
LEMMA ScanFinds ==
  ASSUME NEW f \in [Slots -> Partition]
  PROVE  \/ Scan(f, Slots) = NoRecord /\ \A s \in Slots : ~ValidSlot(f[s])
         \/ \E s \in Slots : IsNewest(f, s) /\ Scan(f, Slots) = RecordOf(f, s)
<1>1. Found(f, Slots) \in SUBSET Slots /\ \A s \in Slots : s \in Found(f, Slots) <=> ValidSlot(f[s])
  BY DEF Found
<1>2. CASE Found(f, Slots) = {}
  BY <1>1, <1>2 DEF Scan
<1>3. CASE Found(f, Slots) # {}
  <2>1. PICK s \in Slots : IsNewest(f, s)
    BY <1>1, <1>3, NewestExists
  <2> DEFINE P(t) == \A u \in Found(f, Slots) :
                       \/ f[t].header.revision > f[u].header.revision
                       \/ f[t].header.revision = f[u].header.revision /\ t <= u
  <2>2. s \in Found(f, Slots) /\ P(s)
    BY <1>1, <2>1 DEF IsNewest
  <2>3. Newest(f, Found(f, Slots)) \in Found(f, Slots) /\ P(Newest(f, Found(f, Slots)))
    BY <2>2 DEF Newest
  <2>4. IsNewest(f, Newest(f, Found(f, Slots)))
    BY <1>1, <2>3 DEF IsNewest
  <2>5. Newest(f, Found(f, Slots)) = s
    BY <2>1, <2>4, NewestIsUnique
  <2> QED
    BY <1>3, <2>1, <2>5 DEF Scan
<1> QED
  BY <1>2, <1>3

(* So it finds what is the newest. *)
LEMMA ScanIsNewest ==
  ASSUME NEW f \in [Slots -> Partition], NEW s \in Slots, IsNewest(f, s)
  PROVE  Scan(f, Slots) = RecordOf(f, s) /\ Scan(f, Slots).slot = s
<1>1. ValidSlot(f[s])
  BY DEF IsNewest
<1> QED
  BY <1>1, ScanFinds, NewestIsUnique DEF RecordOf

(* The same for the next boot *)
LEMMA NextBootFinds ==
  ASSUME NEW f \in [Slots -> Partition]
  PROVE  \/ Scan(f, Slots).slot = NoSlot /\ \A s \in Slots : ~ValidSlot(f[s])
         \/ IsNewest(f, Scan(f, Slots).slot)
            /\ Scan(f, Slots).revision = f[Scan(f, Slots).slot].header.revision
<1>1. CASE Scan(f, Slots) = NoRecord /\ \A s \in Slots : ~ValidSlot(f[s])
  BY <1>1 DEF NoRecord
<1>2. ASSUME NEW s \in Slots, IsNewest(f, s) PROVE IsNewest(f, Scan(f, Slots).slot)
            /\ Scan(f, Slots).revision = f[Scan(f, Slots).slot].header.revision
  BY <1>2, ScanIsNewest DEF RecordOf
<1> QED
  BY <1>1, <1>2, ScanFinds

(* Of fewer slots that validate it finds the same, if that is still there. *)
LEMMA ScanOfFewer ==
  ASSUME NEW f \in [Slots -> Partition], NEW g \in [Slots -> Partition],
         \A s \in Slots : ValidSlot(g[s]) => g[s] = f[s],
         Scan(f, Slots).slot # NoSlot, g[Scan(f, Slots).slot] = f[Scan(f, Slots).slot]
  PROVE  Scan(g, Slots).slot = Scan(f, Slots).slot
<1> DEFINE n == Scan(f, Slots).slot
<1>1. n \in Slots /\ IsNewest(f, n)
  BY NextBootFinds DEF IsNewest
<1>2. IsNewest(g, n)
  BY <1>1 DEF IsNewest
<1> QED
  BY <1>1, <1>2, ScanIsNewest

(* Slots that keep what validates keep what the scan finds. *)
LEMMA ScanOfSame ==
  ASSUME NEW f \in [Slots -> Partition], NEW g \in [Slots -> Partition],
         \A s \in Slots : (ValidSlot(f[s]) \/ ValidSlot(g[s])) => g[s] = f[s]
  PROVE  Scan(g, Slots) = Scan(f, Slots)
<1>1. CASE \A s \in Slots : ~ValidSlot(f[s])
  BY <1>1, ScanFinds DEF IsNewest
<1>2. ASSUME NEW s \in Slots, IsNewest(f, s) PROVE Scan(g, Slots) = Scan(f, Slots)
  <2>1. IsNewest(g, s) /\ g[s] = f[s]
    BY <1>2 DEF IsNewest
  <2> QED
    BY <1>2, <2>1, ScanIsNewest DEF RecordOf
<1> QED
  BY <1>1, <1>2, ScanFinds

(* The next boot picks what the scan of the flash finds. *)
LEMMA NextBootIs == NextBoot = Scan(flash, Slots).slot /\ NextBoot' = Scan(flash', Slots).slot
BY DEF NextBoot

(* Two slots that validate hold different revisions. *)
LEMMA RevisionsDiffer ==
  ASSUME SlotsInv, "scan" \notin Faults, NEW s \in Slots, NEW t \in Slots, s # t,
         ValidSlot(flash[s]), ValidSlot(flash[t])
  PROVE  flash[s].header.revision # flash[t].header.revision
<1>1. CASE active.slot = NoSlot
  BY <1>1, RecordFacts DEF SlotsInv, Adjacent, NoSlot, Slots
<1>2. CASE active.slot # NoSlot
  <2>1. active.slot \in Slots /\ active.revision = flash[active.slot].header.revision
        /\ active.revision \in Nat
    BY <1>2, RecordFacts DEF SlotsInv
  <2>2. s = active.slot \/ t = active.slot
    BY <2>1 DEF Slots
  <2>3. CASE s = active.slot
    BY <1>2, <2>1, <2>3 DEF SlotsInv, Adjacent
  <2>4. CASE t = active.slot
    BY <1>2, <2>1, <2>4 DEF SlotsInv, Adjacent
  <2> QED
    BY <2>2, <2>3, <2>4
<1> QED
  BY <1>1, <1>2

(* A slot that validates holds a revision. *)
LEMMA ValidRevision ==
  ASSUME SlotsInv, NEW s \in Slots, ValidSlot(flash[s])
  PROVE  flash[s].header.revision \in Nat /\ flash[s].header.revision # 0
BY RecordFacts DEF SlotsInv, ValidSlot

(* An erase, whole or cut short, makes the inactive slot invalid or leaves *)
(* it as it is.                                                            *)
Wiped == \A s \in Slots : flash'[s] = flash[s] \/ (s = Target /\ ~ValidSlot(flash'[s]))

(* An erase, whole or cut short, wipes the inactive slot at most. *)
LEMMA EraseWipes ==
  ASSUME SlotsInv, NEW left \in PartlyErased(flash[Target]),
         flash' = [flash EXCEPT ![Target] = left]
  PROVE  Wiped
<1>1. Target \in Slots /\ flash \in [Slots -> Partition] /\ flash[Target] \in Partition
  BY TargetIsApart DEF SlotsInv, IInv, StoreTypeOK
<1>2. flash'[Target] = left /\ \A s \in Slots : s # Target => flash'[s] = flash[s]
  BY <1>1
<1>3. ValidSlot(left) => left = flash[Target]
  BY <1>1, LeftByErase
<1> QED
  BY <1>2, <1>3 DEF Wiped

(* config_store_begin refuses, fails, or opens a transfer on an erased slot. *)
LEMMA BeginWipes ==
  ASSUME SlotsInv, NEW base, NEW length, NEW sha, NEW err, StoreBegin(base, length, sha, err)
  PROVE  /\ Wiped /\ active' = active /\ ~Calling /\ ~Calling'
         /\ \/ transfer' = transfer /\ flash' = flash
            \/ ~transfer'.open
            \/ transfer'.slot = Target /\ ~ValidSlot(flash'[transfer'.slot])
<1>1. active' = active /\ ~Calling /\ ~Calling'
  BY DEF StoreBegin, Calling
<1>2. CASE UNCHANGED <<flash, transfer>>
  BY <1>1, <1>2 DEF Wiped
<1>3. CASE /\ flash' = [flash EXCEPT ![Target] = Erased]
           /\ transfer' = [open |-> TRUE, slot |-> Target, length |-> length,
                           written |-> 0, sha |-> sha]
  <2>1. Erased \in PartlyErased(flash[Target])
    BY DEF PartlyErased
  <2>2. Wiped
    BY <1>3, <2>1, EraseWipes
  <2>3. Target \in Slots /\ flash \in [Slots -> Partition]
    BY TargetIsApart DEF SlotsInv, IInv, StoreTypeOK
  <2>4. transfer'.slot = Target /\ flash'[Target] = Erased
    BY <1>3, <2>3
  <2>5. ~ValidSlot(Erased)
    BY DEF ValidSlot, Erased
  <2> QED
    BY <1>1, <2>2, <2>4, <2>5
<1>4. CASE /\ \E left \in PartlyErased(flash[Target]) : flash' = [flash EXCEPT ![Target] = left]
           /\ transfer' = Closed
  BY <1>1, <1>4, EraseWipes DEF Closed
<1> QED
  BY <1>2, <1>3, <1>4 DEF StoreBegin

(* What a call of config_store_begin that loses power leaves to the restart *)
LEMMA BeginCutWipes ==
  ASSUME SlotsInv, NEW base, StoreBeginCut(base)
  PROVE  /\ Wiped /\ transfer' = Closed /\ commit' = NoCommit
         /\ "scan" \notin Faults => active' = Scan(flash', Slots)
<1>1. PICK left \in PartlyErased(flash[Target]) : Restarted([flash EXCEPT ![Target] = left])
  BY DEF StoreBeginCut
<1>2. flash' = [flash EXCEPT ![Target] = left] /\ transfer' = Closed /\ commit' = NoCommit
  BY <1>1 DEF Restarted
<1>3. "scan" \notin Faults => active' = Scan(flash', Slots)
  BY <1>1, <1>2 DEF Restarted, Readable
<1> QED
  BY <1>2, <1>3, EraseWipes

(* After an erase the next boot picks what it would have picked before, the *)
(* active slot, or none.                                                   *)
LEMMA WipedChoice ==
  ASSUME SlotsInv, SlotsInv', Wiped, "scan" \notin Faults
  PROVE  /\ NextBoot' # NoSlot => /\ NextBoot' \in Slots /\ ValidSlot(flash[NextBoot'])
                                  /\ flash'[NextBoot'] = flash[NextBoot']
         /\ NextBoot' = NextBoot \/ NextBoot' \in {NoSlot, active.slot}
<1>1. flash \in [Slots -> Partition] /\ flash' \in [Slots -> Partition]
  BY DEF SlotsInv, IInv, StoreTypeOK
<1>2. \/ NextBoot' = NoSlot
      \/ NextBoot' \in Slots /\ ValidSlot(flash'[NextBoot'])
  BY <1>1, NextBootFinds, NextBootIs DEF IsNewest
<1>3. NextBoot' # NoSlot => /\ NextBoot' \in Slots /\ ValidSlot(flash[NextBoot'])
                            /\ flash'[NextBoot'] = flash[NextBoot']
  BY <1>2 DEF Wiped
<1>4. CASE flash'[Target] = flash[Target]
  <2>1. \A s \in Slots : flash'[s] = flash[s]
    BY <1>4 DEF Wiped
  <2> QED
    BY <1>1, <1>3, <2>1, ScanOfSame, NextBootIs
<1>5. CASE flash'[Target] # flash[Target] /\ NextBoot' # NoSlot
  <2>1. NextBoot' # Target /\ NextBoot' \in Slots
    BY <1>2, <1>5 DEF Wiped
  <2>2. CASE active.slot = NoSlot
    BY <1>3, <1>5, <2>1, <2>2 DEF SlotsInv, Adjacent, Target, NoSlot
  <2>3. CASE active.slot # NoSlot
    <3>1. active.slot \in Slots
      BY <2>3, RecordFacts DEF SlotsInv
    <3> QED
      BY <1>3, <1>5, <2>1, <3>1 DEF Target, Slots
  <2> QED
    BY <2>2, <2>3
<1> QED
  BY <1>3, <1>4, <1>5

(* A step that leaves what validates as it is leaves the choice, too. *)
LEMMA KeptChoice ==
  ASSUME SlotsInv, SlotsInv', KeepsStored
  PROVE  /\ NextBoot' = NextBoot
         /\ NextBoot # NoSlot => /\ NextBoot \in Slots /\ ValidSlot(flash[NextBoot])
                                 /\ flash'[NextBoot] = flash[NextBoot]
<1>1. flash \in [Slots -> Partition] /\ flash' \in [Slots -> Partition]
  BY DEF SlotsInv, IInv, StoreTypeOK
<1>2. NextBoot' = NextBoot
  BY <1>1, ScanOfSame, NextBootIs DEF KeepsStored
<1>3. \/ NextBoot = NoSlot
      \/ NextBoot \in Slots /\ ValidSlot(flash[NextBoot])
  BY <1>1, NextBootFinds, NextBootIs DEF IsNewest
<1> QED
  BY <1>2, <1>3 DEF KeepsStored

-----------------------------------------------------------------------------
(* Restarts.                                                               *)

(* While nothing was committed yet, a patient phone's erase is made over a *)
(* confirmed generation.                                                   *)
Grounded == Patient => active.slot = NoSlot \/ fate[active.slot] \in Settled

(* A restart, also one inside an erase *)
LEMMA RestartKeeps ==
  ASSUME SlotsInv, SlotsInv', BootAll, Down(nvs), Wiped, flash' = flash \/ Grounded,
         transfer' = Closed, commit' = NoCommit,
         "scan" \notin Faults => active' = Scan(flash', Slots),
         fate' \in [Slots -> Fates],
         \A s \in Slots :
            /\ ~ValidSlot(flash'[s]) => fate'[s] = "none"
            /\ ValidSlot(flash'[s]) => fate'[s] = IF fate[s] = "trying" THEN "failed" ELSE fate[s]
  PROVE  BootAll'
<1>1. /\ journal' = nvs /\ nvs' = nvs /\ stage' = "decide" /\ running' = NoRecord /\ trial' = FALSE
      /\ health' = "none" /\ job' = "idle"
  BY DEF Down
<1>2. running'.slot = NoSlot /\ ~transfer'.open /\ ~Calling' /\ ~Up'
  BY <1>1 DEF NoRecord, Closed, NoCommit, Calling, Up
<1>3. \A s \in Slots : fate'[s] # "trying" /\ (fate'[s] # "none" => flash'[s] = flash[s])
  BY DEF Wiped, BootAll, BootInv, FateInv
<1>4. BootInv'
  <2>1. BootTypeOK' /\ OneVerdict(nvs)' /\ OneVerdict(journal)'
    BY <1>1 DEF BootAll, BootInv, BootTypeOK, Stages, Healths, Jobs, OneVerdict
  <2>2. StageInv' /\ JobInv' /\ RunInv' /\ WelcomeInv'
    BY <1>1, <1>2 DEF StageInv, JobInv, RunInv, WelcomeInv
  <2>3. FateInv'
    <3>1. \A s \in Slots : fate'[s] = "none" <=> ~ValidSlot(flash'[s])
      BY DEF BootAll, BootInv, FateInv, Wiped
    <3> QED
      BY <1>2, <3>1 DEF FateInv
  <2>4. TrialInv'
    BY <1>1, <1>3 DEF TrialInv
  <2> QED
    BY <2>1, <2>2, <2>3, <2>4 DEF BootInv
<1>5. ASSUME "scan" \notin Faults PROVE BootChoice' /\ ConfirmedInv'
  <2>1. BootChoice'
    BY <1>1, <1>2, <1>5 DEF BootChoice
  <2>2. ASSUME NEW s \in Slots, fate'[s] \in Settled
        PROVE  /\ ~NeedsConfirmation(nvs, flash[s].header.revision)
               /\ flash'[s] = flash[s]
               /\ nvs.rejected = flash[s].header.revision => s = NextBoot /\ s # NoSlot
    <3>1. fate[s] \in Settled /\ flash'[s] = flash[s]
      BY <2>2, <1>3 DEF Settled
    <3> QED
      BY <1>5, <3>1 DEF BootAll, SteadyInv, ConfirmedInv, NoSlot, Slots
  <2>3. ASSUME NEW s \in Slots, flash'[s] = flash[s], s = NextBoot
        PROVE  NextBoot' = s
    <3>1. flash \in [Slots -> Partition] /\ flash' \in [Slots -> Partition]
      BY DEF SlotsInv, IInv, StoreTypeOK
    <3>2. \A t \in Slots : ValidSlot(flash'[t]) => flash'[t] = flash[t]
      BY DEF Wiped
    <3>3. s # NoSlot
      BY DEF NoSlot, Slots
    <3> QED
      BY <2>3, <3>1, <3>2, <3>3, ScanOfFewer, NextBootIs
  <2>4. ConfirmedInv'
    BY <1>1, <1>2, <2>2, <2>3 DEF ConfirmedInv, NeedsConfirmation
  <2> QED
    BY <2>1, <2>4
<1>6. ASSUME Patient, "scan" \notin Faults, NextBoot' # NoSlot
      PROVE  /\ NextBoot' \in Slots /\ flash'[NextBoot'] = flash[NextBoot']
             /\ fate'[NextBoot'] = IF fate[NextBoot'] = "trying" THEN "failed" ELSE fate[NextBoot']
             /\ NextBoot' = NextBoot \/ fate[NextBoot'] \in Settled
  <2>1. NextBoot' \in Slots /\ ValidSlot(flash[NextBoot']) /\ flash'[NextBoot'] = flash[NextBoot']
    BY <1>6, WipedChoice
  <2>2. NextBoot' = NextBoot \/ fate[NextBoot'] \in Settled
    <3>1. CASE flash' = flash
      BY <3>1, NextBootIs
    <3>2. CASE Grounded
      BY <1>6, <3>2, WipedChoice DEF Grounded
    <3> QED
      BY <3>1, <3>2
  <2> QED
    BY <2>1, <2>2
<1>7. FailedInv'
  BY <1>1, <1>6 DEF BootAll, FailedInv, FailureIsJournalled, Settled
<1>8. UntestedInv'
  BY <1>1, <1>2, <1>6 DEF BootAll, UntestedInv, Careful, UntestedIsJournalled, Settled
<1> QED
  BY <1>4, <1>5, <1>7, <1>8 DEF BootAll, SteadyInv

(* A restart of the chip at any moment *)
LEMMA ChipRestartKeeps ==
  ASSUME SlotsInv, SlotsInv', BootAll, ChipRestart
  PROVE  BootAll'
<1>1. Down(nvs) /\ flash' = flash /\ transfer' = Closed /\ commit' = NoCommit
      /\ fate' = FateAtRestart(fate)
      /\ ("scan" \notin Faults => active' = Scan(flash', Slots))
  BY DEF ChipRestart, RestartOn, StoreReset, Restarted, Readable
<1>2. Wiped
  BY <1>1 DEF Wiped
<1>3. fate' \in [Slots -> Fates]
  BY <1>1 DEF FateAtRestart, BootAll, BootInv, BootTypeOK, Fates
<1>4. \A s \in Slots : fate'[s] = IF fate[s] = "trying" THEN "failed" ELSE fate[s]
  BY <1>1 DEF FateAtRestart
<1>5. \A s \in Slots : ~ValidSlot(flash'[s]) => fate'[s] = "none"
  BY <1>1, <1>4 DEF BootAll, BootInv, FateInv
<1> QED
  BY <1>1, <1>2, <1>3, <1>4, <1>5, RestartKeeps

(* What a fate becomes in an erase *)
LEMMA FateOfWiped ==
  ASSUME BootAll, Wiped, NEW g, g = FateOf(flash')
  PROVE  /\ g \in [Slots -> Fates]
         /\ \A s \in Slots : /\ ~ValidSlot(flash'[s]) => g[s] = "none"
                             /\ ValidSlot(flash'[s]) => g[s] = fate[s] /\ flash'[s] = flash[s]
<1>1. \A s \in Slots : g[s] \in Fates
  BY DEF FateOf, BootAll, BootInv, BootTypeOK, Fates
<1>2. g \in [Slots -> Fates]
  BY <1>1 DEF FateOf
<1>3. \A s \in Slots : ValidSlot(flash'[s]) => flash'[s] = flash[s] /\ ValidSlot(flash[s])
  BY DEF Wiped
<1>4. \A s \in Slots : /\ ~ValidSlot(flash'[s]) => g[s] = "none"
                       /\ ValidSlot(flash'[s]) /\ ValidSlot(flash[s]) => g[s] = fate[s]
  BY DEF FateOf
<1>5. \A s \in Slots : /\ ~ValidSlot(flash'[s]) => g[s] = "none"
                       /\ ValidSlot(flash'[s]) => g[s] = fate[s] /\ flash'[s] = flash[s]
  BY <1>3, <1>4
<1> QED
  BY <1>2, <1>5

(* A transfer begins over a confirmed generation. *)
LEMMA WelcomeIsGrounded ==
  ASSUME BootAll, Welcome, job = "idle"
  PROVE  Grounded
BY DEF BootAll, BootInv, RunInv, Welcome, Grounded

(* A restart in the middle of the erase of a START *)
LEMMA BeginCutKeeps ==
  ASSUME SlotsInv, SlotsInv', BootAll, NEW base, WorkerBeginCut(base)
  PROVE  BootAll'
<1>1. Down(nvs) /\ StoreBeginCut(base) /\ fate' = FateAtRestart(FateOf(flash')) /\ Welcome /\ job = "idle"
  BY DEF WorkerBeginCut
<1>2. Wiped /\ transfer' = Closed /\ commit' = NoCommit
      /\ ("scan" \notin Faults => active' = Scan(flash', Slots))
  BY <1>1, BeginCutWipes
<1> DEFINE g == FateOf(flash')
<1>3. g \in [Slots -> Fates]
      /\ \A s \in Slots : /\ ~ValidSlot(flash'[s]) => g[s] = "none"
                          /\ ValidSlot(flash'[s]) => g[s] = fate[s]
  BY <1>2, FateOfWiped
<1>4. fate' = FateAtRestart(g)
  BY <1>1
<1> HIDE DEF g
<1>5. fate' \in [Slots -> Fates]
  BY <1>3, <1>4 DEF FateAtRestart, Fates
<1>6. \A s \in Slots :
         /\ ~ValidSlot(flash'[s]) => fate'[s] = "none"
         /\ ValidSlot(flash'[s]) => fate'[s] = IF fate[s] = "trying" THEN "failed" ELSE fate[s]
  BY <1>3, <1>4 DEF FateAtRestart
<1>7. Grounded
  BY <1>1, WelcomeIsGrounded
<1> QED
  BY <1>1, <1>2, <1>5, <1>6, <1>7, RestartKeeps

-----------------------------------------------------------------------------
(* The journal's policy.                                                   *)

(* What the boot's decision leaves of a journal *)
LEMMA DecidedJournal ==
  ASSUME NEW j \in Journal, OneVerdict(j), NEW r \in Revisions, r # 0
  PROVE  /\ TrialDecided(j, r) \in Journal /\ OneVerdict(TrialDecided(j, r))
         /\ TrialDecision(j, r) \in {"PREVIOUS", "ACTIVE", "TRIAL"}
         /\ TrialDecision(j, r) = "PREVIOUS" =>
              TrialDecided(j, r).rejected = r /\ TrialDecided(j, r).pending = 0
         /\ TrialDecision(j, r) = "ACTIVE" =>
              /\ TrialDecided(j, r).rejected = j.rejected /\ j.rejected # r
              /\ TrialDecided(j, r).pending = 0 /\ j.pending # r
         /\ TrialDecision(j, r) = "TRIAL" =>
              /\ TrialDecided(j, r).rejected = j.rejected /\ j.rejected # r
              /\ TrialDecided(j, r).pending = r /\ TrialDecided(j, r).attempted
<1>1. 0 \in Revisions
  BY StoreAssumption DEF Revisions
<1>2. CASE j.rejected = r
  BY <1>2 DEF Journal, OneVerdict, TrialDecided, TrialDecision
<1>3. CASE j.rejected # r /\ j.pending # r
  BY <1>1, <1>3 DEF Journal, OneVerdict, TrialDecided, TrialDecision
<1>4. CASE j.rejected # r /\ j.pending = r /\ j.attempted
  BY <1>1, <1>4 DEF Journal, OneVerdict, TrialDecided, TrialDecision
<1>5. CASE j.rejected # r /\ j.pending = r /\ ~j.attempted
  BY <1>1, <1>5 DEF Journal, OneVerdict, TrialDecided, TrialDecision
<1> QED
  BY <1>2, <1>3, <1>4, <1>5

(* When the decision sends the boot to the previous generation *)
LEMMA PreviousMeans ==
  ASSUME NEW j, NEW r
  PROVE  TrialDecision(j, r) = "PREVIOUS" <=> j.rejected = r \/ NeedsConfirmation(j, r)
BY DEF TrialDecision, NeedsConfirmation

(* The other operations of the journal *)
LEMMA JournalOps ==
  ASSUME NEW j \in Journal, OneVerdict(j), NEW r \in Revisions
  PROVE  /\ NoJournal \in Journal /\ OneVerdict(NoJournal)
         /\ TrialReject(j, r) \in Journal /\ OneVerdict(TrialReject(j, r))
         /\ TrialReject(j, r).rejected = r /\ TrialReject(j, r).pending = 0
         /\ TrialPrepare(j, r) \in Journal /\ OneVerdict(TrialPrepare(j, r))
         /\ TrialPrepare(j, r) = [pending |-> r, rejected |-> 0, attempted |-> FALSE]
<1>1. 0 \in Revisions
  BY StoreAssumption DEF Revisions
<1> QED
  BY <1>1 DEF NoJournal, TrialReject, TrialPrepare, Journal, OneVerdict

(* A save, of a change or of what is already stored *)
LEMMA SaveChanges ==
  ASSUME NEW new, NEW err, SaveIfChanged(new, err) \/ Save(new, err)
  PROVE  /\ journal' = new /\ err \in {"OK", "FAIL"}
         /\ nvs' = nvs \/ nvs' = new
         /\ journal = nvs /\ err = "OK" => nvs' = new
BY DEF SaveIfChanged, Save, trialVars

(* A restart that finds an empty journal, over generations whose trial, if *)
(* any, no restart would have to remember                                  *)
LEMMA EmptyRestartKeeps ==
  ASSUME SlotsInv, SlotsInv', BootAll, NEW g \in [Slots -> Fates], RestartOn(NoJournal, g),
         \A s \in Slots : g[s] = "none" <=> ~ValidSlot(flash[s]),
         "scan" \notin Faults /\ NextBoot # NoSlot => g[NextBoot] \in Settled
  PROVE  BootAll'
<1>1. /\ journal' = NoJournal /\ nvs' = NoJournal /\ stage' = "decide" /\ running' = NoRecord
      /\ trial' = FALSE /\ health' = "none" /\ job' = "idle" /\ flash' = flash
      /\ transfer' = Closed /\ commit' = NoCommit /\ fate' = FateAtRestart(g)
      /\ ("scan" \notin Faults => active' = Scan(flash', Slots))
  BY DEF RestartOn, Down, StoreReset, Restarted, Readable
<1>2. running'.slot = NoSlot /\ ~transfer'.open /\ ~Calling' /\ ~Up'
  BY <1>1 DEF NoRecord, Closed, NoCommit, Calling, Up
<1>3. /\ fate' \in [Slots -> Fates]
      /\ \A s \in Slots : /\ fate'[s] = IF g[s] = "trying" THEN "failed" ELSE g[s]
                          /\ fate'[s] # "trying"
                          /\ fate'[s] = "none" <=> ~ValidSlot(flash[s])
  BY <1>1 DEF FateAtRestart, Fates
<1>4. NoJournal \in Journal /\ OneVerdict(NoJournal)
  BY StoreAssumption DEF NoJournal, Journal, Revisions, OneVerdict
<1>5. NextBoot' = NextBoot /\ (NextBoot # NoSlot => NextBoot \in Slots)
  <2>1. flash \in [Slots -> Partition]
    BY DEF SlotsInv, IInv, StoreTypeOK
  <2> QED
    BY <1>1, <2>1, NextBootIs, NextBootFinds DEF IsNewest
<1>6. BootInv'
  <2>1. BootTypeOK' /\ OneVerdict(nvs)' /\ OneVerdict(journal)'
    BY <1>1, <1>3, <1>4 DEF BootTypeOK, Stages, Healths, Jobs, OneVerdict
  <2>2. StageInv' /\ JobInv' /\ RunInv' /\ WelcomeInv' /\ FateInv' /\ TrialInv'
    BY <1>1, <1>2, <1>3 DEF StageInv, JobInv, RunInv, WelcomeInv, FateInv, TrialInv
  <2> QED
    BY <2>1, <2>2 DEF BootInv
<1>7. ASSUME "scan" \notin Faults PROVE BootChoice' /\ ConfirmedInv'
  <2>1. BootChoice'
    BY <1>1, <1>2, <1>7 DEF BootChoice
  <2>2. \A s \in Slots : fate'[s] \in Settled => flash[s].header.revision # 0
    BY <1>3, ValidRevision DEF Settled
  <2>3. ConfirmedInv'
    BY <1>1, <1>2, <2>2 DEF ConfirmedInv, NeedsConfirmation, NoJournal
  <2> QED
    BY <2>1, <2>3
<1>8. "scan" \notin Faults /\ NextBoot # NoSlot => fate'[NextBoot'] \in Settled
  BY <1>3, <1>5 DEF Settled
<1>9. FailedInv' /\ UntestedInv'
  BY <1>2, <1>5, <1>8 DEF FailedInv, FailureIsJournalled, UntestedInv, UntestedIsJournalled, Careful, Settled
<1> QED
  BY <1>6, <1>7, <1>9 DEF BootAll, SteadyInv

-----------------------------------------------------------------------------
(* The boot.                                                               *)

(* Before the gauge is up the active slot, if any, holds a generation.     *)
LEMMA BootFacts ==
  ASSUME SlotsInv, BootAll, active.slot # NoSlot
  PROVE  /\ active.slot \in Slots /\ ValidSlot(flash[active.slot])
         /\ active.revision = flash[active.slot].header.revision
         /\ active.revision \in Revisions /\ active.revision # 0
         /\ ~Up /\ "scan" \notin Faults => NextBoot = active.slot
         /\ "scan" \notin Faults =>
              \A s \in Slots : s # active.slot /\ ValidSlot(flash[s]) =>
                 flash[s].header.revision # active.revision
<1>1. /\ active.slot \in Slots /\ ValidSlot(flash[active.slot])
      /\ active.revision = flash[active.slot].header.revision
  BY RecordFacts DEF SlotsInv
<1>2. active.revision \in Revisions /\ active.revision # 0
  BY <1>1, ValidRevision, PartitionParts DEF SlotsInv, IInv, StoreTypeOK
<1>3. ~Up /\ "scan" \notin Faults => NextBoot = active.slot
  BY NextBootIs DEF BootAll, SteadyInv, BootChoice
<1>4. "scan" \notin Faults =>
         \A s \in Slots : s # active.slot /\ ValidSlot(flash[s]) =>
            flash[s].header.revision # active.revision
  BY <1>1, RevisionsDiffer
<1> QED
  BY <1>1, <1>2, <1>3, <1>4

(* The store as it is leaves the next boot's choice. *)
LEMMA QuietChoice ==
  ASSUME SlotsInv, UNCHANGED storeVars
  PROVE  /\ flash' = flash /\ active' = active /\ transfer' = transfer /\ commit' = commit
         /\ NextBoot' = NextBoot
         /\ NextBoot # NoSlot => NextBoot \in Slots /\ ValidSlot(flash[NextBoot])
<1>1. flash' = flash /\ active' = active /\ transfer' = transfer /\ commit' = commit
  BY DEF storeVars
<1>2. flash \in [Slots -> Partition]
  BY DEF SlotsInv, IInv, StoreTypeOK
<1> QED
  BY <1>1, <1>2, NextBootIs, NextBootFinds DEF IsNewest

(* A boot that cannot read its journal forgets every trial. *)
LEMMA JournalUnreadKeeps ==
  ASSUME SlotsInv, SlotsInv', BootAll, JournalUnread
  PROVE  BootAll'
<1>1. /\ stage = "decide" /\ journal = nvs /\ running = NoRecord /\ running.slot = NoSlot
      /\ health = "none" /\ job = "idle" /\ ~transfer.open /\ ~Up
      /\ fate \in [Slots -> Fates]
  BY DEF JournalUnread, BootAll, BootInv, BootTypeOK, StageInv, Up, NoRecord
<1>2. \A s \in Slots : fate[s] # "trying" /\ (fate[s] = "none" <=> ~ValidSlot(flash[s]))
  BY <1>1 DEF BootAll, BootInv, TrialInv, FateInv
<1> DEFINE g == FateForgotten(NoJournal)
<1>3. /\ FateForgotten(nvs) = fate
      /\ NoJournal = nvs => g = fate
      /\ g \in [Slots -> Fates]
      /\ NoJournal # nvs => \A s \in Slots : g[s] \in Settled \union {"none"}
      /\ \A s \in Slots : g[s] # "trying" /\ (g[s] = "none" <=> ~ValidSlot(flash[s]))
  <2>1. \A s \in Slots : fate[s] \in Fates
    BY <1>1
  <2>2. FateForgotten(nvs) = fate
    BY <1>1 DEF FateForgotten
  <2>3. \A s \in Slots : g[s] = IF NoJournal # nvs /\ fate[s] \in {"untested", "failed"}
                                THEN "forgotten" ELSE fate[s]
    BY DEF FateForgotten
  <2>4. g \in [Slots -> Fates]
    BY <2>1 DEF FateForgotten, Fates
  <2>5. NoJournal = nvs => g = fate
    BY <2>2
  <2> HIDE DEF g
  <2>6. \A s \in Slots : g[s] # "trying" /\ (g[s] = "none" <=> ~ValidSlot(flash[s]))
    BY <1>2, <2>3
  <2>7. NoJournal # nvs => \A s \in Slots : g[s] \in Settled \union {"none"}
    BY <1>2, <2>1, <2>3 DEF Fates, Settled
  <2> QED
    BY <2>2, <2>4, <2>5, <2>6, <2>7
<1>4. NoJournal \in Journal /\ OneVerdict(NoJournal)
  BY StoreAssumption DEF NoJournal, Journal, Revisions, OneVerdict
<1>5. NextBoot # NoSlot => NextBoot \in Slots /\ ValidSlot(flash[NextBoot])
  <2>1. flash \in [Slots -> Partition]
    BY DEF SlotsInv, IInv, StoreTypeOK
  <2> QED
    BY <2>1, NextBootIs, NextBootFinds DEF IsNewest
<1>6. ASSUME Save(NoJournal, "OK"), fate' = FateForgotten(NoJournal),
             UNCHANGED <<storeVars, bootVars, job>>
      PROVE  BootAll'
  <2>1. /\ nvs' = NoJournal /\ journal' = NoJournal /\ stage' = stage /\ running' = running
        /\ trial' = trial /\ health' = health /\ job' = job /\ ~Up'
    BY <1>1, <1>6 DEF Save, bootVars, Up
  <2>2. /\ flash' = flash /\ active' = active /\ transfer' = transfer /\ commit' = commit
        /\ NextBoot' = NextBoot
    BY <1>6, QuietChoice
  <2>3. /\ nvs = NoJournal => fate' = fate
        /\ fate' \in [Slots -> Fates]
        /\ nvs # NoJournal => \A s \in Slots : fate'[s] \in Settled \union {"none"}
        /\ \A s \in Slots : fate'[s] # "trying" /\ (fate'[s] = "none" <=> ~ValidSlot(flash[s]))
    <3>1. fate' = g
      BY <1>6
    <3> HIDE DEF g
    <3> QED
      BY <1>3, <3>1
  <2>4. BootInv'
    <3>1. BootTypeOK' /\ OneVerdict(nvs)' /\ OneVerdict(journal)'
      BY <1>4, <2>1, <2>3 DEF BootAll, BootInv, BootTypeOK, OneVerdict
    <3>2. ~Calling'
      BY <1>1, <2>2 DEF BootAll, BootInv, JobInv, Calling
    <3>3. StageInv' /\ JobInv' /\ RunInv' /\ WelcomeInv' /\ FateInv' /\ TrialInv'
      BY <1>1, <2>1, <2>2, <2>3, <3>2 DEF StageInv, JobInv, RunInv, WelcomeInv, FateInv, TrialInv
    <3> QED
      BY <3>1, <3>3 DEF BootInv
  <2>5. ASSUME "scan" \notin Faults PROVE BootChoice' /\ ConfirmedInv'
    <3>1. BootChoice'
      BY <1>1, <2>1, <2>2, <2>5 DEF BootAll, SteadyInv, BootChoice
    <3>2. \A s \in Slots : fate'[s] \in Settled => flash[s].header.revision # 0
      BY <2>3, ValidRevision DEF Settled
    <3>3. ConfirmedInv'
      BY <2>1, <2>2, <3>2 DEF ConfirmedInv, NeedsConfirmation, NoJournal
    <3> QED
      BY <3>1, <3>3
  <2>6. FailedInv' /\ UntestedInv'
    <3>1. CASE nvs = NoJournal
      BY <1>1, <2>1, <2>2, <2>3, <3>1 DEF BootAll, FailedInv, FailureIsJournalled, UntestedInv, Careful,
         UntestedIsJournalled
    <3>2. CASE nvs # NoJournal
      BY <1>1, <1>5, <2>2, <2>3, <3>2 DEF FailedInv, FailureIsJournalled, UntestedInv,
         UntestedIsJournalled, Settled
    <3> QED
      BY <3>1, <3>2
  <2> QED
    BY <2>4, <2>5, <2>6 DEF BootAll, SteadyInv
<1>7. ASSUME NEW stored \in {nvs, NoJournal}, RestartOn(stored, FateForgotten(stored))
      PROVE  BootAll'
  <2>1. CASE stored = nvs
    <3>1. ChipRestart
      BY <1>3, <1>7, <2>1 DEF ChipRestart
    <3> QED
      BY <3>1, ChipRestartKeeps
  <2>2. CASE stored # nvs
    <3>1. NoJournal # nvs /\ RestartOn(NoJournal, g)
      BY <1>7, <2>2
    <3> HIDE DEF g
    <3>2. "scan" \notin Faults /\ NextBoot # NoSlot => g[NextBoot] \in Settled
      BY <1>3, <1>5, <3>1
    <3> QED
      BY <1>3, <3>1, <3>2, EmptyRestartKeeps
  <2> QED
    BY <2>1, <2>2
<1> QED
  BY <1>6, <1>7 DEF JournalUnread

(* The journal's decision, and the save that may fail *)
LEMMA BootDecideKeeps ==
  ASSUME SlotsInv, BootAll, BootDecide
  PROVE  BootAll'
<1> DEFINE r == active.revision
<1>1. /\ stage = "decide" /\ journal = nvs /\ UNCHANGED <<running, trial, health, job>>
      /\ running.slot = NoSlot /\ health = "none" /\ job = "idle" /\ ~transfer.open /\ ~Up
      /\ running = NoRecord
  BY DEF BootDecide, BootAll, BootInv, StageInv, Up, NoRecord
<1>2. /\ flash' = flash /\ active' = active /\ transfer' = transfer /\ commit' = commit
      /\ NextBoot' = NextBoot
      /\ NextBoot # NoSlot => NextBoot \in Slots /\ ValidSlot(flash[NextBoot])
  BY QuietChoice DEF BootDecide
<1>3. \A s \in Slots : fate[s] # "trying"
  BY <1>1 DEF BootAll, BootInv, TrialInv
<1>4. ~Calling /\ ~Calling'
  BY <1>1, <1>2 DEF BootAll, BootInv, JobInv, Calling
<1>5. CASE active.slot = NoSlot
  <2>1. stage' = "up" /\ nvs' = nvs /\ journal' = journal /\ fate' = fate
    BY <1>5 DEF BootDecide, trialVars
  <2>2. BootInv'
    BY <1>1, <1>2, <1>3, <1>4, <2>1 DEF BootAll, BootInv, BootTypeOK, Stages, OneVerdict, StageInv,
       JobInv, RunInv, FateInv, WelcomeInv, TrialInv, Up
  <2>3. SteadyInv' /\ FailedInv' /\ UntestedInv'
    BY <1>1, <1>2, <2>1 DEF BootAll, SteadyInv, BootChoice, ConfirmedInv, FailedInv, UntestedInv,
       Careful, FailureIsJournalled, UntestedIsJournalled, Up
  <2> QED
    BY <2>2, <2>3 DEF BootAll
<1>6. CASE active.slot # NoSlot
  <2> DEFINE D == TrialDecided(journal, r)
             d == TrialDecision(journal, r)
  <2>1. /\ active.slot \in Slots /\ ValidSlot(flash[active.slot])
        /\ r = flash[active.slot].header.revision /\ r \in Revisions /\ r # 0
        /\ "scan" \notin Faults => NextBoot = active.slot
        /\ "scan" \notin Faults =>
             \A s \in Slots : s # active.slot /\ ValidSlot(flash[s]) => flash[s].header.revision # r
    BY <1>1, <1>6, BootFacts
  <2>2. PICK err \in {"OK", "FAIL"} :
          /\ SaveIfChanged(D, err)
          /\ stage' = IF err # "OK" THEN "fallback"
                      ELSE CASE d = "PREVIOUS" -> "fallback"
                             [] d = "TRIAL" -> "loadTrial"
                             [] d = "ACTIVE" -> "load"
          /\ fate' = IF d # "TRIAL" \/ nvs' = nvs THEN fate
                     ELSE [fate EXCEPT ![active.slot] = IF err = "OK" THEN "trying" ELSE "failed"]
    BY <1>6 DEF BootDecide
  <2>3. journal \in Journal /\ OneVerdict(journal) /\ fate \in [Slots -> Fates] /\ nvs \in Journal
    BY DEF BootAll, BootInv, BootTypeOK
  <2>4. /\ D \in Journal /\ OneVerdict(D)
        /\ d \in {"PREVIOUS", "ACTIVE", "TRIAL"}
        /\ d = "PREVIOUS" => D.rejected = r /\ D.pending = 0
        /\ d = "ACTIVE" => D.rejected = nvs.rejected /\ nvs.rejected # r /\ D.pending = 0 /\ nvs.pending # r
        /\ d = "TRIAL" => D.rejected = nvs.rejected /\ nvs.rejected # r /\ D.pending = r /\ D.attempted
    BY <1>1, <2>1, <2>3, DecidedJournal
  <2>5. journal' = D /\ (nvs' = nvs \/ nvs' = D) /\ (err = "OK" => nvs' = D)
    BY <1>1, <2>2, SaveChanges
  <2>6. /\ d = "PREVIOUS" <=> nvs.rejected = r \/ NeedsConfirmation(nvs, r)
        /\ d = TrialDecision(nvs, r)
    BY <1>1, PreviousMeans
  <2> HIDE DEF D, d
  <2>7. d = "TRIAL" => D # nvs
    BY <2>4, <2>6 DEF NeedsConfirmation
  <2>8. /\ stage' \in {"load", "loadTrial", "fallback"}
        /\ stage' = "load" => nvs' = D /\ d = "ACTIVE"
        /\ stage' = "loadTrial" => nvs' = D /\ d = "TRIAL" /\ fate'[active.slot] = "trying"
        /\ stage' # "loadTrial" /\ (d # "TRIAL" \/ nvs' = nvs) => fate' = fate
        /\ stage' # "loadTrial" /\ d = "TRIAL" /\ nvs' # nvs => nvs' = D /\ fate'[active.slot] = "failed"
        /\ fate' \in [Slots -> Fates]
        /\ \A s \in Slots : s # active.slot => fate'[s] = fate[s]
    <3>1. CASE err = "FAIL"
      <4>1. stage' = "fallback"
        BY <2>2, <3>1
      <4>2. fate' = IF d # "TRIAL" \/ nvs' = nvs THEN fate ELSE [fate EXCEPT ![active.slot] = "failed"]
        BY <2>2, <3>1
      <4> QED
        BY <2>1, <2>3, <2>5, <4>1, <4>2 DEF Fates
    <3>2. CASE err = "OK"
      <4>1. nvs' = D
        BY <2>5, <3>2
      <4>2. CASE d = "PREVIOUS"
        BY <2>2, <2>3, <3>2, <4>2
      <4>3. CASE d = "TRIAL"
        <5>1. stage' = "loadTrial" /\ fate' = [fate EXCEPT ![active.slot] = "trying"]
          BY <2>2, <2>7, <3>2, <4>1, <4>3
        <5> QED
          BY <2>1, <2>3, <4>1, <4>3, <5>1 DEF Fates
      <4>4. CASE d = "ACTIVE"
        BY <2>2, <2>3, <3>2, <4>1, <4>4
      <4> QED
        BY <2>4, <4>2, <4>3, <4>4
    <3> QED
      BY <2>2, <3>1, <3>2
  <2>9. BootInv'
    <3>1. BootTypeOK' /\ OneVerdict(nvs)' /\ OneVerdict(journal)'
      BY <1>1, <2>4, <2>5, <2>8 DEF BootAll, BootInv, BootTypeOK, Stages, OneVerdict
    <3>2. StageInv' /\ JobInv' /\ RunInv' /\ WelcomeInv'
      BY <1>1, <1>2, <1>4, <1>6, <2>8 DEF StageInv, JobInv, RunInv, WelcomeInv, Up
    <3>3. FateInv'
      BY <1>1, <1>2, <2>1, <2>8 DEF BootAll, BootInv, FateInv
    <3>4. TrialInv'
      BY <1>2, <1>3, <2>4, <2>5, <2>8 DEF TrialInv, NeedsConfirmation
    <3> QED
      BY <3>1, <3>2, <3>3, <3>4 DEF BootInv
  <2>10. ASSUME "scan" \notin Faults PROVE BootChoice'
    <3>1. stage' = "load" => TrialDecision(nvs', r) = "ACTIVE"
      BY <2>1, <2>4, <2>8 DEF TrialDecision
    <3>2. stage' = "fallback" => journal'.pending \in {0, r}
      BY <2>4, <2>5
    <3>3. active = Scan(flash, Slots)
      BY <1>1, <2>10 DEF BootAll, SteadyInv, BootChoice
    <3> QED
      BY <1>1, <1>2, <2>8, <3>1, <3>2, <3>3 DEF BootChoice, Up
  <2>11. ASSUME "scan" \notin Faults PROVE ConfirmedInv'
    <3> SUFFICES ASSUME NEW s \in Slots, fate'[s] \in Settled
                 PROVE  /\ ~NeedsConfirmation(nvs', flash[s].header.revision)
                        /\ nvs'.rejected = flash[s].header.revision => s = NextBoot
      BY <1>1, <1>2 DEF ConfirmedInv, NoSlot, Slots
    <3>1. fate[s] \in Settled /\ ValidSlot(flash[s]) /\ (s = active.slot => d # "TRIAL" \/ nvs' = nvs)
      BY <2>8 DEF BootAll, BootInv, FateInv, Settled
    <3>2. flash[s].header.revision # 0 /\ (s # active.slot => flash[s].header.revision # r)
      BY <2>1, <2>11, <3>1, ValidRevision
    <3>3. /\ ~NeedsConfirmation(nvs, flash[s].header.revision)
          /\ nvs.rejected = flash[s].header.revision => s = NextBoot
      BY <2>11, <3>1 DEF BootAll, SteadyInv, ConfirmedInv
    <3>4. CASE nvs' = nvs
      BY <3>3, <3>4
    <3>5. CASE nvs' = D /\ d = "PREVIOUS"
      BY <2>1, <2>4, <2>11, <3>2, <3>5 DEF NeedsConfirmation
    <3>6. CASE nvs' = D /\ d = "ACTIVE"
      BY <2>4, <3>2, <3>3, <3>6 DEF NeedsConfirmation
    <3>7. CASE nvs' = D /\ d = "TRIAL" /\ s # active.slot
      BY <2>4, <3>2, <3>3, <3>7 DEF NeedsConfirmation
    <3> QED
      BY <2>4, <2>5, <3>1, <3>4, <3>5, <3>6, <3>7
  <2>12. FailedInv'
    <3> SUFFICES ASSUME Patient, "scan" \notin Faults, fate'[active.slot] \in {"trying", "failed"}
                 PROVE  TrialDecision(nvs', r) = "PREVIOUS"
      BY <1>2, <2>1 DEF FailedInv, FailureIsJournalled
    <3>1. CASE d = "TRIAL" /\ nvs' # nvs
      BY <2>4, <2>5, <3>1, PreviousMeans DEF NeedsConfirmation
    <3>2. CASE d # "TRIAL" \/ nvs' = nvs
      <4>1. fate[active.slot] = "failed"
        BY <1>3, <2>1, <2>2, <3>2
      <4>2. TrialDecision(nvs, r) = "PREVIOUS"
        BY <1>6, <2>1, <4>1 DEF BootAll, FailedInv, FailureIsJournalled
      <4> QED
        BY <2>4, <2>5, <2>6, <4>2, PreviousMeans
    <3> QED
      BY <3>1, <3>2
  <2>13. UntestedInv'
    <3>1. ASSUME Careful, fate'[active.slot] = "untested"
          PROVE  nvs' = nvs /\ fate[active.slot] = "untested"
      <4>1. d # "TRIAL" \/ nvs' = nvs
        BY <2>5, <2>8, <3>1
      <4>2. fate[active.slot] = "untested" /\ NextBoot = active.slot
        BY <2>1, <2>2, <3>1, <4>1 DEF Careful
      <4>3. d = "TRIAL"
        BY <1>6, <2>1, <2>6, <3>1, <4>2 DEF BootAll, UntestedInv, UntestedIsJournalled
      <4> QED
        BY <4>1, <4>2, <4>3
    <3>2. Careful => UntestedIsJournalled'
      BY <1>2, <2>1, <3>1 DEF BootAll, UntestedInv, UntestedIsJournalled, Careful
    <3> QED
      BY <1>1, <1>2, <3>2 DEF UntestedInv
  <2> QED
    BY <2>9, <2>10, <2>11, <2>12, <2>13 DEF BootAll, SteadyInv
<1> QED
  BY <1>5, <1>6

(* The active slot runs. *)
LEMMA BootLoadKeeps ==
  ASSUME SlotsInv, BootAll, BootLoad
  PROVE  BootAll'
<1>1. /\ stage \in {"load", "loadTrial"} /\ stage' = "up" /\ running' = active
      /\ trial' = (stage = "loadTrial")
      /\ health' = IF NeedsConfirmation(journal, active.revision) THEN "polling" ELSE "none"
      /\ UNCHANGED <<nvs, journal, job, fate>> /\ ~Up /\ Up'
  BY DEF BootLoad, Run, trialVars, Up
<1>2. /\ flash' = flash /\ active' = active /\ transfer' = transfer /\ commit' = commit
      /\ NextBoot' = NextBoot
      /\ NextBoot # NoSlot => NextBoot \in Slots /\ ValidSlot(flash[NextBoot])
  BY QuietChoice DEF BootLoad
<1>3. /\ active.slot # NoSlot /\ job = "idle" /\ ~transfer.open /\ ~Calling /\ ~Calling'
  BY <1>1, <1>2 DEF BootAll, BootInv, StageInv, JobInv, Calling
<1>4. /\ active.slot \in Slots /\ ValidSlot(flash[active.slot])
      /\ active.revision = flash[active.slot].header.revision
      /\ "scan" \notin Faults => NextBoot = active.slot
  BY <1>1, <1>3, BootFacts
<1>5. BootInv'
  <2>1. BootTypeOK' /\ OneVerdict(nvs)' /\ OneVerdict(journal)'
    BY <1>1 DEF BootAll, BootInv, BootTypeOK, Stages, Healths, OneVerdict, SlotsInv, IInv, StoreTypeOK
  <2>2. StageInv' /\ JobInv' /\ RunInv' /\ WelcomeInv'
    BY <1>1, <1>2, <1>3 DEF StageInv, JobInv, RunInv, WelcomeInv
  <2>3. FateInv'
    BY <1>1, <1>2 DEF BootAll, BootInv, FateInv
  <2>4. TrialInv'
    BY <1>1, <1>2 DEF BootAll, BootInv, TrialInv
  <2> QED
    BY <2>1, <2>2, <2>3, <2>4 DEF BootInv
<1>6. ASSUME "scan" \notin Faults PROVE BootChoice' /\ ConfirmedInv'
  <2>1. BootChoice'
    BY <1>1, <1>2, <1>4, <1>6 DEF BootChoice
  <2>2. ASSUME NEW s \in Slots, fate[s] \in Settled, nvs.rejected = flash[s].header.revision
        PROVE  s # active.slot
    <3>1. CASE stage = "loadTrial"
      BY <1>4, <2>2, <3>1 DEF BootAll, BootInv, TrialInv, Settled
    <3>2. CASE stage = "load"
      BY <1>4, <1>6, <2>2, <3>2 DEF BootAll, SteadyInv, BootChoice, TrialDecision
    <3> QED
      BY <1>1, <3>1, <3>2
  <2>3. ConfirmedInv'
    BY <1>1, <1>2, <1>6, <2>2 DEF BootAll, SteadyInv, ConfirmedInv
  <2> QED
    BY <2>1, <2>3
<1>7. FailedInv' /\ UntestedInv'
  BY <1>1, <1>2, <1>3 DEF BootAll, FailedInv, FailureIsJournalled, UntestedInv, Careful, UntestedIsJournalled
<1> QED
  BY <1>5, <1>6, <1>7 DEF BootAll, SteadyInv

(* The active slot does not compile: its revision is rejected. *)
LEMMA BootLoadFailsKeeps ==
  ASSUME SlotsInv, BootAll, BootLoadFails
  PROVE  BootAll'
<1> DEFINE r == active.revision
           R == TrialReject(journal, r)
<1>1. /\ stage \in {"load", "loadTrial"} /\ stage' = "fallback"
      /\ UNCHANGED <<running, trial, health, job>> /\ ~Up /\ ~Up'
      /\ fate' = IF stage = "loadTrial" THEN [fate EXCEPT ![active.slot] = "failed"] ELSE fate
  BY DEF BootLoadFails, Up
<1>2. journal' = R /\ (nvs' = nvs \/ nvs' = R)
  BY SaveChanges DEF BootLoadFails
<1>3. /\ flash' = flash /\ active' = active /\ transfer' = transfer /\ commit' = commit
      /\ NextBoot' = NextBoot
      /\ NextBoot # NoSlot => NextBoot \in Slots /\ ValidSlot(flash[NextBoot])
  BY QuietChoice DEF BootLoadFails
<1>4. /\ active.slot # NoSlot /\ job = "idle" /\ ~transfer.open /\ ~Calling /\ ~Calling'
      /\ running = NoRecord /\ running.slot = NoSlot /\ health = "none"
  BY <1>1, <1>3 DEF BootAll, BootInv, StageInv, JobInv, Calling, NoRecord
<1>5. /\ active.slot \in Slots /\ ValidSlot(flash[active.slot])
      /\ r = flash[active.slot].header.revision /\ r \in Revisions /\ r # 0
      /\ "scan" \notin Faults => NextBoot = active.slot
      /\ "scan" \notin Faults =>
           \A s \in Slots : s # active.slot /\ ValidSlot(flash[s]) => flash[s].header.revision # r
  BY <1>1, <1>4, BootFacts
<1>6. journal \in Journal /\ OneVerdict(journal) /\ fate \in [Slots -> Fates]
  BY DEF BootAll, BootInv, BootTypeOK
<1>7. R \in Journal /\ OneVerdict(R) /\ R.rejected = r /\ R.pending = 0
  BY <1>5, <1>6, JournalOps
<1> HIDE DEF R
<1>8. /\ stage = "loadTrial" => fate'[active.slot] = "failed"
      /\ stage # "loadTrial" => fate' = fate
      /\ fate' \in [Slots -> Fates]
      /\ \A s \in Slots : s # active.slot => fate'[s] = fate[s]
  BY <1>1, <1>5, <1>6 DEF Fates
<1>9. BootInv'
  <2>1. BootTypeOK' /\ OneVerdict(nvs)' /\ OneVerdict(journal)'
    BY <1>1, <1>2, <1>7, <1>8 DEF BootAll, BootInv, BootTypeOK, Stages, OneVerdict
  <2>2. StageInv' /\ JobInv' /\ RunInv' /\ WelcomeInv'
    BY <1>1, <1>3, <1>4 DEF StageInv, JobInv, RunInv, WelcomeInv
  <2>3. FateInv'
    BY <1>3, <1>4, <1>5, <1>8 DEF BootAll, BootInv, FateInv
  <2>4. TrialInv'
    BY <1>1, <1>3, <1>8 DEF BootAll, BootInv, TrialInv
  <2> QED
    BY <2>1, <2>2, <2>3, <2>4 DEF BootInv
<1>10. ASSUME "scan" \notin Faults PROVE BootChoice'
  <2>1. active = Scan(flash, Slots)
    BY <1>1, <1>10 DEF BootAll, SteadyInv, BootChoice
  <2> QED
    BY <1>1, <1>2, <1>3, <1>4, <1>7, <2>1 DEF BootChoice
<1>11. ASSUME "scan" \notin Faults PROVE ConfirmedInv'
  <2> SUFFICES ASSUME NEW s \in Slots, fate'[s] \in Settled
               PROVE  /\ ~NeedsConfirmation(nvs', flash[s].header.revision)
                      /\ nvs'.rejected = flash[s].header.revision => s = NextBoot
    BY <1>1, <1>3, <1>4 DEF ConfirmedInv, NoSlot, Slots
  <2>1. fate[s] \in Settled /\ ValidSlot(flash[s])
    BY <1>8 DEF BootAll, BootInv, FateInv, Settled
  <2>2. flash[s].header.revision # 0 /\ (s # active.slot => flash[s].header.revision # r)
    BY <1>5, <1>11, <2>1, ValidRevision
  <2>3. CASE nvs' = nvs
    BY <1>11, <2>1, <2>3 DEF BootAll, SteadyInv, ConfirmedInv
  <2>4. CASE nvs' = R
    BY <1>5, <1>7, <1>11, <2>2, <2>4 DEF NeedsConfirmation
  <2> QED
    BY <1>2, <2>3, <2>4
<1>12. FailedInv'
  <2> SUFFICES ASSUME Patient, "scan" \notin Faults, fate'[active.slot] \in {"trying", "failed"}
               PROVE  TrialDecision(nvs', r) = "PREVIOUS"
    BY <1>3, <1>5 DEF FailedInv, FailureIsJournalled
  <2>1. CASE nvs' = R
    BY <1>7, <2>1, PreviousMeans
  <2>2. CASE nvs' = nvs /\ stage = "loadTrial"
    <3>1. NeedsConfirmation(nvs, r)
      BY <2>2 DEF BootAll, BootInv, TrialInv
    <3> QED
      BY <2>2, <3>1, PreviousMeans
  <2>3. CASE nvs' = nvs /\ stage # "loadTrial"
    BY <1>4, <1>5, <1>8, <2>3 DEF BootAll, FailedInv, FailureIsJournalled
  <2> QED
    BY <1>2, <2>1, <2>2, <2>3
<1>13. UntestedInv'
  <2>1. ASSUME Careful PROVE fate'[active.slot] # "untested"
    <3> SUFFICES ASSUME fate[active.slot] = "untested", stage = "load" PROVE FALSE
      BY <1>1, <1>8
    <3>1. TrialDecision(nvs, r) = "TRIAL"
      BY <1>4, <1>5, <2>1 DEF BootAll, UntestedInv, UntestedIsJournalled, Careful
    <3>2. TrialDecision(nvs, r) = "ACTIVE"
      BY <2>1 DEF BootAll, SteadyInv, BootChoice, Careful
    <3> QED
      BY <3>1, <3>2
  <2>2. Careful => UntestedIsJournalled'
    BY <1>3, <1>5, <2>1 DEF UntestedIsJournalled, Careful
  <2> QED
    BY <1>3, <1>4, <2>2 DEF UntestedInv
<1> QED
  BY <1>9, <1>10, <1>11, <1>12, <1>13 DEF BootAll, SteadyInv

(* The previous slot runs, and becomes the base of transfers. *)
LEMMA BootFallbackKeeps ==
  ASSUME SlotsInv, SlotsInv', BootAll, BootFallback
  PROVE  BootAll'
<1> DEFINE o == Other(active.slot)
<1>1. /\ stage = "fallback" /\ stage' = "up" /\ running' = RecordOf(flash, o) /\ trial' = FALSE
      /\ health' = IF NeedsConfirmation(journal, flash[o].header.revision) THEN "polling" ELSE "none"
      /\ UNCHANGED <<nvs, journal, job, fate>> /\ ~Up /\ Up'
      /\ active' = RecordOf(flash, o) /\ UNCHANGED <<flash, transfer, commit>>
      /\ active.slot # NoSlot /\ ValidSlot(flash[o])
  BY DEF BootFallback, StoreSelect, HasPrevious, Previous, Run, trialVars, Up, RecordOf
<1>2. NextBoot' = NextBoot
  BY <1>1, NextBootIs
<1>3. job = "idle" /\ ~transfer.open /\ ~Calling /\ ~Calling'
  BY <1>1 DEF BootAll, BootInv, StageInv, JobInv, Calling
<1>4. /\ active.slot \in Slots /\ active.revision # 0
      /\ "scan" \notin Faults => NextBoot = active.slot
      /\ "scan" \notin Faults =>
           \A s \in Slots : s # active.slot /\ ValidSlot(flash[s]) =>
              flash[s].header.revision # active.revision
  BY <1>1, BootFacts
<1>5. o \in Slots /\ o # active.slot
  BY <1>4 DEF Other, Slots
<1> HIDE DEF o
<1>6. flash[o].header.revision # 0
  BY <1>1, <1>5, ValidRevision
<1>7. running'.slot = o /\ running'.revision = flash[o].header.revision
  BY <1>1 DEF RecordOf
<1>8. BootInv'
  <2>1. BootTypeOK' /\ OneVerdict(nvs)' /\ OneVerdict(journal)'
    <3>1. running' \in Record \union {NoRecord}
      BY <1>1 DEF SlotsInv, IInv, StoreTypeOK
    <3> QED
      BY <1>1, <3>1 DEF BootAll, BootInv, BootTypeOK, Stages, Healths, OneVerdict
  <2>2. StageInv' /\ JobInv' /\ RunInv' /\ WelcomeInv'
    BY <1>1, <1>3, <1>5, <1>7 DEF StageInv, JobInv, RunInv, WelcomeInv, NoSlot, Slots
  <2>3. FateInv'
    BY <1>1, <1>3 DEF BootAll, BootInv, FateInv
  <2>4. TrialInv'
    BY <1>1 DEF BootAll, BootInv, TrialInv
  <2> QED
    BY <2>1, <2>2, <2>3, <2>4 DEF BootInv
<1>9. ASSUME "scan" \notin Faults PROVE BootChoice' /\ ConfirmedInv'
  <2>1. ~NeedsConfirmation(journal, flash[o].header.revision)
    <3>1. journal.pending \in {0, active.revision}
      BY <1>1, <1>9 DEF BootAll, SteadyInv, BootChoice
    <3> QED
      BY <1>1, <1>4, <1>5, <1>6, <1>9, <3>1 DEF NeedsConfirmation
  <2>2. BootChoice'
    BY <1>1, <1>7, <2>1 DEF BootChoice
  <2>3. NextBoot # o
    BY <1>4, <1>5, <1>9
  <2>4. ConfirmedInv'
    BY <1>1, <1>2, <1>7, <1>9, <2>3 DEF BootAll, SteadyInv, ConfirmedInv
  <2> QED
    BY <2>2, <2>4
<1>10. FailedInv' /\ UntestedInv'
  BY <1>1, <1>2, <1>3 DEF BootAll, FailedInv, FailureIsJournalled, UntestedInv, Careful, UntestedIsJournalled
<1> QED
  BY <1>8, <1>9, <1>10 DEF BootAll, SteadyInv

(* The gauge comes up without a configuration. *)
LEMMA BootWithoutKeeps ==
  ASSUME SlotsInv, BootAll, BootWithout
  PROVE  BootAll'
<1>1. /\ stage = "fallback" /\ stage' = "up" /\ ~Up /\ Up'
      /\ UNCHANGED <<nvs, journal, running, trial, health, job, fate>>
  BY DEF BootWithout, trialVars, Up
<1>2. /\ flash' = flash /\ active' = active /\ transfer' = transfer /\ commit' = commit
      /\ NextBoot' = NextBoot
  BY QuietChoice DEF BootWithout
<1>3. /\ job = "idle" /\ ~transfer.open /\ ~Calling /\ ~Calling' /\ running.slot = NoSlot
      /\ health = "none"
  BY <1>1, <1>2 DEF BootAll, BootInv, StageInv, JobInv, Calling, NoRecord
<1>4. BootInv'
  <2>1. BootTypeOK' /\ OneVerdict(nvs)' /\ OneVerdict(journal)'
    BY <1>1 DEF BootAll, BootInv, BootTypeOK, Stages, OneVerdict
  <2>2. StageInv' /\ JobInv' /\ RunInv' /\ WelcomeInv'
    BY <1>1, <1>2, <1>3 DEF StageInv, JobInv, RunInv, WelcomeInv
  <2>3. FateInv' /\ TrialInv'
    BY <1>1, <1>2, <1>3 DEF BootAll, BootInv, FateInv, TrialInv
  <2> QED
    BY <2>1, <2>2, <2>3 DEF BootInv
<1>5. SteadyInv' /\ FailedInv' /\ UntestedInv'
  BY <1>1, <1>2, <1>3 DEF BootAll, SteadyInv, BootChoice, ConfirmedInv, FailedInv, FailureIsJournalled,
     UntestedInv, Careful, UntestedIsJournalled
<1> QED
  BY <1>4, <1>5 DEF BootAll

-----------------------------------------------------------------------------
(* The health task.                                                        *)

(* The configuration that runs is the active one, or after a commit the    *)
(* one beside it.                                                          *)
LEMMA RunsKept ==
  ASSUME SlotsInv, BootAll
  PROVE  RunningIsKept
BY DEF BootAll, BootInv, RunInv, RunningIsKept, SlotsInv, IInv, ActiveIsIntact

(* The gauge proved healthy. *)
LEMMA HealthReadyKeeps ==
  ASSUME SlotsInv, BootAll, HealthReady
  PROVE  BootAll'
<1>1. /\ health = "polling" /\ health' \in {"none", "confirming"}
      /\ UNCHANGED <<nvs, journal, stage, running, trial, job, fate>> /\ Up' = Up
  BY DEF HealthReady, trialVars, Up
<1>2. /\ flash' = flash /\ active' = active /\ transfer' = transfer /\ commit' = commit
      /\ NextBoot' = NextBoot
  BY QuietChoice DEF HealthReady
<1>3. Up /\ Calling' = Calling /\ Candidate' = Candidate
  BY <1>1, <1>2 DEF BootAll, BootInv, StageInv, Calling, Candidate
<1>4. BootInv'
  <2>1. BootTypeOK' /\ OneVerdict(nvs)' /\ OneVerdict(journal)'
    BY <1>1 DEF BootAll, BootInv, BootTypeOK, Healths, OneVerdict
  <2>2. StageInv' /\ JobInv' /\ WelcomeInv'
    BY <1>1, <1>2, <1>3 DEF BootAll, BootInv, StageInv, JobInv, WelcomeInv, Up
  <2>3. RunInv' /\ FateInv' /\ TrialInv'
    BY <1>1, <1>2, <1>3 DEF BootAll, BootInv, RunInv, RunningIsKept, FateInv, TrialInv
  <2> QED
    BY <2>1, <2>2, <2>3 DEF BootInv
<1>5. SteadyInv' /\ FailedInv' /\ UntestedInv'
  BY <1>1, <1>2, <1>3 DEF BootAll, SteadyInv, BootChoice, ConfirmedInv, FailedInv, FailureIsJournalled,
     UntestedInv, Careful, UntestedIsJournalled
<1> QED
  BY <1>4, <1>5 DEF BootAll

(* The trial is confirmed in the journal, or the chip restarts. *)
LEMMA HealthConfirmKeeps ==
  ASSUME SlotsInv, SlotsInv', BootAll, HealthConfirm
  PROVE  BootAll'
<1> DEFINE r == running.revision
<1>1. CASE ChipRestart
  BY <1>1, ChipRestartKeeps
<1>2. CASE /\ SaveIfChanged(TrialConfirm(journal, r), "OK")
           /\ health' = "none"
           /\ trial' = FALSE
           /\ fate' = IF journal' = journal THEN fate
                      ELSE [fate EXCEPT ![running.slot] = "confirmed"]
           /\ UNCHANGED <<storeVars, stage, running, job>>
  <2>1. /\ flash' = flash /\ active' = active /\ transfer' = transfer /\ commit' = commit
        /\ NextBoot' = NextBoot
        /\ NextBoot # NoSlot => NextBoot \in Slots /\ ValidSlot(flash[NextBoot])
    BY <1>2, QuietChoice
  <2>2. /\ stage' = stage /\ running' = running /\ job' = job /\ Up' = Up /\ Calling' = Calling
        /\ Candidate' = Candidate
    BY <1>2, <2>1 DEF Up, Calling, Candidate
  <2>3. Up /\ running.slot # NoSlot /\ running.slot \in Slots
    BY DEF HealthConfirm, BootAll, BootInv, StageInv, RunInv, BootTypeOK, Record, NoRecord
  <2>4. CASE ~NeedsConfirmation(journal, r)
    <3>1. journal' = journal /\ nvs' = nvs /\ fate' = fate
      BY <1>2, <2>4 DEF TrialConfirm, SaveIfChanged, trialVars
    <3>2. Patient => \A s \in Slots : fate[s] # "trying"
      BY <2>3, <2>4 DEF BootAll, BootInv, TrialInv, Up
    <3>3. BootInv'
      <4>1. BootTypeOK' /\ OneVerdict(nvs)' /\ OneVerdict(journal)'
        BY <1>2, <2>2, <3>1 DEF BootAll, BootInv, BootTypeOK, Healths, OneVerdict
      <4>2. StageInv' /\ JobInv' /\ WelcomeInv'
        BY <1>2, <2>1, <2>2, <2>3, <3>1 DEF BootAll, BootInv, StageInv, JobInv, WelcomeInv, Up
      <4>3. RunInv' /\ FateInv'
        BY <1>2, <2>1, <2>2, <3>1 DEF BootAll, BootInv, RunInv, RunningIsKept, FateInv
      <4>4. TrialInv'
        BY <2>2, <2>3, <3>1, <3>2 DEF BootAll, BootInv, TrialInv, Up
      <4> QED
        BY <4>1, <4>2, <4>3, <4>4 DEF BootInv
    <3>4. SteadyInv' /\ FailedInv' /\ UntestedInv'
      BY <2>1, <2>2, <3>1 DEF BootAll, SteadyInv, BootChoice, ConfirmedInv, FailedInv, FailureIsJournalled,
         UntestedInv, Careful, UntestedIsJournalled
    <3> QED
      BY <3>3, <3>4 DEF BootAll
  <2>5. CASE NeedsConfirmation(journal, r)
    <3>1. journal' = NoJournal /\ nvs' = NoJournal /\ journal' # journal
      BY <1>2, <2>5 DEF TrialConfirm, SaveIfChanged, Save, NeedsConfirmation, NoJournal, trialVars
    <3>2. NoJournal \in Journal /\ NoJournal.rejected = 0 /\ ~NoJournal.attempted
      BY StoreAssumption DEF NoJournal, Journal, Revisions
    <3>3. fate \in [Slots -> Fates]
      BY DEF BootAll, BootInv, BootTypeOK
    <3>4. /\ fate'[running.slot] = "confirmed" /\ fate' \in [Slots -> Fates]
          /\ \A s \in Slots : s # running.slot => fate'[s] = fate[s]
      BY <1>2, <2>3, <3>1, <3>3 DEF Fates
    <3>5. job \in {"idle", "applied"}
      BY <2>5 DEF BootAll, BootInv, BootTypeOK, Jobs, JobInv, NeedsConfirmation
    <3>6. ValidSlot(flash[running.slot])
      BY <2>3, RunsKept DEF RunningIsKept
    <3>7. BootInv'
      <4>1. BootTypeOK' /\ OneVerdict(nvs)' /\ OneVerdict(journal)'
        BY <1>2, <2>2, <3>1, <3>2, <3>4 DEF BootAll, BootInv, BootTypeOK, Healths, OneVerdict
      <4>2. StageInv' /\ JobInv'
        BY <1>2, <2>1, <2>2, <2>3, <3>5 DEF BootAll, BootInv, StageInv, JobInv, Up
      <4>3. RunInv'
        BY <1>2, <2>1, <2>2 DEF BootAll, BootInv, RunInv, RunningIsKept
      <4>4. FateInv'
        <5>1. transfer.open => transfer.slot # running.slot /\ transfer.slot \in Slots
          BY <2>3 DEF BootAll, BootInv, RunInv, JobInv, SlotsInv, IInv, StagedIsCounted, StoreTypeOK, Transfer
        <5>2. \A s \in Slots : fate'[s] = "none" <=> ~ValidSlot(flash[s])
          BY <3>4, <3>6 DEF BootAll, BootInv, FateInv
        <5>3. transfer.open /\ ValidSlot(flash[transfer.slot]) => fate'[transfer.slot] = "untested"
          BY <3>4, <5>1 DEF BootAll, BootInv, FateInv
        <5> QED
          BY <2>1, <5>2, <5>3 DEF FateInv
      <4>5. WelcomeInv'
        BY <2>2, <2>3, <3>4 DEF WelcomeInv, Settled
      <4>6. TrialInv'
        <5>1. \A s \in Slots : fate'[s] # "trying"
          BY <2>3, <3>4 DEF BootAll, BootInv, TrialInv, Up
        <5> QED
          BY <2>2, <2>3, <5>1 DEF TrialInv, Up
      <4> QED
        BY <4>1, <4>2, <4>3, <4>4, <4>5, <4>6 DEF BootInv
    <3>8. ASSUME "scan" \notin Faults PROVE BootChoice' /\ ConfirmedInv'
      <4>1. BootChoice'
        BY <2>2, <2>3, <3>1, <3>2 DEF BootChoice, NeedsConfirmation, Up
      <4>2. \A s \in Slots : fate'[s] \in Settled => flash[s].header.revision # 0
        BY <2>1, <3>7, ValidRevision DEF BootInv, FateInv, Settled
      <4>3. ConfirmedInv'
        BY <2>1, <3>1, <3>2, <4>2 DEF ConfirmedInv, NeedsConfirmation
      <4> QED
        BY <4>1, <4>3
    <3>9. "scan" \notin Faults => NextBoot = running.slot
      BY <2>3, <2>5 DEF BootAll, SteadyInv, BootChoice
    <3>10. FailedInv' /\ UntestedInv'
      BY <2>1, <2>2, <3>4, <3>9 DEF BootAll, FailedInv, FailureIsJournalled, UntestedInv, Careful,
         UntestedIsJournalled
    <3> QED
      BY <3>7, <3>8, <3>10 DEF BootAll, SteadyInv
  <2> QED
    BY <2>4, <2>5
<1>3. ASSUME NeedsConfirmation(journal, r),
             RestartOn(NoJournal, [fate EXCEPT ![running.slot] = "confirmed"])
      PROVE  BootAll'
  <2> DEFINE g == [fate EXCEPT ![running.slot] = "confirmed"]
  <2>1. running.slot \in Slots /\ running.slot # NoSlot
    BY DEF HealthConfirm, BootAll, BootInv, RunInv, BootTypeOK, Record, NoRecord
  <2>2. ValidSlot(flash[running.slot])
    BY <2>1, RunsKept DEF RunningIsKept
  <2>3. /\ g \in [Slots -> Fates] /\ g[running.slot] = "confirmed"
        /\ \A s \in Slots : s # running.slot => g[s] = fate[s]
    BY <2>1 DEF BootAll, BootInv, BootTypeOK, Fates
  <2> HIDE DEF g
  <2>4. \A s \in Slots : g[s] = "none" <=> ~ValidSlot(flash[s])
    BY <2>2, <2>3 DEF BootAll, BootInv, FateInv
  <2>5. "scan" \notin Faults => g[NextBoot] \in Settled
    <3>1. "scan" \notin Faults => NextBoot = running.slot
      BY <1>3, <2>1 DEF BootAll, SteadyInv, BootChoice
    <3> QED
      BY <2>3, <3>1 DEF Settled
  <2>6. RestartOn(NoJournal, g)
    BY <1>3 DEF g
  <2> QED
    BY <2>3, <2>4, <2>5, <2>6, EmptyRestartKeeps
<1> QED
  BY <1>1, <1>2, <1>3 DEF HealthConfirm

-----------------------------------------------------------------------------
(* The transfer worker.                                                    *)

(* While a patient phone transfers, every generation but the one in the    *)
(* transfer's slot is confirmed.                                           *)
LEMMA OthersConfirmed ==
  ASSUME SlotsInv, BootAll, Patient, "scan" \notin Faults, transfer.open,
         NEW s \in Slots, s # transfer.slot, ValidSlot(flash[s])
  PROVE  fate[s] \in Settled
<1>1. transfer.slot = Target /\ transfer.slot \in Slots
  BY DEF SlotsInv, HeaderInv, IInv, StoreTypeOK, Transfer
<1>2. active.slot # NoSlot
  BY <1>1 DEF SlotsInv, Adjacent, Target, NoSlot, Slots
<1>3. s = active.slot
  BY <1>1, <1>2, RecordFacts DEF SlotsInv, Target, Slots
<1>4. job # "applied"
  BY DEF BootAll, BootInv, JobInv
<1> QED
  BY <1>2, <1>3, <1>4 DEF BootAll, BootInv, WelcomeInv, RunInv

(* The worker writes to the journal over an open transfer: the candidate   *)
(* before the marker, nothing after an error.                              *)
LEMMA JournalWriteKeeps ==
  ASSUME SlotsInv, BootAll, JobInv', Up, UNCHANGED <<storeVars, bootVars, fate>>,
         job \in {"idle", "cancel"}, job' \in Jobs \ {"applied"}, transfer.open, NEW p \in Revisions,
         journal' = [pending |-> p, rejected |-> 0, attempted |-> FALSE],
         nvs' = nvs \/ nvs' = journal'
  PROVE  BootAll'
<1>1. /\ flash' = flash /\ active' = active /\ transfer' = transfer /\ commit' = commit
      /\ NextBoot' = NextBoot
      /\ NextBoot # NoSlot => NextBoot \in Slots /\ ValidSlot(flash[NextBoot])
  BY QuietChoice
<1>2. /\ stage' = stage /\ running' = running /\ trial' = trial /\ health' = health /\ fate' = fate
      /\ stage = "up" /\ Up'
  BY DEF bootVars, Up
<1>3. journal' \in Journal /\ journal'.rejected = 0 /\ ~journal'.attempted
  BY StoreAssumption DEF Journal, Revisions
<1>4. ~Calling /\ commit.at = "none"
  BY DEF BootAll, BootInv, JobInv, Calling
<1>5. BootInv'
  <2>1. BootTypeOK' /\ OneVerdict(nvs)' /\ OneVerdict(journal)'
    BY <1>2, <1>3 DEF BootAll, BootInv, BootTypeOK, OneVerdict
  <2>2. StageInv' /\ RunInv' /\ FateInv' /\ WelcomeInv'
    BY <1>1, <1>2 DEF BootAll, BootInv, StageInv, RunInv, FateInv, WelcomeInv, Up
  <2>3. Patient => \A s \in Slots : fate[s] # "trying"
    <3> SUFFICES ASSUME Patient, NEW s \in Slots, fate[s] = "trying" PROVE FALSE
      OBVIOUS
    <3>1. s = running.slot /\ s # NoSlot
      BY <1>2 DEF BootAll, BootInv, TrialInv, NoSlot, Slots
    <3> QED
      BY <3>1 DEF BootAll, BootInv, WelcomeInv, RunInv, Settled
  <2>4. TrialInv'
    BY <1>2, <2>3 DEF BootAll, BootInv, TrialInv, Up
  <2> QED
    BY <2>1, <2>2, <2>4 DEF BootInv
<1>6. ASSUME "scan" \notin Faults PROVE BootChoice' /\ ConfirmedInv'
  <2>1. BootChoice'
    BY <1>2, <1>3 DEF BootChoice, NeedsConfirmation
  <2>2. \A s \in Slots : fate[s] \in Settled => flash[s].header.revision # 0
    BY ValidRevision DEF BootAll, BootInv, FateInv, Settled
  <2>3. CASE nvs' = nvs
    BY <1>1, <1>2, <1>6, <2>1, <2>3 DEF BootAll, SteadyInv, ConfirmedInv
  <2>4. CASE nvs' = journal'
    BY <1>1, <1>2, <1>3, <2>1, <2>2, <2>4 DEF ConfirmedInv, NeedsConfirmation
  <2> QED
    BY <2>3, <2>4
<1>7. Patient /\ "scan" \notin Faults /\ NextBoot # NoSlot =>
        fate[NextBoot] \in Settled \union {"untested"}
  <2> SUFFICES ASSUME Patient, "scan" \notin Faults, NextBoot # NoSlot
               PROVE  fate[NextBoot] \in Settled \union {"untested"}
    OBVIOUS
  <2>1. CASE NextBoot = transfer.slot
    BY <1>1, <2>1 DEF BootAll, BootInv, FateInv
  <2>2. CASE NextBoot # transfer.slot
    BY <1>1, <2>2, OthersConfirmed
  <2> QED
    BY <2>1, <2>2
<1>8. FailedInv'
  BY <1>1, <1>2, <1>7 DEF FailedInv, FailureIsJournalled, Settled
<1>9. UntestedInv'
  <2>1. ASSUME Careful PROVE ~ValidSlot(flash[transfer.slot])
    BY <1>4, <2>1 DEF BootAll, UntestedInv
  <2>2. ASSUME Careful, NextBoot # NoSlot PROVE fate[NextBoot] # "untested"
    <3>1. NextBoot # transfer.slot
      BY <1>1, <2>1, <2>2
    <3> QED
      BY <1>1, <2>2, <3>1, OthersConfirmed DEF Careful, Settled
  <2> QED
    BY <1>1, <1>2, <2>1, <2>2 DEF UntestedInv, UntestedIsJournalled
<1> QED
  BY <1>5, <1>6, <1>8, <1>9 DEF BootAll, SteadyInv

(* An open transfer has a revision to give to its generation. *)
LEMMA CandidateIsRevision ==
  ASSUME SlotsInv, transfer.open
  PROVE  Candidate \in Revisions
BY RecordFacts, StoreAssumption DEF SlotsInv, IInv, StagedIsCounted, Candidate, Revisions

(* COMMIT journals the candidate, or gives up. *)
LEMMA CommitPrepareKeeps ==
  ASSUME SlotsInv, BootAll, StagedCheck = "OK", NEW err, CommitPrepare(Candidate, err)
  PROVE  BootAll'
<1>1. /\ Up /\ job = "idle" /\ UNCHANGED <<storeVars, bootVars, fate>>
      /\ job' = IF err = "OK" THEN "commit" ELSE "cancel"
      /\ journal' = TrialPrepare(journal, Candidate)
      /\ nvs' = nvs \/ nvs' = journal'
      /\ err = "OK" => nvs' = journal'
  BY DEF CommitPrepare, Save
<1>2. transfer.open
  BY DEF StagedCheck
<1>3. Candidate \in Revisions
  BY <1>2, CandidateIsRevision
<1>4. journal' = [pending |-> Candidate, rejected |-> 0, attempted |-> FALSE]
  BY <1>1 DEF TrialPrepare
<1>5. JobInv'
  <2>1. ~Calling' /\ Candidate' = Candidate /\ transfer'.open
    BY <1>1, <1>2 DEF storeVars, Calling, Candidate, BootAll, BootInv, JobInv
  <2>2. job' = "commit" => nvs' = journal'
    BY <1>1
  <2> QED
    BY <1>1, <1>4, <2>1, <2>2 DEF JobInv
<1>6. job' \in Jobs \ {"applied"}
  BY <1>1 DEF Jobs
<1> QED
  BY <1>1, <1>2, <1>3, <1>4, <1>5, <1>6, JournalWriteKeeps

(* After an error the candidate is taken out of the journal. *)
LEMMA CommitCancelKeeps ==
  ASSUME SlotsInv, BootAll, CommitCancel(Candidate)
  PROVE  BootAll'
<1>1. /\ job = "cancel" /\ job' = "idle" /\ UNCHANGED <<storeVars, bootVars, fate>>
      /\ journal' = TrialCancel(journal, Candidate)
      /\ nvs' = nvs \/ nvs' = journal'
  BY SaveChanges DEF CommitCancel
<1>2. Up /\ transfer.open /\ journal = [pending |-> Candidate, rejected |-> 0, attempted |-> FALSE]
  BY <1>1 DEF BootAll, BootInv, StageInv, JobInv
<1>3. journal' = [pending |-> 0, rejected |-> 0, attempted |-> FALSE]
  BY <1>1, <1>2 DEF TrialCancel
<1>4. JobInv'
  <2>1. ~Calling'
    BY <1>1 DEF storeVars, Calling, BootAll, BootInv, JobInv
  <2> QED
    BY <1>1, <2>1 DEF JobInv
<1>5. job' \in Jobs \ {"applied"} /\ 0 \in Revisions
  BY <1>1, StoreAssumption DEF Jobs, Revisions
<1> QED
  BY <1>1, <1>2, <1>3, <1>4, <1>5, JournalWriteKeeps

(* A step of the transfer before its generation is visible, or after: what *)
(* validates then validated before, with the fate it had.                  *)
LEMMA TransferStepKeeps ==
  ASSUME SlotsInv, SlotsInv', BootAll, Up, UNCHANGED <<trialVars, bootVars>>, active' = active,
         job # "applied", job' \in Jobs \ {"applied"}, JobInv', fate' \in [Slots -> Fates],
         \A s \in Slots :
            /\ ~ValidSlot(flash'[s]) => fate'[s] = "none"
            /\ ValidSlot(flash'[s]) => fate'[s] = fate[s] /\ flash'[s] = flash[s],
         transfer'.open /\ ValidSlot(flash'[transfer'.slot]) => fate'[transfer'.slot] = "untested",
         Patient /\ transfer'.open =>
            active.slot = NoSlot \/ (running.slot # NoSlot /\ fate[running.slot] \in Settled),
         Patient /\ "scan" \notin Faults /\ NextBoot' # NoSlot =>
            NextBoot' = NextBoot \/ fate[NextBoot'] \in Settled,
         Careful /\ transfer'.open /\ commit'.at # "verify" => ~ValidSlot(flash'[transfer'.slot])
  PROVE  BootAll'
<1>1. /\ nvs' = nvs /\ journal' = journal /\ stage' = stage /\ running' = running /\ trial' = trial
      /\ health' = health /\ stage = "up" /\ Up'
  BY DEF trialVars, bootVars, Up
<1>2. running.slot # NoSlot => /\ running = active /\ active.slot \in Slots
                               /\ fate'[active.slot] = fate[active.slot]
  <2>1. running.slot # NoSlot => running = active
    BY DEF BootAll, BootInv, RunInv
  <2>2. active.slot # NoSlot => active.slot \in Slots /\ ValidSlot(flash'[active.slot])
    BY RecordFacts DEF SlotsInv, IInv, ActiveIsIntact
  <2> QED
    BY <2>1, <2>2
<1>3. flash \in [Slots -> Partition] /\ flash' \in [Slots -> Partition]
  BY DEF SlotsInv, IInv, StoreTypeOK
<1>4. BootInv'
  <2>1. BootTypeOK' /\ OneVerdict(nvs)' /\ OneVerdict(journal)'
    BY <1>1 DEF BootAll, BootInv, BootTypeOK, OneVerdict
  <2>2. StageInv' /\ RunInv'
    BY <1>1 DEF BootAll, BootInv, StageInv, RunInv
  <2>3. FateInv'
    BY DEF FateInv, BootAll, BootInv
  <2>4. WelcomeInv'
    BY <1>1, <1>2 DEF WelcomeInv
  <2>5. TrialInv'
    BY <1>1 DEF BootAll, BootInv, TrialInv
  <2> QED
    BY <2>1, <2>2, <2>3, <2>4, <2>5 DEF BootInv
<1>5. ASSUME NEW s \in Slots, s = NextBoot, ValidSlot(flash'[s]) PROVE NextBoot' = s
  <2>1. \A u \in Slots : ValidSlot(flash'[u]) => flash'[u] = flash[u]
    OBVIOUS
  <2>2. s # NoSlot /\ Scan(flash, Slots).slot = s /\ flash'[s] = flash[s]
    BY <1>5, NextBootIs DEF NoSlot, Slots
  <2>3. Scan(flash', Slots).slot = s
    BY <1>3, <2>1, <2>2, ScanOfFewer
  <2> QED
    BY <2>3, NextBootIs
<1>6. ASSUME "scan" \notin Faults PROVE BootChoice' /\ ConfirmedInv'
  <2>1. BootChoice'
    <3> SUFFICES ASSUME running.slot # NoSlot, NeedsConfirmation(journal, running.revision)
                 PROVE  running.slot = NextBoot'
      BY <1>1 DEF BootChoice
    <3>1. running.slot = NextBoot
      BY <1>6 DEF BootAll, SteadyInv, BootChoice
    <3>2. active.slot \in Slots /\ ValidSlot(flash'[active.slot]) /\ running = active
      BY <1>2 DEF SlotsInv, IInv, ActiveIsIntact, NoSlot, Slots
    <3> QED
      BY <1>5, <3>1, <3>2
  <2>2. ConfirmedInv'
    <3> SUFFICES ASSUME NEW s \in Slots, fate'[s] \in Settled
                 PROVE  /\ ~NeedsConfirmation(nvs, flash'[s].header.revision)
                        /\ nvs.rejected = flash'[s].header.revision => s = NextBoot' /\ s # running.slot
      BY <1>1 DEF ConfirmedInv
    <3>1. ValidSlot(flash'[s]) /\ fate[s] \in Settled /\ flash'[s] = flash[s]
      BY DEF Settled
    <3>2. /\ ~NeedsConfirmation(nvs, flash[s].header.revision)
          /\ nvs.rejected = flash[s].header.revision => s = NextBoot /\ s # running.slot
      BY <1>6, <3>1 DEF BootAll, SteadyInv, ConfirmedInv
    <3> QED
      BY <1>5, <3>1, <3>2
  <2> QED
    BY <2>1, <2>2
<1>7. ASSUME NextBoot' # NoSlot
      PROVE  NextBoot' \in Slots /\ fate'[NextBoot'] = fate[NextBoot'] /\ flash'[NextBoot'] = flash[NextBoot']
  <2>1. NextBoot' \in Slots /\ ValidSlot(flash'[NextBoot'])
    BY <1>3, <1>7, NextBootFinds, NextBootIs DEF IsNewest
  <2> QED
    BY <2>1
<1>8. FailedInv'
  BY <1>1, <1>7 DEF BootAll, FailedInv, FailureIsJournalled, Settled
<1>9. UntestedInv'
  <2>1. Careful => UntestedIsJournalled'
    BY <1>1, <1>7 DEF BootAll, UntestedInv, UntestedIsJournalled, Careful, Settled
  <2> QED
    BY <2>1 DEF UntestedInv
<1> QED
  BY <1>4, <1>6, <1>8, <1>9 DEF BootAll, SteadyInv

(* START: the erase, and the transfer that is opened on the erased slot *)
LEMMA BeginKeeps ==
  ASSUME SlotsInv, SlotsInv', BootAll, NEW base, NEW length, NEW sha, NEW err,
         WorkerBegin(base, length, sha, err)
  PROVE  BootAll'
<1>1. /\ Up /\ job = "idle" /\ Welcome /\ StoreBegin(base, length, sha, err)
      /\ fate' = FateOf(flash') /\ UNCHANGED <<trialVars, bootVars>> /\ job' = job
  BY DEF WorkerBegin
<1>2. /\ Wiped /\ active' = active /\ ~Calling /\ ~Calling'
      /\ \/ transfer' = transfer /\ flash' = flash
         \/ ~transfer'.open
         \/ transfer'.slot = Target /\ ~ValidSlot(flash'[transfer'.slot])
  BY <1>1, BeginWipes
<1>3. /\ fate' \in [Slots -> Fates]
      /\ \A s \in Slots : /\ ~ValidSlot(flash'[s]) => fate'[s] = "none"
                          /\ ValidSlot(flash'[s]) => fate'[s] = fate[s] /\ flash'[s] = flash[s]
  BY <1>1, <1>2, FateOfWiped
<1>4. JobInv' /\ job # "applied" /\ job' \in Jobs \ {"applied"}
  BY <1>1, <1>2 DEF JobInv, Jobs
<1>5. transfer'.open /\ ValidSlot(flash'[transfer'.slot]) => fate'[transfer'.slot] = "untested"
  <2> SUFFICES ASSUME transfer'.open, ValidSlot(flash'[transfer'.slot])
               PROVE  fate'[transfer'.slot] = "untested"
    OBVIOUS
  <2>1. transfer' = transfer /\ flash' = flash
    BY <1>2
  <2>2. transfer.slot \in Slots
    BY DEF SlotsInv, IInv, StoreTypeOK, Transfer
  <2> QED
    BY <1>3, <2>1, <2>2 DEF BootAll, BootInv, FateInv
<1>6. Patient =>
         active.slot = NoSlot \/ (running.slot # NoSlot /\ fate[running.slot] \in Settled)
  BY <1>1 DEF Welcome
<1>7. Grounded
  BY <1>1, WelcomeIsGrounded
<1>8. Patient /\ "scan" \notin Faults /\ NextBoot' # NoSlot =>
         NextBoot' = NextBoot \/ fate[NextBoot'] \in Settled
  BY <1>2, <1>7, WipedChoice DEF Grounded
<1>9. Careful /\ transfer'.open /\ commit'.at # "verify" => ~ValidSlot(flash'[transfer'.slot])
  BY <1>2 DEF BootAll, UntestedInv, Calling
<1> QED
  BY <1>1, <1>2, <1>3, <1>4, <1>5, <1>6, <1>8, <1>9, TransferStepKeeps

(* A step that touches no slot that validates, the transfer being the same *)
LEMMA StoredStepKeeps ==
  ASSUME SlotsInv, SlotsInv', BootAll, Up, UNCHANGED <<trialVars, bootVars>>, active' = active,
         job # "applied", job' \in Jobs \ {"applied"}, JobInv',
         KeepsStored, fate' = fate \/ fate' = FateOf(flash'),
         ~transfer'.open \/ (transfer'.open = transfer.open /\ transfer'.slot = transfer.slot),
         Careful /\ transfer'.open /\ commit'.at # "verify" => ~ValidSlot(flash'[transfer'.slot])
  PROVE  BootAll'
<1>1. \A s \in Slots :
         /\ ~ValidSlot(flash'[s]) => fate[s] = "none"
         /\ ValidSlot(flash'[s]) => flash'[s] = flash[s] /\ ValidSlot(flash[s])
  BY DEF KeepsStored, BootAll, BootInv, FateInv
<1>2. fate \in [Slots -> Fates]
  BY DEF BootAll, BootInv, BootTypeOK
<1>3. \A s \in Slots : FateOf(flash')[s] = fate[s]
  BY <1>1 DEF FateOf
<1>4. FateOf(flash') \in [Slots -> Fates]
  BY <1>2, <1>3 DEF FateOf
<1>5. fate' \in [Slots -> Fates] /\ \A s \in Slots : fate'[s] = fate[s]
  BY <1>2, <1>3, <1>4
<1>6. \A s \in Slots :
         /\ ~ValidSlot(flash'[s]) => fate'[s] = "none"
         /\ ValidSlot(flash'[s]) => fate'[s] = fate[s] /\ flash'[s] = flash[s]
  BY <1>1, <1>5
<1>7. transfer.slot \in Slots
  BY DEF SlotsInv, IInv, StoreTypeOK, Transfer
<1>8. transfer'.open /\ ValidSlot(flash'[transfer'.slot]) => fate'[transfer'.slot] = "untested"
  BY <1>1, <1>5, <1>7 DEF BootAll, BootInv, FateInv
<1>9. Patient /\ transfer'.open =>
         active.slot = NoSlot \/ (running.slot # NoSlot /\ fate[running.slot] \in Settled)
  BY DEF BootAll, BootInv, WelcomeInv
<1>10. NextBoot' = NextBoot
  BY KeptChoice
<1> QED
  BY <1>5, <1>6, <1>8, <1>9, <1>10, TransferStepKeeps

(* CHUNK *)
LEMMA WriteKeepsBoot ==
  ASSUME SlotsInv, SlotsInv', BootAll, NEW offset \in 0..MaxBlocks, NEW data \in Chunks, NEW err,
         WorkerWrite(offset, data, err)
  PROVE  BootAll'
<1>1. /\ Up /\ job = "idle" /\ StoreWrite(offset, data, err)
      /\ fate' = fate /\ UNCHANGED <<trialVars, bootVars>> /\ job' = job
  BY DEF WorkerWrite
<1>2. KeepsStored
  BY <1>1, WriteKeeps
<1>3. /\ ~Calling /\ active' = active /\ commit' = commit
      /\ transfer'.open = transfer.open /\ transfer'.slot = transfer.slot
  <2>1. transfer \in Transfer
    BY DEF SlotsInv, IInv, StoreTypeOK
  <2>2. transfer' = transfer \/ transfer' = [transfer EXCEPT !.written = @ + Len(data)]
    BY <1>1 DEF StoreWrite
  <2>3. transfer'.open = transfer.open /\ transfer'.slot = transfer.slot
    BY <2>1, <2>2 DEF Transfer
  <2> QED
    BY <1>1, <2>3 DEF StoreWrite
<1>4. JobInv' /\ job # "applied" /\ job' \in Jobs \ {"applied"}
  BY <1>1, <1>3 DEF JobInv, Jobs, Calling
<1>5. Careful /\ transfer'.open /\ commit'.at # "verify" => ~ValidSlot(flash'[transfer'.slot])
  <2>1. transfer.slot \in Slots
    BY DEF SlotsInv, IInv, StoreTypeOK, Transfer
  <2> QED
    BY <1>2, <1>3, <2>1 DEF BootAll, UntestedInv, KeepsStored
<1> QED
  BY <1>1, <1>2, <1>3, <1>4, <1>5, StoredStepKeeps

(* ABORT *)
LEMMA AbortKeeps ==
  ASSUME SlotsInv, SlotsInv', BootAll, WorkerAbort
  PROVE  BootAll'
<1>1. /\ Up /\ job = "idle" /\ fate' = fate /\ UNCHANGED <<trialVars, bootVars>> /\ job' = job
      /\ ~Calling /\ flash' = flash /\ active' = active /\ commit' = commit /\ ~transfer'.open
  BY DEF WorkerAbort, StoreAbort, Closed
<1>2. KeepsStored
  BY <1>1 DEF KeepsStored
<1>3. JobInv' /\ job # "applied" /\ job' \in Jobs \ {"applied"}
  BY <1>1 DEF JobInv, Jobs, Calling
<1> QED
  BY <1>1, <1>2, <1>3, StoredStepKeeps

(* config_store_commit: the checks and the header *)
LEMMA CommitHeaderKeepsBoot ==
  ASSUME SlotsInv, SlotsInv', BootAll, job = "commit", NEW err \in StoreErrors,
         StoreCommitHeader(err), UNCHANGED <<trialVars, bootVars>>,
         job' = IF err = "MORE" THEN "commit" ELSE IF err = "OK" THEN "applied" ELSE "cancel",
         fate' = FateOf(flash')
  PROVE  BootAll'
<1>1. /\ ~Calling /\ active' = active /\ transfer' = transfer /\ err # "OK"
      /\ Calling' => err = "MORE"
  BY DEF StoreCommitHeader, StagedCheck, Calling
<1>2. KeepsStored
  BY CommitHeaderKeeps
<1>3. Up /\ transfer.open /\ nvs' = nvs /\ journal' = journal /\ Candidate' = Candidate
      /\ nvs = journal /\ journal = [pending |-> Candidate, rejected |-> 0, attempted |-> FALSE]
  BY <1>1 DEF BootAll, BootInv, StageInv, JobInv, trialVars, Candidate
<1>4. JobInv' /\ job # "applied" /\ job' \in Jobs \ {"applied"}
  BY <1>1, <1>3 DEF JobInv, Jobs
<1>5. Careful /\ transfer'.open /\ commit'.at # "verify" => ~ValidSlot(flash'[transfer'.slot])
  <2>1. transfer.slot \in Slots /\ commit.at = "none"
    BY <1>1 DEF SlotsInv, IInv, StoreTypeOK, Transfer, Calling
  <2> QED
    BY <1>1, <1>2, <1>3, <2>1 DEF BootAll, UntestedInv, KeepsStored
<1> QED
  BY <1>1, <1>2, <1>3, <1>4, <1>5, StoredStepKeeps

(* The marker, from which on a restart may pick the new generation *)
LEMMA CommitMarkerKeepsBoot ==
  ASSUME SlotsInv, SlotsInv', BootAll, job = "commit", NEW err \in StoreErrors,
         StoreCommitMarker(err), UNCHANGED <<trialVars, bootVars>>,
         job' = IF err = "MORE" THEN "commit" ELSE IF err = "OK" THEN "applied" ELSE "cancel",
         fate' = FateOf(flash')
  PROVE  BootAll'
<1> DEFINE t == transfer.slot
<1>1. /\ active' = active /\ transfer' = transfer /\ err \in {"MORE", "FAIL"}
      /\ Calling' => err = "MORE"
      /\ Careful => commit'.at = "verify"
      /\ commit.at = "marker" /\ Calling
  BY DEF StoreCommitMarker, Calling, NoCommit, SlotsInv, IInv, StoreTypeOK, Commit, Careful
<1>2. /\ transfer.open /\ commit.slot = t /\ t \in Slots /\ t = Target /\ t # active.slot
      /\ flash \in [Slots -> Partition] /\ flash' \in [Slots -> Partition]
  BY <1>1 DEF SlotsInv, IInv, StoreTypeOK, Transfer, CommitIsStaged, StagedIsCounted, HeaderInv
<1>3. \A s \in Slots : s # t => flash'[s] = flash[s]
  BY <1>2 DEF StoreCommitMarker
<1>4. ~ValidSlot(flash[t])
  BY <1>1, <1>2, NotValid DEF SlotsInv, HeaderInv
<1>5. /\ Up /\ nvs' = nvs /\ journal' = journal /\ Candidate' = Candidate
      /\ nvs = journal /\ journal = [pending |-> Candidate, rejected |-> 0, attempted |-> FALSE]
      /\ stage' = stage /\ running' = running /\ trial' = trial /\ health' = health /\ Up'
  BY <1>1 DEF BootAll, BootInv, StageInv, JobInv, trialVars, bootVars, Candidate, Up
<1>6. JobInv' /\ job # "applied" /\ job' \in Jobs \ {"applied"}
  BY <1>1, <1>2, <1>5 DEF JobInv, Jobs
<1> HIDE DEF t
<1>7. CASE ~ValidSlot(flash'[t])
  <2>1. KeepsStored
    BY <1>3, <1>4, <1>7 DEF KeepsStored
  <2>2. Careful /\ transfer'.open /\ commit'.at # "verify" => ~ValidSlot(flash'[transfer'.slot])
    BY <1>1
  <2> QED
    BY <1>1, <1>5, <1>6, <2>1, <2>2, StoredStepKeeps
<1>8. CASE ValidSlot(flash'[t])
  <2>1. fate'[t] = "untested"
    BY <1>2, <1>4, <1>8 DEF FateOf
  <2>2. \A s \in Slots : s # t => fate'[s] = fate[s]
    <3>1. \A s \in Slots : s # t => (~ValidSlot(flash[s]) => fate[s] = "none")
      BY DEF BootAll, BootInv, FateInv
    <3> QED
      BY <1>3, <3>1 DEF FateOf
  <2>3. fate' \in [Slots -> Fates]
    <3>1. \A s \in Slots : fate'[s] \in Fates
      BY <2>1, <2>2 DEF BootAll, BootInv, BootTypeOK, Fates
    <3> QED
      BY <3>1 DEF FateOf
  <2>4. flash'[t].header.revision = Candidate
    <3>1. flash'[t].marker
      BY <1>8 DEF ValidSlot
    <3>2. flash'[t].header = NewHeader'
      BY <1>1, <1>2, <3>1 DEF SlotsInv, HeaderInv, t
    <3> QED
      BY <1>1, <3>2 DEF NewHeader, Candidate
  <2>5. Candidate # 0
    BY RecordFacts DEF SlotsInv, Candidate
  <2>6. running.slot # t
    BY <1>2, <1>6 DEF BootAll, BootInv, RunInv, NoSlot, Slots
  <2>7. BootInv'
    <3>1. BootTypeOK' /\ OneVerdict(nvs)' /\ OneVerdict(journal)'
      BY <1>5, <1>6, <2>3 DEF BootAll, BootInv, BootTypeOK, OneVerdict
    <3>2. StageInv' /\ RunInv'
      BY <1>1, <1>5, <1>6 DEF BootAll, BootInv, StageInv, RunInv
    <3>3. FateInv'
      BY <1>1, <1>3, <1>8, <2>1, <2>2 DEF BootAll, BootInv, FateInv, t
    <3>4. WelcomeInv'
      <4>1. running.slot # NoSlot => running.slot \in Slots
        BY DEF BootAll, BootInv, BootTypeOK, Record, NoRecord
      <4> QED
        BY <1>1, <1>5, <2>2, <2>6, <4>1 DEF BootAll, BootInv, WelcomeInv
    <3>5. TrialInv'
      BY <1>1, <1>5, <2>1, <2>2 DEF BootAll, BootInv, TrialInv, Up
    <3> QED
      BY <1>6, <3>1, <3>2, <3>3, <3>4, <3>5 DEF BootInv
  <2>8. ASSUME "scan" \notin Faults PROVE BootChoice' /\ ConfirmedInv'
    <3>1. BootChoice'
      BY <1>5 DEF BootChoice, NeedsConfirmation, Up
    <3>2. \A s \in Slots : fate'[s] \in Settled => flash'[s].header.revision # 0
      <4>1. \A s \in Slots : fate'[s] \in Settled => flash'[s] = flash[s] /\ ValidSlot(flash[s])
        BY <1>3, <2>1, <2>2 DEF BootAll, BootInv, FateInv, Settled
      <4> QED
        BY <4>1, ValidRevision
    <3>3. ConfirmedInv'
      BY <1>5, <3>2 DEF ConfirmedInv, NeedsConfirmation
    <3> QED
      BY <3>1, <3>3
  <2>9. ASSUME Patient, "scan" \notin Faults, NextBoot' # NoSlot
        PROVE  /\ NextBoot' = t => fate'[NextBoot'] = "untested"
               /\ NextBoot' # t => fate'[NextBoot'] \in Settled
    <3>1. NextBoot' \in Slots /\ ValidSlot(flash'[NextBoot'])
      BY <1>2, <2>9, NextBootFinds, NextBootIs DEF IsNewest
    <3>2. CASE NextBoot' # t
      <4>1. ValidSlot(flash[NextBoot']) /\ fate'[NextBoot'] = fate[NextBoot']
        BY <1>3, <2>2, <3>1, <3>2
      <4> QED
        BY <1>2, <2>9, <3>1, <3>2, <4>1, OthersConfirmed DEF t
    <3> QED
      BY <2>1, <3>2
  <2>10. FailedInv'
    BY <2>9 DEF FailedInv, FailureIsJournalled, Settled
  <2>11. UntestedInv'
    <3>1. TrialDecision(nvs', Candidate) = "TRIAL"
      BY <1>5, <2>5 DEF TrialDecision
    <3>2. Careful => UntestedIsJournalled'
      BY <2>4, <2>9, <3>1 DEF UntestedIsJournalled, Careful, Settled
    <3> QED
      BY <1>1, <3>2 DEF UntestedInv
  <2> QED
    BY <2>7, <2>8, <2>10, <2>11 DEF BootAll, SteadyInv
<1> QED
  BY <1>7, <1>8

(* The end of config_store_commit: the switch, or an error *)
LEMMA CommitFinishKeepsBoot ==
  ASSUME SlotsInv, SlotsInv', BootAll, job = "commit", NEW err \in StoreErrors,
         StoreCommitFinish(err), UNCHANGED <<trialVars, bootVars>>,
         job' = IF err = "MORE" THEN "commit" ELSE IF err = "OK" THEN "applied" ELSE "cancel",
         fate' = FateOf(flash')
  PROVE  BootAll'
<1>1. /\ commit.at = "verify" /\ Calling /\ commit' = NoCommit /\ flash' = flash /\ ~Calling'
      /\ commit'.at = "none"
  BY DEF StoreCommitFinish, Calling, NoCommit
<1>2. /\ transfer.open /\ commit.slot = transfer.slot /\ ~CommitOvertaken
      /\ transfer.slot \in Slots /\ transfer.slot # active.slot
  BY <1>1 DEF SlotsInv, IInv, StoreTypeOK, Transfer, CommitIsStaged, StagedIsCounted, CommitOvertaken
<1>3. /\ Up /\ nvs' = nvs /\ journal' = journal
      /\ nvs = journal /\ journal = [pending |-> Candidate, rejected |-> 0, attempted |-> FALSE]
      /\ stage' = stage /\ running' = running /\ trial' = trial /\ health' = health /\ Up'
  BY <1>1 DEF BootAll, BootInv, StageInv, JobInv, trialVars, bootVars, Up
<1>4. KeepsStored
  BY <1>1 DEF KeepsStored
<1>5. CASE err # "OK"
  <2>1. /\ active' = active /\ transfer' = transfer /\ err = "FAIL"
        /\ ~ValidSlot(flash[transfer.slot]) \/ "read" \in Faults
    BY <1>2, <1>5 DEF StoreCommitFinish
  <2>2. Candidate' = Candidate
    BY <2>1 DEF Candidate
  <2>3. JobInv' /\ job # "applied" /\ job' \in Jobs \ {"applied"}
    BY <1>1, <1>2, <1>3, <2>1, <2>2 DEF JobInv, Jobs
  <2>4. Careful /\ transfer'.open /\ commit'.at # "verify" => ~ValidSlot(flash'[transfer'.slot])
    BY <1>1, <2>1 DEF Careful
  <2> QED
    BY <1>3, <1>4, <2>1, <2>3, <2>4, StoredStepKeeps
<1>6. CASE err = "OK"
  <2>1. /\ active' = RecordOf(flash, transfer.slot) /\ ~transfer'.open /\ job' = "applied"
        /\ active'.slot = transfer.slot
    BY <1>2, <1>6 DEF StoreCommitFinish, Closed, RecordOf
  <2>2. \A s \in Slots : fate'[s] = fate[s]
    BY <1>1 DEF FateOf, BootAll, BootInv, FateInv
  <2>3. fate' \in [Slots -> Fates]
    <3>1. \A s \in Slots : fate'[s] \in Fates
      BY <2>2 DEF BootAll, BootInv, BootTypeOK
    <3> QED
      BY <3>1 DEF FateOf
  <2>4. NextBoot' = NextBoot
    BY <1>1, NextBootIs
  <2>5. NextBoot # NoSlot => NextBoot \in Slots
    <3>1. flash \in [Slots -> Partition]
      BY DEF SlotsInv, IInv, StoreTypeOK
    <3> QED
      BY <3>1, NextBootFinds, NextBootIs DEF IsNewest
  <2>6. running.slot # NoSlot => running.slot = Other(active'.slot) /\ RunningIsKept'
    <3> SUFFICES ASSUME running.slot # NoSlot
                 PROVE  running.slot = Other(active'.slot) /\ RunningIsKept'
      OBVIOUS
    <3>1. running = active
      BY DEF BootAll, BootInv, RunInv
    <3>2. active.slot \in Slots /\ ValidSlot(flash[active.slot]) /\ active = RecordOf(flash, active.slot)
      BY <3>1, RecordFacts DEF SlotsInv, IInv, ActiveIsIntact
    <3>3. RunningIsKept'
      BY <1>1, <1>3, <3>1, <3>2 DEF RunningIsKept
    <3>4. active.slot = Other(active'.slot)
      BY <1>2, <2>1, <3>2 DEF Other, Slots
    <3> QED
      BY <3>1, <3>3, <3>4
  <2>7. BootInv'
    <3>1. BootTypeOK' /\ OneVerdict(nvs)' /\ OneVerdict(journal)'
      BY <1>3, <2>1, <2>3 DEF BootAll, BootInv, BootTypeOK, Jobs, OneVerdict
    <3>2. StageInv' /\ JobInv' /\ WelcomeInv'
      BY <1>1, <1>3, <2>1 DEF BootAll, BootInv, StageInv, JobInv, WelcomeInv, Up
    <3>3. RunInv'
      BY <1>3, <2>1, <2>6 DEF BootAll, BootInv, RunInv
    <3>4. FateInv'
      BY <1>1, <2>1, <2>2 DEF BootAll, BootInv, FateInv
    <3>5. TrialInv'
      BY <1>3, <2>2 DEF BootAll, BootInv, TrialInv, Up
    <3> QED
      BY <3>1, <3>2, <3>3, <3>4, <3>5 DEF BootInv
  <2>8. SteadyInv'
    BY <1>1, <1>3, <2>2, <2>4 DEF BootAll, SteadyInv, BootChoice, ConfirmedInv, Up
  <2>9. FailedInv' /\ UntestedInv'
    BY <1>1, <1>3, <2>1, <2>2, <2>4, <2>5 DEF BootAll, FailedInv, FailureIsJournalled, UntestedInv,
       Careful, UntestedIsJournalled
  <2> QED
    BY <2>7, <2>8, <2>9 DEF BootAll
<1> QED
  BY <1>5, <1>6

(* One step of the COMMIT handler inside config_store_commit *)
LEMMA CommitStepKeeps ==
  ASSUME SlotsInv, SlotsInv', BootAll, NEW err \in StoreErrors, CommitStep(err)
  PROVE  BootAll'
<1>1. job' = IF err = "MORE" THEN "commit" ELSE IF err = "OK" THEN "applied" ELSE "cancel"
  <2>1. job' = CASE err = "MORE" -> "commit"
                 [] err = "OK" -> "applied"
                 [] OTHER -> "cancel"
    BY DEF CommitStep
  <2> QED
    BY <2>1
<1>2. job = "commit" /\ fate' = FateOf(flash') /\ UNCHANGED <<trialVars, bootVars>>
  BY DEF CommitStep
<1>3. CASE StoreCommitHeader(err)
  BY <1>1, <1>2, <1>3, CommitHeaderKeepsBoot
<1>4. CASE StoreCommitMarker(err)
  BY <1>1, <1>2, <1>4, CommitMarkerKeepsBoot
<1>5. CASE StoreCommitFinish(err)
  BY <1>1, <1>2, <1>5, CommitFinishKeepsBoot
<1> QED
  BY <1>3, <1>4, <1>5 DEF CommitStep

-----------------------------------------------------------------------------
(* All steps.                                                              *)

(* Every action of the boot, the health task and the worker makes one step *)
(* of the store, or none.                                                  *)
LEMMA BootStepsStore ==
  ASSUME BootInv, BootNext
  PROVE  [StoreNext]_storeVars
<1>1. ASSUME NEW stored, NEW fates, RestartOn(stored, fates) PROVE StoreNext
  BY <1>1 DEF RestartOn, StoreNext
<1>2. CASE Boot
  <2>1. CASE BootFallback
    <3>1. ~Calling
      BY <2>1 DEF BootFallback, BootInv, StageInv, JobInv, Up
    <3> QED
      BY <2>1, <3>1 DEF BootFallback, StoreNext
  <2>2. CASE ~BootFallback
    BY <1>2, <2>2 DEF Boot, BootDecide, BootLoad, BootLoadFails, BootWithout
  <2> QED
    BY <2>1, <2>2
<1>3. CASE Health
  BY <1>1, <1>3 DEF Health, HealthReady, HealthConfirm, HealthTimeout, ChipRestart
<1>4. CASE Commands
  <2>1. ASSUME NEW base \in Revisions, NEW length \in Lengths, NEW sha \in Documents,
               NEW err \in StoreErrors, WorkerBegin(base, length, sha, err)
        PROVE  StoreNext
    BY <2>1 DEF WorkerBegin, StoreNext
  <2>2. ASSUME NEW base \in Revisions, WorkerBeginCut(base) PROVE StoreNext
    BY <2>2 DEF WorkerBeginCut, StoreNext
  <2>3. ASSUME NEW offset \in 0..MaxBlocks, NEW data \in Chunks, NEW err \in StoreErrors,
               WorkerWrite(offset, data, err)
        PROVE  StoreNext
    BY <2>3 DEF WorkerWrite, StoreNext
  <2>4. ASSUME WorkerAbort PROVE StoreNext
    BY <2>4 DEF WorkerAbort, StoreNext
  <2>5. ASSUME NEW err \in {"OK", "FAIL"}, CommitPrepare(Candidate, err)
        PROVE  UNCHANGED storeVars
    BY <2>5 DEF CommitPrepare
  <2> QED
    BY <1>4, <2>1, <2>2, <2>3, <2>4, <2>5 DEF Commands
<1>5. CASE Committing
  <2>1. ASSUME NEW err \in StoreErrors, CommitStep(err) PROVE StoreNext
    BY <2>1 DEF CommitStep, StoreNext
  <2>2. ASSUME CommitCancel(Candidate) PROVE UNCHANGED storeVars
    BY <2>2 DEF CommitCancel
  <2>3. ASSUME AppliedRestart PROVE StoreNext
    BY <1>1, <2>3 DEF AppliedRestart, ChipRestart
  <2> QED
    BY <1>5, <2>1, <2>2, <2>3 DEF Committing
<1>6. CASE JournalUnread
  BY <1>1, <1>6 DEF JournalUnread
<1> QED
  BY <1>1, <1>2, <1>3, <1>4, <1>5, <1>6 DEF BootNext, PowerCut, ChipRestart

(* What holds when the gauge is first switched on *)
LEMMA InitBoot ==
  ASSUME BootInit
  PROVE  SlotsInv /\ BootAll
<1>1. SlotsInv
  BY InitSlots DEF BootInit
<1>2. /\ \A s \in Slots : flash[s] = Erased
      /\ active = NoRecord /\ active.slot = NoSlot /\ ~transfer.open /\ ~Calling /\ commit.at = "none"
      /\ nvs = NoJournal /\ journal = NoJournal /\ stage = "decide" /\ running = NoRecord
      /\ running.slot = NoSlot /\ trial = FALSE /\ health = "none" /\ job = "idle" /\ ~Up
      /\ \A s \in Slots : fate[s] = "none"
  BY DEF BootInit, StoreInit, NoRecord, Closed, NoCommit, Calling, Up
<1>3. NoJournal \in Journal /\ OneVerdict(NoJournal)
  BY StoreAssumption DEF NoJournal, Journal, Revisions, OneVerdict
<1>4. \A s \in Slots : ~ValidSlot(flash[s])
  BY <1>2 DEF Erased, ValidSlot
<1>5. NextBoot = NoSlot /\ Scan(flash, Slots) = NoRecord
  <2>1. flash \in [Slots -> Partition]
    BY <1>1 DEF SlotsInv, IInv, StoreTypeOK
  <2>2. Scan(flash, Slots) = NoRecord
    BY <1>4, <2>1, ScanFinds DEF IsNewest
  <2> QED
    BY <2>2, NextBootIs DEF NoRecord
<1>6. BootTypeOK
  <2>1. fate \in [Slots -> Fates]
    BY DEF BootInit, Fates
  <2> QED
    BY <1>2, <1>3, <2>1 DEF BootTypeOK, Stages, Healths, Jobs
<1>7. BootInv
  BY <1>2, <1>3, <1>4, <1>6 DEF BootInv, StageInv, JobInv, RunInv, FateInv, WelcomeInv, TrialInv
<1>8. SteadyInv /\ FailedInv /\ UntestedInv
  BY <1>2, <1>4, <1>5 DEF Settled, SteadyInv, BootChoice, ConfirmedInv, FailedInv, FailureIsJournalled,
     UntestedInv, UntestedIsJournalled
<1> QED
  BY <1>1, <1>7, <1>8 DEF BootAll

(* Nothing happens. *)
LEMMA BootStutters ==
  ASSUME SlotsInv, BootAll, UNCHANGED vars
  PROVE  SlotsInv' /\ BootAll'
<1>1. SlotsInv'
  BY NextSound DEF vars
<1>2. /\ flash' = flash /\ active' = active /\ transfer' = transfer /\ commit' = commit
      /\ nvs' = nvs /\ journal' = journal /\ stage' = stage /\ running' = running /\ trial' = trial
      /\ health' = health /\ job' = job /\ fate' = fate
  BY DEF vars, storeVars, trialVars, bootVars
<1>3. NextBoot' = NextBoot /\ Up' = Up /\ Calling' = Calling /\ Candidate' = Candidate
  BY <1>2, NextBootIs DEF Up, Calling, Candidate
<1>4. BootInv'
  BY <1>2, <1>3 DEF BootAll, BootInv, BootTypeOK, OneVerdict, StageInv, JobInv, RunInv, RunningIsKept,
     FateInv, WelcomeInv, TrialInv
<1>5. SteadyInv' /\ FailedInv' /\ UntestedInv'
  BY <1>2, <1>3 DEF BootAll, SteadyInv, BootChoice, ConfirmedInv, FailedInv, FailureIsJournalled,
     UntestedInv, Careful, UntestedIsJournalled
<1> QED
  BY <1>1, <1>4, <1>5 DEF BootAll

(* Every step keeps both invariants. *)
LEMMA BootStepKeeps ==
  ASSUME SlotsInv, BootAll, [BootNext]_vars
  PROVE  SlotsInv' /\ BootAll'
<1>1. CASE UNCHANGED vars
  BY <1>1, BootStutters
<1>2. CASE BootNext
  <2>1. SlotsInv'
    BY <1>2, BootStepsStore, NextSound DEF BootAll
  <2>2. CASE PowerCut
    BY <2>1, <2>2, ChipRestartKeeps DEF PowerCut
  <2>3. CASE Boot
    BY <2>1, <2>3, BootDecideKeeps, BootLoadKeeps, BootLoadFailsKeeps, BootFallbackKeeps,
       BootWithoutKeeps DEF Boot
  <2>4. CASE Health
    BY <2>1, <2>4, HealthReadyKeeps, HealthConfirmKeeps, ChipRestartKeeps DEF Health, HealthTimeout
  <2>5. CASE Commands
    <3>1. ASSUME NEW base \in Revisions, NEW length \in Lengths, NEW sha \in Documents,
                 NEW err \in StoreErrors, WorkerBegin(base, length, sha, err)
          PROVE  BootAll'
      BY <2>1, <3>1, BeginKeeps
    <3>2. ASSUME NEW base \in Revisions, WorkerBeginCut(base) PROVE BootAll'
      BY <2>1, <3>2, BeginCutKeeps
    <3>3. ASSUME NEW offset \in 0..MaxBlocks, NEW data \in Chunks, NEW err \in StoreErrors,
                 WorkerWrite(offset, data, err)
          PROVE  BootAll'
      BY <2>1, <3>3, WriteKeepsBoot
    <3>4. ASSUME WorkerAbort PROVE BootAll'
      BY <2>1, <3>4, AbortKeeps
    <3>5. ASSUME StagedCheck = "OK", NEW err \in {"OK", "FAIL"}, CommitPrepare(Candidate, err)
          PROVE  BootAll'
      BY <3>5, CommitPrepareKeeps
    <3> QED
      BY <2>1, <2>5, <3>1, <3>2, <3>3, <3>4, <3>5 DEF Commands
  <2>6. CASE Committing
    <3>1. ASSUME NEW err \in StoreErrors, CommitStep(err) PROVE BootAll'
      BY <2>1, <3>1, CommitStepKeeps
    <3>2. ASSUME CommitCancel(Candidate) PROVE BootAll'
      BY <3>2, CommitCancelKeeps
    <3>3. ASSUME AppliedRestart PROVE BootAll'
      BY <2>1, <3>3, ChipRestartKeeps DEF AppliedRestart
    <3> QED
      BY <2>1, <2>6, <3>1, <3>2, <3>3 DEF Committing
  <2>7. CASE JournalUnread
    BY <2>1, <2>7, JournalUnreadKeeps
  <2> QED
    BY <1>2, <2>1, <2>2, <2>3, <2>4, <2>5, <2>6, <2>7 DEF BootNext
<1> QED
  BY <1>1, <1>2

(* The invariants of any run of the boot, the health task and the worker *)
LEMMA BootInvariant == BootSafety => [](SlotsInv /\ BootAll)
<1>1. BootInit => SlotsInv /\ BootAll
  BY InitBoot
<1>2. (SlotsInv /\ BootAll) /\ [BootNext]_vars => (SlotsInv /\ BootAll)'
  BY BootStepKeeps
<1> QED
  BY <1>1, <1>2, PTL DEF BootSafety

-----------------------------------------------------------------------------
(* What failed does not run again, and what is forgotten.                  *)

(* A patient phone's generations but the newest are settled, so what the   *)
(* boot falls back to has not failed.                                      *)
OlderInv ==
  Patient /\ "scan" \notin Faults =>
    /\ \A s \in Slots : ValidSlot(flash[s]) /\ s # NextBoot => fate[s] \in Settled
    /\ FailedNeverRuns

(* A step that makes no slot valid, leaves what is settled beside the      *)
(* newest, and starts nothing that failed                                  *)
LEMMA OlderStays ==
  ASSUME SlotsInv, SlotsInv', OlderInv, Patient, "scan" \notin Faults,
         \A s \in Slots : ValidSlot(flash'[s]) =>
            /\ flash'[s] = flash[s]
            /\ fate[s] \in Settled /\ s # NextBoot => fate'[s] \in Settled,
         running'.slot # NoSlot => fate'[running'.slot] # "failed"
  PROVE  OlderInv'
<1>1. flash \in [Slots -> Partition] /\ flash' \in [Slots -> Partition]
  BY DEF SlotsInv, IInv, StoreTypeOK
<1>2. ASSUME NEW s \in Slots, ValidSlot(flash'[s]), s # NextBoot' PROVE fate'[s] \in Settled
  <2>1. flash'[s] = flash[s] /\ ValidSlot(flash[s])
    BY <1>2
  <2>2. s # NextBoot
    <3> SUFFICES ASSUME s = NextBoot PROVE FALSE
      OBVIOUS
    <3>1. s # NoSlot /\ Scan(flash, Slots).slot = s
      BY NextBootIs DEF NoSlot, Slots
    <3>2. Scan(flash', Slots).slot = s
      BY <1>1, <2>1, <3>1, ScanOfFewer
    <3> QED
      BY <1>2, <3>2, NextBootIs
  <2>3. fate[s] \in Settled
    BY <2>1, <2>2 DEF OlderInv
  <2> QED
    BY <1>2, <2>2, <2>3
<1> QED
  BY <1>2 DEF OlderInv, FailedNeverRuns

(* The marker makes the newest generation; the one beside it was settled.  *)
LEMMA OlderAtMarker ==
  ASSUME SlotsInv, SlotsInv', BootAll, OlderInv, Patient, "scan" \notin Faults,
         job = "commit", NEW err, StoreCommitMarker(err), fate' = FateOf(flash'), running' = running
  PROVE  OlderInv'
<1> DEFINE t == transfer.slot
<1>1. /\ transfer.open /\ commit.slot = t /\ t \in Slots /\ t = Target /\ t # active.slot
      /\ flash \in [Slots -> Partition] /\ flash' \in [Slots -> Partition]
      /\ active' = active /\ transfer' = transfer /\ commit.at = "marker"
  BY DEF StoreCommitMarker, Calling, SlotsInv, IInv, StoreTypeOK, Transfer, CommitIsStaged,
     StagedIsCounted, HeaderInv
<1>2. \A s \in Slots : s # t => flash'[s] = flash[s]
  BY <1>1 DEF StoreCommitMarker
<1>3. ~ValidSlot(flash[t])
  BY <1>1, NotValid DEF SlotsInv, HeaderInv
<1>4. running.slot # t /\ (running.slot # NoSlot => running.slot \in Slots)
  BY <1>1 DEF BootAll, BootInv, RunInv, BootTypeOK, Record, NoRecord, NoSlot, Slots
<1>5. \A s \in Slots : s # t => fate'[s] = fate[s]
  <2>1. \A s \in Slots : ~ValidSlot(flash[s]) => fate[s] = "none"
    BY DEF BootAll, BootInv, FateInv
  <2> QED
    BY <1>2, <2>1 DEF FateOf
<1>6. running.slot # NoSlot => fate'[running.slot] # "failed"
  BY <1>4, <1>5 DEF OlderInv, FailedNeverRuns
<1>7. CASE ~ValidSlot(flash'[t])
  BY <1>2, <1>5, <1>6, <1>7, OlderStays
<1>8. CASE ValidSlot(flash'[t])
  <2>1. flash'[t].header.revision = Candidate
    <3>1. flash'[t].marker
      BY <1>8 DEF ValidSlot
    <3>2. flash'[t].header = NewHeader'
      BY <1>1, <3>1 DEF SlotsInv, HeaderInv
    <3> QED
      BY <1>1, <3>2 DEF NewHeader, Candidate
  <2> HIDE DEF t
  <2>2. ASSUME NEW s \in Slots, s # t, ValidSlot(flash'[s])
        PROVE  /\ fate'[s] \in Settled
               /\ flash'[s].header.revision \in Nat
               /\ Candidate = flash'[s].header.revision + 1
    <3>1. ValidSlot(flash[s]) /\ flash'[s] = flash[s]
      BY <1>2, <2>2
    <3>2. active.slot # NoSlot /\ s = active.slot
      BY <1>1, <2>2, <3>1, RecordFacts DEF SlotsInv, Adjacent, Target, NoSlot, Slots
    <3>3. active.revision = flash[s].header.revision
      BY <3>2, RecordFacts DEF SlotsInv
    <3>4. fate[s] \in Settled
      BY <1>1, <2>2, <3>1, OthersConfirmed DEF t
    <3> QED
      BY <1>5, <2>2, <3>1, <3>3, <3>4, ValidRevision DEF Candidate
  <2>3. IsNewest(flash', t)
    <3>1. t <= t
      BY <1>1 DEF Slots
    <3>2. \A s \in Slots : s # t /\ ValidSlot(flash'[s]) =>
             flash'[t].header.revision > flash'[s].header.revision
      BY <2>1, <2>2
    <3> QED
      BY <1>1, <1>8, <3>1, <3>2 DEF IsNewest
  <2>4. NextBoot' = t
    BY <1>1, <2>3, ScanIsNewest, NextBootIs
  <2> QED
    BY <1>6, <2>2, <2>4 DEF OlderInv, FailedNeverRuns
<1> QED
  BY <1>7, <1>8

(* Every step keeps the older generation settled. *)
LEMMA OlderKeeps ==
  ASSUME SlotsInv, SlotsInv', BootAll, BootAll', OlderInv, [BootNext]_vars
  PROVE  OlderInv'
<1> SUFFICES ASSUME Patient, "scan" \notin Faults PROVE OlderInv'
  BY DEF OlderInv
<1> USE DEF FailedNeverRuns
<1>1. ASSUME NEW stored, NEW fates, RestartOn(stored, fates),
             \A s \in Slots : fate[s] \in Settled => fates[s] \in Settled
      PROVE  OlderInv'
  <2>1. flash' = flash /\ running'.slot = NoSlot
    BY <1>1 DEF RestartOn, Down, StoreReset, Restarted, NoRecord
  <2>2. \A s \in Slots : fate[s] \in Settled => fate'[s] \in Settled
    BY <1>1 DEF RestartOn, FateAtRestart, Settled
  <2> QED
    BY <2>1, <2>2, OlderStays
<1>2. ASSUME ChipRestart PROVE OlderInv'
  BY <1>1, <1>2 DEF ChipRestart
<1>3. ASSUME flash' = flash, running' = running, fate' = fate PROVE OlderInv'
  BY <1>3, OlderStays DEF OlderInv
<1>4. CASE UNCHANGED vars
  BY <1>3, <1>4 DEF vars, storeVars, bootVars
<1>5. CASE JournalUnread
  <2>1. \A stored : \A s \in Slots : fate[s] \in Settled => FateForgotten(stored)[s] \in Settled
    BY DEF FateForgotten, Settled
  <2>2. CASE fate' = FateForgotten(NoJournal) /\ UNCHANGED <<storeVars, bootVars, job>>
    <3>1. flash' = flash /\ running'.slot = NoSlot
      BY <1>5, <2>2 DEF JournalUnread, BootAll, BootInv, StageInv, Up, NoRecord, storeVars, bootVars
    <3> QED
      BY <2>1, <2>2, <3>1, OlderStays
  <2> QED
    BY <1>1, <1>5, <2>1, <2>2 DEF JournalUnread
<1>6. CASE Boot
  <2>1. ~Up /\ running.slot = NoSlot
    <3>1. ~Up
      BY <1>6 DEF Boot, BootDecide, BootLoad, BootLoadFails, BootFallback, BootWithout, Up
    <3> QED
      BY <3>1 DEF BootAll, BootInv, StageInv, NoRecord
  <2>2. active.slot # NoSlot => NextBoot = active.slot
    BY <2>1, BootFacts
  <2>3. CASE BootDecide
    <3>1. flash' = flash /\ running'.slot = NoSlot
      BY <2>1, <2>3 DEF BootDecide, storeVars
    <3>2. \A s \in Slots : s # NextBoot => fate'[s] = fate[s]
      BY <2>2, <2>3 DEF BootDecide, BootAll, BootInv, BootTypeOK
    <3> QED
      BY <3>1, <3>2, OlderStays
  <2>4. CASE BootLoad
    <3>1. flash' = flash /\ running' = active /\ fate' = fate /\ stage \in {"load", "loadTrial"}
          /\ active.slot # NoSlot /\ active.revision = flash[active.slot].header.revision
      BY <2>4, BootFacts DEF BootLoad, Run, storeVars, BootAll, BootInv, StageInv
    <3>2. fate[active.slot] # "failed"
      <4>1. CASE stage = "loadTrial"
        BY <4>1 DEF BootAll, BootInv, TrialInv
      <4>2. CASE stage = "load"
        BY <2>2, <3>1, <4>2 DEF BootAll, SteadyInv, BootChoice, FailedInv, FailureIsJournalled
      <4> QED
        BY <3>1, <4>1, <4>2
    <3> QED
      BY <3>1, <3>2, OlderStays
  <2>5. CASE BootLoadFails
    <3>1. flash' = flash /\ running'.slot = NoSlot /\ active.slot # NoSlot
      BY <2>1, <2>5 DEF BootLoadFails, storeVars, BootAll, BootInv, StageInv
    <3>2. \A s \in Slots : s # NextBoot => fate'[s] = fate[s]
      BY <2>2, <2>5, <3>1 DEF BootLoadFails, BootAll, BootInv, BootTypeOK
    <3> QED
      BY <3>1, <3>2, OlderStays
  <2>6. CASE BootFallback
    <3>1. /\ flash' = flash /\ running' = RecordOf(flash, Other(active.slot)) /\ fate' = fate
          /\ active.slot # NoSlot /\ ValidSlot(flash[Other(active.slot)])
      BY <2>6 DEF BootFallback, StoreSelect, HasPrevious, Previous, Run
    <3>2. Other(active.slot) \in Slots /\ Other(active.slot) # active.slot
      BY <3>1, BootFacts DEF Other, Slots
    <3>3. running'.slot = Other(active.slot) /\ fate[Other(active.slot)] \in Settled
      BY <2>2, <3>1, <3>2 DEF OlderInv, RecordOf
    <3> QED
      BY <3>1, <3>3, OlderStays DEF Settled
  <2>7. CASE BootWithout
    BY <1>3, <2>7 DEF BootWithout, storeVars
  <2> QED
    BY <1>6, <2>3, <2>4, <2>5, <2>6, <2>7 DEF Boot
<1>7. CASE Health
  <2>1. CASE HealthReady
    BY <1>3, <2>1 DEF HealthReady, storeVars
  <2>2. CASE HealthTimeout
    BY <1>2, <2>2 DEF HealthTimeout
  <2>3. CASE HealthConfirm
    <3> DEFINE g == [fate EXCEPT ![running.slot] = "confirmed"]
    <3>1. \A s \in Slots : g[s] = fate[s] \/ g[s] = "confirmed"
      BY DEF BootAll, BootInv, BootTypeOK
    <3>2. CASE UNCHANGED <<storeVars, stage, running, job>> /\ fate' = g
      <4>1. flash' = flash /\ running' = running /\ (running.slot # NoSlot => running.slot \in Slots)
        BY <3>2 DEF storeVars, BootAll, BootInv, BootTypeOK, Record, NoRecord
      <4> QED
        BY <3>1, <3>2, <4>1, OlderStays DEF OlderInv, Settled
    <3>3. CASE RestartOn(NoJournal, g)
      BY <1>1, <3>1, <3>3 DEF Settled
    <3>4. CASE UNCHANGED <<storeVars, stage, running, job>> /\ fate' = fate
      BY <1>3, <3>4 DEF storeVars
    <3> QED
      BY <1>2, <2>3, <3>2, <3>3, <3>4 DEF HealthConfirm
  <2> QED
    BY <1>7, <2>1, <2>2, <2>3 DEF Health
<1>8. CASE Commands
  <2>1. ASSUME Wiped, fate' = FateOf(flash'), running' = running PROVE OlderInv'
    <3>1. \A s \in Slots : ValidSlot(flash'[s]) => fate'[s] = fate[s] /\ flash'[s] = flash[s]
      BY <2>1, FateOfWiped
    <3>2. running.slot # NoSlot => running.slot \in Slots /\ ValidSlot(flash'[running.slot])
      BY <2>1 DEF BootAll, BootInv, BootTypeOK, RunInv, RunningIsKept, SlotsInv, IInv, ActiveIsIntact,
         Record, NoRecord
    <3> QED
      BY <2>1, <3>1, <3>2, OlderStays DEF OlderInv
  <2>2. ASSUME NEW base \in Revisions, NEW length \in Lengths, NEW sha \in Documents,
               NEW err \in StoreErrors, WorkerBegin(base, length, sha, err)
        PROVE  OlderInv'
    BY <2>1, <2>2, BeginWipes DEF WorkerBegin, bootVars
  <2>3. ASSUME NEW base \in Revisions, WorkerBeginCut(base) PROVE OlderInv'
    <3> DEFINE g == FateOf(flash')
    <3>1. Wiped /\ running'.slot = NoSlot /\ fate' = FateAtRestart(g)
      BY <2>3, BeginCutWipes DEF WorkerBeginCut, Down, NoRecord
    <3>2. \A s \in Slots : ValidSlot(flash'[s]) => g[s] = fate[s] /\ flash'[s] = flash[s]
      BY <3>1, FateOfWiped
    <3> HIDE DEF g
    <3> QED
      BY <3>1, <3>2, OlderStays DEF FateAtRestart, Settled
  <2>4. ASSUME NEW offset \in 0..MaxBlocks, NEW data \in Chunks, NEW err \in StoreErrors,
               WorkerWrite(offset, data, err)
        PROVE  OlderInv'
    <3>1. KeepsStored /\ fate' = fate /\ running' = running
      BY <2>4, WriteKeeps DEF WorkerWrite, bootVars
    <3> QED
      BY <3>1, OlderStays DEF KeepsStored, OlderInv
  <2>5. ASSUME WorkerAbort PROVE OlderInv'
    BY <1>3, <2>5 DEF WorkerAbort, StoreAbort, bootVars
  <2>6. ASSUME NEW err \in {"OK", "FAIL"}, CommitPrepare(Candidate, err) PROVE OlderInv'
    BY <1>3, <2>6 DEF CommitPrepare, storeVars, bootVars
  <2> QED
    BY <1>8, <2>2, <2>3, <2>4, <2>5, <2>6 DEF Commands
<1>9. CASE Committing
  <2>1. ASSUME NEW err \in StoreErrors, CommitStep(err) PROVE OlderInv'
    <3>1. job = "commit" /\ fate' = FateOf(flash') /\ running' = running
      BY <2>1 DEF CommitStep, bootVars
    <3>2. CASE StoreCommitMarker(err)
      BY <3>1, <3>2, OlderAtMarker
    <3>3. CASE StoreCommitHeader(err) \/ StoreCommitFinish(err)
      <4>1. KeepsStored
        BY <3>3, CommitHeaderKeeps DEF StoreCommitFinish, KeepsStored
      <4>2. \A s \in Slots : fate'[s] = fate[s]
        <5>1. \A s \in Slots : ~ValidSlot(flash[s]) => fate[s] = "none"
          BY DEF BootAll, BootInv, FateInv
        <5>2. \A s \in Slots : ValidSlot(flash'[s]) <=> ValidSlot(flash[s])
          BY <4>1 DEF KeepsStored
        <5> QED
          BY <3>1, <5>1, <5>2 DEF FateOf
      <4>3. running.slot # NoSlot => running.slot \in Slots
        BY DEF BootAll, BootInv, BootTypeOK, Record, NoRecord
      <4> QED
        BY <3>1, <4>1, <4>2, <4>3, OlderStays DEF KeepsStored, OlderInv
    <3> QED
      BY <2>1, <3>2, <3>3 DEF CommitStep
  <2>2. ASSUME CommitCancel(Candidate) PROVE OlderInv'
    BY <1>3, <2>2 DEF CommitCancel, storeVars, bootVars
  <2>3. ASSUME AppliedRestart PROVE OlderInv'
    BY <1>2, <2>3 DEF AppliedRestart
  <2> QED
    BY <1>9, <2>1, <2>2, <2>3 DEF Committing
<1> QED
  BY <1>2, <1>4, <1>5, <1>6, <1>7, <1>8, <1>9 DEF BootNext, PowerCut

(* The same of any run *)
LEMMA OlderInvariant == BootSafety => []OlderInv
<1>1. BootInit => OlderInv
  <2> SUFFICES ASSUME BootInit PROVE OlderInv
    OBVIOUS
  <2>1. running.slot = NoSlot /\ \A s \in Slots : ~ValidSlot(flash[s])
    BY DEF BootInit, StoreInit, NoRecord, Erased, ValidSlot
  <2> QED
    BY <2>1 DEF OlderInv, FailedNeverRuns
<1>2. SlotsInv /\ BootAll /\ (SlotsInv /\ BootAll)' /\ OlderInv /\ [BootNext]_vars => OlderInv'
  BY OlderKeeps
<1> QED
  BY <1>1, <1>2, BootInvariant, PTL DEF BootSafety

-----------------------------------------------------------------------------
(* What the invariants say of the properties.                              *)

(* A patient phone's trial keeps its bit until it ends. *)
LEMMA TruthfulBit ==
  ASSUME BootAll, Patient
  PROVE  TrialBitIsTruthful
<1> SUFFICES ASSUME running.slot # NoSlot, ~trial, fate[running.slot] = "trying" PROVE FALSE
  BY DEF TrialBitIsTruthful
<1>1. Up /\ running.slot \in Slots
  BY DEF BootAll, BootInv, BootTypeOK, StageInv, Record, NoRecord
<1> QED
  BY <1>1 DEF BootAll, BootInv, TrialInv, Up

(* What is confirmed and alone on the flash is what a restart ends up with. *)
LEMMA AloneIsNext ==
  ASSUME SlotsInv, BootAll, "scan" \notin Faults
  PROVE  UncommittedChangesNothing
<1> DEFINE r == running.slot
<1> SUFFICES ASSUME r # NoSlot, fate[r] \in Settled \union {"none"}, fate[Other(r)] = "none"
             PROVE  NextRevision = running.revision
  BY DEF UncommittedChangesNothing
<1>1. r \in Slots /\ ValidSlot(flash[r]) /\ running.revision = flash[r].header.revision
  <2>1. r \in Slots
    BY DEF BootAll, BootInv, BootTypeOK, Record, NoRecord
  <2> QED
    BY <2>1, RunsKept DEF RunningIsKept, RecordOf
<1> HIDE DEF r
<1>2. Other(r) \in Slots /\ fate[r] \in Settled /\ ~ValidSlot(flash[Other(r)])
  <2>1. Other(r) \in Slots
    BY <1>1 DEF Other, Slots
  <2> QED
    BY <1>1, <2>1 DEF BootAll, BootInv, FateInv, r
<1>3. Scan(flash, Slots).slot = r /\ Scan(flash, Slots).revision = running.revision
  <2>1. IsNewest(flash, r)
    BY <1>1, <1>2, FlashRevisions DEF IsNewest, Other, Slots, SlotsInv, IInv, StoreTypeOK
  <2> QED
    BY <1>1, <2>1, ScanIsNewest DEF RecordOf, SlotsInv, IInv, StoreTypeOK
<1>4. TrialDecision(nvs, running.revision) # "PREVIOUS"
  BY <1>1, <1>2, PreviousMeans DEF BootAll, SteadyInv, ConfirmedInv, r
<1> QED
  BY <1>1, <1>3, <1>4 DEF NextRevision, NoSlot, Slots

-----------------------------------------------------------------------------
(* The theorems of the boot.                                               *)

(* Its fairness set aside *)
LEMMA SafetyOfBoot == BootSpec => BootSafety
BY PTL DEF BootSpec, BootSafety

(* The boot, the health task and the worker use the store as its           *)
(* specification allows: what is proved of StoreSpec holds of the gauge.   *)
THEOREM BootImplementsStore == BootSpec => StoreSpec
<1>1. BootInit => StoreInit
  BY DEF BootInit
<1>2. (SlotsInv /\ BootAll) /\ [BootNext]_vars => [StoreNext]_storeVars
  <2>1. UNCHANGED vars => UNCHANGED storeVars
    BY DEF vars
  <2> QED
    BY <2>1, BootStepsStore DEF BootAll
<1> QED
  BY <1>1, <1>2, SafetyOfBoot, BootInvariant, PTL DEF BootSafety, StoreSpec

(* The configuration the gauge runs stays whole on the flash, whatever is  *)
(* transferred, committed, cut or mistaken meanwhile.                      *)
THEOREM RunningAlwaysKept == BootSpec => []RunningIsKept
<1>1. SlotsInv /\ BootAll => RunningIsKept
  BY RunsKept
<1> QED
  BY <1>1, SafetyOfBoot, BootInvariant, PTL

(* The journal is ahead of the flash: with a phone that waits for its      *)
(* confirmation, and slots that can be read and written, a generation      *)
(* nothing has run yet is never what a restart picks without its trial     *)
(* being in NVS.  Saves may fail, stored or not, and the journal may be    *)
(* unreadable to a boot: then the generation is one of the forgotten,      *)
(* which exist only in that case (ForgottenOnlyUnread).                    *)
THEOREM UntestedAlwaysJournalled ==
  ASSUME Patient, {"scan", "read", "write"} \cap Faults = {}
  PROVE  BootSpec => []UntestedIsJournalled
<1>1. SlotsInv /\ BootAll => UntestedIsJournalled
  BY DEF BootAll, UntestedInv, Careful
<1> QED
  BY <1>1, SafetyOfBoot, BootInvariant, PTL

(* A trial that has begun and a trial that failed are in NVS as long as a  *)
(* restart would pick their generation, whether the saves of the decision, *)
(* the rejection, the cancellation and the confirmation that reported an   *)
(* error were stored or not, unless a boot could not read the journal      *)
(* (ForgottenOnlyUnread).                                                  *)
THEOREM FailureAlwaysJournalled ==
  ASSUME Patient, "scan" \notin Faults
  PROVE  BootSpec => []FailureIsJournalled
<1>1. SlotsInv /\ BootAll => FailureIsJournalled
  BY DEF BootAll, FailedInv
<1> QED
  BY <1>1, SafetyOfBoot, BootInvariant, PTL

(* No generation is ever forgotten, and so without a trial or a rejection  *)
(* it was owed, if every boot can read the journal that is stored.         *)
THEOREM ForgottenOnlyUnread ==
  ASSUME "journal" \notin Faults
  PROVE  BootSpec => [](\A s \in Slots : fate[s] # "forgotten")
<1> DEFINE Nothing == \A s \in Slots : fate[s] # "forgotten"
<1>1. BootInit => Nothing
  BY DEF BootInit
<1>2. (SlotsInv /\ BootAll) /\ Nothing /\ [BootNext]_vars => Nothing'
  <2> SUFFICES ASSUME SlotsInv, BootAll, Nothing, [BootNext]_vars PROVE Nothing'
    OBVIOUS
  <2>1. fate \in [Slots -> Fates]
    BY DEF BootAll, BootInv, BootTypeOK
  <2>2. \A s \in Slots : FateOf(flash')[s] # "forgotten"
    BY DEF FateOf
  <2>3. \A old : (\A s \in Slots : old[s] # "forgotten") =>
                  \A s \in Slots : FateAtRestart(old)[s] # "forgotten"
    BY DEF FateAtRestart
  <2>4. \A s \in Slots : \A u : \A v \in {"trying", "failed", "confirmed"} :
           [fate EXCEPT ![u] = v][s] # "forgotten"
    BY <2>1
  <2>5. CASE UNCHANGED vars
    BY <2>5 DEF vars
  <2>6. CASE PowerCut \/ Boot \/ Health
    BY <2>3, <2>4, <2>6 DEF PowerCut, ChipRestart, RestartOn, Boot, BootDecide, BootLoad, BootLoadFails,
       BootFallback, BootWithout, Health, HealthReady, HealthConfirm, HealthTimeout
  <2>7. CASE Commands
    BY <2>2, <2>3, <2>7 DEF Commands, WorkerBegin, WorkerBeginCut, WorkerWrite, WorkerAbort, CommitPrepare
  <2>8. CASE Committing
    BY <2>2, <2>3, <2>8 DEF Committing, CommitStep, CommitCancel, AppliedRestart, ChipRestart, RestartOn
  <2> QED
    BY <2>5, <2>6, <2>7, <2>8 DEF BootNext, JournalUnread
<1> QED
  BY <1>1, <1>2, SafetyOfBoot, BootInvariant, PTL DEF BootSafety

(* Whatever the saves of the journal reported, and whatever of them was    *)
(* stored, no generation runs after its trial failed, when the scan meets  *)
(* no fault and the phone waits.                                           *)
THEOREM FailedRunsNeverAgain ==
  ASSUME Patient, "scan" \notin Faults
  PROVE  BootSpec => []FailedNeverRuns
<1>1. OlderInv => FailedNeverRuns
  BY DEF OlderInv
<1> QED
  BY <1>1, SafetyOfBoot, OlderInvariant, PTL

(* The trial bit the phone reads is clear only when no trial is going on. *)
THEOREM TrialBitAlwaysTruthful ==
  ASSUME Patient
  PROVE  BootSpec => []TrialBitIsTruthful
<1>1. SlotsInv /\ BootAll => TrialBitIsTruthful
  BY TruthfulBit
<1> QED
  BY <1>1, SafetyOfBoot, BootInvariant, PTL

-----------------------------------------------------------------------------
(* The session.                                                            *)

(* What the session says of the store, of the worker and of the gate       *)
SessionInv ==
  /\ session \in Session /\ gate \in {"none", "config", "other"}
  /\ ~Up => session = NoSession /\ gate = "none"
  /\ session.phase # "IDLE" => session.length \in Lengths
  /\ session.phase = "METADATA" => session.accepted = 0
  /\ job \in {"commit", "cancel"} => session.phase = "VERIFIED"
  /\ job = "applied" <=> session.phase = "APPLIED"
  /\ SessionMatchesStore /\ VerifiedStaysStaged /\ GateIsHeld

(* A gauge that has just been switched on has no session. *)
LEMMA NoSessionIsSession == NoSession \in Session /\ NoSession.phase = "IDLE"
<1>1. 0 \in Revisions /\ 0 \in 0..MaxBlocks
  BY StoreAssumption DEF Revisions
<1> QED
  BY <1>1, EmptyDocument DEF NoSession, Session, Phases, Results, Ops

(* The answer to a request is a session, and one in the phase of next. *)
LEMMA AnswerFacts ==
  ASSUME NEW next \in Session, NEW op \in Ops, NEW seq \in Sequences, NEW result \in Results,
         Answered(next, op, seq, result)
  PROVE  /\ session' \in Session
         /\ session'.phase = next.phase /\ session'.base = next.base /\ session'.length = next.length
         /\ session'.accepted = next.accepted /\ session'.digest = next.digest
BY DEF Answered, Session

(* An error of the store has a result. *)
LEMMA ResultOfError ==
  ASSUME NEW err
  PROVE  ResultFor(err) \in Results
<1>1. CASE err = "OK"
  BY <1>1 DEF ResultFor, Results
<1>2. CASE err \in {"INVALID_CRC", "INVALID_ARG"}
  BY <1>2 DEF ResultFor, Results
<1>3. CASE err = "INVALID_STATE"
  BY <1>3 DEF ResultFor, Results
<1>4. CASE err = "NOT_SUPPORTED"
  BY <1>4 DEF ResultFor, Results
<1>5. CASE err \notin {"OK", "INVALID_CRC", "INVALID_ARG", "INVALID_STATE", "NOT_SUPPORTED"}
  BY <1>5 DEF ResultFor, Results
<1> QED
  BY <1>1, <1>2, <1>3, <1>4, <1>5

(* A step that leaves the transfer and the phase as they are *)
LEMMA SessionGoesOn ==
  ASSUME SessionInv, Up, Up', session' \in Session, gate' = gate,
         session'.phase = session.phase, session'.base = session.base,
         session'.length = session.length, session'.accepted = session.accepted,
         session.phase \in {"RECEIVING", "VERIFIED"} => session'.digest = session.digest,
         transfer' = transfer, active' = active, StagedCheck' = StagedCheck,
         job' \in {"commit", "cancel"} => session.phase = "VERIFIED",
         job' = "applied" <=> job = "applied"
  PROVE  SessionInv'
<1>1. SessionMatchesStore'
  BY DEF SessionInv, SessionMatchesStore
<1>2. VerifiedStaysStaged' /\ GateIsHeld'
  BY DEF SessionInv, VerifiedStaysStaged, GateIsHeld
<1> QED
  BY <1>1, <1>2 DEF SessionInv

(* The checks of a commit look at the transfer, its document and the base. *)
LEMMA SameChecks ==
  ASSUME transfer' = transfer, active' = active,
         flash'[transfer.slot].body = flash[transfer.slot].body
  PROVE  StagedCheck' = StagedCheck
BY DEF StagedCheck, HashDocument

(* A request that fits no branch changes nothing but its answer. *)
LEMMA RefusedKeeps ==
  ASSUME SessionInv, Up, NEW op \in Ops, NEW seq \in Sequences, NEW result \in Results,
         Refused(op, seq, result)
  PROVE  SessionInv' /\ UNCHANGED vars
<1>1. UNCHANGED vars /\ gate' = gate /\ Answered(session, op, seq, result) /\ session \in Session
  BY DEF Refused, SessionInv
<1>2. /\ session' \in Session
      /\ session'.phase = session.phase /\ session'.base = session.base
      /\ session'.length = session.length /\ session'.accepted = session.accepted
      /\ session'.digest = session.digest
  BY <1>1, AnswerFacts
<1>3. /\ flash' = flash /\ transfer' = transfer /\ active' = active /\ job' = job /\ Up'
  BY <1>1 DEF vars, storeVars, bootVars, Up
<1>4. StagedCheck' = StagedCheck
  BY <1>3, SameChecks
<1>5. job' \in {"commit", "cancel"} => session.phase = "VERIFIED"
  BY <1>3 DEF SessionInv
<1> QED
  BY <1>1, <1>2, <1>3, <1>4, <1>5, SessionGoesOn

(* BEGIN *)
LEMMA BeginRequestKeeps ==
  ASSUME SessionInv, NEW seq, NEW id, NEW base \in Revisions, NEW length,
         BeginRequest(seq, id, base, length)
  PROVE  SessionInv' /\ UNCHANGED vars
<1>1. Up /\ seq \in Sequences /\ id \in TransferIds
  BY DEF BeginRequest, Taken
<1>2. "BEGIN" \in Ops /\ {"CONFLICT", "BAD_REQUEST", "OK"} \subseteq Results
  BY DEF Ops, Results
<1>3. CASE \E result \in {"CONFLICT", "BAD_REQUEST"} : Refused("BEGIN", seq, result)
  BY <1>1, <1>2, <1>3, RefusedKeeps
<1>4. CASE ~\E result \in {"CONFLICT", "BAD_REQUEST"} : Refused("BEGIN", seq, result)
  <2> DEFINE next == [phase |-> "METADATA", result |-> "OK", op |-> "BEGIN", seq |-> seq,
                      id |-> id, base |-> base, length |-> length, accepted |-> 0,
                      parts |-> {}, digest |-> <<>>]
  <2>1. /\ BeginSession(base, length) /\ Claim("config") /\ Answered(next, "BEGIN", seq, "OK")
        /\ UNCHANGED vars
    BY <1>4 DEF BeginRequest
  <2>2. length \in Lengths /\ base = active.revision /\ session.phase = "IDLE"
    BY <2>1 DEF BeginSession, Lengths
  <2>3. next \in Session /\ next.phase = "METADATA" /\ next.length = length /\ next.accepted = 0
    <3>1. length \in 0..MaxBlocks /\ 0 \in 0..MaxBlocks
      BY <2>2, StoreAssumption DEF Lengths
    <3> QED
      BY <1>1, <3>1, EmptyDocument DEF Session, Phases, Results, Ops
  <2> HIDE DEF next
  <2>4. /\ session' \in Session /\ session'.phase = "METADATA" /\ session'.length = length
        /\ session'.accepted = 0
    BY <1>1, <1>2, <2>1, <2>3, AnswerFacts
  <2>5. /\ transfer' = transfer /\ active' = active /\ job' = job /\ Up' /\ gate' = "config"
    BY <1>1, <2>1 DEF vars, storeVars, bootVars, Up, Claim
  <2>6. ~transfer.open /\ job \notin {"commit", "cancel", "applied"}
    BY <2>2 DEF SessionInv, SessionMatchesStore
  <2>7. SessionMatchesStore' /\ VerifiedStaysStaged' /\ GateIsHeld'
    BY <2>4, <2>5, <2>6 DEF SessionMatchesStore, VerifiedStaysStaged, GateIsHeld
  <2> QED
    BY <2>1, <2>2, <2>4, <2>5, <2>6, <2>7 DEF SessionInv
<1> QED
  BY <1>3, <1>4

(* DIGEST *)
LEMMA DigestRequestKeeps ==
  ASSUME SessionInv, NEW seq, NEW id, NEW part \in Parts, NEW sha \in Documents,
         DigestRequest(seq, id, part, sha)
  PROVE  SessionInv' /\ UNCHANGED vars
<1>1. Up /\ seq \in Sequences /\ session \in Session
  BY DEF DigestRequest, Taken, SessionInv
<1>2. "DIGEST" \in Ops /\ {"BAD_REQUEST", "OK"} \subseteq Results
  BY DEF Ops, Results
<1>3. CASE Refused("DIGEST", seq, "BAD_REQUEST")
  BY <1>1, <1>2, <1>3, RefusedKeeps
<1>4. CASE ~Refused("DIGEST", seq, "BAD_REQUEST")
  <2> DEFINE next == [session EXCEPT !.parts = @ \union {part}, !.digest = sha]
  <2>1. session.phase = "METADATA" /\ Answered(next, "DIGEST", seq, "OK") /\ UNCHANGED <<vars, gate>>
    BY <1>4 DEF DigestRequest
  <2>2. /\ next \in Session /\ next.phase = session.phase /\ next.base = session.base
        /\ next.length = session.length /\ next.accepted = session.accepted
    BY <1>1 DEF Session
  <2> HIDE DEF next
  <2>3. /\ session' \in Session /\ session'.phase = session.phase /\ session'.base = session.base
        /\ session'.length = session.length /\ session'.accepted = session.accepted
    BY <1>1, <1>2, <2>1, <2>2, AnswerFacts
  <2>4. /\ flash' = flash /\ transfer' = transfer /\ active' = active /\ job' = job /\ Up' /\ gate' = gate
    BY <1>1, <2>1 DEF vars, storeVars, bootVars, Up
  <2>5. StagedCheck' = StagedCheck
    BY <2>4, SameChecks
  <2>6. job' \in {"commit", "cancel"} => session.phase = "VERIFIED"
    BY <2>4 DEF SessionInv
  <2>7. SessionInv'
    BY <1>1, <2>1, <2>3, <2>4, <2>5, <2>6, SessionGoesOn
  <2> QED
    BY <2>1, <2>7
<1> QED
  BY <1>3, <1>4

(* START *)
LEMMA StartRequestKeeps ==
  ASSUME SlotsInv, SessionInv, NEW seq, NEW id, StartRequest(seq, id)
  PROVE  /\ SessionInv'
         /\ \/ UNCHANGED vars
            \/ \E base \in Revisions, length \in Lengths, sha \in Documents, err \in StoreErrors :
                  WorkerBegin(base, length, sha, err)
<1>1. Up /\ seq \in Sequences /\ session \in Session
  BY DEF StartRequest, Taken, SessionInv
<1>2. "START" \in Ops /\ "BAD_REQUEST" \in Results
  BY DEF Ops, Results
<1>3. CASE Refused("START", seq, "BAD_REQUEST")
  BY <1>1, <1>2, <1>3, RefusedKeeps
<1>4. CASE ~Refused("START", seq, "BAD_REQUEST")
  <2>1. PICK err \in StoreErrors :
          /\ WorkerBegin(session.base, session.length, session.digest, err)
          /\ Answered([session EXCEPT !.phase = IF err = "OK" THEN "RECEIVING" ELSE @],
                      "START", seq, ResultFor(err))
    BY <1>4 DEF StartRequest
  <2> DEFINE next == [session EXCEPT !.phase = IF err = "OK" THEN "RECEIVING" ELSE @]
  <2>2. session.phase = "METADATA" /\ gate' = gate
    BY <1>4 DEF StartRequest, StartFits
  <2>3. /\ next \in Session /\ next.base = session.base /\ next.length = session.length
        /\ next.accepted = session.accepted /\ next.digest = session.digest
        /\ next.phase = IF err = "OK" THEN "RECEIVING" ELSE "METADATA"
    BY <1>1, <2>2 DEF Session, Phases
  <2>4. Answered(next, "START", seq, ResultFor(err))
    BY <2>1
  <2> HIDE DEF next
  <2>5. /\ session' \in Session /\ session'.base = session.base /\ session'.length = session.length
        /\ session'.accepted = session.accepted /\ session'.digest = session.digest
        /\ session'.phase = IF err = "OK" THEN "RECEIVING" ELSE "METADATA"
    BY <1>1, <1>2, <2>3, <2>4, ResultOfError, AnswerFacts
  <2>6. /\ StoreBegin(session.base, session.length, session.digest, err)
        /\ job' = job /\ job = "idle" /\ Up' /\ active' = active
    BY <1>1, <2>1 DEF WorkerBegin, bootVars, Up, StoreBegin
  <2>7. /\ session.base \in Revisions /\ session.digest \in Documents /\ session.length \in Lengths
        /\ session.accepted = 0 /\ ~transfer.open /\ gate = "config"
    BY <1>1, <2>2 DEF SessionInv, Session, SessionMatchesStore, GateIsHeld
  <2>8. SessionMatchesStore'
    <3>1. CASE err = "OK"
      <4>1. /\ ~BeginRefused(session.base)
            /\ transfer' = [open |-> TRUE, slot |-> Target, length |-> session.length,
                            written |-> 0, sha |-> session.digest]
        BY <2>6, <3>1 DEF StoreBegin
      <4> QED
        BY <2>5, <2>6, <2>7, <3>1, <4>1 DEF SessionMatchesStore, BeginRefused
    <3>2. CASE err # "OK"
      <4>1. ~transfer'.open
        BY <2>6, <2>7, <3>2 DEF StoreBegin, Closed
      <4> QED
        BY <2>5, <3>2, <4>1 DEF SessionMatchesStore
    <3> QED
      BY <3>1, <3>2
  <2>9. VerifiedStaysStaged' /\ GateIsHeld'
    BY <2>2, <2>5, <2>7 DEF VerifiedStaysStaged, GateIsHeld
  <2>10. SessionInv'
    BY <2>2, <2>5, <2>6, <2>7, <2>8, <2>9 DEF SessionInv
  <2> QED
    BY <2>1, <2>7, <2>10
<1> QED
  BY <1>3, <1>4

(* CHUNK *)
LEMMA ChunkRequestKeeps ==
  ASSUME SlotsInv, SessionInv, NEW seq, NEW id, NEW offset \in 0..MaxBlocks, NEW data \in Chunks,
         ChunkRequest(seq, id, offset, data)
  PROVE  /\ SessionInv'
         /\ UNCHANGED vars \/ \E err \in StoreErrors : WorkerWrite(offset, data, err)
<1>1. Up /\ seq \in Sequences /\ session \in Session
  BY DEF ChunkRequest, Taken, SessionInv
<1>2. "CHUNK" \in Ops /\ {"BAD_REQUEST", "CONFLICT"} \subseteq Results
  BY DEF Ops, Results
<1>3. CASE \E result \in {"BAD_REQUEST", "CONFLICT"} : Refused("CHUNK", seq, result)
  BY <1>1, <1>2, <1>3, RefusedKeeps
<1>4. CASE ~\E result \in {"BAD_REQUEST", "CONFLICT"} : Refused("CHUNK", seq, result)
  <2>1. PICK err \in StoreErrors :
          /\ WorkerWrite(offset, data, err)
          /\ Answered([session EXCEPT !.accepted = IF err = "OK" THEN Accepted(offset, data) ELSE @],
                      "CHUNK", seq, ResultFor(err))
    BY <1>4 DEF ChunkRequest
  <2> DEFINE count == IF err = "OK" THEN Accepted(offset, data) ELSE session.accepted
             next  == [session EXCEPT !.accepted = IF err = "OK" THEN Accepted(offset, data) ELSE @]
  <2>2. /\ session.phase = "RECEIVING" /\ gate' = gate
        /\ offset <= session.accepted /\ Len(data) <= session.length - offset
    BY <1>4 DEF ChunkRequest, ChunkFits
  <2>3. /\ session.length \in 0..MaxBlocks /\ session.accepted \in 0..MaxBlocks /\ Len(data) \in Nat
        /\ Len(data) # 0
    <3>1. data \in Documents /\ data # <<>>
      BY DEF Chunks
    <3>2. data \in Seq(Blocks) /\ Len(data) \in 0..MaxBlocks
      BY <3>1, DocumentIsSeq
    <3>3. Len(data) # 0
      BY <3>1, <3>2
    <3> QED
      BY <1>1, <3>2, <3>3 DEF Session
  <2>4. count \in 0..MaxBlocks
    BY <2>2, <2>3, StoreAssumption DEF Accepted
  <2>5. /\ next \in Session /\ next.phase = session.phase /\ next.base = session.base
        /\ next.length = session.length /\ next.digest = session.digest /\ next.accepted = count
    BY <1>1, <2>4 DEF Session
  <2>6. Answered(next, "CHUNK", seq, ResultFor(err))
    BY <2>1
  <2>7. /\ err = "OK" /\ offset = session.accepted => count = session.accepted + Len(data)
        /\ err # "OK" \/ offset # session.accepted => count = session.accepted
    BY DEF Accepted
  <2> HIDE DEF count, next
  <2>8. /\ session' \in Session /\ session'.phase = session.phase /\ session'.base = session.base
        /\ session'.length = session.length /\ session'.digest = session.digest
        /\ session'.accepted = count
    BY <1>1, <1>2, <2>5, <2>6, ResultOfError, AnswerFacts
  <2>9. /\ StoreWrite(offset, data, err) /\ job' = job /\ job = "idle" /\ Up' /\ active' = active
    BY <1>1, <2>1 DEF WorkerWrite, bootVars, Up, StoreWrite
  <2>10. /\ transfer.open /\ transfer.sha = session.digest /\ transfer.length = session.length
         /\ transfer.written = session.accepted /\ active.revision = session.base /\ gate = "config"
         /\ transfer \in Transfer
    BY <2>2 DEF SessionInv, SessionMatchesStore, GateIsHeld, SlotsInv, IInv, StoreTypeOK
  <2>11. /\ transfer'.open /\ transfer'.sha = transfer.sha /\ transfer'.length = transfer.length
         /\ transfer'.written = count
    <3>1. CASE transfer' = transfer
      <4>1. err = "OK" => offset # session.accepted
        <5> SUFFICES ASSUME err = "OK", offset = transfer.written PROVE FALSE
          BY <2>10
        <5>1. ~WriteRetried(offset, data) /\ WriteIsNext(offset)
          BY <2>3, <2>10 DEF WriteRetried, WriteIsNext
        <5>2. transfer' = [transfer EXCEPT !.written = @ + Len(data)]
          BY <2>9, <5>1 DEF StoreWrite
        <5>3. transfer'.written = transfer.written + Len(data)
          BY <2>10, <5>2 DEF Transfer
        <5> QED
          BY <2>3, <2>10, <3>1, <5>3
      <4> QED
        BY <2>7, <2>10, <3>1, <4>1
    <3>2. CASE /\ err = "OK" /\ WriteIsNext(offset)
               /\ transfer' = [transfer EXCEPT !.written = @ + Len(data)]
      <4>1. /\ transfer'.open = transfer.open /\ transfer'.sha = transfer.sha
            /\ transfer'.length = transfer.length /\ transfer'.written = transfer.written + Len(data)
        BY <2>10, <3>2 DEF Transfer
      <4> QED
        BY <2>7, <2>10, <3>2, <4>1 DEF WriteIsNext
    <3> QED
      BY <2>9, <3>1, <3>2 DEF StoreWrite
  <2>12. SessionMatchesStore' /\ VerifiedStaysStaged' /\ GateIsHeld'
    BY <2>2, <2>8, <2>9, <2>10, <2>11 DEF SessionMatchesStore, VerifiedStaysStaged, GateIsHeld
  <2>13. SessionInv'
    BY <2>2, <2>8, <2>9, <2>10, <2>12 DEF SessionInv
  <2> QED
    BY <2>1, <2>13
<1> QED
  BY <1>3, <1>4

(* VERIFY *)
LEMMA VerifyRequestKeeps ==
  ASSUME SessionInv, NEW seq, NEW id, VerifyRequest(seq, id)
  PROVE  SessionInv' /\ UNCHANGED vars
<1>1. Up /\ seq \in Sequences /\ session \in Session
  BY DEF VerifyRequest, Taken, SessionInv
<1>2. "VERIFY" \in Ops /\ "BAD_REQUEST" \in Results
  BY DEF Ops, Results
<1>3. CASE Refused("VERIFY", seq, "BAD_REQUEST")
  BY <1>1, <1>2, <1>3, RefusedKeeps
<1>4. CASE ~Refused("VERIFY", seq, "BAD_REQUEST")
  <2>1. PICK err \in StoreErrors :
          /\ StoreValidate(err)
          /\ Answered([session EXCEPT !.phase = IF err = "OK" THEN "VERIFIED" ELSE @],
                      "VERIFY", seq, ResultFor(err))
    BY <1>4 DEF VerifyRequest
  <2> DEFINE next == [session EXCEPT !.phase = IF err = "OK" THEN "VERIFIED" ELSE @]
  <2>2. session.phase = "RECEIVING" /\ gate' = gate /\ UNCHANGED vars
    BY <1>4, <2>1 DEF VerifyRequest, VerifyFits, StoreValidate, vars
  <2>3. /\ next \in Session /\ next.base = session.base /\ next.length = session.length
        /\ next.accepted = session.accepted /\ next.digest = session.digest
        /\ next.phase = IF err = "OK" THEN "VERIFIED" ELSE "RECEIVING"
    BY <1>1, <2>2 DEF Session, Phases
  <2>4. Answered(next, "VERIFY", seq, ResultFor(err))
    BY <2>1
  <2> HIDE DEF next
  <2>5. /\ session' \in Session /\ session'.base = session.base /\ session'.length = session.length
        /\ session'.accepted = session.accepted /\ session'.digest = session.digest
        /\ session'.phase = IF err = "OK" THEN "VERIFIED" ELSE "RECEIVING"
    BY <1>1, <1>2, <2>3, <2>4, ResultOfError, AnswerFacts
  <2>6. /\ flash' = flash /\ transfer' = transfer /\ active' = active /\ job' = job /\ Up'
    BY <1>1, <2>2 DEF vars, storeVars, bootVars, Up
  <2>7. StagedCheck' = StagedCheck /\ (err = "OK" => StagedCheck = "OK")
    BY <2>1, <2>6, SameChecks DEF StoreValidate
  <2>8. SessionMatchesStore' /\ VerifiedStaysStaged' /\ GateIsHeld'
    BY <2>2, <2>5, <2>6, <2>7 DEF SessionInv, SessionMatchesStore, VerifiedStaysStaged, GateIsHeld
  <2>9. SessionInv'
    BY <2>2, <2>5, <2>6, <2>8 DEF SessionInv
  <2> QED
    BY <2>2, <2>9
<1> QED
  BY <1>3, <1>4

(* COMMIT: the journal is saved for the base the transfer was begun on. *)
LEMMA CommitRequestKeeps ==
  ASSUME SessionInv, NEW seq, NEW id, CommitRequest(seq, id)
  PROVE  /\ SessionInv'
         /\ \/ UNCHANGED vars
            \/ StagedCheck = "OK" /\ \E err \in {"OK", "FAIL"} : CommitPrepare(Candidate, err)
<1>1. Up /\ seq \in Sequences /\ session \in Session
  BY DEF CommitRequest, Taken, SessionInv
<1>2. "COMMIT" \in Ops /\ {"BAD_REQUEST", "CONFLICT", "UNAVAILABLE", "STORAGE"} \subseteq Results
  BY DEF Ops, Results
<1>3. CASE \E result \in {"BAD_REQUEST", "CONFLICT", "UNAVAILABLE"} : Refused("COMMIT", seq, result)
  BY <1>1, <1>2, <1>3, RefusedKeeps
<1>4. CASE ~\E result \in {"BAD_REQUEST", "CONFLICT", "UNAVAILABLE"} : Refused("COMMIT", seq, result)
  <2>1. PICK err \in {"OK", "FAIL"} :
          /\ CommitPrepare(session.base + 1, err)
          /\ Answered(session, "COMMIT", seq, IF err = "OK" THEN "BAD_REQUEST" ELSE "STORAGE")
    BY <1>4 DEF CommitRequest
  <2>2. session.phase = "VERIFIED" /\ gate' = gate
    BY <1>4 DEF CommitRequest, CommitFits
  <2>3. session.base + 1 = Candidate /\ StagedCheck = "OK"
    BY <2>2 DEF SessionInv, SessionMatchesStore, VerifiedStaysStaged, Candidate
  <2>4. /\ flash' = flash /\ transfer' = transfer /\ active' = active /\ Up'
        /\ job = "idle" /\ job' \in {"commit", "cancel"}
    BY <1>1, <2>1 DEF CommitPrepare, storeVars, bootVars, Up
  <2>5. (IF err = "OK" THEN "BAD_REQUEST" ELSE "STORAGE") \in Results
    BY <1>2
  <2>6. /\ session' \in Session
        /\ session'.phase = session.phase /\ session'.base = session.base
        /\ session'.length = session.length /\ session'.accepted = session.accepted
        /\ session'.digest = session.digest
    BY <1>1, <1>2, <2>1, <2>5, AnswerFacts
  <2>7. StagedCheck' = StagedCheck
    BY <2>4, SameChecks
  <2>8. SessionInv'
    BY <1>1, <2>2, <2>4, <2>6, <2>7, SessionGoesOn
  <2> QED
    BY <2>1, <2>3, <2>8
<1> QED
  BY <1>3, <1>4

(* What a step of config_store_commit leaves of a transfer *)
LEMMA CommitStepLeaves ==
  ASSUME SlotsInv, BootAll, NEW err, CommitStep(err)
  PROVE  /\ Up /\ Up' /\ job = "commit"
         /\ err = "OK" => ~transfer'.open /\ job' = "applied"
         /\ err # "OK" => /\ transfer' = transfer /\ active' = active /\ StagedCheck' = StagedCheck
                          /\ job' \in {"commit", "cancel"}
<1>1. Up /\ job = "commit" /\ Up' /\ transfer.open
  BY DEF CommitStep, BootAll, BootInv, StageInv, JobInv, bootVars, Up
<1>2. /\ flash \in [Slots -> Partition] /\ transfer.slot \in Slots
      /\ Calling => commit.slot = transfer.slot
  BY DEF SlotsInv, IInv, StoreTypeOK, Transfer, CommitIsStaged
<1>3. CASE err = "OK"
  <2>1. StoreCommitFinish(err)
    BY <1>3 DEF CommitStep, StoreCommitHeader, StoreCommitMarker
  <2>2. ~transfer'.open
    BY <1>3, <2>1 DEF StoreCommitFinish, Closed
  <2>3. job' = "applied"
    BY <1>3 DEF CommitStep
  <2> QED
    BY <1>1, <1>3, <2>2, <2>3
<1>4. CASE err # "OK"
  <2>1. transfer' = transfer /\ active' = active
    BY <1>4 DEF CommitStep, StoreCommitHeader, StoreCommitMarker, StoreCommitFinish
  <2>2. flash'[transfer.slot].body = flash[transfer.slot].body
    <3>1. flash[transfer.slot] \in Partition
      BY <1>2
    <3>2. CASE StoreCommitHeader(err)
      <4>1. flash' = flash \/ flash' = [flash EXCEPT ![transfer.slot].header = NewHeader]
        BY <3>2 DEF StoreCommitHeader
      <4> QED
        BY <1>2, <3>1, <4>1 DEF Partition
    <3>3. CASE StoreCommitMarker(err)
      <4>1. commit.slot = transfer.slot
        BY <1>2, <3>3 DEF StoreCommitMarker, Calling
      <4>2. \E written \in BOOLEAN : flash' = [flash EXCEPT ![transfer.slot].marker = written]
        BY <3>3, <4>1 DEF StoreCommitMarker
      <4> QED
        BY <1>2, <3>1, <4>2 DEF Partition
    <3>4. CASE StoreCommitFinish(err)
      BY <3>4 DEF StoreCommitFinish
    <3> QED
      BY <3>2, <3>3, <3>4 DEF CommitStep
  <2>3. StagedCheck' = StagedCheck
    BY <2>1, <2>2, SameChecks
  <2>4. job' \in {"commit", "cancel"}
    <3>1. CASE err = "MORE"
      BY <3>1 DEF CommitStep
    <3>2. CASE err # "MORE"
      BY <1>4, <3>2 DEF CommitStep
    <3> QED
      BY <3>1, <3>2
  <2> QED
    BY <1>1, <1>4, <2>1, <2>3, <2>4
<1> QED
  BY <1>3, <1>4

(* The rest of the COMMIT handler *)
LEMMA CommitGoesOnKeeps ==
  ASSUME SlotsInv, BootAll, SessionInv, CommitGoesOn
  PROVE  /\ SessionInv'
         /\ (\E err \in StoreErrors : CommitStep(err)) \/ CommitCancel(Candidate)
<1>1. gate' = gate /\ session \in Session
  BY DEF CommitGoesOn, SessionInv
<1>2. ASSUME NEW err \in StoreErrors, CommitStep(err),
             session' = CASE err = "MORE" -> session
                          [] err = "OK" -> [session EXCEPT !.phase = "APPLIED", !.result = "OK"]
                          [] OTHER -> [session EXCEPT !.result = ResultFor(err)]
      PROVE  SessionInv'
  <2>1. /\ Up /\ Up' /\ job = "commit"
        /\ err = "OK" => ~transfer'.open /\ job' = "applied"
        /\ err # "OK" => /\ transfer' = transfer /\ active' = active /\ StagedCheck' = StagedCheck
                         /\ job' \in {"commit", "cancel"}
    BY <1>2, CommitStepLeaves
  <2>2. session.phase = "VERIFIED" /\ session.length \in Lengths /\ gate = "config"
    BY <2>1 DEF SessionInv, GateIsHeld
  <2>3. CASE err = "OK"
    <3>1. /\ session' \in Session /\ session'.phase = "APPLIED" /\ session'.length = session.length
      <4>1. session' = [session EXCEPT !.phase = "APPLIED", !.result = "OK"]
        BY <1>2, <2>3
      <4> QED
        BY <1>1, <4>1 DEF Session, Phases, Results
    <3>2. SessionMatchesStore' /\ VerifiedStaysStaged' /\ GateIsHeld'
      BY <1>1, <2>1, <2>2, <2>3, <3>1 DEF SessionMatchesStore, VerifiedStaysStaged, GateIsHeld
    <3> QED
      BY <1>1, <2>1, <2>2, <2>3, <3>1, <3>2 DEF SessionInv
  <2>4. CASE err # "OK"
    <3>1. /\ session' \in Session
          /\ session'.phase = session.phase /\ session'.base = session.base
          /\ session'.length = session.length /\ session'.accepted = session.accepted
          /\ session'.digest = session.digest
      <4>1. CASE err = "MORE"
        BY <1>1, <1>2, <4>1
      <4>2. CASE err # "MORE"
        <5>1. session' = [session EXCEPT !.result = ResultFor(err)]
          BY <1>2, <2>4, <4>2
        <5> QED
          BY <1>1, <5>1, ResultOfError DEF Session
      <4> QED
        BY <4>1, <4>2
    <3> QED
      BY <1>1, <2>1, <2>2, <2>4, <3>1, SessionGoesOn
  <2> QED
    BY <2>3, <2>4
<1>3. ASSUME CommitCancel(session.base + 1), UNCHANGED session
      PROVE  SessionInv' /\ CommitCancel(Candidate)
  <2>1. /\ flash' = flash /\ transfer' = transfer /\ active' = active /\ job = "cancel" /\ job' = "idle"
        /\ Up /\ Up'
    BY <1>3 DEF CommitCancel, storeVars, bootVars, BootAll, BootInv, StageInv, Up
  <2>2. StagedCheck' = StagedCheck
    BY <2>1, SameChecks
  <2>3. session.base + 1 = Candidate
    BY <2>1 DEF SessionInv, SessionMatchesStore, Candidate
  <2>4. SessionInv'
    BY <1>1, <1>3, <2>1, <2>2, SessionGoesOn
  <2> QED
    BY <1>3, <2>3, <2>4
<1> QED
  BY <1>2, <1>3 DEF CommitGoesOn

(* The end of a session *)
LEMMA SessionEnds ==
  ASSUME SessionInv, Up', job = "idle", WorkerAbort, SessionOver,
         session' \in Session, session'.phase = "IDLE"
  PROVE  SessionInv'
<1>1. job' = "idle" /\ ~transfer'.open
  BY DEF WorkerAbort, StoreAbort, Closed
<1>2. gate' \in {"none", "other"}
  BY DEF SessionOver, Release, SessionInv
<1>3. SessionMatchesStore' /\ VerifiedStaysStaged' /\ GateIsHeld'
  BY <1>1, <1>2 DEF SessionMatchesStore, VerifiedStaysStaged, GateIsHeld
<1> QED
  BY <1>1, <1>2, <1>3 DEF SessionInv

(* ABORT *)
LEMMA AbortRequestKeeps ==
  ASSUME SessionInv, NEW seq, NEW id, AbortRequest(seq, id)
  PROVE  SessionInv' /\ (UNCHANGED vars \/ WorkerAbort)
<1>1. Up /\ seq \in Sequences /\ session \in Session /\ job \in {"idle", "applied"}
  BY DEF AbortRequest, Taken, SessionInv
<1>2. "ABORT" \in Ops /\ {"BAD_REQUEST", "OK"} \subseteq Results
  BY DEF Ops, Results
<1>3. CASE Refused("ABORT", seq, "BAD_REQUEST")
  BY <1>1, <1>2, <1>3, RefusedKeeps
<1>4. CASE ~Refused("ABORT", seq, "BAD_REQUEST")
  <2> DEFINE next == [session EXCEPT !.phase = "IDLE"]
  <2>1. /\ session.phase # "APPLIED" /\ StoreAbort /\ UNCHANGED <<trialVars, bootVars, job, fate>>
        /\ Answered(next, "ABORT", seq, "OK") /\ SessionOver
    BY <1>4 DEF AbortRequest, AbortFits
  <2>2. next \in Session /\ next.phase = "IDLE"
    BY <1>1 DEF Session, Phases
  <2> HIDE DEF next
  <2>3. session' \in Session /\ session'.phase = "IDLE"
    BY <1>1, <1>2, <2>1, <2>2, AnswerFacts
  <2>4. job = "idle" /\ Up'
    BY <1>1, <2>1 DEF SessionInv, bootVars, Up
  <2>5. WorkerAbort
    BY <1>1, <2>1, <2>4 DEF WorkerAbort
  <2> QED
    BY <2>1, <2>3, <2>4, <2>5, SessionEnds
<1> QED
  BY <1>3, <1>4

(* Ten minutes without a request *)
LEMMA InactivityAbortKeeps ==
  ASSUME SessionInv, InactivityAbort
  PROVE  SessionInv' /\ WorkerAbort
<1>1. /\ Up /\ job = "idle" /\ WorkerAbort /\ SessionOver /\ session \in Session
      /\ session' = [session EXCEPT !.phase = "IDLE", !.result = "CONFLICT"]
  BY DEF InactivityAbort, SessionInv
<1>2. session' \in Session /\ session'.phase = "IDLE"
  BY <1>1 DEF Session, Phases, Results
<1>3. Up'
  BY <1>1 DEF WorkerAbort, bootVars, Up
<1> QED
  BY <1>1, <1>2, <1>3, SessionEnds

(* A restart *)
LEMMA SessionLost ==
  ASSUME NEW stored, Down(stored), transfer' = Closed, ElsewhereOrRestart
  PROVE  SessionInv'
<1>1. /\ session' = NoSession /\ gate' = "none" /\ job' = "idle" /\ ~transfer'.open
      /\ session'.phase = "IDLE" /\ session' \in Session
  BY NoSessionIsSession DEF Down, ElsewhereOrRestart, Closed
<1>2. SessionMatchesStore' /\ VerifiedStaysStaged' /\ GateIsHeld'
  BY <1>1 DEF SessionMatchesStore, VerifiedStaysStaged, GateIsHeld
<1> QED
  BY <1>1, <1>2 DEF SessionInv

(* The boot and the health task leave a session alone, or there is none. *)
LEMMA ElsewhereKeeps ==
  ASSUME SlotsInv, BootAll, SessionInv, PowerCut \/ JournalUnread \/ Boot \/ Health,
         ElsewhereOrRestart
  PROVE  SessionInv'
<1>1. ASSUME NEW stored, NEW fates, RestartOn(stored, fates) PROVE SessionInv'
  BY <1>1, SessionLost DEF RestartOn, StoreReset, Restarted
<1>2. CASE Boot
  <2>1. ~Up /\ stage' # "decide" /\ transfer' = transfer /\ job' = job
    <3>1. CASE BootDecide
      <4>1. stage' # "decide"
        <5>1. CASE active.slot = NoSlot
          BY <3>1, <5>1 DEF BootDecide
        <5>2. CASE active.slot # NoSlot
          <6>1. PICK err \in {"OK", "FAIL"} :
                  stage' = IF err # "OK" THEN "fallback"
                           ELSE CASE TrialDecision(journal, active.revision) = "PREVIOUS" -> "fallback"
                                  [] TrialDecision(journal, active.revision) = "TRIAL" -> "loadTrial"
                                  [] TrialDecision(journal, active.revision) = "ACTIVE" -> "load"
            BY <3>1, <5>2 DEF BootDecide
          <6>2. TrialDecision(journal, active.revision) \in {"PREVIOUS", "ACTIVE", "TRIAL"}
            BY DEF TrialDecision
          <6> QED
            BY <6>1, <6>2
        <5> QED
          BY <5>1, <5>2
      <4> QED
        BY <3>1, <4>1 DEF BootDecide, storeVars, Up
    <3>2. CASE BootLoad \/ BootLoadFails \/ BootFallback \/ BootWithout
      BY <3>2 DEF BootLoad, BootLoadFails, BootFallback, BootWithout, StoreSelect, Run, storeVars, Up
    <3> QED
      BY <1>2, <3>1, <3>2 DEF Boot
  <2>2. session' = session /\ gate' = gate /\ session = NoSession /\ gate = "none"
    BY <2>1 DEF ElsewhereOrRestart, SessionInv
  <2>3. session' \in Session /\ session'.phase = "IDLE" /\ ~transfer'.open
        /\ job' \notin {"commit", "cancel", "applied"}
    BY <2>1, <2>2, NoSessionIsSession DEF SessionInv, SessionMatchesStore
  <2>4. SessionMatchesStore' /\ VerifiedStaysStaged' /\ GateIsHeld'
    BY <2>2, <2>3 DEF SessionMatchesStore, VerifiedStaysStaged, GateIsHeld
  <2> QED
    BY <2>2, <2>3, <2>4 DEF SessionInv
<1>3. CASE Health /\ ~\E stored, fates : RestartOn(stored, fates)
  <2>1. /\ UNCHANGED <<storeVars, stage, job>> /\ Up
    BY <1>3 DEF ChipRestart, Health, HealthReady, HealthConfirm, HealthTimeout, BootAll, BootInv, StageInv
  <2>2. /\ flash' = flash /\ transfer' = transfer /\ active' = active /\ job' = job /\ Up'
        /\ session' = session /\ gate' = gate
    BY <2>1 DEF storeVars, Up, ElsewhereOrRestart
  <2>3. StagedCheck' = StagedCheck
    BY <2>2, SameChecks
  <2>4. session' \in Session /\ (job' \in {"commit", "cancel"} => session.phase = "VERIFIED")
    BY <2>2 DEF SessionInv
  <2> QED
    BY <2>1, <2>2, <2>3, <2>4, SessionGoesOn
<1>4. CASE JournalUnread /\ Save(NoJournal, "OK") /\ UNCHANGED <<storeVars, bootVars, job>>
  <2>1. stage' = "decide" /\ transfer' = transfer /\ job' = job /\ ~transfer.open /\ job = "idle"
    BY <1>4 DEF JournalUnread, storeVars, bootVars, BootAll, BootInv, StageInv, Up
  <2>2. session' = NoSession /\ gate' = "none" /\ ~Up'
    BY <2>1 DEF ElsewhereOrRestart, Up
  <2>3. SessionMatchesStore' /\ VerifiedStaysStaged' /\ GateIsHeld'
    BY <2>1, <2>2, NoSessionIsSession DEF SessionMatchesStore, VerifiedStaysStaged, GateIsHeld
  <2> QED
    BY <2>1, <2>2, <2>3, NoSessionIsSession DEF SessionInv
<1> QED
  BY <1>1, <1>2, <1>3, <1>4 DEF PowerCut, ChipRestart, JournalUnread

(* Steps of the others leave the boot, the store and the session alone. *)
LEMMA OthersKeep ==
  ASSUME SessionInv, UNCHANGED <<vars, session>>,
         gate' = gate \/ (gate # "config" /\ gate' \in {"none", "other"}), Up \/ gate' = gate
  PROVE  SessionInv'
<1>1. /\ flash' = flash /\ transfer' = transfer /\ active' = active /\ job' = job /\ Up' = Up
      /\ session' = session
  BY DEF vars, storeVars, bootVars, Up
<1>2. StagedCheck' = StagedCheck
  BY <1>1, SameChecks
<1>3. SessionMatchesStore' /\ VerifiedStaysStaged' /\ GateIsHeld'
  BY <1>1, <1>2 DEF SessionInv, SessionMatchesStore, VerifiedStaysStaged, GateIsHeld
<1> QED
  BY <1>1, <1>3 DEF SessionInv

(* Every step with a session keeps what is said of it, and is a step of    *)
(* the boot, the health task and the worker, or none.                      *)
LEMMA TransferStepsBoot ==
  ASSUME SlotsInv, BootAll, SessionInv, [TransferNext]_transferVars
  PROVE  SessionInv' /\ [BootNext]_vars
<1>1. CASE UNCHANGED transferVars
  BY <1>1, OthersKeep DEF transferVars
<1>2. CASE (PowerCut \/ JournalUnread \/ Boot \/ Health) /\ ElsewhereOrRestart
  BY <1>2, ElsewhereKeeps DEF BootNext
<1>3. CASE StartCut
  <2>1. /\ session.base \in Revisions /\ WorkerBeginCut(session.base) /\ ElsewhereOrRestart
        /\ Down(nvs) /\ transfer' = Closed
    BY <1>3 DEF StartCut, SessionInv, Session, WorkerBeginCut, StoreBeginCut, Restarted
  <2>2. BootNext
    BY <2>1 DEF BootNext, Commands
  <2> QED
    BY <2>1, <2>2, SessionLost
<1>4. CASE Requests
  <2> SUFFICES ASSUME NEW seq \in Sequences, NEW id \in TransferIds,
                      \/ \E base \in Revisions, length \in 0..(MaxBlocks + 1) :
                           BeginRequest(seq, id, base, length)
                      \/ \E part \in Parts, sha \in Documents : DigestRequest(seq, id, part, sha)
                      \/ StartRequest(seq, id)
                      \/ \E offset \in 0..MaxBlocks, data \in Chunks :
                           ChunkRequest(seq, id, offset, data)
                      \/ VerifyRequest(seq, id)
                      \/ CommitRequest(seq, id)
                      \/ AbortRequest(seq, id)
               PROVE  SessionInv' /\ [BootNext]_vars
    BY <1>4 DEF Requests
  <2>1. CASE \E base \in Revisions, length \in 0..(MaxBlocks + 1) : BeginRequest(seq, id, base, length)
    BY <2>1, BeginRequestKeeps
  <2>2. CASE \E part \in Parts, sha \in Documents : DigestRequest(seq, id, part, sha)
    BY <2>2, DigestRequestKeeps
  <2>3. CASE StartRequest(seq, id)
    BY <2>3, StartRequestKeeps DEF BootNext, Commands
  <2>4. CASE \E offset \in 0..MaxBlocks, data \in Chunks : ChunkRequest(seq, id, offset, data)
    BY <2>4, ChunkRequestKeeps DEF BootNext, Commands
  <2>5. CASE VerifyRequest(seq, id)
    BY <2>5, VerifyRequestKeeps
  <2>6. CASE CommitRequest(seq, id)
    BY <2>6, CommitRequestKeeps DEF BootNext, Commands
  <2>7. CASE AbortRequest(seq, id)
    BY <2>7, AbortRequestKeeps DEF BootNext, Commands
  <2> QED
    BY <2>1, <2>2, <2>3, <2>4, <2>5, <2>6, <2>7
<1>5. CASE CommitGoesOn
  BY <1>5, CommitGoesOnKeeps DEF BootNext, Committing
<1>6. CASE InactivityAbort
  BY <1>6, InactivityAbortKeeps DEF BootNext, Commands
<1>7. CASE Deadline
  <2>1. SessionInv'
    BY <1>7, SessionLost DEF Deadline, AppliedRestart, ChipRestart, RestartOn, StoreReset, Restarted
  <2> QED
    BY <1>7, <2>1 DEF Deadline, BootNext, Committing
<1>8. CASE OtherTask
  BY <1>8, OthersKeep DEF OtherTask, Claim, Release
<1>9. CASE PhoneStops \/ TenMinutes \/ PhoneReturns
  BY <1>9, OthersKeep DEF PhoneStops, TenMinutes, PhoneReturns
<1> QED
  BY <1>1, <1>2, <1>3, <1>4, <1>5, <1>6, <1>7, <1>8, <1>9 DEF TransferNext

(* The invariants of any run with a session *)
LEMMA SessionInvariant ==
  TransferInit /\ [][TransferNext]_transferVars => [](SlotsInv /\ BootAll /\ SessionInv)
<1>1. TransferInit => SlotsInv /\ BootAll /\ SessionInv
  <2> SUFFICES ASSUME TransferInit PROVE SlotsInv /\ BootAll /\ SessionInv
    OBVIOUS
  <2>1. SlotsInv /\ BootAll
    BY InitBoot DEF TransferInit
  <2>2. /\ session = NoSession /\ gate = "none" /\ job = "idle" /\ ~transfer.open
        /\ session \in Session /\ session.phase = "IDLE"
    BY NoSessionIsSession DEF TransferInit, BootInit, StoreInit, Closed
  <2>3. SessionInv
    BY <2>2 DEF SessionInv, SessionMatchesStore, VerifiedStaysStaged, GateIsHeld
  <2> QED
    BY <2>1, <2>3
<1>2. /\ SlotsInv /\ BootAll /\ SessionInv
      /\ [TransferNext]_transferVars
      => (SlotsInv /\ BootAll /\ SessionInv)'
  BY TransferStepsBoot, BootStepKeeps
<1> QED
  BY <1>1, <1>2, PTL

(* The same of TransferSpec *)
LEMMA SessionAlways == TransferSpec => [](SlotsInv /\ BootAll /\ SessionInv)
BY SessionInvariant, PTL DEF TransferSpec

-----------------------------------------------------------------------------
(* The theorems of the session.                                            *)

(* Whatever a phone sends, in whatever order, the session makes only the   *)
(* steps that the boot's theorems are about: a commit is of a transfer     *)
(* that passed VERIFY, and of the revision after its base.                 *)
THEOREM SessionImplementsBoot == TransferSpec => BootSafety
<1>1. TransferInit => BootInit
  BY DEF TransferInit
<1>2. (SlotsInv /\ BootAll /\ SessionInv) /\ [TransferNext]_transferVars => [BootNext]_vars
  BY TransferStepsBoot
<1> QED
  BY <1>1, <1>2, SessionAlways, PTL DEF TransferSpec, BootSafety

(* The phone and the store never disagree on what has been received.       *)
THEOREM SessionAlwaysMatches == TransferSpec => []SessionMatchesStore
<1>1. SessionInv => SessionMatchesStore
  BY DEF SessionInv
<1> QED
  BY <1>1, SessionAlways, PTL

(* What VERIFY accepted stays acceptable until it is committed or given up. *)
THEOREM VerifiedAlwaysStaged == TransferSpec => []VerifiedStaysStaged
<1>1. SessionInv => VerifiedStaysStaged
  BY DEF SessionInv
<1> QED
  BY <1>1, SessionAlways, PTL

(* The session has the gate exactly while it lasts, its restart included.  *)
THEOREM GateAlwaysHeld == TransferSpec => []GateIsHeld
<1>1. SessionInv => GateIsHeld
  BY DEF SessionInv
<1> QED
  BY <1>1, SessionAlways, PTL

(* Until its marker is written a transfer changes nothing for a restart,   *)
(* when the boot scan can read its slots.                                  *)
THEOREM UncommittedNeverChanges ==
  ASSUME "scan" \notin Faults
  PROVE  TransferSpec => []UncommittedChangesNothing
<1>1. SlotsInv /\ BootAll => UncommittedChangesNothing
  BY AloneIsNext
<1> QED
  BY <1>1, SessionAlways, PTL

(* With a session the boot keeps what it promises: what runs stays whole,  *)
(* and for a patient phone, on a flash that can be read and written, the   *)
(* journal and the trial bit tell the truth about what was not confirmed,  *)
(* up to what a boot that cannot read the journal forgets.                 *)
THEOREM SessionKeepsPromises ==
  /\ TransferSpec => []RunningIsKept
  /\ Patient => (TransferSpec => []TrialBitIsTruthful)
  /\ Careful => (TransferSpec => [](UntestedIsJournalled /\ FailureIsJournalled))
<1>1. SlotsInv /\ BootAll => RunningIsKept
  BY RunsKept
<1>2. TransferSpec => []RunningIsKept
  BY <1>1, SessionAlways, PTL
<1>3. ASSUME Patient PROVE TransferSpec => []TrialBitIsTruthful
  <2>1. SlotsInv /\ BootAll => TrialBitIsTruthful
    BY <1>3, TruthfulBit
  <2> QED
    BY <2>1, SessionAlways, PTL
<1>4. ASSUME Careful PROVE TransferSpec => [](UntestedIsJournalled /\ FailureIsJournalled)
  <2>1. SlotsInv /\ BootAll => UntestedIsJournalled /\ FailureIsJournalled
    BY <1>4 DEF BootAll, UntestedInv, FailedInv, Careful
  <2> QED
    BY <2>1, SessionAlways, PTL
<1> QED
  BY <1>2, <1>3, <1>4
=============================================================================
