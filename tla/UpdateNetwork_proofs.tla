------------------------- MODULE UpdateNetwork_proofs --------------------------
(***************************************************************************)
(* Proofs about OtaTransfer and WifiBulk: for images, chunks and queues of *)
(* any size, any number of updates and networks, and every set of faults.  *)
(*                                                                         *)
(* The argument about an update goes once round the life of an image.  What*)
(* the worker writes it writes to the slot that does not run, and only     *)
(* before the image is selected; it starts to write only while the running *)
(* image is not on trial.  An image is selected only when the accepted     *)
(* prefix of its slot is a signed one, and the slot it was started from is *)
(* then valid and signed too, which is what a trial falls back on.  A      *)
(* selection that is stored though it is reported as failed leaves the slot*)
(* that does not run selected, and a later update may then begin there: it *)
(* is the only way in which a selected slot is overwritten.                *)
(*                                                                         *)
(* The temporary network implements WifiSessions, its adapters follow it,  *)
(* and no signal of an older session closes it.  The first two need to know*)
(* what holds at each place of the control worker (PlaceInv); the last that*)
(* a session that starts has a generation larger than every session that a *)
(* client or a signal can still name (SessionsInv).                        *)
(***************************************************************************)
EXTENDS OtaTransfer, WifiBulk, TLAPS

-----------------------------------------------------------------------------
(* The firmware update: ota_transfer.c, ota_health.c                         *)

\* What a slot must hold for the boot loader
Genuine(contents) ==
  \E n \in 1..MaxBlocks : n <= Len(contents) /\ SubSeq(contents, 1, n) \in Signed

SlotTypes ==
  /\ flash \in [Slots -> Seq(Blocks)] /\ state \in [Slots -> States]
  /\ boot \in Slots /\ running \in Slots /\ health \in {"none", "polling"}
  /\ overwritten \in BOOLEAN

WorkerTypes ==
  /\ ota \in Session /\ requests \in Seq(Origins) /\ work \in Origins
  /\ gate \in {"none", "ota", "wifi", "other"} /\ active \in BOOLEAN /\ generation \in Nat

\* What has been announced and accepted of the image, by phase
Accepted ==
  /\ ota.phase # "IDLE" => ota.length \in 1..MaxBlocks
  /\ ota.phase = "METADATA" => ota.accepted = 0
  /\ ota.phase \in {"RECEIVING", "READY", "ACTIVATING"} =>
       ota.signature \in Signed /\ ota.accepted <= Len(flash[Target])
  /\ ota.phase = "READY" => Genuine(flash[Target])

\* The slots across a restart: the running image is genuine, kept or on trial; on
\* trial it has a kept one to fall back on and no update writes there; and a slot
\* that is selected but does not run holds a genuine image that no update writes,
\* unless one began in it.
SlotsInv ==
  /\ Genuine(flash[running]) /\ state[running] \in {"VALID", "PENDING"}
  /\ OtaTrialPending =>
       /\ ota.phase \in {"IDLE", "METADATA"}
       /\ Genuine(flash[Target]) /\ state[Target] = "VALID"
  /\ \/ boot = running /\ ~overwritten
     \/ /\ boot = Target /\ state[Target] = "NEW"
        /\ overwritten \/ (Genuine(flash[Target]) /\ ota.phase # "RECEIVING")
  /\ ota.phase = "ACTIVATING" => boot = Target /\ ~overwritten

\* The inductive invariant
OtaInv == SlotTypes /\ WorkerTypes /\ GateIsUpdates /\ Accepted /\ SlotsInv

-----------------------------------------------------------------------------
LEMMA SlotsAre ==
  /\ Slots = {"ota_0", "ota_1"}
  /\ \A s \in Slots : OtherSlot(s) \in Slots /\ OtherSlot(s) # s /\ OtherSlot(OtherSlot(s)) = s
  /\ \A s \in Slots : \A t \in Slots : t = s \/ t = OtherSlot(s)
  BY DEF Slots, OtherSlot

(* An image is a sequence of blocks, of at least one and no more than the bound. *)
LEMMA ImageIsSeq ==
  ASSUME NEW image \in Images
  PROVE  image \in Seq(Blocks) /\ Len(image) \in 1..MaxBlocks
<1>1. PICK n \in 0..MaxBlocks : image \in [1..n -> Blocks]
  BY DEF Images, BoundedSeq, SeqOf
<1>2. image \in Seq(Blocks) /\ Len(image) = n /\ n \in Nat /\ image # <<>>
  BY <1>1, FirmwareAssumption DEF Images
<1>3. n # 0
  BY <1>2
<1> QED
  BY <1>2, <1>3, FirmwareAssumption

LEMMA NoImageIsSeq == NoImage \in Seq(Blocks)
  BY DEF NoImage

(* A signed image is genuine. *)
LEMMA SignedIsGenuine ==
  ASSUME NEW image \in Signed
  PROVE  Genuine(image) /\ image \in Seq(Blocks)
<1>1. image \in Seq(Blocks) /\ Len(image) \in 1..MaxBlocks
  BY ImageIsSeq, FirmwareAssumption
<1>2. SubSeq(image, 1, Len(image)) = image
  BY <1>1
<1>3. Len(image) <= Len(image)
  BY <1>1
<1>4. SubSeq(image, 1, Len(image)) \in Signed
  BY <1>2
<1> QED
  BY <1>1, <1>3, <1>4, Zenon DEF Genuine

(* The session that is none, and the origin that is none *)
LEMMA RestingSession ==
  NoSession \in Session /\ NoSession.phase = "IDLE" /\ Bluetooth \in Origins
<1>1. 0 \in 0..MaxBlocks
  BY FirmwareAssumption
<1> QED
  BY <1>1 DEF NoSession, Session, OtaPhases, Bluetooth, Origins

(* An update that is aborted *)
LEMMA AbortedSession ==
  ASSUME OtaInv, AbortTransfer
  PROVE  /\ ota' \in Session /\ ota'.phase = "IDLE" /\ gate' # "ota"
         /\ gate' \in {"none", "ota", "wifi", "other"}
  BY RestingSession DEF AbortTransfer, Release, OtaInv, WorkerTypes

(* An image in the slot that runs is signed, nothing else is known. *)
LEMMA OtaStarts == OtaInit => OtaInv
<1> SUFFICES ASSUME OtaInit PROVE OtaInv
  OBVIOUS
<1>1. PICK image \in Signed : flash = [s \in Slots |-> IF s = "ota_0" THEN image ELSE NoImage]
  BY DEF OtaInit, FirmwareInit
<1>2. /\ state = [s \in Slots |-> IF s = "ota_0" THEN "VALID" ELSE "INVALID"]
      /\ boot = "ota_0" /\ running = "ota_0" /\ health = "none" /\ overwritten = FALSE /\ ota = NoSession
      /\ requests = <<>> /\ work = Bluetooth /\ gate = "none" /\ active = FALSE /\ generation = 0
  BY DEF OtaInit, FirmwareInit, SessionsInit
<1>3. SlotTypes
  BY <1>1, <1>2, SlotsAre, SignedIsGenuine, NoImageIsSeq DEF SlotTypes, States
<1>4. WorkerTypes
  <2>1. requests \in Seq(Origins) /\ generation \in Nat
    BY <1>2
  <2>2. active \in BOOLEAN
    BY <1>2, Zenon
  <2> QED
    BY <1>2, <2>1, <2>2, RestingSession DEF WorkerTypes
<1>5. Accepted /\ GateIsUpdates
  BY <1>2, RestingSession DEF Accepted, GateIsUpdates
<1>6. SlotsInv
  BY <1>1, <1>2, SlotsAre, SignedIsGenuine, RestingSession DEF SlotsInv, OtaTrialPending
<1> QED
  BY <1>3, <1>4, <1>5, <1>6 DEF OtaInv

(* A step that leaves the slots, and what is known of the image, keeps the invariant. *)
LEMMA QuietStep ==
  ASSUME OtaInv, UNCHANGED firmwareVars, WorkerTypes', gate' = "ota" <=> gate = "ota",
         ota'.phase = ota.phase, ota'.length = ota.length, ota'.signature = ota.signature,
         ota'.accepted = ota.accepted
  PROVE  OtaInv'
  BY DEF OtaInv, SlotTypes, GateIsUpdates, Accepted, SlotsInv, OtaTrialPending, Target, firmwareVars

(* So does one that aborts the update before it is activated. *)
LEMMA AbortStep ==
  ASSUME OtaInv, UNCHANGED firmwareVars, AbortTransfer, ota.phase # "ACTIVATING",
         requests' \in Seq(Origins), work' \in Origins, UNCHANGED sessionFlags
  PROVE  OtaInv'
<1>1. /\ ota' \in Session /\ ota'.phase = "IDLE" /\ gate' # "ota"
      /\ gate' \in {"none", "ota", "wifi", "other"}
  BY AbortedSession
<1>2. WorkerTypes'
  BY <1>1 DEF OtaInv, WorkerTypes, sessionFlags
<1> QED
  BY <1>1, <1>2
  DEF OtaInv, SlotTypes, GateIsUpdates, Accepted, SlotsInv, OtaTrialPending, Target, firmwareVars

(* After a restart there is no update. *)
LEMMA DownRests ==
  ASSUME OtaDown
  PROVE  WorkerTypes' /\ Accepted' /\ GateIsUpdates' /\ ota'.phase = "IDLE"
<1>1. requests' \in Seq(Origins) /\ generation' \in Nat
  BY DEF OtaDown, Reset
<1>2. active' \in BOOLEAN
  BY Zenon DEF OtaDown, Reset
<1>3. WorkerTypes' /\ ota'.phase = "IDLE" /\ gate' = "none"
  BY <1>1, <1>2, RestingSession DEF OtaDown, WorkerTypes
<1> QED
  BY <1>3 DEF Accepted, GateIsUpdates

(* A restart: an image selected runs on trial, one on trial is given up. *)
LEMMA ImageRestart ==
  ASSUME OtaInv, OtaDown,
         NEW from \in Slots, NEW states \in [Slots -> States], Bootloader(from, states), flash' = flash,
         \/ from = boot /\ states = state /\ (overwritten => Genuine(flash[boot])) /\ overwritten' = FALSE
         \/ /\ OtaTrialPending /\ from = Target /\ states = [state EXCEPT ![running] = "INVALID"]
            /\ overwritten' = overwritten
  PROVE  OtaInv'
<1> DEFINE slot == IF states[from] = "PENDING" THEN OtherSlot(from) ELSE from
<1>1. /\ boot' = slot /\ running' = slot /\ slot \in Slots /\ health' \in {"none", "polling"}
      /\ state' = [s \in Slots |->
                     CASE s = from /\ states[s] = "PENDING" -> "INVALID"
                       [] s = slot /\ states[s] = "NEW" -> "PENDING"
                       [] OTHER -> states[s]]
  BY SlotsAre DEF Bootloader
<1>2. SlotTypes'
  BY <1>1 DEF SlotTypes, States, OtaInv
<1>3. WorkerTypes' /\ ota'.phase = "IDLE"
  BY DownRests
<1>4. Accepted' /\ GateIsUpdates'
  BY DownRests
<1>5. SlotsInv'
  BY <1>1, <1>3, SlotsAre DEF OtaInv, SlotsInv, SlotTypes, OtaTrialPending, Target
<1> QED
  BY <1>2, <1>3, <1>4, <1>5 DEF OtaInv

(* A restart that finds no image in a selected slot that was overwritten: the   *)
(* image that ran runs again.                                                   *)
LEMMA OtherRestart ==
  ASSUME OtaInv, OtaDown, overwritten, running' = OtherSlot(boot), health' = "none",
         UNCHANGED <<flash, boot, state, overwritten>>
  PROVE  OtaInv'
<1>1. running' = running /\ Target' = Target /\ ~OtaTrialPending
  BY SlotsAre DEF OtaInv, SlotTypes, SlotsInv, OtaTrialPending, Target
<1>2. SlotTypes'
  BY <1>1 DEF OtaInv, SlotTypes
<1>3. WorkerTypes' /\ Accepted' /\ GateIsUpdates' /\ ota'.phase = "IDLE"
  BY DownRests
<1>4. SlotsInv'
  BY <1>1, <1>3 DEF OtaInv, SlotsInv, OtaTrialPending
<1> QED
  BY <1>2, <1>3, <1>4 DEF OtaInv

-----------------------------------------------------------------------------
(* What a request carries *)
LEMMA BodyTypes ==
  ASSUME NEW b \in Bodies
  PROVE  /\ b.id \in TransferIds
         /\ b.op = "BEGIN" => b.length \in 1..MaxBlocks
         /\ b.op = "DIGEST" => b.image \in Images
         /\ b.op = "SIGNATURE" => b.image \in Signed
         /\ b.op = "CHUNK" => b.offset \in Nat /\ b.data \in Images
  BY OtaAssumption, FirmwareAssumption DEF Bodies

(* An announcement: BEGIN claims the gate, the rest completes it. *)
LEMMA AnnouncedKeeps ==
  ASSUME OtaInv, NEW b \in Bodies,
         \/ b.op = "BEGIN" /\ Begin(b)
         \/ b.op = "DIGEST" /\ Digest(b)
         \/ b.op = "SIGNATURE" /\ Signature(b),
         requests' = requests, work' \in Origins, UNCHANGED sessionFlags
  PROVE  OtaInv'
<1> USE FirmwareAssumption DEF OtaInv
<1>1. CASE b.op = "BEGIN" /\ Begin(b)
  <2>1. ota' = [NoSession EXCEPT !.phase = "METADATA", !.owned = work.owned,
                                 !.generation = work.generation, !.id = b.id, !.length = b.length]
    BY <1>1 DEF Begin
  <2>2. /\ ota' \in Session /\ ota'.phase = "METADATA" /\ ota'.length \in 1..MaxBlocks
        /\ ota'.accepted = 0
    <3>1. ota' = [phase |-> "METADATA", owned |-> work.owned, generation |-> work.generation,
                  id |-> b.id, length |-> b.length, accepted |-> 0, digest |-> NoImage,
                  signature |-> NoImage, open |-> FALSE, over |-> FALSE]
      BY <2>1 DEF NoSession
    <3>2. work.owned \in BOOLEAN /\ work.generation \in Nat /\ b.length \in 1..MaxBlocks
          /\ b.length \in 0..MaxBlocks /\ 0 \in 0..MaxBlocks
      BY <1>1, BodyTypes DEF WorkerTypes, Origins
    <3> QED
      BY <3>1, <3>2, BodyTypes DEF Session, OtaPhases
  <2>3. /\ gate' = "ota" /\ ota.phase = "IDLE" /\ UNCHANGED firmwareVars
    BY <1>1 DEF Begin, BeginFits, Claim
  <2>4. WorkerTypes'
    BY <2>2, <2>3 DEF WorkerTypes, sessionFlags
  <2> QED
    BY <2>2, <2>3, <2>4
    DEF SlotTypes, GateIsUpdates, Accepted, SlotsInv, OtaTrialPending, Target, firmwareVars
<1>2. ASSUME ota.phase = "METADATA",
             ota' \in Session, ota'.phase = ota.phase, ota'.length = ota.length, ota'.accepted = ota.accepted,
             gate' = gate, UNCHANGED firmwareVars
      PROVE  OtaInv'
  <2>1. WorkerTypes'
    BY <1>2 DEF WorkerTypes, sessionFlags
  <2> QED
    BY <1>2, <2>1
    DEF SlotTypes, GateIsUpdates, Accepted, SlotsInv, OtaTrialPending, Target, firmwareVars
<1>3. CASE b.op = "DIGEST" /\ Digest(b)
  <2>1. ota' = [ota EXCEPT !.digest = b.image] /\ ota.phase = "METADATA" /\ gate' = gate
        /\ UNCHANGED firmwareVars
    BY <1>3 DEF Digest, DigestFits
  <2>2. ota' \in Session /\ ota'.phase = ota.phase /\ ota'.length = ota.length
        /\ ota'.accepted = ota.accepted
    BY <1>3, <2>1, BodyTypes DEF WorkerTypes, Session
  <2> QED
    BY <1>2, <2>1, <2>2
<1>4. CASE b.op = "SIGNATURE" /\ Signature(b)
  <2>1. ota' = [ota EXCEPT !.signature = b.image] /\ ota.phase = "METADATA" /\ gate' = gate
        /\ UNCHANGED firmwareVars
    BY <1>4 DEF Signature, SignatureFits
  <2>2. ota' \in Session /\ ota'.phase = ota.phase /\ ota'.length = ota.length
        /\ ota'.accepted = ota.accepted
    BY <1>4, <2>1, BodyTypes DEF WorkerTypes, Session
  <2> QED
    BY <1>2, <2>1, <2>2
<1> QED
  BY <1>1, <1>3, <1>4

(* The slot is erased, unless the running image is on trial. *)
LEMMA StartKeeps ==
  ASSUME OtaInv, NEW b \in Bodies, Start(b),
         requests' = requests, work' \in Origins, UNCHANGED sessionFlags
  PROVE  OtaInv'
<1> USE FirmwareAssumption DEF OtaInv
<1>1. ota.phase = "METADATA" /\ ota.signature # NoImage /\ gate' = gate
  BY DEF Start, StartFits
<1>2. CASE EraseSlot(Target) /\ ota' = [ota EXCEPT !.phase = "RECEIVING", !.open = TRUE]
  <2>1. /\ ~OtaTrialPending /\ flash' = [flash EXCEPT ![Target] = NoImage]
        /\ IF Target = boot THEN overwritten' = TRUE /\ state' = state
                            ELSE state' = [state EXCEPT ![Target] = "INVALID"] /\ overwritten' = overwritten
        /\ UNCHANGED <<boot, running, health>>
    BY <1>2, Zenon DEF EraseSlot
  <2>2. /\ ota' \in Session /\ ota'.phase = "RECEIVING" /\ ota'.signature \in Signed
        /\ ota'.length = ota.length /\ ota'.accepted = ota.accepted
    BY <1>1, <1>2 DEF WorkerTypes, Session, OtaPhases
  <2>3. SlotTypes'
    <3>1. overwritten' \in {TRUE, overwritten}
      BY <2>1, Zenon
    <3>2. overwritten' \in BOOLEAN
      BY <3>1 DEF SlotTypes
    <3>3. state' \in [Slots -> States]
      BY <2>1, SlotsAre DEF SlotTypes, States, Target
    <3> QED
      BY <2>1, <3>2, <3>3, SlotsAre, NoImageIsSeq DEF SlotTypes, Target
  <2>4. WorkerTypes' /\ GateIsUpdates'
    BY <1>1, <2>2 DEF WorkerTypes, GateIsUpdates, sessionFlags
  <2> QED
    BY <2>1, <2>2, <2>3, <2>4, <1>1, SlotsAre
    DEF Accepted, SlotsInv, SlotTypes, OtaTrialPending, Target
<1>3. CASE UNCHANGED <<firmwareVars, ota>>
  <2>1. WorkerTypes'
    BY <1>1, <1>3 DEF WorkerTypes, sessionFlags
  <2> QED
    BY <1>1, <1>3, <2>1, QuietStep
<1> QED
  BY <1>2, <1>3 DEF Start

(* A chunk is appended to the slot that does not run. *)
LEMMA ChunkKeeps ==
  ASSUME OtaInv, NEW b \in Bodies, b.op = "CHUNK", Chunk(b),
         requests' = requests, work' \in Origins, UNCHANGED sessionFlags
  PROVE  OtaInv'
<1> USE FirmwareAssumption DEF OtaInv
<1>1. /\ ota.phase = "RECEIVING" /\ gate' = gate /\ b.data \in Seq(Blocks) /\ Len(b.data) \in Nat
      /\ b.offset = ota.accepted /\ Len(b.data) <= ota.length - b.offset /\ b.offset \in Nat
      /\ ~OtaTrialPending
  <2>1. b.data \in Seq(Blocks) /\ Len(b.data) \in Nat /\ b.offset \in Nat
    BY BodyTypes, ImageIsSeq
  <2> QED
    BY <2>1 DEF Chunk, ChunkFits, ChunkExtends, SlotsInv
<1>2. ASSUME NEW done \in BOOLEAN, Written(b, done) PROVE OtaInv'
  <2>1. /\ flash' = [flash EXCEPT ![Target] = flash[Target] \o b.data]
        /\ UNCHANGED <<state, boot, running, health, overwritten>>
        /\ ota' = IF done THEN [ota EXCEPT !.accepted = ota.accepted + Len(b.data)] ELSE ota
    BY <1>2 DEF Written, WriteSlot
  <2>2. Target \in Slots /\ Target # running /\ flash[Target] \in Seq(Blocks) /\ Len(flash[Target]) \in Nat
    BY SlotsAre DEF Target, SlotTypes
  <2>3. /\ flash'[Target] \in Seq(Blocks) /\ Len(flash'[Target]) = Len(flash[Target]) + Len(b.data)
        /\ flash'[running] = flash[running] /\ flash' \in [Slots -> Seq(Blocks)]
    <3>1. /\ flash[Target] \o b.data \in Seq(Blocks)
          /\ Len(flash[Target] \o b.data) = Len(flash[Target]) + Len(b.data)
      BY <1>1, <2>2
    <3> QED
      BY <2>1, <2>2, <3>1 DEF SlotTypes
  <2>4. /\ ota' \in Session /\ ota'.phase = ota.phase /\ ota'.length = ota.length
        /\ ota'.signature = ota.signature
        /\ ota'.accepted \in {ota.accepted, ota.accepted + Len(b.data)}
    <3>1. ota.accepted \in 0..MaxBlocks /\ ota.length \in 0..MaxBlocks
      BY DEF WorkerTypes, Session
    <3>2. ota.accepted + Len(b.data) \in 0..MaxBlocks
      BY <1>1, <3>1
    <3> QED
      BY <2>1, <3>2 DEF WorkerTypes, Session
  <2>5. SlotTypes' /\ WorkerTypes' /\ GateIsUpdates'
    BY <1>1, <2>1, <2>3, <2>4 DEF SlotTypes, WorkerTypes, GateIsUpdates, sessionFlags
  <2>6. ota'.accepted <= Len(flash'[Target])
    <3>1. ota.accepted \in Nat /\ ota.accepted <= Len(flash[Target])
      BY <1>1 DEF WorkerTypes, Session, Accepted
    <3> DEFINE a == ota.accepted
               l == Len(flash[Target])
               d == Len(b.data)
    <3>2. a \in Nat /\ l \in Nat /\ d \in Nat /\ a <= l
      BY <1>1, <2>2, <3>1
    <3>3. Len(flash'[Target]) = l + d /\ ota'.accepted \in {a, a + d}
      BY <2>3, <2>4
    <3> HIDE DEF a, l, d
    <3>4. a <= l + d /\ a + d <= l + d
      BY <3>2
    <3> QED
      BY <3>3, <3>4
  <2>7. Target' = Target
    BY <2>1 DEF Target
  <2>8. Accepted'
    BY <1>1, <2>4, <2>6, <2>7 DEF Accepted
  <2>9. SlotsInv'
    BY <1>1, <2>1, <2>3, <2>4, <2>7, SlotsAre DEF SlotsInv, OtaTrialPending, SlotTypes
  <2> QED
    BY <2>5, <2>8, <2>9
<1>3. CASE UNCHANGED <<firmwareVars, ota>>
  <2>1. WorkerTypes'
    BY <1>1, <1>3 DEF WorkerTypes, sessionFlags
  <2> QED
    BY <1>1, <1>3, <2>1, QuietStep
<1> QED
  BY <1>2, <1>3 DEF Chunk

(* The image is found to be whole and signed, or it stays as it was. *)
LEMMA VerifyKeeps ==
  ASSUME OtaInv, NEW b \in Bodies, Verify(b),
         requests' = requests, work' \in Origins, UNCHANGED sessionFlags
  PROVE  OtaInv'
<1> USE FirmwareAssumption DEF OtaInv
<1>1. ota.phase = "RECEIVING" /\ gate' = gate /\ UNCHANGED firmwareVars
  BY DEF Verify, VerifyFits
<1>2. CASE ImageVerified /\ ota' = [ota EXCEPT !.phase = "READY", !.open = FALSE]
  <2>1. Genuine(flash[Target])
    <3>1. /\ ota.length \in 1..MaxBlocks /\ ota.length <= Len(flash[Target])
          /\ SubSeq(flash[Target], 1, ota.length) \in Signed
      BY <1>1, <1>2 DEF ImageVerified, Accepted
    <3> QED
      BY <3>1, Zenon DEF Genuine
  <2>2. /\ ota' \in Session /\ ota'.phase = "READY" /\ ota'.length = ota.length
        /\ ota'.signature = ota.signature /\ ota'.accepted = ota.accepted
    BY <1>2 DEF WorkerTypes, Session, OtaPhases
  <2>3. WorkerTypes'
    BY <1>1, <2>2 DEF WorkerTypes, sessionFlags
  <2> QED
    BY <1>1, <2>1, <2>2, <2>3
    DEF SlotTypes, GateIsUpdates, Accepted, SlotsInv, OtaTrialPending, Target, firmwareVars
<1>3. CASE ota' \in {ota, [ota EXCEPT !.open = FALSE]}
  <2>1. /\ ota' \in Session /\ ota'.phase = ota.phase /\ ota'.length = ota.length
        /\ ota'.signature = ota.signature /\ ota'.accepted = ota.accepted
    BY <1>3 DEF WorkerTypes, Session
  <2>2. WorkerTypes'
    BY <1>1, <2>1 DEF WorkerTypes, sessionFlags
  <2> QED
    BY <1>1, <2>1, <2>2, QuietStep
<1> QED
  BY <1>1, <1>2, <1>3 DEF Verify

(* The image is selected, and the running one is kept. *)
LEMMA ActivateKeeps ==
  ASSUME OtaInv, NEW b \in Bodies, Activate(b),
         requests' = requests, work' \in Origins, UNCHANGED sessionFlags
  PROVE  OtaInv'
<1> USE FirmwareAssumption DEF OtaInv
<1>1. ota.phase = "READY" /\ gate' = gate
  BY DEF Activate, ActivateFits
<1>2. CASE SelectSlot(Target) /\ ota' \in {ota, [ota EXCEPT !.phase = "ACTIVATING"]}
  <2>1. /\ boot' = Target /\ state' = [state EXCEPT ![Target] = "NEW"] /\ overwritten' = FALSE
        /\ UNCHANGED <<flash, running, health>>
    BY <1>2 DEF SelectSlot
  <2>2. /\ ota' \in Session /\ ota'.phase \in {"READY", "ACTIVATING"} /\ ota'.length = ota.length
        /\ ota'.signature = ota.signature /\ ota'.accepted = ota.accepted
    BY <1>1, <1>2 DEF WorkerTypes, Session, OtaPhases
  <2>3. SlotTypes'
    BY <2>1, SlotsAre DEF SlotTypes, States, Target
  <2>4. WorkerTypes' /\ GateIsUpdates'
    BY <1>1, <2>2 DEF WorkerTypes, GateIsUpdates, sessionFlags
  <2>5. Accepted'
    BY <1>1, <2>1, <2>2 DEF Accepted, Target
  <2>6. SlotsInv'
    BY <1>1, <2>1, <2>2, SlotsAre DEF SlotsInv, Accepted, SlotTypes, OtaTrialPending, Target
  <2> QED
    BY <2>3, <2>4, <2>5, <2>6
<1>3. CASE UNCHANGED <<firmwareVars, ota>>
  <2>1. WorkerTypes'
    BY <1>1, <1>3 DEF WorkerTypes, sessionFlags
  <2> QED
    BY <1>1, <1>3, <2>1, QuietStep
<1> QED
  BY <1>2, <1>3, Zenon DEF Activate

(* A request is performed. *)
LEMMA PerformKeeps == OtaInv /\ Perform => OtaInv'
<1> SUFFICES ASSUME OtaInv, Perform PROVE OtaInv'
  OBVIOUS
<1>1. work' \in Origins /\ requests' = requests /\ UNCHANGED sessionFlags
  BY RestingSession DEF Perform
<1>2. ASSUME NEW b \in Bodies, Operation(b) PROVE OtaInv'
  <2>1. CASE b.op = "ABORT" /\ Abort(b)
    <3>1. requests' \in Seq(Origins)
      BY <1>1 DEF OtaInv, WorkerTypes
    <3> QED
      BY <1>1, <2>1, <3>1, AbortStep DEF Abort, AbortFits
  <2> QED
    BY <1>1, <1>2, <2>1, AnnouncedKeeps, StartKeeps, ChunkKeeps, VerifyKeeps, ActivateKeeps DEF Operation
<1>3. CASE UNCHANGED <<firmwareVars, ota, gate>>
  <2>1. WorkerTypes'
    BY <1>1, <1>3 DEF OtaInv, WorkerTypes, sessionFlags
  <2> QED
    BY <1>3, <2>1, QuietStep
<1> QED
  BY <1>2, <1>3 DEF Perform

(* A request is taken, which may end an update whose session is over. *)
LEMMA TakeKeeps == OtaInv /\ TakeRequest => OtaInv'
<1> SUFFICES ASSUME OtaInv, TakeRequest PROVE OtaInv'
  OBVIOUS
<1>1. PICK origin \in {Bluetooth, IF requests # <<>> THEN Head(requests) ELSE Bluetooth} :
        LET stale == origin.owned /\ ~SessionCurrent(origin.generation)
        IN /\ requests' = IF origin.owned THEN Tail(requests) ELSE requests
           /\ IF Lost THEN AbortTransfer
                      ELSE ota' = [ota EXCEPT !.over = @ /\ (stale \/ ota.phase = "ACTIVATING")] /\ UNCHANGED gate
           /\ IF stale THEN step' = "tail" /\ UNCHANGED work
                       ELSE step' = "perform" /\ work' = origin
  BY DEF TakeRequest
<1>2. UNCHANGED <<firmwareVars, sessionFlags>>
  BY DEF TakeRequest
<1>3. requests' \in Seq(Origins) /\ work' \in Origins
  <2>1. requests \in Seq(Origins) /\ work \in Origins
    BY DEF OtaInv, WorkerTypes
  <2>2. requests # <<>> => Head(requests) \in Origins /\ Tail(requests) \in Seq(Origins)
    BY <2>1
  <2>3. origin.owned => requests # <<>>
    BY <1>1 DEF Bluetooth
  <2>4. origin \in Origins
    BY <1>1, <2>2, RestingSession
  <2> QED
    BY <1>1, <2>1, <2>2, <2>3, <2>4
<1>4. CASE Lost /\ AbortTransfer
  BY <1>2, <1>3, <1>4, AbortStep DEF Lost, Unfinished
<1>5. CASE gate' = gate /\ \E over \in BOOLEAN : ota' = [ota EXCEPT !.over = over]
  <2>1. /\ ota' \in Session /\ ota'.phase = ota.phase /\ ota'.length = ota.length
        /\ ota'.signature = ota.signature /\ ota'.accepted = ota.accepted
    BY <1>5 DEF OtaInv, WorkerTypes, Session
  <2>2. WorkerTypes'
    BY <1>2, <1>3, <1>5, <2>1 DEF OtaInv, WorkerTypes, sessionFlags
  <2> QED
    BY <1>2, <1>5, <2>1, <2>2, QuietStep
<1>6. CASE ~Lost
  <2> DEFINE stale == origin.owned /\ ~SessionCurrent(origin.generation)
             over  == ota.over /\ (stale \/ ota.phase = "ACTIVATING")
  <2>1. ota' = [ota EXCEPT !.over = over] /\ gate' = gate
    BY <1>1, <1>6
  <2>2. over \in BOOLEAN
    OBVIOUS
  <2> QED
    BY <1>5, <2>1, <2>2
<1> QED
  BY <1>1, <1>4, <1>6

(* The worker looks after the request. *)
LEMMA LookKeeps == OtaInv /\ (LookAfter \/ NoRequestCame) => OtaInv'
<1> SUFFICES ASSUME OtaInv, LookAfter \/ NoRequestCame PROVE OtaInv'
  OBVIOUS
<1>1. UNCHANGED <<firmwareVars, requests, work, sessionFlags>>
  BY DEF LookAfter, NoRequestCame
<1>2. requests' \in Seq(Origins) /\ work' \in Origins
  BY <1>1 DEF OtaInv, WorkerTypes
<1>3. CASE Abandons /\ AbortTransfer
  BY <1>1, <1>2, <1>3, AbortStep DEF Abandons, Lost, Unfinished
<1>4. CASE UNCHANGED <<ota, gate>>
  <2>1. WorkerTypes'
    BY <1>1, <1>4 DEF OtaInv, WorkerTypes, sessionFlags
  <2> QED
    BY <1>1, <1>4, <2>1, QuietStep
<1> QED
  BY <1>3, <1>4 DEF LookAfter, NoRequestCame

(* Every restart: after an activation, a power cut, or the health task's verdict *)
LEMMA RestartsKeep == OtaInv /\ (ActivationRestart \/ PowerCut \/ (HealthGivesUp /\ OtaDown)) => OtaInv'
<1> SUFFICES ASSUME OtaInv, ActivationRestart \/ PowerCut \/ (HealthGivesUp /\ OtaDown) PROVE OtaInv'
  OBVIOUS
<1>1. boot \in Slots /\ Target \in Slots /\ state \in [Slots -> States]
      /\ [state EXCEPT ![running] = "INVALID"] \in [Slots -> States]
  BY SlotsAre DEF OtaInv, SlotTypes, Target, States
<1>2. CASE FirmwareRestart /\ OtaDown
  <2>1. CASE (overwritten => SignedSlot(boot)) /\ Bootloader(boot, state) /\ overwritten' = FALSE
    BY <1>1, <1>2, <2>1, ImageRestart DEF FirmwareRestart, SignedSlot, Genuine
  <2>2. CASE overwritten /\ running' = OtherSlot(boot) /\ health' = "none"
             /\ UNCHANGED <<boot, state, overwritten>>
    BY <1>2, <2>2, OtherRestart DEF FirmwareRestart
  <2> QED
    BY <1>2, <2>1, <2>2 DEF FirmwareRestart
<1>3. CASE HealthGivesUp /\ OtaDown
  BY <1>1, <1>3, ImageRestart DEF HealthGivesUp, Rollback, Target
<1> QED
  BY <1>2, <1>3 DEF ActivationRestart, PowerCut

(* The running image is kept. *)
LEMMA HealthKeepsInvariant ==
  OtaInv /\ HealthKeeps /\ UNCHANGED <<ota, workerVars, gate, sessionFlags>> => OtaInv'
<1> SUFFICES ASSUME OtaInv, HealthKeeps, UNCHANGED <<ota, workerVars, gate, sessionFlags>> PROVE OtaInv'
  OBVIOUS
<1>1. /\ state' = [state EXCEPT ![running] = "VALID"] /\ health' = "none"
      /\ UNCHANGED <<flash, boot, running, overwritten>>
  BY DEF HealthKeeps
<1>2. SlotTypes'
  BY <1>1 DEF OtaInv, SlotTypes, States
<1>3. WorkerTypes' /\ GateIsUpdates' /\ Accepted'
  BY <1>1 DEF OtaInv, WorkerTypes, GateIsUpdates, Accepted, Target, sessionFlags, workerVars
<1>4. SlotsInv'
  BY <1>1, SlotsAre DEF OtaInv, SlotsInv, SlotTypes, OtaTrialPending, Target
<1> QED
  BY <1>2, <1>3, <1>4 DEF OtaInv

(* Time, the network, a request and the other users of the gate *)
LEMMA SurroundingsKeep ==
  OtaInv /\ (TimePasses \/ NetworkChanges \/ RequestArrives \/ OtherTask) => OtaInv'
<1> SUFFICES ASSUME OtaInv, TimePasses \/ NetworkChanges \/ RequestArrives \/ OtherTask PROVE OtaInv'
  OBVIOUS
<1>1. CASE TimePasses
  <2>1. /\ ota' \in Session /\ ota'.phase = ota.phase /\ ota'.length = ota.length
        /\ ota'.signature = ota.signature /\ ota'.accepted = ota.accepted
    BY <1>1 DEF TimePasses, OtaInv, WorkerTypes, Session
  <2>2. UNCHANGED <<firmwareVars, workerVars, gate, sessionFlags>>
    BY <1>1 DEF TimePasses
  <2>3. WorkerTypes'
    BY <2>1, <2>2 DEF OtaInv, WorkerTypes, workerVars, sessionFlags
  <2> QED
    BY <2>1, <2>2, <2>3, QuietStep
<1>2. CASE NetworkChanges
  <2>1. UNCHANGED <<firmwareVars, ota, workerVars, gate>>
    BY <1>2 DEF NetworkChanges
  <2>2. active' \in BOOLEAN /\ generation' \in Nat
    <3>1. active \in BOOLEAN /\ generation \in Nat
      BY DEF OtaInv, WorkerTypes
    <3>2. active' \in {active, TRUE, FALSE}
      BY <1>2, Zenon DEF NetworkChanges, Open, Retire, Departs
    <3>3. generation' \in {generation, generation + 1}
      BY <1>2, Zenon DEF NetworkChanges, Open, Retire, Departs
    <3>4. active' \in BOOLEAN
      BY <3>1, <3>2
    <3> QED
      BY <3>1, <3>3, <3>4
  <2>3. WorkerTypes'
    BY <2>1, <2>2 DEF OtaInv, WorkerTypes, workerVars
  <2> QED
    BY <2>1, <2>3, QuietStep
<1>3. CASE RequestArrives
  <2>1. UNCHANGED <<firmwareVars, ota, work, step, gate, sessionFlags>>
    BY <1>3 DEF RequestArrives
  <2>2. requests' \in {requests, Append(requests, [owned |-> TRUE, generation |-> generation])}
    BY <1>3 DEF RequestArrives, WifiRequest
  <2>3. requests' \in Seq(Origins)
    <3>1. [owned |-> TRUE, generation |-> generation] \in Origins /\ requests \in Seq(Origins)
      BY DEF Origins, OtaInv, WorkerTypes
    <3> QED
      BY <2>2, <3>1
  <2>4. WorkerTypes'
    BY <2>1, <2>3 DEF OtaInv, WorkerTypes, sessionFlags
  <2> QED
    BY <2>1, <2>4, QuietStep
<1>4. CASE OtherTask
  <2>1. UNCHANGED <<firmwareVars, ota, workerVars, sessionFlags>> /\ gate # "ota"
        /\ gate' \in {"none", "other"}
    BY <1>4 DEF OtherTask, Claim, Release
  <2>2. WorkerTypes'
    BY <2>1 DEF OtaInv, WorkerTypes, workerVars, sessionFlags
  <2> QED
    BY <2>1, <2>2, QuietStep
<1> QED
  BY <1>1, <1>2, <1>3, <1>4

(* Every step keeps the invariant. *)
LEMMA OtaKeeps == OtaInv /\ [OtaNext]_otaVars => OtaInv'
<1> SUFFICES ASSUME OtaInv, [OtaNext]_otaVars PROVE OtaInv'
  OBVIOUS
<1>1. CASE UNCHANGED otaVars
  <2>1. UNCHANGED <<firmwareVars, ota, requests, work, gate, sessionFlags>>
    BY <1>1 DEF otaVars, workerVars
  <2>2. WorkerTypes'
    BY <2>1 DEF OtaInv, WorkerTypes, sessionFlags
  <2> QED
    BY <2>1, <2>2, QuietStep
<1>2. CASE OtaWorker \/ PowerCut
  <2>1. \/ TakeRequest \/ Perform \/ NoRequestCame \/ LookAfter \/ ActivationRestart \/ PowerCut
    BY <1>2, Zenon DEF OtaWorker
  <2>2. CASE TakeRequest \/ Perform
    BY <2>2, PerformKeeps, TakeKeeps, Zenon
  <2>3. CASE NoRequestCame \/ LookAfter
    BY <2>3, LookKeeps
  <2>4. CASE ActivationRestart \/ PowerCut
    BY <2>4, RestartsKeep
  <2> QED
    BY <2>1, <2>2, <2>3, <2>4
<1>3. CASE Health
  BY <1>3, RestartsKeep, HealthKeepsInvariant, Zenon DEF Health
<1>4. CASE TimePasses \/ NetworkChanges \/ RequestArrives \/ OtherTask
  BY <1>4, SurroundingsKeep, Zenon
<1> QED
  BY <1>1, <1>2, <1>3, <1>4, Zenon DEF OtaNext

\* The queue of the Wi-Fi server holds no more than it has room for, and no slot
\* more than an update may write.
SizesInv ==
  /\ \A s \in Slots : Len(flash[s]) <= MaxBlocks + Spare
  /\ Len(requests) <= QueueLength /\ step \in {"wait", "perform", "tail"}

(* What an operation leaves in the slots. *)
LEMMA FlashIs ==
  ASSUME OtaInv, NEW b \in Bodies, Operation(b)
  PROVE  \/ flash' = flash
         \/ flash' = [flash EXCEPT ![Target] = NoImage]
         \/ /\ Len(flash[Target]) + Len(b.data) <= MaxBlocks + Spare /\ b.data \in Seq(Blocks)
            /\ flash' = [flash EXCEPT ![Target] = @ \o b.data]
<1>1. CASE b.op = "BEGIN" /\ Begin(b)
  BY <1>1 DEF Begin, firmwareVars
<1>2. CASE b.op = "DIGEST" /\ Digest(b)
  BY <1>2 DEF Digest, firmwareVars
<1>3. CASE b.op = "SIGNATURE" /\ Signature(b)
  BY <1>3 DEF Signature, firmwareVars
<1>4. CASE b.op = "START" /\ Start(b)
  BY <1>4 DEF Start, EraseSlot, firmwareVars
<1>5. CASE b.op = "CHUNK" /\ Chunk(b)
  <2>1. b.data \in Seq(Blocks)
    BY <1>5, BodyTypes, ImageIsSeq
  <2>2. CASE UNCHANGED firmwareVars
    BY <2>2 DEF firmwareVars
  <2>3. CASE Written(b, TRUE) \/ Written(b, FALSE)
    BY <2>1, <2>3 DEF Written, WriteSlot
  <2> QED
    BY <1>5, <2>2, <2>3 DEF Chunk
<1>6. CASE b.op = "VERIFY" /\ Verify(b)
  BY <1>6 DEF Verify, firmwareVars
<1>7. CASE b.op = "ACTIVATE" /\ Activate(b)
  BY <1>7 DEF Activate, SelectSlot, firmwareVars
<1>8. CASE b.op = "ABORT" /\ Abort(b)
  BY <1>8 DEF Abort, firmwareVars
<1> QED
  BY <1>1, <1>2, <1>3, <1>4, <1>5, <1>6, <1>7, <1>8, Zenon DEF Operation

(* No step writes more into a slot, or puts more into the queue, than fits. *)
LEMMA SizesKept == OtaInv /\ SizesInv /\ [OtaNext]_otaVars => SizesInv'
<1> SUFFICES ASSUME OtaInv, SizesInv, [OtaNext]_otaVars PROVE SizesInv'
  OBVIOUS
<1> USE FirmwareAssumption, OtaAssumption
<1>1. /\ flash \in [Slots -> Seq(Blocks)] /\ Target \in Slots
      /\ requests \in Seq(Origins) /\ Len(requests) \in Nat /\ QueueLength \in Nat
  BY SlotsAre DEF OtaInv, SlotTypes, WorkerTypes, Target
<1>2. CASE Perform
  <2>1. step' = "tail" /\ requests' = requests
    BY <1>2 DEF Perform
  <2>2. \A s \in Slots : Len(flash'[s]) <= MaxBlocks + Spare
    <3>1. CASE \E b \in Bodies : Operation(b)
      <4>1. PICK b \in Bodies : Operation(b)
        BY <3>1
      <4>2. CASE flash' = flash
        BY <4>2 DEF SizesInv
      <4>3. CASE flash' = [flash EXCEPT ![Target] = NoImage]
        BY <1>1, <4>3 DEF SizesInv, NoImage
      <4>4. ASSUME Len(flash[Target]) + Len(b.data) <= MaxBlocks + Spare, b.data \in Seq(Blocks),
                   flash' = [flash EXCEPT ![Target] = @ \o b.data]
            PROVE  \A s \in Slots : Len(flash'[s]) <= MaxBlocks + Spare
        <5>1. flash[Target] \in Seq(Blocks)
          BY <1>1
        <5>2. Len(flash[Target] \o b.data) = Len(flash[Target]) + Len(b.data)
          BY <4>4, <5>1
        <5>3. \A s \in Slots : flash'[s] = IF s = Target THEN flash[Target] \o b.data ELSE flash[s]
          BY <1>1, <4>4
        <5> QED
          BY <4>4, <5>2, <5>3 DEF SizesInv
      <4> QED
        BY <4>1, <4>2, <4>3, <4>4, FlashIs
    <3>2. CASE UNCHANGED firmwareVars
      BY <3>2 DEF firmwareVars, SizesInv
    <3> QED
      BY <1>2, <3>1, <3>2, Zenon DEF Perform
  <2> QED
    BY <2>1, <2>2 DEF SizesInv
<1>3. CASE TakeRequest
  <2>1. flash' = flash /\ step' \in {"perform", "tail"} /\ requests' \in {requests, Tail(requests)}
    BY <1>3 DEF TakeRequest, firmwareVars
  <2>2. Len(requests') <= QueueLength
    <3>1. CASE requests = <<>>
      <4>1. requests' = requests
        BY <1>3, <3>1 DEF TakeRequest, Bluetooth
      <4> QED
        BY <4>1 DEF SizesInv
    <3>2. CASE requests # <<>>
      BY <1>1, <2>1, <3>2 DEF SizesInv
    <3> QED
      BY <3>1, <3>2
  <2> QED
    BY <2>1, <2>2 DEF SizesInv
<1>4. CASE NoRequestCame \/ LookAfter \/ TimePasses \/ NetworkChanges \/ OtherTask \/ UNCHANGED otaVars
  <2>1. flash' = flash /\ requests' = requests /\ step' \in {step, "wait", "tail"}
    BY <1>4 DEF NoRequestCame, LookAfter, TimePasses, NetworkChanges, OtherTask, otaVars, firmwareVars, workerVars
  <2> QED
    BY <2>1 DEF SizesInv
<1>5. CASE ActivationRestart \/ PowerCut \/ (HealthGivesUp /\ OtaDown)
  <2>1. flash' = flash /\ requests' = <<>> /\ step' = "wait"
    BY <1>5 DEF ActivationRestart, PowerCut, HealthGivesUp, OtaDown, FirmwareRestart, Rollback
  <2> QED
    BY <1>1, <2>1 DEF SizesInv
<1>6. CASE HealthKeeps /\ UNCHANGED <<ota, workerVars, gate, sessionFlags>>
  BY <1>6 DEF HealthKeeps, workerVars, SizesInv
<1>7. CASE RequestArrives
  <2>1. flash' = flash /\ step' = step
    BY <1>7 DEF RequestArrives, firmwareVars
  <2>2. CASE requests' = requests
    BY <2>1, <2>2 DEF SizesInv
  <2>3. CASE requests' = Append(requests, [owned |-> TRUE, generation |-> generation]) /\ Len(requests) < QueueLength
    <3>1. Len(requests') = Len(requests) + 1
      BY <1>1, <2>3
    <3> QED
      BY <1>1, <2>1, <2>3, <3>1 DEF SizesInv
  <2> QED
    BY <1>7, <2>2, <2>3 DEF RequestArrives, WifiRequest
<1> QED
  BY <1>2, <1>3, <1>4, <1>5, <1>6, <1>7, Zenon DEF OtaNext, OtaWorker, Health

LEMMA OtaTypesFollow == OtaInv /\ SizesInv => OtaTypeOK
<1> SUFFICES ASSUME OtaInv, SizesInv PROVE OtaTypeOK
  OBVIOUS
<1>1. SlotTypes /\ WorkerTypes
  BY DEF OtaInv
<1>2. ASSUME NEW s \in Slots PROVE flash[s] \in Contents
  <2>1. flash[s] \in Seq(Blocks) /\ Len(flash[s]) <= MaxBlocks + Spare
    BY <1>1 DEF SlotTypes, SizesInv
  <2>2. flash[s] \in [1..Len(flash[s]) -> Blocks] /\ Len(flash[s]) \in 0..(MaxBlocks + Spare)
    BY <2>1, FirmwareAssumption
  <2> QED
    BY <2>2 DEF Contents, BoundedSeq, SeqOf
<1> QED
  BY <1>1, <1>2 DEF SlotTypes, WorkerTypes, SizesInv, OtaTypeOK

LEMMA OtaSizesStart == OtaInit => SizesInv
<1> SUFFICES ASSUME OtaInit PROVE SizesInv
  OBVIOUS
<1>1. PICK image \in Signed : flash = [s \in Slots |-> IF s = "ota_0" THEN image ELSE NoImage]
  BY DEF OtaInit, FirmwareInit
<1>2. Len(image) \in 1..MaxBlocks /\ Len(NoImage) = 0 /\ MaxBlocks \in Nat /\ Spare \in Nat
  BY ImageIsSeq, FirmwareAssumption DEF NoImage
<1>3. \A s \in Slots : Len(flash[s]) <= MaxBlocks + Spare
  BY <1>1, <1>2
<1>4. Len(requests) = 0 /\ step = "wait"
  BY DEF OtaInit
<1> QED
  BY <1>3, <1>4, OtaAssumption DEF SizesInv

(* The variables of the update have their types: above all the queue of its     *)
(* requests does not overflow (ota_transfer_wifi_command).                      *)
THEOREM OtaTypeCorrect == OtaSpec => []OtaTypeOK
  BY OtaStarts, OtaSizesStart, OtaKeeps, SizesKept, OtaTypesFollow, PTL DEF OtaSpec

(* An update has the transfer gate from its announcement until it is aborted or *)
(* the chip restarts (ota_transfer.c).                                          *)
THEOREM UpdatesHaveGate == OtaSpec => []GateIsUpdates
<1>1. OtaInv => GateIsUpdates
  BY DEF OtaInv
<1> QED
  BY OtaStarts, OtaKeeps, <1>1, PTL DEF OtaSpec

(* Whatever arrives and whatever fails, the slot that would be started holds an *)
(* image with a signature, and an image on trial has one to fall back on, except*)
(* while an update has begun in a selected slot (ota_transfer.c).               *)
THEOREM AlwaysBootsSigned == OtaSpec => []BootsSigned
<1>1. OtaInv => BootsSigned
  <2> SUFFICES ASSUME OtaInv PROVE BootsSigned
    OBVIOUS
  <2>1. \A s \in Slots : SignedSlot(s) <=> Genuine(flash[s])
    BY DEF SignedSlot, Genuine
  <2>2. boot \in Slots /\ Target \in Slots /\ (~overwritten => Genuine(flash[boot]))
    BY SlotsAre DEF OtaInv, SlotTypes, SlotsInv, Target
  <2> QED
    BY <2>1, <2>2 DEF BootsSigned, OtaInv, SlotsInv, Target
<1> QED
  BY OtaStarts, OtaKeeps, <1>1, PTL DEF OtaSpec

\* Only the selected slot of an update that is activated does not run.
SelectedRuns == ~overwritten /\ (boot = running \/ ota.phase = "ACTIVATING")

(* Where a selection that is reported as failed was not stored, nothing selects *)
(* a slot that an update may still write.                                       *)
LEMMA SelectedStays ==
  ASSUME "select" \notin Faults, OtaInv, SelectedRuns, [OtaNext]_otaVars
  PROVE  SelectedRuns'
<1>1. boot \in Slots /\ running \in Slots /\ Target # running /\ overwritten \in BOOLEAN
  BY SlotsAre DEF OtaInv, SlotTypes, Target
<1>2. ASSUME UNCHANGED firmwareVars, ota.phase = "ACTIVATING" => ota'.phase = "ACTIVATING"
      PROVE  SelectedRuns'
  BY <1>2 DEF SelectedRuns, firmwareVars
<1>3. ASSUME NEW b \in Bodies, Operation(b) PROVE SelectedRuns'
  <2>1. CASE b.op = "BEGIN" /\ Begin(b)
    BY <1>2, <2>1 DEF Begin, BeginFits
  <2>2. CASE b.op = "DIGEST" /\ Digest(b)
    BY <1>2, <2>2 DEF Digest, DigestFits
  <2>3. CASE b.op = "SIGNATURE" /\ Signature(b)
    BY <1>2, <2>3 DEF Signature, SignatureFits
  <2>4. CASE b.op = "START" /\ Start(b)
    <3>1. ota.phase = "METADATA" /\ boot = running
      BY <2>4 DEF Start, StartFits, SelectedRuns
    <3>2. CASE EraseSlot(Target)
      BY <1>1, <3>1, <3>2 DEF EraseSlot, SelectedRuns
    <3> QED
      BY <1>2, <2>4, <3>1, <3>2 DEF Start
  <2>5. CASE b.op = "CHUNK" /\ Chunk(b)
    <3>1. ota.phase = "RECEIVING" /\ boot = running
      BY <2>5 DEF Chunk, ChunkFits, SelectedRuns
    <3>2. UNCHANGED <<boot, running, overwritten>>
      BY <2>5 DEF Chunk, Written, WriteSlot, firmwareVars
    <3> QED
      BY <3>1, <3>2 DEF SelectedRuns
  <2>6. CASE b.op = "VERIFY" /\ Verify(b)
    BY <1>2, <2>6 DEF Verify, VerifyFits
  <2>7. CASE b.op = "ACTIVATE" /\ Activate(b)
    <3>1. CASE SelectSlot(Target) /\ ota' = [ota EXCEPT !.phase = "ACTIVATING"]
      <4>1. ota'.phase = "ACTIVATING"
        BY <3>1 DEF OtaInv, WorkerTypes, Session
      <4> QED
        BY <3>1, <4>1 DEF SelectSlot, SelectedRuns
    <3> QED
      BY <1>2, <2>7, <3>1 DEF Activate
  <2>8. CASE b.op = "ABORT" /\ Abort(b)
    BY <1>2, <2>8 DEF Abort, AbortFits
  <2> QED
    BY <1>3, <2>1, <2>2, <2>3, <2>4, <2>5, <2>6, <2>7, <2>8, Zenon DEF Operation
<1>4. CASE Perform
  <2>1. CASE UNCHANGED <<firmwareVars, ota, gate>>
    BY <1>2, <2>1
  <2> QED
    BY <1>3, <1>4, <2>1 DEF Perform
<1>5. CASE ActivationRestart \/ PowerCut \/ (HealthGivesUp /\ OtaDown)
  <2>1. CASE FirmwareRestart
    <3>1. boot' = running' /\ overwritten' = FALSE
      <4>1. Bootloader(boot, state) /\ overwritten' = FALSE
        BY <2>1 DEF FirmwareRestart, SelectedRuns
      <4>2. boot' = running'
        BY <4>1 DEF Bootloader
      <4> QED
        BY <4>1, <4>2
    <3> QED
      BY <3>1 DEF SelectedRuns
  <2>2. CASE HealthGivesUp
    <3>1. boot' = running' /\ overwritten' = overwritten
      BY <2>2, Zenon DEF HealthGivesUp, Rollback, Bootloader
    <3> QED
      BY <3>1 DEF SelectedRuns
  <2> QED
    BY <1>5, <2>1, <2>2 DEF ActivationRestart, PowerCut
<1>6. CASE HealthKeeps /\ UNCHANGED <<ota, workerVars, gate, sessionFlags>>
  BY <1>6 DEF HealthKeeps, SelectedRuns
<1>7. CASE TakeRequest \/ LookAfter
  <2>1. UNCHANGED firmwareVars
    BY <1>7 DEF TakeRequest, LookAfter
  <2>2. ota.phase = "ACTIVATING" => ota'.phase = "ACTIVATING"
    <3>1. ASSUME ota.phase = "ACTIVATING" PROVE ~Lost /\ ~Abandons
      BY <3>1 DEF Lost, Abandons, Unfinished
    <3>2. CASE LookAfter
      BY <3>1, <3>2 DEF LookAfter
    <3>3. CASE TakeRequest
      <4>1. ~Lost => \E over \in {TRUE, FALSE, ota.over} : ota' = [ota EXCEPT !.over = over]
        BY <3>3 DEF TakeRequest
      <4> QED
        BY <3>1, <4>1 DEF OtaInv, WorkerTypes, Session
    <3> QED
      BY <1>7, <3>2, <3>3
  <2> QED
    BY <1>2, <2>1, <2>2
<1>8. CASE NoRequestCame \/ TimePasses \/ NetworkChanges \/ RequestArrives \/ OtherTask \/ UNCHANGED otaVars
  <2>1. UNCHANGED firmwareVars
    BY <1>8 DEF NoRequestCame, TimePasses, NetworkChanges, RequestArrives, OtherTask, otaVars
  <2>2. ota' \in {ota, [ota EXCEPT !.over = TRUE]}
    BY <1>8 DEF NoRequestCame, TimePasses, NetworkChanges, RequestArrives, OtherTask, otaVars
  <2>3. ota'.phase = ota.phase
    BY <2>2 DEF OtaInv, WorkerTypes, Session
  <2> QED
    BY <1>2, <2>1, <2>3
<1> QED
  BY <1>4, <1>5, <1>6, <1>7, <1>8, Zenon DEF OtaNext, OtaWorker, Health

(* If a selection that is reported as failed was never stored, no update begins *)
(* in a selected slot: the exception of AlwaysBootsSigned needs that failure of *)
(* esp_ota_set_boot_partition.                                                  *)
THEOREM SelectedNeverOverwritten == ASSUME "select" \notin Faults PROVE OtaSpec => []~overwritten
<1>1. OtaInit => SelectedRuns
  BY DEF OtaInit, FirmwareInit, SelectedRuns
<1>2. OtaInv /\ SelectedRuns /\ [OtaNext]_otaVars => SelectedRuns'
  BY SelectedStays
<1>3. SelectedRuns => ~overwritten
  BY DEF SelectedRuns
<1> QED
  BY OtaStarts, OtaKeeps, <1>1, <1>2, <1>3, PTL DEF OtaSpec

-----------------------------------------------------------------------------
(* The temporary network: wifi_bulk.c, wifi_bulk_policy.c                    *)

NetTypes ==
  /\ active \in BOOLEAN /\ generation \in Nat /\ gate \in {"none", "ota", "wifi", "other"}
  /\ net \in Net /\ commands \in Seq({"OPEN", "CLOSE"}) /\ Len(commands) <= MaxCommands
  /\ control \in {"wait", "open", "claimed", "start", "started", "stop", "stopped", "look"}
  /\ paused \in BOOLEAN /\ client \in Client /\ abandoned \in Nat /\ departed \in BOOLEAN

\* What holds at each place of the control worker
PlaceInv ==
  /\ control \in {"wait", "look", "stop", "open", "claimed"} => (paused <=> active)
  /\ control \in {"start", "started"} => paused
  /\ control \in {"started", "stopped"} => ~active
  /\ control \in {"open", "claimed", "start", "started"} => net.phase = "STARTING"
  /\ control \in {"wait", "look"} =>
       (net.phase = "READY" => active) /\ (net.phase = "OFF" => ~active)

\* No session is newer than the generation; at the start of one all are older;
\* and a signal that names the session of the network is of a client of it.
SessionsInv ==
  /\ net.session <= generation /\ client.session <= generation /\ abandoned <= generation
  /\ control = "started" => client.session < generation /\ abandoned < generation
  /\ net.phase = "READY" /\ abandoned # NoSessionId /\ abandoned = net.session => departed

\* The inductive invariant
WifiInv == NetTypes /\ PlaceInv /\ SessionsInv

-----------------------------------------------------------------------------
LEMMA RestingNetwork ==
  /\ NoClient \in Client /\ NoClient.session = 0 /\ ~NoClient.asked /\ NoSessionId = 0
  /\ \A p \in NetPhases : Cleared(p) \in Net /\ Cleared(p).phase = p /\ Cleared(p).session = 0
                          /\ ~Cleared(p).expired
  BY DEF NoClient, Client, Cleared, Net, NoSessionId

(* The network is off when the program starts. *)
LEMMA WifiStarts == WifiInit => WifiInv
<1> SUFFICES ASSUME WifiInit PROVE WifiInv
  OBVIOUS
<1>1. /\ net \in Net /\ net.phase = "OFF" /\ net.session = 0 /\ client = NoClient
      /\ commands = <<>> /\ control = "wait" /\ paused = FALSE /\ active = FALSE /\ generation = 0
      /\ abandoned = 0 /\ departed = FALSE /\ gate = "none"
  BY RestingNetwork DEF WifiInit, SessionsInit, NetPhases
<1>2. commands \in Seq({"OPEN", "CLOSE"}) /\ Len(commands) <= MaxCommands
  BY <1>1, WifiAssumption
<1>3. NetTypes
  BY <1>1, <1>2, RestingNetwork DEF NetTypes
<1>4. PlaceInv
  BY <1>1 DEF PlaceInv
<1>5. SessionsInv
  BY <1>1, RestingNetwork DEF SessionsInv
<1> QED
  BY <1>3, <1>4, <1>5 DEF WifiInv

(* The control worker *)
LEMMA ControlKeeps ==
  ASSUME WifiInv, Control
  PROVE  WifiInv'
<1> USE DEF WifiInv
<1> USE RestingNetwork DEF NetPhases
<1>1. CASE TakeCommand
  <2>1. /\ Tail(commands) \in Seq({"OPEN", "CLOSE"}) /\ Len(Tail(commands)) <= MaxCommands
    BY <1>1, WifiAssumption DEF TakeCommand, NetTypes
  <2>2. /\ net' \in Net /\ net'.session = net.session
        /\ net'.phase = IF Head(commands) = "OPEN" THEN "STARTING" ELSE "OFF"
        /\ control' = IF Head(commands) = "OPEN" THEN "open" ELSE "stop"
        /\ commands' = Tail(commands) /\ control = "wait"
        /\ UNCHANGED <<gate, sessionFlags, paused, client, abandoned, departed>>
    BY <1>1 DEF TakeCommand, NetTypes, Net
  <2> QED
    BY <2>1, <2>2 DEF NetTypes, PlaceInv, SessionsInv, sessionFlags
<1>2. CASE OpenRefused
  <2>1. net' = Cleared("FAILED")
    BY <1>2 DEF OpenRefused
  <2>2. net' \in Net /\ net'.phase = "FAILED" /\ net'.session = 0
    BY <2>1
  <2> QED
    BY <1>2, <2>2 DEF OpenRefused, Release, NetTypes, PlaceInv, SessionsInv, sessionFlags
<1>3. CASE OpenClaims
  BY <1>3 DEF OpenClaims, Claim, NetTypes, PlaceInv, SessionsInv, sessionFlags
<1>4. CASE OpenAllowed
  BY <1>4 DEF OpenAllowed, Release, NetTypes, PlaceInv, SessionsInv, sessionFlags
<1>5. CASE StartRetires
  <2>1. net.session \in Nat /\ client.session \in Nat
    BY DEF NetTypes, Net, Client
  <2>2. NetTypes'
    <3>1. active' \in BOOLEAN
      BY <1>5, Zenon DEF StartRetires, RetireSession
    <3>2. generation' \in Nat /\ UNCHANGED <<gate, net, commands, paused, client, abandoned, departed>>
      BY <1>5 DEF StartRetires, RetireSession, NetTypes
    <3> QED
      BY <1>5, <3>1, <3>2 DEF StartRetires, NetTypes
  <2>3. PlaceInv'
    BY <1>5, <2>1 DEF StartRetires, RetireSession, NetTypes, PlaceInv, sessionFlags
  <2>4. SessionsInv'
    BY <1>5, <2>1 DEF StartRetires, RetireSession, NetTypes, SessionsInv, sessionFlags
  <2> QED
    BY <2>2, <2>3, <2>4
<1>6. CASE NetworkReady
  <2>1. net' \in Net /\ net'.phase = "READY" /\ net'.session = generation
    BY <1>6 DEF NetworkReady, NetTypes, Net
  <2>2. NetTypes'
    BY <1>6, <2>1 DEF NetworkReady, NetTypes, sessionFlags
  <2>3. PlaceInv'
    BY <1>6, <2>1 DEF NetworkReady, NetTypes, PlaceInv, sessionFlags
  <2>4. SessionsInv'
    BY <1>6, <2>1 DEF NetworkReady, NetTypes, SessionsInv, sessionFlags
  <2> QED
    BY <2>2, <2>3, <2>4
<1>7. CASE NetworkFails
  <2>1. net' = Cleared("FAILED")
    BY <1>7 DEF NetworkFails
  <2>2. net' \in Net /\ net'.phase = "FAILED" /\ net'.session = 0
    BY <2>1
  <2>3. NetTypes'
    BY <1>7, <2>2 DEF NetworkFails, NetTypes, sessionFlags
  <2>4. PlaceInv'
    BY <1>7, <2>2 DEF NetworkFails, NetTypes, PlaceInv, sessionFlags
  <2>5. SessionsInv'
    BY <1>7, <2>2 DEF NetworkFails, NetTypes, SessionsInv, sessionFlags
  <2> QED
    BY <2>3, <2>4, <2>5
<1>8. CASE StopRetires
  <2>1. net.session \in Nat /\ client.session \in Nat
    BY DEF NetTypes, Net, Client
  <2>2. NetTypes'
    <3>1. active' \in BOOLEAN
      BY <1>8, Zenon DEF StopRetires, RetireSession
    <3>2. generation' \in Nat /\ UNCHANGED <<gate, net, commands, paused, client, abandoned, departed>>
      BY <1>8 DEF StopRetires, RetireSession, NetTypes
    <3> QED
      BY <1>8, <3>1, <3>2 DEF StopRetires, NetTypes
  <2>3. PlaceInv'
    BY <1>8, <2>1 DEF StopRetires, RetireSession, NetTypes, PlaceInv, sessionFlags
  <2>4. SessionsInv'
    BY <1>8, <2>1 DEF StopRetires, RetireSession, NetTypes, SessionsInv, sessionFlags
  <2> QED
    BY <2>2, <2>3, <2>4
<1>9. CASE StopEnds
  <2>1. net' = Cleared("OFF")
    BY <1>9 DEF StopEnds
  <2>2. net' \in Net /\ net'.phase = "OFF" /\ net'.session = 0
    BY <2>1
  <2>3. NetTypes'
    BY <1>9, <2>2 DEF StopEnds, NetTypes, sessionFlags
  <2>4. PlaceInv'
    BY <1>9, <2>2 DEF StopEnds, NetTypes, PlaceInv, sessionFlags
  <2>5. SessionsInv'
    BY <1>9, <2>2 DEF StopEnds, NetTypes, SessionsInv, sessionFlags
  <2> QED
    BY <2>3, <2>4, <2>5
<1>10. CASE Look
  BY <1>10 DEF Look, NetTypes, PlaceInv, SessionsInv, sessionFlags
<1> QED
  BY <1>1, <1>2, <1>3, <1>4, <1>5, <1>6, <1>7, <1>8, <1>9, <1>10 DEF Control

(* The phone, the server, time, the other users of the gate, and a restart *)
LEMMA OthersKeep ==
  ASSUME WifiInv,
         \/ \E command \in {"OPEN", "CLOSE"} : NetCommand(command)
         \/ SessionExpires \/ StationLeaves \/ Accept \/ Frame \/ ClientEnds
         \/ OthersGate \/ ChipRestarts
  PROVE  WifiInv'
<1> USE RestingNetwork DEF WifiInv
<1>1. ASSUME NEW command \in {"OPEN", "CLOSE"}, NetCommand(command) PROVE WifiInv'
  <2>1. commands' \in Seq({"OPEN", "CLOSE"}) /\ Len(commands') <= MaxCommands
    BY <1>1, WifiAssumption DEF NetCommand, NetTypes
  <2> QED
    BY <1>1, <2>1 DEF NetCommand, NetTypes, PlaceInv, SessionsInv, sessionFlags
<1>2. CASE SessionExpires
  <2>1. net' \in Net /\ net'.phase = net.phase /\ net'.session = net.session
    BY <1>2 DEF SessionExpires, NetTypes, Net
  <2> QED
    BY <1>2, <2>1 DEF SessionExpires, NetTypes, PlaceInv, SessionsInv, sessionFlags
<1>3. CASE StationLeaves
  BY <1>3 DEF StationLeaves, netVars, NetTypes, PlaceInv, SessionsInv, Client, Net
<1>4. CASE Accept
  <2>1. client' \in Client /\ client'.session = net.session
    BY <1>4 DEF Accept, NetTypes, Client, Net
  <2> QED
    BY <1>4, <2>1 DEF Accept, NetTypes, PlaceInv, SessionsInv, sessionFlags
<1>5. CASE Frame
  <2>1. client' \in Client /\ client'.session = client.session
    BY <1>5 DEF Frame, NetTypes, Client
  <2> QED
    BY <1>5, <2>1 DEF Frame, NetTypes, PlaceInv, SessionsInv, sessionFlags
<1>6. CASE ClientEnds
  <2>1. /\ generation' \in {generation, generation + 1} /\ client' = NoClient
        /\ abandoned' \in {client.session, abandoned} /\ departed' \in BOOLEAN
        /\ UNCHANGED <<gate, active, net, commands, control, paused>>
    BY <1>6 DEF ClientEnds
  <2>2. /\ generation \in Nat /\ client.session \in Nat /\ abandoned \in Nat /\ net.session \in Nat
    BY DEF NetTypes, Client, Net
  <2>3. NetTypes' /\ PlaceInv'
    BY <2>1, <2>2 DEF NetTypes, PlaceInv
  <2>4. net.phase = "READY" /\ abandoned' # NoSessionId /\ abandoned' = net.session => departed'
    BY <1>6 DEF ClientEnds, SessionsInv
  <2>5. SessionsInv'
    BY <2>1, <2>2, <2>4 DEF SessionsInv
  <2> QED
    BY <2>3, <2>5
<1>7. CASE OthersGate
  BY <1>7 DEF OthersGate, Claim, Release, netVars, NetTypes, PlaceInv, SessionsInv, sessionFlags
<1>8. CASE ChipRestarts
  <2>1. commands' \in Seq({"OPEN", "CLOSE"}) /\ Len(commands') <= MaxCommands
    BY <1>8, WifiAssumption DEF ChipRestarts
  <2>2. net' = Cleared("OFF")
    BY <1>8 DEF ChipRestarts
  <2>6. net' \in Net /\ net'.phase = "OFF" /\ net'.session = 0
    BY <2>2 DEF NetPhases
  <2>3. NetTypes'
    BY <1>8, <2>1, <2>6 DEF ChipRestarts, Reset, NetTypes, sessionFlags
  <2>4. PlaceInv'
    BY <1>8, <2>1, <2>6 DEF ChipRestarts, Reset, NetTypes, PlaceInv, sessionFlags
  <2>5. SessionsInv'
    BY <1>8, <2>1, <2>6 DEF ChipRestarts, Reset, NetTypes, SessionsInv, sessionFlags
  <2> QED
    BY <2>3, <2>4, <2>5
<1> QED
  BY <1>1, <1>2, <1>3, <1>4, <1>5, <1>6, <1>7, <1>8

(* Every step keeps the invariant. *)
LEMMA WifiKeeps == WifiInv /\ [WifiNext]_wifiVars => WifiInv'
<1> SUFFICES ASSUME WifiInv, [WifiNext]_wifiVars PROVE WifiInv'
  OBVIOUS
<1>1. CASE WifiNext
  BY <1>1, ControlKeeps, OthersKeep DEF WifiNext
<1>2. CASE UNCHANGED wifiVars
  BY <1>2 DEF wifiVars, netVars, sessionFlags, WifiInv, NetTypes, PlaceInv, SessionsInv
<1> QED
  BY <1>1, <1>2

(* The variables keep their types. *)
THEOREM WifiTypeCorrect == WifiSpec => []WifiTypeOK
<1>1. WifiInv => WifiTypeOK
  BY DEF WifiInv, NetTypes, WifiTypeOK
<1> QED
  BY WifiStarts, WifiKeeps, <1>1, PTL DEF WifiSpec

(* Between the commands of the worker the adapters are paused exactly while the *)
(* access point is on (worker_task, start_ and stop_maintenance_network).       *)
THEOREM AdaptersAlwaysFollow == WifiSpec => []AdaptersFollow
<1>1. WifiInv => AdaptersFollow
  BY DEF WifiInv, NetTypes, PlaceInv, AdaptersFollow
<1> QED
  BY WifiStarts, WifiKeeps, <1>1, PTL DEF WifiSpec

(* The network implements the sessions that the firmware update relies on: every *)
(* step retires a generation, opens one, or leaves both flags alone.             *)
THEOREM NetworkImplementsSessions == WifiSpec => ImplementsSessions
<1>1. WifiInit => SessionsInit
  BY DEF WifiInit
<1>2. WifiInv /\ [WifiNext]_wifiVars => [Retire \/ Open \/ Departs \/ Reset]_sessionFlags
  <2> SUFFICES ASSUME WifiInv, [WifiNext]_wifiVars
               PROVE  Retire \/ Open \/ Departs \/ Reset \/ UNCHANGED sessionFlags
    OBVIOUS
  <2>1. CASE StartRetires \/ StopRetires
    BY <2>1 DEF StartRetires, StopRetires, RetireSession, Retire
  <2>2. CASE NetworkReady
    BY <2>2 DEF NetworkReady, Open, WifiInv, PlaceInv
  <2>3. CASE StationLeaves
    BY <2>3 DEF StationLeaves, Departs
  <2>4. CASE ClientEnds
    BY <2>4 DEF ClientEnds, Departs, sessionFlags
  <2>5. CASE ChipRestarts
    BY <2>5 DEF ChipRestarts
  <2>6. CASE UNCHANGED sessionFlags
    BY <2>6
  <2> QED
    BY <2>1, <2>2, <2>3, <2>4, <2>5, <2>6
    DEF WifiNext, Control, NetCommand, TakeCommand, OpenRefused, OpenClaims, OpenAllowed, NetworkFails,
        StopEnds, Look, SessionExpires, Accept, Frame, OthersGate, wifiVars
<1> QED
  BY WifiStarts, WifiKeeps, <1>1, <1>2, PTL DEF WifiSpec, ImplementsSessions, SessionsSpec

(* The worker closes a network before its time only for a client of that session *)
(* (ota_recovery_close_network).                                                 *)
THEOREM NetworkClosesItsOwn == WifiSpec => ClosesItsOwn
<1>1. ASSUME WifiInv, [WifiNext]_wifiVars,
             control \in {"look", "wait"}, control' = "stop", ~net.expired, net'.phase = "READY"
      PROVE  departed
  <2>1. CASE Look
    BY <1>1, <2>1 DEF Look, Due, CloseFor, WifiInv, SessionsInv
  <2>2. CASE TakeCommand
    BY <1>1, <2>2 DEF TakeCommand, WifiInv, NetTypes, Net
  <2>3. CASE UNCHANGED control
    BY <1>1, <2>3
  <2> QED
    BY <1>1, <2>1, <2>2, <2>3
    DEF WifiNext, Control, NetCommand, OpenRefused, OpenClaims, OpenAllowed, StartRetires, NetworkReady,
        NetworkFails, StopRetires, StopEnds, SessionExpires, StationLeaves, Accept, Frame, ClientEnds,
        OthersGate, ChipRestarts, wifiVars, netVars
<1> QED
  BY WifiStarts, WifiKeeps, <1>1, PTL DEF WifiSpec, ClosesItsOwn
================================================================================
