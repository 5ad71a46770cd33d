------------------------------ MODULE OtaTransfer ------------------------------
(***************************************************************************)
(* The firmware update session of src/ota_transfer.c: one worker takes     *)
(* requests from a queue that Bluetooth and the Wi-Fi server fill, and     *)
(* writes, verifies and selects an image (FirmwareSlots) under the gate of *)
(* src/transfer_gate.c.                                                    *)
(*                                                                         *)
(* A request of the Wi-Fi server carries the generation of its network     *)
(* session, and so does an update begun by one.  The worker looks at the   *)
(* session (WifiSessions) when it takes a request and after it, not while  *)
(* it writes or verifies: the session may end in between.                  *)
(*                                                                         *)
(* What a request asks for is chosen when it is performed, since nothing   *)
(* looks at it before; in the queue only its origin counts, and a request  *)
(* that came over Bluetooth has none to remember.  Sequence numbers are    *)
(* left out: a repetition of the last request is dropped, which is a       *)
(* request not sent.  The parts of the digest and of the signature are one *)
(* part each; a signature is named by the image it was made for.           *)
(***************************************************************************)
EXTENDS FirmwareSlots, WifiSessions

CONSTANTS
  TransferIds,  \* ids of updates, 0 excepted
  Offered,      \* the images the phone may try to install
  Chunks,       \* what the phone may send as a part of one
  QueueLength,  \* ota_transfer_init: 4
  MaxGeneration \* bound: the network changes no more than so often

NoId == 0

ASSUME OtaAssumption ==
  /\ TransferIds \subseteq Nat \ {NoId} /\ Offered \subseteq Images /\ Chunks \subseteq Images
  /\ QueueLength \in Nat \ {0} /\ MaxGeneration \in Nat

VARIABLES
  ota,         \* ota_transfer.c: state; open: the handle is; over: ten minutes passed
               \* without a request, or five seconds since ACTIVATE
  requests,    \* ota_transfer.c: queue, the requests of the Wi-Fi server
  work,        \* the origin of the request being performed
  step         \* where the worker is: "wait", "perform", "tail"

workerVars == <<requests, work, step>>
otaVars    == <<firmwareVars, ota, workerVars, gate, sessionFlags>>

OtaPhases == {"IDLE", "METADATA", "RECEIVING", "READY", "ACTIVATING"}

\* What a request may ask for
Bodies ==
  [op : {"BEGIN"}, id : TransferIds, length : 1..MaxBlocks]
  \union [op : {"DIGEST"}, id : TransferIds, image : Offered]
  \union [op : {"SIGNATURE"}, id : TransferIds, image : Signed]
  \union [op : {"CHUNK"}, id : TransferIds, offset : 0..(MaxBlocks - 1), data : Chunks]
  \union [op : {"START", "VERIFY", "ACTIVATE", "ABORT"}, id : TransferIds]

\* Where it comes from: wifi_owned and wifi_generation
Origins   == [owned : BOOLEAN, generation : Nat]
Bluetooth == [owned |-> FALSE, generation |-> 0]

Session ==
  [phase : OtaPhases, owned : BOOLEAN, generation : Nat, id : TransferIds \union {NoId},
   length : 0..MaxBlocks, accepted : 0..MaxBlocks, digest : Images \union {NoImage},
   signature : Signed \union {NoImage}, open : BOOLEAN, over : BOOLEAN]
NoSession ==
  [phase |-> "IDLE", owned |-> FALSE, generation |-> 0, id |-> NoId, length |-> 0,
   accepted |-> 0, digest |-> NoImage, signature |-> NoImage, open |-> FALSE, over |-> FALSE]

\* esp_ota_get_next_update_partition
Target == OtherSlot(running)

-----------------------------------------------------------------------------
WifiRequest_NoLimit(g) ==   \* seeded bug
  IF SessionCurrent(g) THEN requests' = Append(requests, [owned |-> TRUE, generation |-> g])
  ELSE UNCHANGED requests
\* ota_transfer_wifi_command: a full queue drops it.
WifiRequest(g) ==
  IF SessionCurrent(g) /\ Len(requests) < QueueLength
  THEN requests' = Append(requests, [owned |-> TRUE, generation |-> g])
  ELSE UNCHANGED requests

\* ota_recovery_abandon
Unfinished == ota.phase \in {"METADATA", "RECEIVING", "READY"}
Lost == Unfinished /\ ota.owned /\ ~SessionCurrent(ota.generation)

\* abort_transfer.  What the code keeps of an aborted update is read by no
\* operation before BEGIN replaces it.
AbortTransfer_KeepsGate == ota' = NoSession /\ UNCHANGED gate   \* seeded bug
AbortTransfer == ota' = NoSession /\ Release("ota")

\* process, as far as the checks before the operation itself.  A request of a
\* session that is over is refused, whatever it asks for; so are BEGIN and
\* ACTIVATE while vehicle_commands_runtime_maintenance_allowed says no.
TakeRequest ==
  /\ step = "wait"
  /\ \E origin \in {Bluetooth, IF requests # <<>> THEN Head(requests) ELSE Bluetooth} :
       LET stale == origin.owned /\ ~SessionCurrent(origin.generation)
       IN /\ requests' = IF origin.owned THEN Tail(requests) ELSE requests
          /\ IF Lost THEN AbortTransfer
                     ELSE ota' = [ota EXCEPT !.over = @ /\ (stale \/ ota.phase = "ACTIVATING")] /\ UNCHANGED gate
          /\ IF stale THEN step' = "tail" /\ UNCHANGED work
                      ELSE step' = "perform" /\ work' = origin
  /\ UNCHANGED <<firmwareVars, sessionFlags>>

-----------------------------------------------------------------------------
\* The operations.  For each: when it is accepted, and what it does then.
Ours(b) == b.id = ota.id

BeginFits == ota.phase = "IDLE" /\ gate = "none"
Begin(b) ==
  /\ BeginFits
  /\ Claim("ota")
  /\ ota' = [NoSession EXCEPT !.phase = "METADATA", !.owned = work.owned,
                              !.generation = work.generation, !.id = b.id,
                              !.length = b.length]
  /\ UNCHANGED firmwareVars

DigestFits(b) == Ours(b) /\ ota.phase = "METADATA" /\ ota.digest = NoImage
Digest(b) == DigestFits(b) /\ ota' = [ota EXCEPT !.digest = b.image] /\ UNCHANGED <<firmwareVars, gate>>

SignatureFits(b) == Ours(b) /\ ota.phase = "METADATA" /\ ota.signature = NoImage
Signature(b) == SignatureFits(b) /\ ota' = [ota EXCEPT !.signature = b.image] /\ UNCHANGED <<firmwareVars, gate>>

\* esp_ota_begin; if it fails the phase stays
StartFits(b) == Ours(b) /\ ota.phase = "METADATA" /\ ota.digest # NoImage /\ ota.signature # NoImage
Start(b) ==
  /\ StartFits(b)
  /\ \/ EraseSlot(Target) /\ ota' = [ota EXCEPT !.phase = "RECEIVING", !.open = TRUE]
     \/ ("flash" \in Faults \/ OtaTrialPending) /\ UNCHANGED <<firmwareVars, ota>>
  /\ UNCHANGED gate

\* A chunk that extends the accepted prefix is written; one inside it is only
\* compared with it.  A write that fails may have written all the same.
ChunkFits(b) == Ours(b) /\ ota.phase = "RECEIVING"
ChunkExtends(b) == b.offset = ota.accepted /\ Len(b.data) <= ota.length - b.offset
Written(b, done) ==
  /\ Len(flash[Target]) + Len(b.data) <= MaxBlocks + Spare
  /\ WriteSlot(Target, b.data)
  /\ ota' = IF done THEN [ota EXCEPT !.accepted = @ + Len(b.data)] ELSE ota
Chunk(b) ==
  /\ ChunkFits(b) /\ ChunkExtends(b)
  /\ \/ Written(b, TRUE)
     \/ "flash" \in Faults /\ (Written(b, FALSE) \/ UNCHANGED <<firmwareVars, ota>>)
  /\ UNCHANGED gate

\* verify_image: complete, read back with the announced digest, and signed.
\* esp_ota_end takes the handle whether it succeeds or fails.
VerifyFits(b) == Ours(b) /\ ota.phase = "RECEIVING"
ImageVerified_Partial ==   \* seeded bug
  /\ SubSeq(flash[Target], 1, ota.accepted) = SubSeq(ota.digest, 1, ota.accepted)
  /\ ota.signature = ota.digest
ImageVerified ==
  /\ ota.accepted = ota.length
  /\ SubSeq(flash[Target], 1, ota.length) = ota.digest
  /\ ota.signature = ota.digest
Verify(b) ==
  /\ VerifyFits(b)
  /\ IF ImageVerified
     THEN \/ ota.open /\ ota' = [ota EXCEPT !.phase = "READY", !.open = FALSE]
          \/ "flash" \in Faults /\ ota' \in {ota, [ota EXCEPT !.open = FALSE]}
     ELSE UNCHANGED ota
  /\ UNCHANGED <<firmwareVars, gate>>

\* esp_ota_set_boot_partition; the restart follows after five seconds.  A call
\* that fails leaves the phase, though the selection may have been stored: then
\* the update may still be aborted, and another one begun in the selected slot.
ActivateFits(b) == Ours(b) /\ ota.phase = "READY"
Activate(b) ==
  /\ ActivateFits(b)
  /\ \/ SelectSlot(Target) /\ ota' = [ota EXCEPT !.phase = "ACTIVATING"]
     \/ "flash" \in Faults /\ UNCHANGED <<firmwareVars, ota>>
     \/ "select" \in Faults /\ SelectSlot(Target) /\ UNCHANGED ota
  /\ UNCHANGED gate

AbortFits(b) == Ours(b) /\ ota.phase # "ACTIVATING"
Abort(b) == AbortFits(b) /\ AbortTransfer /\ UNCHANGED firmwareVars

\* A request that does not fit changes nothing but the result that is reported.
Operation(b) ==
  \/ b.op = "BEGIN"     /\ Begin(b)
  \/ b.op = "DIGEST"    /\ Digest(b)
  \/ b.op = "SIGNATURE" /\ Signature(b)
  \/ b.op = "START"     /\ Start(b)
  \/ b.op = "CHUNK"     /\ Chunk(b)
  \/ b.op = "VERIFY"    /\ Verify(b)
  \/ b.op = "ACTIVATE"  /\ Activate(b)
  \/ b.op = "ABORT"     /\ Abort(b)

Perform ==
  /\ step = "perform"
  /\ \/ \E b \in Bodies : Operation(b)
     \/ UNCHANGED <<firmwareVars, ota, gate>>
  /\ step' = "tail" /\ work' = Bluetooth
  /\ UNCHANGED <<requests, sessionFlags>>

\* worker, after a request or a second without one
NoRequestCame == step = "wait" /\ step' = "tail" /\ UNCHANGED <<firmwareVars, ota, requests, work, gate, sessionFlags>>

Abandons == Lost \/ (Unfinished /\ ota.over)
Restarts == ota.phase = "ACTIVATING" /\ ota.over
LookAfter ==
  /\ step = "tail" /\ ~Restarts /\ step' = "wait"
  /\ IF Abandons THEN AbortTransfer ELSE UNCHANGED <<ota, gate>>
  /\ UNCHANGED <<firmwareVars, requests, work, sessionFlags>>

\* The chip restarts: everything but the slots is lost.
OtaDown ==
  /\ ota' = NoSession /\ requests' = <<>> /\ work' = Bluetooth /\ step' = "wait"
  /\ gate' = "none" /\ Reset

ActivationRestart == step = "tail" /\ Restarts /\ FirmwareRestart /\ OtaDown

OtaWorker == TakeRequest \/ Perform \/ NoRequestCame \/ LookAfter \/ ActivationRestart

\* Ten minutes without a request, or five seconds
TimePasses ==
  /\ ~ota.over
  /\ ota.phase = "ACTIVATING" \/ (Unfinished /\ requests = <<>> /\ step = "wait")
  /\ ota' = [ota EXCEPT !.over = TRUE]
  /\ UNCHANGED <<firmwareVars, workerVars, gate, sessionFlags>>

-----------------------------------------------------------------------------
\* The network as far as the update sees it, and a request through it.
NetworkChanges ==
  /\ Open \/ (generation < MaxGeneration /\ (Retire \/ Departs))
  /\ UNCHANGED <<firmwareVars, ota, workerVars, gate>>

RequestArrives ==
  /\ WifiRequest(generation)
  /\ UNCHANGED <<firmwareVars, ota, work, step, gate, sessionFlags>>

\* The other users of the gate
OtherTask ==
  /\ Claim("other") \/ (gate = "other" /\ Release("other"))
  /\ UNCHANGED <<firmwareVars, ota, workerVars, sessionFlags>>

PowerCut == "power" \in Faults /\ FirmwareRestart /\ OtaDown

Health ==
  \/ HealthKeeps /\ UNCHANGED <<ota, workerVars, gate, sessionFlags>>
  \/ HealthGivesUp /\ OtaDown

OtaInit ==
  /\ FirmwareInit /\ SessionsInit
  /\ ota = NoSession /\ requests = <<>> /\ work = Bluetooth /\ step = "wait"
  /\ gate = "none"

OtaNext ==
  \/ OtaWorker \/ TimePasses
  \/ NetworkChanges \/ RequestArrives \/ OtherTask
  \/ PowerCut \/ Health

\* The worker goes on with its loop, and time passes.
OtaSpec ==
  /\ OtaInit /\ [][OtaNext]_otaVars
  /\ WF_otaVars(OtaWorker) /\ WF_otaVars(TimePasses)

-----------------------------------------------------------------------------
(* Properties *)

\* The variables have their types.
OtaTypeOK ==
  /\ flash \in [Slots -> Contents] /\ state \in [Slots -> States]
  /\ boot \in Slots /\ running \in Slots /\ health \in {"none", "polling"}
  /\ ota \in Session /\ requests \in Seq(Origins) /\ work \in Origins
  /\ Len(requests) <= QueueLength /\ step \in {"wait", "perform", "tail"}
  /\ gate \in {"none", "ota", "wifi", "other"} /\ active \in BOOLEAN /\ generation \in Nat
  /\ overwritten \in BOOLEAN

\* The slot the boot loader would start holds a whole image with a genuine
\* signature, whatever chunks, failed writes, lost sessions and restarts came
\* before; and while an image is on trial the other slot is one to return to.  The
\* exception: a selection that was stored though it was reported as failed, and
\* then an update begun in the selected slot; it lasts until a slot is selected
\* again or the boot loader starts a signed image there.
BootsSigned == ~overwritten =>
  /\ SignedSlot(boot)
  /\ OtaTrialPending => SignedSlot(OtherSlot(running)) /\ state[OtherSlot(running)] = "VALID"

\* An update owns the gate from BEGIN until it is aborted or the chip restarts,
\* however it is abandoned, and nobody else's claim is released for it.
GateIsUpdates == gate = "ota" <=> ota.phase # "IDLE"

\* An update that must not keep the gate for good: its Wi-Fi session is over or
\* its phone has been silent for ten minutes, or it has been activated.
UpdateLeaves == Abandons \/ ota.phase = "ACTIVATING"
=============================================================================
