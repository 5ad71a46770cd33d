---------------------------- MODULE ConfigTransfer ----------------------------
(***************************************************************************)
(* The configuration session of src/config_transfer.c: one worker takes    *)
(* the phone's requests from a queue and drives the store (ConfigStore)    *)
(* and the trial journal (ConfigBoot) with them, under the gate of         *)
(* src/transfer_gate.c that it shares with the other maintenance tasks.    *)
(*                                                                         *)
(* The phone may send any request at any time, again or out of order: a    *)
(* lost, dropped or duplicated message is a request not sent or sent       *)
(* twice.  A digest arrives in parts of the same document's digest; the    *)
(* published status is the session as the last request left it.            *)
(***************************************************************************)
EXTENDS ConfigBoot

CONSTANTS
  Sequences,    \* sequence numbers of requests
  TransferIds,  \* ids of transfers, 0 excepted
  Parts         \* the parts of a digest: 0..3

NoSequence == 0
NoId       == 0

ASSUME TransferAssumption == NoSequence \notin Sequences /\ NoId \notin TransferIds

VARIABLES
  session,  \* config_transfer.c: session
  gate,     \* transfer_gate.c: operation
  phone     \* "talking", "silent", or "gone": silent for more than ten minutes

transferVars == <<vars, session, gate, phone>>

Phases  == {"IDLE", "METADATA", "RECEIVING", "VERIFIED", "APPLIED"}
Results == {"OK", "BAD_REQUEST", "CONFLICT", "STORAGE", "INVALID_DOCUMENT", "UNAVAILABLE"}
Ops     == {"BEGIN", "DIGEST", "START", "CHUNK", "VERIFY", "COMMIT", "ABORT"}

Session == [phase : Phases, result : Results, op : Ops \union {"NONE"},
            seq : Sequences \union {NoSequence}, id : TransferIds \union {NoId},
            base : Revisions, length : 0..MaxBlocks, accepted : 0..MaxBlocks,
            parts : SUBSET Parts, digest : Documents]

NoSession == [phase |-> "IDLE", result |-> "OK", op |-> "NONE", seq |-> NoSequence,
              id |-> NoId, base |-> 0, length |-> 0, accepted |-> 0,
              parts |-> {}, digest |-> <<>>]

\* result_for_error
ResultFor(err) ==
  CASE err = "OK" -> "OK"
    [] err \in {"INVALID_CRC", "INVALID_ARG"} -> "INVALID_DOCUMENT"
    [] err = "INVALID_STATE" -> "CONFLICT"
    [] err = "NOT_SUPPORTED" -> "UNAVAILABLE"
    [] OTHER -> "STORAGE"

\* transfer_gate_claim, transfer_gate_release
Claim(kind)   == gate = "none" /\ gate' = kind
Release(kind) == gate' = IF gate = kind THEN "none" ELSE gate

-----------------------------------------------------------------------------
\* The worker takes a request that is not a repetition of the last one.
Repeated(op, seq, id) == session.op = op /\ session.seq = seq /\ session.id = id
Taken(op, seq, id) ==
  /\ Up /\ job \in {"idle", "applied"} /\ phone = "talking"
  /\ seq \in Sequences /\ id \in TransferIds
  /\ ~Repeated(op, seq, id)
  /\ UNCHANGED phone

\* It is answered, and the session otherwise becomes next.
Answered(next, op, seq, result) ==
  session' = [next EXCEPT !.op = op, !.seq = seq, !.result = result]

\* A request that fits no branch of the handler
Refused(op, seq, result) ==
  /\ Answered(session, op, seq, result)
  /\ UNCHANGED <<vars, gate>>

\* BEGIN.  VehicleBusy: vehicle_commands_runtime_maintenance_allowed says no,
\* before the claim or after it, when the claim is undone.
BeginSession(base, length) ==
  session.phase = "IDLE" /\ base = active.revision /\ length \in 1..MaxBlocks

BeginRequest(seq, id, base, length) ==
  /\ Taken("BEGIN", seq, id) /\ Welcome
  /\ \/ Refused("BEGIN", seq, "CONFLICT")   \* the vehicle is busy
     \/ /\ ~BeginSession(base, length)
        /\ Refused("BEGIN", seq,
             IF session.phase # "IDLE" \/ base # active.revision THEN "CONFLICT" ELSE "BAD_REQUEST")
     \/ /\ BeginSession(base, length)
        /\ gate # "none"
        /\ Refused("BEGIN", seq, "CONFLICT")
     \/ /\ BeginSession(base, length)
        /\ Claim("config")
        /\ Answered([phase |-> "METADATA", result |-> "OK", op |-> "BEGIN", seq |-> seq,
                     id |-> id, base |-> base, length |-> length, accepted |-> 0,
                     parts |-> {}, digest |-> <<>>], "BEGIN", seq, "OK")
        /\ UNCHANGED vars

\* DIGEST: one part, each at most once
DigestRequest(seq, id, part, sha) ==
  /\ Taken("DIGEST", seq, id)
  /\ session.parts # {} => sha = session.digest
  /\ IF id = session.id /\ session.phase = "METADATA" /\ part \notin session.parts
     THEN /\ Answered([session EXCEPT !.parts = @ \union {part}, !.digest = sha],
                      "DIGEST", seq, "OK")
          /\ UNCHANGED <<vars, gate>>
     ELSE Refused("DIGEST", seq, "BAD_REQUEST")

\* START erases the other slot
StartFits(id) == id = session.id /\ session.phase = "METADATA" /\ session.parts = Parts
StartRequest(seq, id) ==
  /\ Taken("START", seq, id)
  /\ \/ /\ ~StartFits(id)
        /\ Refused("START", seq, "BAD_REQUEST")
     \/ /\ StartFits(id)
        /\ \E err \in StoreErrors :
             /\ WorkerBegin(session.base, session.length, session.digest, err)
             /\ Answered([session EXCEPT !.phase = IF err = "OK" THEN "RECEIVING" ELSE @],
                         "START", seq, ResultFor(err))
        /\ UNCHANGED gate

\* CHUNK: what extends the accepted prefix counts, what lies inside it does not
Accepted_Always(offset, data) == session.accepted + Len(data)   \* seeded bug
Accepted(offset, data) ==
  IF offset = session.accepted THEN session.accepted + Len(data) ELSE session.accepted

ChunkFits(id) == id = session.id /\ session.phase = "RECEIVING"
ChunkRequest(seq, id, offset, data) ==
  /\ Taken("CHUNK", seq, id)
  /\ \/ /\ ~ChunkFits(id)
        /\ Refused("CHUNK", seq, "BAD_REQUEST")
     \/ /\ ChunkFits(id)
        /\ ~(offset <= session.accepted /\ Len(data) <= session.length - offset)
        /\ Refused("CHUNK", seq, "CONFLICT")
     \/ /\ ChunkFits(id)
        /\ offset <= session.accepted /\ Len(data) <= session.length - offset
        /\ \E err \in StoreErrors :
             /\ WorkerWrite(offset, data, err)
             /\ Answered([session EXCEPT !.accepted = IF err = "OK" THEN Accepted(offset, data) ELSE @],
                         "CHUNK", seq, ResultFor(err))
        /\ UNCHANGED gate

\* VERIFY
VerifyFits(id) == id = session.id /\ session.phase = "RECEIVING"
VerifyRequest(seq, id) ==
  /\ Taken("VERIFY", seq, id)
  /\ \/ ~VerifyFits(id) /\ Refused("VERIFY", seq, "BAD_REQUEST")
     \/ /\ VerifyFits(id)
        /\ \E err \in StoreErrors :
             /\ StoreValidate(err)
             /\ Answered([session EXCEPT !.phase = IF err = "OK" THEN "VERIFIED" ELSE @],
                         "VERIFY", seq, ResultFor(err))
        /\ UNCHANGED <<trialVars, bootVars, job, fate, gate>>

\* COMMIT: from the journal to the outcome the worker takes no other request
CommitFits(id) == id = session.id /\ session.phase = "VERIFIED"
CommitRequest(seq, id) ==
  /\ Taken("COMMIT", seq, id)
  /\ \/ Refused("COMMIT", seq, "CONFLICT")   \* the vehicle is busy
     \/ id # session.id /\ Refused("COMMIT", seq, "UNAVAILABLE")
     \/ id = session.id /\ ~CommitFits(id) /\ Refused("COMMIT", seq, "BAD_REQUEST")
     \/ /\ CommitFits(id)
        /\ \E err \in {"OK", "FAIL"} :
             /\ CommitPrepare(session.base + 1, err)
             /\ Answered(session, "COMMIT", seq, IF err = "OK" THEN "BAD_REQUEST" ELSE "STORAGE")
        /\ UNCHANGED gate

CommitGoesOn ==
  /\ UNCHANGED <<gate, phone>>
  /\ \/ \E err \in StoreErrors :
          /\ CommitStep(err)
          /\ session' = CASE err = "MORE" -> session
                          [] err = "OK" -> [session EXCEPT !.phase = "APPLIED", !.result = "OK"]
                          [] OTHER -> [session EXCEPT !.result = ResultFor(err)]
     \/ CommitCancel(session.base + 1) /\ UNCHANGED session

\* ABORT: any phase but APPLIED, IDLE included
SessionOver_KeepsGate == UNCHANGED gate   \* seeded bug
SessionOver == Release("config")
AbortFits(id) == id = session.id /\ session.phase # "APPLIED"
AbortRequest(seq, id) ==
  /\ Taken("ABORT", seq, id)
  /\ \/ ~AbortFits(id) /\ Refused("ABORT", seq, "BAD_REQUEST")
     \/ /\ AbortFits(id)
        /\ StoreAbort
        /\ UNCHANGED <<trialVars, bootVars, job, fate>>
        /\ Answered([session EXCEPT !.phase = "IDLE"], "ABORT", seq, "OK")
        /\ SessionOver

\* worker: ten minutes without a request
TimesOut_Receiving == session.phase \in {"METADATA", "RECEIVING"}   \* seeded bug
TimesOut == session.phase \notin {"IDLE", "APPLIED"}
InactivityAbort ==
  /\ Up /\ job = "idle" /\ phone = "gone"
  /\ TimesOut
  /\ WorkerAbort
  /\ session' = [session EXCEPT !.phase = "IDLE", !.result = "CONFLICT"]
  /\ SessionOver
  /\ UNCHANGED phone

-----------------------------------------------------------------------------
\* A restart loses the session and the gate; the rest of the boot and the
\* health task leave them alone.
ElsewhereOrRestart ==
  /\ IF stage' = "decide" THEN session' = NoSession /\ gate' = "none"
                          ELSE UNCHANGED <<session, gate>>
  /\ UNCHANGED phone

\* The restart deadline after a COMMIT, which nothing postpones
Deadline == AppliedRestart /\ ElsewhereOrRestart

\* The other users of the gate: the firmware update, the code clearing, the
\* vehicle commands, the start of Wi-Fi
OtherTask ==
  /\ Up /\ UNCHANGED <<vars, session, phone>>
  /\ \/ Claim("other")
     \/ gate = "other" /\ Release("other")

\* The phone stops talking, for long enough to be given up, or comes back.
PhoneStops   == phone = "talking" /\ phone' = "silent" /\ UNCHANGED <<vars, session, gate>>
TenMinutes   == phone = "silent" /\ phone' = "gone" /\ UNCHANGED <<vars, session, gate>>
PhoneReturns == phone # "talking" /\ phone' = "talking" /\ UNCHANGED <<vars, session, gate>>

Requests ==
  \E seq \in Sequences, id \in TransferIds :
     \/ \E base \in Revisions, length \in 0..(MaxBlocks + 1) : BeginRequest(seq, id, base, length)
     \/ \E part \in Parts, sha \in Documents : DigestRequest(seq, id, part, sha)
     \/ StartRequest(seq, id)
     \/ \E offset \in 0..MaxBlocks, data \in Chunks : ChunkRequest(seq, id, offset, data)
     \/ VerifyRequest(seq, id)
     \/ CommitRequest(seq, id)
     \/ AbortRequest(seq, id)

StartCut ==
  /\ session.phase = "METADATA" /\ session.parts = Parts
  /\ WorkerBeginCut(session.base) /\ ElsewhereOrRestart

TransferInit == BootInit /\ session = NoSession /\ gate = "none" /\ phone = "talking"

TransferNext ==
  \/ (PowerCut \/ JournalUnread \/ Boot \/ Health) /\ ElsewhereOrRestart
  \/ StartCut
  \/ Requests
  \/ CommitGoesOn \/ InactivityAbort \/ Deadline
  \/ OtherTask
  \/ PhoneStops \/ TenMinutes \/ PhoneReturns

\* As BootSpec; and a silent phone is given up after ten minutes.
TransferSpec ==
  /\ TransferInit /\ [][TransferNext]_transferVars
  /\ WF_transferVars((Boot \/ JournalUnread) /\ ElsewhereOrRestart)
  /\ WF_transferVars(Health /\ ElsewhereOrRestart)
  /\ WF_transferVars(CommitGoesOn \/ InactivityAbort \/ Deadline)
  /\ WF_transferVars(TenMinutes)

-----------------------------------------------------------------------------
(* Properties *)

\* The session and the store never disagree on what has been received: the
\* store has a transfer open exactly while the phone is told so, for the same
\* document, base and length, and with the same number of blocks accepted.
SessionMatchesStore ==
  IF session.phase \in {"RECEIVING", "VERIFIED"}
  THEN /\ transfer.open
       /\ transfer.sha = session.digest
       /\ transfer.length = session.length
       /\ transfer.written = session.accepted
       /\ active.revision = session.base
  ELSE ~transfer.open

\* What VERIFY accepted is what COMMIT commits: nothing the phone sends between
\* them, nor a failed COMMIT, makes a verified transfer unacceptable.
VerifiedStaysStaged == session.phase = "VERIFIED" => StagedCheck = "OK"

\* The configuration session holds the gate from BEGIN until it is aborted or
\* the chip restarts, so no update, code clearing or vehicle command starts
\* between a COMMIT and its restart.
GateIsHeld == gate = "config" <=> session.phase # "IDLE"

\* The generation that a restart would end up with, the journal heeded
NextRevision ==
  LET found == Scan(flash, Slots)
      other == Other(found.slot)
  IN  IF found.slot = NoSlot \/ TrialDecision(nvs, found.revision) # "PREVIOUS" THEN found.revision
      ELSE IF ValidSlot(flash[other]) THEN flash[other].header.revision ELSE 0

\* Until its marker is on the flash a transfer changes nothing: with a confirmed
\* configuration running, a restart returns to that configuration, however far
\* the transfer is and whatever failed ("A disconnect leaves the active
\* generation unchanged", docs/architecture/config-storage.md).
UncommittedChangesNothing ==
  (/\ running.slot # NoSlot
   /\ fate[running.slot] \in Settled \union {"none"}   \* none: no longer on the flash
   /\ fate[Other(running.slot)] = "none") =>
     NextRevision = running.revision

\* A phone that goes away never keeps the gauge in a session for good.
SessionsEnd == phone = "gone" ~> (session.phase = "IDLE" \/ phone # "gone")
=============================================================================
