----------------------------- MODULE ConfigStore -----------------------------
(***************************************************************************)
(* The A/B store of gauge configurations: src/config_store.c.              *)
(*                                                                         *)
(* Two flash partitions each hold a header (revision, digest, CRC), a      *)
(* commit marker written after the header, and a document.  The RAM side   *)
(* is active_slot / active_record, the open transfer, and, while           *)
(* config_store_commit runs, its local variables.  The transfer worker is  *)
(* the only caller once the gauge is up, so calls do not overlap; power    *)
(* may be lost between any two flash operations and inside an erase.       *)
(*                                                                         *)
(* Simplifications.  A document is a sequence of blocks; its SHA-256 is    *)
(* the document itself (no collisions), so a header carries no separate    *)
(* length.  A header whose CRC does not match is NoHeader.  A failed       *)
(* document write leaves the flash unchanged.  A failed flash or heap      *)
(* operation returns FAIL and happens only if its kind is in Faults.       *)
(***************************************************************************)
EXTENDS Integers, Sequences

CONSTANTS
  Blocks,       \* contents of one block of a document
  MaxBlocks,    \* EGAUGE_CONFIG_MAX_BYTES, in blocks
  MaxRevision,  \* UINT32_MAX
  Valid,        \* the <<document, base revision>> that config_document_validate accepts
  Executable,   \* the documents the runtime compiler accepts
  Faults        \* kinds of fault that may happen

Slots   == {0, 1}
NoSlot  == -1
Documents == UNION {[1..n -> Blocks] : n \in 0..MaxBlocks}
Revisions == 0..MaxRevision

ASSUME StoreAssumption ==
  /\ MaxBlocks \in Nat \ {0}
  /\ MaxRevision \in Nat \ {0}
  /\ Valid \subseteq (Documents \X Revisions)
  /\ Executable \subseteq Documents
  /\ Faults \subseteq {"scan", "read", "write", "erase", "nvs", "journal", "compile", "power"}

VARIABLES
  flash,     \* the two partitions: durable
  active,    \* active_slot and active_record: RAM
  transfer,  \* the open transfer: RAM
  commit     \* the locals of a config_store_commit in progress: its stack frame

storeVars == <<flash, active, transfer, commit>>

NoHeader == [revision |-> 0, sha |-> <<>>]
Erased   == [header |-> NoHeader, marker |-> FALSE, body |-> <<>>]
NoRecord == [slot |-> NoSlot, revision |-> 0, sha |-> <<>>]
Closed   == [open |-> FALSE, slot |-> 0, length |-> 0, written |-> 0, sha |-> <<>>]
NoCommit == [at |-> "none", slot |-> 0, revision |-> 0, length |-> 0]

Partition == [header : [revision : Revisions, sha : Documents],
              marker : BOOLEAN, body : Documents]
Record    == [slot : Slots, revision : Revisions, sha : Documents]
Transfer  == [open : BOOLEAN, slot : Slots, length : 0..MaxBlocks,
              written : 0..MaxBlocks, sha : Documents]
Commit    == [at : {"none", "marker", "verify"}, slot : Slots,
              revision : Revisions, length : 0..MaxBlocks]

Other(slot) == 1 - slot

\* hash_document: the digest of the first length blocks of a partition's document
HashDocument(p, length) == SubSeq(p.body, 1, length)

\* valid_slot: marker, header and document agree, and the document is one that
\* was accepted on the revision before the header's
ValidSlot(p) ==
  /\ p.marker
  /\ p.header.revision # 0
  /\ Len(p.header.sha) # 0
  /\ HashDocument(p, Len(p.header.sha)) = p.header.sha
  /\ <<p.header.sha, p.header.revision - 1>> \in Valid

RecordOf(f, slot) ==
  [slot |-> slot, revision |-> f[slot].header.revision, sha |-> f[slot].header.sha]

\* What an erase that failed, or that lost power, may leave: its first sector
\* is the header's, so the header goes no later than the document.
PartlyErased(p) == {p, [p EXCEPT !.header = NoHeader, !.marker = FALSE], Erased}

-----------------------------------------------------------------------------
\* config_store_init: the greatest revision among the slots that validate, the
\* lower slot on a tie.  readable: the slots whose validation meets no fault.
Found(f, readable) == {s \in readable : ValidSlot(f[s])}
Newest_Oldest(f, found) ==   \* seeded bug
  CHOOSE s \in found : \A t \in found : f[s].header.revision <= f[t].header.revision
Newest(f, found) ==
  CHOOSE s \in found : \A t \in found :
     \/ f[s].header.revision > f[t].header.revision
     \/ f[s].header.revision = f[t].header.revision /\ s <= t

Scan(f, readable) ==
  LET found == Found(f, readable)
  IN  IF found = {} THEN NoRecord ELSE RecordOf(f, Newest(f, found))

Readable == IF "scan" \in Faults THEN SUBSET Slots ELSE {Slots}

\* The chip restarts and config_store_init runs on the flash f.
Restarted(f) ==
  /\ flash'   = f
  /\ \E readable \in Readable : active' = Scan(f, readable)
  /\ transfer' = Closed
  /\ commit'   = NoCommit

StoreReset == Restarted(flash)

\* config_store_previous: the record of the inactive slot, if it validates
HasPrevious == active.slot # NoSlot /\ ValidSlot(flash[Other(active.slot)])
Previous    == RecordOf(flash, Other(active.slot))

\* config_store_select
StoreSelect(record) ==
  /\ ~transfer.open
  /\ record.slot \in Slots
  /\ ValidSlot(flash[record.slot])
  /\ record = RecordOf(flash, record.slot)
  /\ active' = record
  /\ UNCHANGED <<flash, transfer, commit>>

-----------------------------------------------------------------------------
Calling == commit.at # "none"     \* the worker is inside config_store_commit

\* config_store_begin
BeginRefused_NoWidth(base) ==   \* seeded bug
  transfer.open \/ base # active.revision
BeginRefused(base) ==
  transfer.open \/ base # active.revision \/ active.revision = MaxRevision

Target_Active == IF active.slot = 0 THEN 0 ELSE 1   \* seeded bug
Target == IF active.slot = 0 THEN 1 ELSE 0

StoreBegin(base, length, sha, err) ==
  /\ ~Calling
  /\ UNCHANGED <<active, commit>>
  /\ \/ /\ BeginRefused(base)
        /\ err = "INVALID_STATE"
        /\ UNCHANGED <<flash, transfer>>
     \/ /\ ~BeginRefused(base)
        /\ err = "OK"
        /\ flash'    = [flash EXCEPT ![Target] = Erased]
        /\ transfer' = [open |-> TRUE, slot |-> Target, length |-> length,
                        written |-> 0, sha |-> sha]
     \/ /\ ~BeginRefused(base)
        /\ "erase" \in Faults
        /\ err = "FAIL"
        /\ \E left \in PartlyErased(flash[Target]) : flash' = [flash EXCEPT ![Target] = left]
        /\ transfer' = Closed

\* config_store_begin cut short by a restart inside the erase
StoreBeginCut(base) ==
  /\ ~Calling
  /\ ~BeginRefused(base)
  /\ \E left \in PartlyErased(flash[Target]) : Restarted([flash EXCEPT ![Target] = left])

\* config_store_write: a chunk that lies inside what was accepted is compared
\* with the flash; any other chunk must start where the last one ended.
WriteOutOfBounds(offset, data) ==
  ~transfer.open \/ offset > transfer.length \/ Len(data) > transfer.length - offset
WriteRetried(offset, data) ==
  offset < transfer.written /\ Len(data) <= transfer.written - offset
WriteIsNext(offset) == offset = transfer.written

StoreWrite(offset, data, err) ==
  /\ ~Calling
  /\ UNCHANGED <<active, commit>>
  /\ \/ /\ WriteOutOfBounds(offset, data)
        /\ err = "INVALID_STATE"
        /\ UNCHANGED <<flash, transfer>>
     \/ /\ ~WriteOutOfBounds(offset, data)
        /\ WriteRetried(offset, data)
        /\ \/ err = IF SubSeq(flash[transfer.slot].body, offset + 1, offset + Len(data)) = data
                    THEN "OK" ELSE "INVALID_CRC"
           \/ err = "FAIL" /\ "read" \in Faults
        /\ UNCHANGED <<flash, transfer>>
     \/ /\ ~WriteOutOfBounds(offset, data)
        /\ ~WriteRetried(offset, data)
        /\ \/ err = "INVALID_STATE" /\ ~WriteIsNext(offset)
           \/ err = "FAIL" /\ WriteIsNext(offset) /\ "write" \in Faults
        /\ UNCHANGED <<flash, transfer>>
     \/ /\ ~WriteOutOfBounds(offset, data)
        /\ ~WriteRetried(offset, data)
        /\ WriteIsNext(offset)
        /\ err = "OK"
        /\ flash'    = [flash EXCEPT ![transfer.slot].body = SubSeq(@, 1, offset) \o data]
        /\ transfer' = [transfer EXCEPT !.written = @ + Len(data)]

\* The checks config_store_validate and config_store_commit share: the transfer
\* is complete, its digest is the promised one, its document is acceptable on
\* the active revision.
StagedCheck ==
  IF ~transfer.open \/ transfer.written # transfer.length THEN "INVALID_STATE"
  ELSE IF HashDocument(flash[transfer.slot], transfer.length) # transfer.sha THEN "INVALID_CRC"
  ELSE IF <<transfer.sha, active.revision>> \notin Valid THEN "INVALID_ARG"
  ELSE "OK"

StoreValidate_DigestOnly(err) ==   \* seeded bug
  /\ ~Calling
  /\ err = IF ~transfer.open \/ transfer.written # transfer.length THEN "INVALID_STATE"
           ELSE IF HashDocument(flash[transfer.slot], transfer.length) # transfer.sha THEN "INVALID_CRC"
           ELSE "OK"
  /\ UNCHANGED storeVars
StoreValidate(err) ==
  /\ ~Calling
  /\ err = StagedCheck \/ (err = "FAIL" /\ "read" \in Faults)
  /\ UNCHANGED storeVars

\* config_store_abort
StoreAbort ==
  /\ ~Calling
  /\ transfer' = Closed
  /\ UNCHANGED <<flash, active, commit>>

-----------------------------------------------------------------------------
(* config_store_commit, one action per flash write and one for the end.    *)
(* err = "MORE": the call goes on.                                         *)

\* The checks, the runtime validator, the header write and its readback.
Compiles_Unchecked == TRUE   \* seeded bug
Compiles == transfer.sha \in Executable

NewHeader_Skips == [revision |-> active.revision + 2, sha |-> transfer.sha]   \* seeded bug
NewHeader == [revision |-> active.revision + 1, sha |-> transfer.sha]

StoreCommitHeader(err) ==
  /\ ~Calling
  /\ UNCHANGED <<active, transfer>>
  /\ \/ /\ err # "OK" /\ err # "MORE"
        /\ \/ err = StagedCheck
           \/ StagedCheck = "OK" /\ ~Compiles /\ err = "NOT_SUPPORTED"
           \/ err = "FAIL" /\ Faults \intersect {"read", "compile"} # {}
        /\ UNCHANGED <<flash, commit>>
     \/ /\ StagedCheck = "OK" /\ Compiles
        /\ flash' = [flash EXCEPT ![transfer.slot].header = NewHeader]
        \* the readback compares the whole header, marker included
        /\ \/ err = "FAIL" /\ (flash[transfer.slot].marker \/ "read" \in Faults)
              /\ commit' = commit
           \/ /\ err = "MORE" /\ ~flash[transfer.slot].marker
              /\ commit' = [at |-> "marker", slot |-> transfer.slot,
                            revision |-> active.revision, length |-> transfer.length]
     \/ /\ StagedCheck = "OK" /\ Compiles /\ "write" \in Faults
        /\ err = "FAIL"
        /\ UNCHANGED <<flash, commit>>

\* The marker write.  One that reports an error may still have reached the flash.
StoreCommitMarker(err) ==
  /\ commit.at = "marker"
  /\ UNCHANGED <<active, transfer>>
  /\ \/ /\ err = "MORE"
        /\ flash'  = [flash EXCEPT ![commit.slot].marker = TRUE]
        /\ commit' = [commit EXCEPT !.at = "verify"]
     \/ /\ err = "FAIL" /\ "write" \in Faults
        /\ \E written \in BOOLEAN : flash' = [flash EXCEPT ![commit.slot].marker = written]
        /\ commit' = NoCommit

\* valid_slot on the result, the recheck under the lock, and the switch.
CommitOvertaken ==
  \/ ~transfer.open
  \/ transfer.slot # commit.slot
  \/ transfer.length # commit.length
  \/ active.revision # commit.revision

StoreCommitFinish(err) ==
  /\ commit.at = "verify"
  /\ commit' = NoCommit
  /\ flash'  = flash
  /\ \/ /\ err = "FAIL"
        /\ ~ValidSlot(flash[commit.slot]) \/ "read" \in Faults
        /\ UNCHANGED <<active, transfer>>
     \/ /\ ValidSlot(flash[commit.slot])
        /\ CommitOvertaken
        /\ err = "INVALID_STATE"
        /\ UNCHANGED <<active, transfer>>
     \/ /\ ValidSlot(flash[commit.slot])
        /\ ~CommitOvertaken
        /\ err = "OK"
        /\ active'   = RecordOf(flash, commit.slot)
        /\ transfer' = Closed

-----------------------------------------------------------------------------
(* The store under any single caller.                                      *)
Lengths == 1..MaxBlocks
Chunks  == Documents \ {<<>>}
StoreErrors == {"OK", "MORE", "INVALID_STATE", "INVALID_CRC", "INVALID_ARG",
                "NOT_SUPPORTED", "NOT_FOUND", "FAIL"}

StoreInit ==
  /\ flash    = [s \in Slots |-> Erased]
  /\ active   = NoRecord
  /\ transfer = Closed
  /\ commit   = NoCommit

StoreNext ==
  \/ StoreReset
  \/ ~Calling /\ HasPrevious /\ StoreSelect(Previous)
  \/ \E base \in Revisions, length \in Lengths, sha \in Documents, err \in StoreErrors :
        StoreBegin(base, length, sha, err)
  \/ \E base \in Revisions : StoreBeginCut(base)
  \/ \E offset \in 0..MaxBlocks, data \in Chunks, err \in StoreErrors :
        StoreWrite(offset, data, err)
  \/ StoreAbort
  \/ \E err \in StoreErrors : StoreCommitHeader(err)
  \/ \E err \in StoreErrors : StoreCommitMarker(err)
  \/ \E err \in StoreErrors : StoreCommitFinish(err)

StoreSpec == StoreInit /\ [][StoreNext]_storeVars

-----------------------------------------------------------------------------
(* Properties *)

\* Every variable has the type its C counterpart gives it.
StoreTypeOK ==
  /\ flash \in [Slots -> Partition]
  /\ active \in Record \union {NoRecord}
  /\ transfer \in Transfer
  /\ commit \in Commit

\* The active record always describes a slot that is whole on the flash: marker,
\* header and document agree with what config_store_active reports, whatever a
\* transfer, a failed write or a restart did since (config_store_read_active
\* reads the slot without checking it again).
ActiveIsIntact ==
  active.slot # NoSlot =>
     /\ ValidSlot(flash[active.slot])
     /\ active = RecordOf(flash, active.slot)

\* Nothing the transfer does ever touches the active slot: while a slot is the
\* active one, neither an erase nor a write nor a restart in their midst changes
\* its partition ("It never erases the current active slot during a transfer",
\* docs/architecture/config-storage.md).
ActiveSlotUntouched ==
  [][active.slot # NoSlot => flash'[active.slot] = flash[active.slot]]_storeVars

\* Whatever the boot may select was compiled by the runtime before its header was
\* written ("Never boot an unvalidated staged document", config-storage.md).
StoredIsExecutable ==
  \A s \in Slots : ValidSlot(flash[s]) => flash[s].header.sha \in Executable

\* At every moment, between any two flash operations, a restart would find the
\* active generation or its successor, never an older one and never none.
RestartFindsActiveOrNext ==
  "scan" \notin Faults =>
     Scan(flash, Slots).revision \in {active.revision, active.revision + 1}

\* The store implements the abstract one: a slot that validates is a stored
\* generation, the active record is the current one.
GenerationOf(f, s) == [revision |-> f[s].header.revision, sha |-> f[s].header.sha]
Stored  == {GenerationOf(flash, s) : s \in {t \in Slots : ValidSlot(flash[t])}}
Current == [revision |-> active.revision, sha |-> active.sha]

Generations == INSTANCE ConfigGenerations WITH stored <- Stored, current <- Current

\* A generation becomes visible to a boot in one step, whole and as the
\* successor of the active one, and is given up only when it is not active.
ImplementsGenerations == Generations!Spec
=============================================================================
