-------------------------- MODULE ConfigStore_proofs --------------------------
(***************************************************************************)
(* Proofs about ConfigStore, for every choice of its constants: its types, *)
(* the integrity of the active slot, what the inactive slot may hold, what *)
(* a restart finds, and that the store implements ConfigGenerations.       *)
(***************************************************************************)
EXTENDS ConfigStore, SequenceTheorems, TLAPS

(* The empty document is a document. *)
LEMMA EmptyDocument == <<>> \in Documents
<1>1. <<>> \in [1..0 -> Blocks]
  OBVIOUS
<1>2. 0 \in 0..MaxBlocks
  BY StoreAssumption
<1> QED
  BY <1>1, <1>2 DEF Documents

(* A document is a sequence of blocks of bounded length. *)
LEMMA DocumentIsSeq ==
  ASSUME NEW d \in Documents
  PROVE  d \in Seq(Blocks) /\ Len(d) \in 0..MaxBlocks
<1>1. PICK n \in 0..MaxBlocks : d \in [1..n -> Blocks]
  BY DEF Documents
<1>2. n \in Nat
  BY <1>1, StoreAssumption
<1> QED
  BY <1>1, <1>2

(* Appending a chunk that fits to a document gives a document. *)
LEMMA AppendedDocument ==
  ASSUME NEW d \in Documents, NEW e \in Documents, Len(d) + Len(e) <= MaxBlocks
  PROVE  d \o e \in Documents /\ Len(d \o e) = Len(d) + Len(e)
<1>1. d \in Seq(Blocks) /\ e \in Seq(Blocks) /\ Len(d) \in Nat /\ Len(e) \in Nat
  BY DocumentIsSeq, StoreAssumption
<1>2. d \o e \in Seq(Blocks) /\ Len(d \o e) = Len(d) + Len(e)
  BY <1>1
<1>3. d \o e \in [1..Len(d \o e) -> Blocks]
  BY <1>2, LenProperties
<1>4. Len(d \o e) \in 0..MaxBlocks
  BY <1>1, <1>2, StoreAssumption
<1> QED
  BY <1>2, <1>3, <1>4 DEF Documents

(* All of a document is the document. *)
LEMMA WholeSubSeq ==
  ASSUME NEW S, NEW d \in Seq(S)
  PROVE  SubSeq(d, 1, Len(d)) = d
<1>1. SubSeq(d, 1, Len(d)) = [i \in 1..Len(d) |-> d[i]]
  BY LenProperties
<1>2. d = [i \in 1..Len(d) |-> d[i]]
  BY LenProperties
<1> QED
  BY <1>1, <1>2

(* Among the slots that validate, the boot scan picks one of the greatest revision. *)
LEMMA NewestIsFound ==
  ASSUME NEW f \in [Slots -> Partition], NEW found \in SUBSET Slots, found # {}
  PROVE  /\ Newest(f, found) \in found
         /\ \A t \in found : f[Newest(f, found)].header.revision >= f[t].header.revision
<1> DEFINE P(s) == \A t \in found :
                     \/ f[s].header.revision > f[t].header.revision
                     \/ f[s].header.revision = f[t].header.revision /\ s <= t
<1>1. \A s \in Slots : f[s].header.revision \in Int
  BY StoreAssumption DEF Partition, Revisions
<1>2. \E s \in found : P(s)
  <2>1. CASE 0 \in found /\ 1 \in found
    <3>1. CASE f[1].header.revision > f[0].header.revision
      <4>1. P(1)
        BY <1>1, <3>1 DEF Slots
      <4> QED
        BY <2>1, <4>1
    <3>2. CASE ~(f[1].header.revision > f[0].header.revision)
      <4>1. P(0)
        BY <1>1, <3>2 DEF Slots
      <4> QED
        BY <2>1, <4>1
    <3> QED
      BY <3>1, <3>2
  <2>2. CASE found = {0} \/ found = {1}
    BY <1>1, <2>2
  <2> QED
    BY <2>1, <2>2 DEF Slots
<1>3. Newest(f, found) \in found /\ P(Newest(f, found))
  BY <1>2 DEF Newest
<1> QED
  BY <1>1, <1>3

-----------------------------------------------------------------------------
(* Type correctness and the integrity of the active slot.                  *)

(* What a transfer's slot holds is as long as the accepted count says. *)
StagedIsCounted ==
  transfer.open =>
     /\ transfer.slot # active.slot
     /\ Len(flash[transfer.slot].body) = transfer.written
     /\ active.revision < MaxRevision

(* The store of a single caller changes under a config_store_commit only by *)
(* that commit's own steps, so what it copied at its start still holds.     *)
CommitIsStaged ==
  Calling =>
     /\ transfer.open
     /\ commit.slot = transfer.slot
     /\ commit.length = transfer.length
     /\ commit.revision = active.revision

IInv ==
  /\ StoreTypeOK
  /\ ActiveIsIntact
  /\ StagedIsCounted
  /\ CommitIsStaged

(* An accepted header is a typed header. *)
LEMMA PartitionParts ==
  ASSUME NEW p \in Partition
  PROVE  /\ p.header.revision \in Revisions /\ p.header.sha \in Documents
         /\ p.marker \in BOOLEAN /\ p.body \in Documents
  BY DEF Partition

(* What an interrupted erase leaves is still a partition. *)
LEMMA PartlyErasedIsPartition ==
  ASSUME NEW p \in Partition, NEW left \in PartlyErased(p)
  PROVE  left \in Partition
<1>1. NoHeader \in [revision : Revisions, sha : Documents] /\ <<>> \in Documents
  BY EmptyDocument, StoreAssumption DEF NoHeader, Revisions
<1>2. CASE left = p
  BY <1>2
<1>3. CASE left = [p EXCEPT !.header = NoHeader, !.marker = FALSE]
  BY <1>1, <1>3 DEF Partition
<1>4. CASE left = Erased
  BY <1>1, <1>4 DEF Erased, Partition
<1> QED
  BY <1>2, <1>3, <1>4 DEF PartlyErased

(* No transfer is a transfer record. *)
LEMMA ClosedIsTransfer == Closed \in Transfer
BY EmptyDocument, StoreAssumption DEF Closed, Transfer, Slots

(* The boot scan yields no record, or the record of a slot that validates. *)
LEMMA ScanIsIntact ==
  ASSUME NEW f \in [Slots -> Partition], NEW readable \in SUBSET Slots
  PROVE  \/ Scan(f, readable) = NoRecord
         \/ \E s \in readable : /\ ValidSlot(f[s])
                                /\ Scan(f, readable) = RecordOf(f, s)
<1> DEFINE found == Found(f, readable)
<1>1. found \in SUBSET Slots /\ \A s \in found : s \in readable /\ ValidSlot(f[s])
  BY DEF Found
<1>2. CASE found = {}
  BY <1>2 DEF Scan
<1>3. CASE found # {}
  <2>1. Newest(f, found) \in found
    BY <1>1, <1>3, NewestIsFound
  <2>2. Scan(f, readable) = RecordOf(f, Newest(f, found))
    BY <1>3 DEF Scan
  <2> QED
    BY <1>1, <2>1, <2>2
<1> QED
  BY <1>2, <1>3

(* A restart on a typed flash re-establishes the invariant. *)
LEMMA RestartedIInv ==
  ASSUME NEW f \in [Slots -> Partition], Restarted(f)
  PROVE  IInv'
<1>1. PICK readable \in SUBSET Slots : active' = Scan(f, readable)
  BY DEF Restarted, Readable
<1>2. flash' = f /\ transfer' = Closed /\ commit' = NoCommit
  BY DEF Restarted
<1>3. \/ active' = NoRecord
      \/ \E s \in Slots : ValidSlot(f[s]) /\ active' = RecordOf(f, s)
  BY <1>1, ScanIsIntact
<1>4. active' \in Record \union {NoRecord}
  <2>1. ASSUME NEW s \in Slots, active' = RecordOf(f, s)
        PROVE  active' \in Record
    BY <2>1, PartitionParts DEF RecordOf, Record
  <2> QED
    BY <1>3, <2>1
<1>5. ActiveIsIntact'
  BY <1>2, <1>3 DEF ActiveIsIntact, NoRecord, NoSlot, RecordOf
<1>6. transfer' \in Transfer /\ commit' \in Commit
  BY <1>2, EmptyDocument, StoreAssumption DEF Closed, NoCommit, Transfer, Commit, Slots, Revisions
<1>7. StagedIsCounted' /\ CommitIsStaged'
  BY <1>2 DEF StagedIsCounted, CommitIsStaged, Calling, Closed, NoCommit
<1> QED
  BY <1>2, <1>4, <1>5, <1>6, <1>7 DEF IInv, StoreTypeOK

(* The initial store satisfies the invariant. *)
LEMMA InitIInv == StoreInit => IInv
<1> SUFFICES ASSUME StoreInit PROVE IInv
  OBVIOUS
<1> USE DEF StoreInit
<1>1. Erased \in Partition
  BY EmptyDocument, StoreAssumption DEF Erased, NoHeader, Partition, Revisions
<1>2. transfer \in Transfer /\ commit \in Commit
  BY EmptyDocument, StoreAssumption DEF Closed, NoCommit, Transfer, Commit, Slots, Revisions
<1>3. ActiveIsIntact /\ StagedIsCounted /\ CommitIsStaged
  BY DEF ActiveIsIntact, StagedIsCounted, CommitIsStaged, Calling, Closed, NoCommit, NoRecord, NoSlot
<1> QED
  BY <1>1, <1>2, <1>3 DEF IInv, StoreTypeOK
-----------------------------------------------------------------------------
(* Each step of the store preserves the invariant and leaves the active    *)
(* slot as it is.                                                          *)

Untouched == active.slot # NoSlot => flash'[active.slot] = flash[active.slot]

(* The slot a transfer is given is never the active one. *)
LEMMA TargetIsApart ==
  ASSUME IInv
  PROVE  Target \in Slots /\ Target # active.slot
BY DEF IInv, StoreTypeOK, Record, NoRecord, NoSlot, Target, Slots

(* Changing one partition to another typed one keeps the flash typed. *)
LEMMA FlashUpdate ==
  ASSUME NEW f \in [Slots -> Partition], NEW s \in Slots, NEW p \in Partition
  PROVE  [f EXCEPT ![s] = p] \in [Slots -> Partition]
OBVIOUS

(* A restart keeps the invariant.                                          *)
LEMMA ResetStep == ASSUME IInv, StoreReset PROVE IInv' /\ Untouched
<1>1. IInv'
  BY RestartedIInv DEF StoreReset, IInv, StoreTypeOK
<1> QED
  BY <1>1 DEF StoreReset, Restarted, Untouched

(* A fallback keeps the invariant.                                         *)
LEMMA SelectStep ==
  ASSUME IInv, ~Calling, NEW record, StoreSelect(record)
  PROVE  IInv' /\ Untouched
<1> USE DEF StoreSelect
<1>1. record \in Record
  BY PartitionParts DEF RecordOf, Record, IInv, StoreTypeOK
<1>2. StoreTypeOK'
  BY <1>1 DEF IInv, StoreTypeOK
<1>3. ActiveIsIntact'
  BY DEF ActiveIsIntact, RecordOf
<1>4. StagedIsCounted' /\ CommitIsStaged'
  BY DEF StagedIsCounted, CommitIsStaged, Calling
<1> QED
  BY <1>2, <1>3, <1>4 DEF IInv, Untouched

(* A begin keeps the invariant and the active slot.                        *)
LEMMA BeginStep ==
  ASSUME IInv, NEW base, NEW length \in Lengths, NEW sha \in Documents, NEW err,
         StoreBegin(base, length, sha, err)
  PROVE  IInv' /\ Untouched
<1> USE DEF StoreBegin
<1>1. CASE UNCHANGED <<flash, transfer>>
  BY <1>1 DEF IInv, StoreTypeOK, ActiveIsIntact, StagedIsCounted, CommitIsStaged, Calling,
              RecordOf, Untouched
<1>2. CASE \E left \in Partition :
             /\ ~BeginRefused(base)
             /\ flash' = [flash EXCEPT ![Target] = left]
             /\ \/ transfer' = Closed
                \/ /\ left = Erased
                   /\ transfer' = [open |-> TRUE, slot |-> Target, length |-> length,
                                   written |-> 0, sha |-> sha]
  <2>1. PICK left \in Partition :
             /\ ~BeginRefused(base)
             /\ flash' = [flash EXCEPT ![Target] = left]
             /\ \/ transfer' = Closed
                \/ /\ left = Erased
                   /\ transfer' = [open |-> TRUE, slot |-> Target, length |-> length,
                                   written |-> 0, sha |-> sha]
    BY <1>2
  <2>2. Target \in Slots /\ Target # active.slot
    BY TargetIsApart
  <2>3. flash' \in [Slots -> Partition]
    BY <2>1, <2>2, FlashUpdate DEF IInv, StoreTypeOK
  <2>4. transfer' \in Transfer
    <3>1. CASE transfer' = Closed
      BY <3>1, ClosedIsTransfer
    <3>2. CASE transfer' = [open |-> TRUE, slot |-> Target, length |-> length,
                            written |-> 0, sha |-> sha]
      <4>1. length \in 0..MaxBlocks /\ 0 \in 0..MaxBlocks
        BY StoreAssumption DEF Lengths
      <4> QED
        BY <2>2, <3>2, <4>1 DEF Transfer
    <3> QED
      BY <2>1, <3>1, <3>2
  <2>5. Untouched /\ ActiveIsIntact'
    BY <2>1, <2>2 DEF Untouched, ActiveIsIntact, RecordOf, IInv, StoreTypeOK, Record, NoRecord, NoSlot
  <2>6. active.revision < MaxRevision
    BY <2>1, StoreAssumption DEF BeginRefused, IInv, StoreTypeOK, Record, NoRecord, Revisions
  <2>7. StagedIsCounted'
    BY <2>1, <2>2, <2>6 DEF StagedIsCounted, Closed, Erased, IInv, StoreTypeOK
  <2>8. CommitIsStaged'
    BY DEF CommitIsStaged, Calling
  <2> QED
    BY <2>3, <2>4, <2>5, <2>7, <2>8 DEF IInv, StoreTypeOK
<1>3. Erased \in Partition
  BY EmptyDocument, StoreAssumption DEF Erased, NoHeader, Partition, Revisions
<1>4. \A left \in PartlyErased(flash[Target]) : left \in Partition
  BY TargetIsApart, PartlyErasedIsPartition DEF IInv, StoreTypeOK
<1> QED
  BY <1>1, <1>2, <1>3, <1>4

(* So does one that a power cut ends.                                      *)
LEMMA BeginCutStep ==
  ASSUME IInv, NEW base, StoreBeginCut(base)
  PROVE  IInv' /\ Untouched
<1>1. PICK left \in PartlyErased(flash[Target]) : Restarted([flash EXCEPT ![Target] = left])
  BY DEF StoreBeginCut
<1>2. Target \in Slots /\ Target # active.slot
  BY TargetIsApart
<1>3. left \in Partition
  BY <1>1, <1>2, PartlyErasedIsPartition DEF IInv, StoreTypeOK
<1>4. [flash EXCEPT ![Target] = left] \in [Slots -> Partition]
  BY <1>2, <1>3, FlashUpdate DEF IInv, StoreTypeOK
<1>5. IInv'
  BY <1>1, <1>4, RestartedIInv
<1> QED
  BY <1>1, <1>2, <1>5 DEF Restarted, Untouched, IInv, StoreTypeOK, Record, NoRecord, NoSlot

(* A write keeps the invariant and the active slot.                        *)
LEMMA WriteStep ==
  ASSUME IInv, NEW offset \in 0..MaxBlocks, NEW data \in Chunks, NEW err,
         StoreWrite(offset, data, err)
  PROVE  IInv' /\ Untouched
<1> USE DEF StoreWrite
<1>1. CASE UNCHANGED <<flash, transfer>>
  BY <1>1 DEF IInv, StoreTypeOK, ActiveIsIntact, StagedIsCounted, CommitIsStaged, Calling,
              RecordOf, Untouched
<1>2. CASE /\ ~WriteOutOfBounds(offset, data)
           /\ offset = transfer.written
           /\ flash' = [flash EXCEPT ![transfer.slot].body = SubSeq(@, 1, offset) \o data]
           /\ transfer' = [transfer EXCEPT !.written = @ + Len(data)]
  <2> DEFINE p == flash[transfer.slot]
  <2>1. /\ transfer.open /\ transfer \in Transfer
        /\ transfer.slot \in Slots /\ transfer.slot # active.slot
        /\ transfer.length \in 0..MaxBlocks /\ transfer.written \in 0..MaxBlocks
        /\ Len(p.body) = transfer.written /\ active.revision < MaxRevision
        /\ p \in Partition /\ p.body \in Documents
    BY <1>2, PartitionParts DEF WriteOutOfBounds, IInv, StoreTypeOK, StagedIsCounted, Transfer
  <2>2. data \in Documents /\ Len(data) \in Nat
    BY DocumentIsSeq, StoreAssumption DEF Chunks
  <2>3. transfer.written + Len(data) \in 0..MaxBlocks
    BY <1>2, <2>1, <2>2, StoreAssumption DEF WriteOutOfBounds
  <2>4. p.body \o data \in Documents /\ Len(p.body \o data) = transfer.written + Len(data)
    <3> HIDE DEF StoreWrite, p
    <3>1. Len(p.body) + Len(data) <= MaxBlocks
      BY <2>1, <2>3
    <3>2. p.body \in Documents /\ data \in Documents /\ Len(p.body) = transfer.written
      BY <2>1, <2>2
    <3> QED
      BY <3>1, <3>2, AppendedDocument
  <2>5. [p EXCEPT !.body = p.body \o data] \in Partition
    BY <2>1, <2>4 DEF Partition
  <2>6. flash' = [flash EXCEPT ![transfer.slot] = [p EXCEPT !.body = p.body \o data]]
    <3>1. p.body \in Seq(Blocks)
      BY <2>1, DocumentIsSeq
    <3>2. SubSeq(p.body, 1, offset) = p.body
      BY <1>2, <2>1, <3>1, WholeSubSeq
    <3> QED
      BY <1>2, <2>1, <3>2 DEF IInv, StoreTypeOK
  <2>7. flash' \in [Slots -> Partition]
    BY <2>1, <2>5, <2>6, FlashUpdate DEF IInv, StoreTypeOK
  <2>8. transfer' \in Transfer
    BY <1>2, <2>1, <2>3 DEF Transfer
  <2>9. Untouched /\ ActiveIsIntact'
    BY <2>1, <2>6 DEF Untouched, ActiveIsIntact, RecordOf, IInv, StoreTypeOK, Record, NoRecord, NoSlot
  <2>10. flash'[transfer.slot].body = p.body \o data
    BY <2>1, <2>6 DEF IInv, StoreTypeOK, Partition
  <2>11. StagedIsCounted'
    BY <1>2, <2>1, <2>4, <2>10 DEF StagedIsCounted, Transfer
  <2>12. CommitIsStaged'
    BY DEF CommitIsStaged, Calling
  <2> QED
    BY <2>7, <2>8, <2>9, <2>11, <2>12 DEF IInv, StoreTypeOK
<1> QED
  BY <1>1, <1>2 DEF WriteIsNext

(* An abort keeps the invariant and the active slot.                       *)
LEMMA AbortStep ==
  ASSUME IInv, StoreAbort
  PROVE  IInv' /\ Untouched
<1> USE DEF StoreAbort
<1>1. transfer' \in Transfer
  BY EmptyDocument, StoreAssumption DEF Closed, Transfer, Slots
<1> QED
  BY <1>1 DEF IInv, StoreTypeOK, ActiveIsIntact, StagedIsCounted, CommitIsStaged, Calling,
              RecordOf, Closed, Untouched
(* While a transfer is staged, its slot is a slot apart from the active one. *)
LEMMA StagedSlot ==
  ASSUME IInv, transfer.open
  PROVE  /\ transfer \in Transfer /\ transfer.slot \in Slots /\ transfer.slot # active.slot
         /\ transfer.length \in 0..MaxBlocks /\ transfer.sha \in Documents
         /\ flash[transfer.slot] \in Partition
         /\ active.revision \in Revisions /\ active.revision + 1 \in Revisions
<1>1. transfer \in Transfer /\ transfer.slot # active.slot /\ active.revision < MaxRevision
  BY DEF IInv, StoreTypeOK, StagedIsCounted
<1>2. active.revision \in Revisions
  BY StoreAssumption DEF IInv, StoreTypeOK, Record, NoRecord, Revisions
<1>3. active.revision + 1 \in Revisions
  BY <1>1, <1>2, StoreAssumption DEF Revisions
<1> QED
  BY <1>1, <1>2, <1>3 DEF Transfer, IInv, StoreTypeOK

(* Writing the header or the marker of the staged slot disturbs nothing else. *)
LEMMA StagedHeaderWrite ==
  ASSUME IInv, transfer.open, NEW header \in [revision : Revisions, sha : Documents],
         NEW marker \in BOOLEAN,
         flash' = [flash EXCEPT ![transfer.slot] =
                     [flash[transfer.slot] EXCEPT !.header = header, !.marker = marker]],
         UNCHANGED <<active, transfer>>
  PROVE  /\ flash' \in [Slots -> Partition]
         /\ active' \in Record \union {NoRecord} /\ transfer' \in Transfer
         /\ ActiveIsIntact' /\ StagedIsCounted' /\ Untouched
<1> DEFINE p == [flash[transfer.slot] EXCEPT !.header = header, !.marker = marker]
<1>1. p \in Partition /\ p.body = flash[transfer.slot].body
  BY StagedSlot DEF Partition
<1>2. flash' \in [Slots -> Partition]
  BY <1>1, StagedSlot, FlashUpdate DEF IInv, StoreTypeOK
<1>3. flash'[transfer.slot] = p
        /\ \A s \in Slots : s # transfer.slot => flash'[s] = flash[s]
  BY <1>1, StagedSlot DEF IInv, StoreTypeOK
<1>4. ActiveIsIntact' /\ Untouched
  BY <1>3, StagedSlot DEF Untouched, ActiveIsIntact, RecordOf, IInv, StoreTypeOK, Record,
                          NoRecord, NoSlot
<1>5. StagedIsCounted'
  BY <1>1, <1>3 DEF StagedIsCounted, IInv
<1> QED
  BY <1>2, <1>4, <1>5 DEF IInv, StoreTypeOK

(* So does the first part of a commit, up to its header,                   *)
LEMMA CommitHeaderStep ==
  ASSUME IInv, NEW err, StoreCommitHeader(err)
  PROVE  IInv' /\ Untouched
<1>1. CASE UNCHANGED storeVars
  BY <1>1 DEF storeVars, IInv, StoreTypeOK, ActiveIsIntact, StagedIsCounted, CommitIsStaged,
              Calling, RecordOf, Untouched
<1>2. CASE /\ StagedCheck = "OK"
           /\ UNCHANGED <<active, transfer>>
           /\ flash' = [flash EXCEPT ![transfer.slot].header = NewHeader]
           /\ \/ commit' = commit /\ ~Calling
              \/ commit' = [at |-> "marker", slot |-> transfer.slot,
                            revision |-> active.revision, length |-> transfer.length]
  <2>1. transfer.open
    BY <1>2 DEF StagedCheck
  <2>2. NewHeader \in [revision : Revisions, sha : Documents]
    BY <2>1, StagedSlot DEF NewHeader
  <2>3. flash[transfer.slot].marker \in BOOLEAN
    BY <2>1, StagedSlot DEF Partition
  <2>4. flash' = [flash EXCEPT ![transfer.slot] =
                    [flash[transfer.slot] EXCEPT !.header = NewHeader,
                                                 !.marker = flash[transfer.slot].marker]]
    BY <1>2, <2>1, StagedSlot DEF Partition
  <2>5. /\ flash' \in [Slots -> Partition]
        /\ active' \in Record \union {NoRecord} /\ transfer' \in Transfer
        /\ ActiveIsIntact' /\ StagedIsCounted' /\ Untouched
    BY <1>2, <2>1, <2>2, <2>3, <2>4, StagedHeaderWrite
  <2>6. commit' \in Commit /\ CommitIsStaged'
    BY <1>2, <2>1, StagedSlot DEF Commit, CommitIsStaged, Calling, IInv, StoreTypeOK
  <2> QED
    BY <2>5, <2>6 DEF IInv, StoreTypeOK
<1> QED
  BY <1>1, <1>2 DEF StoreCommitHeader, storeVars

(* the second, which writes the marker,                                    *)
LEMMA CommitMarkerStep ==
  ASSUME IInv, NEW err, StoreCommitMarker(err)
  PROVE  IInv' /\ Untouched
<1>1. transfer.open /\ commit.slot = transfer.slot /\ UNCHANGED <<active, transfer>>
  BY DEF StoreCommitMarker, CommitIsStaged, Calling, IInv
<1>2. PICK written \in BOOLEAN : flash' = [flash EXCEPT ![commit.slot].marker = written]
  BY DEF StoreCommitMarker
<1>3. flash[transfer.slot].header \in [revision : Revisions, sha : Documents]
  BY <1>1, StagedSlot DEF Partition
<1>4. flash' = [flash EXCEPT ![transfer.slot] =
                  [flash[transfer.slot] EXCEPT !.header = flash[transfer.slot].header,
                                               !.marker = written]]
  BY <1>1, <1>2, StagedSlot DEF Partition
<1>5. /\ flash' \in [Slots -> Partition]
      /\ active' \in Record \union {NoRecord} /\ transfer' \in Transfer
      /\ ActiveIsIntact' /\ StagedIsCounted' /\ Untouched
  BY <1>1, <1>3, <1>4, StagedHeaderWrite
<1>6. commit \in Commit
  BY DEF IInv, StoreTypeOK
<1>7. NoCommit \in Commit
  BY StoreAssumption DEF NoCommit, Commit, Slots, Revisions
<1>8. commit' \in Commit /\ CommitIsStaged'
  BY <1>1, <1>6, <1>7 DEF StoreCommitMarker, CommitIsStaged, Calling, IInv, Commit, NoCommit
<1> QED
  BY <1>5, <1>8 DEF IInv, StoreTypeOK

(* and the last, which reads the slot back.                                *)
LEMMA CommitFinishStep ==
  ASSUME IInv, NEW err, StoreCommitFinish(err)
  PROVE  IInv' /\ Untouched
<1>1. commit' = NoCommit /\ flash' = flash
  BY DEF StoreCommitFinish
<1>2. commit' \in Commit /\ CommitIsStaged'
  BY <1>1, StoreAssumption DEF NoCommit, Commit, Slots, Revisions, CommitIsStaged, Calling
<1>3. CASE UNCHANGED <<active, transfer>>
  BY <1>1, <1>2, <1>3 DEF IInv, StoreTypeOK, ActiveIsIntact, StagedIsCounted, RecordOf, Untouched
<1>4. CASE /\ ValidSlot(flash[commit.slot])
           /\ active' = RecordOf(flash, commit.slot)
           /\ transfer' = Closed
  <2>1. commit.slot \in Slots
    BY DEF IInv, StoreTypeOK, Commit
  <2>2. active' \in Record
    BY <1>4, <2>1, PartitionParts DEF RecordOf, Record, IInv, StoreTypeOK
  <2>3. ActiveIsIntact'
    BY <1>1, <1>4 DEF ActiveIsIntact, RecordOf
  <2>4. StagedIsCounted'
    BY <1>4 DEF StagedIsCounted, Closed
  <2> QED
    BY <1>1, <1>2, <1>4, <2>2, <2>3, <2>4, ClosedIsTransfer DEF IInv, StoreTypeOK, Untouched
<1> QED
  BY <1>3, <1>4 DEF StoreCommitFinish

(* Every step keeps the invariant, and the active slot while a commit runs. *)
LEMMA NextStep ==
  ASSUME IInv, [StoreNext]_storeVars
  PROVE  IInv' /\ (Untouched \/ UNCHANGED storeVars)
<1>1. CASE StoreReset
  BY <1>1, ResetStep
<1>2. CASE ~Calling /\ HasPrevious /\ StoreSelect(Previous)
  BY <1>2, SelectStep
<1>3. CASE \E base \in Revisions, length \in Lengths, sha \in Documents, err \in StoreErrors :
              StoreBegin(base, length, sha, err)
  BY <1>3, BeginStep
<1>4. CASE \E base \in Revisions : StoreBeginCut(base)
  BY <1>4, BeginCutStep
<1>5. CASE \E offset \in 0..MaxBlocks, data \in Chunks, err \in StoreErrors :
              StoreWrite(offset, data, err)
  BY <1>5, WriteStep
<1>6. CASE StoreAbort
  BY <1>6, AbortStep
<1>7. CASE \E err \in StoreErrors : StoreCommitHeader(err)
  BY <1>7, CommitHeaderStep
<1>8. CASE \E err \in StoreErrors : StoreCommitMarker(err)
  BY <1>8, CommitMarkerStep
<1>9. CASE \E err \in StoreErrors : StoreCommitFinish(err)
  BY <1>9, CommitFinishStep
<1>10. CASE UNCHANGED storeVars
  BY <1>10 DEF storeVars, IInv, StoreTypeOK, ActiveIsIntact, StagedIsCounted, CommitIsStaged,
               Calling, RecordOf
<1> QED
  BY <1>1, <1>2, <1>3, <1>4, <1>5, <1>6, <1>7, <1>8, <1>9, <1>10 DEF StoreNext

-----------------------------------------------------------------------------
(* Every variable of config_store.c keeps its type, for every number of    *)
(* blocks, every revision width, every validator and every fault.          *)
THEOREM StoreTypeCorrect == StoreSpec => []StoreTypeOK
<1>1. IInv /\ [StoreNext]_storeVars => IInv'
  BY NextStep
<1>2. IInv => StoreTypeOK
  BY DEF IInv
<1> QED
  BY InitIInv, <1>1, <1>2, PTL DEF StoreSpec

(* What config_store_active reports is whole on the flash in every state,  *)
(* restarts, failed writes and cut erases included.                        *)
THEOREM ActiveAlwaysIntact == StoreSpec => []ActiveIsIntact
<1>1. IInv /\ [StoreNext]_storeVars => IInv'
  BY NextStep
<1>2. IInv => ActiveIsIntact
  BY DEF IInv
<1> QED
  BY InitIInv, <1>1, <1>2, PTL DEF StoreSpec

(* No step of the store, a restart in the middle of an erase included,     *)
(* changes the partition of the active slot.                               *)
THEOREM ActiveNeverTouched == StoreSpec => ActiveSlotUntouched
<1>1. IInv /\ [StoreNext]_storeVars => IInv'
  BY NextStep
<1>2. IInv /\ [StoreNext]_storeVars
        => [active.slot # NoSlot => flash'[active.slot] = flash[active.slot]]_storeVars
  BY NextStep DEF Untouched
<1> QED
  BY InitIInv, <1>1, <1>2, PTL DEF StoreSpec, ActiveSlotUntouched

-----------------------------------------------------------------------------
(* What the slots hold.  A header is in the transfer's slot only when the  *)
(* checks of the commit have passed, and no marker is beside an older one; *)
(* what an inactive slot may hold follows, and with it what a restart      *)
(* finds, as long as the boot scan itself meets no fault.                  *)

(* The transfer is what the checks of config_store_commit let through. *)
Committable ==
  /\ transfer.written = transfer.length
  /\ flash[transfer.slot].body = transfer.sha
  /\ <<transfer.sha, active.revision>> \in Valid
  /\ transfer.sha \in Executable

(* The slot of the open transfer has no header, or that of its commit. *)
HeaderInv ==
  transfer.open =>
    /\ transfer.slot = Target
    /\ \/ ~Calling /\ flash[transfer.slot].header = NoHeader /\ ~flash[transfer.slot].marker
       \/ flash[transfer.slot].header = NewHeader /\ Committable
    /\ commit.at = "marker" => ~flash[transfer.slot].marker

(* Two slots that validate are a generation and its successor. *)
Adjacent ==
  "scan" \notin Faults =>
    \A s \in Slots : s # active.slot /\ ValidSlot(flash[s]) =>
      IF active.slot = NoSlot THEN s = 0 /\ flash[s].header.revision = 1
      ELSE flash[s].header.revision \in {active.revision - 1, active.revision + 1}

SlotsInv == IInv /\ HeaderInv /\ Adjacent /\ StoredIsExecutable

(* What is shown of every step: it keeps the rest of SlotsInv, and it is a *)
(* step of the abstract store, or none.                                    *)
StepsAbstractly == "scan" \notin Faults => Generations!Next \/ UNCHANGED <<Stored, Current>>
StepSound == HeaderInv' /\ Adjacent' /\ StoredIsExecutable' /\ StepsAbstractly

(* No slot that validates is touched, none comes to validate. *)
KeepsStored ==
  \A s \in Slots : (ValidSlot(flash[s]) \/ ValidSlot(flash'[s])) => flash'[s] = flash[s]

(* The generations in a flash f *)
StoredIn(f) == {GenerationOf(f, s) : s \in {t \in Slots : ValidSlot(f[t])}}

(* Stored is what is in the flash, before a step and after it. *)
LEMMA StoredIsIn == Stored = StoredIn(flash) /\ Stored' = StoredIn(flash')
BY DEF Stored, StoredIn, GenerationOf

(* A generation is stored when a slot that validates holds it. *)
LEMMA InStored ==
  ASSUME NEW f, NEW g
  PROVE  g \in StoredIn(f) <=> \E s \in Slots : ValidSlot(f[s]) /\ g = GenerationOf(f, s)
BY DEF StoredIn

(* Slots that keep their generations store the same ones. *)
LEMMA SameStored ==
  ASSUME NEW f, NEW g,
         \A s \in Slots : (ValidSlot(f[s]) \/ ValidSlot(g[s])) => g[s] = f[s]
  PROVE  StoredIn(g) = StoredIn(f)
<1>1. \A s \in Slots : ValidSlot(f[s]) <=> ValidSlot(g[s])
  OBVIOUS
<1>2. \A s \in Slots : ValidSlot(f[s]) => GenerationOf(f, s) = GenerationOf(g, s)
  BY DEF GenerationOf
<1>3. \A x : x \in StoredIn(g) <=> x \in StoredIn(f)
  BY <1>1, <1>2, InStored
<1> QED
  BY <1>3

(* A slot without its marker, or without a revision, does not validate. *)
LEMMA NotValid ==
  ASSUME NEW p, ~p.marker \/ p.header.revision = 0
  PROVE  ~ValidSlot(p)
BY DEF ValidSlot

(* What an erase leaves is what was there, or does not validate. *)
LEMMA LeftByErase ==
  ASSUME NEW p \in Partition, NEW left \in PartlyErased(p), ValidSlot(left)
  PROVE  left = p
<1>1. CASE left = [p EXCEPT !.header = NoHeader, !.marker = FALSE]
  BY <1>1, NotValid DEF Partition
<1>2. CASE left = Erased
  BY <1>2, NotValid DEF Erased
<1> QED
  BY <1>1, <1>2 DEF PartlyErased

(* What the types say of revisions and of the active record *)
LEMMA RecordFacts ==
  ASSUME IInv
  PROVE  /\ \A s \in Slots : flash[s] \in Partition /\ flash[s].header.revision \in Nat
         /\ active.revision \in Nat
         /\ active.slot # NoSlot => /\ active.slot \in Slots /\ ValidSlot(flash[active.slot])
                                    /\ active.revision = flash[active.slot].header.revision
                                    /\ active.sha = flash[active.slot].header.sha
         /\ active.slot = NoSlot => active = NoRecord /\ active.revision = 0
<1>1. \A s \in Slots : flash[s] \in Partition /\ flash[s].header.revision \in Nat
  BY PartitionParts, StoreAssumption DEF IInv, StoreTypeOK, Revisions
<1>2. active.revision \in Nat
  BY StoreAssumption DEF IInv, StoreTypeOK, Record, NoRecord, Revisions
<1>3. ASSUME active.slot # NoSlot
      PROVE  /\ active.slot \in Slots /\ ValidSlot(flash[active.slot])
             /\ active.revision = flash[active.slot].header.revision
             /\ active.sha = flash[active.slot].header.sha
  BY <1>3 DEF IInv, StoreTypeOK, ActiveIsIntact, RecordOf, Record, NoRecord
<1>4. active.slot = NoSlot => active = NoRecord /\ active.revision = 0
  BY DEF IInv, StoreTypeOK, Record, NoRecord, NoSlot, Slots
<1> QED
  BY <1>1, <1>2, <1>3, <1>4

(* The current generation is the one of the active slot, and no other slot *)
(* holds it.                                                               *)
LEMMA CurrentFacts ==
  ASSUME IInv, Adjacent
  PROVE  /\ active.slot # NoSlot => Current = GenerationOf(flash, active.slot) /\ Current \in Stored
         /\ active.slot = NoSlot => Current = Generations!Nothing
         /\ "scan" \notin Faults =>
              \A s \in Slots : s # active.slot /\ ValidSlot(flash[s]) => GenerationOf(flash, s) # Current
<1>1. ASSUME active.slot # NoSlot
      PROVE  Current = GenerationOf(flash, active.slot) /\ Current \in Stored
  <2>1. Current = GenerationOf(flash, active.slot)
    BY <1>1, RecordFacts DEF Current, GenerationOf
  <2> QED
    BY <1>1, <2>1, RecordFacts, InStored, StoredIsIn
<1>2. active.slot = NoSlot => Current = Generations!Nothing
  BY RecordFacts DEF Current, NoRecord, Generations!Nothing
<1>3. ASSUME "scan" \notin Faults, NEW s \in Slots, s # active.slot, ValidSlot(flash[s])
      PROVE  GenerationOf(flash, s) # Current
  <2>1. flash[s].header.revision # active.revision
    BY <1>3, RecordFacts DEF Adjacent
  <2> QED
    BY <2>1 DEF GenerationOf, Current
<1> QED
  BY <1>1, <1>2, <1>3

-----------------------------------------------------------------------------
(* A restart finds the newest generation, whatever an erase has left.      *)
LEMMA RestartedSound ==
  ASSUME SlotsInv, NEW f \in [Slots -> Partition], Restarted(f),
         \A s \in Slots : ValidSlot(f[s]) => f[s] = flash[s],
         active.slot # NoSlot => f[active.slot] = flash[active.slot]
  PROVE  StepSound
<1>1. flash' = f /\ transfer' = Closed /\ commit' = NoCommit
  BY DEF Restarted
<1>2. HeaderInv'
  BY <1>1 DEF HeaderInv, Closed
<1>3. StoredIsExecutable'
  BY <1>1 DEF SlotsInv, StoredIsExecutable
<1>4. ASSUME "scan" \notin Faults
      PROVE  Adjacent' /\ Generations!Next
  <2> DEFINE found == Found(f, Slots)
             n == Newest(f, found)
  <2>1. active' = Scan(f, Slots)
    BY <1>4 DEF Restarted, Readable
  <2>2. found \in SUBSET Slots /\ \A s \in Slots : s \in found <=> ValidSlot(f[s])
    BY DEF Found
  <2>3. \A s \in found : f[s] = flash[s] /\ ValidSlot(flash[s]) /\ f[s].header.revision \in Nat
    BY <2>2, RecordFacts DEF SlotsInv
  <2>4. ASSUME NEW s \in found, NEW t \in found, s # t
        PROVE  \/ f[s].header.revision = f[t].header.revision - 1
               \/ f[s].header.revision = f[t].header.revision + 1
    <3>1. CASE active.slot = NoSlot
      BY <1>4, <2>2, <2>3, <2>4, <3>1 DEF SlotsInv, Adjacent, NoSlot, Slots
    <3>2. CASE active.slot # NoSlot
      <4>1. active.slot \in Slots /\ active.revision = flash[active.slot].header.revision
        BY <3>2, RecordFacts DEF SlotsInv
      <4>2. s = active.slot \/ t = active.slot
        BY <2>2, <2>4, <4>1 DEF Slots
      <4>3. CASE s = active.slot
        BY <1>4, <2>2, <2>3, <2>4, <3>2, <4>1, <4>3 DEF SlotsInv, Adjacent
      <4>4. CASE t = active.slot
        BY <1>4, <2>2, <2>3, <2>4, <3>2, <4>1, <4>4 DEF SlotsInv, Adjacent
      <4> QED
        BY <4>2, <4>3, <4>4
    <3> QED
      BY <3>1, <3>2
  <2>5. StoredIn(f) \subseteq StoredIn(flash)
    <3> SUFFICES ASSUME NEW g \in StoredIn(f) PROVE g \in StoredIn(flash)
      OBVIOUS
    <3>1. PICK s \in Slots : ValidSlot(f[s]) /\ g = GenerationOf(f, s)
      BY InStored
    <3>2. ValidSlot(flash[s]) /\ g = GenerationOf(flash, s)
      BY <3>1 DEF GenerationOf
    <3> QED
      BY <3>2, InStored
  <2>6. Stored \ Stored' \in SUBSET (Stored \ {Current})
    <3> SUFFICES ASSUME Current \in Stored PROVE Current \in Stored'
      OBVIOUS
    <3>1. PICK s \in Slots : ValidSlot(flash[s]) /\ Current = GenerationOf(flash, s)
      BY InStored, StoredIsIn
    <3>2. s = active.slot
      BY <1>4, <3>1, CurrentFacts DEF SlotsInv
    <3>3. f[s] = flash[s]
      BY <3>2 DEF NoSlot, Slots
    <3>4. ValidSlot(f[s]) /\ Current = GenerationOf(f, s)
      BY <3>1, <3>3 DEF GenerationOf
    <3> QED
      BY <1>1, <3>4, InStored, StoredIsIn
  <2>7. Stored' = Stored \ (Stored \ Stored')
    BY <1>1, <2>5, StoredIsIn
  <2>8. CASE found = {}
    <3>1. active' = NoRecord
      BY <2>1, <2>8 DEF Scan
    <3>2. Adjacent'
      BY <1>1, <2>2, <2>8 DEF Adjacent
    <3>3. Stored' = {}
      BY <1>1, <2>2, <2>8, InStored, StoredIsIn
    <3>4. Current' = Generations!Nothing
      BY <3>1 DEF Current, NoRecord, Generations!Nothing
    <3>5. Generations!NewestOf(Stored', Current')
      BY <3>3, <3>4 DEF Generations!NewestOf
    <3> QED
      BY <2>6, <2>7, <3>2, <3>4, <3>5 DEF Generations!Next, Generations!Restart
  <2>9. CASE found # {}
    <3>1. n \in found /\ \A t \in found : f[n].header.revision >= f[t].header.revision
      BY <2>2, <2>9, NewestIsFound
    <3>2. active' = RecordOf(f, n)
      BY <2>1, <2>9 DEF Scan
    <3> HIDE DEF n, found
    <3>3. n \in Slots /\ active'.slot = n /\ active'.revision = f[n].header.revision /\ n # NoSlot
      BY <2>2, <3>1, <3>2 DEF RecordOf, NoSlot, Slots
    <3>4. Adjacent'
      <4> SUFFICES ASSUME NEW s \in Slots, s # n, ValidSlot(f[s])
                   PROVE  f[s].header.revision \in {f[n].header.revision - 1, f[n].header.revision + 1}
        BY <1>1, <3>3 DEF Adjacent
      <4> QED
        BY <2>2, <2>3, <2>4, <3>1, <3>3
    <3>5. Current' = GenerationOf(f, n)
      BY <3>2 DEF Current, RecordOf, GenerationOf
    <3>6. Current' \in Stored'
      BY <1>1, <2>2, <3>1, <3>3, <3>5, InStored, StoredIsIn
    <3>7. \A h \in Stored' : Current'.revision >= h.revision
      <4> SUFFICES ASSUME NEW h \in StoredIn(f) PROVE Current'.revision >= h.revision
        BY <1>1, StoredIsIn
      <4>1. PICK s \in Slots : ValidSlot(f[s]) /\ h = GenerationOf(f, s)
        BY InStored
      <4> QED
        BY <2>2, <3>1, <3>5, <4>1 DEF GenerationOf
    <3>8. Generations!NewestOf(Stored', Current')
      BY <3>6, <3>7 DEF Generations!NewestOf
    <3> QED
      BY <2>6, <2>7, <3>4, <3>6, <3>8 DEF Generations!Next, Generations!Restart
  <2> QED
    BY <2>8, <2>9
<1>5. Adjacent' /\ StepsAbstractly
  BY <1>4 DEF Adjacent, StepsAbstractly
<1> QED
  BY <1>2, <1>3, <1>5 DEF StepSound

(* A step that leaves the slots and the active record alone *)
LEMMA QuietStep ==
  ASSUME SlotsInv, flash' = flash, active' = active, HeaderInv'
  PROVE  StepSound
<1>1. Adjacent' /\ StoredIsExecutable'
  BY DEF SlotsInv, Adjacent, StoredIsExecutable
<1>2. UNCHANGED <<Stored, Current>>
  BY DEF Stored, Current, GenerationOf
<1> QED
  BY <1>1, <1>2 DEF StepSound, StepsAbstractly

(* A step that leaves what validates alone, and the active record *)
LEMMA StutterStep ==
  ASSUME SlotsInv, active' = active, HeaderInv',
         \A s \in Slots : (ValidSlot(flash[s]) \/ ValidSlot(flash'[s])) => flash'[s] = flash[s]
  PROVE  StepSound
<1>1. Adjacent' /\ StoredIsExecutable'
  BY DEF SlotsInv, Adjacent, StoredIsExecutable
<1>2. Stored' = Stored
  BY SameStored, StoredIsIn
<1>3. Current' = Current
  BY DEF Current
<1> QED
  BY <1>1, <1>2, <1>3 DEF StepSound, StepsAbstractly

(* An erase that is not of the active slot *)
LEMMA EraseStep ==
  ASSUME SlotsInv, NEW t \in Slots, t # active.slot, NEW left \in PartlyErased(flash[t]),
         flash' = [flash EXCEPT ![t] = left], active' = active, HeaderInv'
  PROVE  StepSound
<1>1. flash[t] \in Partition /\ flash \in [Slots -> Partition]
  BY DEF SlotsInv, IInv, StoreTypeOK
<1>2. flash'[t] = left /\ \A s \in Slots : s # t => flash'[s] = flash[s]
  BY <1>1
<1>3. ValidSlot(left) => left = flash[t]
  BY <1>1, LeftByErase
<1>4. CASE ~ValidSlot(flash[t]) \/ left = flash[t]
  BY <1>2, <1>3, <1>4, StutterStep
<1>5. CASE ValidSlot(flash[t]) /\ left # flash[t]
  <2>1. ~ValidSlot(left)
    BY <1>3, <1>5
  <2>2. Adjacent' /\ StoredIsExecutable'
    BY <1>2, <2>1 DEF SlotsInv, Adjacent, StoredIsExecutable
  <2>3. ASSUME "scan" \notin Faults
        PROVE  Generations!Next
    <3> DEFINE g == GenerationOf(flash, t)
    <3>1. g \in Stored /\ g # Current
      BY <1>5, <2>3, CurrentFacts, InStored, StoredIsIn DEF SlotsInv
    <3>2. ASSUME NEW s \in Slots, s # t, ValidSlot(flash[s])
          PROVE  GenerationOf(flash, s) # g
      <4>1. s = active.slot
        <5>1. CASE active.slot = NoSlot
          BY <1>5, <2>3, <3>2, <5>1 DEF SlotsInv, Adjacent
        <5>2. CASE active.slot # NoSlot
          <6>1. active.slot \in Slots
            BY <5>2, RecordFacts DEF SlotsInv
          <6> QED
            BY <3>2, <6>1 DEF Slots
        <5> QED
          BY <5>1, <5>2
      <4>2. GenerationOf(flash, s) = Current
        BY <4>1, CurrentFacts DEF SlotsInv, NoSlot, Slots
      <4> QED
        BY <3>1, <4>2
    <3> HIDE DEF g
    <3>3. ASSUME NEW x
          PROVE  x \in StoredIn(flash') <=> x \in StoredIn(flash) /\ x # g
      <4>1. ASSUME x \in StoredIn(flash') PROVE x \in StoredIn(flash) /\ x # g
        <5>1. PICK s \in Slots : ValidSlot(flash'[s]) /\ x = GenerationOf(flash', s)
          BY <4>1, InStored
        <5>2. s # t /\ ValidSlot(flash[s]) /\ x = GenerationOf(flash, s)
          BY <1>2, <2>1, <5>1 DEF GenerationOf
        <5> QED
          BY <3>2, <5>2, InStored
      <4>2. ASSUME x \in StoredIn(flash), x # g PROVE x \in StoredIn(flash')
        <5>1. PICK s \in Slots : ValidSlot(flash[s]) /\ x = GenerationOf(flash, s)
          BY <4>2, InStored
        <5>2. s # t
          BY <4>2, <5>1 DEF g
        <5>3. ValidSlot(flash'[s]) /\ x = GenerationOf(flash', s)
          BY <1>2, <5>1, <5>2 DEF GenerationOf
        <5> QED
          BY <5>3, InStored
      <4> QED
        BY <4>1, <4>2
    <3>4. Stored' = Stored \ {g}
      BY <3>3, StoredIsIn
    <3>5. Current' = Current
      BY DEF Current
    <3> QED
      BY <3>1, <3>4, <3>5 DEF Generations!Next, Generations!Discard
  <2> QED
    BY <2>2, <2>3 DEF StepSound, StepsAbstractly
<1> QED
  BY <1>4, <1>5

(* Each operation of the store keeps SlotsInv, and is a step of the        *)
(* abstract store or none.                                                 *)
LEMMA ResetSound == ASSUME SlotsInv, StoreReset PROVE StepSound
BY RestartedSound DEF StoreReset, SlotsInv, IInv, StoreTypeOK

(* A power cut during the erase loses at most what the inactive slot held. *)
LEMMA BeginCutSound ==
  ASSUME SlotsInv, NEW base, StoreBeginCut(base)
  PROVE  StepSound
<1>1. PICK left \in PartlyErased(flash[Target]) : Restarted([flash EXCEPT ![Target] = left])
  BY DEF StoreBeginCut
<1> DEFINE f == [flash EXCEPT ![Target] = left]
<1>2. Target \in Slots /\ Target # active.slot /\ flash[Target] \in Partition
      /\ flash \in [Slots -> Partition]
  BY TargetIsApart DEF SlotsInv, IInv, StoreTypeOK
<1>3. left \in Partition
  BY <1>1, <1>2, PartlyErasedIsPartition
<1>4. f \in [Slots -> Partition]
  BY <1>2, <1>3, FlashUpdate
<1>5. f[Target] = left /\ \A s \in Slots : s # Target => f[s] = flash[s]
  BY <1>2
<1>6. \A s \in Slots : ValidSlot(f[s]) => f[s] = flash[s]
  BY <1>1, <1>2, <1>5, LeftByErase
<1>7. active.slot # NoSlot => f[active.slot] = flash[active.slot]
  BY <1>2, <1>5, RecordFacts DEF SlotsInv
<1> HIDE DEF f
<1>8. Restarted(f)
  BY <1>1 DEF f
<1> QED
  BY <1>4, <1>6, <1>7, <1>8, RestartedSound

(* A begin refuses, or discards what the inactive slot stored.             *)
LEMMA BeginSound ==
  ASSUME SlotsInv, NEW base, NEW length, NEW sha, NEW err, StoreBegin(base, length, sha, err)
  PROVE  StepSound
<1>1. Target \in Slots /\ Target # active.slot /\ flash \in [Slots -> Partition] /\ active' = active
      /\ ~Calling /\ commit' = commit
  BY TargetIsApart DEF StoreBegin, SlotsInv, IInv, StoreTypeOK
<1>2. CASE UNCHANGED <<flash, transfer>>
  <2>1. HeaderInv'
    BY <1>1, <1>2 DEF SlotsInv, HeaderInv, Target, Calling, NewHeader, Committable
  <2> QED
    BY <1>1, <1>2, <2>1, QuietStep
<1>3. CASE /\ flash' = [flash EXCEPT ![Target] = Erased]
           /\ transfer' = [open |-> TRUE, slot |-> Target, length |-> length, written |-> 0, sha |-> sha]
  <2>1. Erased \in PartlyErased(flash[Target])
    BY DEF PartlyErased
  <2>2. flash'[Target] = Erased /\ Target' = Target
    BY <1>1, <1>3 DEF Target
  <2>3. HeaderInv'
    BY <1>1, <1>3, <2>2 DEF HeaderInv, Calling, Erased
  <2> QED
    BY <1>1, <1>3, <2>1, <2>3, EraseStep
<1>4. CASE /\ \E left \in PartlyErased(flash[Target]) : flash' = [flash EXCEPT ![Target] = left]
           /\ transfer' = Closed
  <2>1. HeaderInv'
    BY <1>4 DEF HeaderInv, Closed
  <2> QED
    BY <1>1, <1>4, <2>1, EraseStep
<1> QED
  BY <1>2, <1>3, <1>4 DEF StoreBegin

(* A write puts blocks in a slot that has no header: nothing stored changes. *)
LEMMA WriteKeeps ==
  ASSUME SlotsInv, NEW offset \in 0..MaxBlocks, NEW data \in Chunks, NEW err,
         StoreWrite(offset, data, err)
  PROVE  HeaderInv' /\ KeepsStored
<1>1. active' = active /\ commit' = commit /\ ~Calling
  BY DEF StoreWrite
<1>2. CASE UNCHANGED <<flash, transfer>>
  <2>1. HeaderInv'
    BY <1>1, <1>2 DEF SlotsInv, HeaderInv, Target, Calling, NewHeader, Committable
  <2> QED
    BY <1>2, <2>1 DEF KeepsStored
<1>3. CASE /\ ~WriteOutOfBounds(offset, data)
           /\ offset = transfer.written
           /\ flash' = [flash EXCEPT ![transfer.slot].body = SubSeq(@, 1, offset) \o data]
           /\ transfer' = [transfer EXCEPT !.written = @ + Len(data)]
  <2> DEFINE p == flash[transfer.slot]
             b == SubSeq(p.body, 1, offset) \o data
  <2>1. /\ transfer.open /\ transfer \in Transfer /\ transfer.slot \in Slots
        /\ p \in Partition /\ flash \in [Slots -> Partition]
    BY <1>3, StagedSlot DEF WriteOutOfBounds, SlotsInv, IInv, StoreTypeOK
  <2>2. Len(data) \in Nat /\ Len(data) # 0
    <3>1. data \in Seq(Blocks) /\ data # <<>>
      BY DocumentIsSeq DEF Chunks
    <3> QED
      BY <3>1, EmptySeq
  <2>3. transfer.written # transfer.length
    BY <1>3, <2>1, <2>2, StoreAssumption DEF WriteOutOfBounds, Transfer
  <2>4. p.header = NoHeader /\ ~p.marker /\ transfer.slot = Target
    BY <1>1, <2>1, <2>3 DEF SlotsInv, HeaderInv, Committable
  <2>5. flash' = [flash EXCEPT ![transfer.slot] = [p EXCEPT !.body = b]]
    BY <1>3, <2>1
  <2> HIDE DEF b
  <2>6. flash'[transfer.slot] = [p EXCEPT !.body = b]
        /\ \A s \in Slots : s # transfer.slot => flash'[s] = flash[s]
    BY <2>1, <2>5
  <2>7. flash'[transfer.slot].header = NoHeader /\ ~flash'[transfer.slot].marker
    BY <2>1, <2>4, <2>6 DEF Partition
  <2>8. transfer'.slot = transfer.slot /\ transfer'.open = transfer.open
    BY <1>3, <2>1 DEF Transfer
  <2>9. Target' = Target /\ ~Calling'
    BY <1>1 DEF Target, Calling
  <2>10. commit.at # "marker"
    BY <1>1 DEF Calling
  <2>11. HeaderInv'
    BY <1>1, <2>4, <2>7, <2>8, <2>9, <2>10 DEF HeaderInv
  <2>12. \A s \in Slots : (ValidSlot(flash[s]) \/ ValidSlot(flash'[s])) => flash'[s] = flash[s]
    BY <2>4, <2>6, <2>7, NotValid
  <2> QED
    BY <2>11, <2>12 DEF KeepsStored
<1> QED
  BY <1>2, <1>3 DEF StoreWrite, WriteIsNext

(* So it stutters in the abstract store. *)
LEMMA WriteSound ==
  ASSUME SlotsInv, NEW offset \in 0..MaxBlocks, NEW data \in Chunks, NEW err,
         StoreWrite(offset, data, err)
  PROVE  StepSound
<1>1. active' = active
  BY DEF StoreWrite
<1> QED
  BY <1>1, WriteKeeps, StutterStep DEF KeepsStored

(* An abort only forgets the transfer.                                     *)
LEMMA AbortSound ==
  ASSUME SlotsInv, StoreAbort
  PROVE  StepSound
<1>1. HeaderInv'
  BY DEF StoreAbort, HeaderInv, Closed
<1> QED
  BY <1>1, QuietStep DEF StoreAbort

(* A fallback switches to the other stored generation.                     *)
LEMMA SelectSound ==
  ASSUME SlotsInv, HasPrevious, StoreSelect(Previous)
  PROVE  StepSound
<1> DEFINE o == Other(active.slot)
<1>1. /\ flash' = flash /\ ~transfer'.open /\ active' = RecordOf(flash, o)
      /\ ValidSlot(flash[o]) /\ active.slot # NoSlot
  BY DEF StoreSelect, HasPrevious, Previous
<1>2. active.slot \in Slots /\ ValidSlot(flash[active.slot])
      /\ active.revision = flash[active.slot].header.revision
  BY <1>1, RecordFacts DEF SlotsInv
<1>3. o \in Slots /\ o # active.slot /\ \A s \in Slots : s # o => s = active.slot
  BY <1>2 DEF Other, Slots
<1> HIDE DEF o
<1>4. HeaderInv' /\ StoredIsExecutable'
  BY <1>1 DEF HeaderInv, SlotsInv, StoredIsExecutable
<1>5. active'.slot = o /\ active'.revision = flash[o].header.revision /\ o # NoSlot
  BY <1>1, <1>3 DEF RecordOf, NoSlot, Slots
<1>6. Adjacent'
  <2> SUFFICES ASSUME "scan" \notin Faults
               PROVE  active.revision \in {flash[o].header.revision - 1, flash[o].header.revision + 1}
    BY <1>1, <1>2, <1>3, <1>5 DEF Adjacent
  <2>1. flash[o].header.revision \in {active.revision - 1, active.revision + 1}
    BY <1>1, <1>3 DEF SlotsInv, Adjacent
  <2> QED
    BY <1>3, <2>1, RecordFacts DEF SlotsInv
<1>7. Generations!Next
  <2>1. Current' = GenerationOf(flash, o)
    BY <1>1 DEF Current, RecordOf, GenerationOf
  <2>2. Current' \in Stored /\ Stored' = Stored
    BY <1>1, <1>3, <2>1, InStored, StoredIsIn
  <2> QED
    BY <2>2 DEF Generations!Next, Generations!Switch
<1> QED
  BY <1>4, <1>6, <1>7 DEF StepSound, StepsAbstractly

(* The checks of the commit leave a transfer that is complete and accepted. *)
LEMMA CheckedCommittable ==
  ASSUME IInv, StagedCheck = "OK", Compiles
  PROVE  transfer.open /\ Committable
<1>1. /\ transfer.open /\ transfer.written = transfer.length
      /\ HashDocument(flash[transfer.slot], transfer.length) = transfer.sha
      /\ <<transfer.sha, active.revision>> \in Valid
  BY DEF StagedCheck
<1>2. flash[transfer.slot].body \in Documents /\ Len(flash[transfer.slot].body) = transfer.length
  BY <1>1, StagedSlot, PartitionParts DEF IInv, StagedIsCounted
<1>3. flash[transfer.slot].body = transfer.sha
  BY <1>1, <1>2, DocumentIsSeq, WholeSubSeq DEF HashDocument
<1> QED
  BY <1>1, <1>3 DEF Committable, Compiles

(* The header is written when the checks have passed, without its marker.  *)
LEMMA CommitHeaderKeeps ==
  ASSUME SlotsInv, NEW err, StoreCommitHeader(err)
  PROVE  HeaderInv' /\ KeepsStored
<1>1. active' = active /\ transfer' = transfer /\ ~Calling
  BY DEF StoreCommitHeader
<1>2. CASE UNCHANGED <<flash, commit>>
  <2>1. HeaderInv'
    BY <1>1, <1>2 DEF SlotsInv, HeaderInv, Target, Calling, NewHeader, Committable
  <2> QED
    BY <1>2, <2>1 DEF KeepsStored
<1>3. CASE /\ StagedCheck = "OK" /\ Compiles
           /\ flash' = [flash EXCEPT ![transfer.slot].header = NewHeader]
           /\ \/ commit' = commit
              \/ commit'.at = "marker" /\ ~flash[transfer.slot].marker
  <2> DEFINE p == flash[transfer.slot]
             q == [p EXCEPT !.header = NewHeader]
  <2>1. transfer.open /\ Committable
    BY <1>3, CheckedCommittable DEF SlotsInv
  <2>2. transfer.slot \in Slots /\ p \in Partition /\ flash \in [Slots -> Partition]
    BY <2>1, StagedSlot DEF SlotsInv, IInv, StoreTypeOK
  <2>3. flash'[transfer.slot] = q /\ \A s \in Slots : s # transfer.slot => flash'[s] = flash[s]
    BY <1>3, <2>2
  <2>4. q.header = NewHeader /\ q.marker = p.marker /\ q.body = p.body
    BY <2>2 DEF Partition
  <2>5. q = p \/ ~p.marker
    <3>1. p.header = NewHeader => q = p
      BY <2>2 DEF Partition
    <3> QED
      BY <2>1, <3>1 DEF SlotsInv, HeaderInv
  <2> HIDE DEF q
  <2>6. NewHeader' = NewHeader /\ Target' = Target /\ transfer.slot = Target
    BY <1>1, <2>1 DEF NewHeader, Target, SlotsInv, HeaderInv
  <2>7. Committable'
    BY <1>1, <2>1, <2>3, <2>4 DEF Committable
  <2>8. commit'.at = "marker" => ~flash'[transfer.slot].marker
    BY <1>1, <1>3, <2>3, <2>4 DEF Calling
  <2>9. HeaderInv'
    BY <1>1, <2>3, <2>4, <2>6, <2>7, <2>8 DEF HeaderInv
  <2>10. \A s \in Slots : (ValidSlot(flash[s]) \/ ValidSlot(flash'[s])) => flash'[s] = flash[s]
    BY <2>3, <2>4, <2>5, NotValid
  <2> QED
    BY <2>9, <2>10 DEF KeepsStored
<1> QED
  BY <1>2, <1>3 DEF StoreCommitHeader

(* So this write, too, is invisible to a restart. *)
LEMMA CommitHeaderSound ==
  ASSUME SlotsInv, NEW err, StoreCommitHeader(err)
  PROVE  StepSound
<1>1. active' = active
  BY DEF StoreCommitHeader
<1> QED
  BY <1>1, CommitHeaderKeeps, StutterStep DEF KeepsStored

(* The marker makes the new generation one that a restart finds. *)
LEMMA CommitMarkerSound ==
  ASSUME SlotsInv, NEW err, StoreCommitMarker(err)
  PROVE  StepSound
<1> DEFINE t == transfer.slot
           p == flash[t]
<1>1. /\ active' = active /\ transfer' = transfer /\ transfer.open /\ commit.slot = t /\ Calling
      /\ commit'.at # "marker" /\ commit.at = "marker"
  BY DEF StoreCommitMarker, SlotsInv, IInv, CommitIsStaged, Calling, NoCommit, StoreTypeOK, Commit
<1>2. t \in Slots /\ t # active.slot /\ p \in Partition /\ flash \in [Slots -> Partition] /\ t = Target
      /\ active.revision + 1 \in Revisions /\ transfer.sha \in Documents
  BY <1>1, StagedSlot DEF SlotsInv, IInv, StoreTypeOK, HeaderInv
<1>3. p.header = NewHeader /\ Committable /\ ~p.marker
  BY <1>1 DEF SlotsInv, HeaderInv
<1>4. PICK written \in BOOLEAN : flash' = [flash EXCEPT ![t].marker = written]
  BY <1>1 DEF StoreCommitMarker
<1> DEFINE q == [p EXCEPT !.marker = written]
<1>5. flash'[t] = q /\ \A s \in Slots : s # t => flash'[s] = flash[s]
  BY <1>2, <1>4
<1>6. q.header = p.header /\ q.body = p.body
  BY <1>2 DEF Partition
<1> HIDE DEF q, p
<1>7. HeaderInv'
  <2>1. NewHeader' = NewHeader /\ Target' = Target
    BY <1>1 DEF NewHeader, Target
  <2>2. Committable'
    BY <1>1, <1>3, <1>5, <1>6 DEF Committable, p
  <2> QED
    BY <1>1, <1>2, <1>3, <1>5, <1>6, <2>1, <2>2 DEF HeaderInv
<1>8. ~ValidSlot(p)
  BY <1>3, NotValid
<1>9. CASE ~ValidSlot(q)
  BY <1>1, <1>5, <1>7, <1>8, <1>9, StutterStep DEF p
<1>10. CASE ValidSlot(q)
  <2>1. q.header.revision = active.revision + 1 /\ q.header.sha = transfer.sha
        /\ <<transfer.sha, active.revision>> \in Valid /\ transfer.sha \in Executable
    BY <1>3, <1>6 DEF NewHeader, Committable
  <2>2. StoredIsExecutable'
    BY <1>5, <2>1 DEF SlotsInv, StoredIsExecutable
  <2>3. Adjacent'
    <3> SUFFICES ASSUME "scan" \notin Faults, NEW s \in Slots, s # active.slot, ValidSlot(flash'[s])
                 PROVE  IF active.slot = NoSlot THEN s = 0 /\ flash'[s].header.revision = 1
                        ELSE flash'[s].header.revision \in {active.revision - 1, active.revision + 1}
      BY <1>1 DEF Adjacent
    <3>1. CASE s # t
      BY <1>5, <3>1 DEF SlotsInv, Adjacent
    <3>2. CASE s = t
      <4>1. active.slot = NoSlot => t = 0 /\ active.revision = 0
        BY <1>2, RecordFacts DEF Target, NoSlot, SlotsInv
      <4> QED
        BY <1>5, <2>1, <3>2, <4>1
    <3> QED
      BY <3>1, <3>2
  <2>4. ASSUME "scan" \notin Faults
        PROVE  Generations!Next
    <3> DEFINE g == GenerationOf(flash', t)
    <3>1. g = [revision |-> active.revision + 1, sha |-> transfer.sha]
      BY <1>5, <2>1 DEF GenerationOf
    <3>2. active.revision + 1 # 0
      BY RecordFacts DEF SlotsInv
    <3>3. g \in Generations!Generation
      BY <1>2, <3>1, <3>2 DEF Generations!Generation
    <3>4. g.revision = Current.revision + 1 /\ <<g.sha, Current.revision>> \in Valid /\ g.sha \in Executable
      BY <2>1, <3>1 DEF Current
    <3> HIDE DEF g
    <3>5. Stored \subseteq {Current}
      <4> SUFFICES ASSUME NEW x \in StoredIn(flash) PROVE x = Current
        BY StoredIsIn
      <4>1. PICK s \in Slots : ValidSlot(flash[s]) /\ x = GenerationOf(flash, s)
        BY InStored
      <4>2. s # t
        BY <1>8, <4>1 DEF p
      <4>3. s = active.slot
        <5>1. CASE active.slot = NoSlot
          BY <1>2, <2>4, <4>1, <4>2, <5>1 DEF SlotsInv, Adjacent, Target, NoSlot
        <5>2. CASE active.slot # NoSlot
          <6>1. active.slot \in Slots
            BY <5>2, RecordFacts DEF SlotsInv
          <6> QED
            BY <1>2, <4>2, <6>1 DEF Slots
        <5> QED
          BY <5>1, <5>2
      <4> QED
        BY <4>1, <4>3, CurrentFacts DEF SlotsInv, NoSlot, Slots
    <3>6. ASSUME NEW x
          PROVE  x \in StoredIn(flash') <=> x \in StoredIn(flash) \/ x = g
      <4>1. ASSUME x \in StoredIn(flash') PROVE x \in StoredIn(flash) \/ x = g
        <5>1. PICK s \in Slots : ValidSlot(flash'[s]) /\ x = GenerationOf(flash', s)
          BY <4>1, InStored
        <5>2. CASE s = t
          BY <5>1, <5>2 DEF g
        <5>3. CASE s # t
          <6>1. ValidSlot(flash[s]) /\ x = GenerationOf(flash, s)
            BY <1>5, <5>1, <5>3 DEF GenerationOf
          <6> QED
            BY <6>1, InStored
        <5> QED
          BY <5>2, <5>3
      <4>2. ASSUME x \in StoredIn(flash) PROVE x \in StoredIn(flash')
        <5>1. PICK s \in Slots : ValidSlot(flash[s]) /\ x = GenerationOf(flash, s)
          BY <4>2, InStored
        <5>2. ValidSlot(flash'[s]) /\ x = GenerationOf(flash', s)
          BY <1>5, <1>8, <5>1 DEF GenerationOf, p
        <5> QED
          BY <5>2, InStored
      <4>3. g \in StoredIn(flash')
        BY <1>2, <1>5, <1>10, InStored DEF g
      <4> QED
        BY <4>1, <4>2, <4>3
    <3>7. Stored' = Stored \union {g}
      BY <3>6, StoredIsIn
    <3>8. Current' = Current
      BY <1>1 DEF Current
    <3> QED
      BY <3>3, <3>4, <3>5, <3>7, <3>8 DEF Generations!Next, Generations!Publish
  <2> QED
    BY <1>7, <2>2, <2>3, <2>4 DEF StepSound, StepsAbstractly
<1> QED
  BY <1>9, <1>10

(* A successful verification switches to the generation just published.    *)
LEMMA CommitFinishSound ==
  ASSUME SlotsInv, NEW err, StoreCommitFinish(err)
  PROVE  StepSound
<1>1. commit' = NoCommit /\ flash' = flash /\ commit.at = "verify" /\ Calling
  BY DEF StoreCommitFinish, Calling
<1>2. CASE UNCHANGED <<active, transfer>>
  <2>1. HeaderInv'
    BY <1>1, <1>2 DEF SlotsInv, HeaderInv, Target, NewHeader, Committable, NoCommit
  <2> QED
    BY <1>1, <1>2, <2>1, QuietStep
<1>3. CASE /\ ValidSlot(flash[commit.slot])
           /\ active' = RecordOf(flash, commit.slot)
           /\ transfer' = Closed
  <2> DEFINE t == commit.slot
  <2>1. transfer.open /\ t = transfer.slot /\ t \in Slots /\ t # active.slot /\ t = Target
    BY <1>1, StagedSlot DEF SlotsInv, IInv, CommitIsStaged, HeaderInv
  <2>2. flash[t].header.revision = active.revision + 1
    BY <1>1, <2>1 DEF SlotsInv, HeaderInv, NewHeader
  <2> HIDE DEF t
  <2>3. active'.slot = t /\ active'.revision = flash[t].header.revision /\ t # NoSlot
        /\ Current' = GenerationOf(flash, t)
    BY <1>3, <2>1 DEF RecordOf, NoSlot, Slots, Current, GenerationOf, t
  <2>4. HeaderInv' /\ StoredIsExecutable'
    BY <1>1, <1>3 DEF HeaderInv, Closed, SlotsInv, StoredIsExecutable
  <2>5. Adjacent'
    <3> SUFFICES ASSUME "scan" \notin Faults, NEW s \in Slots, s # t, ValidSlot(flash[s])
                 PROVE  flash[s].header.revision = flash[t].header.revision - 1
      BY <1>1, <2>3 DEF Adjacent
    <3>1. active.slot # NoSlot
      <4> SUFFICES ASSUME active.slot = NoSlot PROVE FALSE
        OBVIOUS
      <4>1. s = 0 /\ t = 0
        BY <2>1 DEF SlotsInv, Adjacent, Target, NoSlot, Slots
      <4> QED
        BY <4>1
    <3>2. active.slot \in Slots /\ active.revision = flash[active.slot].header.revision
          /\ active.revision \in Nat
      BY <3>1, RecordFacts DEF SlotsInv
    <3>3. s = active.slot
      BY <2>1, <3>2 DEF Slots
    <3> QED
      BY <2>2, <3>2, <3>3
  <2>6. Generations!Next
    <3>1. Stored' = Stored
      BY <1>1, StoredIsIn
    <3>2. Current' \in Stored
      BY <1>3, <2>1, <2>3, InStored, StoredIsIn DEF t
    <3> QED
      BY <3>1, <3>2 DEF Generations!Next, Generations!Switch
  <2> QED
    BY <2>4, <2>5, <2>6 DEF StepSound, StepsAbstractly
<1> QED
  BY <1>2, <1>3 DEF StoreCommitFinish

(* The empty store: nothing is stored, and nothing is current. *)
LEMMA InitSlots == StoreInit => SlotsInv /\ Generations!Init
<1> SUFFICES ASSUME StoreInit PROVE SlotsInv /\ Generations!Init
  OBVIOUS
<1>1. \A s \in Slots : ~ValidSlot(flash[s])
  BY NotValid DEF StoreInit, Erased
<1>2. HeaderInv /\ Adjacent /\ StoredIsExecutable
  BY <1>1 DEF StoreInit, HeaderInv, Adjacent, StoredIsExecutable, Closed
<1>3. Stored = {}
  BY <1>1, InStored, StoredIsIn
<1>4. Current = Generations!Nothing
  BY DEF StoreInit, Current, NoRecord, Generations!Nothing
<1> QED
  BY <1>2, <1>3, <1>4, InitIInv DEF SlotsInv, Generations!Init

(* Every step of the store *)
LEMMA NextSound ==
  ASSUME SlotsInv, [StoreNext]_storeVars
  PROVE  SlotsInv' /\ StepsAbstractly
<1> SUFFICES StepSound
  BY NextStep DEF SlotsInv, StepSound
<1>1. CASE StoreReset
  BY <1>1, ResetSound
<1>2. CASE ~Calling /\ HasPrevious /\ StoreSelect(Previous)
  BY <1>2, SelectSound
<1>3. CASE \E base \in Revisions, length \in Lengths, sha \in Documents, err \in StoreErrors :
              StoreBegin(base, length, sha, err)
  BY <1>3, BeginSound
<1>4. CASE \E base \in Revisions : StoreBeginCut(base)
  BY <1>4, BeginCutSound
<1>5. CASE \E offset \in 0..MaxBlocks, data \in Chunks, err \in StoreErrors :
              StoreWrite(offset, data, err)
  BY <1>5, WriteSound
<1>6. CASE StoreAbort
  BY <1>6, AbortSound
<1>7. CASE \E err \in StoreErrors : StoreCommitHeader(err)
  BY <1>7, CommitHeaderSound
<1>8. CASE \E err \in StoreErrors : StoreCommitMarker(err)
  BY <1>8, CommitMarkerSound
<1>9. CASE \E err \in StoreErrors : StoreCommitFinish(err)
  BY <1>9, CommitFinishSound
<1>10. CASE UNCHANGED storeVars
  <2>1. HeaderInv' /\ flash' = flash /\ active' = active
    BY <1>10 DEF storeVars, SlotsInv, HeaderInv, Target, Calling, NewHeader, Committable
  <2> QED
    BY <2>1, QuietStep
<1> QED
  BY <1>1, <1>2, <1>3, <1>4, <1>5, <1>6, <1>7, <1>8, <1>9, <1>10 DEF StoreNext

-----------------------------------------------------------------------------
(* What a boot may select was compiled by the runtime before its header    *)
(* was written, whatever fails.                                            *)
THEOREM StoredAlwaysExecutable == StoreSpec => []StoredIsExecutable
<1>1. SlotsInv /\ [StoreNext]_storeVars => SlotsInv'
  BY NextSound
<1>2. StoreInit => SlotsInv
  BY InitSlots
<1>3. SlotsInv => StoredIsExecutable
  BY DEF SlotsInv
<1> QED
  BY <1>1, <1>2, <1>3, PTL DEF StoreSpec

(* What a boot scan that meets no fault finds in a store of adjacent       *)
(* generations: the active one, or its successor.                          *)
LEMMA ScanFindsNext ==
  ASSUME SlotsInv
  PROVE  RestartFindsActiveOrNext
<1> SUFFICES ASSUME "scan" \notin Faults
             PROVE  Scan(flash, Slots).revision \in {active.revision, active.revision + 1}
  BY DEF RestartFindsActiveOrNext
<1> DEFINE found == Found(flash, Slots)
           n == Newest(flash, found)
<1>1. found \in SUBSET Slots /\ \A s \in Slots : s \in found <=> ValidSlot(flash[s])
  BY DEF Found
<1>2. CASE found = {}
  <2>1. active.slot = NoSlot
    BY <1>1, <1>2, RecordFacts DEF SlotsInv
  <2> QED
    BY <1>2, <2>1, RecordFacts DEF SlotsInv, Scan, NoRecord
<1>3. CASE found # {}
  <2>1. n \in found /\ \A t \in found : flash[n].header.revision >= flash[t].header.revision
    BY <1>1, <1>3, NewestIsFound DEF SlotsInv, IInv, StoreTypeOK
  <2>2. Scan(flash, Slots).revision = flash[n].header.revision
    BY <1>3 DEF Scan, RecordOf
  <2> HIDE DEF n, found
  <2>3. n \in Slots /\ ValidSlot(flash[n]) /\ flash[n].header.revision \in Nat /\ active.revision \in Nat
    BY <1>1, <2>1, RecordFacts DEF SlotsInv
  <2>4. CASE active.slot = NoSlot
    BY <2>2, <2>3, <2>4, RecordFacts DEF SlotsInv, Adjacent, NoSlot, Slots
  <2>5. CASE active.slot # NoSlot
    <3>1. active.slot \in found /\ active.revision = flash[active.slot].header.revision
      BY <1>1, <2>5, RecordFacts DEF SlotsInv
    <3>2. flash[n].header.revision >= active.revision
      BY <2>1, <3>1
    <3>3. n = active.slot \/ flash[n].header.revision \in {active.revision - 1, active.revision + 1}
      BY <2>3, <2>5 DEF SlotsInv, Adjacent
    <3> QED
      BY <2>2, <2>3, <3>1, <3>2, <3>3
  <2> QED
    BY <2>4, <2>5
<1> QED
  BY <1>2, <1>3

(* Between any two flash operations a restart would find the active        *)
(* generation or its successor.                                            *)
THEOREM RestartAlwaysFinds == StoreSpec => []RestartFindsActiveOrNext
<1>1. SlotsInv /\ [StoreNext]_storeVars => SlotsInv'
  BY NextSound
<1>2. StoreInit => SlotsInv
  BY InitSlots
<1>3. SlotsInv => RestartFindsActiveOrNext
  BY ScanFindsNext
<1> QED
  BY <1>1, <1>2, <1>3, PTL DEF StoreSpec

(* The store implements the abstract one, when the boot scan can read its  *)
(* slots: every flash operation, restart and switch is one of its steps or *)
(* leaves what is stored and current as it is.                             *)
THEOREM StoreImplementsGenerations ==
  ASSUME "scan" \notin Faults
  PROVE  StoreSpec => ImplementsGenerations
<1>1. SlotsInv /\ [StoreNext]_storeVars => SlotsInv'
  BY NextSound
<1>2. StoreInit => SlotsInv /\ Generations!Init
  BY InitSlots
<1>3. SlotsInv /\ [StoreNext]_storeVars => [Generations!Next]_(Generations!vars)
  BY NextSound DEF StepsAbstractly, Generations!vars
<1> QED
  BY <1>1, <1>2, <1>3, PTL DEF StoreSpec, ImplementsGenerations, Generations!Spec
====
