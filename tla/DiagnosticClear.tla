---------------------------- MODULE DiagnosticClear ----------------------------
(***************************************************************************)
(* Clearing the engine's trouble codes: src/diagnostic_clear.c with the    *)
(* policy of src/clear_policy.c and the part of the vehicle data worker    *)
(* that sends Mode 04 (main.c), in a build that enables it.                *)
(*                                                                         *)
(* The application task serves the phone's requests (tick); the worker     *)
(* takes a confirmed one, journals the intent, sends it once, reads the    *)
(* codes back and records the outcome.  The phone may name any operation   *)
(* and any token it has been shown, in any order and late: the queue adds  *)
(* nothing to that.  The revision is fixed for a boot and is left out, as  *)
(* are requests that the parked, running and moving guards refuse: they    *)
(* change nothing.                                                         *)
(***************************************************************************)
EXTENDS Naturals, Sequences, Functions

CONSTANTS Operations,  \* names the phone gives to its clearings, not 0
          MaxToken,    \* bound on tokens given out
          MaxScope,    \* bound on sessions of the engine's diagnostics
          ClearFaults  \* subset of {"power", "nvs", "link", "unreadable"}

ASSUME ClearAssumption == MaxToken \in Nat /\ MaxScope \in Nat

VARIABLES
  clear,     \* state, in RAM
  overdue,   \* 30 s have passed since prepared_at
  pending,   \* confirmed and not yet taken
  clearing,  \* where the worker is: "out", "check", "save", "send", "verify", "record", "release"
  copy,      \* the worker's copy of the state it has taken
  gateOwner, \* transfer_gate.c: operation
  journal,   \* intent_v1 in NVS
  scope,     \* [connected, session]: what diagnostics_endpoint_status tells of endpoint 0
  token,     \* the last token that esp_random gave out
  sent       \* history: the tokens whose Mode 04 has been sent, in order

clearVars == <<clear, overdue, pending, clearing, copy, gateOwner, journal, scope, token, sent>>

ClearOutcomes == {"VERIFIED", "CODES_REMAIN", "PERMANENT_REMAIN", "UNKNOWN"}
ClearPhases   == {"DISABLED", "IDLE", "PREPARED", "SENT", "FAILED"} \union ClearOutcomes

NoClear == [phase |-> "IDLE", operation |-> 0, token |-> 0, session |-> 0, supported |-> TRUE]
ClearState == [phase : ClearPhases, operation : Operations \union {0}, token : 0..MaxToken,
               session : 0..MaxScope, supported : BOOLEAN]

-----------------------------------------------------------------------------
\* save: an NVS write fails without a trace, or after it has stored the value
ClearSaved(value, ok) ==
  \/ ok /\ journal' = value
  \/ ~ok /\ "nvs" \in ClearFaults /\ journal' \in {journal, value}

\* Mutant: the clearing times out and leaves the gate to whoever released it.
Overdue_KeepsPending ==
  /\ pending /\ overdue
  /\ clear' = [clear EXCEPT !.phase = "FAILED"] /\ gateOwner' = "none"
  /\ UNCHANGED <<overdue, pending, clearing, copy, journal, scope, token, sent>>

\* The application task: diagnostic_clear_tick.  A clearing that waited too long
\* for the worker is given up.
Overdue ==
  /\ pending /\ overdue
  /\ pending' = FALSE /\ clear' = [clear EXCEPT !.phase = "FAILED"] /\ gateOwner' = "none"
  /\ UNCHANGED <<overdue, clearing, copy, journal, scope, token, sent>>

\* clear_prepare, asked only while nobody has the gate
Prepare(operation) ==
  /\ gateOwner = "none" /\ scope.connected /\ clear.supported /\ token < MaxToken
  /\ clear.operation # operation /\ clear.phase # "SENT"
  /\ token' = token + 1 /\ overdue' = FALSE
  /\ clear' = [phase |-> "PREPARED", operation |-> operation, token |-> token',
               session |-> scope.session, supported |-> TRUE]
  /\ UNCHANGED <<pending, clearing, copy, gateOwner, journal, scope, sent>>

\* clear_confirm, with the gate claimed; a refused one releases it again
Confirm(operation, named) ==
  /\ ~pending /\ scope.connected /\ clear.supported /\ gateOwner = "none"
  /\ clear.phase = "PREPARED" /\ clear.operation = operation /\ clear.token = named
  /\ clear.session = scope.session /\ ~overdue
  /\ gateOwner' = "clear" /\ pending' = TRUE /\ clear' = [clear EXCEPT !.phase = "SENT"]
  /\ UNCHANGED <<overdue, clearing, copy, journal, scope, token, sent>>

-----------------------------------------------------------------------------
\* The worker: diagnostic_clear_take removes the request,
TakeClear ==
  /\ clearing = "out" /\ pending
  /\ pending' = FALSE /\ copy' = clear /\ clearing' = "check"
  /\ UNCHANGED <<clear, overdue, gateOwner, journal, scope, token, sent>>

\* diagnostic_clear_finish: the phase in RAM first,
FinishWith(phase) ==
  /\ clear' = IF clear.operation = copy.operation THEN [clear EXCEPT !.phase = phase] ELSE clear
  /\ clearing' = "record"

\* looks whether the scope it was confirmed for is still there,
CheckClear ==
  /\ clearing = "check"
  /\ IF scope.connected /\ scope.session = copy.session
     THEN clearing' = "save" /\ UNCHANGED clear ELSE FinishWith("FAILED")
  /\ UNCHANGED <<overdue, pending, copy, gateOwner, journal, scope, token, sent>>

\* Mutant: the intent is sent whether or not it could be journalled.
SaveIntent_Anyway ==
  /\ clearing = "save"
  /\ \E ok \in BOOLEAN : ClearSaved(copy, ok)
  /\ clearing' = "send" /\ UNCHANGED clear
  /\ UNCHANGED <<overdue, pending, copy, gateOwner, scope, token, sent>>

\* and makes the intent durable; without it nothing is sent.
SaveIntent ==
  /\ clearing = "save"
  /\ \E ok \in BOOLEAN : /\ ClearSaved(copy, ok)
                         /\ IF ok THEN clearing' = "send" /\ UNCHANGED clear ELSE FinishWith("FAILED")
  /\ UNCHANGED <<overdue, pending, copy, gateOwner, scope, token, sent>>

\* obd_task: Mode 04 leaves, or the adapter is gone; an answer leads to the readback
SendClear ==
  /\ clearing = "send"
  /\ \/ /\ sent' = Append(sent, copy.token)
        /\ clearing' = "verify" /\ UNCHANGED clear
     \/ FinishWith("UNKNOWN") /\ sent' \in {sent, Append(sent, copy.token)}
  /\ UNCHANGED <<overdue, pending, copy, gateOwner, journal, scope, token>>

\* the three categories of codes and the lamp are read back
VerifyClear ==
  /\ clearing = "verify"
  /\ \E outcome \in ClearOutcomes : FinishWith(outcome)
  /\ UNCHANGED <<overdue, pending, copy, gateOwner, journal, scope, token, sent>>

\* then the outcome is stored; its failure is ignored,
RecordClear ==
  /\ clearing = "record"
  /\ \E ok \in BOOLEAN : ClearSaved(clear, ok)
  /\ clearing' = "release"
  /\ UNCHANGED <<clear, overdue, pending, copy, gateOwner, scope, token, sent>>

\* and the gate is released.
ReleaseClear ==
  /\ clearing = "release"
  /\ clearing' = "out" /\ copy' = NoClear
  /\ gateOwner' = IF gateOwner = "clear" THEN "none" ELSE gateOwner
  /\ UNCHANGED <<clear, overdue, pending, journal, scope, token, sent>>

-----------------------------------------------------------------------------
\* Other maintenance, time, the link, and the power supply
OtherClaims ==
  /\ gateOwner # "clear" /\ gateOwner' = IF gateOwner = "none" THEN "other" ELSE "none"
  /\ UNCHANGED <<clear, overdue, pending, clearing, copy, journal, scope, token, sent>>

ClearAges ==
  /\ clear.phase \in {"PREPARED", "SENT"} /\ ~overdue /\ overdue' = TRUE
  /\ UNCHANGED <<clear, pending, clearing, copy, gateOwner, journal, scope, token, sent>>

ScopeChanges ==
  /\ "link" \in ClearFaults
  /\ \/ scope.connected /\ scope' = [scope EXCEPT !.connected = FALSE]
     \/ /\ ~scope.connected /\ scope.session < MaxScope
        /\ scope' = [connected |-> TRUE, session |-> scope.session + 1]
  /\ UNCHANGED <<clear, overdue, pending, clearing, copy, gateOwner, journal, token, sent>>

\* clear_restore
Restored(value) == IF value.phase = "SENT" THEN [value EXCEPT !.phase = "UNKNOWN"] ELSE value

\* diagnostic_clear_init, after a power failure: a journal that cannot be opened
\* or read leaves the function unsupported.
ClearRestart ==
  /\ "power" \in ClearFaults
  /\ \/ clear' = Restored(journal)
     \/ /\ "unreadable" \in ClearFaults
        /\ clear' \in {[NoClear EXCEPT !.phase = phase, !.supported = FALSE] : phase \in {"DISABLED", "UNKNOWN"}}
  /\ overdue' = TRUE /\ pending' = FALSE /\ clearing' = "out" /\ copy' = NoClear
  /\ gateOwner' = "none" /\ scope' = [scope EXCEPT !.connected = FALSE]
  /\ UNCHANGED <<journal, token, sent>>

ClearInit ==
  /\ clear = NoClear /\ overdue = FALSE /\ pending = FALSE /\ clearing = "out" /\ copy = NoClear
  /\ gateOwner = "none" /\ journal = NoClear /\ scope = [connected |-> FALSE, session |-> 0]
  /\ token = 0 /\ sent = <<>>

ClearWorker == TakeClear \/ CheckClear \/ SaveIntent \/ SendClear \/ VerifyClear \/ RecordClear \/ ReleaseClear
ClearNext ==
  \/ Overdue
  \/ \E operation \in Operations : Prepare(operation) \/ \E named \in 1..MaxToken : Confirm(operation, named)
  \/ ClearWorker \/ OtherClaims \/ ClearAges \/ ScopeChanges \/ ClearRestart

\* The tasks go on and time passes; the worker need not look for a request.
ClearSpec ==
  /\ ClearInit /\ [][ClearNext]_clearVars
  /\ WF_clearVars(Overdue) /\ WF_clearVars(ClearAges) /\ WF_clearVars(ClearWorker /\ clearing # "out")

-----------------------------------------------------------------------------
(* Properties *)

\* The variables have their types.
ClearTypeOK ==
  /\ clear \in ClearState /\ copy \in ClearState /\ journal \in ClearState
  /\ clearing \in {"out", "check", "save", "send", "verify", "record", "release"}
  /\ gateOwner \in {"none", "clear", "other"} /\ sent \in Seq(1..MaxToken)

LastSent == sent[Len(sent)]

\* A record knows of the last Mode 04: it is of that clearing and says that it was
\* sent, or of one prepared later.
Knows(record) ==
  sent # <<>> => /\ LastSent <= record.token
                 /\ record.token = LastSent => record.phase \in ClearOutcomes \union {"SENT"}

\* "Phone and gauge preserve uncertain intent across restart, reconcile with
\* reads and never automatically resend" (docs/protocol/diagnostics-and-alerts.md):
\* no token is sent twice; NVS knows of the last one from before it is sent, in
\* every boot, and holds the intent while its outcome is open; and so does what
\* the phone is shown in a boot that could read NVS.  Any other boot clears
\* nothing and shows nothing of it: UNKNOWN if the record could not be read, and
\* DISABLED if NVS could not even be opened, where the promise is not kept.
ClearIsHonest ==
  /\ IsInjective(sent)
  /\ Knows(journal) /\ (clearing = "verify" => journal = [copy EXCEPT !.phase = "SENT"])
  /\ IF clear.supported THEN Knows(clear)
     ELSE clear.phase \in {"DISABLED", "UNKNOWN"} /\ ~pending /\ clearing = "out"

\* From the confirmation until its outcome is recorded the clearing has the gate,
\* and it leaves it to nobody else and to nothing older (tick, take, finish).
ClearHoldsGate == (pending \/ clearing # "out") <=> (gateOwner = "clear")

\* A confirmed clearing that needs an outcome, with no help from phone or adapter
OutcomeIsOpen == clear.phase = "SENT"
=============================================================================
