------------------------ MODULE DiagnosticClear_proofs ------------------------
(***************************************************************************)
(* Proofs about DiagnosticClear, for any number of clearings, tokens and   *)
(* sessions and for every set of faults.                                   *)
(*                                                                         *)
(* The argument follows a token.  It is given to a prepared clearing as    *)
(* the largest so far, so it has not been sent.  It is confirmed once,     *)
(* since confirming takes the phase away from PREPARED; from there to the  *)
(* record the state cannot be prepared again, because the clearing has the *)
(* gate, so the worker's copy is the state.  When it is sent NVS holds it  *)
(* as SENT, and nothing that is ever written for it later is PREPARED.     *)
(* What replaces it, in RAM or in NVS, has a later token, or is the state  *)
(* of a boot that could not read NVS and so writes nothing.                *)
(***************************************************************************)
EXTENDS DiagnosticClear, TLAPS

\* What has been sent, as a set
Spent == Range(sent)

ClearTypes ==
  /\ clear \in ClearState /\ copy \in ClearState /\ journal \in ClearState
  /\ overdue \in BOOLEAN /\ pending \in BOOLEAN
  /\ clearing \in {"out", "check", "save", "send", "verify", "record", "release"}
  /\ gateOwner \in {"none", "clear", "other"}
  /\ scope \in [connected : BOOLEAN, session : 0..MaxScope]
  /\ token \in 0..MaxToken /\ sent \in Seq(1..MaxToken)

\* Nothing is both waiting for the worker and with it.
OneClearing == pending => clearing = "out"

\* Tokens are given out in order: none is larger than the last.
TokensInOrder ==
  /\ clear.token <= token /\ copy.token <= token /\ journal.token <= token
  /\ \A t \in Spent : t <= token

\* A record of a token that was sent says so, in RAM and in NVS.
Admits(record) ==
  record.token \in Spent => record.phase \in ClearOutcomes \union {"SENT"}

\* A confirmed clearing that waits has not been sent; one the worker has is the
\* state, and not sent before Mode 04 leaves.
FollowsState ==
  /\ pending => clear.phase = "SENT" /\ clear.token \notin Spent
  /\ clearing # "out" =>
       copy.operation = clear.operation /\ copy.token = clear.token /\ copy.phase = "SENT"
  /\ clearing \in {"check", "save", "send"} => clear = copy /\ copy.token \notin Spent
  /\ clearing \in {"send", "verify"} => journal = copy /\ clear = copy
  /\ clearing \in {"record", "release"} => clear.phase \in ClearOutcomes \union {"FAILED"}
  /\ clear.phase \in {"PREPARED", "SENT"} => clear.token # 0
  /\ journal.phase # "PREPARED"

\* No record is older than the last token sent, except in a boot without NVS,
\* which clears nothing.
KnowsLast ==
  /\ sent # <<>> => LastSent <= journal.token /\ (clear.supported => LastSent <= clear.token)
  /\ pending \/ clearing # "out" => clear.supported
  /\ ~clear.supported => clear.phase \in {"DISABLED", "UNKNOWN"}
  /\ journal.supported

\* The inductive invariant
ClearInv ==
  /\ ClearTypes /\ OneClearing /\ ClearHoldsGate
  /\ TokensInOrder /\ IsInjective(sent) /\ Admits(clear) /\ Admits(journal) /\ FollowsState
  /\ KnowsLast

-----------------------------------------------------------------------------
(* Sending a token that was not sent before keeps the history free of repetitions. *)
LEMMA AppendedInjective ==
  ASSUME NEW S, NEW s \in Seq(S), NEW t \in S, IsInjective(s), t \notin Range(s)
  PROVE  IsInjective(Append(s, t)) /\ Range(Append(s, t)) = Range(s) \union {t}
<1>1. /\ Len(s) \in Nat /\ DOMAIN s = 1..Len(s) /\ DOMAIN Append(s, t) = 1..(Len(s) + 1)
      /\ Append(s, t)[Len(s) + 1] = t
      /\ \A n \in 1..Len(s) : Append(s, t)[n] = s[n]
  OBVIOUS
<1>2. \A n \in 1..(Len(s) + 1) : n \in 1..Len(s) \/ n = Len(s) + 1
  BY <1>1
<1>3. Range(Append(s, t)) = Range(s) \union {t}
  BY <1>1, <1>2 DEF Range
<1>4. IsInjective(Append(s, t))
  BY <1>1, <1>2 DEF IsInjective, Range
<1> QED
  BY <1>3, <1>4

LEMMA LastInRange ==
  ASSUME NEW S, NEW s \in Seq(S), s # <<>>
  PROVE  s[Len(s)] \in Range(s) /\ s[Len(s)] \in S
<1>1. Len(s) \in Nat /\ Len(s) # 0 /\ DOMAIN s = 1..Len(s)
  OBVIOUS
<1>2. Len(s) \in DOMAIN s /\ s[Len(s)] \in S
  BY <1>1
<1> QED
  BY <1>2 DEF Range

LEMMA LastIsSpent ==
  ASSUME ClearTypes, sent # <<>>
  PROVE  LastSent \in Spent /\ LastSent \in Nat
<1>1. sent \in Seq(1..MaxToken)
  BY DEF ClearTypes
<1>2. sent[Len(sent)] \in Range(sent) /\ sent[Len(sent)] \in 1..MaxToken
  BY <1>1, LastInRange
<1> QED
  BY <1>2, ClearAssumption DEF LastSent, Spent

(* The program starts with nothing prepared, sent or stored. *)
LEMMA ClearStarts == ClearInit => ClearInv
<1> SUFFICES ASSUME ClearInit PROVE ClearInv
  OBVIOUS
<1> USE ClearAssumption DEF ClearInit
<1>1. NoClear \in ClearState /\ NoClear.phase = "IDLE" /\ NoClear.token = 0 /\ NoClear.supported
  BY DEF NoClear, ClearState, ClearPhases
<1>2. Spent = {} /\ IsInjective(sent) /\ sent \in Seq(1..MaxToken)
  BY DEF Spent, Range, IsInjective
<1>3. scope \in [connected : BOOLEAN, session : 0..MaxScope] /\ token \in 0..MaxToken
  OBVIOUS
<1>4. ClearTypes
  BY <1>1, <1>2, <1>3 DEF ClearTypes
<1> QED
  BY <1>1, <1>2, <1>4 DEF ClearInv, OneClearing, ClearHoldsGate, TokensInOrder, Admits, KnowsLast, LastSent, FollowsState

(* A phase that the code may give keeps the state one. *)
LEMMA PhasedState ==
  ASSUME NEW r \in ClearState, NEW phase \in ClearPhases
  PROVE  /\ [r EXCEPT !.phase = phase] \in ClearState
         /\ [r EXCEPT !.phase = phase].phase = phase
         /\ [r EXCEPT !.phase = phase].token = r.token
         /\ [r EXCEPT !.phase = phase].operation = r.operation
         /\ [r EXCEPT !.phase = phase].session = r.session
         /\ [r EXCEPT !.phase = phase].supported = r.supported
  BY DEF ClearState

(* A finished clearing has the phase it is finished with, for the same token. *)
LEMMA Finishing ==
  ASSUME ClearInv, NEW phase \in ClearPhases, FinishWith(phase), clearing # "out"
  PROVE  /\ clear' = [clear EXCEPT !.phase = phase] /\ clear' \in ClearState
         /\ clear'.phase = phase /\ clear'.token = clear.token
         /\ clear'.operation = clear.operation /\ clear'.supported = clear.supported
         /\ clearing' = "record"
  BY PhasedState DEF FinishWith, ClearInv, ClearTypes, FollowsState

(* The steps of the application task, of time, of the link and of others *)
LEMMA OwnerSteps ==
  ASSUME ClearInv,
         \/ Overdue \/ OtherClaims \/ ClearAges \/ ScopeChanges
         \/ \E operation \in Operations :
              Prepare(operation) \/ \E named \in 1..MaxToken : Confirm(operation, named)
  PROVE  ClearInv'
<1> USE ClearAssumption DEF ClearInv
<1>1. CASE Overdue
  <2>1. clear' \in ClearState /\ clear'.phase = "FAILED" /\ clear'.token = clear.token
    BY <1>1, PhasedState DEF Overdue, ClearTypes, ClearPhases
  <2>2. Spent' = Spent
    BY <1>1 DEF Overdue, Spent
  <2>3. ClearTypes'
    BY <1>1, <2>1 DEF Overdue, ClearTypes
  <2> QED
    BY <1>1, <2>1, <2>2, <2>3
    DEF Overdue, OneClearing, ClearHoldsGate, TokensInOrder, Admits, KnowsLast, LastSent, FollowsState
<1>2. CASE OtherClaims
  BY <1>2 DEF OtherClaims, ClearTypes, OneClearing, ClearHoldsGate, TokensInOrder, Admits, KnowsLast, LastSent,
              FollowsState, Spent
<1>3. CASE ClearAges
  BY <1>3 DEF ClearAges, ClearTypes, OneClearing, ClearHoldsGate, TokensInOrder, Admits, KnowsLast, LastSent,
              FollowsState, Spent
<1>4. CASE ScopeChanges
  <2>1. scope.session \in 0..MaxScope /\ scope \in [connected : BOOLEAN, session : 0..MaxScope]
    BY DEF ClearTypes
  <2>2. [scope EXCEPT !.connected = FALSE] \in [connected : BOOLEAN, session : 0..MaxScope]
    BY <2>1
  <2>3. ASSUME scope.session < MaxScope
        PROVE  [connected |-> TRUE, session |-> scope.session + 1]
                 \in [connected : BOOLEAN, session : 0..MaxScope]
    <3>1. scope.session + 1 \in 0..MaxScope
      BY <2>1, <2>3
    <3> QED
      BY <3>1
  <2>4. scope' \in [connected : BOOLEAN, session : 0..MaxScope]
    BY <1>4, <2>2, <2>3 DEF ScopeChanges
  <2> QED
    BY <1>4, <2>4 DEF ScopeChanges, ClearTypes, OneClearing, ClearHoldsGate, TokensInOrder,
                      Admits, KnowsLast, LastSent, FollowsState, Spent
<1>5. ASSUME NEW operation \in Operations, Prepare(operation) PROVE ClearInv'
  <2>1. clear' \in ClearState /\ clear'.phase = "PREPARED" /\ clear'.token = token'
        /\ clear'.supported
    BY <1>5 DEF Prepare, ClearTypes, ClearState, ClearPhases
  <2>2. Spent' = Spent
    BY <1>5 DEF Prepare, Spent
  <2>3. token \in 0..MaxToken /\ token' = token + 1 /\ token' \in 0..MaxToken
    BY <1>5 DEF Prepare, ClearTypes
  <2>4. (\A t \in Spent : t \in Nat /\ t <= token /\ t # token + 1) /\ token' \notin Spent
    <3>1. \A t \in Spent : t \in 1..MaxToken
      BY DEF Spent, Range, ClearTypes
    <3> QED
      BY <3>1, <2>3 DEF TokensInOrder
  <2>5. ~pending /\ clearing = "out"
    BY <1>5 DEF Prepare, ClearHoldsGate, ClearTypes
  <2>6. ClearTypes'
    BY <1>5, <2>1, <2>3 DEF Prepare, ClearTypes
  <2>7. TokensInOrder'
    <3>1. copy.token \in 0..MaxToken /\ journal.token \in 0..MaxToken
      BY DEF ClearTypes, ClearState
    <3>2. copy' = copy /\ journal' = journal
      BY <1>5 DEF Prepare
    <3> QED
      BY <2>1, <2>2, <2>3, <2>4, <3>1, <3>2 DEF TokensInOrder
  <2>8. KnowsLast'
    <3>1. sent # <<>> => LastSent <= token'
      BY <2>3, <2>4, LastIsSpent
    <3> QED
      BY <1>5, <2>1, <2>5, <3>1 DEF Prepare, KnowsLast, LastSent
  <2> QED
    BY <1>5, <2>1, <2>2, <2>5, <2>6, <2>7, <2>8, <2>3, <2>4
    DEF Prepare, OneClearing, ClearHoldsGate, Admits, FollowsState
<1>6. ASSUME NEW operation \in Operations, NEW named \in 1..MaxToken,
             Confirm(operation, named)
      PROVE  ClearInv'
  <2>1. clear' \in ClearState /\ clear'.phase = "SENT" /\ clear'.token = clear.token
    BY <1>6, PhasedState DEF Confirm, ClearTypes, ClearPhases
  <2>2. Spent' = Spent /\ clear.token \notin Spent
    BY <1>6 DEF Confirm, Spent, Admits, ClearOutcomes
  <2>3. clearing = "out"
    BY <1>6 DEF Confirm, ClearHoldsGate
  <2>4. ClearTypes'
    BY <1>6, <2>1 DEF Confirm, ClearTypes
  <2> QED
    BY <1>6, <2>1, <2>2, <2>3, <2>4
    DEF Confirm, OneClearing, ClearHoldsGate, TokensInOrder, Admits, KnowsLast, LastSent, FollowsState
<1> QED
  BY <1>1, <1>2, <1>3, <1>4, <1>5, <1>6

(* The worker's steps *)
LEMMA WorkerSteps ==
  ASSUME ClearInv, ClearWorker
  PROVE  ClearInv'
<1> USE ClearAssumption DEF ClearInv
<1>1. CASE TakeClear
  BY <1>1 DEF TakeClear, ClearTypes, OneClearing, ClearHoldsGate, TokensInOrder, Admits, KnowsLast, LastSent,
              FollowsState, Spent
<1>2. CASE CheckClear
  <2>1. CASE scope.connected /\ scope.session = copy.session
    BY <1>2, <2>1 DEF CheckClear, ClearTypes, OneClearing, ClearHoldsGate, TokensInOrder, Admits, KnowsLast, LastSent,
                      FollowsState, Spent
  <2>2. CASE ~(scope.connected /\ scope.session = copy.session)
    <3>1. clear' \in ClearState /\ clear'.phase = "FAILED" /\ clear'.token = clear.token
          /\ clear'.operation = clear.operation /\ clearing' = "record"
          /\ clear'.supported = clear.supported
      BY <1>2, <2>2, Finishing DEF CheckClear, ClearPhases
    <3> QED
      BY <1>2, <3>1 DEF CheckClear, ClearTypes, OneClearing, ClearHoldsGate, TokensInOrder, Admits, KnowsLast, LastSent,
                        FollowsState, Spent
  <2> QED
    BY <2>1, <2>2
<1>3. CASE SaveIntent
  <2>1. Spent' = Spent /\ journal' \in {copy, journal} /\ copy.token \notin Spent
    BY <1>3 DEF SaveIntent, ClearSaved, Spent, FollowsState
  <2>2. CASE clearing' = "send" /\ clear' = clear /\ journal' = copy
    BY <1>3, <2>1, <2>2 DEF SaveIntent, ClearTypes, OneClearing, ClearHoldsGate, TokensInOrder,
                            Admits, KnowsLast, LastSent, FollowsState
  <2>3. CASE FinishWith("FAILED")
    <3>1. clear' \in ClearState /\ clear'.phase = "FAILED" /\ clear'.token = clear.token
          /\ clear'.operation = clear.operation /\ clearing' = "record"
          /\ clear'.supported = clear.supported
      BY <1>3, <2>3, Finishing DEF SaveIntent, ClearPhases
    <3> QED
      BY <1>3, <2>1, <3>1 DEF SaveIntent, ClearTypes, OneClearing, ClearHoldsGate, TokensInOrder,
                              Admits, KnowsLast, LastSent, FollowsState
  <2> QED
    BY <1>3, <2>2, <2>3 DEF SaveIntent, ClearSaved
<1>4. CASE SendClear
  <2>1. clear = copy /\ journal = copy /\ copy.phase = "SENT" /\ copy.token \notin Spent
        /\ copy.token \in 1..MaxToken /\ ~pending /\ gateOwner = "clear" /\ copy.token <= token
    <3>1. copy.token \in 0..MaxToken
      BY DEF ClearTypes, ClearState
    <3> QED
      BY <1>4, <3>1 DEF SendClear, FollowsState, OneClearing, ClearHoldsGate, TokensInOrder
  <2>2. sent' \in {sent, Append(sent, copy.token)}
    BY <1>4 DEF SendClear
  <2>3. /\ sent' \in Seq(1..MaxToken) /\ IsInjective(sent')
        /\ Spent' = Spent \/ Spent' = Spent \union {copy.token}
    <3>1. sent \in Seq(1..MaxToken)
      BY DEF ClearTypes
    <3>2. Append(sent, copy.token) \in Seq(1..MaxToken) /\ IsInjective(Append(sent, copy.token))
      BY <2>1, <3>1, AppendedInjective DEF Spent
    <3>3. CASE sent' = sent
      BY <3>1, <3>3 DEF Spent
    <3>4. CASE sent' = Append(sent, copy.token)
      BY <2>1, <3>1, <3>2, <3>4, AppendedInjective DEF Spent
    <3> QED
      BY <2>2, <3>3, <3>4
  <2>4. (\A t \in Spent' : t <= token) /\ (sent' # <<>> => LastSent' <= copy.token) /\ journal' = journal
    <3>1. \A t \in Spent' : t <= token
      BY <2>1, <2>3 DEF TokensInOrder
    <3>2. sent' = sent => LastSent' = LastSent
      BY DEF LastSent
    <3>3. sent' = Append(sent, copy.token) => LastSent' = copy.token
      BY <2>1 DEF LastSent, ClearTypes
    <3> QED
      BY <1>4, <2>1, <2>2, <3>1, <3>2, <3>3 DEF SendClear, KnowsLast
  <2>5. CASE clearing' = "verify" /\ clear' = clear
    BY <1>4, <2>1, <2>3, <2>4, <2>5
    DEF SendClear, ClearTypes, OneClearing, ClearHoldsGate, TokensInOrder, Admits, KnowsLast, FollowsState
  <2>6. CASE FinishWith("UNKNOWN")
    <3>1. clear' \in ClearState /\ clear'.phase = "UNKNOWN" /\ clear'.token = clear.token
          /\ clear'.operation = clear.operation /\ clearing' = "record"
          /\ clear'.supported = clear.supported
      BY <1>4, <2>6, Finishing DEF SendClear, ClearPhases, ClearOutcomes
    <3> QED
      BY <1>4, <2>1, <2>3, <2>4, <3>1
      DEF SendClear, ClearTypes, OneClearing, ClearHoldsGate, TokensInOrder, Admits, KnowsLast, FollowsState,
          ClearOutcomes
  <2> QED
    BY <1>4, <2>5, <2>6 DEF SendClear
<1>5. CASE VerifyClear
  <2>1. PICK outcome \in ClearOutcomes : FinishWith(outcome)
    BY <1>5 DEF VerifyClear
  <2>2. clear' \in ClearState /\ clear'.phase = outcome /\ clear'.token = clear.token
        /\ clear'.operation = clear.operation /\ clearing' = "record"
        /\ clear'.supported = clear.supported
    BY <1>5, <2>1, Finishing DEF VerifyClear, ClearPhases
  <2> QED
    BY <1>5, <2>1, <2>2 DEF VerifyClear, ClearTypes, OneClearing, ClearHoldsGate, TokensInOrder,
                            Admits, KnowsLast, LastSent, FollowsState, Spent, ClearOutcomes
<1>6. CASE RecordClear
  BY <1>6 DEF RecordClear, ClearSaved, ClearTypes, OneClearing, ClearHoldsGate, TokensInOrder,
              Admits, KnowsLast, LastSent, FollowsState, Spent, ClearOutcomes
<1>7. CASE ReleaseClear
  <2>1. NoClear \in ClearState /\ NoClear.token = 0 /\ token >= 0
    BY DEF NoClear, ClearState, ClearPhases, ClearTypes
  <2> QED
    BY <1>7, <2>1 DEF ReleaseClear, ClearTypes, OneClearing, ClearHoldsGate, TokensInOrder,
                      Admits, KnowsLast, LastSent, FollowsState, Spent
<1> QED
  BY <1>1, <1>2, <1>3, <1>4, <1>5, <1>6, <1>7 DEF ClearWorker

(* The chip restarts: an intent that was stored comes back as one of unknown outcome. *)
LEMMA RestartStep ==
  ASSUME ClearInv, ClearRestart
  PROVE  ClearInv'
<1> USE ClearAssumption DEF ClearInv
<1>1. /\ NoClear \in ClearState /\ NoClear.token = 0 /\ token >= 0 /\ 0 \notin Spent
  <2>1. NoClear \in ClearState /\ NoClear.token = 0 /\ token >= 0
    BY DEF NoClear, ClearState, ClearPhases, ClearTypes
  <2>2. \A t \in Spent : t \in 1..MaxToken
    BY DEF Spent, Range, ClearTypes
  <2> QED
    BY <2>1, <2>2
<1>2. scope' \in [connected : BOOLEAN, session : 0..MaxScope]
  BY DEF ClearRestart, ClearTypes
<1>3. Spent' = Spent
  BY DEF ClearRestart, Spent
<1>4. CASE clear' = Restored(journal)
  <2>1. /\ clear' \in ClearState /\ clear'.token = journal.token /\ clear'.supported = journal.supported
        /\ clear'.phase = IF journal.phase = "SENT" THEN "UNKNOWN" ELSE journal.phase
    <3>1. journal \in ClearState /\ "UNKNOWN" \in ClearPhases
      BY DEF ClearTypes, ClearPhases, ClearOutcomes
    <3>2. /\ [journal EXCEPT !.phase = "UNKNOWN"] \in ClearState
          /\ [journal EXCEPT !.phase = "UNKNOWN"].phase = "UNKNOWN"
          /\ [journal EXCEPT !.phase = "UNKNOWN"].token = journal.token
          /\ [journal EXCEPT !.phase = "UNKNOWN"].supported = journal.supported
      BY <3>1, PhasedState
    <3> QED
      BY <1>4, <3>1, <3>2 DEF Restored
  <2> QED
    BY <1>1, <1>2, <1>3, <2>1
    DEF ClearRestart, ClearTypes, OneClearing, ClearHoldsGate, TokensInOrder, Admits, KnowsLast, LastSent,
        FollowsState, ClearOutcomes
<1>5. ASSUME NEW phase \in {"DISABLED", "UNKNOWN"},
             clear' = [NoClear EXCEPT !.phase = phase, !.supported = FALSE]
      PROVE  ClearInv'
  <2>1. clear' \in ClearState /\ clear'.token = 0 /\ clear'.phase = phase /\ ~clear'.supported
    <3>1. clear' = [phase |-> phase, operation |-> 0, token |-> 0, session |-> 0, supported |-> FALSE]
      BY <1>5 DEF NoClear
    <3>2. phase \in ClearPhases /\ 0 \in 0..MaxToken /\ 0 \in 0..MaxScope
      BY DEF ClearPhases, ClearOutcomes
    <3> QED
      BY <3>1, <3>2 DEF ClearState
  <2> QED
    BY <1>1, <1>2, <1>3, <2>1
    DEF ClearRestart, ClearTypes, OneClearing, ClearHoldsGate, TokensInOrder, Admits, KnowsLast, LastSent,
        FollowsState, ClearOutcomes
<1> QED
  BY <1>4, <1>5 DEF ClearRestart

(* Every step keeps the invariant. *)
LEMMA ClearKeeps == ClearInv /\ [ClearNext]_clearVars => ClearInv'
<1> SUFFICES ASSUME ClearInv, [ClearNext]_clearVars PROVE ClearInv'
  OBVIOUS
<1>1. CASE ClearNext
  BY <1>1, OwnerSteps, WorkerSteps, RestartStep DEF ClearNext
<1>2. CASE UNCHANGED clearVars
  BY <1>2 DEF clearVars, ClearInv, ClearTypes, OneClearing, ClearHoldsGate, TokensInOrder, Admits, KnowsLast, LastSent,
              FollowsState, Spent
<1> QED
  BY <1>1, <1>2

(* The invariant says what the code promises. *)
LEMMA ClearImplied == ClearInv => ClearTypeOK /\ ClearIsHonest
<1> SUFFICES ASSUME ClearInv PROVE ClearTypeOK /\ ClearIsHonest
  OBVIOUS
<1>1. ClearTypeOK
  BY DEF ClearInv, ClearTypes, ClearTypeOK
<1>2. Range(sent) = Spent
  BY DEF Spent
<1>3. clearing = "verify" => journal = [copy EXCEPT !.phase = "SENT"]
  BY DEF ClearInv, ClearTypes, FollowsState, ClearState
<1>4. Knows(journal) /\ (clear.supported => Knows(clear))
  BY <1>2, LastIsSpent DEF ClearInv, Knows, Admits, KnowsLast
<1> QED
  BY <1>1, <1>3, <1>4 DEF ClearInv, ClearIsHonest, KnowsLast

(* The state of the clearing keeps its types. *)
THEOREM ClearTypeCorrect == ClearSpec => []ClearTypeOK
<1> QED
  BY ClearStarts, ClearKeeps, ClearImplied, PTL DEF ClearSpec

(* No intent is ever sent twice, across any restarts and failed writes; NVS     *)
(* knows of the last one before it is sent and ever after; and a boot shows it  *)
(* as sent, or a later one, if it could read NVS, and clears nothing if it could*)
(* not (diagnostic_clear.c, clear_policy.c).                                    *)
THEOREM ClearStaysHonest == ClearSpec => []ClearIsHonest
<1> QED
  BY ClearStarts, ClearKeeps, ClearImplied, PTL DEF ClearSpec

(* A confirmed clearing has the transfer gate until its outcome is recorded, *)
(* however it ends (diagnostic_clear.c).                                     *)
THEOREM ClearKeepsGate == ClearSpec => []ClearHoldsGate
<1>1. ClearInv => ClearHoldsGate
  BY DEF ClearInv
<1> QED
  BY ClearStarts, ClearKeeps, <1>1, PTL DEF ClearSpec

===============================================================================
