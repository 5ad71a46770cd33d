----------------------- MODULE VehicleCommands_proofs -----------------------
(***************************************************************************)
(* Lemmas about the owner of the vehicle commands (VehicleCommands) and    *)
(* its driver, for every set of kinds, number of operations and links.     *)
(*                                                                         *)
(* Each function of the owner is shown to keep it sound (OwnerSound,       *)
(* JobSound), given what may be in force in the vehicle, and to do no more *)
(* than a relation says: Watched for an observation, Submits for requests, *)
(* Scheduling and Commanded for the choice of a command, Ends, Driven and  *)
(* Fed for a job. VehicleWorker_proofs reasons from these relations and    *)
(* not from the functions, of which a call of the worker makes several.    *)
(*                                                                         *)
(* All of it is shown for any outcome sv of the saves and any context c in *)
(* which nothing that may be in force is proved released.                  *)
(***************************************************************************)
EXTENDS VehicleCommands, WellFoundedInduction, TLAPS

\* The journal: what may be in force (E) is in the stored copy, every control of it
\* has its operation, and Burnout is never in it beside another.
MarkerSound(s, E) ==
  /\ E \subseteq s.stored.mask
  /\ \A k \in s.stored.mask : s.stored.operation[k] # NoOperation
  /\ "burnout" \in s.stored.mask => s.stored.mask = {"burnout"}

\* The slots of an open owner: the marker of the boot holds what may be in force, a
\* Start not yet begun is not in it, and Burnout is never pending beside another.
SlotsSound(s, E) ==
  /\ E \subseteq s.marker.mask
  /\ \A k \in s.marker.mask : s.phase[k] \in PendingPhases /\ s.marker.operation[k] # NoOperation
  /\ \A k \in s.pendingStart : s.phase[k] = "starting" /\ k \notin s.marker.mask
  /\ \A k \in Kinds : s.phase[k] \in PendingPhases => s.operation[k] # NoOperation
  /\ \A j, k \in Kinds : s.phase[j] \in PendingPhases /\ s.phase[k] \in PendingPhases
        => j = k \/ "burnout" \notin {j, k}

\* An owner whose marker could not be read does nothing for the boot.
Frozen(s) == Idle(s) /\ s.pendingStart = {} /\ s.pendingStop = {} /\ \A k \in Kinds : s.phase[k] = "unknown"

\* What holds of the owner after every one of its functions; E is what may be in force
OwnerSound(s, E) ==
  /\ s \in Owner
  /\ MarkerSound(s, E)
  /\ \A k \in Kinds : s.operation[k] <= s.lastOperation /\ (s.phase[k] = "restart" => k = "abs")
  /\ IF s.journalReady THEN SlotsSound(s, E) ELSE Frozen(s)

\* What an observation may do to the slot of k, and that it leaves the rest alone
Observed(s, t, c, k) ==
  /\ t \in Owner
  /\ t.operation = s.operation /\ t.link = s.link /\ t.lastOperation = s.lastOperation
  /\ t.releaseAttempted = s.releaseAttempted /\ t.job = s.job /\ t.journalReady = s.journalReady
  /\ \A j \in Kinds \ {k} : t.phase[j] = s.phase[j]
  /\ t.phase[k] \in PendingPhases => s.phase[k] \in PendingPhases
  /\ t.phase[k] \in LivePhases \union {"restart"} => s.phase[k] = t.phase[k]
  /\ t.pendingStart \in {s.pendingStart, s.pendingStart \ {k}}
  /\ t.pendingStop \ {k} = s.pendingStop \ {k}
  /\ k \in t.pendingStop \ s.pendingStop =>
       /\ s.phase[k] \in PendingPhases
       /\ s.phase[k] = "active" \/ (~s.releaseAttempted /\ Scoped(s, c, k))
  /\ k \in s.pendingStop \ t.pendingStop =>
       k \notin t.pendingStart /\ (s.phase[k] \in LivePhases \/ t.phase[k] \notin PendingPhases)
  /\ ~Idle(s) => t.marker = s.marker /\ t.stored = s.stored
  /\ /\ ~Idle(s) /\ s.job.kind = k /\ k \notin s.pendingStart
     /\ s.phase[k] \in PendingPhases /\ Qualified(c, k) /\ Scoped(s, c, k)
     => t.phase[k] = s.phase[k] \/ (s.phase[k] = "verifying" /\ t.phase[k] = "unknown")

\* Two observations of a slot come to one.
LEMMA ObservedTwice ==
  ASSUME NEW s \in Owner, NEW t, NEW u, NEW c, NEW k \in Kinds, Observed(s, t, c, k), Observed(t, u, c, k)
  PROVE  Observed(s, u, c, k)
<1>1. k \in u.pendingStop \ s.pendingStop =>
       /\ s.phase[k] \in PendingPhases
       /\ s.phase[k] = "active" \/ (~s.releaseAttempted /\ Scoped(s, c, k))
  BY DEF Observed, Scoped, PendingPhases, LivePhases
<1>2. ~Idle(s) => u.marker = s.marker /\ u.stored = s.stored
  BY DEF Observed, Idle
<1>3. /\ u.phase[k] \in PendingPhases => s.phase[k] \in PendingPhases
      /\ u.phase[k] \in LivePhases \union {"restart"} => s.phase[k] = u.phase[k]
  BY DEF Observed
<1>4. /\ ~Idle(s) /\ s.job.kind = k /\ k \notin s.pendingStart
      /\ s.phase[k] \in PendingPhases /\ Qualified(c, k) /\ Scoped(s, c, k)
      => u.phase[k] = s.phase[k] \/ (s.phase[k] = "verifying" /\ u.phase[k] = "unknown")
  BY DEF Observed, Idle, Scoped, PendingPhases, LivePhases
<1>5. k \in s.pendingStop \ u.pendingStop =>
        k \notin u.pendingStart /\ (s.phase[k] \in LivePhases \/ u.phase[k] \notin PendingPhases)
  BY DEF Observed
<1> QED
  BY <1>1, <1>2, <1>3, <1>4, <1>5 DEF Observed

\* Doing nothing is an observation.
LEMMA ObservedSame ==
  ASSUME NEW s \in Owner, NEW c, NEW k \in Kinds
  PROVE  Observed(s, s, c, k)
BY DEF Observed

\* An observation that keeps the marker keeps the owner sound.
LEMMA ObservedSound ==
  ASSUME NEW s, NEW t, NEW E, NEW c, NEW k \in Kinds, OwnerSound(s, E), s.journalReady, Observed(s, t, c, k),
         t.marker = s.marker, t.stored = s.stored,
         k \in t.marker.mask => t.phase[k] \in PendingPhases,
         k \in t.pendingStart => t.phase[k] = "starting"
  PROVE  OwnerSound(t, E)
<1>1. s \in Owner /\ t \in Owner /\ t.journalReady
  BY DEF OwnerSound, Observed
<1>2. MarkerSound(t, E)
  BY DEF OwnerSound, MarkerSound
<1>3. \A j \in Kinds : t.operation[j] <= t.lastOperation /\ (t.phase[j] = "restart" => j = "abs")
  BY <1>1 DEF OwnerSound, Observed
<1>4. \A j \in Kinds : t.phase[j] \in PendingPhases => s.phase[j] \in PendingPhases
  BY DEF Observed
<1>5. \A j \in t.marker.mask : t.phase[j] \in PendingPhases /\ t.marker.operation[j] # NoOperation
  BY <1>1 DEF OwnerSound, SlotsSound, Observed, Owner, Marker
<1>6. \A j \in t.pendingStart : t.phase[j] = "starting" /\ j \notin t.marker.mask
  BY <1>1 DEF OwnerSound, SlotsSound, Observed, Owner
<1>7. SlotsSound(t, E)
  BY <1>4, <1>5, <1>6 DEF OwnerSound, SlotsSound, Observed
<1> QED
  BY <1>1, <1>2, <1>3, <1>7 DEF OwnerSound

\* The helpers of the owner return owners.
LEMMA ToType ==
  ASSUME NEW s \in Owner, NEW k \in Kinds, NEW p \in CommandPhases
  PROVE  To(s, k, p) \in Owner
BY DEF To, Owner

\* A save, whether it fails or not, returns an owner.
LEMMA SaveType ==
  ASSUME NEW s \in Owner, NEW m \in Marker, NEW sv
  PROVE  Save(s, m, sv) \in Owner
BY DEF Save, Saves, Owner

\* So does the withdrawal of a Start that has not begun.
LEMMA WithdrawnType ==
  ASSUME NEW s \in Owner, NEW k \in Kinds
  PROVE  Withdrawn(s, k) \in Owner
BY DEF Withdrawn, Owner

\* A raised idle whose coolant reading is stale falls back to its timed length.
LEMMA LatchFallbackSound ==
  ASSUME NEW s, NEW E, OwnerSound(s, E), s.journalReady, NEW c, NEW k \in Kinds
  PROVE  OwnerSound(LatchFallback(s, c, k), E) /\ Observed(s, LatchFallback(s, c, k), c, k)
<1> DEFINE t == LatchFallback(s, c, k)
           w == [s EXCEPT !.timedFallback = TRUE, !.expired = @ \ {"fallback"}]
<1>1. s \in Owner
  BY DEF OwnerSound
<1>2. w \in Owner /\ Observed(s, w, c, k) /\ w.phase = s.phase /\ w.pendingStart = s.pendingStart
      /\ w.marker = s.marker /\ w.stored = s.stored
  BY <1>1 DEF Owner, Observed
<1>3. t \in {s, w}
  BY DEF LatchFallback
<1> HIDE DEF w
<1>4. OwnerSound(w, E)
  BY <1>1, <1>2, ObservedSound DEF OwnerSound, SlotsSound
<1> QED
  BY <1>1, <1>2, <1>3, <1>4, ObservedSame

\* Burnout is to be returned when it is uncertain and its guards or its time are gone:
\* once only, and on its own link.
LEMMA LatchReleaseSound ==
  ASSUME NEW s, NEW E, OwnerSound(s, E), s.journalReady, NEW c, NEW k \in Kinds
  PROVE  OwnerSound(LatchRelease(s, c, k), E) /\ Observed(s, LatchRelease(s, c, k), c, k)
<1> DEFINE t == LatchRelease(s, c, k)
           w == [s EXCEPT !.pendingStop = @ \union {k}]
<1>1. s \in Owner
  BY DEF OwnerSound
<1>2. CASE t = s
  BY <1>1, <1>2, ObservedSame
<1>3. CASE t # s
  <2>1. t = w /\ ~s.releaseAttempted /\ Scoped(s, c, k) /\ s.phase[k] \in PendingPhases
    BY <1>3 DEF LatchRelease, PendingPhases, LivePhases
  <2>2. w \in Owner /\ Observed(s, w, c, k) /\ w.phase = s.phase /\ w.pendingStart = s.pendingStart
        /\ w.marker = s.marker /\ w.stored = s.stored
    BY <1>1, <2>1 DEF Owner, Observed
  <2> HIDE DEF w
  <2>3. OwnerSound(w, E)
    BY <1>1, <2>2, ObservedSound DEF OwnerSound, SlotsSound
  <2> QED
    BY <2>1, <2>2, <2>3
<1> QED
  BY <1>2, <1>3

\* A control that comes back into sight keeps the owner sound.
LEMMA AppearSound ==
  ASSUME NEW s, NEW E, OwnerSound(s, E), s.journalReady, NEW c, NEW k \in Kinds
  PROVE  OwnerSound(Appear(s, c, k), E) /\ Observed(s, Appear(s, c, k), c, k)
<1> DEFINE t == Appear(s, c, k)
           w == To(s, k, "ready")
<1>1. s \in Owner
  BY DEF OwnerSound
<1>2. CASE t = s
  BY <1>1, <1>2, ObservedSame
<1>3. CASE t # s
  <2>1. t = w /\ s.phase[k] = "unavailable"
    BY <1>3 DEF Appear
  <2>2. w \in Owner /\ Observed(s, w, c, k) /\ w.phase[k] = "ready" /\ w.pendingStart = s.pendingStart
        /\ w.marker = s.marker /\ w.stored = s.stored
    BY <1>1, <2>1 DEF Owner, Observed, To, CommandPhases, PendingPhases, LivePhases
  <2> HIDE DEF w
  <2>3. k \notin s.marker.mask /\ k \notin s.pendingStart
    BY <2>1 DEF OwnerSound, SlotsSound, PendingPhases, LivePhases
  <2>4. OwnerSound(w, E)
    BY <1>1, <2>2, <2>3, ObservedSound
  <2> QED
    BY <2>1, <2>2, <2>4
<1> QED
  BY <1>2, <1>3

\* A live control becomes uncertain without its vehicle or its link, is to be returned
\* without its guards or its time, and is refused when it has not begun.
LEMMA CheckLiveSound ==
  ASSUME NEW s, NEW E, OwnerSound(s, E), s.journalReady, NEW c, NEW k \in Kinds
  PROVE  OwnerSound(CheckLive(s, c, k), E) /\ Observed(s, CheckLive(s, c, k), c, k)
<1> DEFINE t == CheckLive(s, c, k)
           lost == Uncertain(Withdrawn(s, k), k)
           stop == [s EXCEPT !.pendingStop = @ \union {k}]
           gone == To([s EXCEPT !.pendingStart = @ \ {k}], k, "rejected")
<1>1. s \in Owner
  BY DEF OwnerSound
<1>2. \/ t = s
      \/ t = lost /\ s.phase[k] \in LivePhases /\ (~Scoped(s, c, k) \/ ~Qualified(c, k))
      \/ t = stop /\ s.phase[k] = "active"
      \/ t = gone /\ s.phase[k] = "starting" /\ k \in s.pendingStart
  BY DEF CheckLive
<1>3. CASE t = lost /\ s.phase[k] \in LivePhases /\ (~Scoped(s, c, k) \/ ~Qualified(c, k))
  <2> DEFINE p == IF k \in s.marker.mask THEN "unknown" ELSE "rejected"
  <2>1. lost \in Owner
    <3>1. lost = To(Withdrawn(s, k), k, p)
      BY <1>1 DEF Uncertain, Withdrawn, Owner
    <3> QED
      BY <1>1, <3>1, WithdrawnType, ToType DEF CommandPhases
  <2>2. /\ lost.phase = [s.phase EXCEPT ![k] = p]
        /\ lost.pendingStart = s.pendingStart \ {k} /\ lost.pendingStop = s.pendingStop \ {k}
        /\ lost.marker = s.marker /\ lost.stored = s.stored
        /\ lost.operation = s.operation /\ lost.link = s.link /\ lost.lastOperation = s.lastOperation
        /\ lost.releaseAttempted = s.releaseAttempted /\ lost.job = s.job /\ lost.journalReady = s.journalReady
    BY <1>1 DEF Uncertain, Withdrawn, To, Owner
  <2> HIDE DEF lost
  <2>3. Observed(s, lost, c, k)
    BY <1>1, <1>3, <2>1, <2>2 DEF Observed, Owner, PendingPhases, LivePhases
  <2>4. OwnerSound(lost, E)
    BY <1>1, <2>2, <2>3, ObservedSound DEF Owner, PendingPhases
  <2> QED
    BY <1>3, <2>3, <2>4
<1>4. CASE t = stop /\ s.phase[k] = "active"
  <2>1. Observed(s, stop, c, k) /\ stop.phase = s.phase /\ stop.pendingStart = s.pendingStart
        /\ stop.marker = s.marker /\ stop.stored = s.stored
    BY <1>1, <1>4 DEF Owner, Observed, PendingPhases, LivePhases
  <2> HIDE DEF stop
  <2>2. OwnerSound(stop, E)
    BY <1>1, <2>1, ObservedSound DEF OwnerSound, SlotsSound
  <2> QED
    BY <1>4, <2>1, <2>2
<1>5. CASE t = gone /\ s.phase[k] = "starting" /\ k \in s.pendingStart
  <2>1. Observed(s, gone, c, k) /\ k \notin gone.pendingStart /\ gone.marker = s.marker /\ gone.stored = s.stored
    BY <1>1, <1>5 DEF Owner, Observed, To, CommandPhases, PendingPhases, LivePhases
  <2> HIDE DEF gone
  <2>2. k \notin s.marker.mask
    BY <1>5 DEF OwnerSound, SlotsSound
  <2>3. OwnerSound(gone, E)
    BY <1>1, <2>1, <2>2, ObservedSound
  <2> QED
    BY <1>5, <2>1, <2>3
<1> QED
  BY <1>1, <1>2, <1>3, <1>4, <1>5, ObservedSame

\* An uncertain control that is proved released leaves the marker, when it can be saved;
\* what may be in force is never proved released.
LEMMA ReconcileSound ==
  ASSUME NEW s, NEW E, OwnerSound(s, E), s.journalReady, NEW c, NEW sv, NEW k \in Kinds, c.proof \cap E = {}
  PROVE  OwnerSound(Reconcile(s, c, k, sv), E) /\ Observed(s, Reconcile(s, c, k, sv), c, k)
<1> DEFINE m == Cleared(s, k)
           t == Reconcile(s, c, k, sv)
<1>0. s \in Owner
  BY DEF OwnerSound
<1>1. CASE t = s
  BY <1>0, <1>1, ObservedSame
<1>2. CASE t # s
  <2> DEFINE yes == To(Withdrawn(Save(s, m, sv), k), k, "restored")
             no  == To(Save(s, m, sv), k, "unknown")
  <2>1. /\ k \in s.marker.mask /\ k \in c.proof /\ Idle(s) /\ s.phase[k] # "starting"
        /\ t = IF Saves(s, sv) THEN yes ELSE no
    BY <1>2 DEF Reconcile
  <2>2. m \in Marker /\ m.mask = s.marker.mask \ {k} /\ m.operation = s.marker.operation
    BY <1>0 DEF Cleared, Owner, Marker
  <2>3. t \in Owner
    BY <1>0, <2>1, <2>2, SaveType, WithdrawnType, ToType DEF CommandPhases
  <2>4. k \notin s.pendingStart /\ s.phase[k] \in PendingPhases
    BY <2>1 DEF OwnerSound, SlotsSound
  <2> HIDE DEF m
  <2>5. /\ t.stored \in {m, s.stored}
        /\ t.phase = [s.phase EXCEPT ![k] = IF Saves(s, sv) THEN "restored" ELSE "unknown"]
        /\ t.marker = IF Saves(s, sv) THEN m ELSE s.marker
        /\ t.pendingStart = s.pendingStart /\ t.pendingStop \in {s.pendingStop, s.pendingStop \ {k}}
        /\ t.operation = s.operation /\ t.link = s.link /\ t.lastOperation = s.lastOperation
        /\ t.releaseAttempted = s.releaseAttempted /\ t.job = s.job /\ t.journalReady = s.journalReady
    <3>1. /\ yes.stored \in {m, s.stored} /\ yes.phase = [s.phase EXCEPT ![k] = "restored"]
          /\ yes.marker = IF Saves(s, sv) THEN m ELSE s.marker
          /\ yes.pendingStart = s.pendingStart \ {k} /\ yes.pendingStop = s.pendingStop \ {k}
          /\ yes.operation = s.operation /\ yes.link = s.link /\ yes.lastOperation = s.lastOperation
          /\ yes.releaseAttempted = s.releaseAttempted /\ yes.job = s.job /\ yes.journalReady = s.journalReady
      BY <1>0 DEF To, Withdrawn, Save, Owner
    <3>2. /\ no.stored \in {m, s.stored} /\ no.phase = [s.phase EXCEPT ![k] = "unknown"]
          /\ no.marker = IF Saves(s, sv) THEN m ELSE s.marker
          /\ no.pendingStart = s.pendingStart /\ no.pendingStop = s.pendingStop
          /\ no.operation = s.operation /\ no.link = s.link /\ no.lastOperation = s.lastOperation
          /\ no.releaseAttempted = s.releaseAttempted /\ no.job = s.job /\ no.journalReady = s.journalReady
      BY <1>0 DEF To, Save, Owner
    <3> HIDE DEF t, yes, no
    <3>3. CASE Saves(s, sv)
      BY <2>1, <2>4, <3>1, <3>3
    <3>4. CASE ~Saves(s, sv)
      BY <2>1, <3>2, <3>4
    <3> QED
      BY <3>3, <3>4
  <2> HIDE DEF t
  <2>6. MarkerSound(t, E)
    <3>1. E \subseteq m.mask /\ m.mask \subseteq s.marker.mask /\ s.marker.mask \subseteq Kinds
      BY <1>0, <2>1, <2>2 DEF OwnerSound, SlotsSound, Owner, Marker
    <3>2. "burnout" \in m.mask => m.mask = {"burnout"}
      BY <3>1 DEF OwnerSound, SlotsSound
    <3>3. \A j \in m.mask : m.operation[j] # NoOperation
      BY <3>1, <2>2 DEF OwnerSound, SlotsSound
    <3> QED
      BY <3>1, <3>2, <3>3, <2>5 DEF OwnerSound, MarkerSound
  <2>7. \A j \in Kinds : t.operation[j] <= t.lastOperation /\ (t.phase[j] = "restart" => j = "abs")
    BY <1>0, <2>5 DEF OwnerSound, Owner
  <2>8. SlotsSound(t, E)
    <3>1. E \subseteq t.marker.mask
      BY <2>1, <2>2, <2>5 DEF OwnerSound, SlotsSound
    <3>2. \A j \in Kinds : t.phase[j] \in PendingPhases => s.phase[j] \in PendingPhases
      BY <1>0, <2>4, <2>5 DEF Owner
    <3>3. \A j \in t.marker.mask : t.phase[j] \in PendingPhases /\ t.marker.operation[j] # NoOperation
      BY <1>0, <2>1, <2>2, <2>5 DEF OwnerSound, SlotsSound, Owner, PendingPhases, LivePhases, Marker
    <3>4. \A j \in t.pendingStart : t.phase[j] = "starting" /\ j \notin t.marker.mask
      BY <1>0, <2>1, <2>2, <2>5 DEF OwnerSound, SlotsSound, Owner
    <3> QED
      BY <3>1, <3>2, <3>3, <3>4, <2>5 DEF SlotsSound, OwnerSound
  <2>9. OwnerSound(t, E)
    BY <2>3, <2>5, <2>6, <2>7, <2>8 DEF OwnerSound
  <2>10. Observed(s, t, c, k)
    <3>1. /\ \A j \in Kinds \ {k} : t.phase[j] = s.phase[j]
          /\ t.phase[k] \in PendingPhases => s.phase[k] \in PendingPhases
          /\ t.phase[k] \notin LivePhases \union {"restart"}
      BY <1>0, <2>4, <2>5 DEF Owner, PendingPhases, LivePhases
    <3>2. /\ t.pendingStart = s.pendingStart
          /\ t.pendingStop \ {k} = s.pendingStop \ {k} /\ k \notin t.pendingStop \ s.pendingStop
          /\ k \notin t.pendingStart
      BY <2>4, <2>5
    <3>3. k \in s.pendingStop \ t.pendingStop => t.phase[k] \notin PendingPhases
      <4>1. CASE Saves(s, sv)
        BY <1>0, <2>5, <4>1 DEF Owner, PendingPhases, LivePhases
      <4>2. CASE ~Saves(s, sv)
        <5>1. t.pendingStop = s.pendingStop
          BY <2>1, <4>2 DEF Save, To, Owner, t
        <5> QED
          BY <5>1
      <4> QED
        BY <4>1, <4>2
    <3> QED
      BY <2>1, <2>3, <2>5, <3>1, <3>2, <3>3 DEF Observed
  <2> QED
    BY <2>9, <2>10 DEF t
<1> QED
  BY <1>1, <1>2

\* The observation of one kind, from end to end
LEMMA ObserveKindSound ==
  ASSUME NEW s, NEW E, OwnerSound(s, E), NEW c, NEW sv, NEW k \in Kinds, c.proof \cap E = {}
  PROVE  OwnerSound(ObserveKind(s, c, k, sv), E) /\ Observed(s, ObserveKind(s, c, k, sv), c, k)
<1>1. s \in Owner
  BY DEF OwnerSound
<1>2. CASE ObserveKind(s, c, k, sv) = s
  BY <1>1, <1>2, ObservedSame
<1>3. CASE /\ s.phase[k] = "verifying" 
           /\ ObserveKind(s, c, k, sv) = To([s EXCEPT !.recoveryVerifying = FALSE], k, "unknown")
  <2> DEFINE w == To([s EXCEPT !.recoveryVerifying = FALSE], k, "unknown")
  <2>1. s.journalReady
    BY <1>3 DEF OwnerSound, Frozen
  <2>2. Observed(s, w, c, k) /\ w.phase[k] = "unknown" /\ w.pendingStart = s.pendingStart
        /\ w.marker = s.marker /\ w.stored = s.stored
    BY <1>1, <1>3 DEF Owner, Observed, To, CommandPhases, PendingPhases, LivePhases
  <2> HIDE DEF w
  <2>3. k \notin s.pendingStart
    BY <1>3, <2>1 DEF OwnerSound, SlotsSound
  <2>4. OwnerSound(w, E)
    BY <1>1, <2>1, <2>2, <2>3, ObservedSound DEF PendingPhases
  <2> QED
    BY <1>3, <2>2, <2>4 DEF w
<1>4. CASE /\ s.journalReady
           /\ ObserveKind(s, c, k, sv) =
                CheckLive(Appear(LatchRelease(LatchFallback(Reconcile(s, c, k, sv), c, k), c, k), c, k), c, k)
  <2> DEFINE a == Reconcile(s, c, k, sv)
             b == LatchFallback(a, c, k)
             d == LatchRelease(b, c, k)
             e == Appear(d, c, k)
             f == CheckLive(e, c, k)
  <2>1. OwnerSound(a, E) /\ Observed(s, a, c, k)
    BY <1>4, ReconcileSound
  <2> HIDE DEF a
  <2>ja. a.journalReady
    BY <1>4, <2>1 DEF Observed
  <2>2. OwnerSound(b, E) /\ Observed(a, b, c, k)
    BY <2>1, <2>ja, LatchFallbackSound
  <2> HIDE DEF b
  <2>jb. b.journalReady
    BY <1>4, <2>2, <2>ja DEF Observed
  <2>3. OwnerSound(d, E) /\ Observed(b, d, c, k)
    BY <2>2, <2>jb, LatchReleaseSound
  <2> HIDE DEF d
  <2>jd. d.journalReady
    BY <1>4, <2>3, <2>jb DEF Observed
  <2>4. OwnerSound(e, E) /\ Observed(d, e, c, k)
    BY <2>3, <2>jd, AppearSound
  <2> HIDE DEF e
  <2>je. e.journalReady
    BY <1>4, <2>4, <2>jd DEF Observed
  <2>5. OwnerSound(f, E) /\ Observed(e, f, c, k)
    BY <2>4, <2>je, CheckLiveSound
  <2> HIDE DEF f
  <2>6. a \in Owner /\ b \in Owner /\ d \in Owner /\ e \in Owner
    BY <2>1, <2>2, <2>3, <2>4 DEF OwnerSound
  <2>7. Observed(s, b, c, k)
    BY <1>1, <2>1, <2>2, ObservedTwice
  <2>8. Observed(s, d, c, k)
    BY <1>1, <2>3, <2>7, ObservedTwice
  <2>9. Observed(s, e, c, k)
    BY <1>1, <2>4, <2>8, ObservedTwice
  <2>10. Observed(s, f, c, k)
    BY <1>1, <2>5, <2>9, ObservedTwice
  <2> QED
    BY <1>4, <2>5, <2>10 DEF a, b, d, e, f
<1> QED
  BY <1>1, <1>2, <1>3, <1>4 DEF ObserveKind

-----------------------------------------------------------------------------
\* The same for an observation of all kinds
Watched(s, t, c) ==
  /\ t \in Owner
  /\ t.operation = s.operation /\ t.link = s.link /\ t.lastOperation = s.lastOperation
  /\ t.releaseAttempted = s.releaseAttempted /\ t.job = s.job /\ t.journalReady = s.journalReady
  /\ \A k \in Kinds :
       /\ t.phase[k] \in PendingPhases => s.phase[k] \in PendingPhases
       /\ t.phase[k] \in LivePhases \union {"restart"} => s.phase[k] = t.phase[k]
       /\ k \in t.pendingStart => k \in s.pendingStart
       /\ k \in t.pendingStop \ s.pendingStop =>
            /\ s.phase[k] \in PendingPhases
            /\ s.phase[k] = "active" \/ (~s.releaseAttempted /\ Scoped(s, c, k))
       /\ k \in s.pendingStop \ t.pendingStop =>
            k \notin t.pendingStart /\ (s.phase[k] \in LivePhases \/ t.phase[k] \notin PendingPhases)
       /\ /\ ~Idle(s) /\ s.job.kind = k /\ k \notin s.pendingStart
          /\ s.phase[k] \in PendingPhases /\ Qualified(c, k) /\ Scoped(s, c, k)
          => t.phase[k] = s.phase[k] \/ (s.phase[k] = "verifying" /\ t.phase[k] = "unknown")
  /\ ~Idle(s) => t.marker = s.marker /\ t.stored = s.stored

\* The observation of one kind is one of all of them.
LEMMA WatchedOne ==
  ASSUME NEW s \in Owner, NEW t, NEW c, NEW k \in Kinds, Observed(s, t, c, k)
  PROVE  Watched(s, t, c)
<1>1. \A j \in Kinds \ {k} : t.phase[j] = s.phase[j] /\ (j \in t.pendingStop <=> j \in s.pendingStop)
  BY DEF Observed
<1>2. \A j \in Kinds : t.phase[j] \in PendingPhases => s.phase[j] \in PendingPhases
  BY <1>1 DEF Observed
<1>3. \A j \in Kinds : t.phase[j] \in LivePhases \union {"restart"} => s.phase[j] = t.phase[j]
  BY <1>1 DEF Observed
<1>4. \A j \in Kinds : j \in t.pendingStart => j \in s.pendingStart
  BY DEF Observed
<1>5. \A j \in Kinds : j \in t.pendingStop \ s.pendingStop =>
            /\ s.phase[j] \in PendingPhases
            /\ s.phase[j] = "active" \/ (~s.releaseAttempted /\ Scoped(s, c, j))
  BY <1>1 DEF Observed
<1>6. \A j \in Kinds : j \in s.pendingStop \ t.pendingStop =>
        j \notin t.pendingStart /\ (s.phase[j] \in LivePhases \/ t.phase[j] \notin PendingPhases)
  BY <1>1 DEF Observed
<1>7. \A j \in Kinds : /\ ~Idle(s) /\ s.job.kind = j /\ j \notin s.pendingStart
          /\ s.phase[j] \in PendingPhases /\ Qualified(c, j) /\ Scoped(s, c, j)
          => t.phase[j] = s.phase[j] \/ (s.phase[j] = "verifying" /\ t.phase[j] = "unknown")
  BY <1>1 DEF Observed
<1> QED
  BY <1>2, <1>3, <1>4, <1>5, <1>6, <1>7 DEF Watched, Observed

\* Doing nothing observes all kinds.
LEMMA WatchedSame ==
  ASSUME NEW s \in Owner, NEW c
  PROVE  Watched(s, s, c)
BY DEF Watched

\* Two observations of all kinds come to one.
LEMMA WatchedTwice ==
  ASSUME NEW s \in Owner, NEW t, NEW u, NEW c, Watched(s, t, c), Watched(t, u, c)
  PROVE  Watched(s, u, c)
<1> SUFFICES ASSUME NEW k \in Kinds
             PROVE  /\ u.phase[k] \in PendingPhases => s.phase[k] \in PendingPhases
                    /\ u.phase[k] \in LivePhases \union {"restart"} => s.phase[k] = u.phase[k]
                    /\ k \in u.pendingStart => k \in s.pendingStart
                    /\ k \in u.pendingStop \ s.pendingStop =>
                         /\ s.phase[k] \in PendingPhases
                         /\ s.phase[k] = "active" \/ (~s.releaseAttempted /\ Scoped(s, c, k))
                    /\ k \in s.pendingStop \ u.pendingStop =>
                         k \notin u.pendingStart /\ (s.phase[k] \in LivePhases \/ u.phase[k] \notin PendingPhases)
                    /\ /\ ~Idle(s) /\ s.job.kind = k /\ k \notin s.pendingStart
                       /\ s.phase[k] \in PendingPhases /\ Qualified(c, k) /\ Scoped(s, c, k)
                       => u.phase[k] = s.phase[k] \/ (s.phase[k] = "verifying" /\ u.phase[k] = "unknown")
  BY DEF Watched, Idle
<1>1. k \in u.pendingStop \ s.pendingStop =>
       /\ s.phase[k] \in PendingPhases
       /\ s.phase[k] = "active" \/ (~s.releaseAttempted /\ Scoped(s, c, k))
  BY DEF Watched, Scoped, PendingPhases, LivePhases
<1>2. /\ u.phase[k] \in PendingPhases => s.phase[k] \in PendingPhases
      /\ u.phase[k] \in LivePhases \union {"restart"} => s.phase[k] = u.phase[k]
  BY DEF Watched
<1>3. /\ ~Idle(s) /\ s.job.kind = k /\ k \notin s.pendingStart
      /\ s.phase[k] \in PendingPhases /\ Qualified(c, k) /\ Scoped(s, c, k)
      => u.phase[k] = s.phase[k] \/ (s.phase[k] = "verifying" /\ u.phase[k] = "unknown")
  BY DEF Watched, Idle, Scoped, PendingPhases, LivePhases
<1>4. k \in s.pendingStop \ u.pendingStop =>
        k \notin u.pendingStart /\ (s.phase[k] \in LivePhases \/ u.phase[k] \notin PendingPhases)
  BY DEF Watched
<1>5. k \in u.pendingStart => k \in s.pendingStart
  BY DEF Watched
<1> QED
  BY <1>1, <1>2, <1>3, <1>4, <1>5

\* The observation of a kind, which the build may lack
LEMMA ObserveSomeKind ==
  ASSUME NEW s, NEW E, OwnerSound(s, E), NEW c, NEW sv, NEW k, c.proof \cap E = {}
  PROVE  OwnerSound(ObserveKind(s, c, k, sv), E) /\ Watched(s, ObserveKind(s, c, k, sv), c)
<1>1. s \in Owner
  BY DEF OwnerSound
<1>2. CASE k \in Kinds
  BY <1>1, <1>2, ObserveKindSound, WatchedOne
<1>3. CASE k \notin Kinds
  BY <1>1, <1>3, WatchedSame DEF ObserveKind
<1> QED
  BY <1>2, <1>3

\* vehicle_commands_observe keeps the owner sound and asks for no more than Watched says.
LEMMA ObserveSound ==
  ASSUME NEW s, NEW E, OwnerSound(s, E), NEW c, NEW sv, c.proof \cap E = {}
  PROVE  OwnerSound(Observe(s, c, sv), E) /\ Watched(s, Observe(s, c, sv), c)
<1> DEFINE a == ObserveKind(s, c, "idle", sv)
           b == ObserveKind(a, c, "abs", sv)
           d == ObserveKind(b, c, "burnout", sv)
<1>1. OwnerSound(a, E) /\ Watched(s, a, c)
  BY ObserveSomeKind
<1> HIDE DEF a
<1>2. OwnerSound(b, E) /\ Watched(a, b, c)
  BY <1>1, ObserveSomeKind
<1> HIDE DEF b
<1>3. OwnerSound(d, E) /\ Watched(b, d, c)
  BY <1>2, ObserveSomeKind
<1> HIDE DEF d
<1>4. s \in Owner /\ a \in Owner /\ b \in Owner
  BY <1>1, <1>2 DEF OwnerSound
<1>5. Watched(s, b, c)
  BY <1>1, <1>2, <1>4, WatchedTwice
<1>6. Watched(s, d, c)
  BY <1>3, <1>4, <1>5, WatchedTwice
<1> QED
  BY <1>3, <1>6 DEF Observe, a, b, d

\* A marker that could not be read closes every control for the boot.
LEMMA ObserveFrozen ==
  ASSUME NEW s, NEW E, OwnerSound(s, E), ~s.journalReady, NEW c, NEW sv
  PROVE  Observe(s, c, sv) = s
<1>1. \A k : ObserveKind(s, c, k, sv) = s
  BY DEF ObserveKind, OwnerSound, Frozen
<1> QED
  BY <1>1 DEF Observe

-----------------------------------------------------------------------------
\* A job that a driver has in hand
DriverJob(d) ==
  /\ d \in Job /\ d.at \in 1..Len(Steps(d.kind, d.request))
  /\ d.kind # "idle" => d.request \in {"start", "return"}

\* How many transactions a procedure has, and which of them acts
Count(kind, request) ==
  IF kind # "idle" THEN 3 ELSE IF request = "start" THEN 5 ELSE IF request = "report" THEN 2 ELSE 3
\* The transaction that acts, of a Start
ControlAt(kind) == IF kind = "idle" THEN 4 ELSE 3

\* Every procedure has the transactions that Count says.
LEMMA StepsCount ==
  ASSUME NEW kind, NEW request \in Requests
  PROVE  Len(Steps(kind, request)) = Count(kind, request)
<1>1. CASE kind # "idle"
  BY <1>1 DEF Steps, Count
<1>2. CASE kind = "idle"
  <2>1. CASE request = "start"
    BY <1>2, <2>1 DEF Steps, Count
  <2>2. CASE request = "report"
    BY <1>2, <2>2 DEF Steps, Count
  <2>3. CASE request = "return"
    BY <1>2, <2>3 DEF Steps, Count
  <2>4. CASE request = "recover"
    BY <1>2, <2>4 DEF Steps, Count
  <2> QED
    BY <2>1, <2>2, <2>3, <2>4 DEF Requests
<1> QED
  BY <1>1, <1>2

\* A job is in hand while it has a transaction left.
LEMMA JobAt ==
  ASSUME NEW d \in Job, d.kind # "idle" => d.request \in {"start", "return"}
  PROVE  DriverJob(d) <=> d.at <= Count(d.kind, d.request)
<1>1. d.request \in Requests /\ d.at \in 1..5 /\ Count(d.kind, d.request) \in 1..5
  BY DEF Job, Count
<1>2. Len(Steps(d.kind, d.request)) = Count(d.kind, d.request)
  BY <1>1, StepsCount
<1> QED
  BY <1>1, <1>2 DEF DriverJob

\* A new job has its first transaction to do.
LEMMA NewJobDriven ==
  ASSUME NEW k \in AllKinds, NEW request \in Requests, k # "idle" => request \in {"start", "return"}
  PROVE  DriverJob(NewJob(k, request))
<1> DEFINE d == NewJob(k, request)
<1>1. d \in Job /\ d.kind = k /\ d.request = request /\ d.at = 1
  BY DEF NewJob, Job, Statuses, Replies
<1> HIDE DEF d
<1>2. d.at <= Count(d.kind, d.request)
  BY <1>1 DEF Count
<1> QED
  BY <1>1, <1>2, JobAt DEF d

\* A job goes on as it is, or from the beginning of a Return.
Drives(d, e) ==
  /\ DriverJob(e) /\ e.kind = d.kind /\ e.marked = d.marked
  /\ \/ e.request = d.request
     \/ e.request = "return" /\ e.kind = "idle" /\ e.at = 1

\* A cancelled job goes on with the Return of an idle, or ends.
LEMMA CancelledDriven ==
  ASSUME NEW d, DriverJob(d)
  PROVE  LET e == Cancelled(d)
         IN /\ Drives(d, e) /\ (e.request = d.request => e.at = d.at)
            /\ e.status = d.status \/ e.status \in {"unknown", "cancelled"}
            /\ e.status = "working" /\ e.request = "start" => ~d.cancel /\ ~e.cancel
<1> DEFINE e == Cancelled(d)
           returned == [d EXCEPT !.request = "return", !.at = 1]
<1>1. d \in Job /\ d.at <= Count(d.kind, d.request)
  BY JobAt DEF DriverJob
<1>2. CASE e = d
  BY <1>1, <1>2 DEF Drives, Cancelled, Job
<1>3. CASE e = returned /\ d.kind = "idle" /\ d.request # "return"
  <2>1. /\ returned \in Job /\ returned.kind = "idle" /\ returned.request = "return"
        /\ returned.at = 1 /\ returned.marked = d.marked /\ returned.status = d.status
    <3>1. d.kind = "idle"
      BY <1>3
    <3> HIDE DEF e
    <3>2. returned.request = "return" /\ returned.at = 1
      BY <1>1 DEF Job
    <3>3. returned.kind = d.kind /\ returned.marked = d.marked /\ returned.status = d.status
      BY <1>1 DEF Job
    <3>4. \A r \in Requests, n \in 1..5 : [d EXCEPT !.request = r, !.at = n] \in Job
      BY <1>1 DEF Job
    <3>5. returned \in Job
      <4>1. "return" \in Requests /\ 1 \in 1..5
        BY DEF Requests
      <4> QED
        BY <3>4, <4>1
    <3> QED
      BY <3>1, <3>2, <3>3, <3>5
  <2> HIDE DEF returned, e
  <2>2. returned.at <= Count(returned.kind, returned.request)
    BY <2>1 DEF Count
  <2>3. DriverJob(returned)
    BY <2>1, <2>2, JobAt
  <2>4. Drives(d, e) /\ e.status = d.status /\ e.request = "return"
    BY <1>3, <2>1, <2>3 DEF Drives
  <2> QED
    BY <1>3, <2>4 DEF e
<1>4. CASE \E st \in {"unknown", "cancelled"} : e = [d EXCEPT !.status = st]
  <2>1. e \in Job /\ e.kind = d.kind /\ e.request = d.request /\ e.at = d.at /\ e.marked = d.marked
        /\ e.status \in {"unknown", "cancelled"}
    BY <1>1, <1>4 DEF Job, Statuses
  <2> HIDE DEF e
  <2>2. DriverJob(e)
    BY <1>1, <2>1, JobAt DEF DriverJob
  <2> QED
    BY <2>1, <2>2 DEF Drives, e
<1>5. \/ e = d \/ (e = returned /\ d.kind = "idle" /\ d.request # "return")
      \/ \E st \in {"unknown", "cancelled"} : e = [d EXCEPT !.status = st]
  BY <1>1 DEF Cancelled, Job
<1> QED
  BY <1>2, <1>3, <1>4, <1>5

\* Where in each procedure the acting transaction stands
LEMMA ControlPlace ==
  ASSUME NEW d, DriverJob(d)
  PROVE  IsControl(d) <=> \/ d.kind # "idle" /\ d.at = 3
                          \/ d.kind = "idle" /\ d.request = "start" /\ d.at = 4
                          \/ d.kind = "idle" /\ d.request = "return" /\ d.at = 2
<1>1. d \in Job /\ d.at \in 1..Count(d.kind, d.request)
  BY StepsCount DEF DriverJob, Job
<1>2. CASE d.kind # "idle"
  <2>1. d.at \in {1, 2, 3}
    BY <1>1, <1>2 DEF Count
  <2>2. Steps(d.kind, d.request) = <<"route", "session", "control">>
    BY <1>2 DEF Steps
  <2> QED
    BY <1>2, <2>1, <2>2 DEF IsControl, StepOf, ControlSteps
<1>3. CASE d.kind = "idle"
  <2>1. CASE d.request = "start"
    <3>1. d.at \in {1, 2, 3, 4, 5}
      BY <1>1, <1>3, <2>1 DEF Count
    <3>2. Steps(d.kind, d.request) = <<"route", "session", "before", "start", "after">>
      BY <1>3, <2>1 DEF Steps
    <3> QED
      BY <1>3, <2>1, <3>1, <3>2 DEF IsControl, StepOf, ControlSteps
  <2>2. CASE d.request = "report"
    <3>1. d.at \in {1, 2}
      BY <1>1, <1>3, <2>2 DEF Count
    <3>2. Steps(d.kind, d.request) = <<"route", "report">>
      BY <1>3, <2>2 DEF Steps
    <3> QED
      BY <1>3, <2>2, <3>1, <3>2 DEF IsControl, StepOf, ControlSteps
  <2>3. CASE d.request = "return"
    <3>1. d.at \in {1, 2, 3}
      BY <1>1, <1>3, <2>3 DEF Count
    <3>2. Steps(d.kind, d.request) = <<"route", "return", "settled">>
      BY <1>3, <2>3 DEF Steps
    <3> QED
      BY <1>3, <2>3, <3>1, <3>2 DEF IsControl, StepOf, ControlSteps
  <2>4. CASE d.request = "recover"
    <3>1. d.at \in {1, 2, 3}
      BY <1>1, <1>3, <2>4 DEF Count
    <3>2. Steps(d.kind, d.request) = <<"route", "session", "report">>
      BY <1>3, <2>4 DEF Steps
    <3> QED
      BY <1>3, <2>4, <3>1, <3>2 DEF IsControl, StepOf, ControlSteps
  <2> QED
    BY <1>1, <2>1, <2>2, <2>3, <2>4 DEF Job, Requests
<1> QED
  BY <1>2, <1>3

\* Asking for the end of a job moves nothing.
LEMMA CancelDriven ==
  ASSUME NEW d, DriverJob(d)
  PROVE  LET e == Cancel(d)
         IN /\ DriverJob(e) /\ e.kind = d.kind /\ e.request = d.request /\ e.at = d.at
            /\ e.marked = d.marked /\ e.status = d.status /\ e.cancel
<1> DEFINE e == Cancel(d)
<1>1. d \in Job /\ d.at <= Count(d.kind, d.request)
  BY JobAt DEF DriverJob
<1>2. /\ e \in Job /\ e.kind = d.kind /\ e.request = d.request /\ e.at = d.at
      /\ e.marked = d.marked /\ e.status = d.status /\ e.cancel
  BY <1>1 DEF Cancel, Job
<1> HIDE DEF e
<1>3. DriverJob(e)
  BY <1>1, <1>2, JobAt DEF DriverJob
<1> QED
  BY <1>2, <1>3 DEF e

\* Nor does taking the guards of the moment into it.
LEMMA CurrentDriven ==
  ASSUME NEW d, DriverJob(d), NEW guarded
  PROVE  LET e == Current(d, guarded)
         IN /\ Drives(d, e) /\ e.request = d.request /\ e.at = d.at /\ e.status = d.status
            /\ d.cancel => e.cancel
<1> DEFINE e == Current(d, guarded)
           x == Cancel(d)
<1>1. d \in Job /\ d.at <= Count(d.kind, d.request)
  BY JobAt DEF DriverJob
<1>2. /\ x \in Job /\ x.kind = d.kind /\ x.request = d.request /\ x.at = d.at
      /\ x.marked = d.marked /\ x.status = d.status /\ x.cancel
  BY <1>1 DEF Cancel, Job
<1>3. e \in {d, x}
  BY DEF Current
<1> HIDE DEF x, e
<1>4. Drives(d, x) /\ Drives(d, d)
  BY <1>1, <1>2, JobAt DEF DriverJob, Drives
<1> QED
  BY <1>2, <1>3, <1>4 DEF e

\* A transaction that fails ends the job, rejected or unknown.
LEMMA FailedDriven ==
  ASSUME NEW d, DriverJob(d)
  PROVE  LET e == Failed(d)
         IN Drives(d, e) /\ e.request = d.request /\ e.at = d.at /\ e.status \in {"unknown", "rejected"}
<1> DEFINE e == Failed(d)
<1>1. d \in Job /\ d.at <= Count(d.kind, d.request)
  BY JobAt DEF DriverJob
<1>2. /\ e \in Job /\ e.kind = d.kind /\ e.request = d.request /\ e.at = d.at
      /\ e.marked = d.marked /\ e.status \in {"unknown", "rejected"}
  BY <1>1 DEF Failed, Job, Statuses
<1> HIDE DEF e
<1>3. Drives(d, e)
  BY <1>1, <1>2, JobAt DEF DriverJob, Drives
<1> QED
  BY <1>2, <1>3 DEF e

\* An expected reply moves the job by one, and the last of them confirms it.
LEMMA CompleteDriven ==
  ASSUME NEW d, DriverJob(d), d.status = "working", NEW reply \in Replies
  PROVE  LET e == Complete(d, reply)
         IN /\ Drives(d, e) /\ e.request = d.request /\ e.cancel = d.cancel
            /\ \/ e.status \in {"unknown", "rejected"} /\ e.at = d.at
               \/ e.status = "working" /\ e.at = d.at + 1
               \/ e.status = "confirmed" /\ e.at = d.at /\ e.seen \in Expected(StepOf(d))
                  /\ d.at = Count(d.kind, d.request)
<1> DEFINE e == Complete(d, reply)
           u == [d EXCEPT !.uncertain = @ \/ reply = "odd" \/ (StepOf(d) = "before" /\ reply = "active")]
           w == [d EXCEPT !.at = @ + 1]
           f == [d EXCEPT !.status = "confirmed", !.seen = reply,
                      !.possible = @ \/ (StepOf(d) = "report" /\ reply = "active")]
           n == Count(d.kind, d.request)
<1>1. d \in Job /\ d.at <= n /\ Len(Steps(d.kind, d.request)) = n /\ n \in 1..5 /\ d.at \in 1..5
  <2>1. d \in Job /\ d.at <= n
    BY JobAt DEF DriverJob
  <2>2. n \in 1..5
    BY DEF Count
  <2>3. d.at \in 1..5 /\ d.request \in Requests
    BY <2>1 DEF Job
  <2> QED
    BY <2>1, <2>2, <2>3, StepsCount
<1>2. \/ e = Failed(u)
      \/ e = w /\ d.at # n
      \/ e = f /\ d.at = n /\ reply \in Expected(StepOf(d))
  BY <1>1 DEF Complete
<1>3. CASE e = Failed(u)
  <2>1. /\ u \in Job /\ u.kind = d.kind /\ u.request = d.request /\ u.at = d.at /\ u.marked = d.marked
        /\ u.cancel = d.cancel
    BY <1>1 DEF Job
  <2>2. u.uncertain \in BOOLEAN
    BY <2>1 DEF Job
  <2> HIDE DEF u, e
  <2>3. DriverJob(u)
    BY <1>1, <2>1, JobAt DEF DriverJob
  <2>4. Failed(u).cancel = d.cancel
    BY <2>1 DEF Failed, Job
  <2> HIDE DEF u
  <2>5. /\ Drives(d, e) /\ e.request = d.request /\ e.cancel = d.cancel
        /\ e.at = d.at /\ e.status \in {"unknown", "rejected"}
    BY <1>3, <2>1, <2>3, <2>4, FailedDriven DEF Drives
  <2> QED
    BY <2>5 DEF e
<1>4. CASE e = w /\ d.at # n
  <2>1. d.at + 1 \in 1..5 /\ d.at + 1 <= n
    BY <1>1, <1>4
  <2>2. /\ w \in Job /\ w.kind = d.kind /\ w.request = d.request /\ w.at = d.at + 1 /\ w.marked = d.marked
        /\ w.cancel = d.cancel /\ w.status = d.status
    BY <1>1, <2>1 DEF Job
  <2> HIDE DEF w, e
  <2>3. DriverJob(w)
    BY <1>1, <2>1, <2>2, JobAt DEF DriverJob
  <2>4. Drives(d, w)
    BY <2>2, <2>3 DEF Drives
  <2> QED
    BY <1>4, <2>2, <2>4 DEF e
<1>5. CASE e = f /\ d.at = n /\ reply \in Expected(StepOf(d))
  <2>1. /\ f \in Job /\ f.kind = d.kind /\ f.request = d.request /\ f.at = d.at /\ f.marked = d.marked
        /\ f.cancel = d.cancel /\ f.status = "confirmed" /\ f.seen = reply
    BY <1>1 DEF Job, Statuses
  <2> HIDE DEF f, e
  <2>3. DriverJob(f)
    BY <1>1, <2>1, JobAt DEF DriverJob
  <2>4. Drives(d, f)
    BY <2>1, <2>3 DEF Drives
  <2> QED
    BY <1>5, <2>1, <2>4 DEF e
<1> QED
  BY <1>2, <1>3, <1>4, <1>5

\* The driver's next command leaves the job where it is, or begins its Return; a
\* cancelled Start is not gone on with.
LEMMA DriverNextDriven ==
  ASSUME NEW d, DriverJob(d), d.status = "working", NEW guarded, NEW late
  PROVE  LET e == DriverNext(d, guarded, late)
         IN /\ Drives(d, e) /\ (e.request = d.request => e.at = d.at) /\ e.status # "confirmed"
            /\ e.status = "working" /\ e.request = "start" => ~d.cancel /\ ~e.cancel
<1> DEFINE x == Current(d, guarded)
           y == Cancelled(x)
           z == [y EXCEPT !.possible = TRUE]
           e == DriverNext(d, guarded, late)
<1>1. CASE late
  BY <1>1, FailedDriven DEF DriverNext
<1>2. CASE ~late
  <2>1. Drives(d, x) /\ x.request = d.request /\ x.at = d.at /\ x.status = d.status /\ (d.cancel => x.cancel)
    BY CurrentDriven
  <2>2. e = y \/ e = z
    BY <1>2 DEF DriverNext
  <2> HIDE DEF x
  <2>3. /\ Drives(x, y) /\ (y.request = x.request => y.at = x.at)
        /\ y.status = x.status \/ y.status \in {"unknown", "cancelled"}
        /\ y.status = "working" /\ y.request = "start" => ~x.cancel /\ ~y.cancel
    BY <2>1, CancelledDriven DEF Drives
  <2> HIDE DEF y
  <2>4. /\ z \in Job /\ z.kind = y.kind /\ z.request = y.request /\ z.at = y.at /\ z.marked = y.marked
        /\ z.cancel = y.cancel /\ z.status = y.status
    BY <2>3 DEF Drives, DriverJob, Job
  <2> HIDE DEF z, e
  <2>5. DriverJob(z)
    BY <2>3, <2>4 DEF Drives, DriverJob
  <2>6. Drives(d, y) /\ Drives(d, z)
    BY <2>1, <2>3, <2>4, <2>5 DEF Drives
  <2>7. /\ Drives(d, e) /\ (e.request = d.request => e.at = d.at) /\ e.status # "confirmed"
        /\ e.status = "working" /\ e.request = "start" => ~d.cancel /\ ~e.cancel
    BY <2>1, <2>2, <2>3, <2>4, <2>6
  <2> QED
    BY <2>7 DEF e
<1> QED
  BY <1>1, <1>2

\* A reply moves a job by one transaction, begins its Return, or ends it.
LEMMA DriverFeedDriven ==
  ASSUME NEW d, DriverJob(d), d.status = "working", NEW reply \in Replies, NEW guarded, NEW late
  PROVE  LET e == DriverFeed(d, reply, guarded, late)
         IN /\ Drives(d, e)
            /\ e.status = "working" /\ e.request = "start" => e.at = d.at + 1
            /\ e.status = "working" /\ e.kind # "idle" => e.request = d.request /\ e.at = d.at + 1
            /\ e.status = "confirmed" => e.request = d.request /\ d.at = Count(d.kind, d.request)
<1> DEFINE x == Current(d, guarded)
           y == Complete(x, reply)
           goesOn == /\ y.cancel /\ y.status = "confirmed"
                     /\ y.request # "recover" /\ y.seen = "active"
           w == [y EXCEPT !.status = "working"]
           z == IF goesOn THEN w ELSE y
           e == DriverFeed(d, reply, guarded, late)
<1>1. CASE late
  BY <1>1, FailedDriven DEF DriverFeed
<1>2. CASE ~late
  <2>1. Drives(d, x) /\ x.request = d.request /\ x.at = d.at /\ x.status = "working"
    BY CurrentDriven
  <2>2. e = IF z.kind = "idle" /\ z.status = "working" THEN Cancelled(z) ELSE z
    BY <1>2 DEF DriverFeed
  <2> HIDE DEF x, e
  <2>3. /\ Drives(x, y) /\ y.request = x.request
        /\ \/ y.status \in {"unknown", "rejected"} /\ y.at = x.at
           \/ y.status = "working" /\ y.at = x.at + 1
           \/ y.status = "confirmed" /\ y.at = x.at /\ x.at = Count(x.kind, x.request)
              /\ y.seen \in Expected(StepOf(x))
    BY <2>1, CompleteDriven DEF Drives
  <2> HIDE DEF y
  <2>4. goesOn => y.kind = "idle"
    <3>1. CASE x.kind # "idle"
      <4>1. y.status = "confirmed" => StepOf(x) = "control"
        BY <2>1, <2>3, <3>1 DEF StepOf, Steps, Count
      <4> QED
        BY <2>3, <4>1 DEF Expected
    <3> QED
      BY <2>3, <3>1 DEF Drives
  <2>5. /\ w.kind = y.kind /\ w.request = y.request /\ w.at = y.at /\ w.marked = y.marked
        /\ w.cancel = y.cancel /\ w.status = "working" /\ w \in Job
    BY <2>3 DEF Drives, DriverJob, Job, Statuses
  <2> HIDE DEF w
  <2>6. DriverJob(z) /\ Drives(d, z) /\ z.request = d.request
    BY <2>1, <2>3, <2>5 DEF Drives, DriverJob
  <2>7. CASE goesOn
    <3>1. z = w /\ z.kind = "idle" /\ z.status = "working" /\ z.cancel
      BY <2>4, <2>5, <2>7
    <3>2. e = Cancelled(z)
      BY <2>2, <3>1
    <3> HIDE DEF z, goesOn
    <3>3. /\ Drives(z, e) 
          /\ e.status = "working" => e.request # "start" 
          /\ e.status \in {"working", "unknown", "cancelled"}
      BY <2>6, <3>1, <3>2, CancelledDriven
    <3> QED
      BY <2>6, <3>1, <3>3 DEF Drives, e
  <2>8. CASE ~goesOn
    <3>1. z = y
      BY <2>8
    <3> HIDE DEF z, goesOn
    <3>2. CASE z.kind = "idle" /\ z.status = "working"
      <4>1. /\ Drives(z, e) /\ (e.request = z.request => e.at = z.at)
            /\ e.status = "working" \/ e.status \in {"unknown", "cancelled"}
        BY <2>2, <2>6, <3>2, CancelledDriven
      <4>2. z.at = d.at + 1
        BY <2>1, <2>3, <3>1, <3>2
      <4>3. /\ Drives(d, e)
            /\ e.status = "working" /\ e.request = "start" => e.at = d.at + 1
            /\ e.kind = "idle" /\ e.status # "confirmed"
        BY <2>6, <3>2, <4>1, <4>2 DEF Drives
      <4> QED
        BY <4>3 DEF e
    <3>3. CASE ~(z.kind = "idle" /\ z.status = "working")
      <4>1. e = y
        BY <2>2, <3>1, <3>3
      <4>2. /\ Drives(d, e) /\ e.request = d.request
            /\ e.status = "working" => e.at = d.at + 1
            /\ e.status = "confirmed" => d.at = Count(d.kind, d.request)
        BY <2>1, <2>3, <2>6, <3>1, <4>1 DEF Drives
      <4> QED
        BY <4>2 DEF e
    <3> QED
      BY <3>2, <3>3
  <2> QED
    BY <2>7, <2>8
<1> QED
  BY <1>1, <1>2

-----------------------------------------------------------------------------
\* The job at hand: a Start or a Return of k, and one that its vehicle or its link has left
StartOf(s, k)  == ~Idle(s) /\ s.job.kind = k /\ s.job.request = "start"
ReturnOf(s, k) == ~Idle(s) /\ s.job.kind = k /\ s.job.request = "return"
Doomed(s, c)   == ~Qualified(c, s.job.kind) \/ ~Scoped(s, c, s.job.kind)

\* A job is of a kind the build has, still has a transaction to do, and is in the
\* marker, and a Start in the stored copy too, before it acts.
JobSound(s) ==
  ~Idle(s) =>
    /\ s.journalReady /\ DriverJob(s.job) /\ s.job.kind \in Kinds /\ s.job.status = "working"
    /\ s.job.kind \notin s.pendingStart
    /\ s.job.marked => s.job.kind \in s.marker.mask
    /\ s.job.marked /\ s.job.request = "start" => s.job.kind \in s.stored.mask

\* The slot of a job shows what the job does.
JobLive(s) ==
  ~Idle(s) =>
    /\ s.phase[s.job.kind] \in PendingPhases
    /\ s.job.request = "start" => s.phase[s.job.kind] = "starting"
    /\ s.job.request = "return" /\ s.job.kind # "idle" => s.phase[s.job.kind] = "stopping"

\* An observation leaves the job alone; its slot still shows it, or the job is doomed.
LEMMA WatchedJob ==
  ASSUME NEW s \in Owner, NEW t, NEW c, Watched(s, t, c), JobSound(s)
  PROVE  /\ JobSound(t) /\ (Idle(t) <=> Idle(s)) /\ (Doomed(t, c) <=> Doomed(s, c))
         /\ JobLive(s) => JobLive(t) \/ Doomed(t, c)
<1>1. t.job = s.job /\ t.link = s.link /\ (Idle(t) <=> Idle(s))
  BY DEF Watched, Idle
<1>2. Doomed(t, c) <=> Doomed(s, c)
  BY <1>1 DEF Doomed, Scoped
<1>3. JobSound(t)
  BY <1>1 DEF JobSound, Watched
<1>4. ASSUME JobLive(s), ~Doomed(s, c), ~Idle(s)
      PROVE  JobLive(t)
  <2>1. s.job.kind \in Kinds /\ s.job.kind \notin s.pendingStart /\ s.phase[s.job.kind] \in PendingPhases
    BY <1>4 DEF JobSound, JobLive
  <2>2. \/ t.phase[s.job.kind] = s.phase[s.job.kind]
        \/ s.phase[s.job.kind] = "verifying" /\ t.phase[s.job.kind] = "unknown"
    BY <1>4, <2>1 DEF Watched, Doomed
  <2> QED
    BY <1>1, <1>4, <2>2 DEF JobLive, PendingPhases
<1> QED
  BY <1>1, <1>2, <1>3, <1>4 DEF JobLive

\* Operations only grow, and a Start of an operation is not begun again.
Advanced(s, t) ==
  /\ s.lastOperation <= t.lastOperation /\ t.journalReady = s.journalReady
  /\ \A k \in Kinds :
       /\ t.operation[k] = s.operation[k] \/ s.lastOperation < t.operation[k]
       /\ t.operation[k] = s.operation[k] /\ (k \in t.pendingStart \/ StartOf(t, k))
          => k \in s.pendingStart \/ StartOf(s, k)

\* Two advances come to one.
LEMMA AdvancedTwice ==
  ASSUME NEW s \in Owner, NEW t \in Owner, NEW u \in Owner, Advanced(s, t), Advanced(t, u),
         \A k \in Kinds : s.operation[k] <= s.lastOperation
  PROVE  Advanced(s, u)
<1> DEFINE Ls == s.lastOperation  Lt == t.lastOperation  Lu == u.lastOperation
<1>1. Ls \in Nat /\ Lt \in Nat /\ Lu \in Nat /\ Ls <= Lt /\ Lt <= Lu
  BY BoundsAssumption DEF Owner, Advanced
<1>2. SUFFICES ASSUME NEW k \in Kinds
      PROVE  /\ u.operation[k] = s.operation[k] \/ Ls < u.operation[k]
             /\ u.operation[k] = s.operation[k] /\ (k \in u.pendingStart \/ StartOf(u, k))
                => k \in s.pendingStart \/ StartOf(s, k)
  BY <1>1 DEF Advanced
<1>3. s.operation[k] \in Nat /\ t.operation[k] \in Nat /\ u.operation[k] \in Nat /\ s.operation[k] <= Ls
  BY BoundsAssumption DEF Owner
<1>4. /\ t.operation[k] = s.operation[k] \/ Ls < t.operation[k]
      /\ u.operation[k] = t.operation[k] \/ Lt < u.operation[k]
  BY DEF Advanced
<1>5. u.operation[k] = s.operation[k] => t.operation[k] = s.operation[k]
  BY <1>1, <1>3, <1>4
<1>6. u.operation[k] = s.operation[k] \/ Ls < u.operation[k]
  BY <1>1, <1>3, <1>4
<1> QED
  BY <1>5, <1>6 DEF Advanced

\* A change that gives out no operation and begins no Start is an advance.
LEMMA SameAdvanced ==
  ASSUME NEW s \in Owner, NEW t, t.operation = s.operation, t.lastOperation = s.lastOperation,
         t.journalReady = s.journalReady, t.pendingStart \subseteq s.pendingStart,
         Idle(t) \/ t.job = s.job
  PROVE  Advanced(s, t)
BY BoundsAssumption DEF Advanced, StartOf, Idle, Owner

\* An observation is an advance.
LEMMA WatchedAdvanced ==
  ASSUME NEW s \in Owner, NEW t, NEW c, Watched(s, t, c)
  PROVE  Advanced(s, t)
BY BoundsAssumption DEF Watched, Advanced, StartOf, Idle, Owner

\* One slot changes, and the marker does not.
LEMMA SlotSound ==
  ASSUME NEW s, NEW t \in Owner, NEW E, NEW k \in Kinds, OwnerSound(s, E), s.journalReady,
         t.marker = s.marker, t.stored = s.stored, t.operation = s.operation,
         t.lastOperation = s.lastOperation, t.journalReady = s.journalReady,
         \A j \in Kinds \ {k} : t.phase[j] = s.phase[j],
         t.pendingStart \subseteq s.pendingStart,
         t.phase[k] \in PendingPhases => s.phase[k] \in PendingPhases,
         t.phase[k] = "restart" => s.phase[k] = "restart" \/ k = "abs",
         k \in t.marker.mask => t.phase[k] \in PendingPhases,
         k \in t.pendingStart => t.phase[k] = "starting"
  PROVE  OwnerSound(t, E)
<1>1. s \in Owner
  BY DEF OwnerSound
<1>2. MarkerSound(t, E)
  BY DEF OwnerSound, MarkerSound
<1>3. \A j \in Kinds : t.operation[j] <= t.lastOperation /\ (t.phase[j] = "restart" => j = "abs")
  BY <1>1 DEF OwnerSound
<1>4. \A j \in Kinds : t.phase[j] \in PendingPhases => s.phase[j] \in PendingPhases
  OBVIOUS
<1>5. \A j \in t.marker.mask : t.phase[j] \in PendingPhases /\ t.marker.operation[j] # NoOperation
  BY <1>1 DEF OwnerSound, SlotsSound, Owner, Marker
<1>6. \A j \in t.pendingStart : t.phase[j] = "starting" /\ j \notin t.marker.mask
  BY <1>1 DEF OwnerSound, SlotsSound, Owner
<1>7. SlotsSound(t, E)
  BY <1>4, <1>5, <1>6 DEF OwnerSound, SlotsSound
<1> QED
  BY <1>2, <1>3, <1>7 DEF OwnerSound

\* A control is given up in the marker, on evidence that it is not in force.
LEMMA ClearedSound ==
  ASSUME NEW s, NEW t \in Owner, NEW E, NEW k \in Kinds, OwnerSound(s, E), s.journalReady,
         k \notin E, k \in s.marker.mask, k \notin s.pendingStart,
         t.operation = s.operation, t.lastOperation = s.lastOperation, t.journalReady = s.journalReady,
         \A j \in Kinds \ {k} : t.phase[j] = s.phase[j],
         t.pendingStart = s.pendingStart, t.stored \in {Cleared(s, k), s.stored},
         \/ t.marker = Cleared(s, k) /\ t.phase[k] = "restored"
         \/ t.marker = s.marker /\ t.phase[k] = "unknown"
         \/ t.marker = s.marker /\ t.phase[k] = s.phase[k]
  PROVE  OwnerSound(t, E)
<1> DEFINE m == Cleared(s, k)
<1>1. s \in Owner
  BY DEF OwnerSound
<1>2. m \in Marker /\ m.mask = s.marker.mask \ {k} /\ m.operation = s.marker.operation
  BY <1>1 DEF Cleared, Owner, Marker
<1> HIDE DEF m
<1>3. E \subseteq m.mask /\ m.mask \subseteq s.marker.mask /\ s.marker.mask \subseteq Kinds
  BY <1>1, <1>2 DEF OwnerSound, SlotsSound, Owner, Marker
<1>4. MarkerSound(t, E)
  <2>1. "burnout" \in m.mask => m.mask = {"burnout"}
    BY <1>3 DEF OwnerSound, SlotsSound
  <2>2. \A j \in m.mask : m.operation[j] # NoOperation
    BY <1>2, <1>3 DEF OwnerSound, SlotsSound
  <2>3. t.stored \in {m, s.stored}
    BY DEF m
  <2> QED
    BY <1>3, <2>1, <2>2, <2>3 DEF OwnerSound, MarkerSound
<1>5. \/ t.marker = m /\ t.phase[k] = "restored"
      \/ t.marker = s.marker /\ t.phase[k] = "unknown"
      \/ t.marker = s.marker /\ t.phase[k] = s.phase[k]
  BY DEF m
<1>6. s.phase[k] \in PendingPhases /\ "restored" \notin PendingPhases /\ "unknown" \in PendingPhases
  BY DEF OwnerSound, SlotsSound, PendingPhases, LivePhases
<1>7. \A j \in Kinds : t.operation[j] <= t.lastOperation /\ (t.phase[j] = "restart" => j = "abs")
  BY <1>1, <1>5 DEF OwnerSound
<1>8. \A j \in Kinds : t.phase[j] \in PendingPhases => s.phase[j] \in PendingPhases
  BY <1>6
<1>9. \A j \in t.marker.mask : t.phase[j] \in PendingPhases /\ t.marker.operation[j] # NoOperation
  BY <1>2, <1>3, <1>5, <1>6 DEF OwnerSound, SlotsSound
<1>10. \A j \in t.pendingStart : t.phase[j] = "starting" /\ j \notin t.marker.mask
  BY <1>1, <1>3, <1>5 DEF OwnerSound, SlotsSound, Owner
<1>11. E \subseteq t.marker.mask
  BY <1>3, <1>5
<1>12. SlotsSound(t, E)
  BY <1>8, <1>9, <1>10, <1>11 DEF OwnerSound, SlotsSound
<1> QED
  BY <1>4, <1>7, <1>12 DEF OwnerSound

-----------------------------------------------------------------------------
\* What requests may do to the owner
JobKept(s, t) ==
  /\ Idle(t) <=> Idle(s)
  /\ ~Idle(s) =>
       /\ t.job.kind = s.job.kind /\ t.job.request = s.job.request /\ t.job.at = s.job.at
       /\ t.job.marked = s.job.marked /\ (s.job.cancel => t.job.cancel)
       /\ t.marker = s.marker /\ t.stored = s.stored

\* A Stop is accepted for a control under way, or for an uncertain one.
Stoppable(s, c, k) ==
  s.phase[k] \in {"starting", "active"} \/ (s.phase[k] = "unknown" /\ Qualified(c, k))

\* What a request may do to the slot of each kind: what it accepts is bound to the link
\* of the call, and what it does not accept is as it was
Submits(s, t, c) ==
  /\ t \in Owner /\ Advanced(s, t) /\ JobKept(s, t)
  /\ \A k \in Kinds :
       LET accepted == k \in t.pendingStart \ s.pendingStart
       IN /\ t.link[k] \in {s.link[k], c.link}
          /\ k \in s.pendingStart => k \in t.pendingStart
          /\ k \in s.pendingStop => k \in t.pendingStop /\ t.phase[k] = s.phase[k]
          /\ accepted => s.lastOperation < t.operation[k]
          /\ k \in t.pendingStop \ s.pendingStop =>
               /\ t.link[k] = c.link /\ Stoppable(t, c, k)
               /\ ~Idle(s) /\ s.job.kind = k => t.job.cancel
          /\ ~accepted /\ t.phase[k] \in PendingPhases =>
               /\ t.phase[k] = s.phase[k] /\ (t.link[k] = s.link[k] \/ k \in t.pendingStop)
               /\ k = "burnout" => t.releaseAttempted = s.releaseAttempted

\* The owner between the requests of a call: no request is older than L.
Submitting(s, E, c, L) ==
  /\ OwnerSound(s, E) /\ s.journalReady /\ JobSound(s) /\ (JobLive(s) \/ Doomed(s, c))
  /\ ~Idle(s) => L <= s.link[s.job.kind]
  /\ \A k \in Kinds : s.link[k] <= c.link

\* Doing nothing is a request refused.
LEMMA SubmitsSame ==
  ASSUME NEW s \in Owner, NEW c
  PROVE  Submits(s, s, c)
BY BoundsAssumption DEF Submits, Advanced, JobKept, Owner

\* vehicle_commands_submit, Confirm: a control is taken out of the marker on the owner's
\* word, if it is of the operation confirmed; that one must not be in force.
LEMMA SubmitConfirmSound ==
  ASSUME NEW s, NEW E, NEW c, NEW sv, NEW L, Submitting(s, E, c, L), c.link \in 0..MaxLink,
         NEW r, r.kind \in Kinds, r.operation = s.operation[r.kind] => r.kind \notin E
  PROVE  LET t == SubmitConfirm(s, r, c, sv) IN Submitting(t, E, c, L) /\ Submits(s, t, c)
<1> DEFINE k == r.kind
           m == Cleared(s, k)
           saved == Save(s, m, sv)
           yes == To([Withdrawn(saved, k) EXCEPT !.link[k] = c.link], k, "restored")
           t == SubmitConfirm(s, r, c, sv)
<1>1. s \in Owner /\ s.journalReady /\ OwnerSound(s, E) /\ k \in Kinds
  BY DEF Submitting, OwnerSound
<1>2. CASE ~Confirmable(s, r, c)
  BY <1>1, <1>2, SubmitsSame DEF SubmitConfirm
<1>3. CASE Confirmable(s, r, c)
  <2>1. /\ Idle(s) /\ k \notin s.pendingStart \union s.pendingStop /\ k \in s.marker.mask /\ k \notin E
        /\ t = IF Saves(s, sv) THEN yes ELSE saved
    BY <1>3 DEF Confirmable, SubmitConfirm
  <2>2. m \in Marker
    BY <1>1 DEF Cleared, Owner, Marker
  <2>3. saved \in Owner
    BY <1>1, <2>2, SaveType
  <2>4. yes \in Owner
    <3>1. Withdrawn(saved, k) \in Owner
      BY <1>1, <2>3, WithdrawnType
    <3> DEFINE w == Withdrawn(saved, k)
               x == [w EXCEPT !.link[k] = c.link]
    <3> HIDE DEF w
    <3>2. x \in Owner
      BY <1>1, <3>1 DEF Owner, w
    <3> HIDE DEF x
    <3>3. To(x, k, "restored") \in Owner
      BY <1>1, <3>2, ToType DEF CommandPhases
    <3> QED
      BY <3>3 DEF x, w
  <2> HIDE DEF m
  <2>5. /\ yes.stored \in {m, s.stored} /\ yes.phase = [s.phase EXCEPT ![k] = "restored"]
        /\ yes.marker = IF Saves(s, sv) THEN m ELSE s.marker
        /\ yes.pendingStart = s.pendingStart \ {k} /\ yes.pendingStop = s.pendingStop \ {k}
        /\ yes.operation = s.operation /\ yes.link = [s.link EXCEPT ![k] = c.link]
        /\ yes.lastOperation = s.lastOperation
        /\ yes.releaseAttempted = s.releaseAttempted /\ yes.job = s.job /\ yes.journalReady = s.journalReady
    BY <1>1 DEF To, Withdrawn, Save, Owner
  <2>6. /\ saved.stored \in {m, s.stored} /\ saved.phase = s.phase
        /\ saved.marker = IF Saves(s, sv) THEN m ELSE s.marker
        /\ saved.pendingStart = s.pendingStart /\ saved.pendingStop = s.pendingStop
        /\ saved.operation = s.operation /\ saved.link = s.link /\ saved.lastOperation = s.lastOperation
        /\ saved.releaseAttempted = s.releaseAttempted /\ saved.job = s.job /\ saved.journalReady = s.journalReady
    BY <1>1 DEF Save, Owner
  <2> HIDE DEF yes, saved, t
  <2>7. CASE Saves(s, sv)
    <3>1. t = yes /\ t.marker = m /\ t.job = s.job
      BY <2>1, <2>5, <2>7
    <3>2. t.pendingStart = s.pendingStart /\ t.pendingStop = s.pendingStop
      BY <2>1, <2>5, <3>1
    <3>3. t.phase[k] = "restored" /\ \A j \in Kinds \ {k} : t.phase[j] = s.phase[j]
      BY <1>1, <2>5, <3>1 DEF Owner
    <3>4. t.link[k] = c.link /\ \A j \in Kinds \ {k} : t.link[j] = s.link[j]
      BY <1>1, <2>5, <3>1 DEF Owner
    <3>5. OwnerSound(t, E)
      <4>1. /\ t \in Owner /\ t.operation = s.operation /\ t.lastOperation = s.lastOperation
            /\ t.journalReady = s.journalReady /\ t.stored \in {m, s.stored}
        BY <2>4, <2>5, <3>1
      <4>2. k \notin s.pendingStart
        BY <2>1
      <4> HIDE DEF k
      <4> QED
        BY <1>1, <2>1, <3>1, <3>2, <3>3, <4>1, <4>2, ClearedSound DEF m
    <3>6. Idle(t)
      BY <2>1, <3>1 DEF Idle
    <3>7. \A j \in Kinds : t.link[j] <= c.link
      BY <3>4, BoundsAssumption DEF Submitting
    <3>8. Submitting(t, E, c, L)
      BY <1>1, <2>5, <3>1, <3>5, <3>6, <3>7 DEF Submitting, JobSound, JobLive
    <3>9. Advanced(s, t)
      BY <1>1, <2>5, <3>1, <3>2, <3>6, SameAdvanced
    <3>10. Submits(s, t, c)
      BY <1>1, <2>1, <2>4, <2>5, <3>1, <3>2, <3>3, <3>4, <3>6, <3>9 DEF Submits, JobKept, PendingPhases, LivePhases
    <3> QED
      BY <3>8, <3>10 DEF t
  <2>8. CASE ~Saves(s, sv)
    <3>1. t = saved /\ t.marker = s.marker /\ t.job = s.job /\ t.phase = s.phase /\ t.link = s.link
          /\ t.pendingStart = s.pendingStart /\ t.pendingStop = s.pendingStop
      BY <2>1, <2>6, <2>8
    <3>2. OwnerSound(t, E)
      BY <1>1, <2>1, <2>3, <2>6, <3>1, ClearedSound DEF m
    <3>3. Idle(t)
      BY <2>1, <3>1 DEF Idle
    <3>4. Submitting(t, E, c, L)
      BY <1>1, <2>1, <2>6, <3>1, <3>2, <3>3 DEF Submitting, JobSound, JobLive
    <3>5. Advanced(s, t)
      BY <1>1, <2>6, <3>1, <3>3, SameAdvanced
    <3>6. Submits(s, t, c)
      BY <1>1, <2>1, <2>3, <2>6, <3>1, <3>3, <3>5 DEF Submits, JobKept
    <3> QED
      BY <3>4, <3>6 DEF t
  <2> QED
    BY <2>7, <2>8
<1> QED
  BY <1>2, <1>3

\* vehicle_commands_submit, Stop
LEMMA SubmitStopSound ==
  ASSUME NEW s, NEW E, NEW c, NEW L, Submitting(s, E, c, L), c.link \in 0..MaxLink, c.connected,
         L = c.link, NEW r, r.kind \in Kinds
  PROVE  LET t == SubmitStop(s, r, c) IN Submitting(t, E, c, L) /\ Submits(s, t, c)
<1> DEFINE k == r.kind
           t == SubmitStop(s, r, c)
           bound == [s EXCEPT !.link[k] = c.link]
           job == IF ~Idle(s) /\ s.job.kind = k THEN Cancel(s.job) ELSE s.job
<1>1. s \in Owner /\ s.journalReady /\ OwnerSound(s, E) /\ k \in Kinds /\ JobSound(s)
  BY DEF Submitting, OwnerSound
<1>2. job \in Job \union {NoJob}
  BY <1>1 DEF JobSound, DriverJob, Cancel, Job, Owner
<1>3. \/ t = s
      \/ t = [bound EXCEPT !.pendingStop = @ \union {k}, !.job = job] /\ Stoppable(s, c, k)
      \/ t = [s EXCEPT !.pendingStop = @ \union {k}, !.job = job] /\ Scoped(s, c, k) /\ Stoppable(s, c, k)
      \/ t = bound /\ k \in s.pendingStop
  BY <1>1 DEF SubmitStop, Scoped, Stoppable, Idle, Owner
<1>4. ASSUME NEW w \in Owner, w.job = job \/ (w.job = s.job /\ k \in s.pendingStop),
             w.phase = s.phase, w.marker = s.marker, w.stored = s.stored,
             w.pendingStart = s.pendingStart, w.operation = s.operation, w.lastOperation = s.lastOperation,
             w.releaseAttempted = s.releaseAttempted, w.journalReady = s.journalReady,
             w.pendingStop = s.pendingStop \union {k}, w.link \in {s.link, [s.link EXCEPT ![k] = c.link]},
             w.link[k] = c.link, k \notin s.pendingStop => Stoppable(s, c, k)
      PROVE  Submitting(w, E, c, L) /\ Submits(s, w, c)
  <2>1. \A j \in Kinds : w.link[j] \in {s.link[j], c.link} /\ (j # k => w.link[j] = s.link[j])
    BY <1>1, <1>4 DEF Owner
  <2>2. \A j \in Kinds : w.link[j] <= c.link
    BY <1>1, <2>1, BoundsAssumption DEF Submitting
  <2>3. OwnerSound(w, E)
    <3>1. k \in s.marker.mask => s.phase[k] \in PendingPhases
      BY <1>1 DEF OwnerSound, SlotsSound
    <3>2. k \in s.pendingStart => s.phase[k] = "starting"
      BY <1>1 DEF OwnerSound, SlotsSound
    <3> QED
      BY <1>1, <1>4, <3>1, <3>2, SlotSound, ZenonT(40)
  <2>4. /\ JobKept(s, w) /\ (Idle(w) <=> Idle(s))
        /\ ~Idle(s) => /\ DriverJob(w.job) /\ w.job.status = "working"
                       /\ s.job.kind = k /\ k \notin s.pendingStop => w.job.cancel
    <3>1. CASE ~Idle(s) /\ s.job.kind = k /\ w.job = job
      <4> DEFINE e == Cancel(s.job)
      <4>1. w.job = e /\ DriverJob(s.job) /\ s.job.status = "working"
        BY <1>1, <1>4, <3>1 DEF JobSound
      <4> HIDE DEF e, job
      <4>2. /\ DriverJob(e) /\ e.kind = s.job.kind /\ e.request = s.job.request /\ e.at = s.job.at
            /\ e.marked = s.job.marked /\ e.status = "working" /\ e.cancel
        BY <4>1, CancelDriven DEF e
      <4>3. ~Idle(w)
        BY <4>1, <4>2 DEF Idle, NoJob
      <4> QED
        BY <1>4, <3>1, <4>1, <4>2, <4>3 DEF JobKept
    <3>2. CASE Idle(s) \/ s.job.kind # k \/ (w.job = s.job /\ k \in s.pendingStop)
      <4>1. w.job = s.job
        BY <1>4, <3>2
      <4> HIDE DEF job
      <4> QED
        BY <1>1, <1>4, <3>2, <4>1 DEF JobKept, Idle, JobSound
    <3> QED
      BY <1>4, <3>1, <3>2
  <2> HIDE DEF job
  <2>5. JobSound(w)
    BY <1>1, <1>4, <2>4 DEF JobSound, JobKept
  <2>6. Advanced(s, w)
    BY <1>1, <1>4, <2>4, BoundsAssumption DEF Advanced, StartOf, JobKept, Owner
  <2>7. JobLive(s) => JobLive(w)
    BY <1>4, <2>4 DEF JobLive, JobKept
  <2>8. ~Idle(s) => L <= w.link[w.job.kind]
    BY <1>1, <2>1, <2>4 DEF JobKept, Submitting, JobSound
  <2>9. JobLive(w) \/ Doomed(w, c)
    <3>1. CASE JobLive(s)
      BY <2>7, <3>1
    <3>2. CASE ~JobLive(s)
      <4>1. ~Idle(s) /\ s.job.kind \in Kinds /\ Doomed(s, c)
        BY <1>1, <3>2 DEF JobLive, JobSound, Submitting
      <4>2. s.link[s.job.kind] = c.link
        BY <1>1, <4>1, BoundsAssumption DEF Submitting, Owner
      <4>3. ~Qualified(c, s.job.kind)
        BY <4>1, <4>2 DEF Doomed, Scoped
      <4> QED
        BY <2>4, <4>1, <4>3 DEF Doomed, JobKept
    <3> QED
      BY <3>1, <3>2
  <2>10. Submitting(w, E, c, L)
    BY <1>1, <1>4, <2>2, <2>3, <2>4, <2>5, <2>8, <2>9 DEF Submitting
  <2>11. Submits(s, w, c)
    <3>1. \A j \in w.pendingStop \ s.pendingStop : j = k /\ w.link[j] = c.link /\ Stoppable(w, c, j)
      BY <1>4 DEF Stoppable
    <3> QED
      BY <1>1, <1>4, <2>1, <2>4, <2>6, <3>1 DEF Submits
  <2> QED
    BY <2>10, <2>11
<1>5. CASE t = [bound EXCEPT !.pendingStop = @ \union {k}, !.job = job] /\ Stoppable(s, c, k)
  <2> DEFINE w == [bound EXCEPT !.pendingStop = @ \union {k}, !.job = job]
  <2> HIDE DEF job
  <2>1. /\ w \in Owner /\ w.job = job /\ w.phase = s.phase /\ w.marker = s.marker /\ w.stored = s.stored
        /\ w.pendingStart = s.pendingStart /\ w.operation = s.operation /\ w.lastOperation = s.lastOperation
        /\ w.releaseAttempted = s.releaseAttempted /\ w.journalReady = s.journalReady
        /\ w.pendingStop = s.pendingStop \union {k} /\ w.link = [s.link EXCEPT ![k] = c.link]
    BY <1>1, <1>2 DEF Owner
  <2>2. w.link[k] = c.link
    BY <1>1, <2>1 DEF Owner
  <2> HIDE DEF w
  <2>3. Submitting(w, E, c, L) /\ Submits(s, w, c)
    BY <1>4, <1>5, <2>1, <2>2
  <2> QED
    BY <1>5, <2>3 DEF w
<1>6. CASE t = [s EXCEPT !.pendingStop = @ \union {k}, !.job = job] /\ Scoped(s, c, k) /\ Stoppable(s, c, k)
  <2> DEFINE w == [s EXCEPT !.pendingStop = @ \union {k}, !.job = job]
  <2> HIDE DEF job
  <2>1. /\ w \in Owner /\ w.job = job /\ w.phase = s.phase /\ w.marker = s.marker /\ w.stored = s.stored
        /\ w.pendingStart = s.pendingStart /\ w.operation = s.operation /\ w.lastOperation = s.lastOperation
        /\ w.releaseAttempted = s.releaseAttempted /\ w.journalReady = s.journalReady
        /\ w.pendingStop = s.pendingStop \union {k} /\ w.link = s.link
    BY <1>1, <1>2 DEF Owner
  <2>2. w.link[k] = c.link
    BY <1>6, <2>1 DEF Scoped
  <2> HIDE DEF w
  <2>3. Submitting(w, E, c, L) /\ Submits(s, w, c)
    BY <1>4, <1>6, <2>1, <2>2
  <2> QED
    BY <1>6, <2>3 DEF w
<1>7. CASE t = bound /\ k \in s.pendingStop
  <2>1. /\ bound \in Owner /\ bound.job = s.job /\ bound.phase = s.phase /\ bound.marker = s.marker
        /\ bound.stored = s.stored /\ bound.pendingStart = s.pendingStart /\ bound.operation = s.operation
        /\ bound.lastOperation = s.lastOperation /\ bound.releaseAttempted = s.releaseAttempted
        /\ bound.journalReady = s.journalReady /\ bound.pendingStop = s.pendingStop \union {k}
        /\ bound.link = [s.link EXCEPT ![k] = c.link]
    BY <1>1, <1>7 DEF Owner
  <2>2. bound.link[k] = c.link
    BY <1>1, <2>1 DEF Owner
  <2> HIDE DEF bound, job, t
  <2>3. Submitting(bound, E, c, L) /\ Submits(s, bound, c)
    BY <1>4, <1>7, <2>1, <2>2
  <2> QED
    BY <1>7, <2>3 DEF t
<1>8. CASE t = s
  BY <1>1, <1>8, SubmitsSame
<1> QED
  BY <1>3, <1>5, <1>6, <1>7, <1>8

\* vehicle_commands_submit, Start: the operation is a new one and no job is begun yet
LEMMA SubmitStartSound ==
  ASSUME NEW s, NEW E, NEW c, NEW L, Submitting(s, E, c, L), c.link \in 0..MaxLink, c.connected,
         L = c.link, NEW r, r.kind \in Kinds, r.link = c.link, r.operation \in 0..MaxOperation
  PROVE  LET t == SubmitStart(s, r, c) IN Submitting(t, E, c, L) /\ Submits(s, t, c)
<1> DEFINE k == r.kind
           t == SubmitStart(s, r, c)
           next == [s EXCEPT !.lastOperation = r.operation, !.recoveryVerifying = @ /\ k # "idle",
                             !.releaseAttempted = @ /\ k # "burnout",
                             !.operation[k] = r.operation, !.link[k] = r.link]
           aged == IF k # "idle" THEN next
                   ELSE [next EXCEPT !.timedFallback = c.coolant # "fresh", !.expired = @ \ {"fallback"}]
           rejected == To(next, k, "rejected")
           started == To([aged EXCEPT !.pendingStart = @ \union {k}], k, "starting")
<1>1. s \in Owner /\ s.journalReady /\ OwnerSound(s, E) /\ k \in Kinds /\ JobSound(s)
  BY DEF Submitting, OwnerSound
<1>2. CASE ~Startable(s, r)
  BY <1>1, <1>2, SubmitsSame DEF SubmitStart
<1>3. CASE Startable(s, r)
  <2>1. /\ s.lastOperation < r.operation /\ k \notin s.pendingStart \union s.pendingStop
        /\ s.phase[k] \notin PendingPhases
        /\ \A j \in Kinds \ {k} : "burnout" \in {j, k} => s.phase[j] \notin PendingPhases
    BY <1>3 DEF Startable
  <2>2. \/ t = rejected
        \/ t = started /\ Qualified(c, k)
    BY <1>3 DEF SubmitStart, Admitted
  <2>3. /\ next \in Owner /\ next.lastOperation = r.operation
        /\ next.operation = [s.operation EXCEPT ![k] = r.operation] /\ next.link = [s.link EXCEPT ![k] = c.link]
        /\ next.phase = s.phase /\ next.pendingStart = s.pendingStart /\ next.pendingStop = s.pendingStop
        /\ next.job = s.job /\ next.marker = s.marker /\ next.stored = s.stored
        /\ next.journalReady = s.journalReady /\ (k # "burnout" => next.releaseAttempted = s.releaseAttempted)
    BY <1>1 DEF Owner
  <2> HIDE DEF next
  <2>4. /\ aged \in Owner /\ aged.lastOperation = next.lastOperation
        /\ aged.operation = next.operation /\ aged.link = next.link
        /\ aged.phase = next.phase /\ aged.pendingStart = next.pendingStart /\ aged.pendingStop = next.pendingStop
        /\ aged.job = next.job /\ aged.marker = next.marker /\ aged.stored = next.stored
        /\ aged.journalReady = next.journalReady /\ aged.releaseAttempted = next.releaseAttempted
    BY <2>3 DEF Owner
  <2> HIDE DEF aged
  <2>5. /\ rejected \in Owner /\ rejected.lastOperation = r.operation
        /\ rejected.operation = next.operation /\ rejected.link = next.link
        /\ rejected.phase = [s.phase EXCEPT ![k] = "rejected"]
        /\ rejected.pendingStart = s.pendingStart /\ rejected.pendingStop = s.pendingStop
        /\ rejected.job = s.job /\ rejected.marker = s.marker /\ rejected.stored = s.stored
        /\ rejected.journalReady = s.journalReady
        /\ (k # "burnout" => rejected.releaseAttempted = s.releaseAttempted)
    BY <1>1, <2>3 DEF Owner, To, CommandPhases
  <2>6. /\ started \in Owner /\ started.lastOperation = r.operation
        /\ started.operation = next.operation /\ started.link = next.link
        /\ started.phase = [s.phase EXCEPT ![k] = "starting"]
        /\ started.pendingStart = s.pendingStart \union {k} /\ started.pendingStop = s.pendingStop
        /\ started.job = s.job /\ started.marker = s.marker /\ started.stored = s.stored
        /\ started.journalReady = s.journalReady
        /\ (k # "burnout" => started.releaseAttempted = s.releaseAttempted)
    <3> DEFINE x == [aged EXCEPT !.pendingStart = @ \union {k}]
    <3>1. /\ x \in Owner /\ x.lastOperation = r.operation
          /\ x.operation = next.operation /\ x.link = next.link /\ x.phase = s.phase
          /\ x.pendingStart = s.pendingStart \union {k} /\ x.pendingStop = s.pendingStop
          /\ x.job = s.job /\ x.marker = s.marker /\ x.stored = s.stored /\ x.journalReady = s.journalReady
          /\ (k # "burnout" => x.releaseAttempted = s.releaseAttempted)
      <4>1. aged.pendingStart \union {k} \in SUBSET Kinds
        BY <1>1, <2>4 DEF Owner
      <4>2. x \in Owner
        BY <2>4, <4>1 DEF Owner
      <4>3. /\ x.lastOperation = aged.lastOperation
            /\ x.operation = aged.operation /\ x.link = aged.link /\ x.phase = aged.phase
            /\ x.pendingStart = aged.pendingStart \union {k} /\ x.pendingStop = aged.pendingStop
            /\ x.job = aged.job /\ x.marker = aged.marker /\ x.stored = aged.stored
            /\ x.journalReady = aged.journalReady /\ x.releaseAttempted = aged.releaseAttempted
        BY <2>4 DEF Owner
      <4> HIDE DEF x
      <4> QED
        BY <2>3, <2>4, <4>2, <4>3
    <3> HIDE DEF x
    <3>2. To(x, k, "starting") \in Owner
      BY <1>1, <3>1, ToType DEF CommandPhases
    <3> QED
      BY <1>1, <3>1, <3>2 DEF To, Owner, x
  <2> HIDE DEF rejected, started
  <2>7. /\ next.operation[k] = r.operation /\ \A j \in Kinds \ {k} : next.operation[j] = s.operation[j]
        /\ next.link[k] = c.link /\ \A j \in Kinds \ {k} : next.link[j] = s.link[j]
    BY <1>1, <2>3 DEF Owner
  <2>8. ASSUME NEW w \in Owner, w.lastOperation = r.operation, w.operation = next.operation, w.link = next.link,
               \A j \in Kinds \ {k} : w.phase[j] = s.phase[j],
               \/ w.phase[k] = "rejected" /\ w.pendingStart = s.pendingStart
               \/ w.phase[k] = "starting" /\ w.pendingStart = s.pendingStart \union {k} /\ Qualified(c, k),
               w.pendingStop = s.pendingStop, w.job = s.job, w.marker = s.marker, w.stored = s.stored,
               w.journalReady = s.journalReady, k # "burnout" => w.releaseAttempted = s.releaseAttempted
        PROVE  Submitting(w, E, c, L) /\ Submits(s, w, c)
    <3>1. /\ s.lastOperation \in Nat /\ r.operation \in Nat /\ r.operation # 0
          /\ \A j \in Kinds : s.operation[j] \in Nat /\ s.operation[j] <= s.lastOperation
      BY <1>1, <2>1, BoundsAssumption DEF Owner, OwnerSound
    <3>2. \A j \in Kinds : w.operation[j] <= w.lastOperation /\ (w.phase[j] = "restart" => j = "abs")
      BY <1>1, <2>1, <2>7, <2>8, <3>1 DEF OwnerSound
    <3>3. k \notin s.marker.mask
      BY <1>1, <2>1 DEF OwnerSound, SlotsSound
    <3>4. \A j \in w.marker.mask : w.phase[j] \in PendingPhases /\ w.marker.operation[j] # NoOperation
      BY <1>1, <2>8, <3>3 DEF OwnerSound, SlotsSound, Owner, Marker
    <3>5. \A j \in w.pendingStart : w.phase[j] = "starting" /\ j \notin w.marker.mask
      BY <1>1, <2>1, <2>8, <3>3 DEF OwnerSound, SlotsSound, Owner
    <3>6. \A j \in Kinds : w.phase[j] \in PendingPhases => w.operation[j] # NoOperation
      BY <1>1, <2>7, <2>8, <3>1 DEF OwnerSound, SlotsSound, NoOperation
    <3>7. \A i, j \in Kinds : w.phase[i] \in PendingPhases /\ w.phase[j] \in PendingPhases
            => i = j \/ "burnout" \notin {i, j}
      BY <1>1, <2>1, <2>8 DEF OwnerSound, SlotsSound
    <3>8. OwnerSound(w, E)
      BY <1>1, <2>8, <3>2, <3>4, <3>5, <3>6, <3>7 DEF OwnerSound, SlotsSound, MarkerSound
    <3>9. /\ \A j \in Kinds : w.link[j] <= c.link /\ w.link[j] \in {s.link[j], c.link}
          /\ ~Idle(s) => L <= w.link[s.job.kind]
      BY <1>1, <2>7, <2>8, BoundsAssumption DEF Submitting, JobSound
    <3>10. ~Idle(s) => s.link[s.job.kind] = c.link
      BY <1>1, BoundsAssumption DEF Submitting, JobSound, Owner
    <3>11. Idle(w) <=> Idle(s)
      BY <2>8 DEF Idle
    <3>12. ~Idle(s) /\ s.job.kind = k => ~Qualified(c, k)
      BY <1>1, <2>1, <3>10 DEF Submitting, JobLive, Doomed, Scoped
    <3>13. JobSound(w)
      BY <1>1, <2>8, <3>11, <3>12 DEF JobSound
    <3>14. JobLive(w) \/ Doomed(w, c)
      <4>1. CASE ~Idle(s) /\ Doomed(s, c)
        BY <1>1, <2>8, <3>10, <4>1 DEF Doomed, Scoped
      <4>2. CASE JobLive(s)
        BY <1>1, <2>1, <2>8, <3>11, <4>2 DEF JobLive, JobSound
      <4>3. CASE Idle(s)
        BY <3>11, <4>3 DEF JobLive
      <4> QED
        BY <4>1, <4>2, <4>3 DEF Submitting
    <3>15. Submitting(w, E, c, L)
      BY <1>1, <2>8, <3>8, <3>9, <3>11, <3>13, <3>14 DEF Submitting
    <3>16. Advanced(s, w)
      BY <1>1, <2>1, <2>7, <2>8, <3>1, <3>11 DEF Advanced, StartOf
    <3>17. JobKept(s, w)
      BY <2>8, <3>11 DEF JobKept
    <3>18. \A j \in Kinds \ {k} : w.link[j] = s.link[j]
      BY <2>7, <2>8
    <3>19. Submits(s, w, c)
      BY <1>1, <2>1, <2>7, <2>8, <3>9, <3>16, <3>17, <3>18 DEF Submits, PendingPhases, LivePhases
    <3> QED
      BY <3>15, <3>19
  <2> HIDE DEF t
  <2>9. Submitting(rejected, E, c, L) /\ Submits(s, rejected, c)
    <3>1. rejected.phase[k] = "rejected" /\ \A j \in Kinds \ {k} : rejected.phase[j] = s.phase[j]
      BY <1>1, <2>5 DEF Owner
    <3> QED
      BY <2>5, <2>8, <3>1
  <2>10. Qualified(c, k) => Submitting(started, E, c, L) /\ Submits(s, started, c)
    <3>1. started.phase[k] = "starting" /\ \A j \in Kinds \ {k} : started.phase[j] = s.phase[j]
      BY <1>1, <2>6 DEF Owner
    <3> QED
      BY <2>6, <2>8, <3>1
  <2> QED
    BY <2>2, <2>9, <2>10 DEF t
<1> QED
  BY <1>2, <1>3

\* A request of any verb, of a link no newer than the call's
LEMMA SubmitSound ==
  ASSUME NEW s, NEW E, NEW c, NEW sv, NEW L, Submitting(s, E, c, L), c.link \in 0..MaxLink, L <= c.link,
         NEW r, r.kind \in Kinds, r.link <= L, r.operation \in 0..MaxOperation,
         r.verb \in {"start", "stop", "confirm"},
         L \in 0..MaxLink, r.link \in 0..MaxLink,
         r.verb = "confirm" /\ r.operation = s.operation[r.kind] => r.kind \notin E
  PROVE  LET t == Submit(s, r, c, sv) IN Submitting(t, E, c, L) /\ Submits(s, t, c)
<1>1. s \in Owner
  BY DEF Submitting, OwnerSound
<1>2. CASE r.link # c.link \/ ~c.connected
  BY <1>1, <1>2, SubmitsSame DEF Submit
<1>3. CASE r.link = c.link /\ c.connected
  <2>1. L = c.link
    BY <1>3, BoundsAssumption
  <2>2. CASE r.verb = "confirm"
    BY <1>3, <2>2, SubmitConfirmSound DEF Submit
  <2>3. CASE r.verb = "stop"
    BY <1>3, <2>1, <2>3, SubmitStopSound DEF Submit
  <2>4. CASE r.verb = "start"
    BY <1>3, <2>1, <2>4, SubmitStartSound DEF Submit
  <2> QED
    BY <2>2, <2>3, <2>4
<1> QED
  BY <1>2, <1>3

\* Two requests come to one.
LEMMA SubmitsTwice ==
  ASSUME NEW s, NEW t, NEW u, NEW c, NEW E, OwnerSound(s, E), Submits(s, t, c), Submits(t, u, c),
         OwnerSound(u, E), u.journalReady
  PROVE  Submits(s, u, c)
<1>1. s \in Owner /\ t \in Owner /\ u \in Owner
  BY DEF OwnerSound, Submits
<1>2. Advanced(s, u)
  BY <1>1, AdvancedTwice DEF OwnerSound, Submits
<1>3. JobKept(s, u)
  BY DEF Submits, JobKept
<1>4. s.lastOperation <= t.lastOperation /\ s.lastOperation \in Nat /\ t.lastOperation \in Nat
      /\ \A k \in Kinds : t.operation[k] \in Nat /\ u.operation[k] \in Nat
                          /\ (u.operation[k] = t.operation[k] \/ t.lastOperation < u.operation[k])
  BY <1>1, BoundsAssumption DEF Submits, Advanced, Owner
<1>5. ASSUME NEW k \in Kinds
      PROVE  LET accepted == k \in u.pendingStart \ s.pendingStart
             IN /\ u.link[k] \in {s.link[k], c.link}
                /\ k \in s.pendingStart => k \in u.pendingStart
                /\ k \in s.pendingStop => k \in u.pendingStop /\ u.phase[k] = s.phase[k]
                /\ accepted => s.lastOperation < u.operation[k]
                /\ k \in u.pendingStop \ s.pendingStop =>
                     /\ u.link[k] = c.link /\ Stoppable(u, c, k)
                     /\ ~Idle(s) /\ s.job.kind = k => u.job.cancel
                /\ ~accepted /\ u.phase[k] \in PendingPhases =>
                     /\ u.phase[k] = s.phase[k] /\ (u.link[k] = s.link[k] \/ k \in u.pendingStop)
                     /\ k = "burnout" => u.releaseAttempted = s.releaseAttempted
  <2>1. k \in u.pendingStart \ s.pendingStart => s.lastOperation < u.operation[k]
    BY <1>4 DEF Submits
  <2>2. k \in u.pendingStop \ s.pendingStop /\ ~Idle(s) /\ s.job.kind = k => u.job.cancel
    BY DEF Submits, JobKept
  <2>3. k \in u.pendingStart => u.phase[k] = "starting"
    BY DEF OwnerSound, SlotsSound
  <2>4. k \in u.pendingStop \ s.pendingStop => Stoppable(u, c, k)
    <3>1. CASE k \in t.pendingStop
      BY <3>1 DEF Submits, Stoppable
    <3>2. CASE k \notin t.pendingStop
      BY <3>2 DEF Submits
    <3> QED
      BY <3>1, <3>2
  <2> QED
    BY <2>1, <2>2, <2>4 DEF Submits
<1> QED
  BY <1>1, <1>2, <1>3, <1>5 DEF Submits

-----------------------------------------------------------------------------

\* The job is not part of what is sound: another in its place changes nothing else.
LEMMA JobReplaced ==
  ASSUME NEW s, NEW E, OwnerSound(s, E), s.journalReady, NEW d \in Job \union {NoJob}
  PROVE  LET t == [s EXCEPT !.job = d]
         IN /\ OwnerSound(t, E) /\ t.job = d
            /\ t.phase = s.phase /\ t.operation = s.operation /\ t.link = s.link
            /\ t.lastOperation = s.lastOperation /\ t.pendingStart = s.pendingStart
            /\ t.pendingStop = s.pendingStop /\ t.releaseAttempted = s.releaseAttempted
            /\ t.marker = s.marker /\ t.stored = s.stored /\ t.journalReady = s.journalReady
<1> DEFINE t == [s EXCEPT !.job = d]
<1>1. s \in Owner
  BY DEF OwnerSound
<1>2. /\ t \in Owner /\ t.job = d
      /\ t.phase = s.phase /\ t.operation = s.operation /\ t.link = s.link
      /\ t.lastOperation = s.lastOperation /\ t.pendingStart = s.pendingStart
      /\ t.pendingStop = s.pendingStop /\ t.releaseAttempted = s.releaseAttempted
      /\ t.marker = s.marker /\ t.stored = s.stored /\ t.journalReady = s.journalReady
  BY <1>1 DEF Owner
<1> HIDE DEF t
<1>3. OwnerSound(t, E)
  BY <1>2 DEF OwnerSound, MarkerSound, SlotsSound
<1> QED
  BY <1>2, <1>3 DEF t

\* How a job ends: its slot changes, and what it has asked for is dropped.
Ends(s, t, k) ==
  /\ t \in Owner /\ Idle(t)
  /\ t.operation = s.operation /\ t.link = s.link /\ t.lastOperation = s.lastOperation
  /\ t.releaseAttempted = s.releaseAttempted /\ t.journalReady = s.journalReady
  /\ t.pendingStart \subseteq s.pendingStart /\ t.pendingStop \subseteq s.pendingStop
  /\ \A j \in s.pendingStop \ t.pendingStop : j \notin t.pendingStart
  /\ \A j \in Kinds \ {k} : t.phase[j] = s.phase[j]
  /\ t.phase[k] \in PendingPhases => s.phase[k] \in PendingPhases
  /\ t.phase[k] = "starting" => s.phase[k] = "starting"
  /\ t.phase[k] = "active" => s.phase[k] = "active" \/ s.job.request = "start"

\* A transfer that failed: its control is uncertain, or was refused before it acted.
LEMMA TransportFailedSound ==
  ASSUME NEW s, NEW E, OwnerSound(s, E), s.journalReady, ~Idle(s), s.job.kind \in Kinds
  PROVE  LET t == TransportFailed(s) IN OwnerSound(t, E) /\ Ends(s, t, s.job.kind)
<1> DEFINE k == s.job.kind
           p == IF k \in s.marker.mask THEN "unknown" ELSE "rejected"
           release == k = "burnout" /\ k \in s.pendingStop /\ ~s.releaseAttempted
           u == To(s, k, p)
           t == [u EXCEPT !.pendingStart = @ \ {k}, !.job = NoJob,
                          !.pendingStop = IF release THEN @ ELSE @ \ {k}]
<1>1. s \in Owner /\ k \in Kinds
  BY DEF OwnerSound
<1>2. TransportFailed(s) = t
  BY DEF TransportFailed, Uncertain
<1>3. u \in Owner /\ u.phase = [s.phase EXCEPT ![k] = p] /\ u.pendingStart = s.pendingStart
      /\ u.pendingStop = s.pendingStop /\ u.operation = s.operation /\ u.link = s.link
      /\ u.lastOperation = s.lastOperation /\ u.releaseAttempted = s.releaseAttempted
      /\ u.marker = s.marker /\ u.stored = s.stored /\ u.journalReady = s.journalReady
  <2>1. p \in CommandPhases
    BY DEF CommandPhases
  <2> HIDE DEF p, k
  <2>2. u \in Owner
    BY <1>1, <2>1, ToType
  <2> QED
    BY <1>1, <2>2 DEF To, Owner
<1> HIDE DEF u
<1>4. /\ t \in Owner /\ t.job = NoJob /\ t.phase = u.phase /\ t.pendingStart = u.pendingStart \ {k}
      /\ t.pendingStop \in {u.pendingStop, u.pendingStop \ {k}} /\ t.operation = u.operation /\ t.link = u.link
      /\ t.lastOperation = u.lastOperation /\ t.releaseAttempted = u.releaseAttempted
      /\ t.marker = u.marker /\ t.stored = u.stored /\ t.journalReady = u.journalReady
  BY <1>3 DEF Owner
<1> HIDE DEF t
<1>5. t.phase[k] = p /\ \A j \in Kinds \ {k} : t.phase[j] = s.phase[j]
  BY <1>1, <1>3, <1>4 DEF Owner
<1>6. k \in s.marker.mask => s.phase[k] \in PendingPhases
  BY DEF OwnerSound, SlotsSound
<1>7. OwnerSound(t, E)
  <2>1. /\ t.marker = s.marker /\ t.stored = s.stored /\ t.operation = s.operation
        /\ t.lastOperation = s.lastOperation /\ t.journalReady = s.journalReady
        /\ t.pendingStart \subseteq s.pendingStart /\ k \notin t.pendingStart
    BY <1>3, <1>4
  <2>2. /\ t.phase[k] \in PendingPhases => k \in s.marker.mask
        /\ k \in s.marker.mask => t.phase[k] \in PendingPhases
        /\ t.phase[k] # "restart"
    BY <1>5 DEF PendingPhases, LivePhases
  <2> HIDE DEF k
  <2> QED
    BY <1>1, <1>4, <1>5, <1>6, <2>1, <2>2, SlotSound
<1>8. Ends(s, t, k)
  BY <1>1, <1>3, <1>4, <1>5, <1>6 DEF Ends, Idle, PendingPhases, LivePhases
<1> QED
  BY <1>2, <1>7, <1>8

\* What the end of an idle job makes of its slot
LEMMA FinishIdleSlot ==
  ASSUME NEW s \in Owner, "idle" \in Kinds
  PROVE  LET t == FinishIdle(s)
         IN /\ t \in Owner /\ t.operation = s.operation /\ t.link = s.link /\ t.lastOperation = s.lastOperation
            /\ t.pendingStart = s.pendingStart /\ t.pendingStop = s.pendingStop
            /\ t.releaseAttempted = s.releaseAttempted /\ t.journalReady = s.journalReady
            /\ t.marker = s.marker /\ t.stored = s.stored /\ t.job = s.job
            /\ \A j \in Kinds \ {"idle"} : t.phase[j] = s.phase[j]
            /\ \/ t.phase["idle"] \in {"active", "verifying", "unknown", s.phase["idle"]}
               \/ t.phase["idle"] \in {"restored", "rejected"} /\ "idle" \notin s.marker.mask
            /\ t.phase["idle"] = "active" => s.phase["idle"] = "active" \/ s.job.request = "start"
<1> DEFINE a == [s EXCEPT !.expired = @ \ {"idle"}]
           b == [s EXCEPT !.recoveryVerifying = s.job.request = "recover"]
           t == FinishIdle(s)
<1>1. \/ t = To(a, "idle", "active") /\ s.job.request = "start"
      \/ t = s
      \/ t = To(b, "idle", "verifying")
      \/ t = To(s, "idle", "restored") /\ "idle" \notin s.marker.mask
      \/ t = To(s, "idle", "unknown")
      \/ t = To(s, "idle", "rejected") /\ "idle" \notin s.marker.mask
  BY DEF FinishIdle
<1>2. \A w \in {a, b, s} :
        /\ w \in Owner /\ w.operation = s.operation /\ w.link = s.link /\ w.lastOperation = s.lastOperation
        /\ w.pendingStart = s.pendingStart /\ w.pendingStop = s.pendingStop
        /\ w.releaseAttempted = s.releaseAttempted /\ w.journalReady = s.journalReady
        /\ w.marker = s.marker /\ w.stored = s.stored /\ w.job = s.job /\ w.phase = s.phase
  <2>1. (s.job.request = "recover") \in BOOLEAN
    OBVIOUS
  <2>2. a \in Owner /\ b \in Owner
    BY <2>1 DEF Owner
  <2> QED
    BY <2>2 DEF Owner
<1>3. ASSUME NEW w \in {a, b, s}, NEW p \in CommandPhases, t = To(w, "idle", p)
      PROVE  /\ t \in Owner /\ t.operation = s.operation /\ t.link = s.link /\ t.lastOperation = s.lastOperation
             /\ t.pendingStart = s.pendingStart /\ t.pendingStop = s.pendingStop
             /\ t.releaseAttempted = s.releaseAttempted /\ t.journalReady = s.journalReady
             /\ t.marker = s.marker /\ t.stored = s.stored /\ t.job = s.job
             /\ \A j \in Kinds \ {"idle"} : t.phase[j] = s.phase[j]
             /\ t.phase["idle"] = p
  <2> HIDE DEF a, b, t
  <2>1. To(w, "idle", p) \in Owner
    BY <1>2, ToType
  <2>2. w.phase = s.phase
    BY <1>2
  <2> QED
    BY <1>2, <1>3, <2>1 DEF To, Owner
<1>4. {"active", "verifying", "restored", "unknown", "rejected"} \subseteq CommandPhases
  BY DEF CommandPhases
<1> HIDE DEF t, a, b
<1>5. CASE t = s
  BY <1>5 DEF t
<1> QED
  BY <1>1, <1>3, <1>4, <1>5 DEF t

\* The same when the marker or its stored copy notes the Return.
LEMMA ReceiptSound ==
  ASSUME NEW s, NEW t \in Owner, NEW E, NEW k \in Kinds, OwnerSound(s, E), s.journalReady,
         t.marker.mask = s.marker.mask, t.marker.operation = s.marker.operation,
         t.stored = s.stored \/ (t.stored.mask = s.marker.mask /\ t.stored.operation = s.marker.operation),
         t.operation = s.operation,
         t.lastOperation = s.lastOperation, t.journalReady = s.journalReady,
         \A j \in Kinds \ {k} : t.phase[j] = s.phase[j],
         t.pendingStart \subseteq s.pendingStart,
         t.phase[k] \in PendingPhases => s.phase[k] \in PendingPhases,
         t.phase[k] = "restart" => s.phase[k] = "restart" \/ k = "abs",
         k \in t.marker.mask => t.phase[k] \in PendingPhases,
         k \in t.pendingStart => t.phase[k] = "starting"
  PROVE  OwnerSound(t, E)
<1>1. s \in Owner /\ s.marker.mask \subseteq Kinds /\ SlotsSound(s, E)
  BY DEF OwnerSound, Owner, Marker
<1>2. MarkerSound(t, E)
  <2>1. "burnout" \in s.marker.mask => s.marker.mask = {"burnout"}
    BY <1>1 DEF SlotsSound
  <2> QED
    BY <1>1, <2>1 DEF OwnerSound, MarkerSound, SlotsSound
<1>3. \A j \in Kinds : t.operation[j] <= t.lastOperation /\ (t.phase[j] = "restart" => j = "abs")
  BY <1>1 DEF OwnerSound
<1>4. \A j \in Kinds : t.phase[j] \in PendingPhases => s.phase[j] \in PendingPhases
  OBVIOUS
<1>5. \A j \in t.marker.mask : t.phase[j] \in PendingPhases /\ t.marker.operation[j] # NoOperation
  BY <1>1 DEF SlotsSound
<1>6. \A j \in t.pendingStart : t.phase[j] = "starting" /\ j \notin t.marker.mask
  BY <1>1 DEF SlotsSound, Owner
<1>7. SlotsSound(t, E)
  BY <1>1, <1>4, <1>5, <1>6 DEF SlotsSound
<1> QED
  BY <1>2, <1>3, <1>7 DEF OwnerSound

\* What the end of a brake job makes of its slot: restored or rejected only when the
\* marker does not hold it
LEMMA FinishBrakeSlot ==
  ASSUME NEW s \in Owner, NEW k \in Kinds, k # "idle",
         s.job.status # "confirmed" \/ s.job.request \in {"start", "return"},
         NEW sv
  PROVE  LET t == FinishBrake(s, k, sv)
         IN /\ t \in Owner /\ t.operation = s.operation /\ t.link = s.link /\ t.lastOperation = s.lastOperation
            /\ t.pendingStart = s.pendingStart /\ t.pendingStop = s.pendingStop
            /\ t.releaseAttempted = s.releaseAttempted /\ t.journalReady = s.journalReady
            /\ t.marker.mask = s.marker.mask /\ t.marker.operation = s.marker.operation
            /\ t.stored = s.stored \/ (t.stored.mask = s.marker.mask /\ t.stored.operation = s.marker.operation)
            /\ t.job = s.job /\ \A j \in Kinds \ {k} : t.phase[j] = s.phase[j]
            /\ \/ t.phase[k] \in {"active", "verifying", "unknown"}
               \/ t.phase[k] = "restart" /\ k = "abs"
               \/ t.phase[k] \in {"restored", "rejected"} /\ k \notin s.marker.mask
            /\ t.phase[k] = "active" => s.job.request = "start"
<1> DEFINE m == [s.marker EXCEPT !.returned = TRUE]
           receipt == Save(s, m, sv)
           t == FinishBrake(s, k, sv)
<1>1. m \in Marker /\ m.mask = s.marker.mask /\ m.operation = s.marker.operation
  BY DEF Owner, Marker
<1>2. receipt \in Owner
  BY <1>1, SaveType
<1> HIDE DEF m
<1>3. /\ receipt.operation = s.operation /\ receipt.link = s.link /\ receipt.lastOperation = s.lastOperation
      /\ receipt.pendingStart = s.pendingStart /\ receipt.pendingStop = s.pendingStop
      /\ receipt.releaseAttempted = s.releaseAttempted /\ receipt.journalReady = s.journalReady
      /\ receipt.marker \in {s.marker, m} /\ receipt.stored \in {s.stored, m}
      /\ receipt.job = s.job /\ receipt.phase = s.phase
  BY DEF Save, Owner
<1>4. \/ t = To(s, k, "active") /\ s.job.request = "start"
      \/ t = To(s, k, "verifying")
      \/ t = To(receipt, k, "restart") /\ k = "abs"
      \/ t = To(receipt, k, "unknown")
      \/ t = To(s, k, "restored") /\ k \notin s.marker.mask
      \/ t = To(s, k, "unknown")
      \/ t = To(s, k, "rejected") /\ k \notin s.marker.mask
  BY KindsAssumption DEF FinishBrake, Uncertain, AllKinds, m
<1> HIDE DEF receipt
<1>5. ASSUME NEW w \in {receipt, s}, NEW p \in CommandPhases, t = To(w, k, p)
      PROVE  /\ t \in Owner /\ t.operation = s.operation /\ t.link = s.link /\ t.lastOperation = s.lastOperation
             /\ t.pendingStart = s.pendingStart /\ t.pendingStop = s.pendingStop
             /\ t.releaseAttempted = s.releaseAttempted /\ t.journalReady = s.journalReady
             /\ t.marker.mask = s.marker.mask /\ t.marker.operation = s.marker.operation
             /\ t.stored = s.stored \/ (t.stored.mask = s.marker.mask /\ t.stored.operation = s.marker.operation)
             /\ t.job = s.job
             /\ \A j \in Kinds \ {k} : t.phase[j] = s.phase[j]
             /\ t.phase[k] = p
  <2> HIDE DEF t
  <2>1. To(w, k, p) \in Owner /\ w \in Owner
    BY <1>2, ToType
  <2>2. /\ w.operation = s.operation /\ w.link = s.link /\ w.lastOperation = s.lastOperation
        /\ w.pendingStart = s.pendingStart /\ w.pendingStop = s.pendingStop
        /\ w.releaseAttempted = s.releaseAttempted /\ w.journalReady = s.journalReady
        /\ w.marker.mask = s.marker.mask /\ w.marker.operation = s.marker.operation
        /\ w.stored = s.stored \/ (w.stored.mask = s.marker.mask /\ w.stored.operation = s.marker.operation)
        /\ w.job = s.job /\ w.phase = s.phase
    BY <1>1, <1>3
  <2>3. /\ t.operation = w.operation /\ t.link = w.link /\ t.lastOperation = w.lastOperation
        /\ t.pendingStart = w.pendingStart /\ t.pendingStop = w.pendingStop
        /\ t.releaseAttempted = w.releaseAttempted /\ t.journalReady = w.journalReady
        /\ t.marker = w.marker /\ t.stored = w.stored /\ t.job = w.job
        /\ t.phase = [w.phase EXCEPT ![k] = p]
    BY <1>5, <2>1 DEF To, Owner
  <2>4. \A j \in Kinds \ {k} : t.phase[j] = s.phase[j]
    BY <2>1, <2>2, <2>3 DEF Owner
  <2>5. t.phase[k] = p
    BY <2>1, <2>3 DEF Owner
  <2> QED
    BY <1>5, <2>1, <2>2, <2>3, <2>4, <2>5
<1>6. {"active", "verifying", "restored", "unknown", "rejected", "restart"} \subseteq CommandPhases
  BY DEF CommandPhases
<1> HIDE DEF t
<1> QED
  BY <1>4, <1>5, <1>6 DEF t

\* A job that has ended is taken out of its slot, and the vehicle observed again.
LEMMA FinishSound ==
  ASSUME NEW s, NEW E, OwnerSound(s, E), s.journalReady, DriverJob(s.job), s.job.kind \in Kinds,
         s.job.kind \notin s.pendingStart, s.job.status # "working", s.phase[s.job.kind] \in PendingPhases,
         NEW c, NEW sv, c.proof \cap E = {}
  PROVE  LET t == Finish(s, c, sv)
         IN /\ OwnerSound(t, E)
            /\ \E done \in Owner : Ends(s, done, s.job.kind) /\ Watched(done, t, c)
<1> DEFINE k == s.job.kind
           f == IF k = "idle" THEN FinishIdle(s) ELSE FinishBrake(s, k, sv)
           done == [f EXCEPT !.job = NoJob]
           t == Finish(s, c, sv)
<1>1. s \in Owner /\ k \in Kinds
  BY DEF OwnerSound
<1>2. t \in {done, Observe(done, c, sv)}
  BY DEF Finish
<1>3. /\ f \in Owner /\ f.operation = s.operation /\ f.link = s.link /\ f.lastOperation = s.lastOperation
      /\ f.pendingStart = s.pendingStart /\ f.pendingStop = s.pendingStop
      /\ f.releaseAttempted = s.releaseAttempted /\ f.journalReady = s.journalReady
      /\ f.marker.mask = s.marker.mask /\ f.marker.operation = s.marker.operation
      /\ f.stored = s.stored \/ (f.stored.mask = s.marker.mask /\ f.stored.operation = s.marker.operation)
      /\ \A j \in Kinds \ {k} : f.phase[j] = s.phase[j]
      /\ \/ f.phase[k] \in {"active", "verifying", "unknown", s.phase[k]}
         \/ f.phase[k] = "restart" /\ k = "abs"
         \/ f.phase[k] \in {"restored", "rejected"} /\ k \notin s.marker.mask
      /\ f.phase[k] = "active" => s.phase[k] = "active" \/ s.job.request = "start"
  <2>1. CASE k = "idle"
    <3>1. f = FinishIdle(s) /\ "idle" \in Kinds
      BY <1>1, <2>1
    <3> HIDE DEF f, k
    <3> QED
      BY <1>1, <2>1, <3>1, FinishIdleSlot
  <2>2. CASE k # "idle"
    <3>1. s.job.request \in {"start", "return"} /\ f = FinishBrake(s, k, sv)
      BY <2>2 DEF DriverJob
    <3> HIDE DEF f, k
    <3>2. k \in Kinds /\ k # "idle" /\ s \in Owner /\ s.journalReady
      BY <1>1, <2>2
    <3>3. s.job.status # "confirmed" \/ s.job.request \in {"start", "return"}
      BY <3>1
    <3> HIDE DEF done, t
    <3>4. /\ f \in Owner /\ f.operation = s.operation /\ f.link = s.link /\ f.lastOperation = s.lastOperation
          /\ f.pendingStart = s.pendingStart /\ f.pendingStop = s.pendingStop
          /\ f.releaseAttempted = s.releaseAttempted
      BY <3>1, <3>2, <3>3, FinishBrakeSlot
    <3>8. f.journalReady = s.journalReady
      BY <3>1, <3>2, <3>3, FinishBrakeSlot, Zenon
    <3>5. /\ f.marker.mask = s.marker.mask /\ f.marker.operation = s.marker.operation
          /\ f.stored = s.stored \/ (f.stored.mask = s.marker.mask /\ f.stored.operation = s.marker.operation)
      BY <3>1, <3>2, <3>3, FinishBrakeSlot
    <3>6. \A j \in Kinds \ {k} : f.phase[j] = s.phase[j]
      BY <3>1, <3>2, <3>3, FinishBrakeSlot
    <3>7. /\ \/ f.phase[k] \in {"active", "verifying", "unknown", s.phase[k]}
             \/ f.phase[k] = "restart" /\ k = "abs"
             \/ f.phase[k] \in {"restored", "rejected"} /\ k \notin s.marker.mask
          /\ f.phase[k] = "active" => s.phase[k] = "active" \/ s.job.request = "start"
      BY <3>1, <3>2, <3>3, FinishBrakeSlot
    <3> QED
      BY <3>4, <3>5, <3>6, <3>7, <3>8
  <2> QED
    BY <2>1, <2>2
<1> HIDE DEF f
<1>4. /\ done \in Owner /\ done.job = NoJob /\ done.phase = f.phase
      /\ done.operation = f.operation /\ done.link = f.link /\ done.lastOperation = f.lastOperation
      /\ done.pendingStart = f.pendingStart /\ done.pendingStop = f.pendingStop
      /\ done.releaseAttempted = f.releaseAttempted /\ done.journalReady = f.journalReady
      /\ done.marker = f.marker /\ done.stored = f.stored
  BY <1>3 DEF Owner
<1> HIDE DEF done, k
<1>5. /\ done.phase[k] = "restart" => s.phase[k] = "restart" \/ k = "abs"
      /\ k \in done.marker.mask => done.phase[k] \in PendingPhases
      /\ done.phase[k] \in PendingPhases => s.phase[k] \in PendingPhases
      /\ done.phase[k] = "starting" => s.phase[k] = "starting"
      /\ k \notin s.pendingStart
  BY <1>3, <1>4 DEF PendingPhases, LivePhases, k
<1>6. OwnerSound(done, E)
  <2>1. /\ done.marker.mask = s.marker.mask /\ done.marker.operation = s.marker.operation
        /\ done.stored = s.stored \/ (done.stored.mask = s.marker.mask /\ done.stored.operation = s.marker.operation)
        /\ done.operation = s.operation /\ done.lastOperation = s.lastOperation
        /\ done.journalReady = s.journalReady /\ done.pendingStart \subseteq s.pendingStart
        /\ \A j \in Kinds \ {k} : done.phase[j] = s.phase[j]
    BY <1>3, <1>4
  <2>2. k \in done.pendingStart => done.phase[k] = "starting"
    BY <1>5, <2>1
  <2> QED
    BY <1>1, <1>4, <1>5, <2>1, <2>2, ReceiptSound, ZenonT(40)
<1>7. Ends(s, done, k)
  BY <1>3, <1>4, <1>5 DEF Ends, Idle
<1> HIDE DEF t
<1>8. OwnerSound(t, E) /\ Watched(done, t, c)
  BY <1>2, <1>4, <1>6, ObserveSound, WatchedSame
<1> QED
  BY <1>4, <1>7, <1>8 DEF t, k

\* A job is begun, or its control is uncertain for want of its link or, for a Start, of its
\* guards; the Return of Burnout is noted as tried.
LEMMA BeginSound ==
  ASSUME NEW s, NEW E, OwnerSound(s, E), s.journalReady, Idle(s), NEW c, NEW k \in Kinds,
         NEW request \in Requests, k # "idle" => request \in {"start", "return"},
         s.phase[k] \in PendingPhases, request = "start" => s.phase[k] = "starting", k \notin s.pendingStart
  PROVE  LET t == Begin(s, c, k, request)
         IN /\ OwnerSound(t, E) /\ t.journalReady /\ JobSound(t) /\ JobLive(t)
            /\ t.operation = s.operation /\ t.link = s.link /\ t.lastOperation = s.lastOperation
            /\ t.pendingStart = s.pendingStart /\ t.pendingStop = s.pendingStop
            /\ \A j \in Kinds \ {k} : t.phase[j] = s.phase[j]
            /\ t.phase[k] \in {"unknown", "stopping", s.phase[k]}
            /\ t.marker = s.marker /\ t.stored = s.stored
            /\ ~Idle(t) => /\ t.job = NewJob(k, request) /\ Scoped(t, c, k)
                           /\ request = "return" => t.phase[k] = "stopping"
                           /\ request # "return" => t.phase[k] = s.phase[k]
            /\ Idle(t) => t.phase[k] = "unknown" /\ (~Scoped(s, c, k) \/ request = "start")
            /\ s.releaseAttempted \/ ReturnOf(t, "burnout") => t.releaseAttempted
<1> DEFINE d == NewJob(k, request)
           begun == [s EXCEPT !.job = d]
           tried == [begun EXCEPT !.releaseAttempted = @ \/ k = "burnout"]
           t == Begin(s, c, k, request)
<1>1. s \in Owner /\ s.job = NoJob
  BY DEF OwnerSound, Idle
<1>2. /\ d \in Job /\ DriverJob(d) /\ d.kind = k /\ d.request = request /\ d.status = "working" /\ ~d.marked
  <2>1. k \in AllKinds
    BY KindsAssumption
  <2>2. DriverJob(d)
    BY <2>1, NewJobDriven
  <2> QED
    BY <2>2 DEF NewJob, DriverJob
<1>3. CASE ~Scoped(s, c, k) \/ (request = "start" /\ ~Guarded(s, c, k))
  <2> DEFINE w == To(s, k, "unknown")
  <2>1. w \in Owner
    BY <1>1, ToType DEF CommandPhases
  <2>2. /\ w.operation = s.operation /\ w.link = s.link /\ w.lastOperation = s.lastOperation
        /\ w.pendingStart = s.pendingStart /\ w.pendingStop = s.pendingStop /\ w.job = NoJob
        /\ w.releaseAttempted = s.releaseAttempted /\ w.marker = s.marker /\ w.stored = s.stored
    BY <1>1 DEF To, Owner
  <2>3. w.phase[k] = "unknown" /\ \A j \in Kinds \ {k} : w.phase[j] = s.phase[j]
    BY <1>1 DEF To, Owner
  <2>4. w.journalReady = s.journalReady
    BY <1>1 DEF To, Owner
  <2>5. t = w
    BY <1>3 DEF Begin
  <2> HIDE DEF w, t
  <2>6. OwnerSound(w, E)
    <3>1. /\ w.phase[k] \in PendingPhases => s.phase[k] \in PendingPhases
          /\ w.phase[k] = "restart" => s.phase[k] = "restart" \/ k = "abs"
          /\ k \in w.marker.mask => w.phase[k] \in PendingPhases
          /\ k \in w.pendingStart => w.phase[k] = "starting"
      BY <2>2, <2>3 DEF PendingPhases
    <3> QED
      BY <2>1, <2>2, <2>3, <2>4, <3>1, SlotSound
  <2>7. Idle(w) /\ JobSound(w) /\ JobLive(w)
    BY <2>2 DEF Idle, JobSound, JobLive
  <2> QED
    BY <1>3, <2>2, <2>3, <2>4, <2>5, <2>6, <2>7 DEF ReturnOf, t
<1>4. CASE Scoped(s, c, k) /\ ~(request = "start" /\ ~Guarded(s, c, k))
  <2>1. t = IF request # "return" THEN begun ELSE To(tried, k, "stopping")
    BY <1>4 DEF Begin
  <2> HIDE DEF d
  <2>2. /\ begun \in Owner /\ begun.job = d
        /\ begun.phase = s.phase /\ begun.operation = s.operation /\ begun.link = s.link
        /\ begun.lastOperation = s.lastOperation /\ begun.pendingStart = s.pendingStart
        /\ begun.pendingStop = s.pendingStop /\ begun.releaseAttempted = s.releaseAttempted
        /\ begun.marker = s.marker /\ begun.stored = s.stored
    BY <1>1, <1>2 DEF Owner
  <2>6. OwnerSound(begun, E)
    BY <1>2, JobReplaced
  <2>7. begun.journalReady = s.journalReady
    BY <1>1 DEF Owner
  <2> HIDE DEF begun
  <2>3. d # NoJob
    BY <1>2 DEF NoJob
  <2>4. CASE request # "return"
    <3>1. JobSound(begun)
      BY <1>2, <2>2, <2>3, <2>7 DEF JobSound, Idle
    <3>2. JobLive(begun)
      BY <1>2, <2>2, <2>3, <2>4 DEF JobLive, Idle
    <3>3. Scoped(begun, c, k) /\ ~Idle(begun) /\ t = begun /\ ~ReturnOf(begun, "burnout")
      BY <1>2, <1>4, <2>1, <2>2, <2>3, <2>4 DEF Scoped, Idle, ReturnOf
    <3> HIDE DEF t
    <3> QED
      BY <2>2, <2>4, <2>6, <2>7, <3>1, <3>2, <3>3 DEF t, d
  <2>5. CASE request = "return"
    <3> DEFINE w == To(tried, k, "stopping")
    <3>1. /\ tried \in Owner /\ tried.job = d
          /\ tried.phase = s.phase /\ tried.operation = s.operation /\ tried.link = s.link
          /\ tried.lastOperation = s.lastOperation /\ tried.pendingStart = s.pendingStart
          /\ tried.pendingStop = s.pendingStop /\ (s.releaseAttempted \/ k = "burnout" => tried.releaseAttempted)
          /\ tried.marker = s.marker /\ tried.stored = s.stored
      BY <2>2 DEF Owner
    <3>2. tried.journalReady = s.journalReady
      BY <2>2, <2>7 DEF Owner
    <3> HIDE DEF tried
    <3>3. w \in Owner
      BY <3>1, ToType DEF CommandPhases
    <3>4. /\ w.operation = s.operation /\ w.link = s.link /\ w.lastOperation = s.lastOperation
          /\ w.pendingStart = s.pendingStart /\ w.pendingStop = s.pendingStop /\ w.job = d
          /\ w.releaseAttempted = tried.releaseAttempted /\ w.marker = s.marker /\ w.stored = s.stored
      BY <3>1 DEF To, Owner
    <3>5. w.journalReady = s.journalReady
      BY <3>1, <3>2 DEF To, Owner
    <3>6. w.phase[k] = "stopping" /\ \A j \in Kinds \ {k} : w.phase[j] = s.phase[j]
      BY <1>1, <3>1 DEF To, Owner
    <3>7. t = w
      BY <2>1, <2>5
    <3> HIDE DEF w, t
    <3>8. OwnerSound(w, E)
      BY <3>3, <3>4, <3>5, <3>6, SlotSound, ZenonT(90) DEF PendingPhases, LivePhases
    <3>9. ~Idle(w) /\ Scoped(w, c, k)
      BY <1>4, <2>3, <3>4 DEF Idle, Scoped
    <3>10. JobSound(w)
      BY <1>2, <3>4, <3>5 DEF JobSound
    <3>11. JobLive(w)
      BY <1>2, <2>5, <3>4, <3>6 DEF JobLive, PendingPhases, LivePhases
    <3>12. s.releaseAttempted \/ ReturnOf(w, "burnout") => w.releaseAttempted
      BY <1>2, <3>1, <3>4 DEF ReturnOf
    <3> QED
      BY <2>5, <3>4, <3>5, <3>6, <3>7, <3>8, <3>9, <3>10, <3>11, <3>12 DEF t, d
  <2> QED
    BY <2>4, <2>5
<1> QED
  BY <1>3, <1>4

\* The choice of the next job from s, on its way at t: the Stops of D are done.
Scheduling(s, t, c, D, E) ==
  /\ OwnerSound(t, E) /\ t.journalReady /\ JobSound(t) /\ JobLive(t)
  /\ t.operation = s.operation /\ t.lastOperation = s.lastOperation
  /\ t.marker = s.marker /\ t.stored = s.stored
  /\ s.releaseAttempted \/ ReturnOf(t, "burnout") => t.releaseAttempted
  /\ \A k \in Kinds :
       /\ t.link[k] = s.link[k] \/ (k = "idle" /\ t.link[k] = c.link)
       /\ k \in t.pendingStart => k \in s.pendingStart
       /\ k \in t.pendingStop => k \in s.pendingStop
       /\ k \in s.pendingStop \ t.pendingStop => k \notin t.pendingStart
       /\ t.phase[k] \in PendingPhases => s.phase[k] \in PendingPhases
       /\ t.phase[k] \in {"starting", "active", "verifying", "restart"} => t.phase[k] = s.phase[k]
       /\ t.phase[k] = "stopping" => s.phase[k] = "stopping" \/ ReturnOf(t, k)
       /\ StartOf(t, k) => k \in s.pendingStart \ s.pendingStop
       /\ Idle(t) /\ k \in D => k \notin t.pendingStop
  /\ ~Idle(t) => Scoped(t, c, t.job.kind) /\ t.job.at = 1 /\ ~t.job.cancel /\ ~t.job.marked

\* Of Burnout: a Return is begun for a Stop only, and for each that has its link.
Releasing(s, t, c) ==
  "burnout" \in Kinds =>
    /\ "burnout" \notin t.pendingStop
    /\ ReturnOf(t, "burnout") => "burnout" \in s.pendingStop
    /\ t.phase["burnout"] = "unknown" =>
         \/ "burnout" \in s.pendingStart
         \/ s.phase["burnout"] = "unknown" /\ ~("burnout" \in s.pendingStop /\ Scoped(s, c, "burnout"))
         \/ s.phase["burnout"] = "active" /\ "burnout" \in s.pendingStop

\* The Stop of one kind, then of the next: Burnout comes first
LEMMA NextStopSound ==
  ASSUME NEW s, NEW t, NEW c, NEW D, NEW E, Scheduling(s, t, c, D, E), NEW k
  PROVE  LET u == NextStop(t, c, k)
         IN /\ Scheduling(s, u, c, D \union {k}, E)
            /\ k # "burnout" /\ Releasing(s, t, c) => Releasing(s, u, c)
            /\ k = "burnout" /\ t = s /\ Idle(s) => Releasing(s, u, c)
<1> DEFINE u == NextStop(t, c, k)
           taken == [t EXCEPT !.pendingStop = @ \ {k}]
           gone == To([taken EXCEPT !.pendingStart = @ \ {k}], k, "restored")
           begun == Begin(taken, c, k, "return")
<1>1. t \in Owner /\ OwnerSound(t, E) /\ t.journalReady
  BY DEF Scheduling, OwnerSound
<1>2. CASE k \notin Kinds \/ ~Idle(t) \/ k \notin t.pendingStop
  <2>1. u = t
    BY <1>2 DEF NextStop
  <2> HIDE DEF u
  <2>2. Scheduling(s, t, c, D \union {k}, E)
    BY <1>2 DEF Scheduling
  <2>3. k = "burnout" /\ t = s /\ Idle(s) => Releasing(s, t, c)
    BY <1>2 DEF Releasing, ReturnOf
  <2> QED
    BY <2>1, <2>2, <2>3 DEF u
<1>3. CASE k \in Kinds /\ Idle(t) /\ k \in t.pendingStop
  <2>1. /\ taken \in Owner /\ taken.pendingStop = t.pendingStop \ {k} /\ taken.phase = t.phase
        /\ taken.operation = t.operation /\ taken.link = t.link /\ taken.lastOperation = t.lastOperation
        /\ taken.pendingStart = t.pendingStart /\ taken.releaseAttempted = t.releaseAttempted
        /\ taken.marker = t.marker /\ taken.stored = t.stored /\ taken.job = t.job
    BY <1>1 DEF Owner
  <2>2. taken.journalReady
    BY <1>1 DEF Owner
  <2>3. \/ u = gone /\ k \in t.pendingStart
        \/ u = begun /\ k \notin t.pendingStart /\ t.phase[k] \in {"active", "unknown"}
        \/ u = taken /\ k \notin t.pendingStart /\ (k = "burnout" => t.phase[k] # "unknown")
    BY <1>3, <2>1 DEF NextStop
  <2> HIDE DEF u, taken
  <2>4. OwnerSound(taken, E)
    <3>1. k \in t.marker.mask => t.phase[k] \in PendingPhases
      BY <1>1 DEF OwnerSound, SlotsSound
    <3>2. k \in t.pendingStart => t.phase[k] = "starting"
      BY <1>1 DEF OwnerSound, SlotsSound
    <3>3. taken.journalReady = t.journalReady
      BY <1>1 DEF taken, Owner
    <3> QED
      BY <1>1, <1>3, <2>1, <3>1, <3>2, <3>3, SlotSound
  <2>5. Idle(taken)
    BY <1>3, <2>1 DEF Idle
  <2>6. CASE u = taken /\ k \notin t.pendingStart /\ (k = "burnout" => t.phase[k] # "unknown")
    <3>1. JobSound(taken) /\ JobLive(taken)
      BY <2>5 DEF JobSound, JobLive
    <3>2. Scheduling(s, taken, c, D \union {k}, E)
      BY <1>3, <2>1, <2>2, <2>4, <2>5, <2>6, <3>1 DEF Scheduling, StartOf, ReturnOf
    <3>3. k # "burnout" /\ Releasing(s, t, c) => Releasing(s, taken, c)
      BY <1>3, <2>1, <2>5 DEF Releasing, ReturnOf
    <3>4. k = "burnout" /\ t = s /\ Idle(s) => Releasing(s, taken, c)
      BY <1>3, <2>1, <2>5, <2>6 DEF Releasing, ReturnOf
    <3> QED
      BY <2>6, <3>2, <3>3, <3>4 DEF u
  <2>7. CASE u = gone /\ k \in t.pendingStart
    <3> DEFINE x == [taken EXCEPT !.pendingStart = @ \ {k}]
    <3>1. /\ x \in Owner /\ x.pendingStop = t.pendingStop \ {k} /\ x.phase = t.phase
          /\ x.operation = t.operation /\ x.link = t.link /\ x.lastOperation = t.lastOperation
          /\ x.pendingStart = t.pendingStart \ {k} /\ x.releaseAttempted = t.releaseAttempted
          /\ x.marker = t.marker /\ x.stored = t.stored /\ x.job = t.job
      BY <2>1 DEF Owner
    <3>2. x.journalReady = taken.journalReady /\ taken.journalReady = t.journalReady
      BY <1>1, <2>1 DEF Owner, taken
    <3> HIDE DEF x
    <3>3. gone = To(x, k, "restored")
      BY DEF x
    <3> HIDE DEF gone
    <3>4. gone \in Owner
      BY <1>3, <3>1, <3>3, ToType DEF CommandPhases
    <3>5. /\ gone.pendingStop = t.pendingStop \ {k}
          /\ gone.operation = t.operation /\ gone.link = t.link /\ gone.lastOperation = t.lastOperation
          /\ gone.pendingStart = t.pendingStart \ {k} /\ gone.releaseAttempted = t.releaseAttempted
          /\ gone.marker = t.marker /\ gone.stored = t.stored /\ gone.job = t.job
      BY <3>1, <3>3 DEF To, Owner
    <3>6. gone.journalReady = t.journalReady
      BY <3>1, <3>2, <3>3 DEF To, Owner
    <3>7. gone.phase[k] = "restored" /\ \A j \in Kinds \ {k} : gone.phase[j] = t.phase[j]
      BY <1>1, <1>3, <3>1, <3>3 DEF To, Owner
    <3>8. k \notin t.marker.mask
      BY <1>1, <2>7 DEF OwnerSound, SlotsSound
    <3>9. OwnerSound(gone, E)
      BY <1>1, <1>3, <3>4, <3>5, <3>6, <3>7, <3>8, SlotSound DEF PendingPhases, LivePhases
    <3>10. Idle(gone) /\ JobSound(gone) /\ JobLive(gone)
      BY <1>3, <3>5 DEF JobSound, JobLive, Idle
    <3>11. Scheduling(s, gone, c, D \union {k}, E)
      BY <1>1, <1>3, <3>5, <3>6, <3>7, <3>9, <3>10 DEF Scheduling, StartOf, ReturnOf, PendingPhases, LivePhases
    <3>12. k # "burnout" /\ Releasing(s, t, c) => Releasing(s, gone, c)
      BY <1>3, <3>5, <3>7, <3>10 DEF Releasing, ReturnOf
    <3>13. k = "burnout" /\ t = s /\ Idle(s) => Releasing(s, gone, c)
      BY <1>3, <3>5, <3>7, <3>10 DEF Releasing, ReturnOf
    <3> QED
      BY <2>7, <3>11, <3>12, <3>13 DEF u
  <2>8. CASE u = begun /\ k \notin t.pendingStart /\ t.phase[k] \in {"active", "unknown"}
    <3>1. taken.phase[k] \in PendingPhases /\ k \notin taken.pendingStart /\ "return" \in Requests
      BY <2>1, <2>8 DEF PendingPhases, LivePhases, Requests
    <3>2. /\ OwnerSound(begun, E) /\ begun.journalReady /\ JobSound(begun) /\ JobLive(begun)
          /\ begun.operation = t.operation /\ begun.link = t.link /\ begun.lastOperation = t.lastOperation
          /\ begun.pendingStart = t.pendingStart /\ begun.pendingStop = t.pendingStop \ {k}
          /\ \A j \in Kinds \ {k} : begun.phase[j] = t.phase[j]
          /\ begun.phase[k] \in {"unknown", "stopping", t.phase[k]}
          /\ begun.marker = t.marker /\ begun.stored = t.stored
          /\ ~Idle(begun) => /\ begun.job = NewJob(k, "return") /\ Scoped(begun, c, k)
                             /\ begun.phase[k] = "stopping"
          /\ Idle(begun) => begun.phase[k] = "unknown" /\ ~Scoped(taken, c, k)
          /\ t.releaseAttempted \/ ReturnOf(begun, "burnout") => begun.releaseAttempted
      BY <1>3, <2>1, <2>2, <2>4, <2>5, <3>1, BeginSound
    <3>3. Idle(begun) => ~Scoped(t, c, k)
      BY <2>1, <3>2 DEF Scoped
    <3> HIDE DEF begun
    <3>4. ~Idle(begun) => /\ begun.job.kind = k /\ begun.job.request = "return" /\ begun.job.at = 1
                          /\ ~begun.job.cancel /\ ~begun.job.marked
      BY <3>2 DEF NewJob
    <3>5. Scheduling(s, begun, c, D \union {k}, E)
      <4>1. \A j \in Kinds : ~StartOf(begun, j)
        BY <3>4 DEF StartOf
      <4>2. \A j \in Kinds : /\ begun.phase[j] \in PendingPhases => s.phase[j] \in PendingPhases
                             /\ begun.phase[j] \in {"starting", "active", "verifying", "restart"}
                                => begun.phase[j] = s.phase[j]
        BY <2>1, <3>1, <3>2 DEF Scheduling
      <4>3. \A j \in Kinds : begun.phase[j] = "stopping" => s.phase[j] = "stopping" \/ ReturnOf(begun, j)
        BY <1>3, <3>2, <3>4 DEF Scheduling, ReturnOf
      <4> QED
        BY <1>3, <2>8, <3>2, <3>4, <4>1, <4>2, <4>3 DEF Scheduling
    <3>6. k # "burnout" /\ Releasing(s, t, c) => Releasing(s, begun, c)
      BY <1>3, <3>2, <3>4 DEF Releasing, ReturnOf
    <3>7. k = "burnout" /\ t = s /\ Idle(s) => Releasing(s, begun, c)
      BY <1>3, <2>8, <3>2, <3>3, <3>4 DEF Releasing, ReturnOf
    <3> QED
      BY <2>8, <3>5, <3>6, <3>7 DEF u
  <2> QED
    BY <2>3, <2>6, <2>7, <2>8
<1> QED
  BY <1>2, <1>3

\* The Start of one kind, when no Stop has begun a job
LEMMA NextStartSound ==
  ASSUME NEW s, NEW t, NEW c, NEW E, Scheduling(s, t, c, Kinds, E), Releasing(s, t, c), NEW k
  PROVE  LET u == NextStart(t, c, k) IN Scheduling(s, u, c, Kinds, E) /\ Releasing(s, u, c)
<1> DEFINE u == NextStart(t, c, k)
           taken == [t EXCEPT !.pendingStart = @ \ {k}]
           begun == Begin(taken, c, k, "start")
<1>1. t \in Owner /\ OwnerSound(t, E) /\ t.journalReady
  BY DEF Scheduling, OwnerSound
<1>2. CASE u = t
  BY <1>2
<1>3. CASE k \in Kinds /\ Idle(t) /\ k \in t.pendingStart /\ t.phase[k] = "starting" /\ u = begun
  <2>1. /\ taken \in Owner /\ taken.pendingStart = t.pendingStart \ {k} /\ taken.phase = t.phase
        /\ taken.operation = t.operation /\ taken.link = t.link /\ taken.lastOperation = t.lastOperation
        /\ taken.pendingStop = t.pendingStop /\ taken.releaseAttempted = t.releaseAttempted
        /\ taken.marker = t.marker /\ taken.stored = t.stored /\ taken.job = t.job
    BY <1>1 DEF Owner
  <2>2. taken.journalReady = t.journalReady
    BY <1>1 DEF Owner
  <2> HIDE DEF u, taken
  <2>3. OwnerSound(taken, E)
    <3>1. k \in t.marker.mask => t.phase[k] \in PendingPhases
      BY <1>1 DEF OwnerSound, SlotsSound
    <3> QED
      BY <1>1, <1>3, <2>1, <2>2, <3>1, SlotSound
  <2>4. Idle(taken) /\ taken.journalReady
    BY <1>1, <1>3, <2>1, <2>2 DEF Idle
  <2>5. taken.phase[k] \in PendingPhases /\ taken.phase[k] = "starting" /\ k \notin taken.pendingStart
        /\ "start" \in Requests
    BY <1>3, <2>1 DEF PendingPhases, LivePhases, Requests
  <2>6. /\ OwnerSound(begun, E) /\ begun.journalReady /\ JobSound(begun) /\ JobLive(begun)
        /\ begun.operation = t.operation /\ begun.link = t.link /\ begun.lastOperation = t.lastOperation
        /\ begun.pendingStart = t.pendingStart \ {k} /\ begun.pendingStop = t.pendingStop
        /\ \A j \in Kinds \ {k} : begun.phase[j] = t.phase[j]
        /\ begun.marker = t.marker /\ begun.stored = t.stored
        /\ ~Idle(begun) => /\ begun.job = NewJob(k, "start") /\ Scoped(begun, c, k)
                           /\ begun.phase[k] = "starting"
        /\ Idle(begun) => begun.phase[k] = "unknown"
        /\ t.releaseAttempted => begun.releaseAttempted
    BY <1>3, <2>1, <2>3, <2>4, <2>5, BeginSound
  <2> HIDE DEF begun
  <2>7. ~Idle(begun) => /\ begun.job.kind = k /\ begun.job.request = "start" /\ begun.job.at = 1
                        /\ ~begun.job.cancel /\ ~begun.job.marked
    BY <2>6 DEF NewJob
  <2>8. k \in s.pendingStart \ s.pendingStop
    BY <1>3 DEF Scheduling
  <2>9. \A j \in Kinds : ~ReturnOf(begun, j)
    BY <2>7 DEF ReturnOf
  <2>10. Scheduling(s, begun, c, Kinds, E)
    <3>1. \A j \in Kinds : StartOf(begun, j) => j \in s.pendingStart \ s.pendingStop
      BY <2>7, <2>8 DEF StartOf
    <3>2. \A j \in Kinds : /\ begun.phase[j] \in PendingPhases => s.phase[j] \in PendingPhases
                           /\ begun.phase[j] \in {"starting", "active", "verifying", "restart"}
                              => begun.phase[j] = s.phase[j]
      BY <1>3, <2>1, <2>5, <2>6 DEF Scheduling
    <3>3. s.releaseAttempted \/ ReturnOf(begun, "burnout") => begun.releaseAttempted
      BY <2>6, <2>7 DEF Scheduling, ReturnOf
    <3>4. \A j \in Kinds : begun.phase[j] = "stopping" => s.phase[j] = "stopping"
      BY <1>3, <2>6 DEF Scheduling, ReturnOf
    <3> QED
      BY <1>3, <2>6, <2>7, <3>1, <3>2, <3>3, <3>4 DEF Scheduling
  <2>11. Releasing(s, begun, c)
    BY <1>3, <2>6, <2>8, <2>9 DEF Releasing
  <2> QED
    BY <1>3, <2>10, <2>11 DEF u
<1> QED
  BY <1>2, <1>3 DEF NextStart

\* The report of a raised idle, or its recovery after a boot, when nothing else is to be done
LEMMA NextReportSound ==
  ASSUME NEW s, NEW t, NEW c, NEW E, Scheduling(s, t, c, Kinds, E), Releasing(s, t, c), c.link \in 0..MaxLink
  PROVE  LET u == NextReport(t, c) IN Scheduling(s, u, c, Kinds, E) /\ Releasing(s, u, c)
<1> DEFINE u == NextReport(t, c)
           linked == [t EXCEPT !.link["idle"] = c.link]
<1>1. t \in Owner /\ OwnerSound(t, E) /\ t.journalReady
  BY DEF Scheduling, OwnerSound
<1>2. CASE u = t
  BY <1>2
<1>3. ASSUME "idle" \in Kinds, Idle(t), NEW w \in {t, linked}, NEW request \in {"report", "recover"},
             u = Begin(w, c, "idle", request), t.phase["idle"] \in {"active", "unknown"}
      PROVE  Scheduling(s, u, c, Kinds, E) /\ Releasing(s, u, c)
  <2>1. /\ linked \in Owner /\ linked.pendingStart = t.pendingStart /\ linked.phase = t.phase
        /\ linked.operation = t.operation /\ linked.lastOperation = t.lastOperation
        /\ linked.pendingStop = t.pendingStop /\ linked.releaseAttempted = t.releaseAttempted
        /\ linked.marker = t.marker /\ linked.stored = t.stored /\ linked.job = t.job
        /\ linked.link = [t.link EXCEPT !["idle"] = c.link]
    BY <1>1 DEF Owner
  <2>2. linked.journalReady = t.journalReady
    BY <1>1 DEF Owner
  <2> HIDE DEF u, linked
  <2>3. /\ w \in Owner /\ w.pendingStart = t.pendingStart /\ w.phase = t.phase
        /\ w.operation = t.operation /\ w.lastOperation = t.lastOperation
        /\ w.pendingStop = t.pendingStop /\ w.releaseAttempted = t.releaseAttempted
        /\ w.marker = t.marker /\ w.stored = t.stored /\ w.job = t.job
    BY <1>1, <1>3, <2>1
  <2>4. w.journalReady = t.journalReady
    BY <1>3, <2>2
  <2>5. /\ \A j \in Kinds \ {"idle"} : w.link[j] = t.link[j]
        /\ w.link["idle"] \in {t.link["idle"], c.link}
    BY <1>1, <1>3, <2>1 DEF Owner
  <2>6. OwnerSound(w, E)
    <3>1. "idle" \in t.marker.mask => t.phase["idle"] \in PendingPhases
      BY <1>1 DEF OwnerSound, SlotsSound
    <3>2. "idle" \in t.pendingStart => t.phase["idle"] = "starting"
      BY <1>1 DEF OwnerSound, SlotsSound
    <3> QED
      BY <1>1, <1>3, <2>3, <2>4, <3>1, <3>2, SlotSound
  <2>7. Idle(w) /\ w.journalReady
    BY <1>1, <1>3, <2>3, <2>4 DEF Idle
  <2>8. /\ w.phase["idle"] \in PendingPhases /\ "idle" \notin w.pendingStart
        /\ request \in Requests /\ request # "start" /\ request # "return"
    BY <1>1, <1>3, <2>3 DEF PendingPhases, LivePhases, Requests, OwnerSound, SlotsSound
  <2>9. /\ OwnerSound(u, E) /\ u.journalReady /\ JobSound(u) /\ JobLive(u)
        /\ u.operation = t.operation /\ u.link = w.link /\ u.lastOperation = t.lastOperation
        /\ u.pendingStart = t.pendingStart /\ u.pendingStop = t.pendingStop
        /\ \A j \in Kinds \ {"idle"} : u.phase[j] = t.phase[j]
        /\ u.marker = t.marker /\ u.stored = t.stored
        /\ ~Idle(u) => /\ u.job = NewJob("idle", request) /\ Scoped(u, c, "idle")
                       /\ u.phase["idle"] = t.phase["idle"]
        /\ Idle(u) => u.phase["idle"] = "unknown"
        /\ t.releaseAttempted => u.releaseAttempted
    <3> DEFINE v == Begin(w, c, "idle", request)
    <3>0. /\ "idle" # "idle" => request \in {"start", "return"}
          /\ request = "start" => w.phase["idle"] = "starting"
      BY <2>8
    <3>1. /\ OwnerSound(v, E) /\ v.journalReady /\ JobSound(v) /\ JobLive(v)
          /\ v.operation = w.operation /\ v.link = w.link /\ v.lastOperation = w.lastOperation
          /\ v.pendingStart = w.pendingStart /\ v.pendingStop = w.pendingStop
          /\ \A j \in Kinds \ {"idle"} : v.phase[j] = w.phase[j]
          /\ v.phase["idle"] \in {"unknown", "stopping", w.phase["idle"]}
          /\ v.marker = w.marker /\ v.stored = w.stored
          /\ ~Idle(v) => /\ v.job = NewJob("idle", request) /\ Scoped(v, c, "idle")
                         /\ request = "return" => v.phase["idle"] = "stopping"
                         /\ request # "return" => v.phase["idle"] = w.phase["idle"]
          /\ Idle(v) => v.phase["idle"] = "unknown" /\ (~Scoped(w, c, "idle") \/ request = "start")
          /\ w.releaseAttempted \/ ReturnOf(v, "burnout") => v.releaseAttempted
      BY <1>3, <2>6, <2>7, <2>8, <3>0, BeginSound
    <3>2. u = v
      BY <1>3
    <3> HIDE DEF v
    <3> QED
      BY <2>3, <2>8, <3>1, <3>2
  <2>10. ~Idle(u) => /\ u.job.kind = "idle" /\ u.job.request = request /\ u.job.at = 1
                     /\ ~u.job.cancel /\ ~u.job.marked
    BY <2>9 DEF NewJob
  <2>11. \A j \in Kinds : ~ReturnOf(u, j) /\ ~StartOf(u, j)
    BY <2>8, <2>10 DEF ReturnOf, StartOf
  <2>12. ~ReturnOf(u, "burnout")
    BY <2>10 DEF ReturnOf
  <2>13. \A j \in Kinds : /\ u.phase[j] \in PendingPhases => s.phase[j] \in PendingPhases
                          /\ u.phase[j] \in {"starting", "active", "verifying", "restart"} => u.phase[j] = s.phase[j]
                          /\ u.link[j] = s.link[j] \/ (j = "idle" /\ u.link[j] = c.link)
    BY <1>3, <2>3, <2>5, <2>8, <2>9 DEF Scheduling
  <2>14. Scheduling(s, u, c, Kinds, E)
    <3>1. \A j \in Kinds : u.phase[j] = "stopping" => s.phase[j] = "stopping"
      BY <1>3, <2>8, <2>9 DEF Scheduling, ReturnOf
    <3> QED
      BY <1>3, <2>9, <2>10, <2>11, <2>12, <2>13, <3>1 DEF Scheduling
  <2>15. Releasing(s, u, c)
    BY <1>3, <2>9, <2>12 DEF Releasing
  <2> QED
    BY <2>14, <2>15
<1> QED
  BY <1>2, <1>3 DEF NextReport

\* The choice of a job, from all that is pending
LEMMA ScheduleSound ==
  ASSUME NEW s, NEW c, NEW E, OwnerSound(s, E), s.journalReady, Idle(s), c.link \in 0..MaxLink
  PROVE  LET t == Schedule(s, c) IN Scheduling(s, t, c, Kinds, E) /\ Releasing(s, t, c)
<1> DEFINE b == NextStop(s, c, "burnout")
           i == NextStop(b, c, "idle")
           a == NextStop(i, c, "abs")
           si == NextStart(a, c, "idle")
           sa == NextStart(si, c, "abs")
           sb == NextStart(sa, c, "burnout")
           r == NextReport(sb, c)
<1>1. Scheduling(s, s, c, {}, E)
  BY DEF Scheduling, JobSound, JobLive, StartOf, ReturnOf
<1>2. Scheduling(s, b, c, {} \union {"burnout"}, E) /\ Releasing(s, b, c)
  BY <1>1, NextStopSound
<1> HIDE DEF b
<1>3. Scheduling(s, i, c, ({} \union {"burnout"}) \union {"idle"}, E) /\ Releasing(s, i, c)
  BY <1>2, NextStopSound
<1> HIDE DEF i
<1>4. Scheduling(s, a, c, (({} \union {"burnout"}) \union {"idle"}) \union {"abs"}, E) /\ Releasing(s, a, c)
  BY <1>3, NextStopSound
<1> HIDE DEF a
<1>5. Scheduling(s, a, c, Kinds, E) /\ Releasing(s, a, c)
  BY <1>4, KindsAssumption DEF Scheduling, AllKinds
<1>6. Scheduling(s, si, c, Kinds, E) /\ Releasing(s, si, c)
  BY <1>5, NextStartSound
<1> HIDE DEF si
<1>7. Scheduling(s, sa, c, Kinds, E) /\ Releasing(s, sa, c)
  BY <1>6, NextStartSound
<1> HIDE DEF sa
<1>8. Scheduling(s, sb, c, Kinds, E) /\ Releasing(s, sb, c)
  BY <1>7, NextStartSound
<1> HIDE DEF sb
<1>9. Scheduling(s, r, c, Kinds, E) /\ Releasing(s, r, c)
  BY <1>8, NextReportSound
<1> QED
  BY <1>9 DEF Schedule, b, i, a, si, sa, sb

-----------------------------------------------------------------------------
\* The marker is written, in part or not at all, for the job of k.
LEMMA MarkedSound ==
  ASSUME NEW s, NEW t \in Owner, NEW E, NEW k \in Kinds, NEW m \in Marker, OwnerSound(s, E), s.journalReady,
         s.phase[k] \in PendingPhases, k \notin s.pendingStart,
         m.mask = s.marker.mask \union {k}, m.operation = [s.marker.operation EXCEPT ![k] = s.operation[k]],
         t.stored \in {s.stored, m}, t.marker \in {s.marker, m},
         t.operation = s.operation, t.lastOperation = s.lastOperation, t.journalReady = s.journalReady,
         \A j \in Kinds \ {k} : t.phase[j] = s.phase[j],
         t.pendingStart \subseteq s.pendingStart,
         t.phase[k] \in {s.phase[k], "unknown"} \/ (t.phase[k] = "rejected" /\ k \notin t.marker.mask)
  PROVE  OwnerSound(t, E)
<1>1. s \in Owner /\ SlotsSound(s, E) /\ s.marker \in Marker /\ s.operation[k] # NoOperation
  BY DEF OwnerSound, Owner, SlotsSound
<1>2. \A j \in m.mask : s.phase[j] \in PendingPhases /\ j \in Kinds /\ m.operation[j] # NoOperation
  BY <1>1 DEF SlotsSound, Marker
<1>3. "burnout" \in m.mask => m.mask = {"burnout"}
  BY <1>1, <1>2 DEF SlotsSound
<1>4. MarkerSound(t, E)
  <2>1. CASE t.stored = s.stored
    BY <2>1 DEF OwnerSound, MarkerSound
  <2>2. CASE t.stored = m
    <3>1. E \subseteq m.mask
      BY <1>1 DEF SlotsSound
    <3> QED
      BY <1>2, <1>3, <2>2, <3>1 DEF MarkerSound
  <2> QED
    BY <2>1, <2>2
<1>5. "unknown" \in PendingPhases /\ "rejected" \notin PendingPhases /\ "unknown" # "restart"
  BY DEF PendingPhases, LivePhases
<1>6. \A j \in Kinds : t.phase[j] \in PendingPhases => s.phase[j] \in PendingPhases
  OBVIOUS
<1>7. \A j \in Kinds : t.operation[j] <= t.lastOperation /\ (t.phase[j] = "restart" => j = "abs")
  BY <1>1, <1>5 DEF OwnerSound
<1>8. \A j \in t.marker.mask : t.phase[j] \in PendingPhases /\ t.marker.operation[j] # NoOperation
  <2> TAKE j \in t.marker.mask
  <2>1. t.marker = s.marker => s.phase[j] \in PendingPhases /\ s.marker.operation[j] # NoOperation
    BY <1>1 DEF SlotsSound
  <2>2. t.marker = m => s.phase[j] \in PendingPhases /\ m.operation[j] # NoOperation
    BY <1>2
  <2>3. j \in Kinds
    BY <1>1, <1>2 DEF Marker
  <2>4. t.phase[j] \in PendingPhases
    BY <1>5, <2>1, <2>2, <2>3
  <2> QED
    BY <2>1, <2>2, <2>4
<1>9. \A j \in t.pendingStart : t.phase[j] = "starting" /\ j \notin t.marker.mask
  BY <1>1 DEF SlotsSound, Owner
<1>10. SlotsSound(t, E)
  BY <1>1, <1>6, <1>8, <1>9 DEF SlotsSound
<1> QED
  BY <1>4, <1>7, <1>10 DEF OwnerSound

\* A job that goes on, with a command to send
Driven(s, t) ==
  /\ t.operation = s.operation /\ t.link = s.link /\ t.lastOperation = s.lastOperation
  /\ t.releaseAttempted = s.releaseAttempted /\ t.journalReady = s.journalReady
  /\ t.phase = s.phase /\ t.pendingStart = s.pendingStart /\ t.pendingStop = s.pendingStop
  /\ ~Idle(s) /\ ~Idle(t) /\ t.job.kind = s.job.kind
  /\ \/ t.job.request = s.job.request /\ t.job.at = s.job.at
     \/ t.job.request = "return" /\ t.job.kind = "idle"
  /\ t.job.request = "start" => ~s.job.cancel /\ ~t.job.cancel
  /\ IsControl(t.job) => t.job.marked

\* The marker is written before the acting transaction; when that fails the job ends.
LEMMA MarkControlSound ==
  ASSUME NEW s, NEW E, OwnerSound(s, E), s.journalReady, JobSound(s), JobLive(s), ~Idle(s), NEW sv
  PROVE  LET t == MarkControl(s, sv)
         IN /\ OwnerSound(t, E)
            /\ \/ Ends(s, t, s.job.kind)
               \/ /\ JobSound(t) /\ ~Idle(t) /\ t.job.marked /\ t.job.kind = s.job.kind
                  /\ t.job.request = s.job.request /\ t.job.at = s.job.at /\ t.job.cancel = s.job.cancel
                  /\ t.operation = s.operation /\ t.link = s.link /\ t.lastOperation = s.lastOperation
                  /\ t.releaseAttempted = s.releaseAttempted /\ t.journalReady = s.journalReady
                  /\ t.phase = s.phase /\ t.pendingStart = s.pendingStart /\ t.pendingStop = s.pendingStop
<1> DEFINE k == s.job.kind
           d == s.job
           e == [d EXCEPT !.marked = TRUE]
           m == [s.marker EXCEPT !.mask = @ \union {k}, !.operation[k] = s.operation[k]]
           saved == Save(s, m, sv)
           t == MarkControl(s, sv)
<1>1. /\ s \in Owner /\ k \in Kinds /\ k \notin s.pendingStart /\ s.phase[k] \in PendingPhases
      /\ DriverJob(d) /\ d.status = "working" /\ d \in Job
  BY DEF OwnerSound, JobSound, JobLive, DriverJob
<1>2. /\ m \in Marker /\ m.mask = s.marker.mask \union {k}
      /\ m.operation = [s.marker.operation EXCEPT ![k] = s.operation[k]]
  BY <1>1 DEF Owner, Marker
<1>3. /\ DriverJob(e) /\ e \in Job /\ e.kind = d.kind /\ e.request = d.request /\ e.at = d.at
      /\ e.status = "working" /\ e.marked /\ e.cancel = d.cancel
  <2>1. /\ e \in Job /\ e.kind = d.kind /\ e.request = d.request /\ e.at = d.at
        /\ e.status = "working" /\ e.marked /\ e.cancel = d.cancel
    BY <1>1 DEF Job
  <2> HIDE DEF e
  <2> QED
    BY <1>1, <2>1 DEF DriverJob
<1>4. saved \in Owner
  BY <1>1, <1>2, SaveType
<1> HIDE DEF m
<1>5. /\ saved.stored \in {s.stored, m} /\ saved.marker = (IF Saves(s, sv) THEN m ELSE s.marker)
      /\ (Saves(s, sv) => saved.stored = m)
      /\ saved.operation = s.operation /\ saved.link = s.link /\ saved.lastOperation = s.lastOperation
      /\ saved.releaseAttempted = s.releaseAttempted /\ saved.phase = s.phase
      /\ saved.pendingStart = s.pendingStart /\ saved.pendingStop = s.pendingStop /\ saved.job = d
  BY <1>1 DEF Save, Saves, Owner
<1>6. saved.journalReady = s.journalReady
  BY <1>1 DEF Save, Owner
<1> DEFINE timed == k = "burnout" /\ s.job.request = "start"
           lost == [Uncertain(saved, k) EXCEPT !.job = NoJob]
           noted == [s EXCEPT !.job.marked = TRUE]
           kept == [saved EXCEPT !.job.marked = TRUE, !.expired = IF timed THEN @ \ {k} ELSE @]
<1>7. \/ t = s /\ d.marked
      \/ t = noted /\ ReleaseRecorded(s)
      \/ t = lost /\ ~Saves(s, sv)
      \/ t = kept /\ Saves(s, sv)
  BY DEF MarkControl, m
<1>8. CASE t = s /\ d.marked
  BY <1>8
<1>9. CASE t = noted /\ ReleaseRecorded(s)
  <2>1. /\ noted \in Owner /\ noted.job = e
        /\ noted.phase = s.phase /\ noted.operation = s.operation /\ noted.link = s.link
        /\ noted.lastOperation = s.lastOperation /\ noted.pendingStart = s.pendingStart
        /\ noted.pendingStop = s.pendingStop /\ noted.releaseAttempted = s.releaseAttempted
        /\ noted.marker = s.marker /\ noted.stored = s.stored
    BY <1>1, <1>3 DEF Owner
  <2>2. noted.journalReady = s.journalReady
    BY <1>1 DEF Owner
  <2>3. k \in s.marker.mask /\ d.request = "return"
    BY <1>9 DEF ReleaseRecorded
  <2> HIDE DEF noted, e, t
  <2>4. OwnerSound(noted, E)
    BY <2>1, <2>2 DEF OwnerSound, MarkerSound, SlotsSound
  <2>5. ~Idle(noted)
    BY <1>3, <2>1 DEF Idle, NoJob
  <2>6. JobSound(noted)
    BY <1>1, <1>3, <2>1, <2>2, <2>3 DEF JobSound
  <2> QED
    BY <1>3, <1>9, <2>1, <2>2, <2>4, <2>5, <2>6 DEF t
<1>10. CASE t = lost /\ ~Saves(s, sv)
  <2> DEFINE p == IF k \in s.marker.mask THEN "unknown" ELSE "rejected"
             u == To(saved, k, p)
             w == [u EXCEPT !.job = NoJob]
  <2>1. saved.marker = s.marker /\ lost = w
    BY <1>5, <1>10 DEF Uncertain
  <2> HIDE DEF saved
  <2>2. u \in Owner /\ p \in CommandPhases
    BY <1>1, <1>4, ToType DEF CommandPhases
  <2>3. /\ u.stored = saved.stored /\ u.marker = saved.marker
        /\ u.operation = saved.operation /\ u.link = saved.link /\ u.lastOperation = saved.lastOperation
        /\ u.releaseAttempted = saved.releaseAttempted /\ u.phase = [saved.phase EXCEPT ![k] = p]
        /\ u.pendingStart = saved.pendingStart /\ u.pendingStop = saved.pendingStop
    BY <1>4 DEF To, Owner
  <2>4. u.journalReady = saved.journalReady
    BY <1>4 DEF To, Owner
  <2> HIDE DEF u
  <2>5. /\ w \in Owner /\ w.job = NoJob /\ w.stored = u.stored /\ w.marker = u.marker
        /\ w.operation = u.operation /\ w.link = u.link /\ w.lastOperation = u.lastOperation
        /\ w.releaseAttempted = u.releaseAttempted /\ w.phase = u.phase
        /\ w.pendingStart = u.pendingStart /\ w.pendingStop = u.pendingStop
    BY <2>2 DEF Owner
  <2>6. w.journalReady = s.journalReady
    BY <1>6, <2>2, <2>4 DEF Owner
  <2> HIDE DEF w, lost, t
  <2>7. w.phase[k] = p /\ \A j \in Kinds \ {k} : w.phase[j] = s.phase[j]
    BY <1>1, <1>5, <2>3, <2>5 DEF Owner
  <2>8. /\ w.stored \in {s.stored, m} /\ w.marker = s.marker /\ w.operation = s.operation /\ w.link = s.link
        /\ w.lastOperation = s.lastOperation /\ w.releaseAttempted = s.releaseAttempted
        /\ w.pendingStart = s.pendingStart /\ w.pendingStop = s.pendingStop
    BY <1>5, <2>1, <2>3, <2>5
  <2>9. OwnerSound(w, E)
    <3>1. w.phase[k] = "unknown" \/ (w.phase[k] = "rejected" /\ k \notin w.marker.mask)
      BY <2>7, <2>8
    <3> HIDE DEF k
    <3> QED
      BY <1>1, <1>2, <2>5, <2>6, <2>7, <2>8, <3>1, MarkedSound
  <2>10. Ends(s, w, k)
    BY <1>1, <2>5, <2>6, <2>7, <2>8 DEF Ends, Idle, PendingPhases, LivePhases
  <2> QED
    BY <1>10, <2>1, <2>9, <2>10 DEF t
<1>11. CASE t = kept /\ Saves(s, sv)
  <2>1. saved.marker = m /\ saved.stored = m
    BY <1>5, <1>11
  <2> HIDE DEF saved
  <2>2. /\ kept \in Owner /\ kept.job = e /\ kept.stored = saved.stored /\ kept.marker = saved.marker
        /\ kept.operation = saved.operation /\ kept.link = saved.link /\ kept.lastOperation = saved.lastOperation
        /\ kept.releaseAttempted = saved.releaseAttempted /\ kept.phase = saved.phase
        /\ kept.pendingStart = saved.pendingStart /\ kept.pendingStop = saved.pendingStop
    BY <1>3, <1>4, <1>5 DEF Owner
  <2>3. kept.journalReady = s.journalReady
    BY <1>4, <1>6 DEF Owner
  <2> HIDE DEF kept, e, t
  <2>4. /\ kept.stored = m /\ kept.marker = m /\ kept.operation = s.operation /\ kept.link = s.link
        /\ kept.lastOperation = s.lastOperation /\ kept.releaseAttempted = s.releaseAttempted
        /\ kept.pendingStart = s.pendingStart /\ kept.pendingStop = s.pendingStop /\ kept.phase = s.phase
    BY <1>5, <2>1, <2>2
  <2>5. OwnerSound(kept, E)
    <3> HIDE DEF k
    <3> QED
      BY <1>1, <1>2, <2>2, <2>3, <2>4, MarkedSound, ZenonT(90)
  <2>6. ~Idle(kept)
    BY <1>3, <2>2 DEF Idle, NoJob
  <2>7. JobSound(kept)
    BY <1>1, <1>2, <1>3, <2>2, <2>3, <2>4 DEF JobSound
  <2> QED
    BY <1>3, <1>11, <2>2, <2>3, <2>4, <2>5, <2>6, <2>7 DEF t
<1> QED
  BY <1>7, <1>8, <1>9, <1>10, <1>11

\* What one call of vehicle_commands_next does: it observes, chooses a job when
\* it has none, and leaves it with a command to send or ended.
Commanded(s, t, c, E) ==
  \E seen, chosen \in Owner :
    /\ Watched(s, seen, c) /\ OwnerSound(seen, E)
    /\ \/ ~Idle(seen) /\ chosen = seen
       \/ Idle(seen) /\ Scheduling(seen, chosen, c, Kinds, E) /\ Releasing(seen, chosen, c)
    /\ OwnerSound(chosen, E) /\ chosen.journalReady /\ JobSound(chosen) /\ (JobLive(chosen) \/ Doomed(chosen, c))
    /\ \/ Idle(chosen) /\ t = chosen
       \/ ~Idle(chosen) /\ \E done \in Owner : Ends(chosen, done, chosen.job.kind) /\ Watched(done, t, c)
       \/ Driven(chosen, t) /\ JobSound(t) /\ JobLive(t) /\ ~Doomed(t, c)

\* The driver is asked for the command of a job whose vehicle and link are there.
LEMMA DriveSound ==
  ASSUME NEW s, NEW E, OwnerSound(s, E), s.journalReady, JobSound(s), JobLive(s), ~Idle(s),
         NEW c, ~Doomed(s, c), c.proof \cap E = {}, NEW sv, NEW guarded, NEW late
  PROVE  LET d == [s EXCEPT !.job = DriverNext(@, guarded, late)]
             t == IF d.job.status # "working" THEN Finish(d, c, sv)
                  ELSE IF IsControl(d.job) THEN MarkControl(d, sv) ELSE d
         IN /\ OwnerSound(t, E)
            /\ \/ \E done \in Owner : Ends(s, done, s.job.kind) /\ Watched(done, t, c)
               \/ Driven(s, t) /\ JobSound(t) /\ JobLive(t) /\ ~Doomed(t, c)
<1> DEFINE e == DriverNext(s.job, guarded, late)
           d == [s EXCEPT !.job = e]
           k == s.job.kind
           t == IF d.job.status # "working" THEN Finish(d, c, sv)
                ELSE IF IsControl(d.job) THEN MarkControl(d, sv) ELSE d
<1>1. /\ s \in Owner /\ k \in Kinds /\ k \notin s.pendingStart /\ s.phase[k] \in PendingPhases
      /\ DriverJob(s.job) /\ s.job.status = "working"
  BY DEF OwnerSound, JobSound, JobLive
<1>2. /\ Drives(s.job, e) /\ (e.request = s.job.request => e.at = s.job.at) /\ e.status # "confirmed"
      /\ e.status = "working" /\ e.request = "start" => ~s.job.cancel /\ ~e.cancel
  BY <1>1, DriverNextDriven
<1> HIDE DEF e
<1>3. e \in Job /\ DriverJob(e) /\ e.kind = k /\ e.marked = s.job.marked
  BY <1>2 DEF Drives, DriverJob
<1>4. /\ d \in Owner /\ d.job = e /\ d.phase = s.phase /\ d.operation = s.operation /\ d.link = s.link
      /\ d.lastOperation = s.lastOperation /\ d.pendingStart = s.pendingStart
      /\ d.pendingStop = s.pendingStop /\ d.releaseAttempted = s.releaseAttempted
      /\ d.marker = s.marker /\ d.stored = s.stored
  BY <1>1, <1>3 DEF Owner
<1>5. d.journalReady = s.journalReady
  BY <1>1 DEF Owner
<1>6. OwnerSound(d, E)
  BY <1>4, <1>5 DEF OwnerSound, MarkerSound, SlotsSound
<1> HIDE DEF d, t
<1>7. /\ e.request = "start" => s.job.request = "start"
      /\ e.request = "return" /\ k # "idle" => s.job.request = "return"
  BY <1>2 DEF Drives
<1>8. CASE e.status # "working"
  <2>1. t = Finish(d, c, sv) /\ d.journalReady
    BY <1>4, <1>5, <1>8 DEF t
  <2>2. /\ DriverJob(d.job) /\ d.job.kind \in Kinds /\ d.job.kind \notin d.pendingStart
        /\ d.job.status # "working" /\ d.phase[d.job.kind] \in PendingPhases
    BY <1>1, <1>3, <1>4, <1>8
  <2>3. OwnerSound(t, E) /\ \E done \in Owner : Ends(d, done, d.job.kind) /\ Watched(done, t, c)
    BY <1>6, <2>1, <2>2, FinishSound
  <2>4. \A done \in Owner : Ends(d, done, d.job.kind) => Ends(s, done, k)
    BY <1>3, <1>4, <1>5, <1>7 DEF Ends
  <2> QED
    BY <2>3, <2>4 DEF t, d, e
<1>9. CASE e.status = "working"
  <2>1. ~Idle(d)
    BY <1>4, <1>9 DEF Idle, NoJob
  <2>2. JobSound(d)
    BY <1>1, <1>3, <1>4, <1>5, <1>7, <1>9 DEF JobSound
  <2>3. JobLive(d)
    BY <1>1, <1>3, <1>4, <1>7 DEF JobLive
  <2>4. \/ e.request = s.job.request /\ e.at = s.job.at
        \/ e.request = "return" /\ e.kind = "idle"
    BY <1>2 DEF Drives
  <2>5. ~Doomed(d, c)
    BY <1>3, <1>4 DEF Doomed, Scoped
  <2>6. CASE IsControl(e)
    <3>1. t = MarkControl(d, sv) /\ d.journalReady
      BY <1>4, <1>5, <1>9, <2>6 DEF t
    <3>2. /\ OwnerSound(t, E)
          /\ \/ Ends(d, t, d.job.kind)
             \/ /\ JobSound(t) /\ ~Idle(t) /\ t.job.marked /\ t.job.kind = d.job.kind
                /\ t.job.request = d.job.request /\ t.job.at = d.job.at /\ t.job.cancel = d.job.cancel
                /\ t.operation = d.operation /\ t.link = d.link /\ t.lastOperation = d.lastOperation
                /\ t.releaseAttempted = d.releaseAttempted /\ t.journalReady = d.journalReady
                /\ t.phase = d.phase /\ t.pendingStart = d.pendingStart /\ t.pendingStop = d.pendingStop
      BY <1>6, <2>1, <2>2, <2>3, <3>1, MarkControlSound, ZenonT(90)
    <3>3. CASE Ends(d, t, d.job.kind)
      <4>1. Ends(s, t, k) /\ t \in Owner
        BY <1>3, <1>4, <1>5, <1>7, <3>3 DEF Ends
      <4> QED
        BY <3>2, <4>1, WatchedSame DEF t, d, e
    <3>4. CASE /\ JobSound(t) /\ ~Idle(t) /\ t.job.marked /\ t.job.kind = d.job.kind
               /\ t.job.request = d.job.request /\ t.job.at = d.job.at /\ t.job.cancel = d.job.cancel
               /\ t.operation = d.operation /\ t.link = d.link /\ t.lastOperation = d.lastOperation
               /\ t.releaseAttempted = d.releaseAttempted /\ t.journalReady = d.journalReady
               /\ t.phase = d.phase /\ t.pendingStart = d.pendingStart /\ t.pendingStop = d.pendingStop
      <4>1. Driven(s, t)
        BY <1>2, <1>3, <1>4, <1>5, <1>9, <2>4, <3>4 DEF Driven
      <4>2. JobLive(t)
        BY <2>1, <2>3, <3>4 DEF JobLive
      <4>3. ~Doomed(t, c)
        BY <2>5, <3>4 DEF Doomed, Scoped
      <4> QED
        BY <3>2, <3>4, <4>1, <4>2, <4>3 DEF t, d, e
    <3> QED
      BY <3>2, <3>3, <3>4
  <2>7. CASE ~IsControl(e)
    <3>1. t = d
      BY <1>4, <1>9, <2>7 DEF t
    <3>2. Driven(s, d)
      BY <1>2, <1>3, <1>4, <1>5, <1>9, <2>1, <2>4, <2>7 DEF Driven
    <3> QED
      BY <1>6, <2>2, <2>3, <2>5, <3>1, <3>2 DEF t, d, e
  <2> QED
    BY <2>6, <2>7
<1> QED
  BY <1>8, <1>9

\* vehicle_commands_next keeps the owner sound; what it did is what Commanded says.
LEMMA NextCommandSound ==
  ASSUME NEW s, NEW E, OwnerSound(s, E), s.journalReady, JobSound(s), NEW c, JobLive(s) \/ Doomed(s, c),
         c.proof \cap E = {}, c.link \in 0..MaxLink, NEW sv
  PROVE  LET t == NextCommand(s, c, sv) IN OwnerSound(t, E) /\ Commanded(s, t, c, E)
<1> DEFINE seen == Observe(s, c, sv)
           chosen == IF Idle(seen) THEN Schedule(seen, c) ELSE seen
           k == chosen.job.kind
           driven == [chosen EXCEPT !.job = DriverNext(@, DriverGuards(chosen, c), c.late)]
           t == NextCommand(s, c, sv)
<1>1. s \in Owner /\ OwnerSound(seen, E) /\ Watched(s, seen, c)
  BY ObserveSound DEF OwnerSound
<1>2. seen \in Owner /\ JobSound(seen) /\ (JobLive(seen) \/ Doomed(seen, c))
  BY <1>1, WatchedJob DEF Watched
<1>3. seen.journalReady
  BY <1>1 DEF Watched
<1>4. t = IF Idle(chosen) THEN chosen
          ELSE IF ~Qualified(c, k) \/ ~Scoped(chosen, c, k) THEN TransportFailed(chosen)
          ELSE IF driven.job.status # "working" THEN Finish(driven, c, sv)
          ELSE IF IsControl(driven.job) THEN MarkControl(driven, sv) ELSE driven
  BY DEF NextCommand
<1> HIDE DEF seen
<1>5. /\ \/ ~Idle(seen) /\ chosen = seen
         \/ Idle(seen) /\ Scheduling(seen, chosen, c, Kinds, E) /\ Releasing(seen, chosen, c)
      /\ OwnerSound(chosen, E) /\ chosen.journalReady /\ JobSound(chosen) /\ (JobLive(chosen) \/ Doomed(chosen, c))
  <2>1. CASE Idle(seen)
    <3>1. chosen = Schedule(seen, c)
      BY <2>1
    <3> HIDE DEF chosen
    <3>2. Scheduling(seen, chosen, c, Kinds, E) /\ Releasing(seen, chosen, c)
      BY <1>1, <1>3, <2>1, <3>1, ScheduleSound
    <3> QED
      BY <2>1, <3>2 DEF Scheduling
  <2>2. CASE ~Idle(seen)
    <3>1. chosen = seen
      BY <2>2
    <3> HIDE DEF chosen
    <3> QED
      BY <1>1, <1>2, <1>3, <2>2, <3>1
  <2> QED
    BY <2>1, <2>2
<1> HIDE DEF chosen, t
<1>6. chosen \in Owner
  BY <1>5 DEF OwnerSound
<1>7. /\ OwnerSound(t, E)
      /\ \/ Idle(chosen) /\ t = chosen
         \/ ~Idle(chosen) /\ \E done \in Owner : Ends(chosen, done, chosen.job.kind) /\ Watched(done, t, c)
         \/ Driven(chosen, t) /\ JobSound(t) /\ JobLive(t) /\ ~Doomed(t, c)
  <2>1. CASE Idle(chosen)
    BY <1>4, <1>5, <2>1
  <2>2. CASE ~Idle(chosen) /\ Doomed(chosen, c)
    <3>1. t = TransportFailed(chosen) /\ k \in Kinds
      BY <1>4, <1>5, <2>2 DEF Doomed, JobSound
    <3>2. OwnerSound(t, E) /\ Ends(chosen, t, k)
      BY <1>5, <2>2, <3>1, TransportFailedSound
    <3>3. t \in Owner
      BY <3>2 DEF OwnerSound
    <3>4. Ends(chosen, t, chosen.job.kind) /\ Watched(t, t, c)
      BY <3>2, <3>3, WatchedSame
    <3> QED
      BY <2>2, <3>2, <3>3, <3>4
  <2>3. CASE ~Idle(chosen) /\ ~Doomed(chosen, c)
    <3>1. t = IF driven.job.status # "working" THEN Finish(driven, c, sv)
              ELSE IF IsControl(driven.job) THEN MarkControl(driven, sv) ELSE driven
      BY <1>4, <2>3 DEF Doomed
    <3> QED
      BY <1>5, <2>3, <3>1, DriveSound
  <2> QED
    BY <2>1, <2>2, <2>3
<1> QED
  BY <1>1, <1>2, <1>5, <1>6, <1>7 DEF Commanded, t

\* A job that has had its reply, and goes on
Fed(s, t) ==
  /\ t.operation = s.operation /\ t.link = s.link /\ t.lastOperation = s.lastOperation
  /\ t.releaseAttempted = s.releaseAttempted /\ t.journalReady = s.journalReady
  /\ t.phase = s.phase /\ t.pendingStart = s.pendingStart /\ t.pendingStop = s.pendingStop
  /\ ~Idle(s) /\ ~Idle(t) /\ t.job.kind = s.job.kind
  /\ t.job.request = "start" => s.job.request = "start" /\ t.job.at = s.job.at + 1
  /\ t.job.kind # "idle" => t.job.request = s.job.request /\ t.job.at = s.job.at + 1

\* A reply completes a step of the job, or ends it.
LEMMA FeedSound ==
  ASSUME NEW s, NEW E, OwnerSound(s, E), s.journalReady, JobSound(s), JobLive(s), ~Idle(s),
         NEW c, ~Doomed(s, c), c.proof \cap E = {}, NEW sv, NEW reply \in Replies
  PROVE  LET t == Feed(s, c, reply, sv)
         IN /\ OwnerSound(t, E)
            /\ \E seen \in Owner :
                 /\ Watched(s, seen, c)
                 /\ \/ Fed(seen, t) /\ JobSound(t) /\ JobLive(t)
                    \/ \E done \in Owner : Ends(seen, done, s.job.kind) /\ Watched(done, t, c)
<1> DEFINE seen == Observe(s, c, sv)
           e == DriverFeed(seen.job, reply, DriverGuards(seen, c), c.late)
           d == [seen EXCEPT !.job = e]
           t == Feed(s, c, reply, sv)
           k == s.job.kind
<1>1. t = Finish(d, c, sv)
  BY DEF Feed, Doomed
<1>2. s \in Owner /\ OwnerSound(seen, E) /\ Watched(s, seen, c)
  BY ObserveSound DEF OwnerSound
<1> HIDE DEF seen
<1>3. seen \in Owner /\ JobSound(seen) /\ JobLive(seen) /\ ~Idle(seen) /\ seen.job = s.job
  BY <1>2, WatchedJob DEF Watched
<1>4. seen.journalReady
  BY <1>2 DEF Watched
<1>5. /\ k \in Kinds /\ k \notin seen.pendingStart /\ seen.phase[k] \in PendingPhases
      /\ DriverJob(seen.job) /\ seen.job.status = "working"
  BY <1>3 DEF JobSound, JobLive
<1>6. /\ Drives(seen.job, e)
      /\ e.status = "working" /\ e.request = "start" => e.at = seen.job.at + 1
      /\ e.status = "working" /\ e.kind # "idle" => e.request = seen.job.request /\ e.at = seen.job.at + 1
  BY <1>5, DriverFeedDriven
<1> HIDE DEF e
<1>7. e \in Job /\ DriverJob(e) /\ e.kind = k /\ e.marked = seen.job.marked
  BY <1>3, <1>6 DEF Drives, DriverJob
<1>8. /\ OwnerSound(d, E) /\ d.job = e
      /\ d.phase = seen.phase /\ d.operation = seen.operation /\ d.link = seen.link
      /\ d.lastOperation = seen.lastOperation /\ d.pendingStart = seen.pendingStart
      /\ d.pendingStop = seen.pendingStop /\ d.releaseAttempted = seen.releaseAttempted
      /\ d.marker = seen.marker /\ d.stored = seen.stored
  BY <1>2, <1>4, <1>7, JobReplaced
<1>9. d.journalReady = seen.journalReady
  BY <1>3 DEF Owner
<1> HIDE DEF d, t
<1>10. /\ e.request = "start" => seen.job.request = "start"
       /\ e.request = "return" /\ k # "idle" => seen.job.request = "return"
  BY <1>6, <1>7 DEF Drives
<1>11. CASE e.status # "working"
  <2>1. /\ d.journalReady /\ DriverJob(d.job) /\ d.job.kind \in Kinds /\ d.job.kind \notin d.pendingStart
        /\ d.job.status # "working" /\ d.phase[d.job.kind] \in PendingPhases
    BY <1>4, <1>5, <1>7, <1>8, <1>9, <1>11
  <2>2. OwnerSound(t, E) /\ \E done \in Owner : Ends(d, done, d.job.kind) /\ Watched(done, t, c)
    BY <1>1, <1>8, <2>1, FinishSound
  <2>3. \A done \in Owner : Ends(d, done, d.job.kind) => Ends(seen, done, k)
    BY <1>7, <1>8, <1>9, <1>10 DEF Ends
  <2> QED
    BY <1>2, <1>3, <2>2, <2>3 DEF t
<1>12. CASE e.status = "working"
  <2>1. t = d /\ ~Idle(d)
    BY <1>1, <1>7, <1>8, <1>12 DEF Finish, Idle, NoJob
  <2>2. JobSound(d)
    BY <1>3, <1>4, <1>5, <1>7, <1>8, <1>9, <1>10, <1>12 DEF JobSound
  <2>3. JobLive(d)
    BY <1>3, <1>5, <1>7, <1>8, <1>10 DEF JobLive
  <2>4. Fed(seen, d)
    BY <1>3, <1>6, <1>7, <1>8, <1>9, <1>10, <1>12, <2>1 DEF Fed
  <2> QED
    BY <1>2, <1>3, <1>8, <2>1, <2>2, <2>3, <2>4 DEF t
<1> QED
  BY <1>11, <1>12

-----------------------------------------------------------------------------
\* Nonempty sets of numbers have a least element, and bounded ones a greatest.
LEMMA LeastOf ==
  ASSUME NEW T \in SUBSET Nat, T # {}
  PROVE  \E n \in T : \A m \in T : n <= m
<1> DEFINE R == {p \in Nat \X Nat : p[1] < p[2]}
<1>1. IsWellFoundedOn(R, Nat)
  BY NatLessThanWellFounded DEF OpToRel
<1>2. PICK n \in T : \A m \in T : <<m, n>> \notin R
  BY <1>1, WFMin
<1>3. \A m \in T : ~(m < n)
  <2> TAKE m \in T
  <2>1. <<m, n>> \in Nat \X Nat
    OBVIOUS
  <2>2. m < n => <<m, n>> \in R
    BY <2>1
  <2> QED
    BY <1>2, <2>2
<1> QED
  BY <1>3

\* Bounded sets of numbers have a greatest element.
LEMMA GreatestOf ==
  ASSUME NEW N \in Nat, NEW T \in SUBSET (0..N), T # {}
  PROVE  \E n \in T : \A m \in T : m <= n
<1> DEFINE U == {n \in Nat : n <= N /\ N - n \in T}
<1>1. U \in SUBSET Nat /\ U # {}
  <2>1. PICK m \in T : TRUE
    OBVIOUS
  <2>2. N - m \in Nat /\ N - m <= N /\ N - (N - m) = m
    BY <2>1
  <2>3. N - m \in U
    BY <2>1, <2>2
  <2> QED
    BY <2>3
<1>2. PICK l \in U : \A m \in U : l <= m
  BY <1>1, LeastOf
<1>3. \A m \in T : m <= N - l
  <2> TAKE m \in T
  <2>1. N - m \in Nat /\ N - m <= N /\ N - (N - m) = m
    OBVIOUS
  <2>2. N - m \in U
    BY <2>1
  <2>3. l <= N - m
    BY <1>2, <2>2
  <2> QED
    BY <2>3
<1> QED
  BY <1>2, <1>3

\* After a restart every control in the marker is uncertain; all are when the
\* marker could not be read.
LEMMA RecordedSound ==
  ASSUME NEW s, NEW E, s.stored \in Marker, MarkerSound(s, E), NEW ready \in BOOLEAN
  PROVE  LET t == Recorded(s.stored, ready)
         IN /\ OwnerSound(t, E) /\ Idle(t) /\ t.stored = s.stored /\ t.journalReady = ready
            /\ t.pendingStart = {} /\ t.pendingStop = {}
            /\ \A k \in Kinds : t.link[k] = 0 /\ t.phase[k] \notin LivePhases
<1> DEFINE t == Recorded(s.stored, ready)
           marker == IF ready THEN s.stored ELSE NoMarker
           uncertain == IF ready THEN marker.mask ELSE Kinds
           operations == {marker.operation[k] : k \in uncertain} \union {NoOperation}
           last == CHOOSE n \in operations : \A m \in operations : m <= n
           phase == [k \in Kinds |->
                   IF k \notin uncertain THEN "unavailable"
                   ELSE IF k = "abs" /\ marker.returned THEN "restart" ELSE "unknown"]
           operation == [k \in Kinds |-> IF k \in uncertain THEN marker.operation[k] ELSE NoOperation]
           expired == uncertain \intersect {"burnout"}
<1>1. marker \in Marker /\ uncertain \in SUBSET Kinds
  <2>1. NoMarker \in Marker
    BY BoundsAssumption DEF NoMarker, Marker, NoOperation
  <2> QED
    BY <2>1 DEF Marker
<1>2. operations \in SUBSET (0..MaxOperation) /\ operations # {}
  BY <1>1, BoundsAssumption DEF Marker, NoOperation
<1>3. last \in 0..MaxOperation /\ \A m \in operations : m <= last
  <2> HIDE DEF operations
  <2>1. \E n \in operations : \A m \in operations : m <= n
    BY <1>2, BoundsAssumption, GreatestOf
  <2> QED
    BY <1>2, <2>1
<1> HIDE DEF last
<1>4. phase \in [Kinds -> CommandPhases] /\ operation \in [Kinds -> 0..MaxOperation]
      /\ expired \in SUBSET (Kinds \union {"fallback"})
  BY <1>1, BoundsAssumption DEF Marker, CommandPhases, NoOperation
<1>5. /\ \A k \in Kinds : operation[k] <= last
      /\ \A k \in uncertain : operation[k] = marker.operation[k]
      /\ \A k \in Kinds : phase[k] \in {"unavailable", "unknown", "restart"}
      /\ \A k \in Kinds : phase[k] = "unavailable" <=> k \notin uncertain
      /\ \A k \in Kinds : phase[k] = "restart" => k = "abs" /\ ready
  <2>1. \A k \in Kinds : operation[k] \in operations
    OBVIOUS
  <2>2. ~ready => ~marker.returned
    BY DEF NoMarker
  <2> HIDE DEF operations
  <2> QED
    BY <1>1, <1>3, <2>1, <2>2
<1>6. /\ t.phase = phase /\ t.operation = operation /\ t.link = [k \in Kinds |-> 0]
      /\ t.lastOperation = last /\ t.pendingStart = {} /\ t.pendingStop = {}
      /\ t.job = NoJob /\ t.marker = marker /\ t.stored = s.stored
  BY DEF Recorded, last
<1>7. t.journalReady = ready
  BY DEF Recorded
<1>8. t = [phase |-> phase, operation |-> operation, link |-> [k \in Kinds |-> 0],
           lastOperation |-> last, pendingStart |-> {}, pendingStop |-> {}, releaseAttempted |-> FALSE,
           timedFallback |-> FALSE, recoveryVerifying |-> FALSE, expired |-> expired,
           job |-> NoJob, marker |-> marker, stored |-> s.stored, journalReady |-> ready]
  BY DEF Recorded, last
<1> HIDE DEF t, phase, operation, expired
<1>9. t \in Owner
  <2>1. [k \in Kinds |-> 0] \in [Kinds -> 0..MaxLink]
    BY BoundsAssumption
  <2> HIDE DEF marker
  <2> QED
    BY <1>1, <1>3, <1>4, <1>8, <2>1 DEF Owner
<1>10. ready => SlotsSound(t, E)
  <2> SUFFICES ASSUME ready PROVE SlotsSound(t, E)
    OBVIOUS
  <2>1. t.marker = s.stored /\ t.marker.mask = uncertain
    BY <1>6
  <2>2. \A k \in Kinds : t.phase[k] \in PendingPhases <=> k \in uncertain
    BY <1>5, <1>6 DEF PendingPhases, LivePhases
  <2> QED
    BY <1>1, <1>5, <1>6, <2>1, <2>2 DEF SlotsSound, MarkerSound
<1>11. ~ready => Frozen(t)
  BY <1>5, <1>6 DEF Frozen, Idle
<1>12. MarkerSound(t, E)
  BY <1>6 DEF MarkerSound
<1>13. OwnerSound(t, E)
  BY <1>5, <1>6, <1>7, <1>9, <1>10, <1>11, <1>12 DEF OwnerSound
<1> QED
  BY <1>5, <1>6, <1>7, <1>13 DEF Idle, LivePhases, t

-----------------------------------------------------------------------------
\* Once the Return of Burnout has been sent unasked, nothing can ask for another:
\* no Stop is pending, and what is uncertain is not stopped again.
Returned(s) ==
  "burnout" \in Kinds =>
    /\ "burnout" \notin s.pendingStop /\ s.phase["burnout"] \notin {"starting", "active"}
    /\ s.phase["burnout"] \in PendingPhases => s.releaseAttempted \/ s.link["burnout"] = 0
    /\ ~StartOf(s, "burnout")
    /\ ~Idle(s) /\ s.job.kind # "burnout" => s.phase["burnout"] \notin PendingPhases

\* The Return of Burnout has been noted as sent, and no other Stop of it is waiting.
Releases(s) ==
  ReturnOf(s, "burnout") => s.releaseAttempted /\ (JobLive(s) => "burnout" \notin s.pendingStop)

\* A change that asks for nothing
Calm(s, t) ==
  /\ t \in Owner /\ Advanced(s, t) /\ t.link = s.link
  /\ \A k \in t.pendingStart \ t.pendingStop : k \in s.pendingStart \ s.pendingStop
  /\ Returned(s) => Returned(t)

\* Two calm changes come to one.
LEMMA CalmTwice ==
  ASSUME NEW s \in Owner, NEW t, NEW u, Calm(s, t), Calm(t, u), \A k \in Kinds : s.operation[k] <= s.lastOperation
  PROVE  Calm(s, u)
BY AdvancedTwice DEF Calm

\* An observation is calm.
LEMMA WatchedCalm ==
  ASSUME NEW s \in Owner, NEW t, NEW c, Watched(s, t, c), c.connected => c.link # 0
  PROVE  Calm(s, t)
<1>1. t \in Owner /\ Advanced(s, t) /\ t.link = s.link
  BY WatchedAdvanced DEF Watched
<1>2. t.pendingStart \subseteq Kinds
  BY <1>1 DEF Owner
<1>3. \A k \in t.pendingStart \ t.pendingStop : k \in s.pendingStart \ s.pendingStop
  BY <1>2 DEF Watched
<1>4. ASSUME Returned(s), "burnout" \in Kinds
      PROVE  /\ "burnout" \notin t.pendingStop /\ t.phase["burnout"] \notin {"starting", "active"}
             /\ t.phase["burnout"] \in PendingPhases => t.releaseAttempted \/ t.link["burnout"] = 0
             /\ ~StartOf(t, "burnout")
             /\ ~Idle(t) /\ t.job.kind # "burnout" => t.phase["burnout"] \notin PendingPhases
  <2>1. t.job = s.job /\ t.releaseAttempted = s.releaseAttempted /\ t.link = s.link
    BY DEF Watched
  <2>2. t.phase["burnout"] \in PendingPhases => s.phase["burnout"] \in PendingPhases
    BY <1>4 DEF Watched
  <2>3. t.phase["burnout"] \notin {"starting", "active"}
    BY <1>4 DEF Watched, Returned, LivePhases
  <2>4. "burnout" \notin t.pendingStop
    BY <1>4, <2>1 DEF Watched, Returned, Scoped
  <2> QED
    BY <1>4, <2>1, <2>2, <2>3, <2>4 DEF Returned, StartOf, Idle
<1> QED
  BY <1>1, <1>3, <1>4 DEF Calm, Returned

\* So is the end of a job.
LEMMA EndsCalm ==
  ASSUME NEW s \in Owner, NEW t, ~Idle(s), Ends(s, t, s.job.kind)
  PROVE  Calm(s, t)
<1>1. t \in Owner /\ t.link = s.link /\ Idle(t)
  BY DEF Ends
<1>2. Advanced(s, t)
  BY SameAdvanced DEF Ends
<1>3. \A k \in t.pendingStart \ t.pendingStop : k \in s.pendingStart \ s.pendingStop
  BY DEF Ends
<1>4. ASSUME Returned(s), "burnout" \in Kinds
      PROVE  /\ "burnout" \notin t.pendingStop /\ t.phase["burnout"] \notin {"starting", "active"}
             /\ t.phase["burnout"] \in PendingPhases => t.releaseAttempted \/ t.link["burnout"] = 0
  BY <1>4 DEF Ends, Returned, StartOf
<1> QED
  BY <1>1, <1>2, <1>3, <1>4 DEF Calm, Returned, StartOf

\* A job that goes on: it is of the same kind, and not a new Start.
LEMMA JobCalm ==
  ASSUME NEW s \in Owner, NEW t \in Owner, ~Idle(s), ~Idle(t), t.job.kind = s.job.kind,
         t.job.request = "start" => s.job.request = "start",
         t.operation = s.operation, t.link = s.link, t.lastOperation = s.lastOperation,
         t.releaseAttempted = s.releaseAttempted, t.journalReady = s.journalReady,
         t.phase = s.phase, t.pendingStart = s.pendingStart, t.pendingStop = s.pendingStop
  PROVE  Calm(s, t)
<1>1. Advanced(s, t)
  BY BoundsAssumption DEF Advanced, StartOf, Owner
<1>2. Returned(s) => Returned(t)
  BY DEF Returned, StartOf
<1> QED
  BY <1>1, <1>2 DEF Calm

\* So is a job that has a command to send.
LEMMA DrivenCalm ==
  ASSUME NEW s \in Owner, NEW t \in Owner, Driven(s, t)
  PROVE  Calm(s, t)
<1>1. /\ ~Idle(s) /\ ~Idle(t) /\ t.job.kind = s.job.kind
      /\ t.job.request = "start" => s.job.request = "start"
  BY DEF Driven
<1>2. /\ t.operation = s.operation /\ t.link = s.link /\ t.lastOperation = s.lastOperation
      /\ t.releaseAttempted = s.releaseAttempted /\ t.journalReady = s.journalReady
      /\ t.phase = s.phase /\ t.pendingStart = s.pendingStart /\ t.pendingStop = s.pendingStop
  BY DEF Driven
<1> QED
  BY <1>1, <1>2, JobCalm, ZenonT(30)

\* So is a reply.
LEMMA FedCalm ==
  ASSUME NEW s \in Owner, NEW t \in Owner, Fed(s, t)
  PROVE  Calm(s, t)
<1>1. /\ ~Idle(s) /\ ~Idle(t) /\ t.job.kind = s.job.kind
      /\ t.job.request = "start" => s.job.request = "start"
  BY DEF Fed
<1>2. /\ t.operation = s.operation /\ t.link = s.link /\ t.lastOperation = s.lastOperation
      /\ t.releaseAttempted = s.releaseAttempted /\ t.journalReady = s.journalReady
      /\ t.phase = s.phase /\ t.pendingStart = s.pendingStart /\ t.pendingStop = s.pendingStop
  BY DEF Fed
<1> QED
  BY <1>1, <1>2, JobCalm, ZenonT(30)

\* The choice of a job asks for nothing either, but may bind a raised idle anew.
LEMMA SchedulingFacts ==
  ASSUME NEW s \in Owner, NEW t, NEW c, NEW E, Idle(s), s.journalReady, Scheduling(s, t, c, Kinds, E)
  PROVE  /\ t \in Owner /\ Advanced(s, t)
         /\ \A k \in Kinds : t.link[k] = s.link[k] \/ t.link[k] = c.link
         /\ \A k \in t.pendingStart \ t.pendingStop : k \in s.pendingStart \ s.pendingStop
<1>1. t \in Owner /\ t.pendingStart \subseteq Kinds
  BY DEF Scheduling, OwnerSound, Owner
<1>2. t.journalReady = s.journalReady
  BY <1>1 DEF Scheduling, Owner
<1>3. \A k \in Kinds : k \in t.pendingStart \/ StartOf(t, k) => k \in s.pendingStart
  BY DEF Scheduling
<1>4. t.operation = s.operation /\ t.lastOperation = s.lastOperation /\ s.lastOperation \in Nat
  BY BoundsAssumption DEF Scheduling, Owner
<1>5. Advanced(s, t)
  BY <1>2, <1>3, <1>4 DEF Advanced
<1> QED
  BY <1>1, <1>5 DEF Scheduling

\* What a command of the worker does to the owner
LEMMA CommandedFacts ==
  ASSUME NEW s, NEW t, NEW c, NEW E, OwnerSound(s, E), s.journalReady, JobSound(s), Commanded(s, t, c, E),
         OwnerSound(t, E), c.connected => c.link # 0
  PROVE  /\ t \in Owner /\ Advanced(s, t) /\ JobSound(t) /\ JobLive(t)
         /\ \A k \in Kinds : t.link[k] = s.link[k] \/ t.link[k] = c.link
         /\ \A k \in t.pendingStart \ t.pendingStop : k \in s.pendingStart \ s.pendingStop
         /\ ~Idle(t) => /\ ~Doomed(t, c) /\ (IsControl(t.job) => t.job.marked)
                        /\ t.job.request = "start" => ~t.job.cancel
         /\ \A k \in Kinds : StartOf(t, k) =>
              \/ t.job.at = 1 /\ k \in s.pendingStart \ s.pendingStop
              \/ StartOf(s, k) /\ ~s.job.cancel /\ t.job.at = s.job.at
<1>1. PICK seen \in Owner, chosen \in Owner :
        /\ Watched(s, seen, c) /\ OwnerSound(seen, E)
        /\ \/ ~Idle(seen) /\ chosen = seen
           \/ Idle(seen) /\ Scheduling(seen, chosen, c, Kinds, E) /\ Releasing(seen, chosen, c)
        /\ OwnerSound(chosen, E) /\ chosen.journalReady /\ JobSound(chosen) /\ (JobLive(chosen) \/ Doomed(chosen, c))
        /\ \/ Idle(chosen) /\ t = chosen
           \/ ~Idle(chosen) /\ \E done \in Owner : Ends(chosen, done, chosen.job.kind) /\ Watched(done, t, c)
           \/ Driven(chosen, t) /\ JobSound(t) /\ JobLive(t) /\ ~Doomed(t, c)
  BY DEF Commanded
<1>2. s \in Owner /\ t \in Owner /\ \A k \in Kinds : s.operation[k] <= s.lastOperation
  BY DEF OwnerSound
<1>3. \A k \in Kinds : seen.operation[k] <= seen.lastOperation
  BY <1>1 DEF OwnerSound
<1>4. \A k \in Kinds : chosen.operation[k] <= chosen.lastOperation
  BY <1>1 DEF OwnerSound
<1>5. Calm(s, seen)
  BY <1>1, <1>2, WatchedCalm
<1>6. seen.journalReady = s.journalReady /\ seen.job = s.job
  BY <1>1 DEF Watched
<1>7. /\ Advanced(s, chosen)
      /\ \A k \in Kinds : chosen.link[k] = s.link[k] \/ chosen.link[k] = c.link
      /\ \A k \in chosen.pendingStart \ chosen.pendingStop : k \in s.pendingStart \ s.pendingStop
  <2>1. CASE chosen = seen
    BY <1>5, <2>1 DEF Calm
  <2>2. CASE Idle(seen) /\ Scheduling(seen, chosen, c, Kinds, E)
    <3>1. /\ Advanced(seen, chosen)
          /\ \A k \in Kinds : chosen.link[k] = seen.link[k] \/ chosen.link[k] = c.link
          /\ \A k \in chosen.pendingStart \ chosen.pendingStop : k \in seen.pendingStart \ seen.pendingStop
      BY <1>6, <2>2, SchedulingFacts
    <3>2. Advanced(s, seen) /\ seen.link = s.link
      BY <1>5 DEF Calm
    <3>3. Advanced(s, chosen)
      BY <1>1, <1>2, <3>1, <3>2, AdvancedTwice
    <3> QED
      BY <1>5, <3>1, <3>2, <3>3 DEF Calm
  <2> QED
    BY <1>1, <2>1, <2>2
<1>8. \A k \in Kinds : StartOf(chosen, k) =>
        \/ chosen.job.at = 1 /\ k \in s.pendingStart \ s.pendingStop
        \/ StartOf(s, k) /\ chosen.job = s.job
  <2>1. CASE ~Idle(seen) /\ chosen = seen
    BY <1>6, <2>1 DEF StartOf, Idle
  <2>2. CASE Idle(seen) /\ Scheduling(seen, chosen, c, Kinds, E)
    <3>1. \A k \in Kinds : StartOf(chosen, k) => chosen.job.at = 1 /\ k \in seen.pendingStart \ seen.pendingStop
      BY <2>2 DEF Scheduling, StartOf
    <3>2. \A k \in Kinds : k \in seen.pendingStart \ seen.pendingStop => k \in s.pendingStart \ s.pendingStop
      BY <1>5 DEF Calm
    <3> QED
      BY <3>1, <3>2
  <2> QED
    BY <1>1, <2>1, <2>2
<1>9. CASE Idle(chosen) /\ t = chosen
  BY <1>2, <1>7, <1>9 DEF JobSound, JobLive, StartOf
<1>10. ASSUME ~Idle(chosen), NEW done \in Owner, Ends(chosen, done, chosen.job.kind), Watched(done, t, c)
       PROVE  /\ Calm(chosen, t) /\ Idle(t)
  <2>1. Calm(chosen, done)
    BY <1>10, EndsCalm
  <2>2. Calm(done, t)
    BY <1>10, WatchedCalm
  <2>3. Idle(t)
    BY <1>10 DEF Ends, Watched, Idle
  <2> QED
    BY <1>4, <2>1, <2>2, <2>3, CalmTwice
<1>11. CASE ~Idle(chosen) /\ \E done \in Owner : Ends(chosen, done, chosen.job.kind) /\ Watched(done, t, c)
  <2>1. Calm(chosen, t) /\ Idle(t)
    BY <1>10, <1>11
  <2>2. Advanced(s, t)
    BY <1>2, <1>7, <2>1, AdvancedTwice DEF Calm
  <2> QED
    BY <1>2, <1>7, <2>1, <2>2 DEF Calm, JobSound, JobLive, StartOf
<1>12. CASE Driven(chosen, t) /\ JobSound(t) /\ JobLive(t) /\ ~Doomed(t, c)
  <2>1. Calm(chosen, t)
    BY <1>2, <1>12, DrivenCalm
  <2>2. Advanced(s, t)
    BY <1>2, <1>7, <2>1, AdvancedTwice DEF Calm
  <2>3. ~Idle(t) => (IsControl(t.job) => t.job.marked) /\ (t.job.request = "start" => ~t.job.cancel)
    BY <1>12 DEF Driven
  <2>4. \A k \in Kinds : StartOf(t, k) => StartOf(chosen, k) /\ ~chosen.job.cancel /\ t.job.at = chosen.job.at
    BY <1>12 DEF Driven, StartOf
  <2>5. \A k \in Kinds : StartOf(t, k) =>
              \/ t.job.at = 1 /\ k \in s.pendingStart \ s.pendingStop
              \/ StartOf(s, k) /\ ~s.job.cancel /\ t.job.at = s.job.at
    BY <1>8, <2>4
  <2> QED
    BY <1>2, <1>7, <1>12, <2>1, <2>2, <2>3, <2>5 DEF Calm
<1> QED
  BY <1>1, <1>9, <1>11, <1>12

\* The choice of a job leaves nothing of Burnout to be stopped.
LEMMA SchedulingReturned ==
  ASSUME NEW s, NEW t, NEW c, NEW E, OwnerSound(s, E), s.journalReady, Idle(s), "burnout" \in Kinds,
         Scheduling(s, t, c, Kinds, E), Releasing(s, t, c),
         s.phase["burnout"] \notin {"starting", "active"},
         s.phase["burnout"] \in PendingPhases =>
           \/ s.releaseAttempted \/ s.link["burnout"] = 0
           \/ s.phase["burnout"] = "unknown" /\ "burnout" \in s.pendingStop /\ Scoped(s, c, "burnout")
  PROVE  Returned(t)
<1> DEFINE B == "burnout"
<1>1. B \notin s.pendingStart
  BY DEF OwnerSound, SlotsSound
<1>2. B \notin t.pendingStop /\ t.phase[B] \notin {"starting", "active"} /\ ~StartOf(t, B)
  BY <1>1 DEF Scheduling, Releasing, StartOf
<1>3. t.link[B] = s.link[B] /\ (s.releaseAttempted => t.releaseAttempted)
  BY DEF Scheduling
<1>4. t.phase[B] \in PendingPhases => t.releaseAttempted \/ t.link[B] = 0
  <2>1. CASE t.phase[B] = "unknown"
    <3>1. s.phase[B] = "unknown" /\ ~(B \in s.pendingStop /\ Scoped(s, c, B))
      BY <1>1, <2>1 DEF Releasing
    <3> QED
      BY <1>3, <3>1 DEF PendingPhases
  <2>2. CASE t.phase[B] = "stopping"
    <3>1. CASE s.phase[B] = "stopping"
      BY <1>3, <3>1 DEF PendingPhases, LivePhases
    <3>2. CASE ReturnOf(t, B)
      BY <3>2 DEF Scheduling
    <3> QED
      BY <2>2, <3>1, <3>2 DEF Scheduling
  <2>3. CASE t.phase[B] = "verifying"
    <3>1. s.phase[B] = "verifying"
      BY <2>3 DEF Scheduling
    <3> QED
      BY <1>3, <3>1 DEF PendingPhases, LivePhases
  <2>4. t.phase[B] # "restart"
    BY DEF Scheduling, OwnerSound
  <2> QED
    BY <1>2, <2>1, <2>2, <2>3, <2>4 DEF PendingPhases, LivePhases
<1>5. ~Idle(t) /\ t.job.kind # B => t.phase[B] \notin PendingPhases
  <2>1. SlotsSound(t, E) /\ (~Idle(t) => t.job.kind \in Kinds /\ t.phase[t.job.kind] \in PendingPhases)
    BY DEF Scheduling, OwnerSound, JobSound, JobLive
  <2> QED
    BY <2>1 DEF SlotsSound
<1> QED
  BY <1>2, <1>4, <1>5 DEF Returned

\* After its unasked Return nothing but a new Stop brings Burnout another.
LEMMA CommandedReturned ==
  ASSUME NEW b, NEW s, NEW t, NEW c, NEW E, "burnout" \in Kinds,
         OwnerSound(b, E), b.journalReady, Returned(b), Submits(b, s, c),
         "burnout" \notin s.pendingStart \ b.pendingStart,
         OwnerSound(s, E), s.journalReady, JobSound(s), JobLive(s) \/ Doomed(s, c),
         Commanded(s, t, c, E), OwnerSound(t, E), c.connected => c.link # 0
  PROVE  /\ Returned(t)
         /\ ReturnOf(t, "burnout") => ReturnOf(b, "burnout") \/ "burnout" \in s.pendingStop \ b.pendingStop
<1> DEFINE B == "burnout"
<1>1. PICK seen \in Owner, chosen \in Owner :
        /\ Watched(s, seen, c) /\ OwnerSound(seen, E)
        /\ \/ ~Idle(seen) /\ chosen = seen
           \/ Idle(seen) /\ Scheduling(seen, chosen, c, Kinds, E) /\ Releasing(seen, chosen, c)
        /\ OwnerSound(chosen, E) /\ chosen.journalReady /\ JobSound(chosen) /\ (JobLive(chosen) \/ Doomed(chosen, c))
        /\ \/ Idle(chosen) /\ t = chosen
           \/ ~Idle(chosen) /\ \E done \in Owner : Ends(chosen, done, chosen.job.kind) /\ Watched(done, t, c)
           \/ Driven(chosen, t) /\ JobSound(t) /\ JobLive(t) /\ ~Doomed(t, c)
  BY DEF Commanded
<1>2. s \in Owner /\ b \in Owner /\ t \in Owner /\ SlotsSound(b, E) /\ SlotsSound(s, E)
  BY DEF OwnerSound
<1>3. B \notin b.pendingStart /\ B \notin s.pendingStart
  BY <1>2 DEF SlotsSound, Returned
<1>4. s.phase[B] \in PendingPhases =>
        /\ s.phase[B] = b.phase[B] /\ (s.link[B] = b.link[B] \/ B \in s.pendingStop)
        /\ s.releaseAttempted = b.releaseAttempted
  BY <1>3 DEF Submits
<1>5. s.phase[B] \notin {"starting", "active"}
  BY <1>4 DEF Returned, PendingPhases, LivePhases
<1>6. /\ ~StartOf(s, B) /\ (ReturnOf(s, B) => ReturnOf(b, B))
      /\ ~Idle(s) /\ s.job.kind # B => s.phase[B] \notin PendingPhases
  BY <1>4 DEF Submits, JobKept, Returned, StartOf, ReturnOf
<1>7. B \notin s.pendingStop => Returned(s)
  BY <1>4, <1>5, <1>6 DEF Returned
<1>8. B \in s.pendingStop => s.phase[B] = "unknown" /\ Scoped(s, c, B) /\ Idle(s)
  <2> SUFFICES ASSUME B \in s.pendingStop PROVE s.phase[B] = "unknown" /\ Scoped(s, c, B) /\ Idle(s)
    OBVIOUS
  <2>1. B \notin b.pendingStop
    BY DEF Returned
  <2>2. s.link[B] = c.link /\ s.phase[B] = "unknown" /\ Qualified(c, B)
    BY <1>5, <2>1 DEF Submits, Stoppable
  <2>3. Scoped(s, c, B)
    BY <2>2 DEF Scoped, Qualified
  <2>4. ASSUME ~Idle(s) PROVE FALSE
    <3>1. s.job.kind = B /\ s.job.request = "return"
      BY <1>6, <2>2, <2>4 DEF JobSound, DriverJob, StartOf, PendingPhases
    <3>2. ~JobLive(s)
      BY <2>2, <2>4, <3>1 DEF JobLive
    <3> QED
      BY <2>2, <2>3, <3>1, <3>2 DEF Doomed
  <2> QED
    BY <2>2, <2>3, <2>4
<1>9. /\ seen.link = s.link /\ seen.job = s.job /\ seen.releaseAttempted = s.releaseAttempted
      /\ (Idle(seen) <=> Idle(s)) /\ Calm(s, seen)
  BY <1>1, <1>2, WatchedCalm DEF Watched, Idle
<1>10. seen.journalReady
  BY <1>1 DEF Watched
<1>11. Returned(chosen) /\ (ReturnOf(chosen, B) => ReturnOf(b, B) \/ B \in s.pendingStop \ b.pendingStop)
  <2>1. CASE ~Idle(seen) /\ chosen = seen
    <3>1. B \notin s.pendingStop
      BY <1>8, <1>9, <2>1
    <3> QED
      BY <1>6, <1>7, <1>9, <2>1, <3>1 DEF Calm, ReturnOf, Idle
  <2>2. CASE Idle(seen) /\ Scheduling(seen, chosen, c, Kinds, E) /\ Releasing(seen, chosen, c)
    <3>1. seen.phase[B] \notin {"starting", "active"}
      BY <1>1, <1>5 DEF Watched, LivePhases
    <3>2. seen.phase[B] \in PendingPhases =>
           \/ seen.releaseAttempted \/ seen.link[B] = 0
           \/ seen.phase[B] = "unknown" /\ B \in seen.pendingStop /\ Scoped(seen, c, B)
      <4>1. CASE B \notin s.pendingStop
        BY <1>7, <1>9, <4>1 DEF Calm, Returned
      <4>2. CASE B \in s.pendingStop
        <5>1. seen.phase[B] \in PendingPhases => seen.phase[B] = "unknown"
          BY <1>1, <1>8, <4>2 DEF Watched, PendingPhases, LivePhases
        <5>2. seen.phase[B] \in PendingPhases => B \in seen.pendingStop
          BY <1>1, <1>8, <4>2 DEF Watched, LivePhases
        <5>3. Scoped(seen, c, B)
          BY <1>8, <1>9, <4>2 DEF Scoped
        <5> QED
          BY <5>1, <5>2, <5>3
      <4> QED
        BY <4>1, <4>2
    <3>3. Returned(chosen)
      BY <1>1, <1>10, <2>2, <3>1, <3>2, SchedulingReturned
    <3>4. ReturnOf(chosen, B) => B \in seen.pendingStop
      BY <2>2 DEF Releasing
    <3>5. B \notin s.pendingStop => B \notin seen.pendingStop
      BY <1>7, <1>9 DEF Calm, Returned
    <3>6. B \notin b.pendingStop
      BY DEF Returned
    <3> QED
      BY <3>3, <3>4, <3>5, <3>6
  <2> QED
    BY <1>1, <2>1, <2>2
<1>12. CASE Idle(chosen) /\ t = chosen
  BY <1>11, <1>12
<1>13. ASSUME ~Idle(chosen), NEW done \in Owner, Ends(chosen, done, chosen.job.kind), Watched(done, t, c)
       PROVE  Returned(t) /\ Idle(t)
  <2>1. Calm(chosen, done)
    BY <1>13, EndsCalm
  <2>2. Calm(done, t)
    BY <1>13, WatchedCalm
  <2>3. Idle(t)
    BY <1>13 DEF Ends, Watched, Idle
  <2> QED
    BY <1>11, <2>1, <2>2, <2>3 DEF Calm
<1>14. CASE ~Idle(chosen) /\ \E done \in Owner : Ends(chosen, done, chosen.job.kind) /\ Watched(done, t, c)
  BY <1>13, <1>14 DEF ReturnOf
<1>15. CASE Driven(chosen, t) /\ JobSound(t) /\ JobLive(t) /\ ~Doomed(t, c)
  <2>1. Calm(chosen, t)
    BY <1>2, <1>15, DrivenCalm
  <2>2. ReturnOf(t, B) => ReturnOf(chosen, B)
    BY <1>15 DEF Driven, ReturnOf
  <2> QED
    BY <1>11, <2>1, <2>2 DEF Calm
<1> QED
  BY <1>1, <1>12, <1>14, <1>15

\* A Return of Burnout that has been begun is not asked for again.
LEMMA CommandedReleases ==
  ASSUME NEW b, NEW s, NEW t, NEW c, NEW E, OwnerSound(b, E), b.journalReady, Releases(b), Submits(b, s, c),
         OwnerSound(s, E), s.journalReady, JobSound(s), Commanded(s, t, c, E), OwnerSound(t, E)
  PROVE  Releases(t)
<1> DEFINE B == "burnout"
<1>1. PICK seen \in Owner, chosen \in Owner :
        /\ Watched(s, seen, c) /\ OwnerSound(seen, E)
        /\ \/ ~Idle(seen) /\ chosen = seen
           \/ Idle(seen) /\ Scheduling(seen, chosen, c, Kinds, E) /\ Releasing(seen, chosen, c)
        /\ OwnerSound(chosen, E) /\ chosen.journalReady /\ JobSound(chosen) /\ (JobLive(chosen) \/ Doomed(chosen, c))
        /\ \/ Idle(chosen) /\ t = chosen
           \/ ~Idle(chosen) /\ \E done \in Owner : Ends(chosen, done, chosen.job.kind) /\ Watched(done, t, c)
           \/ Driven(chosen, t) /\ JobSound(t) /\ JobLive(t) /\ ~Doomed(t, c)
  BY DEF Commanded
<1>2. SUFFICES ASSUME ReturnOf(t, B)
               PROVE  t.releaseAttempted /\ (JobLive(t) => B \notin t.pendingStop)
  BY DEF Releases
<1>3. ~Idle(t) /\ t.job.kind = B /\ t.job.request = "return"
  BY <1>2 DEF ReturnOf
<1>4. ASSUME ~Idle(chosen), NEW done \in Owner, Ends(chosen, done, chosen.job.kind), Watched(done, t, c)
      PROVE  FALSE
  BY <1>3, <1>4 DEF Ends, Watched, Idle
<1>5. CASE Idle(chosen) /\ t = chosen
  BY <1>3, <1>5
<1>6. CASE Driven(chosen, t) /\ JobSound(t) /\ JobLive(t)
  <2>1. /\ B \in Kinds /\ ~Idle(chosen) /\ chosen.job.kind = B /\ chosen.job.request = "return"
        /\ t.phase = chosen.phase /\ t.phase[B] = "stopping"
        /\ t.releaseAttempted = chosen.releaseAttempted /\ t.pendingStop = chosen.pendingStop
    BY <1>3, <1>6 DEF Driven, JobSound, JobLive
  <2>2. CASE chosen = seen
    <3>1. s.job = seen.job /\ ~Idle(s) /\ s.phase[B] = "stopping" /\ seen.releaseAttempted = s.releaseAttempted
      BY <1>1, <2>1, <2>2 DEF Watched, LivePhases, Idle
    <3>2. B \notin s.pendingStart
      BY <2>1, <3>1 DEF OwnerSound, SlotsSound
    <3>3. s.phase[B] = b.phase[B] /\ s.releaseAttempted = b.releaseAttempted
      BY <2>1, <3>1, <3>2 DEF Submits, PendingPhases, LivePhases
    <3>4. ~Idle(b) /\ b.job.kind = B /\ b.job.request = "return"
      BY <2>1, <2>2, <3>1 DEF Submits, JobKept
    <3>5. b.releaseAttempted /\ B \notin b.pendingStop
      BY <3>1, <3>3, <3>4 DEF Releases, ReturnOf, JobLive, PendingPhases, LivePhases
    <3>6. B \notin s.pendingStop
      BY <2>1, <3>1, <3>5 DEF Submits, Stoppable
    <3>7. B \notin seen.pendingStop
      BY <1>1, <2>1, <3>1, <3>3, <3>5, <3>6 DEF Watched
    <3> QED
      BY <2>1, <2>2, <3>1, <3>3, <3>5, <3>7
  <2>3. CASE Scheduling(seen, chosen, c, Kinds, E) /\ Releasing(seen, chosen, c)
    BY <2>1, <2>3 DEF Scheduling, Releasing, ReturnOf
  <2> QED
    BY <1>1, <2>2, <2>3
<1> QED
  BY <1>1, <1>4, <1>5, <1>6

====
