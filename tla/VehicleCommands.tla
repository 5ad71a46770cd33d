--------------------------- MODULE VehicleCommands ---------------------------
(***************************************************************************)
(* The command owner of src/vehicle_commands.c: three action slots, one    *)
(* driver job, and the durable marker of what may still be in force.  Its  *)
(* functions are operators from an owner state s to the next, so that the  *)
(* worker (VehicleWorker) can apply several of them in one step.           *)
(*                                                                         *)
(* A context c is what the worker observes of the vehicle and the link:    *)
(*   link       the link generation, with a request's boot and revision:   *)
(*              none of the three outlives the boot                        *)
(*   connected                                                             *)
(*   known      kinds the matched identity and build enable                *)
(*   inputs     per kind, "none", "run" or "start": which of the guards of *)
(*              a running and a starting brake control are met and fresh;  *)
(*              a raised idle has one guard                                *)
(*   coolant    "fresh" and below the limit, "stale", or "hot"             *)
(*   held       the button of Burnout is held                              *)
(*   proof      kinds whose release has been observed since the last change*)
(*   late, due  deadlines of a job or proof have passed; a report is due   *)
(* and sv is what comes of the call's marker writes: "ok", "error" with    *)
(* nothing written, or "torn", written but reported as an error.           *)
(* Reasons, history and event numbers are left out.                        *)
(***************************************************************************)
EXTENDS VehicleDriver

CONSTANTS Kinds,          \* the kinds the build enables
          MaxOperation,   \* bound on operation numbers
          MaxLink         \* bound on link generations

ASSUME KindsAssumption == Kinds \subseteq AllKinds
ASSUME BoundsAssumption == MaxOperation \in Nat /\ MaxLink \in Nat

NoJob == [status |-> "none"]
NoOperation == 0

CommandPhases == {"unavailable", "ready", "starting", "active", "stopping", "verifying",
                  "restored", "restart", "rejected", "unknown"}
LivePhases    == {"starting", "active", "stopping", "verifying"}
PendingPhases == LivePhases \union {"unknown", "restart"}

Marker   == [mask : SUBSET Kinds, operation : [Kinds -> 0..MaxOperation], returned : BOOLEAN]
NoMarker == [mask |-> {}, operation |-> [k \in Kinds |-> NoOperation], returned |-> FALSE]

\* vehicle_commands_t, and the marker as NVS holds it
Owner == [phase : [Kinds -> CommandPhases], operation : [Kinds -> 0..MaxOperation],
          link : [Kinds -> 0..MaxLink], lastOperation : 0..MaxOperation,
          pendingStart : SUBSET Kinds, pendingStop : SUBSET Kinds,
          releaseAttempted : BOOLEAN, timedFallback : BOOLEAN, recoveryVerifying : BOOLEAN,
          expired : SUBSET (Kinds \union {"fallback"}), job : Job \union {NoJob},
          marker : Marker, stored : Marker, journalReady : BOOLEAN]

-----------------------------------------------------------------------------
\* vehicle_commands_init, after the marker has been read or could not be.
Recorded(stored, ready) ==
  LET marker == IF ready THEN stored ELSE NoMarker
      uncertain == IF ready THEN marker.mask ELSE Kinds
      operations == {marker.operation[k] : k \in uncertain} \union {NoOperation}
  IN [phase |-> [k \in Kinds |->
                   IF k \notin uncertain THEN "unavailable"
                   ELSE IF k = "abs" /\ marker.returned THEN "restart" ELSE "unknown"],
      operation |-> [k \in Kinds |-> IF k \in uncertain THEN marker.operation[k] ELSE NoOperation],
      link |-> [k \in Kinds |-> 0],
      lastOperation |-> CHOOSE n \in operations : \A m \in operations : m <= n,
      pendingStart |-> {}, pendingStop |-> {}, releaseAttempted |-> FALSE,
      timedFallback |-> FALSE, recoveryVerifying |-> FALSE,
      expired |-> uncertain \intersect {"burnout"},
      job |-> NoJob, marker |-> marker, stored |-> stored, journalReady |-> ready]

To(s, k, phase) == [s EXCEPT !.phase[k] = phase]
Idle(s)         == s.job = NoJob

\* qualified, scoped
Qualified(c, k) == c.connected /\ k \in c.known
Scoped(s, c, k) == c.connected /\ c.link = s.link[k]

\* command_inputs, guarded, remaining_ms
Inputs(c, k, start) ==
  IF start /\ k # "idle" THEN c.inputs[k] = "start" ELSE c.inputs[k] # "none"
FallbackOver(s)     == s.timedFallback /\ "fallback" \in s.expired
Over(s, k)          == k \in s.expired \/ (k = "idle" /\ FallbackOver(s))
Guarded(s, c, k) ==
  /\ Inputs(c, k, s.phase[k] # "active")
  /\ k = "burnout" => c.held
  /\ k = "idle" => /\ c.coolant # "hot" /\ ~FallbackOver(s)
                   /\ c.coolant = "fresh" \/ s.timedFallback

\* driver_context
DriverGuards(s, c) ==
  IF s.job.request = "recover" THEN Inputs(c, "idle", FALSE) ELSE Guarded(s, c, s.job.kind)

\* save_marker
Saves(s, sv) == s.journalReady /\ sv = "ok"
Save(s, marker, sv) ==
  [s EXCEPT !.stored = IF s.journalReady /\ sv # "error" THEN marker ELSE @,
            !.marker = IF Saves(s, sv) THEN marker ELSE @]
Cleared(s, k) == [s.marker EXCEPT !.mask = @ \ {k}, !.returned = @ /\ k # "abs"]

\* Mutant: the marker is not looked at.
UncertainRejected(s, k) == To(s, k, "rejected")

\* Where a control ends that may have left the gauge, or never did
Uncertain(s, k) == To(s, k, IF k \in s.marker.mask THEN "unknown" ELSE "rejected")
Withdrawn(s, k) == [s EXCEPT !.pendingStart = @ \ {k}, !.pendingStop = @ \ {k}]

-----------------------------------------------------------------------------
\* vehicle_commands_observe, part by part for one kind
Reconcile(s, c, k, sv) ==
  IF /\ Idle(s) /\ k \in s.marker.mask
     /\ Qualified(c, k) /\ k \in c.proof /\ (s.recoveryVerifying => Scoped(s, c, k))
     /\ \/ s.phase[k] \in {"verifying", "unknown"}
        \/ k = "abs" /\ s.phase[k] \in {"active", "restart"}
  THEN LET saved == Save(s, Cleared(s, k), sv)
       IN IF Saves(s, sv) THEN To(Withdrawn(saved, k), k, "restored") ELSE To(saved, k, "unknown")
  ELSE s

LatchFallback(s, c, k) ==
  IF /\ k = "idle" /\ s.phase[k] \in {"starting", "active"}
     /\ Qualified(c, k) /\ Scoped(s, c, k) /\ c.coolant = "stale" /\ ~s.timedFallback
  THEN [s EXCEPT !.timedFallback = TRUE, !.expired = @ \ {"fallback"}]
  ELSE s

\* Mutant: a failed Return is tried again.
LatchReleaseAgain(s, c, k) ==
  IF /\ k = "burnout" /\ k \in s.marker.mask
     /\ s.phase[k] \in {"unknown", "starting"} /\ Qualified(c, k) /\ Scoped(s, c, k)
     /\ ~Guarded(s, c, k) \/ Over(s, k)
  THEN [s EXCEPT !.pendingStop = @ \union {k}]
  ELSE s

LatchRelease(s, c, k) ==
  IF /\ k = "burnout" /\ k \in s.marker.mask /\ ~s.releaseAttempted
     /\ s.phase[k] \in {"unknown", "starting"} /\ Qualified(c, k) /\ Scoped(s, c, k)
     /\ ~Guarded(s, c, k) \/ Over(s, k)
  THEN [s EXCEPT !.pendingStop = @ \union {k}]
  ELSE s

Appear(s, c, k) ==
  IF s.phase[k] = "unavailable" /\ Qualified(c, k) THEN To(s, k, "ready") ELSE s

\* Mutant: only a guard ends an active control, not its time.
CheckLiveUntimed(s, c, k) ==
  IF s.phase[k] \notin LivePhases THEN s
  ELSE IF ~Scoped(s, c, k) \/ ~Qualified(c, k) THEN Uncertain(Withdrawn(s, k), k)
  ELSE IF s.phase[k] = "active" /\ ~Guarded(s, c, k)
       THEN [s EXCEPT !.pendingStop = @ \union {k}] ELSE s

CheckLive(s, c, k) ==
  IF s.phase[k] \notin LivePhases THEN s
  ELSE IF ~Scoped(s, c, k) \/ ~Qualified(c, k) THEN Uncertain(Withdrawn(s, k), k)
  ELSE IF s.phase[k] = "active"
       THEN IF ~Guarded(s, c, k) \/ (k # "abs" /\ Over(s, k))
            THEN [s EXCEPT !.pendingStop = @ \union {k}] ELSE s
  ELSE IF /\ k # "abs" /\ s.phase[k] = "starting" /\ ~Guarded(s, c, k)
          /\ k \in s.pendingStart /\ (Idle(s) \/ s.job.kind # k)
       THEN To([s EXCEPT !.pendingStart = @ \ {k}], k, "rejected")
  ELSE s

ObserveKind(s, c, k, sv) ==
  IF k \notin Kinds THEN s
  ELSE IF k = "idle" /\ s.phase[k] = "verifying" /\ s.recoveryVerifying /\ c.late
       THEN To([s EXCEPT !.recoveryVerifying = FALSE], k, "unknown")
  ELSE IF ~s.journalReady THEN s
  ELSE CheckLive(Appear(LatchRelease(LatchFallback(Reconcile(s, c, k, sv), c, k), c, k), c, k), c, k)

Observe(s, c, sv) ==
  ObserveKind(ObserveKind(ObserveKind(s, c, "idle", sv), c, "abs", sv), c, "burnout", sv)

-----------------------------------------------------------------------------
\* vehicle_commands_submit.  A Start and the owner's confirmation come from the
\* gauge's own controls: the runtime's submit lets no other through.
Submission == [verb : {"start", "stop", "confirm"}, kind : Kinds, operation : 1..MaxOperation,
               link : 1..MaxLink]

Confirmable(s, r, c) ==
  LET k == r.kind
  IN /\ k # "idle" /\ Qualified(c, k) /\ Inputs(c, k, TRUE)
     /\ Idle(s) /\ k \notin s.pendingStart \union s.pendingStop
     /\ r.operation = s.operation[k] /\ k \in s.marker.mask
     /\ \/ s.phase[k] \in {"verifying", "restart"}
        \/ s.phase[k] = "unknown" /\ k = "burnout" /\ s.releaseAttempted

SubmitConfirm(s, r, c, sv) ==
  LET saved == Save(s, Cleared(s, r.kind), sv)
  IN IF ~Confirmable(s, r, c) THEN s
     ELSE IF ~Saves(s, sv) THEN saved
     ELSE To([Withdrawn(saved, r.kind) EXCEPT !.link[r.kind] = c.link], r.kind, "restored")

\* A Stop may rebind a brake control's uncertainty to a new link or boot.
SubmitStop(s, r, c) ==
  LET k == r.kind
      addressed == r.operation = s.operation[k]
      unknown   == k # "idle" /\ s.phase[k] = "unknown" /\ Qualified(c, k)
      bound     == IF unknown /\ addressed THEN [s EXCEPT !.link[k] = c.link] ELSE s
      accepted  == /\ addressed /\ Scoped(bound, c, k) /\ k \notin s.pendingStop
                   /\ s.phase[k] \in {"starting", "active"} \/ unknown
  IN IF ~accepted THEN bound
     ELSE [bound EXCEPT !.pendingStop = @ \union {k},
                        !.job = IF ~Idle(s) /\ s.job.kind = k THEN Cancel(@) ELSE @]

\* Mutant: an uncertain or half-returned control does not count.
StartableLive(s, r) ==
  LET k == r.kind
      others == IF k = "burnout" THEN Kinds \ {k} ELSE (Kinds \intersect {"burnout"}) \ {k}
  IN /\ r.operation > s.lastOperation
     /\ k \notin s.pendingStart \union s.pendingStop
     /\ s.phase[k] \notin PendingPhases
     /\ \A o \in others : s.phase[o] \notin LivePhases

\* Burnout overlaps no other control, and none overlaps Burnout.
Startable(s, r) ==
  LET k == r.kind
      others == IF k = "burnout" THEN Kinds \ {k} ELSE (Kinds \intersect {"burnout"}) \ {k}
  IN /\ r.operation > s.lastOperation
     /\ k \notin s.pendingStart \union s.pendingStop
     /\ s.phase[k] \notin PendingPhases
     /\ \A o \in others : s.phase[o] \notin PendingPhases

Admitted(s, r, c) ==
  LET k == r.kind
  IN /\ Qualified(c, k) /\ s.journalReady
     /\ k = "burnout" => Guarded(s, c, k)
     /\ Inputs(c, k, TRUE)
     /\ k = "idle" => c.coolant # "hot"

SubmitStart(s, r, c) ==
  LET k    == r.kind
      next == [s EXCEPT !.lastOperation = r.operation, !.recoveryVerifying = @ /\ k # "idle",
                        !.releaseAttempted = @ /\ k # "burnout",
                        !.operation[k] = r.operation, !.link[k] = r.link]
      aged == IF k # "idle" THEN next
              ELSE [next EXCEPT !.timedFallback = c.coolant # "fresh", !.expired = @ \ {"fallback"}]
  IN IF ~Startable(s, r) THEN s
     ELSE IF ~Admitted(next, r, c) THEN To(next, k, "rejected")
     ELSE To([aged EXCEPT !.pendingStart = @ \union {k}], k, "starting")

Submit(s, r, c, sv) ==
  IF r.link # c.link \/ ~c.connected THEN s
  ELSE CASE r.verb = "confirm" -> SubmitConfirm(s, r, c, sv)
         [] r.verb = "stop"    -> SubmitStop(s, r, c)
         [] r.verb = "start"   -> SubmitStart(s, r, c)

-----------------------------------------------------------------------------
\* vehicle_commands_transport_failed
TransportFailed(s) ==
  IF Idle(s) THEN s
  ELSE LET k == s.job.kind
           release == k = "burnout" /\ k \in s.pendingStop /\ ~s.releaseAttempted
       IN [Uncertain(s, k) EXCEPT !.pendingStart = @ \ {k}, !.job = NoJob,
                                  !.pendingStop = IF release THEN @ ELSE @ \ {k}]

\* finish, of a job that has ended
FinishIdle(s) ==
  LET d == s.job
  IN CASE d.status = "confirmed" /\ d.request = "start" ->
            To([s EXCEPT !.expired = @ \ {"idle"}], "idle", "active")
       [] d.status = "confirmed" /\ d.request # "start" /\ d.seen = "active" -> s
       [] d.status = "confirmed" /\ d.request # "start" /\ d.seen = "inactive" ->
            To([s EXCEPT !.recoveryVerifying = d.request = "recover"], "idle", "verifying")
       [] d.status = "cancelled" /\ "idle" \notin s.marker.mask -> To(s, "idle", "restored")
       [] OTHER -> To(s, "idle", IF d.possible \/ d.uncertain \/ "idle" \in s.marker.mask
                                 THEN "unknown" ELSE "rejected")

FinishBrake(s, k, sv) ==
  LET receipt == Save(s, [s.marker EXCEPT !.returned = TRUE], sv)
  IN IF s.job.status = "confirmed"
     THEN IF s.job.request = "start" THEN To(s, k, "active")
          ELSE IF k = "burnout" THEN To(s, k, "verifying")
          ELSE To(receipt, k, IF Saves(s, sv) THEN "restart" ELSE "unknown")
     ELSE IF s.job.status = "cancelled" /\ k \notin s.marker.mask THEN To(s, k, "restored")
     ELSE Uncertain(s, k)

Finish(s, c, sv) ==
  LET d == s.job
      done == [(IF d.kind = "idle" THEN FinishIdle(s) ELSE FinishBrake(s, d.kind, sv))
                 EXCEPT !.job = NoJob]
      receiptLost == /\ d.kind = "abs" /\ d.request = "return"
                     /\ d.status = "confirmed" /\ ~Saves(s, sv)
  IN IF d.status = "working" THEN s
     ELSE IF receiptLost THEN done ELSE Observe(done, c, sv)

\* begin_job
Begin(s, c, k, request) ==
  IF ~Scoped(s, c, k) \/ (request = "start" /\ ~Guarded(s, c, k))
  THEN To(s, k, "unknown")
  ELSE LET begun == [s EXCEPT !.job = NewJob(k, request)]
       IN IF request # "return" THEN begun
          ELSE To([begun EXCEPT !.releaseAttempted = @ \/ k = "burnout"], k, "stopping")

\* The choice of vehicle_commands_next: Stops first, Burnout's before the
\* others, then Starts, then the recovery and the report of a raised idle.
NextStop(s, c, k) ==
  IF k \notin Kinds \/ ~Idle(s) \/ k \notin s.pendingStop THEN s
  ELSE LET taken == [s EXCEPT !.pendingStop = @ \ {k}]
       IN IF k \in s.pendingStart
          THEN To([taken EXCEPT !.pendingStart = @ \ {k}], k, "restored")
          ELSE IF s.phase[k] = "active" \/ (k # "idle" /\ s.phase[k] = "unknown")
          THEN Begin(taken, c, k, "return") ELSE taken

NextStart(s, c, k) ==
  IF k \notin Kinds \/ ~Idle(s) \/ k \notin s.pendingStart \/ s.phase[k] # "starting" THEN s
  ELSE Begin([s EXCEPT !.pendingStart = @ \ {k}], c, k, "start")

NextReport(s, c) ==
  IF "idle" \notin Kinds \/ ~Idle(s) \/ ~c.due THEN s
  ELSE IF s.phase["idle"] = "active" THEN Begin(s, c, "idle", "report")
  ELSE IF /\ s.phase["idle"] = "unknown" /\ s.journalReady /\ "idle" \in s.marker.mask
          /\ Qualified(c, "idle") /\ Inputs(c, "idle", TRUE)
  THEN Begin([s EXCEPT !.link["idle"] = c.link], c, "idle", "recover")
  ELSE s

Schedule(s, c) ==
  LET stopped == NextStop(NextStop(NextStop(s, c, "burnout"), c, "idle"), c, "abs")
      started == NextStart(NextStart(NextStart(stopped, c, "idle"), c, "abs"), c, "burnout")
  IN NextReport(started, c)

\* vehicle_commands_next, from the choice on: the marker is written before a
\* control can leave.  A job is left exactly when it has a command to send.
ReleaseRecorded(s) ==
  LET d == s.job
  IN /\ d.kind = "burnout" /\ d.request = "return" /\ "burnout" \in s.marker.mask
     /\ s.marker.operation["burnout"] = s.operation["burnout"]

\* Mutant: the control goes out although its marker could not be written.
MarkControlUnsaved(s, sv) ==
  LET k == s.job.kind
      marker == [s.marker EXCEPT !.mask = @ \union {k}, !.operation[k] = s.operation[k]]
  IN IF s.job.marked THEN s ELSE [Save(s, marker, sv) EXCEPT !.job.marked = TRUE]

MarkControl(s, sv) ==
  LET k == s.job.kind
      marker == [s.marker EXCEPT !.mask = @ \union {k}, !.operation[k] = s.operation[k]]
      saved == Save(s, marker, sv)
      timed == k = "burnout" /\ s.job.request = "start"
  IN IF s.job.marked THEN s
     ELSE IF ReleaseRecorded(s) THEN [s EXCEPT !.job.marked = TRUE]
     ELSE IF ~Saves(s, sv) THEN [Uncertain(saved, k) EXCEPT !.job = NoJob]
     ELSE [saved EXCEPT !.job.marked = TRUE, !.expired = IF timed THEN @ \ {k} ELSE @]

NextCommand(s, c, sv) ==
  LET seen   == Observe(s, c, sv)
      chosen == IF Idle(seen) THEN Schedule(seen, c) ELSE seen
      driven == [chosen EXCEPT !.job = DriverNext(@, DriverGuards(chosen, c), c.late)]
  IN IF Idle(chosen) THEN chosen
     ELSE IF ~Qualified(c, chosen.job.kind) \/ ~Scoped(chosen, c, chosen.job.kind)
     THEN TransportFailed(chosen)
     ELSE IF driven.job.status # "working" THEN Finish(driven, c, sv)
     ELSE IF IsControl(driven.job) THEN MarkControl(driven, sv)
     ELSE driven

\* vehicle_commands_feed
Feed(s, c, reply, sv) ==
  IF ~Qualified(c, s.job.kind) \/ ~Scoped(s, c, s.job.kind) THEN TransportFailed(s)
  ELSE LET seen == Observe(s, c, sv)
       IN Finish([seen EXCEPT !.job = DriverFeed(@, reply, DriverGuards(seen, c), c.late)], c, sv)

\* vehicle_commands_maintenance_allowed
MaintenanceAllowed(phase, operation, configuration) ==
  \A k \in Kinds :
    /\ phase[k] \notin LivePhases
    /\ ~(k = "burnout" /\ phase[k] = "unknown" /\ operation[k] # NoOperation)
    /\ ~(configuration /\ phase[k] \in {"unknown", "restart"})
=============================================================================
