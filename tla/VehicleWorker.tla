---------------------------- MODULE VehicleWorker ----------------------------
(***************************************************************************)
(* The primary adapter's worker of src/vehicle_commands_runtime.c, which   *)
(* alone runs the command owner, with the tasks it shares state with: the  *)
(* gauge's display and the phone, which queue requests after looking at    *)
(* the gate and at a cached status; the configuration, firmware and Wi-Fi  *)
(* services, which claim the same gate; the link, the button, the vehicle, *)
(* and a power supply that may fail at any step.                           *)
(*                                                                         *)
(* One call of the worker is four steps, split where it waits for the      *)
(* adapter and other tasks run: Look, Choose, Send, Receive.  The vehicle  *)
(* is what the code cannot see: the controls really in force.              *)
(***************************************************************************)
EXTENDS VehicleCommands

CONSTANTS Users,       \* the maintenance services: subset of {"config", "ota", "wifi", "clear"}
          QueueLength, \* capacity of the request queue, 4 in the code
          MaxBoots,    \* bound on power failures
          Faults       \* subset of {"power", "nvs", "journal", "link", "restore"}

ASSUME WorkerAssumption ==
  /\ Users \subseteq {"config", "ota", "wifi", "clear"}
  /\ QueueLength \in Nat /\ MaxBoots \in Nat

VARIABLES
  owner,    \* commands, with the marker in NVS
  step,     \* where the worker is in its call: "out", "looked", "send", "receive"
  context,  \* what is left of the call's context
  taken,    \* the requests drained from the queue by this call
  queue,    \* requests
  cache,    \* cached_status
  gate,     \* transfer_gate.c: operation
  user,     \* how far each maintenance service has got
  racing,   \* a caller found the gate open just before a service claimed it
  link,     \* [generation, up]
  engaged,  \* controls that may be in force in the vehicle
  boots,    \* power failures so far
  owed,     \* history: Starts accepted and not yet sent, stopped or given up
  asked,    \* history: a requested Stop of Burnout whose Return is not yet sent
  returns   \* history: Returns of the Burnout operation sent without being asked for

callVars    == <<owner, step, context, taken>>
sharedVars  == <<queue, cache, gate>>
serviceVars == <<user, racing>>
worldVars   == <<link, engaged, boots>>
historyVars == <<owed, asked, returns>>
commandVars == <<callVars, sharedVars, serviceVars, worldVars, historyVars>>

NoContext == [link |-> 0, connected |-> FALSE, known |-> {}]
NoLink    == [generation |-> 0, up |-> FALSE]

-----------------------------------------------------------------------------
\* What the worker can observe.  Identity and guards of the two brake controls
\* come from the same readings; only a raised idle is ever proved released,
\* while it is being verified.  parked_context, coolant_context, burnout_context,
\* jeep_idle_parked_test_context, jeep_brake_owner_test_context
Brakes == Kinds \ {"idle"}
Known  == {K \in SUBSET Kinds : Brakes \subseteq K \/ Brakes \intersect K = {}}
Writes == IF "nvs" \in Faults THEN {"ok", "error", "torn"} ELSE {"ok"}
\* An observation writes only to clear a proved control; a call also for the
\* owner's confirmation, before a control and after the Return of "abs".
WritesOf(c, more) == IF c.proof # {} \/ more THEN Writes ELSE {"ok"}
Confirmations == {i \in DOMAIN taken : taken[i].verb = "confirm"}

Readings(s, K) ==
  [idle    : IF "idle" \in K THEN {"none", "run"} ELSE {"none"},
   brakes  : IF K \intersect Brakes # {} THEN {"none", "run", "start"} ELSE {"none"},
   coolant : IF "idle" \in K THEN {"fresh", "stale", "hot"} ELSE {"stale"},
   held    : IF "burnout" \in K THEN BOOLEAN ELSE {FALSE},
   proof   : IF "idle" \in K /\ s.phase["idle"] = "verifying" /\ "idle" \notin engaged
             THEN {{}, {"idle"}} ELSE {{}},
   late    : IF Idle(s) /\ ~s.recoveryVerifying THEN {FALSE} ELSE BOOLEAN,
   due     : IF Idle(s) /\ "idle" \in K /\ s.phase["idle"] \in {"active", "unknown"}
             THEN BOOLEAN ELSE {FALSE}]

Seen(generation, up, K, r) ==
  [link |-> generation, connected |-> up, known |-> K,
   inputs |-> [k \in Kinds |-> IF k = "idle" THEN r.idle ELSE r.brakes],
   coolant |-> r.coolant, held |-> r.held, proof |-> r.proof, late |-> r.late, due |-> r.due]

Contexts(s, generation, up, identities) ==
  UNION {{Seen(generation, up, K, r) : r \in Readings(s, K)} : K \in IF up THEN identities ELSE {{}}}

\* What is kept of a context over a wait, and what it can be after it
Kept(c) == [c EXCEPT !.held = FALSE, !.late = FALSE, !.due = FALSE, !.proof = {}]
Aged(c) ==
  {[c EXCEPT !.held = r.held, !.late = r.late, !.inputs = r.inputs] :
     r \in [held : IF "burnout" \in c.known THEN BOOLEAN ELSE {FALSE},
            late : BOOLEAN, inputs : {c.inputs, [k \in Kinds |-> "none"]}]}

\* publish, with what vehicle_commands_status tells of the three slots
Status(s, c) ==
  [phase |-> s.phase, operation |-> s.operation, lastOperation |-> s.lastOperation,
   link |-> c.link, enabled |-> {k \in Kinds : s.journalReady /\ Qualified(c, k)}]

-----------------------------------------------------------------------------
\* The worker.  A call ends with ble_obd_control_restore when a job has ended,
\* publish, and the gate, which is kept while a job or a control is live.
EndCall(s, c, jobbed) ==
  \E restored \in IF jobbed /\ Idle(s) /\ "restore" \in Faults THEN BOOLEAN ELSE {TRUE} :
    LET left == [c EXCEPT !.connected = @ /\ restored]
        last == IF restored THEN s ELSE Observe(s, left, "ok")
    IN /\ owner' = last /\ cache' = Status(last, left)
       /\ gate' = IF Idle(last) /\ MaintenanceAllowed(last.phase, last.operation, FALSE)
                  THEN "none" ELSE gate
       /\ step' = "out" /\ context' = NoContext /\ taken' = <<>>

\* Claim, drain, observe, before the readings of this call.  The adapter counts
\* as lost also while Bluetooth is paused or its role is not verified (main.c).
Look ==
  /\ step = "out" /\ gate \in {"none", "vehicle"}
  /\ gate' = "vehicle" /\ taken' = queue /\ queue' = <<>> /\ step' = "looked"
  /\ \E up \in {link.up, link.up /\ "link" \notin Faults} :
     \E c \in Contexts(owner, link.generation, up, Known) : \E sv \in WritesOf(c, FALSE) :
       /\ owner' = Observe(owner, c, sv)
       /\ context' = [link |-> c.link, connected |-> c.connected, known |-> c.known]
  /\ UNCHANGED <<cache, serviceVars, worldVars, historyVars>>

SubmitAll(s, c, sv) ==
  LET after[n \in 0..Len(taken)] == IF n = 0 THEN s ELSE Submit(after[n - 1], taken[n], c, sv)
  IN after[Len(taken)]

\* What the requests change in the history: a new Start is owed until it is
\* stopped or given up, a Stop of Burnout asks for its Return.
Answered(before, submitted, next) ==
  LET started == submitted.pendingStart \ before.pendingStart
      stopped == submitted.pendingStop \ before.pendingStop
  IN /\ owed' = ((owed \union started) \ stopped) \intersect {k \in Kinds : next.phase[k] = "starting"}
     /\ asked' = ((asked \/ "burnout" \in stopped) /\ ("burnout" \in next.pendingStop \/ ~Idle(next)))
     /\ returns' = IF "burnout" \in started THEN 0 ELSE returns

\* With the new readings: the requests in their order, and the next command if
\* there is one.  No identity is matched anew while a job has the adapter.
Choose ==
  /\ step = "looked"
  /\ \E up \in {context.connected, context.connected /\ link.up} :
     \E c \in Contexts(owner, context.link, up, IF Idle(owner) THEN Known ELSE {context.known, {}}) :
     \E sv \in WritesOf(c, Confirmations # {} \/ (~Idle(owner) /\ IsControl(owner.job))) :
       LET before    == Observe(owner, c, sv)
           submitted == SubmitAll(before, c, sv)
           next      == NextCommand(submitted, c, sv)
       IN /\ IF Idle(next) THEN EndCall(next, c, ~Idle(owner))
             ELSE /\ owner' = next /\ context' = Kept(c) /\ step' = "send" /\ taken' = <<>>
                  /\ UNCHANGED <<cache, gate>>
          /\ Answered(before, submitted, next)
  /\ UNCHANGED <<queue, serviceVars, worldVars>>

\* The command is written.  A raised idle can be refused; a brake control is
\* taken to be in force, and a Return may have no effect.
Outgoing == owner.job
Sends(request) == IsControl(Outgoing) /\ Outgoing.request = request

Written ==
  LET k == Outgoing.kind
  IN /\ link.up
     /\ engaged' \in CASE Sends("start") /\ k = "idle" -> {engaged, engaged \union {k}}
                       [] Sends("start") /\ k # "idle" -> {engaged \union {k}}
                       [] Sends("return")              -> {engaged, engaged \ {k}}
                       [] OTHER                        -> {engaged}
     /\ owed' = IF Sends("start") THEN owed \ {k} ELSE owed
     /\ asked' = (asked /\ ~(Sends("return") /\ k = "burnout"))
     /\ returns' = IF Sends("return") /\ k = "burnout" /\ ~asked THEN returns + 1 ELSE returns
     /\ step' = "receive" /\ UNCHANGED <<owner, context, taken, cache, gate>>

\* It is not: the adapter is gone or the call's time is spent, or Burnout's
\* button has been let go since it was chosen.
TransferFailed == EndCall(TransportFailed(owner), context, TRUE)

HoldLost ==
  /\ Outgoing.kind = "burnout" /\ Outgoing.request = "start"
  /\ \E c \in Aged(context) : ~c.held /\ EndCall(TransportFailed(Observe(owner, c, "ok")), c, TRUE)

Send ==
  /\ step = "send"
  /\ Written \/ ((TransferFailed \/ HoldLost) /\ UNCHANGED <<engaged, historyVars>>)
  /\ UNCHANGED <<queue, serviceVars, link, boots>>

\* ble_obd_control_exchange returns: a reply, true if it is a report, or nothing.
Truthful ==
  IF StepOf(Outgoing) \in {"before", "after", "settled", "report"}
  THEN Replies \ {"ok", IF "idle" \in engaged THEN "inactive" ELSE "active"}
  ELSE {"ok", "bad"}

Receive ==
  /\ step = "receive"
  /\ \/ TransferFailed
     \/ /\ link.up
        /\ \E c \in Aged(context), reply \in Truthful,
              sv \in WritesOf(context, Sends("return") /\ Outgoing.kind = "abs") :
             EndCall(Feed(owner, c, reply, sv), c, TRUE)
  /\ UNCHANGED <<queue, serviceVars, worldVars, historyVars>>

-----------------------------------------------------------------------------
\* The other tasks.  vehicle_commands_runtime_intent, _confirm and submit make
\* a request from the cached status and look at the gate before they queue it,
\* or drop it when the queue is full.
Offer(verb, k, operation) ==
  /\ gate \in {"none", "vehicle"} \/ racing
  /\ k \in cache.enabled
  /\ LET request == [verb |-> verb, kind |-> k, operation |-> operation, link |-> cache.link]
     IN queue' = IF Len(queue) < QueueLength THEN Append(queue, request) ELSE queue
  /\ racing' = FALSE
  /\ UNCHANGED <<callVars, cache, gate, user, worldVars, historyVars>>

OfferStart(k) ==
  /\ cache.phase[k] \in {"ready", "restored", "rejected"} /\ cache.lastOperation < MaxOperation
  /\ Offer("start", k, cache.lastOperation + 1)

OfferStop(k) ==
  /\ cache.phase[k] \in {"starting", "active"} \/ (k # "idle" /\ cache.phase[k] = "unknown")
  /\ Offer("stop", k, cache.operation[k])

\* The display offers the owner's check once a Return has been tried (ui.c);
\* the owner confirms what he sees, that the control is not in force.
OfferConfirm(k) ==
  /\ \/ k # "idle" /\ cache.phase[k] \in {"verifying", "restart"}
     \/ k = "burnout" /\ cache.phase[k] = "unknown"
  /\ k \notin engaged
  /\ Offer("confirm", k, cache.operation[k])

\* vehicle_commands_runtime_maintenance_allowed
RuntimeAllows(u) == queue = <<>> /\ MaintenanceAllowed(cache.phase, cache.operation, u = "config")

\* The services ask before the claim (config, ota) and after it (config, wifi);
\* the clearing of trouble codes does not.
UserTo(u, place) == user' = [user EXCEPT ![u] = place]
Released(u)      == UserTo(u, "out") /\ gate' = "none" /\ racing' = FALSE

AskMaintenance(u) ==
  /\ user[u] = "out" /\ u # "clear" /\ (u # "wifi" => RuntimeAllows(u))
  /\ UserTo(u, "asked") /\ UNCHANGED <<gate, racing>>

ClaimMaintenance(u) ==
  /\ user[u] = "asked"
  /\ IF gate # "none" THEN UserTo(u, "out") /\ UNCHANGED <<gate, racing>>
     ELSE gate' = u /\ racing' \in BOOLEAN /\ UserTo(u, IF u = "ota" THEN "in" ELSE "claimed")

\* diagnostic_clear_tick claims the gate for a confirmed clearing and asks nothing.
ClaimUnasked(u) ==
  /\ u = "clear" /\ user[u] = "out" /\ gate = "none"
  /\ gate' = u /\ racing' \in BOOLEAN /\ UserTo(u, "in")

\* Mutant: the question is not asked again after the claim.
RecheckMaintenanceSkipped(u) ==
  user[u] = "claimed" /\ UserTo(u, "in") /\ UNCHANGED <<gate, racing>>

RecheckMaintenance(u) ==
  /\ user[u] = "claimed"
  /\ IF RuntimeAllows(u) THEN UserTo(u, "in") /\ UNCHANGED <<gate, racing>> ELSE Released(u)

LeaveMaintenance(u) == user[u] = "in" /\ Released(u)

Maintenance(u) ==
  /\ \/ AskMaintenance(u) \/ ClaimMaintenance(u) \/ ClaimUnasked(u)
     \/ RecheckMaintenance(u) \/ LeaveMaintenance(u)
  /\ UNCHANGED <<callVars, queue, cache, worldVars, historyVars>>

-----------------------------------------------------------------------------
\* The link is made by the worker's own task, between its calls.
Connect ==
  /\ step = "out" /\ ~link.up /\ link.generation < MaxLink
  /\ link' = [generation |-> link.generation + 1, up |-> TRUE]
  /\ UNCHANGED <<callVars, sharedVars, serviceVars, engaged, boots, historyVars>>

Disconnect ==
  /\ "link" \in Faults /\ link.up /\ link' = [link EXCEPT !.up = FALSE]
  /\ UNCHANGED <<callVars, sharedVars, serviceVars, engaged, boots, historyVars>>

\* The time of an active raised idle, of a Burnout whose Start may have left, or
\* of the one-minute fallback is over.
Lapsed ==
  {k \in {"idle"} \intersect Kinds : owner.phase[k] = "active"}
  \union {k \in {"burnout"} \intersect Kinds : owner.phase[k] \in {"starting", "active", "unknown"}}
  \union {x \in {"fallback"} : owner.timedFallback /\ owner.phase["idle"] \in {"starting", "active"}}

Expire ==
  /\ \E x \in Lapsed \ owner.expired : owner' = [owner EXCEPT !.expired = @ \union {x}]
  /\ UNCHANGED <<step, context, taken, sharedVars, serviceVars, worldVars, historyVars>>

\* The ignition cycle ends whatever was in force.
KeyCycle ==
  /\ engaged # {} /\ engaged' = {}
  /\ UNCHANGED <<callVars, sharedVars, serviceVars, link, boots, historyVars>>

PowerFails ==
  /\ "power" \in Faults /\ boots < MaxBoots /\ boots' = boots + 1
  /\ \E ready \in IF "journal" \in Faults THEN BOOLEAN ELSE {TRUE} :
       owner' = Recorded(owner.stored, ready)
  /\ cache' = Status(owner', NoContext)
  /\ step' = "out" /\ context' = NoContext /\ taken' = <<>> /\ queue' = <<>>
  /\ gate' = "none" /\ user' = [u \in Users |-> "out"] /\ racing' = FALSE
  /\ link' = NoLink /\ owed' = {} /\ asked' = FALSE
  /\ UNCHANGED <<engaged, returns>>

VehicleInit ==
  /\ owner = Recorded(NoMarker, TRUE) /\ cache = Status(owner, NoContext)
  /\ step = "out" /\ context = NoContext /\ taken = <<>> /\ queue = <<>>
  /\ gate = "none" /\ user = [u \in Users |-> "out"] /\ racing = FALSE
  /\ link = NoLink /\ engaged = {} /\ boots = 0
  /\ owed = {} /\ asked = FALSE /\ returns = 0

Worker == Look \/ Choose \/ Send \/ Receive
VehicleNext ==
  \/ Worker
  \/ \E k \in Kinds : OfferStart(k) \/ OfferStop(k) \/ OfferConfirm(k)
  \/ \E u \in Users : Maintenance(u)
  \/ Connect \/ Disconnect \/ Expire \/ KeyCycle \/ PowerFails

\* The worker's task goes on with its calls, which is WF_commandVars(Worker) with
\* its enabling spelled out: every step of the worker, and a restart, changes step.
CanWork    == step # "out" \/ gate \in {"none", "vehicle"}
CallsGoOn  == <>[]CanWork => []<><<step' # step>>_commandVars
TimePasses == WF_commandVars(Expire)

VehicleSpec == VehicleInit /\ [][VehicleNext]_commandVars /\ CallsGoOn /\ TimePasses

-----------------------------------------------------------------------------
\* A control that may be in force is in the durable marker: the marker is
\* written before a Start can leave, and given up only on evidence of release
\* (vehicle_commands_next, observe, submit), whatever fails in between.
EngagedIsRecorded == engaged \subseteq owner.stored.mask

\* What the display, the phone and the maintenance services read never calls
\* such a control ready, restored or rejected, in no boot and at no point of a
\* call of the worker.
EngagedIsPublished == \A k \in engaged : cache.phase[k] \in PendingPhases

\* Burnout overlaps no other control in the vehicle, also after lost replies,
\* failed marker writes and power failures (the admission in submit).
BurnoutIsExclusive == "burnout" \in engaged => engaged = {"burnout"}

\* While a service has the gate there is no job and no live control, although the
\* clearing of trouble codes does not even ask; the configuration service finds
\* nothing in force at all, and none that asks finds Burnout.
MaintenanceExcludesControl ==
  \A u \in Users : user[u] = "in" =>
    /\ gate = u /\ Idle(owner) /\ \A k \in Kinds : owner.phase[k] \notin LivePhases
    /\ (u # "clear" => "burnout" \notin engaged) /\ (u = "config" => engaged = {})

\* A Start is sent once for each accepted request, and for none of an earlier boot.
StartSent == step = "send" /\ step' = "receive" /\ Sends("start")
StartsOnce == [][StartSent => owner.job.kind \in owed]_commandVars

\* "One same-scope Return attempt is allowed; failures never replay it."
ReturnsOnce == returns <= 1

\* A timed control does not stay active: its Return begins or its end is
\* uncertain, with no help from the phone, the display or the adapter.
TimedControlsEnd ==
  \A k \in Kinds \ {"abs"} : owner.phase[k] = "active" ~> owner.phase[k] # "active"
=============================================================================
