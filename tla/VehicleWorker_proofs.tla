------------------------ MODULE VehicleWorker_proofs ------------------------
(***************************************************************************)
(* Proofs about VehicleWorker, for every set of kinds and of services,     *)
(* bound of the queue and set of faults: what may be in force is recorded, *)
(* published and, for Burnout, alone; a Start acts once and an unasked     *)
(* Return is sent once; maintenance and controls exclude each other.       *)
(*                                                                         *)
(* None of these is inductive. A control is recorded before it is sent, a  *)
(* confirmation can take it out of the marker again, and a call keeps what *)
(* it has read over two waits: the invariant VehicleInv says, of each      *)
(* place of a call, what its job may be (CallInv), which requests may      *)
(* still be served (LinkInv, ConfirmInv), what has been published and is   *)
(* owed (PublishedInv, OwedInv) and who may hold the gate (GateInv).       *)
(***************************************************************************)
EXTENDS VehicleWorker, VehicleCommands_proofs

-----------------------------------------------------------------------------
\* The inductive invariant, part by part
Request == [verb : {"start", "stop", "confirm"}, kind : Kinds, operation : 0..MaxOperation,
            link : 0..MaxLink]
\* The requests that a call has not served yet
Waiting == {queue[i] : i \in 1..Len(queue)} \union {taken[i] : i \in 1..Len(taken)}

\* The published status; what a call knows of the vehicle, and what it knows before it
\* has looked at the inputs
StatusType == [phase : [Kinds -> CommandPhases], operation : [Kinds -> 0..MaxOperation],
               lastOperation : 0..MaxOperation, link : 0..MaxLink, enabled : SUBSET Kinds]
FullContext == [link : 0..MaxLink, connected : BOOLEAN, known : SUBSET Kinds,
                inputs : [Kinds -> {"none", "run", "start"}], coolant : {"fresh", "stale", "hot"},
                held : BOOLEAN, proof : SUBSET Kinds, late : BOOLEAN, due : BOOLEAN]
BriefContext == [link : 0..MaxLink, connected : BOOLEAN, known : SUBSET Kinds]

\* The variables hold what their names say; what a call keeps over a wait proves nothing.
TypeInv ==
  /\ step \in {"out", "looked", "send", "receive"} /\ queue \in Seq(Request) /\ taken \in Seq(Request)
  /\ cache \in StatusType
  /\ IF step \in {"send", "receive"} THEN context \in FullContext /\ context.proof = {}
     ELSE context \in BriefContext
  /\ gate \in {"none", "vehicle"} \union Users
  /\ user \in [Users -> {"out", "asked", "claimed", "in"}] /\ racing \in BOOLEAN
  /\ link \in [generation : 0..MaxLink, up : BOOLEAN] /\ engaged \in SUBSET Kinds /\ boots \in Nat
  /\ owed \in SUBSET Kinds /\ asked \in BOOLEAN

\* The owner is sound, for what may be in force now.
OwnerInv == OwnerSound(owner, engaged) /\ JobSound(owner)

\* Links only grow, and neither a request nor a job is older than the cached status.
LinkInv ==
  /\ cache.link <= link.generation /\ (link.up => link.generation # 0)
  /\ \A r \in Waiting : r.link <= cache.link
  /\ step # "out" => context.link = link.generation
  /\ context.connected => context.link # 0
  /\ ~Idle(owner) => cache.link <= owner.link[owner.job.kind]
  /\ \A k \in Kinds : owner.link[k] <= link.generation

\* A confirmation under way can no longer meet a control that may be in force.
ConfirmSafe(r, s, E) ==
  /\ r.operation <= s.lastOperation
  /\ r.operation = s.operation[r.kind] => r.kind \notin E \union s.pendingStart /\ ~StartOf(s, r.kind)

\* Every confirmation waiting, and every one the status could still lead to, is safe.
ConfirmInv ==
  /\ \A r \in Waiting : r.verb = "confirm" => ConfirmSafe(r, owner, engaged)
  /\ \A k \in Kinds : cache.operation[k] <= owner.lastOperation
  /\ \A k \in Kinds : cache.phase[k] \in {"verifying", "restart", "unknown"}
                      /\ cache.operation[k] = owner.operation[k]
       => k \notin owner.pendingStart /\ ~StartOf(owner, k)

\* Without its journal the owner is closed, and says so; only a boot can lose it.
ClosedInv ==
  /\ ~owner.journalReady => Waiting = {} /\ cache.enabled = {}
  /\ "journal" \notin Faults => owner.journalReady

\* Where the worker is in its call, and what its job may then be
CallInv ==
  /\ step \in {"out", "send", "receive"} => taken = <<>> /\ JobLive(owner)
  /\ step = "looked" => JobLive(owner) \/ Doomed(owner, context)
  /\ step \in {"send", "receive"} =>
       /\ ~Idle(owner) /\ ~Doomed(owner, context)
       /\ IsControl(owner.job) => owner.job.marked
       /\ owner.job.request = "start" => ~owner.job.cancel

\* The cached status tells of a Start before its control can leave.
PublishedInv ==
  /\ \A k \in engaged : cache.phase[k] \in PendingPhases
  /\ \A k \in Kinds : StartOf(owner, k) /\ owner.job.at > 1 => cache.phase[k] \in PendingPhases

\* Out of a call the cached status is that of the owner.
OutInv == step = "out" => cache.phase = owner.phase /\ cache.operation = owner.operation

\* No job and no live control: the state in which the gate may be another's
Quiet(s) == Idle(s) /\ \A k \in Kinds : s.phase[k] \notin LivePhases
Allows(configuration) == MaintenanceAllowed(owner.phase, owner.operation, configuration)

\* The gate is the vehicle's during a call and while anything is under way; a service that
\* holds it has been allowed.
GateInv ==
  /\ step # "out" => gate = "vehicle"
  /\ gate # "vehicle" => Quiet(owner)
  /\ \A u \in Users :
       /\ user[u] \in {"claimed", "in"} => gate = u
       /\ user[u] \in {"asked", "claimed"} => u # "clear"
       /\ user[u] = "in" /\ u = "config" => Allows(TRUE)
       /\ gate # "vehicle" /\ user[u] # "out" /\ u \in {"config", "ota"} => Allows(FALSE)
       /\ user[u] = "in" /\ u # "clear" => Allows(FALSE)

\* A Start that has not left is owed; the step that sends it is at ControlAt.
OwedInv ==
  /\ \A k \in owner.pendingStart \ owner.pendingStop : k \in owed
  /\ \A k \in Kinds : StartOf(owner, k) /\ ~owner.job.cancel
       /\ (owner.job.at < ControlAt(k) \/ (owner.job.at = ControlAt(k) /\ step # "receive")) => k \in owed

\* After an unasked Return of Burnout no other is asked for, but by a new Stop.
ReturnsInv ==
  /\ returns \in {0, 1}
  /\ returns = 1 =>
       /\ Returned(owner)
       /\ ReturnOf(owner, "burnout") => asked \/ (step = "receive" /\ owner.job.at = 3)
  /\ Releases(owner)

\* The inductive invariant
VehicleInv ==
  /\ TypeInv /\ OwnerInv /\ LinkInv /\ ConfirmInv /\ ClosedInv /\ CallInv
  /\ PublishedInv /\ OutInv /\ GateInv /\ OwedInv /\ ReturnsInv

-----------------------------------------------------------------------------
\* What is observed is of the kinds the build has, and proves nothing released
\* that may be in force.
LEMMA ContextsFacts ==
  ASSUME NEW s, NEW generation, NEW up, NEW identities, NEW c \in Contexts(s, generation, up, identities),
         generation \in 0..MaxLink, up \in BOOLEAN, identities \in SUBSET SUBSET Kinds
  PROVE  /\ c \in FullContext /\ c.link = generation /\ c.connected = up
         /\ c.proof \intersect engaged = {}
         /\ c.connected => c.known \in identities
<1>1. PICK K \in IF up THEN identities ELSE {{}} : c \in {Seen(generation, up, K, r) : r \in Readings(s, K)}
  BY DEF Contexts
<1>2. PICK r \in Readings(s, K) : c = Seen(generation, up, K, r)
  BY <1>1
<1>3. K \in SUBSET Kinds
  BY <1>1
<1>4. r.idle \in {"none", "run", "start"} /\ r.brakes \in {"none", "run", "start"}
  BY <1>2 DEF Readings
<1>5. r.coolant \in {"fresh", "stale", "hot"} /\ r.held \in BOOLEAN /\ r.late \in BOOLEAN /\ r.due \in BOOLEAN
  BY <1>2 DEF Readings
<1>6. r.proof \in SUBSET Kinds /\ r.proof \intersect engaged = {}
  <2>1. r.proof \in IF "idle" \in K /\ s.phase["idle"] = "verifying" /\ "idle" \notin engaged
                    THEN {{}, {"idle"}} ELSE {{}}
    BY <1>2 DEF Readings
  <2> QED
    BY <1>3, <2>1
<1>7. [k \in Kinds |-> IF k = "idle" THEN r.idle ELSE r.brakes] \in [Kinds -> {"none", "run", "start"}]
  BY <1>4
<1> QED
  BY <1>1, <1>2, <1>3, <1>5, <1>6, <1>7 DEF Seen, FullContext

\* What is kept of a context over a wait proves nothing, and nor does it after it.
LEMMA KeptFacts ==
  ASSUME NEW c \in FullContext
  PROVE  /\ Kept(c) \in FullContext /\ Kept(c).proof = {}
         /\ Kept(c).link = c.link /\ Kept(c).connected = c.connected /\ Kept(c).known = c.known
BY DEF Kept, FullContext

\* What time does to the context leaves its link and its proof as they were.
LEMMA AgedFacts ==
  ASSUME NEW c \in FullContext, NEW a \in Aged(c)
  PROVE  /\ a \in FullContext /\ a.proof = c.proof
         /\ a.link = c.link /\ a.connected = c.connected /\ a.known = c.known
<1> DEFINE R == [held : IF "burnout" \in c.known THEN BOOLEAN ELSE {FALSE},
                 late : BOOLEAN, inputs : {c.inputs, [k \in Kinds |-> "none"]}]
<1>1. PICK r \in R : a = [c EXCEPT !.held = r.held, !.late = r.late, !.inputs = r.inputs]
  BY DEF Aged
<1>2. c.inputs \in [Kinds -> {"none", "run", "start"}]
  BY DEF FullContext
<1>3. r.held \in BOOLEAN /\ r.late \in BOOLEAN /\ r.inputs \in [Kinds -> {"none", "run", "start"}]
  BY <1>2
<1> HIDE DEF R
<1> QED
  BY <1>1, <1>3 DEF FullContext

\* A job is doomed by the link and the kinds of a context alone.
LEMMA SameDoom ==
  ASSUME NEW s, NEW c, NEW d, c.link = d.link, c.connected = d.connected, c.known = d.known
  PROVE  Doomed(s, c) <=> Doomed(s, d)
BY DEF Doomed, Qualified, Scoped

-----------------------------------------------------------------------------
\* The requests of a call, one after the other
LEMMA SubmitAllSteps ==
  ASSUME NEW s, NEW c, NEW sv, Len(taken) \in Nat
  PROVE  \E after : /\ SubmitAll(s, c, sv) = after[Len(taken)] /\ after[0] = s
                    /\ \A n \in 1..Len(taken) : after[n] = Submit(after[n - 1], taken[n], c, sv)
<1> DEFINE Is(f, m) == f = [n \in 0..m |-> IF n = 0 THEN s ELSE Submit(f[n - 1], taken[n], c, sv)]
           T == {m \in Nat : ~ \E f : Is(f, m)}
<1>1. T = {}
  <2> SUFFICES ASSUME T # {} PROVE FALSE
    OBVIOUS
  <2>1. PICK m \in T : \A k \in T : m <= k
    BY LeastOf
  <2>2. m \in Nat /\ m # 0
    <3>1. Is([n \in 0..0 |-> s], 0)
      OBVIOUS
    <3> QED BY <2>1, <3>1
  <2>3. m - 1 \in Nat /\ m - 1 \notin T
    <3>1. m - 1 \in Nat /\ ~(m <= m - 1)
      BY <2>2
    <3> QED
      BY <2>1, <3>1
  <2>3a. PICK f : Is(f, m - 1)
    BY <2>3
  <2>4. Is([n \in 0..m |-> IF n = m THEN Submit(f[m - 1], taken[m], c, sv) ELSE f[n]], m)
    <3> DEFINE g == [n \in 0..m |-> IF n = m THEN Submit(f[m - 1], taken[m], c, sv) ELSE f[n]]
    <3>1. \A n \in 0..m : g[n] = IF n = 0 THEN s ELSE Submit(g[n - 1], taken[n], c, sv)
      BY <2>2, <2>3a
    <3>2. g = [n \in 0..m |-> g[n]]
      OBVIOUS
    <3> QED BY <3>1, <3>2
  <2> QED BY <2>1, <2>4
<1>2. \E f : Is(f, Len(taken))
  BY <1>1
<1> DEFINE after == CHOOSE f : Is(f, Len(taken))
<1>3. Is(after, Len(taken))
  BY <1>2
<1>4. SubmitAll(s, c, sv) = after[Len(taken)]
  BY DEF SubmitAll
<1>5. after[0] = s /\ \A n \in 1..Len(taken) : after[n] = Submit(after[n - 1], taken[n], c, sv)
  <2> HIDE DEF after
  <2> QED BY <1>3
<1> QED
  BY <1>4, <1>5

\* All requests of a call keep the owner sound: what was safe to confirm stays so,
\* for those behind it as well.
LEMMA SubmitAllSound ==
  ASSUME NEW s, NEW E, NEW c, NEW sv, NEW L \in 0..MaxLink, Submitting(s, E, c, L),
         c.link \in 0..MaxLink, L <= c.link, taken \in Seq(Request),
         \A i \in 1..Len(taken) : taken[i].link <= L /\ (taken[i].verb = "confirm" => ConfirmSafe(taken[i], s, E))
  PROVE  LET t == SubmitAll(s, c, sv) IN Submitting(t, E, c, L) /\ Submits(s, t, c)
<1>0. Len(taken) \in Nat /\ \A i \in 1..Len(taken) : taken[i] \in Request
  OBVIOUS
<1>1. PICK after : /\ SubmitAll(s, c, sv) = after[Len(taken)] /\ after[0] = s
                   /\ \A n \in 1..Len(taken) : after[n] = Submit(after[n - 1], taken[n], c, sv)
  BY <1>0, SubmitAllSteps
<1>s. s \in Owner /\ OwnerSound(s, E)
  BY DEF Submitting, OwnerSound
<1> DEFINE Holds(n) == Submitting(after[n], E, c, L) /\ Submits(s, after[n], c)
           T == {n \in 0..Len(taken) : ~Holds(n)}
<1>2. ASSUME NEW n \in 1..Len(taken), Holds(n - 1)
      PROVE  Holds(n)
  <2> DEFINE p == after[n - 1]
             r == taken[n]
             t == Submit(p, r, c, sv)
  <2>1. r \in Request /\ r.link <= L /\ (r.verb = "confirm" => ConfirmSafe(r, s, E))
    BY <1>0
  <2>2. Submitting(p, E, c, L) /\ Submits(s, p, c)
    BY <1>2
  <2>3. Advanced(s, p)
    BY <2>2 DEF Submits
  <2>4. /\ r.kind \in Kinds /\ r.operation \in 0..MaxOperation
        /\ r.verb \in {"start", "stop", "confirm"} /\ r.link \in 0..MaxLink
    BY <2>1 DEF Request
  <2>5. s.lastOperation \in Nat
    BY <1>s DEF Owner
  <2>6. r.verb = "confirm" /\ r.operation = p.operation[r.kind] => r.kind \notin E
    BY <2>1, <2>3, <2>4, <2>5 DEF Advanced, ConfirmSafe
  <2>7. after[n] = t
    BY <1>1
  <2> HIDE DEF p, r
  <2>8. Submitting(t, E, c, L) /\ Submits(p, t, c)
    BY <2>1, <2>2, <2>4, <2>6, SubmitSound
  <2>9. OwnerSound(t, E) /\ t.journalReady
    BY <2>8 DEF Submitting
  <2> HIDE DEF t
  <2>10. Submits(s, t, c)
    BY <1>s, <2>2, <2>8, <2>9, SubmitsTwice
  <2> QED
    BY <2>7, <2>8, <2>10
<1>3. Holds(0)
  BY <1>1, <1>s, SubmitsSame
<1> HIDE DEF Holds
<1>4. T = {}
  <2> SUFFICES ASSUME T # {} PROVE FALSE
    OBVIOUS
  <2>1. T \in SUBSET Nat
    OBVIOUS
  <2>2. PICK n \in T : \A m \in T : n <= m
    BY <2>1, LeastOf
  <2>3. n # 0 /\ n \in 1..Len(taken)
    BY <1>0, <1>3, <2>2
  <2>4. n - 1 \in 0..Len(taken) /\ n - 1 \notin T
    BY <1>0, <2>2, <2>3
  <2> QED
    BY <1>2, <2>2, <2>3, <2>4
<1>5. Holds(Len(taken))
  BY <1>0, <1>4
<1> QED
  BY <1>1, <1>5 DEF Holds

-----------------------------------------------------------------------------
\* An owner whose journal could not be read does nothing.
LEMMA ClosedNext ==
  ASSUME NEW s, NEW E, OwnerSound(s, E), ~s.journalReady, NEW c, NEW sv
  PROVE  NextCommand(s, c, sv) = s /\ Idle(s) /\ s.pendingStart = {}
<1>1. Idle(s) /\ s.pendingStart = {} /\ s.pendingStop = {} /\ \A k \in Kinds : s.phase[k] = "unknown"
  BY DEF OwnerSound, Frozen
<1>2. Observe(s, c, sv) = s
  BY ObserveFrozen
<1>3. \A k : NextStop(s, c, k) = s /\ NextStart(s, c, k) = s
  <2> TAKE k
  <2>1. k \notin s.pendingStop /\ k \notin s.pendingStart
    BY <1>1
  <2>2. NextStop(s, c, k) = s
    BY <2>1, Zenon DEF NextStop
  <2>3. NextStart(s, c, k) = s
    BY <2>1, Zenon DEF NextStart
  <2> QED BY <2>2, <2>3
<1>4. NextReport(s, c) = s
  BY <1>1 DEF NextReport
<1>5. Schedule(s, c) = s
  BY <1>3, <1>4 DEF Schedule
<1> QED
  BY <1>1, <1>2, <1>5 DEF NextCommand

\* Doing nothing is calm.
LEMMA CalmSame ==
  ASSUME NEW s \in Owner
  PROVE  Calm(s, s)
<1>1. Advanced(s, s)
  BY SameAdvanced
<1> QED
  BY <1>1 DEF Calm

\* How a call ends: the status is that of the owner, and the gate is given back
\* when nothing is left for which maintenance would have to wait.
CallEnded(c) ==
  /\ \E left \in FullContext : left.link = c.link /\ cache' = Status(owner', left)
  /\ gate' = IF Idle(owner') /\ MaintenanceAllowed(owner'.phase, owner'.operation, FALSE)
             THEN "none" ELSE gate
  /\ step' = "out" /\ context' = NoContext /\ taken' = <<>>

\* The end of a call observes once more, when no job is under way, and publishes.
LEMMA EndCallSound ==
  ASSUME NEW s, OwnerSound(s, engaged), JobSound(s), JobLive(s), NEW c \in FullContext,
         c.proof \intersect engaged = {}, c.connected => c.link # 0, NEW jobbed, EndCall(s, c, jobbed)
  PROVE  /\ OwnerSound(owner', engaged) /\ JobSound(owner') /\ JobLive(owner')
         /\ CallEnded(c) /\ (Idle(s) \/ owner' = s) /\ (Idle(s) => Idle(owner')) /\ Calm(s, owner')
<1> DEFINE Left(restored) == [c EXCEPT !.connected = @ /\ restored]
           Last(restored) == IF restored THEN s ELSE Observe(s, Left(restored), "ok")
<1>1. PICK restored \in IF jobbed /\ Idle(s) /\ "restore" \in Faults THEN BOOLEAN ELSE {TRUE} :
        /\ owner' = Last(restored) /\ cache' = Status(Last(restored), Left(restored))
        /\ gate' = IF Idle(Last(restored))
                      /\ MaintenanceAllowed(Last(restored).phase, Last(restored).operation, FALSE)
                   THEN "none" ELSE gate
        /\ step' = "out" /\ context' = NoContext /\ taken' = <<>>
  BY DEF EndCall
<1> DEFINE left == Left(restored)
<1>2. restored \in BOOLEAN /\ (restored \/ Idle(s))
  BY <1>1
<1>3. left \in FullContext /\ left.link = c.link /\ left.proof = c.proof /\ (left.connected => c.connected)
  BY <1>2 DEF FullContext
<1>4. s \in Owner
  BY DEF OwnerSound
<1> HIDE DEF Left
<1>5. CallEnded(c)
  BY <1>1, <1>3 DEF CallEnded
<1>6. CASE restored
  <2>1. owner' = s
    BY <1>1, <1>6
  <2> QED
    BY <1>4, <1>5, <2>1, CalmSame
<1>7. CASE ~restored
  <2>1. owner' = Observe(s, left, "ok") /\ Idle(s)
    BY <1>1, <1>2, <1>7
  <2> DEFINE t == Observe(s, left, "ok")
  <2>2. OwnerSound(t, engaged) /\ Watched(s, t, left)
    BY <1>3, ObserveSound
  <2> HIDE DEF t, left
  <2>3. JobSound(t) /\ Idle(t)
    BY <1>4, <2>1, <2>2, WatchedJob
  <2>4. Calm(s, t)
    BY <1>3, <1>4, <2>2, WatchedCalm
  <2>5. JobLive(t)
    BY <2>3 DEF JobLive
  <2>6. owner' = t
    BY <2>1 DEF t
  <2> QED
    BY <1>5, <2>1, <2>2, <2>3, <2>4, <2>5, <2>6
<1> QED
  BY <1>6, <1>7

\* A Return of Burnout under way stays one that is not asked for again.
LEMMA WatchedReleases ==
  ASSUME NEW s \in Owner, NEW t, NEW c, Watched(s, t, c), JobSound(s), Releases(s)
  PROVE  Releases(t)
<1>1. t.job = s.job /\ t.releaseAttempted = s.releaseAttempted /\ (Idle(t) <=> Idle(s))
  BY DEF Watched, Idle
<1> SUFFICES ASSUME ReturnOf(t, "burnout") PROVE t.releaseAttempted /\ (JobLive(t) => "burnout" \notin t.pendingStop)
  BY DEF Releases
<1>2. ReturnOf(s, "burnout") /\ ~Idle(t) /\ ~Idle(s)
  BY <1>1 DEF ReturnOf
<1>3. s.releaseAttempted /\ (JobLive(s) => "burnout" \notin s.pendingStop)
  BY <1>2 DEF Releases
<1>4. ASSUME JobLive(t) PROVE "burnout" \notin t.pendingStop
  <2>1. s.job.kind = "burnout" /\ s.job.request = "return" /\ "burnout" \in Kinds
    BY <1>2 DEF ReturnOf, JobSound
  <2>2. t.phase["burnout"] = "stopping"
    BY <1>1, <1>2, <1>4, <2>1 DEF JobLive
  <2>3. s.phase["burnout"] = "stopping"
    BY <2>1, <2>2 DEF Watched, LivePhases
  <2>4. JobLive(s)
    BY <2>1, <2>3 DEF JobLive, PendingPhases, LivePhases
  <2> QED
    BY <1>3, <2>1, <2>3, <2>4 DEF Watched
<1> QED
  BY <1>1, <1>3, <1>4

-----------------------------------------------------------------------------
\* What the requests and the choice of a command do between them: b is the owner
\* as observed, u has the requests, n the command.
Started(b, u) == u.pendingStart \ b.pendingStart
Stopped(b, u) == u.pendingStop \ b.pendingStop

\* What the choice promises: a job that has been saved and goes on, no Start but one owed
\* or asked for, and no Return of Burnout but one asked for
Chosen(b, u, n, c) ==
  /\ OwnerSound(n, engaged) /\ JobSound(n) /\ JobLive(n)
  /\ Advanced(owner, n)
  /\ \A k \in Kinds : n.link[k] = owner.link[k] \/ n.link[k] = c.link
  /\ ~Idle(n) => /\ ~Doomed(n, c) /\ (IsControl(n.job) => n.job.marked)
                 /\ n.job.request = "start" => ~n.job.cancel
  /\ \A k \in n.pendingStart \ n.pendingStop :
       k \in (owner.pendingStart \ owner.pendingStop) \union Started(b, u) /\ k \notin Stopped(b, u)
  /\ \A k \in Kinds : StartOf(n, k) =>
       /\ k \notin Stopped(b, u)
       /\ \/ k \in (owner.pendingStart \ owner.pendingStop) \union Started(b, u)
          \/ StartOf(owner, k) /\ ~owner.job.cancel /\ n.job.at = owner.job.at
       /\ n.job.at > 1 => StartOf(owner, k) /\ n.job.at = owner.job.at
  /\ Returned(owner) /\ "burnout" \notin Started(b, u) =>
       /\ Returned(n)
       /\ ReturnOf(n, "burnout") => ReturnOf(owner, "burnout") \/ "burnout" \in Stopped(b, u)
  /\ Releases(n)

\* What the worker sees when it chooses: its link is still the one of the call.
LEMMA ChoiceContext ==
  ASSUME VehicleInv, step = "looked", NEW up \in {context.connected, context.connected /\ link.up},
         NEW c \in Contexts(owner, context.link, up, IF Idle(owner) THEN Known ELSE {context.known, {}})
  PROVE  /\ c \in FullContext /\ c.link = context.link /\ c.link = link.generation
         /\ c.proof \intersect engaged = {}
         /\ c.connected => c.link # 0
         /\ JobLive(owner) \/ Doomed(owner, c)
<1>1. context \in BriefContext /\ link.generation \in 0..MaxLink
  BY DEF VehicleInv, TypeInv
<1>2. context.link \in 0..MaxLink /\ context.connected \in BOOLEAN /\ context.known \in SUBSET Kinds
  BY <1>1 DEF BriefContext
<1> DEFINE identities == IF Idle(owner) THEN Known ELSE {context.known, {}}
<1>3. identities \in SUBSET SUBSET Kinds
  BY <1>2 DEF Known
<1>4. up \in BOOLEAN /\ (up => context.connected)
  BY <1>2
<1>5. c \in Contexts(owner, context.link, up, identities)
  OBVIOUS
<1> HIDE DEF identities
<1>6. /\ c \in FullContext /\ c.link = context.link /\ c.connected = up /\ c.proof \intersect engaged = {}
      /\ c.connected => c.known \in identities
  <2>1. context.link \in 0..MaxLink /\ up \in BOOLEAN
    BY <1>2, <1>4
  <2>2. identities \in SUBSET SUBSET Kinds
    BY <1>3
  <2>3. c \in Contexts(owner, context.link, up, identities)
    BY <1>5
  <2>4. c \in FullContext
    BY <2>1, <2>2, <2>3, ContextsFacts, Zenon
  <2>5. c.link = context.link /\ c.connected = up
    BY <2>1, <2>2, <2>3, ContextsFacts, SMT
  <2>6. c.proof \intersect engaged = {}
    BY <2>1, <2>2, <2>3, ContextsFacts, SMT
  <2>7. c.connected => c.known \in identities
    BY <2>1, <2>2, <2>3, ContextsFacts, SMT
  <2> QED
    BY <2>4, <2>5, <2>6, <2>7
<1>7. context.link = link.generation /\ (context.connected => context.link # 0)
  BY DEF VehicleInv, LinkInv
<1>8. JobLive(owner) \/ Doomed(owner, c)
  <2>1. CASE Idle(owner)
    BY <2>1 DEF JobLive
  <2>2. CASE ~Idle(owner) /\ Doomed(owner, context)
    <3>1. c.connected => c.known \in {context.known, {}}
      BY <1>6, <2>2 DEF identities
    <3> QED
      BY <1>4, <1>6, <2>2, <3>1 DEF Doomed, Qualified, Scoped
  <2> QED
    BY <2>1, <2>2 DEF VehicleInv, CallInv
<1> QED
  BY <1>4, <1>6, <1>7, <1>8

\* Without a journal the call changes nothing.
LEMMA ClosedChoice ==
  ASSUME VehicleInv, step = "looked", ~owner.journalReady, NEW c, NEW sv
  PROVE  LET b == Observe(owner, c, sv)
             u == SubmitAll(b, c, sv)
             n == NextCommand(u, c, sv)
         IN Chosen(b, u, n, c)
<1>1. OwnerSound(owner, engaged) /\ JobSound(owner) /\ Releases(owner)
  BY DEF VehicleInv, OwnerInv, ReturnsInv
<1>2. owner \in Owner
  BY <1>1 DEF OwnerSound
<1>3. Len(taken) = 0
  <2>1. Len(taken) \in Nat
    BY DEF VehicleInv, TypeInv
  <2>2. {taken[i] : i \in 1..Len(taken)} = {}
    BY DEF VehicleInv, ClosedInv, Waiting
  <2>3. Len(taken) # 0 => 1 \in 1..Len(taken)
    BY <2>1
  <2> QED
    BY <2>2, <2>3
<1>4. Observe(owner, c, sv) = owner
  BY <1>1, ObserveFrozen
<1>5. SubmitAll(owner, c, sv) = owner
  BY <1>3, SubmitAllSteps
<1>6. NextCommand(owner, c, sv) = owner /\ Idle(owner) /\ owner.pendingStart = {}
  BY <1>1, ClosedNext
<1>7. Advanced(owner, owner)
  BY <1>2, SameAdvanced
<1>8. Chosen(owner, owner, owner, c)
  BY <1>1, <1>6, <1>7 DEF Chosen, JobLive, StartOf, ReturnOf
<1> QED
  BY <1>4, <1>5, <1>6, <1>8

\* The observation, the requests and the command, one after the other
LEMMA OpenChoice ==
  ASSUME VehicleInv, step = "looked", owner.journalReady,
         NEW c \in FullContext, c.link = context.link, c.link = link.generation,
         c.proof \intersect engaged = {}, c.connected => c.link # 0, JobLive(owner) \/ Doomed(owner, c), NEW sv
  PROVE  LET b == Observe(owner, c, sv)
             u == SubmitAll(b, c, sv)
             n == NextCommand(u, c, sv)
         IN Chosen(b, u, n, c)
<1> DEFINE b == Observe(owner, c, sv)
           u == SubmitAll(b, c, sv)
           n == NextCommand(u, c, sv)
<1>1. /\ OwnerSound(owner, engaged) /\ JobSound(owner) /\ Releases(owner) /\ owner \in Owner
      /\ \A k \in Kinds : owner.operation[k] <= owner.lastOperation
  BY DEF VehicleInv, OwnerInv, ReturnsInv, OwnerSound
<1>2. OwnerSound(b, engaged) /\ Watched(owner, b, c)
  BY <1>1, ObserveSound
<1>3. /\ b \in Owner /\ b.journalReady /\ b.job = owner.job /\ b.link = owner.link
      /\ b.operation = owner.operation /\ b.lastOperation = owner.lastOperation
      /\ b.releaseAttempted = owner.releaseAttempted
  BY <1>2 DEF Watched
<1>4. /\ JobSound(b) /\ (Idle(b) <=> Idle(owner)) /\ (Doomed(b, c) <=> Doomed(owner, c))
      /\ JobLive(owner) => JobLive(b) \/ Doomed(b, c)
  <2> HIDE DEF b
  <2> QED BY <1>1, <1>2, WatchedJob
<1>5. Calm(owner, b)
  <2> HIDE DEF b
  <2> QED BY <1>1, <1>2, WatchedCalm
<1> DEFINE L == cache.link
<1>6. /\ L \in 0..MaxLink /\ c.link \in 0..MaxLink /\ L <= c.link
      /\ \A k \in Kinds : owner.link[k] <= c.link
      /\ ~Idle(owner) => L <= owner.link[owner.job.kind]
  <2>1. L \in 0..MaxLink /\ c.link \in 0..MaxLink
    BY DEF VehicleInv, TypeInv, StatusType, FullContext
  <2> QED
    BY <2>1 DEF VehicleInv, LinkInv
<1>7. taken \in Seq(Request) /\ \A i \in 1..Len(taken) : taken[i] \in Waiting
  BY DEF VehicleInv, TypeInv, Waiting
<1>8. \A i \in 1..Len(taken) :
        taken[i].link <= L /\ (taken[i].verb = "confirm" => ConfirmSafe(taken[i], owner, engaged))
  BY <1>7 DEF VehicleInv, LinkInv, ConfirmInv
<1>9. \A i \in 1..Len(taken) : taken[i].link <= L /\ (taken[i].verb = "confirm" => ConfirmSafe(taken[i], b, engaged))
  <2>1. Advanced(owner, b)
    BY <1>5 DEF Calm
  <2>2. \A k : StartOf(b, k) <=> StartOf(owner, k)
    BY <1>3, <1>4 DEF StartOf
  <2>3. b.pendingStart \subseteq owner.pendingStart
    BY <1>2, <1>3 DEF Watched, Owner
  <2> HIDE DEF b
  <2> QED
    BY <1>3, <1>8, <2>1, <2>2, <2>3 DEF ConfirmSafe
<1>10. Submitting(b, engaged, c, L)
  <2> HIDE DEF b, L
  <2> QED
    BY <1>2, <1>3, <1>4, <1>6 DEF Submitting
<1>11. Submitting(u, engaged, c, L) /\ Submits(b, u, c)
  <2> HIDE DEF b, L
  <2> QED
    BY <1>6, <1>7, <1>9, <1>10, SubmitAllSound
<1>12. OwnerSound(u, engaged) /\ u.journalReady /\ JobSound(u) /\ (JobLive(u) \/ Doomed(u, c)) /\ u \in Owner
  BY <1>11 DEF Submitting, OwnerSound
<1>13. OwnerSound(n, engaged) /\ Commanded(u, n, c, engaged)
  <2> HIDE DEF u
  <2> QED
    BY <1>6, <1>12, NextCommandSound
<1> HIDE DEF b, u, n, L
<1>14. /\ n \in Owner /\ Advanced(u, n) /\ JobSound(n) /\ JobLive(n)
       /\ \A k \in Kinds : n.link[k] = u.link[k] \/ n.link[k] = c.link
       /\ \A k \in n.pendingStart \ n.pendingStop : k \in u.pendingStart \ u.pendingStop
       /\ ~Idle(n) => /\ ~Doomed(n, c) /\ (IsControl(n.job) => n.job.marked)
                      /\ n.job.request = "start" => ~n.job.cancel
       /\ \A k \in Kinds : StartOf(n, k) =>
            \/ n.job.at = 1 /\ k \in u.pendingStart \ u.pendingStop
            \/ StartOf(u, k) /\ ~u.job.cancel /\ n.job.at = u.job.at
  BY <1>12, <1>13, CommandedFacts
<1>15. Advanced(owner, n)
  <2>1. Advanced(owner, b) /\ Advanced(b, u)
    BY <1>5, <1>11 DEF Calm, Submits
  <2>2. Advanced(owner, u)
    BY <1>1, <1>3, <1>12, <2>1, AdvancedTwice
  <2> QED
    BY <1>1, <1>12, <1>14, <2>2, AdvancedTwice
<1>16. \A k \in Kinds : n.link[k] = owner.link[k] \/ n.link[k] = c.link
  BY <1>3, <1>11, <1>14 DEF Submits
<1>17. \A k \in u.pendingStart \ u.pendingStop :
         k \in (owner.pendingStart \ owner.pendingStop) \union Started(b, u) /\ k \notin Stopped(b, u)
  <2>1. \A k \in b.pendingStart \ b.pendingStop : k \in owner.pendingStart \ owner.pendingStop
    BY <1>5 DEF Calm
  <2>2. \A k \in b.pendingStop : k \in u.pendingStop
    BY <1>3, <1>11 DEF Submits, Owner
  <2> QED
    BY <2>1, <2>2 DEF Started, Stopped
<1>18. ASSUME NEW k \in Kinds, StartOf(n, k)
       PROVE  /\ k \notin Stopped(b, u)
              /\ \/ k \in (owner.pendingStart \ owner.pendingStop) \union Started(b, u)
                 \/ StartOf(owner, k) /\ ~owner.job.cancel /\ n.job.at = owner.job.at
              /\ n.job.at > 1 => StartOf(owner, k) /\ n.job.at = owner.job.at
  <2>1. CASE n.job.at = 1 /\ k \in u.pendingStart \ u.pendingStop
    BY <1>17, <2>1
  <2>2. CASE StartOf(u, k) /\ ~u.job.cancel /\ n.job.at = u.job.at
    <3>1. JobKept(b, u)
      BY <1>11 DEF Submits
    <3>2. StartOf(b, k) /\ ~b.job.cancel /\ n.job.at = b.job.at
      BY <2>2, <3>1 DEF JobKept, StartOf
    <3>3. StartOf(owner, k) /\ ~owner.job.cancel /\ n.job.at = owner.job.at
      BY <1>3, <3>2 DEF StartOf, Idle
    <3>4. k \notin Stopped(b, u)
      BY <1>11, <2>2, <3>2 DEF Submits, Stopped, StartOf
    <3> QED BY <3>3, <3>4
  <2> QED
    BY <1>14, <1>18, <2>1, <2>2
<1>19. Releases(b)
  BY <1>1, <1>2, WatchedReleases
<1>20. Releases(n)
  BY <1>2, <1>3, <1>11, <1>12, <1>13, <1>19, CommandedReleases
<1>21. ASSUME Returned(owner), "burnout" \notin Started(b, u)
       PROVE  Returned(n) /\ (ReturnOf(n, "burnout") => ReturnOf(owner, "burnout") \/ "burnout" \in Stopped(b, u))
  <2>1. CASE "burnout" \notin Kinds
    BY <1>14, <2>1 DEF Returned, ReturnOf, JobSound
  <2>2. CASE "burnout" \in Kinds
    <3>1. Returned(b) /\ "burnout" \notin u.pendingStart \ b.pendingStart
      BY <1>5, <1>21 DEF Calm, Started
    <3>2. /\ Returned(n)
          /\ ReturnOf(n, "burnout") => ReturnOf(b, "burnout") \/ "burnout" \in u.pendingStop \ b.pendingStop
      BY <1>2, <1>3, <1>11, <1>12, <1>13, <2>2, <3>1, CommandedReturned
    <3>3. ReturnOf(b, "burnout") => ReturnOf(owner, "burnout")
      BY <1>3, <1>4 DEF ReturnOf
    <3> QED
      BY <3>2, <3>3 DEF Stopped
  <2> QED BY <2>1, <2>2
<1>22. Chosen(b, u, n, c)
  <2>1. \A k \in n.pendingStart \ n.pendingStop :
          k \in (owner.pendingStart \ owner.pendingStop) \union Started(b, u) /\ k \notin Stopped(b, u)
    BY <1>14, <1>17
  <2> QED
    BY <1>13, <1>14, <1>15, <1>16, <1>18, <1>20, <1>21, <2>1 DEF Chosen
<1> QED
  BY <1>22 DEF b, u, n

-----------------------------------------------------------------------------
\* What is kept when a call ends
LEMMA NothingWaits ==
  ASSUME taken' = <<>>, queue' = queue
  PROVE  Waiting' \subseteq Waiting
BY DEF Waiting

\* The parts of the invariant that are not about the history
LEMMA CallEndedKeeps ==
  ASSUME VehicleInv, step # "out", NEW c \in FullContext, c.link = link.generation, CallEnded(c),
         OwnerSound(owner', engaged), JobSound(owner'), JobLive(owner'), Advanced(owner, owner'),
         \A k \in Kinds : owner'.link[k] = owner.link[k] \/ owner'.link[k] = c.link,
         ~Idle(owner') => owner'.link[owner'.job.kind] = c.link,
         UNCHANGED <<queue, serviceVars, worldVars>>, owed' \in SUBSET Kinds, asked' \in BOOLEAN
  PROVE  /\ TypeInv' /\ OwnerInv' /\ LinkInv' /\ ConfirmInv' /\ ClosedInv' /\ CallInv'
         /\ PublishedInv' /\ OutInv' /\ GateInv'
<1>0. /\ queue' = queue /\ user' = user /\ racing' = racing /\ link' = link /\ engaged' = engaged /\ boots' = boots
      /\ step' = "out" /\ context' = NoContext /\ taken' = <<>>
  BY DEF serviceVars, worldVars, CallEnded
<1>1. PICK left \in FullContext : left.link = c.link /\ cache' = Status(owner', left)
  BY DEF CallEnded
<1>2. /\ cache'.phase = owner'.phase /\ cache'.operation = owner'.operation
      /\ cache'.lastOperation = owner'.lastOperation /\ cache'.link = c.link
      /\ cache'.enabled = {k \in Kinds : owner'.journalReady /\ Qualified(left, k)}
  BY <1>1 DEF Status
<1>3. owner' \in Owner
  BY DEF OwnerSound
<1>4. Waiting' \subseteq Waiting
  BY <1>0, NothingWaits
<1>5. gate = "vehicle" /\ gate' \in {"none", "vehicle"}
  BY DEF VehicleInv, GateInv, CallEnded
<1>6. cache' \in StatusType
  <2>1. cache' = [phase |-> owner'.phase, operation |-> owner'.operation, lastOperation |-> owner'.lastOperation,
                  link |-> left.link, enabled |-> {k \in Kinds : owner'.journalReady /\ Qualified(left, k)}]
    BY <1>1 DEF Status
  <2>2. left.link \in 0..MaxLink
    BY DEF FullContext
  <2>3. owner'.phase \in [Kinds -> CommandPhases] /\ owner'.operation \in [Kinds -> 0..MaxOperation]
        /\ owner'.lastOperation \in 0..MaxOperation
    BY <1>3 DEF Owner
  <2> QED BY <2>1, <2>2, <2>3 DEF StatusType
<1>7. TypeInv'
  <2>1. NoContext \in BriefContext
    BY BoundsAssumption DEF NoContext, BriefContext
  <2>2. <<>> \in Seq(Request)
    OBVIOUS
  <2>3. gate' \in {"none", "vehicle"} \union Users
    BY <1>5
  <2>4. /\ queue \in Seq(Request) /\ user \in [Users -> {"out", "asked", "claimed", "in"}] /\ racing \in BOOLEAN
        /\ link \in [generation : 0..MaxLink, up : BOOLEAN] /\ engaged \in SUBSET Kinds /\ boots \in Nat
    BY DEF VehicleInv, TypeInv
  <2> QED
    BY <1>0, <1>6, <2>1, <2>2, <2>3, <2>4 DEF TypeInv
<1>8. OwnerInv'
  BY <1>0 DEF OwnerInv
<1>9. LinkInv'
  <2>1. c.link \in Nat /\ cache.link \in Nat /\ \A r \in Waiting : r.link \in Nat
    <3>1. Waiting \subseteq Request
      BY DEF VehicleInv, TypeInv, Waiting
    <3> QED
      BY <3>1 DEF VehicleInv, TypeInv, StatusType, FullContext, Request
  <2>2. cache.link <= c.link /\ (link.up => link.generation # 0) /\ \A r \in Waiting : r.link <= cache.link
    BY DEF VehicleInv, LinkInv
  <2>3. \A k \in Kinds : owner.link[k] <= c.link
    BY DEF VehicleInv, LinkInv
  <2>4. cache'.link = c.link /\ c.link <= c.link
    BY <1>2, <2>1
  <2>5. \A r \in Waiting' : r.link <= cache'.link
    BY <1>4, <2>1, <2>2, <2>4
  <2>6. ~context'.connected
    BY <1>0 DEF NoContext
  <2>7. \A k \in Kinds : owner'.link[k] <= c.link
    BY <2>3, <2>4
  <2>8. ~Idle(owner') => cache'.link <= owner'.link[owner'.job.kind]
    BY <2>4
  <2> QED
    BY <1>0, <2>2, <2>4, <2>5, <2>6, <2>7, <2>8 DEF LinkInv
<1>10. ConfirmInv'
  <2>1. Waiting \subseteq Request
    BY DEF VehicleInv, TypeInv, Waiting
  <2>2. ASSUME NEW r \in Waiting', r.verb = "confirm" PROVE ConfirmSafe(r, owner', engaged')
    <3>1. ConfirmSafe(r, owner, engaged) /\ r.kind \in Kinds /\ r.operation \in Nat
      BY <1>4, <2>1, <2>2 DEF VehicleInv, ConfirmInv, Request
    <3>2. owner.lastOperation \in Nat /\ owner'.lastOperation \in Nat
      BY <1>3 DEF VehicleInv, OwnerInv, OwnerSound, Owner
    <3> QED
      BY <1>0, <3>1, <3>2 DEF ConfirmSafe, Advanced
  <2>3. \A k \in Kinds : cache'.operation[k] <= owner'.lastOperation
    BY <1>2 DEF OwnerSound
  <2>4. ASSUME NEW k \in Kinds, cache'.phase[k] \in {"verifying", "restart", "unknown"}
        PROVE  k \notin owner'.pendingStart /\ ~StartOf(owner', k)
    <3>1. owner'.phase[k] # "starting"
      BY <1>2, <2>4
    <3>2. k \notin owner'.pendingStart
      BY <3>1 DEF OwnerSound, SlotsSound, Frozen
    <3>3. ~StartOf(owner', k)
      BY <3>1 DEF StartOf, JobLive
    <3> QED BY <3>2, <3>3
  <2> QED
    BY <2>2, <2>3, <2>4 DEF ConfirmInv
<1>11. ClosedInv'
  <2>1. owner'.journalReady = owner.journalReady
    BY DEF Advanced
  <2>2. ~owner.journalReady => Waiting = {} /\ cache'.enabled = {}
    BY <1>2, <2>1 DEF VehicleInv, ClosedInv
  <2> QED
    BY <1>4, <2>1, <2>2 DEF VehicleInv, ClosedInv
<1>12. CallInv'
  BY <1>0 DEF CallInv
<1>13. PublishedInv'
  <2>1. ASSUME NEW k \in engaged PROVE owner'.phase[k] \in PendingPhases
    <3>1. k \in Kinds
      BY DEF VehicleInv, TypeInv
    <3> QED
      BY <3>1 DEF OwnerSound, SlotsSound, Frozen, PendingPhases
  <2>2. \A k \in Kinds : StartOf(owner', k) => owner'.phase[k] \in PendingPhases
    BY DEF StartOf, JobLive
  <2> QED
    BY <1>0, <1>2, <2>1, <2>2 DEF PublishedInv
<1>14. OutInv'
  BY <1>2 DEF OutInv
<1>15. GateInv'
  <2>1. \A u \in Users : user[u] \notin {"claimed", "in"}
    BY <1>5, WorkerAssumption DEF VehicleInv, GateInv
  <2>2. \A u \in Users : user[u] \in {"asked", "claimed"} => u # "clear"
    BY DEF VehicleInv, GateInv
  <2>3. gate' # "vehicle" => Idle(owner') /\ MaintenanceAllowed(owner'.phase, owner'.operation, FALSE)
    BY <1>5 DEF CallEnded
  <2>4. gate' # "vehicle" => Quiet(owner') /\ Allows(FALSE)'
    BY <2>3 DEF Quiet, Allows, MaintenanceAllowed
  <2> QED
    BY <1>0, <2>1, <2>2, <2>4 DEF GateInv
<1> QED
  BY <1>7, <1>8, <1>9, <1>10, <1>11, <1>12, <1>13, <1>14, <1>15

-----------------------------------------------------------------------------
\* The choice of a command: the history of what is owed and asked for
LEMMA AnsweredOwes ==
  ASSUME VehicleInv, step = "looked", NEW b, NEW u, NEW n, NEW c, Chosen(b, u, n, c), Answered(b, u, n),
         NEW k \in Kinds,
         \/ k \in n.pendingStart \ n.pendingStop
         \/ StartOf(n, k) /\ n.job.at <= ControlAt(k)
  PROVE  k \in owed'
<1>1. owed' = ((owed \union Started(b, u)) \ Stopped(b, u)) \intersect {j \in Kinds : n.phase[j] = "starting"}
  BY DEF Answered, Started, Stopped
<1>2. \A j \in owner.pendingStart \ owner.pendingStop : j \in owed
  BY DEF VehicleInv, OwedInv
<1>3. CASE k \in n.pendingStart \ n.pendingStop
  <2>1. n.phase[k] = "starting"
    BY <1>3 DEF Chosen, OwnerSound, SlotsSound, Frozen
  <2>2. k \in (owner.pendingStart \ owner.pendingStop) \union Started(b, u) /\ k \notin Stopped(b, u)
    BY <1>3 DEF Chosen
  <2> QED
    BY <1>1, <1>2, <2>1, <2>2
<1>4. CASE StartOf(n, k) /\ n.job.at <= ControlAt(k)
  <2>1. n.phase[k] = "starting"
    BY <1>4 DEF Chosen, JobLive, StartOf
  <2>2. k \notin Stopped(b, u)
    BY <1>4 DEF Chosen
  <2>3. \/ k \in (owner.pendingStart \ owner.pendingStop) \union Started(b, u)
        \/ StartOf(owner, k) /\ ~owner.job.cancel /\ n.job.at = owner.job.at
    BY <1>4 DEF Chosen
  <2>4. ASSUME StartOf(owner, k), ~owner.job.cancel, n.job.at = owner.job.at PROVE k \in owed
    <3>1. ~Idle(owner) /\ owner.job.at \in Nat
      BY <2>4 DEF VehicleInv, OwnerInv, JobSound, StartOf, DriverJob, Job
    <3>2. owner.job.at < ControlAt(k) \/ owner.job.at = ControlAt(k)
      BY <1>4, <2>4, <3>1 DEF ControlAt
    <3> QED
      BY <2>4, <3>2 DEF VehicleInv, OwedInv
  <2> QED
    BY <1>1, <1>2, <2>1, <2>2, <2>3, <2>4
<1> QED
  BY <1>3, <1>4

\* After an unasked Return of Burnout, another one is asked for.
LEMMA AnsweredReturns ==
  ASSUME VehicleInv, step = "looked", NEW b, NEW u, NEW n, NEW c, Chosen(b, u, n, c), Answered(b, u, n)
  PROVE  /\ returns' \in {0, 1}
         /\ returns' = 1 => Returned(n) /\ (ReturnOf(n, "burnout") => asked')
         /\ owed' \in SUBSET Kinds /\ asked' \in BOOLEAN
<1>1. returns' = IF "burnout" \in Started(b, u) THEN 0 ELSE returns
  BY DEF Answered, Started
<1>2. asked' = ((asked \/ "burnout" \in Stopped(b, u)) /\ ("burnout" \in n.pendingStop \/ ~Idle(n)))
  BY DEF Answered, Stopped
<1>3. owed' \in SUBSET Kinds
  BY DEF Answered
<1>4. returns \in {0, 1}
  BY DEF VehicleInv, ReturnsInv
<1>5. ASSUME returns' = 1 PROVE Returned(n) /\ (ReturnOf(n, "burnout") => asked')
  <2>1. returns = 1 /\ "burnout" \notin Started(b, u)
    BY <1>1, <1>5
  <2>2. Returned(owner) /\ (ReturnOf(owner, "burnout") => asked)
    BY <2>1 DEF VehicleInv, ReturnsInv
  <2>3. Returned(n) /\ (ReturnOf(n, "burnout") => ReturnOf(owner, "burnout") \/ "burnout" \in Stopped(b, u))
    BY <2>1, <2>2 DEF Chosen
  <2>4. ReturnOf(n, "burnout") => ~Idle(n)
    BY DEF ReturnOf
  <2> QED
    BY <1>2, <2>2, <2>3, <2>4
<1>6. asked' \in BOOLEAN
  BY <1>2
<1> QED
  BY <1>1, <1>3, <1>4, <1>5, <1>6

\* The call ends without a command.
LEMMA NothingChosen ==
  ASSUME VehicleInv, step = "looked", NEW b, NEW u, NEW n, NEW c \in FullContext,
         Chosen(b, u, n, c), Answered(b, u, n),
         c.link = link.generation, c.proof \intersect engaged = {}, c.connected => c.link # 0,
         Idle(n), NEW jobbed, EndCall(n, c, jobbed), UNCHANGED <<queue, serviceVars, worldVars>>
  PROVE  VehicleInv'
<1>0. OwnerSound(n, engaged) /\ JobSound(n) /\ JobLive(n) /\ Advanced(owner, n)
  BY DEF Chosen
<1>1. /\ OwnerSound(owner', engaged) /\ JobSound(owner') /\ JobLive(owner')
      /\ CallEnded(c) /\ Idle(owner') /\ Calm(n, owner')
  BY <1>0, EndCallSound
<1>2. owner \in Owner /\ n \in Owner /\ owner' \in Owner /\ \A k \in Kinds : owner.operation[k] <= owner.lastOperation
  BY <1>0, <1>1 DEF VehicleInv, OwnerInv, OwnerSound
<1>3. Advanced(n, owner') /\ owner'.link = n.link
  BY <1>1 DEF Calm
<1>4. Advanced(owner, owner')
  BY <1>0, <1>2, <1>3, AdvancedTwice
<1>5. \A k \in Kinds : owner'.link[k] = owner.link[k] \/ owner'.link[k] = c.link
  BY <1>3 DEF Chosen
<1>6. /\ returns' \in {0, 1}
      /\ returns' = 1 => Returned(n) /\ (ReturnOf(n, "burnout") => asked')
      /\ owed' \in SUBSET Kinds /\ asked' \in BOOLEAN
  BY AnsweredReturns
<1>7. /\ TypeInv' /\ OwnerInv' /\ LinkInv' /\ ConfirmInv' /\ ClosedInv' /\ CallInv'
      /\ PublishedInv' /\ OutInv' /\ GateInv'
  BY <1>1, <1>4, <1>5, <1>6, CallEndedKeeps
<1>8. OwedInv'
  <2>1. ASSUME NEW k \in owner'.pendingStart \ owner'.pendingStop PROVE k \in owed'
    <3>1. k \in n.pendingStart \ n.pendingStop
      BY <1>1 DEF Calm
    <3>2. k \in Kinds
      BY <1>2 DEF Owner
    <3> QED
      BY <3>1, <3>2, AnsweredOwes
  <2> QED
    BY <1>1, <2>1 DEF OwedInv, StartOf
<1>9. ReturnsInv'
  BY <1>1, <1>6 DEF ReturnsInv, Calm, ReturnOf, Releases
<1> QED
  BY <1>7, <1>8, <1>9 DEF VehicleInv

\* The call has a command to send.
LEMMA CommandChosen ==
  ASSUME VehicleInv, step = "looked", NEW b, NEW u, NEW n, NEW c \in FullContext,
         Chosen(b, u, n, c), Answered(b, u, n),
         c.link = link.generation, c.connected => c.link # 0, ~Idle(n),
         owner' = n, context' = Kept(c), step' = "send", taken' = <<>>,
         UNCHANGED <<cache, gate>>, UNCHANGED <<queue, serviceVars, worldVars>>
  PROVE  VehicleInv'
<1>0. /\ OwnerSound(n, engaged) /\ JobSound(n) /\ JobLive(n) /\ Advanced(owner, n) /\ n \in Owner
      /\ ~Doomed(n, c) /\ (IsControl(n.job) => n.job.marked) /\ (n.job.request = "start" => ~n.job.cancel)
  BY DEF Chosen, OwnerSound
<1>1. /\ queue' = queue /\ cache' = cache /\ gate' = gate /\ user' = user /\ racing' = racing
      /\ link' = link /\ engaged' = engaged /\ boots' = boots
  BY DEF serviceVars, worldVars
<1>2. /\ Kept(c) \in FullContext /\ Kept(c).proof = {}
      /\ Kept(c).link = c.link /\ Kept(c).connected = c.connected /\ Kept(c).known = c.known
  BY KeptFacts
<1>3. ~Doomed(n, Kept(c))
  BY <1>0, <1>2, SameDoom
<1>4. n.link[n.job.kind] = c.link /\ n.job.kind \in Kinds /\ n.journalReady
  BY <1>0 DEF Doomed, Scoped, JobSound
<1>5. Waiting' \subseteq Waiting
  BY <1>1, NothingWaits
<1>6. gate = "vehicle"
  BY DEF VehicleInv, GateInv
<1>7. /\ returns' \in {0, 1}
      /\ returns' = 1 => Returned(n) /\ (ReturnOf(n, "burnout") => asked')
      /\ owed' \in SUBSET Kinds /\ asked' \in BOOLEAN
  BY AnsweredReturns
<1>8. TypeInv'
  <2>1. <<>> \in Seq(Request)
    OBVIOUS
  <2>2. /\ queue \in Seq(Request) /\ user \in [Users -> {"out", "asked", "claimed", "in"}] /\ racing \in BOOLEAN
        /\ link \in [generation : 0..MaxLink, up : BOOLEAN] /\ engaged \in SUBSET Kinds /\ boots \in Nat
        /\ cache \in StatusType /\ gate \in {"none", "vehicle"} \union Users
    BY DEF VehicleInv, TypeInv
  <2>3. step' \in {"out", "looked", "send", "receive"} /\ step' \in {"send", "receive"}
    OBVIOUS
  <2> QED
    BY <1>1, <1>2, <1>7, <2>1, <2>2, <2>3 DEF TypeInv
<1>9. OwnerInv'
  BY <1>0, <1>1 DEF OwnerInv
<1>10. LinkInv'
  <2>1. cache.link <= link.generation /\ (link.up => link.generation # 0) /\ \A r \in Waiting : r.link <= cache.link
    BY DEF VehicleInv, LinkInv
  <2>2. \A r \in Waiting' : r.link <= cache'.link
    BY <1>1, <1>5, <2>1
  <2>3. c.link \in Nat /\ c.link <= c.link
    BY DEF FullContext
  <2>4. \A k \in Kinds : owner.link[k] <= c.link
    BY DEF VehicleInv, LinkInv
  <2>5. \A k \in Kinds : n.link[k] <= c.link
    BY <2>3, <2>4 DEF Chosen
  <2> QED
    BY <1>1, <1>2, <1>4, <2>1, <2>2, <2>5 DEF LinkInv
<1>11. ConfirmInv'
  <2>1. Waiting \subseteq Request
    BY DEF VehicleInv, TypeInv, Waiting
  <2>2. owner.lastOperation \in Nat /\ n.lastOperation \in Nat
    BY <1>0 DEF VehicleInv, OwnerInv, OwnerSound, Owner
  <2>3. ASSUME NEW r \in Waiting', r.verb = "confirm" PROVE ConfirmSafe(r, n, engaged)
    <3>1. ConfirmSafe(r, owner, engaged) /\ r.kind \in Kinds /\ r.operation \in Nat
      BY <1>5, <2>1, <2>3 DEF VehicleInv, ConfirmInv, Request
    <3> QED
      BY <1>0, <2>2, <3>1 DEF ConfirmSafe, Advanced
  <2>4. \A k \in Kinds : cache.operation[k] <= owner.lastOperation /\ cache.operation[k] \in Nat
    BY DEF VehicleInv, ConfirmInv, TypeInv, StatusType
  <2>5. \A k \in Kinds : cache.operation[k] <= n.lastOperation
    BY <1>0, <2>2, <2>4 DEF Advanced
  <2>6. ASSUME NEW k \in Kinds, cache.phase[k] \in {"verifying", "restart", "unknown"},
               cache.operation[k] = n.operation[k]
        PROVE  k \notin n.pendingStart /\ ~StartOf(n, k)
    <3>1. n.operation[k] = owner.operation[k]
      BY <1>0, <2>2, <2>4, <2>6 DEF Advanced
    <3>2. k \notin owner.pendingStart /\ ~StartOf(owner, k)
      BY <2>6, <3>1 DEF VehicleInv, ConfirmInv
    <3> QED
      BY <1>0, <3>1, <3>2 DEF Advanced
  <2> QED
    BY <1>1, <2>3, <2>5, <2>6 DEF ConfirmInv
<1>12. ClosedInv'
  BY <1>4 DEF ClosedInv
<1>13. CallInv'
  BY <1>0, <1>3 DEF CallInv
<1>14. PublishedInv'
  BY <1>1 DEF VehicleInv, PublishedInv, Chosen
<1>15. OutInv'
  BY DEF OutInv
<1>16. GateInv'
  BY <1>1, <1>6, WorkerAssumption DEF VehicleInv, GateInv
<1>17. OwedInv'
  <2>1. ASSUME NEW k \in n.pendingStart \ n.pendingStop PROVE k \in owed'
    <3>1. k \in Kinds
      BY <1>0 DEF Owner
    <3> QED
      BY <2>1, <3>1, AnsweredOwes
  <2>2. ASSUME NEW k \in Kinds, StartOf(n, k), n.job.at < ControlAt(k) \/ n.job.at = ControlAt(k) PROVE k \in owed'
    <3>1. n.job.at \in Nat
      BY <1>0, <2>2 DEF JobSound, DriverJob, Job
    <3>2. n.job.at <= ControlAt(k)
      BY <2>2, <3>1 DEF ControlAt
    <3> QED
      BY <2>2, <3>2, AnsweredOwes
  <2> QED
    BY <2>1, <2>2 DEF OwedInv
<1>18. ReturnsInv'
  BY <1>7 DEF ReturnsInv, Chosen
<1> QED
  BY <1>8, <1>9, <1>10, <1>11, <1>12, <1>13, <1>14, <1>15, <1>16, <1>17, <1>18 DEF VehicleInv

\* A call serves its requests and chooses a command.
LEMMA ChooseKeeps ==
  ASSUME VehicleInv, Choose
  PROVE  VehicleInv'
<1>0. step = "looked" /\ UNCHANGED <<queue, serviceVars, worldVars>>
  BY DEF Choose
<1> DEFINE Chooses(c, sv) ==
             LET b == Observe(owner, c, sv)
                 u == SubmitAll(b, c, sv)
                 n == NextCommand(u, c, sv)
             IN /\ IF Idle(n) THEN EndCall(n, c, ~Idle(owner))
                   ELSE /\ owner' = n /\ context' = Kept(c) /\ step' = "send" /\ taken' = <<>>
                        /\ UNCHANGED <<cache, gate>>
                /\ Answered(b, u, n)
           Sees(up) == Contexts(owner, context.link, up, IF Idle(owner) THEN Known ELSE {context.known, {}})
<1>1a. PICK up \in {context.connected, context.connected /\ link.up} :
         \E c \in Sees(up) :
         \E sv \in WritesOf(c, Confirmations # {} \/ (~Idle(owner) /\ IsControl(owner.job))) : Chooses(c, sv)
  BY DEF Choose
<1>1b. PICK c \in Sees(up) : \E sv : Chooses(c, sv)
  <2> HIDE DEF Chooses, Sees
  <2> QED BY <1>1a
<1>1. PICK sv : Chooses(c, sv)
  <2> HIDE DEF Chooses, Sees
  <2> QED BY <1>1b
<1>2. /\ c \in FullContext /\ c.link = context.link /\ c.link = link.generation
      /\ c.proof \intersect engaged = {} /\ (c.connected => c.link # 0)
      /\ JobLive(owner) \/ Doomed(owner, c)
  BY <1>0, ChoiceContext
<1> DEFINE b == Observe(owner, c, sv)
           u == SubmitAll(b, c, sv)
           n == NextCommand(u, c, sv)
<1>3. Chosen(b, u, n, c)
  BY <1>0, <1>2, OpenChoice, ClosedChoice
<1>4. /\ IF Idle(n) THEN EndCall(n, c, ~Idle(owner))
         ELSE /\ owner' = n /\ context' = Kept(c) /\ step' = "send" /\ taken' = <<>>
              /\ UNCHANGED <<cache, gate>>
      /\ Answered(b, u, n)
  BY <1>1
<1> HIDE DEF b, u, n
<1>5. CASE Idle(n)
  BY <1>0, <1>2, <1>3, <1>4, <1>5, NothingChosen
<1>6. CASE ~Idle(n)
  BY <1>0, <1>2, <1>3, <1>4, <1>6, CommandChosen
<1> QED
  BY <1>5, <1>6

-----------------------------------------------------------------------------
\* A call begins.
LEMMA LookKeeps ==
  ASSUME VehicleInv, Look
  PROVE  VehicleInv'
<1>0. /\ step = "out" /\ gate' = "vehicle" /\ taken' = queue /\ queue' = <<>> /\ step' = "looked"
      /\ cache' = cache /\ user' = user /\ racing' = racing /\ link' = link /\ engaged' = engaged
      /\ boots' = boots /\ owed' = owed /\ asked' = asked /\ returns' = returns
  BY DEF Look, serviceVars, worldVars, historyVars
<1> DEFINE Looks(c, sv) == /\ owner' = Observe(owner, c, sv)
                           /\ context' = [link |-> c.link, connected |-> c.connected, known |-> c.known]
           Sees(up) == Contexts(owner, link.generation, up, Known)
<1>1a. PICK up \in {link.up, link.up /\ "link" \notin Faults} :
         \E c \in Sees(up) : \E sv \in WritesOf(c, FALSE) : Looks(c, sv)
  BY DEF Look
<1>1b. PICK c \in Sees(up) : \E sv : Looks(c, sv)
  <2> HIDE DEF Looks, Sees
  <2> QED BY <1>1a
<1>1c. PICK sv : Looks(c, sv)
  <2> HIDE DEF Looks, Sees
  <2> QED BY <1>1b
<1>2. /\ link.generation \in 0..MaxLink /\ link.up \in BOOLEAN /\ cache \in StatusType /\ cache.link \in 0..MaxLink
      /\ queue \in Seq(Request) /\ engaged \in SUBSET Kinds
  BY DEF VehicleInv, TypeInv, StatusType
<1>3. up \in BOOLEAN /\ (up => link.up) /\ Known \in SUBSET SUBSET Kinds
  BY <1>2 DEF Known
<1>4. c \in Contexts(owner, link.generation, up, Known)
  BY <1>1b
<1>5. c \in FullContext
  <2>1. link.generation \in 0..MaxLink /\ up \in BOOLEAN
    BY <1>2, <1>3
  <2>2. Known \in SUBSET SUBSET Kinds
    BY <1>3
  <2> QED
    BY <1>4, <2>1, <2>2, ContextsFacts, Zenon
<1>6. c.link = link.generation /\ c.connected = up
  BY <1>2, <1>3, <1>4, ContextsFacts, SMT
<1>7. c.proof \intersect engaged = {}
  BY <1>2, <1>3, <1>4, ContextsFacts, SMT
<1>8. c.connected => c.link # 0
  BY <1>3, <1>6 DEF VehicleInv, LinkInv
<1> DEFINE t == Observe(owner, c, sv)
<1>9. owner' = t /\ context' = [link |-> c.link, connected |-> c.connected, known |-> c.known]
  BY <1>1c
<1>10. /\ OwnerSound(owner, engaged) /\ JobSound(owner) /\ Releases(owner) /\ owner \in Owner
       /\ JobLive(owner) /\ taken = <<>>
  BY <1>0 DEF VehicleInv, OwnerInv, ReturnsInv, OwnerSound, CallInv
<1>11. OwnerSound(t, engaged) /\ Watched(owner, t, c)
  BY <1>7, <1>10, ObserveSound
<1> HIDE DEF t, Looks, Sees
<1>12. JobSound(t) /\ (Idle(t) <=> Idle(owner)) /\ (JobLive(t) \/ Doomed(t, c))
  BY <1>10, <1>11, WatchedJob
<1>13. Calm(owner, t)
  BY <1>8, <1>10, <1>11, WatchedCalm
<1>14. /\ t \in Owner /\ t.link = owner.link /\ t.job = owner.job /\ t.journalReady = owner.journalReady
       /\ t.operation = owner.operation /\ t.lastOperation = owner.lastOperation
  BY <1>11 DEF Watched
<1>15. Waiting' \subseteq Waiting
  BY <1>0 DEF Waiting
<1>16. TypeInv'
  <2>1. [link |-> c.link, connected |-> c.connected, known |-> c.known] \in BriefContext
    BY <1>5 DEF FullContext, BriefContext
  <2>2. <<>> \in Seq(Request)
    OBVIOUS
  <2> QED
    BY <1>0, <1>9, <2>1, <2>2 DEF VehicleInv, TypeInv
<1>17. OwnerInv'
  BY <1>0, <1>9, <1>11, <1>12 DEF OwnerInv
<1>18. LinkInv'
  <2>1. context'.link = link.generation /\ (context'.connected => context'.link # 0)
    BY <1>6, <1>8, <1>9
  <2>2. \A r \in Waiting' : r.link <= cache'.link
    BY <1>0, <1>15 DEF VehicleInv, LinkInv
  <2>3. ~Idle(owner') => cache.link <= owner'.link[owner'.job.kind]
    BY <1>9, <1>12, <1>14 DEF VehicleInv, LinkInv
  <2>4. \A k \in Kinds : owner'.link[k] <= link.generation
    BY <1>9, <1>14 DEF VehicleInv, LinkInv
  <2> QED
    BY <1>0, <2>1, <2>2, <2>3, <2>4 DEF VehicleInv, LinkInv
<1>19. ConfirmInv'
  <2>1. \A k \in Kinds : k \in t.pendingStart => k \in owner.pendingStart
    BY <1>11 DEF Watched
  <2>2. \A k : StartOf(t, k) <=> StartOf(owner, k)
    BY <1>12, <1>14 DEF StartOf
  <2>3. t.pendingStart \subseteq owner.pendingStart
    BY <1>14, <2>1 DEF Owner
  <2>4. \A r : ConfirmSafe(r, owner, engaged) => ConfirmSafe(r, t, engaged)
    BY <1>14, <2>2, <2>3 DEF ConfirmSafe
  <2> QED
    BY <1>0, <1>9, <1>14, <1>15, <2>1, <2>2, <2>4 DEF VehicleInv, ConfirmInv
<1>20. ClosedInv'
  BY <1>0, <1>9, <1>14, <1>15 DEF VehicleInv, ClosedInv
<1>21. CallInv'
  <2>1. Doomed(owner', context') <=> Doomed(t, c)
    BY <1>9, SameDoom
  <2> QED
    BY <1>0, <1>9, <1>12, <2>1 DEF CallInv
<1>22. PublishedInv'
  BY <1>0, <1>9, <1>12, <1>14 DEF VehicleInv, PublishedInv, StartOf
<1>23. OutInv'
  BY <1>0 DEF OutInv
<1>24. GateInv'
  <2>1. \A u \in Users : user[u] \notin {"claimed", "in"}
    BY WorkerAssumption DEF Look, VehicleInv, GateInv
  <2> QED
    BY <1>0, <2>1 DEF VehicleInv, GateInv
<1>25. OwedInv'
  <2>1. \A k \in t.pendingStart \ t.pendingStop : k \in owed
    BY <1>13 DEF Calm, VehicleInv, OwedInv
  <2>2. \A k : StartOf(t, k) <=> StartOf(owner, k)
    BY <1>12, <1>14 DEF StartOf
  <2> QED
    BY <1>0, <1>9, <1>14, <2>1, <2>2 DEF VehicleInv, OwedInv
<1>26. ReturnsInv'
  <2>1. Releases(t)
    BY <1>10, <1>11, WatchedReleases
  <2>2. ReturnOf(t, "burnout") <=> ReturnOf(owner, "burnout")
    BY <1>12, <1>14 DEF ReturnOf
  <2> QED
    BY <1>0, <1>9, <1>13, <2>1, <2>2 DEF VehicleInv, ReturnsInv, Calm
<1> QED
  BY <1>16, <1>17, <1>18, <1>19, <1>20, <1>21, <1>22, <1>23, <1>24, <1>25, <1>26 DEF VehicleInv

-----------------------------------------------------------------------------
\* The command is written: what may now be in force is in the marker.
LEMMA EngagedSound ==
  ASSUME NEW s, NEW E, NEW F, OwnerSound(s, E), s.journalReady, F \subseteq s.stored.mask, F \subseteq s.marker.mask
  PROVE  OwnerSound(s, F)
<1>1. MarkerSound(s, F)
  BY DEF OwnerSound, MarkerSound
<1>2. SlotsSound(s, F)
  BY DEF OwnerSound, SlotsSound
<1> QED
  BY <1>1, <1>2 DEF OwnerSound

\* What is about to be sent: a control only when it is in the marker and its stored copy.
LEMMA SendsFacts ==
  ASSUME VehicleInv, step = "send"
  PROVE  LET k == owner.job.kind
         IN /\ ~Idle(owner) /\ k \in Kinds /\ owner.journalReady
            /\ IsControl(owner.job) /\ owner.job.request = "start" =>
                 /\ StartOf(owner, k) /\ ~owner.job.cancel /\ owner.job.at = ControlAt(k) /\ owner.job.at > 1
                 /\ k \in owner.marker.mask /\ k \in owner.stored.mask
            /\ IsControl(owner.job) /\ k = "burnout" => owner.job.at = 3
<1>1. /\ ~Idle(owner) /\ (IsControl(owner.job) => owner.job.marked)
      /\ owner.job.request = "start" => ~owner.job.cancel
  BY DEF VehicleInv, CallInv
<1>2. /\ owner.journalReady /\ DriverJob(owner.job) /\ owner.job.kind \in Kinds
      /\ owner.job.marked => owner.job.kind \in owner.marker.mask
      /\ owner.job.marked /\ owner.job.request = "start" => owner.job.kind \in owner.stored.mask
  BY <1>1 DEF VehicleInv, OwnerInv, JobSound
<1>3. IsControl(owner.job) => \/ owner.job.kind # "idle" /\ owner.job.at = 3
                              \/ owner.job.kind = "idle" /\ owner.job.request = "start" /\ owner.job.at = 4
                              \/ owner.job.kind = "idle" /\ owner.job.request = "return" /\ owner.job.at = 2
  BY <1>2, ControlPlace
<1>4. IsControl(owner.job) /\ owner.job.request = "start"
      => owner.job.at = ControlAt(owner.job.kind) /\ owner.job.at > 1
  BY <1>3 DEF ControlAt
<1> QED
  BY <1>1, <1>2, <1>3, <1>4 DEF StartOf

\* A command goes out: its control may be in force from now on.
LEMMA WrittenKeeps ==
  ASSUME VehicleInv, step = "send", Written, UNCHANGED <<queue, serviceVars, link, boots>>
  PROVE  VehicleInv'
<1> DEFINE k == owner.job.kind
<1>0. /\ owner' = owner /\ context' = context /\ taken' = taken /\ cache' = cache /\ gate' = gate
      /\ queue' = queue /\ user' = user /\ racing' = racing /\ link' = link /\ boots' = boots /\ step' = "receive"
  BY DEF Written, serviceVars
<1>1. engaged' \in CASE Sends("start") /\ k = "idle" -> {engaged, engaged \union {k}}
                     [] Sends("start") /\ k # "idle" -> {engaged \union {k}}
                     [] Sends("return")              -> {engaged, engaged \ {k}}
                     [] OTHER                        -> {engaged}
  BY DEF Written, Outgoing
<1>2. /\ owed' = IF Sends("start") THEN owed \ {k} ELSE owed
      /\ asked' = (asked /\ ~(Sends("return") /\ k = "burnout"))
      /\ returns' = IF Sends("return") /\ k = "burnout" /\ ~asked THEN returns + 1 ELSE returns
  BY DEF Written, Outgoing
<1>3. /\ ~Idle(owner) /\ k \in Kinds /\ owner.journalReady
      /\ Sends("start") =>
           /\ StartOf(owner, k) /\ ~owner.job.cancel /\ owner.job.at = ControlAt(k) /\ owner.job.at > 1
           /\ k \in owner.marker.mask /\ k \in owner.stored.mask
      /\ Sends("return") /\ k = "burnout" => owner.job.at = 3
  BY SendsFacts DEF Sends, Outgoing
<1>4. Sends("return") => ReturnOf(owner, k) /\ ~Sends("start")
  BY <1>3 DEF Sends, Outgoing, ReturnOf
<1> HIDE DEF k
<1>5. engaged' \in {engaged, engaged \ {k}} \/ (Sends("start") /\ engaged' = engaged \union {k})
  <2>1. CASE Sends("start") /\ k = "idle"
    BY <1>1, <2>1
  <2>2. CASE Sends("start") /\ k # "idle"
    BY <1>1, <2>2
  <2>3. CASE Sends("return") /\ ~Sends("start")
    BY <1>1, <2>3
  <2>4. CASE ~Sends("return") /\ ~Sends("start")
    BY <1>1, <2>4
  <2> QED
    BY <2>1, <2>2, <2>3, <2>4
<1>6. \A j \in engaged' : j \in engaged \/ (j = k /\ Sends("start"))
  BY <1>5
<1>7. TypeInv'
  <2>1. engaged' \in SUBSET Kinds
    BY <1>3, <1>6 DEF VehicleInv, TypeInv
  <2>2. owed' \in SUBSET Kinds /\ asked' \in BOOLEAN
    BY <1>2 DEF VehicleInv, TypeInv
  <2>3. context \in FullContext /\ context.proof = {}
    BY DEF VehicleInv, TypeInv
  <2> QED
    BY <1>0, <2>1, <2>2, <2>3 DEF VehicleInv, TypeInv
<1>8. OwnerInv'
  <2>1. OwnerSound(owner, engaged) /\ JobSound(owner)
    BY DEF VehicleInv, OwnerInv
  <2>2. engaged \subseteq owner.stored.mask /\ engaged \subseteq owner.marker.mask
    BY <1>3, <2>1 DEF OwnerSound, MarkerSound, SlotsSound
  <2>3. engaged' \subseteq owner.stored.mask /\ engaged' \subseteq owner.marker.mask
    BY <1>3, <1>6, <2>2
  <2>4. OwnerSound(owner, engaged')
    BY <1>3, <2>1, <2>3, EngagedSound
  <2> QED
    BY <1>0, <2>1, <2>4 DEF OwnerInv
<1>9. Waiting' = Waiting
  BY <1>0 DEF Waiting
<1>10. LinkInv'
  BY <1>0, <1>9 DEF VehicleInv, LinkInv
<1>11. ConfirmInv'
  <2>1. ASSUME NEW r \in Waiting, r.verb = "confirm" PROVE ConfirmSafe(r, owner, engaged')
    <3>1. ConfirmSafe(r, owner, engaged)
      BY <2>1 DEF VehicleInv, ConfirmInv
    <3> QED
      BY <1>3, <1>6, <3>1 DEF ConfirmSafe
  <2> QED
    BY <1>0, <1>9, <2>1 DEF VehicleInv, ConfirmInv
<1>12. ClosedInv'
  BY <1>0, <1>9 DEF VehicleInv, ClosedInv
<1>13. CallInv'
  BY <1>0 DEF VehicleInv, CallInv
<1>14. PublishedInv'
  BY <1>0, <1>3, <1>6 DEF VehicleInv, PublishedInv
<1>15. OutInv'
  BY <1>0 DEF OutInv
<1>16. GateInv'
  BY <1>0 DEF VehicleInv, GateInv, Allows
<1>17. OwedInv'
  <2>1. k \notin owner.pendingStart
    BY <1>3 DEF VehicleInv, OwnerInv, JobSound, k
  <2>2. \A j \in owner.pendingStart \ owner.pendingStop : j \in owed'
    BY <1>2, <2>1 DEF VehicleInv, OwedInv
  <2>3. ASSUME NEW j \in Kinds, StartOf(owner, j), ~owner.job.cancel, owner.job.at < ControlAt(j) PROVE j \in owed'
    <3>1. j \in owed
      BY <2>3 DEF VehicleInv, OwedInv
    <3>2. j = k /\ owner.job.at \in Nat
      BY <1>3, <2>3 DEF StartOf, VehicleInv, OwnerInv, JobSound, DriverJob, Job, k
    <3>3. ~Sends("start")
      BY <1>3, <2>3, <3>2
    <3> QED
      BY <1>2, <3>1, <3>3
  <2> QED
    BY <1>0, <2>2, <2>3 DEF OwedInv
<1>18. ReturnsInv'
  <2>1. returns \in {0, 1} /\ Releases(owner) /\ asked \in BOOLEAN
    BY DEF VehicleInv, ReturnsInv, TypeInv
  <2>2. returns = 1 => Returned(owner) /\ (ReturnOf(owner, "burnout") => asked)
    BY DEF VehicleInv, ReturnsInv
  <2>3. CASE ~(Sends("return") /\ k = "burnout")
    BY <1>0, <1>2, <2>1, <2>2, <2>3 DEF ReturnsInv
  <2>4. CASE Sends("return") /\ k = "burnout"
    <3>1. ReturnOf(owner, "burnout") /\ owner.job.at = 3
      BY <1>3, <1>4, <2>4
    <3>2. returns' \in {0, 1}
      BY <1>2, <2>1, <2>2, <3>1
    <3>3. Returned(owner)
      <4>1. JobLive(owner) /\ owner.job.kind = "burnout" /\ owner.job.request = "return"
        BY <3>1 DEF VehicleInv, CallInv, ReturnOf
      <4>2. owner.phase["burnout"] = "stopping"
        BY <1>3, <4>1 DEF JobLive
      <4>3. owner.releaseAttempted /\ "burnout" \notin owner.pendingStop
        BY <2>1, <3>1, <4>1 DEF Releases
      <4> QED
        BY <4>1, <4>2, <4>3 DEF Returned, StartOf
    <3> QED
      BY <1>0, <2>1, <3>1, <3>2, <3>3 DEF ReturnsInv
  <2> QED
    BY <2>3, <2>4
<1> QED
  BY <1>7, <1>8, <1>10, <1>11, <1>12, <1>13, <1>14, <1>15, <1>16, <1>17, <1>18 DEF VehicleInv

-----------------------------------------------------------------------------
\* A call that had a command to send ends: its job goes on, or is over.
LEMMA CommandEnds ==
  ASSUME VehicleInv, step \in {"send", "receive"}, NEW s, OwnerSound(s, engaged), JobSound(s), JobLive(s),
         Calm(owner, s), Releases(s), Idle(s) \/ s.link[s.job.kind] = context.link,
         \A k \in Kinds : StartOf(s, k) => StartOf(owner, k) /\ s.job.at = owner.job.at + 1,
         ReturnOf(s, "burnout") => ReturnOf(owner, "burnout") /\ owner.job.at # 3,
         NEW c \in FullContext, c.link = context.link, c.proof = {}, c.connected => c.link # 0,
         EndCall(s, c, TRUE), UNCHANGED <<queue, serviceVars, worldVars, historyVars>>
  PROVE  VehicleInv'
<1>0. owed' = owed /\ asked' = asked /\ returns' = returns /\ UNCHANGED <<queue, serviceVars, worldVars>>
  BY DEF historyVars
<1>1. c.link = link.generation
  BY DEF VehicleInv, LinkInv
<1>2. c.proof \intersect engaged = {}
  OBVIOUS
<1>3. /\ OwnerSound(owner', engaged) /\ JobSound(owner') /\ JobLive(owner')
      /\ CallEnded(c) /\ (Idle(s) \/ owner' = s) /\ (Idle(s) => Idle(owner')) /\ Calm(s, owner')
  BY <1>2, EndCallSound
<1>4. owner \in Owner /\ s \in Owner /\ owner' \in Owner /\ \A k \in Kinds : owner.operation[k] <= owner.lastOperation
  BY <1>3 DEF VehicleInv, OwnerInv, OwnerSound
<1>5. Calm(owner, owner')
  BY <1>3, <1>4, CalmTwice
<1>6. Advanced(owner, owner') /\ owner'.link = owner.link
  BY <1>5 DEF Calm
<1>7. ~Idle(owner') => owner'.link[owner'.job.kind] = c.link
  BY <1>3
<1>8. owed' \in SUBSET Kinds /\ asked' \in BOOLEAN
  BY <1>0 DEF VehicleInv, TypeInv
<1>9. /\ TypeInv' /\ OwnerInv' /\ LinkInv' /\ ConfirmInv' /\ ClosedInv' /\ CallInv'
      /\ PublishedInv' /\ OutInv' /\ GateInv'
  BY <1>0, <1>1, <1>3, <1>6, <1>7, <1>8, CallEndedKeeps
<1>10. OwedInv'
  <2>1. \A k \in owner'.pendingStart \ owner'.pendingStop : k \in owed'
    BY <1>0, <1>5 DEF Calm, VehicleInv, OwedInv
  <2>2. ASSUME NEW k \in Kinds, StartOf(owner', k), owner'.job.at < ControlAt(k) \/ owner'.job.at = ControlAt(k)
        PROVE  k \in owed'
    <3>1. owner' = s /\ StartOf(s, k)
      BY <1>3, <2>2 DEF StartOf
    <3>2. StartOf(owner, k) /\ s.job.at = owner.job.at + 1
      BY <3>1
    <3>3. owner.job.at \in Nat
      BY <3>2 DEF StartOf, VehicleInv, OwnerInv, JobSound, DriverJob, Job
    <3>4. ~owner.job.cancel
      BY <3>2 DEF StartOf, VehicleInv, CallInv
    <3>5. owner.job.at < ControlAt(k)
      BY <2>2, <3>1, <3>2, <3>3 DEF ControlAt
    <3> QED
      BY <1>0, <3>2, <3>4, <3>5 DEF VehicleInv, OwedInv
  <2> QED
    BY <2>1, <2>2 DEF OwedInv
<1>11. ReturnsInv'
  <2>1. returns \in {0, 1} /\ (returns = 1 => Returned(owner))
    BY DEF VehicleInv, ReturnsInv
  <2>2. returns = 1 => Returned(owner')
    BY <1>5, <2>1 DEF Calm
  <2>3. returns = 1 /\ ReturnOf(owner', "burnout") => asked
    <3>1. ReturnOf(owner', "burnout") => ReturnOf(s, "burnout")
      BY <1>3 DEF ReturnOf
    <3> QED
      BY <3>1 DEF VehicleInv, ReturnsInv
  <2>4. Releases(owner')
    BY <1>3 DEF Releases, ReturnOf
  <2> QED
    BY <1>0, <2>1, <2>2, <2>3, <2>4 DEF ReturnsInv
<1> QED
  BY <1>9, <1>10, <1>11 DEF VehicleInv

\* What is said of a job holds when there is none.
LEMMA EndedJob ==
  ASSUME NEW s, Idle(s)
  PROVE  /\ JobSound(s) /\ JobLive(s) /\ Releases(s) /\ ~ReturnOf(s, "burnout")
         /\ \A k : ~StartOf(s, k)
BY DEF JobSound, JobLive, Releases, ReturnOf, StartOf

\* The worker's context, once it has a command to send
LEMMA CallContext ==
  ASSUME VehicleInv, step \in {"send", "receive"}
  PROVE  /\ context \in FullContext /\ context.proof = {} /\ (context.connected => context.link # 0)
         /\ OwnerSound(owner, engaged) /\ JobSound(owner) /\ JobLive(owner) /\ ~Idle(owner) /\ owner \in Owner
         /\ owner.journalReady /\ owner.job.kind \in Kinds /\ ~Doomed(owner, context) /\ Releases(owner)
         /\ \A k \in Kinds : owner.operation[k] <= owner.lastOperation
<1>1. /\ OwnerSound(owner, engaged) /\ JobSound(owner) /\ JobLive(owner) /\ ~Idle(owner) /\ ~Doomed(owner, context)
      /\ Releases(owner)
  BY DEF VehicleInv, OwnerInv, CallInv, ReturnsInv
<1> QED
  BY <1>1 DEF VehicleInv, TypeInv, LinkInv, OwnerSound, JobSound

\* The transfer failed: the job is dropped, and its control is uncertain.
LEMMA TransferFailedKeeps ==
  ASSUME VehicleInv, step \in {"send", "receive"}, TransferFailed,
         UNCHANGED <<queue, serviceVars, worldVars, historyVars>>
  PROVE  VehicleInv'
<1> DEFINE t == TransportFailed(owner)
<1>1. OwnerSound(t, engaged) /\ Ends(owner, t, owner.job.kind)
  BY CallContext, TransportFailedSound
<1>2. EndCall(t, context, TRUE)
  BY DEF TransferFailed
<1> HIDE DEF t
<1>3. Idle(t)
  BY <1>1 DEF Ends
<1>4. Calm(owner, t)
  BY <1>1, CallContext, EndsCalm
<1>5. JobSound(t) /\ JobLive(t) /\ Releases(t) /\ ~ReturnOf(t, "burnout") /\ \A k : ~StartOf(t, k)
  BY <1>3, EndedJob
<1>6. context \in FullContext /\ context.proof = {} /\ (context.connected => context.link # 0)
  BY CallContext
<1> QED
  BY <1>1, <1>2, <1>3, <1>4, <1>5, <1>6, CommandEnds

\* Burnout's button was let go: its Start is given up before it is written.
LEMMA HoldLostKeeps ==
  ASSUME VehicleInv, step \in {"send", "receive"}, HoldLost,
         UNCHANGED <<queue, serviceVars, worldVars, historyVars>>
  PROVE  VehicleInv'
<1>1. PICK c \in Aged(context) : EndCall(TransportFailed(Observe(owner, c, "ok")), c, TRUE)
  BY DEF HoldLost
<1>2. context \in FullContext /\ context.proof = {} /\ (context.connected => context.link # 0)
  BY CallContext
<1>3. c \in FullContext /\ c.proof = {} /\ c.link = context.link /\ (c.connected => c.link # 0)
  BY <1>2, AgedFacts
<1>4. /\ OwnerSound(owner, engaged) /\ JobSound(owner) /\ ~Idle(owner) /\ owner \in Owner
      /\ owner.journalReady /\ owner.job.kind \in Kinds /\ \A k \in Kinds : owner.operation[k] <= owner.lastOperation
  BY CallContext
<1> DEFINE b == Observe(owner, c, "ok")
           t == TransportFailed(b)
<1>5. OwnerSound(b, engaged) /\ Watched(owner, b, c)
  BY <1>3, <1>4, ObserveSound
<1>6. EndCall(t, c, TRUE)
  BY <1>1
<1> HIDE DEF b
<1>7. b \in Owner /\ b.job = owner.job /\ b.journalReady /\ ~Idle(b)
  BY <1>4, <1>5 DEF Watched, Idle
<1>8. OwnerSound(t, engaged) /\ Ends(b, t, b.job.kind)
  BY <1>4, <1>5, <1>7, TransportFailedSound
<1> HIDE DEF t
<1>9. Idle(t)
  BY <1>8 DEF Ends
<1>10. Calm(owner, t)
  <2>1. Calm(owner, b)
    BY <1>3, <1>4, <1>5, WatchedCalm
  <2>2. Calm(b, t)
    BY <1>7, <1>8, EndsCalm
  <2> QED
    BY <1>4, <2>1, <2>2, CalmTwice
<1>11. JobSound(t) /\ JobLive(t) /\ Releases(t) /\ ~ReturnOf(t, "burnout") /\ \A k : ~StartOf(t, k)
  BY <1>9, EndedJob
<1> QED
  BY <1>3, <1>6, <1>8, <1>9, <1>10, <1>11, CommandEnds

\* What a reply makes of the job, for the history
LEMMA FedFacts ==
  ASSUME NEW s, NEW E, OwnerSound(s, E), JobSound(s), Releases(s), NEW c, c.connected => c.link # 0,
         NEW seen \in Owner, Watched(s, seen, c), NEW t \in Owner, Fed(seen, t), JobSound(t), JobLive(t)
  PROVE  /\ Calm(s, t) /\ Releases(t) /\ t.link = s.link /\ t.job.kind = s.job.kind
         /\ \A k \in Kinds : StartOf(t, k) => StartOf(s, k) /\ t.job.at = s.job.at + 1
         /\ ReturnOf(t, "burnout") => ReturnOf(s, "burnout") /\ s.job.at # 3
<1>1. s \in Owner /\ \A k \in Kinds : s.operation[k] <= s.lastOperation
  BY DEF OwnerSound
<1>2. seen.job = s.job /\ seen.link = s.link /\ (Idle(seen) <=> Idle(s))
  BY DEF Watched, Idle
<1>3. ~Idle(seen) /\ ~Idle(t) /\ t.link = seen.link /\ t.job.kind = seen.job.kind
  BY DEF Fed
<1>4. Calm(s, t)
  <2>1. Calm(s, seen)
    BY <1>1, WatchedCalm
  <2>2. Calm(seen, t)
    BY FedCalm
  <2> QED
    BY <1>1, <2>1, <2>2, CalmTwice
<1>5. ASSUME NEW k \in Kinds, StartOf(t, k) PROVE StartOf(s, k) /\ t.job.at = s.job.at + 1
  BY <1>2, <1>3, <1>5 DEF StartOf, Fed
<1>6. ASSUME ReturnOf(t, "burnout") PROVE ReturnOf(s, "burnout") /\ s.job.at # 3
  <2>1. /\ t.job.kind = "burnout" /\ t.job.request = "return"
        /\ t.job.request = seen.job.request /\ t.job.at = seen.job.at + 1
    BY <1>6 DEF ReturnOf, Fed
  <2>2. DriverJob(t.job) /\ t.job \in Job
    BY <1>3 DEF JobSound, DriverJob
  <2>3. t.job.at <= 3
    BY <2>1, <2>2, JobAt DEF Count
  <2>4. s.job.at # 3
    BY <1>2, <2>1, <2>3
  <2> QED
    BY <1>2, <1>3, <2>1, <2>4 DEF ReturnOf
<1>7. Releases(t)
  <2> SUFFICES ASSUME ReturnOf(t, "burnout") PROVE t.releaseAttempted /\ "burnout" \notin t.pendingStop
    BY DEF Releases
  <2>1. Releases(seen)
    BY <1>1, WatchedReleases
  <2>2. ReturnOf(seen, "burnout")
    BY <1>2, <1>6 DEF ReturnOf
  <2>3. t.job.kind = "burnout" /\ t.job.request = "return" /\ seen.job.kind = "burnout" /\ seen.job.request = "return"
    BY <2>2 DEF ReturnOf
  <2>4. t.phase["burnout"] = "stopping" /\ t.phase = seen.phase /\ t.pendingStop = seen.pendingStop
        /\ t.releaseAttempted = seen.releaseAttempted
    BY <1>3, <2>3 DEF JobLive, Fed
  <2>5. JobLive(seen)
    BY <2>3, <2>4 DEF JobLive, PendingPhases, LivePhases
  <2> QED
    BY <2>1, <2>2, <2>4, <2>5 DEF Releases
<1> QED
  BY <1>2, <1>3, <1>4, <1>5, <1>6, <1>7

\* A reply arrives, within time or late.
LEMMA ReplyKeeps ==
  ASSUME VehicleInv, step = "receive", NEW c \in Aged(context), NEW reply \in Replies, NEW sv,
         EndCall(Feed(owner, c, reply, sv), c, TRUE), UNCHANGED <<queue, serviceVars, worldVars, historyVars>>
  PROVE  VehicleInv'
<1>1. context \in FullContext /\ context.proof = {} /\ (context.connected => context.link # 0)
  BY CallContext
<1>2. /\ c \in FullContext /\ c.proof = {} /\ c.link = context.link /\ c.connected = context.connected
      /\ c.known = context.known /\ (c.connected => c.link # 0) /\ c.proof \intersect engaged = {}
  BY <1>1, AgedFacts
<1>3. /\ OwnerSound(owner, engaged) /\ JobSound(owner) /\ JobLive(owner) /\ ~Idle(owner) /\ owner \in Owner
      /\ owner.journalReady /\ owner.job.kind \in Kinds /\ ~Doomed(owner, context) /\ Releases(owner)
      /\ \A k \in Kinds : owner.operation[k] <= owner.lastOperation
  BY CallContext
<1>4. ~Doomed(owner, c)
  BY <1>2, <1>3, SameDoom
<1> DEFINE t == Feed(owner, c, reply, sv)
<1>5. /\ OwnerSound(t, engaged)
      /\ \E seen \in Owner :
           /\ Watched(owner, seen, c)
           /\ \/ Fed(seen, t) /\ JobSound(t) /\ JobLive(t)
              \/ \E done \in Owner : Ends(seen, done, owner.job.kind) /\ Watched(done, t, c)
  BY <1>2, <1>3, <1>4, FeedSound
<1>6. EndCall(t, c, TRUE)
  OBVIOUS
<1> HIDE DEF t
<1>7. PICK seen \in Owner :
        /\ Watched(owner, seen, c)
        /\ \/ Fed(seen, t) /\ JobSound(t) /\ JobLive(t)
           \/ \E done \in Owner : Ends(seen, done, owner.job.kind) /\ Watched(done, t, c)
  BY <1>5
<1>8. t \in Owner
  BY <1>5 DEF OwnerSound
<1>9. CASE Fed(seen, t) /\ JobSound(t) /\ JobLive(t)
  <2>1. /\ Calm(owner, t) /\ Releases(t) /\ t.link = owner.link /\ t.job.kind = owner.job.kind
        /\ \A k \in Kinds : StartOf(t, k) => StartOf(owner, k) /\ t.job.at = owner.job.at + 1
        /\ ReturnOf(t, "burnout") => ReturnOf(owner, "burnout") /\ owner.job.at # 3
    BY <1>2, <1>3, <1>7, <1>8, <1>9, FedFacts
  <2>2. t.link[t.job.kind] = context.link
    BY <1>2, <1>4, <2>1 DEF Doomed, Scoped
  <2> QED
    BY <1>2, <1>5, <1>6, <1>9, <2>1, <2>2, CommandEnds
<1>10. CASE \E done \in Owner : Ends(seen, done, owner.job.kind) /\ Watched(done, t, c)
  <2>1. PICK done \in Owner : Ends(seen, done, owner.job.kind) /\ Watched(done, t, c)
    BY <1>10
  <2>2. seen.job = owner.job /\ ~Idle(seen)
    BY <1>3, <1>7 DEF Watched, Idle
  <2>3. Idle(t)
    BY <2>1 DEF Ends, Watched, Idle
  <2>4. Calm(owner, t)
    <3>1. Calm(owner, seen)
      BY <1>2, <1>3, <1>7, WatchedCalm
    <3>2. Calm(seen, done)
      BY <2>1, <2>2, EndsCalm
    <3>3. Calm(done, t)
      BY <1>2, <2>1, WatchedCalm
    <3>4. Calm(owner, done)
      BY <1>3, <3>1, <3>2, CalmTwice
    <3> QED
      BY <1>3, <3>3, <3>4, CalmTwice
  <2>5. JobSound(t) /\ JobLive(t) /\ Releases(t) /\ ~ReturnOf(t, "burnout") /\ \A k : ~StartOf(t, k)
    BY <2>3, EndedJob
  <2> QED
    BY <1>2, <1>5, <1>6, <2>3, <2>4, <2>5, CommandEnds
<1> QED
  BY <1>7, <1>9, <1>10

\* The command is sent, or it fails.
LEMMA SendKeeps ==
  ASSUME VehicleInv, Send
  PROVE  VehicleInv'
<1>1. step = "send" /\ UNCHANGED <<queue, serviceVars, link, boots>>
  BY DEF Send
<1>2. CASE Written
  BY <1>1, <1>2, WrittenKeeps
<1>3. CASE (TransferFailed \/ HoldLost) /\ UNCHANGED <<engaged, historyVars>>
  <2>1. UNCHANGED <<queue, serviceVars, worldVars, historyVars>>
    BY <1>1, <1>3 DEF worldVars
  <2> QED
    BY <1>1, <1>3, <2>1, TransferFailedKeeps, HoldLostKeeps
<1> QED
  BY <1>2, <1>3 DEF Send

\* The wait for the reply ends, one way or the other.
LEMMA ReceiveKeeps ==
  ASSUME VehicleInv, Receive
  PROVE  VehicleInv'
<1>1. step = "receive" /\ UNCHANGED <<queue, serviceVars, worldVars, historyVars>>
  BY DEF Receive
<1>2. CASE TransferFailed
  BY <1>1, <1>2, TransferFailedKeeps
<1>3. CASE ~TransferFailed
  <2>1. PICK c \in Aged(context), reply \in Truthful,
             sv \in WritesOf(context, Sends("return") /\ Outgoing.kind = "abs") :
          EndCall(Feed(owner, c, reply, sv), c, TRUE)
    BY <1>3 DEF Receive
  <2>2. Truthful \subseteq Replies
    BY DEF Truthful, Replies
  <2> QED
    BY <1>1, <2>1, <2>2, ReplyKeeps
<1> QED
  BY <1>2, <1>3

-----------------------------------------------------------------------------
\* A request is queued, or dropped when there is no place.
LEMMA OfferKeeps ==
  ASSUME VehicleInv, NEW verb \in {"start", "stop", "confirm"}, NEW k \in Kinds, NEW operation \in 0..MaxOperation,
         Offer(verb, k, operation),
         verb = "confirm" => /\ k \notin engaged /\ cache.phase[k] \in {"verifying", "restart", "unknown"}
                             /\ operation = cache.operation[k]
  PROVE  VehicleInv'
<1>0. /\ owner' = owner /\ step' = step /\ context' = context /\ taken' = taken /\ cache' = cache /\ gate' = gate
      /\ user' = user /\ link' = link /\ engaged' = engaged /\ boots' = boots
      /\ owed' = owed /\ asked' = asked /\ returns' = returns /\ racing' = FALSE /\ k \in cache.enabled
  BY DEF Offer, callVars, worldVars, historyVars
<1> DEFINE r == [verb |-> verb, kind |-> k, operation |-> operation, link |-> cache.link]
<1>1. queue' = IF Len(queue) < QueueLength THEN Append(queue, r) ELSE queue
  BY DEF Offer
<1>2. r \in Request
  BY DEF VehicleInv, TypeInv, StatusType, Request
<1>3. r.verb = verb /\ r.kind = k /\ r.operation = operation /\ r.link = cache.link
  OBVIOUS
<1> HIDE DEF r
<1>4. queue \in Seq(Request)
  BY DEF VehicleInv, TypeInv
<1>5. queue' \in Seq(Request)
  BY <1>1, <1>2, <1>4
<1>6. Waiting' \subseteq Waiting \union {r}
  <2>1. ASSUME NEW i \in 1..Len(queue') PROVE queue'[i] \in {queue[j] : j \in 1..Len(queue)} \union {r}
    BY <1>1, <1>2, <1>4
  <2> QED
    BY <1>0, <2>1 DEF Waiting
<1>7. TypeInv'
  BY <1>0, <1>5 DEF VehicleInv, TypeInv
<1>8. OwnerInv' /\ CallInv' /\ PublishedInv' /\ OutInv' /\ OwedInv' /\ ReturnsInv'
  BY <1>0 DEF VehicleInv, OwnerInv, CallInv, PublishedInv, OutInv, OwedInv, ReturnsInv
<1>9. GateInv'
  BY <1>0 DEF VehicleInv, GateInv, Allows
<1>10. LinkInv'
  <2>1. cache.link <= cache.link
    BY DEF VehicleInv, TypeInv, StatusType
  <2>2. \A x \in Waiting' : x.link <= cache.link
    BY <1>3, <1>6, <2>1 DEF VehicleInv, LinkInv
  <2> QED
    BY <1>0, <2>2 DEF VehicleInv, LinkInv
<1>11. ConfirmInv'
  <2>1. verb = "confirm" => ConfirmSafe(r, owner, engaged)
    BY <1>3 DEF VehicleInv, ConfirmInv, ConfirmSafe
  <2>2. \A x \in Waiting' : x.verb = "confirm" => ConfirmSafe(x, owner, engaged)
    BY <1>3, <1>6, <2>1 DEF VehicleInv, ConfirmInv
  <2> QED
    BY <1>0, <2>2 DEF VehicleInv, ConfirmInv
<1>12. ClosedInv'
  BY <1>0 DEF VehicleInv, ClosedInv
<1> QED
  BY <1>7, <1>8, <1>9, <1>10, <1>11, <1>12 DEF VehicleInv

\* A client asks for a Start, a Stop or a confirmation.
LEMMA RequestKeeps ==
  ASSUME VehicleInv, NEW k \in Kinds, OfferStart(k) \/ OfferStop(k) \/ OfferConfirm(k)
  PROVE  VehicleInv'
<1>1. cache.lastOperation \in 0..MaxOperation /\ cache.operation[k] \in 0..MaxOperation
  BY DEF VehicleInv, TypeInv, StatusType
<1>2. CASE OfferStart(k)
  <2>1. cache.lastOperation + 1 \in 0..MaxOperation /\ Offer("start", k, cache.lastOperation + 1)
    BY <1>1, <1>2, BoundsAssumption DEF OfferStart
  <2> QED
    BY <2>1, OfferKeeps
<1>3. CASE OfferStop(k)
  <2>1. Offer("stop", k, cache.operation[k])
    BY <1>3 DEF OfferStop
  <2> QED
    BY <1>1, <2>1, OfferKeeps
<1>4. CASE OfferConfirm(k)
  <2>1. /\ Offer("confirm", k, cache.operation[k]) /\ k \notin engaged
        /\ cache.phase[k] \in {"verifying", "restart", "unknown"}
    BY <1>4 DEF OfferConfirm
  <2> QED
    BY <1>1, <2>1, OfferKeeps
<1> QED
  BY <1>2, <1>3, <1>4

\* What a service reads of the owner is what it is, when the worker is out.
LEMMA AllowedSound ==
  ASSUME VehicleInv, gate # "vehicle", NEW u, RuntimeAllows(u)
  PROVE  Allows(FALSE) /\ (u = "config" => Allows(TRUE))
<1>1. cache.phase = owner.phase /\ cache.operation = owner.operation
  BY DEF VehicleInv, GateInv, OutInv
<1> QED
  BY <1>1 DEF RuntimeAllows, Allows, MaintenanceAllowed

\* A maintenance service asks, claims the gate, asks again, works, or leaves.
LEMMA MaintenanceKeeps ==
  ASSUME VehicleInv, NEW u \in Users, Maintenance(u)
  PROVE  VehicleInv'
<1>0. /\ owner' = owner /\ step' = step /\ context' = context /\ taken' = taken /\ cache' = cache /\ queue' = queue
      /\ link' = link /\ engaged' = engaged /\ boots' = boots
      /\ owed' = owed /\ asked' = asked /\ returns' = returns
  BY DEF Maintenance, callVars, worldVars, historyVars
<1>1. Waiting' = Waiting
  BY <1>0 DEF Waiting
<1>2. /\ OwnerInv' /\ CallInv' /\ PublishedInv' /\ OutInv' /\ OwedInv' /\ ReturnsInv'
      /\ LinkInv' /\ ConfirmInv' /\ ClosedInv'
  BY <1>0, <1>1 DEF VehicleInv, OwnerInv, CallInv, PublishedInv, OutInv, OwedInv, ReturnsInv,
                    LinkInv, ConfirmInv, ClosedInv
<1>3. /\ user \in [Users -> {"out", "asked", "claimed", "in"}] /\ racing \in BOOLEAN
      /\ gate \in {"none", "vehicle"} \union Users
  BY DEF VehicleInv, TypeInv
<1>4. u # "none" /\ u # "vehicle" /\ \A v \in Users : v # "none" /\ v # "vehicle"
  BY WorkerAssumption
<1>5. /\ user' \in [Users -> {"out", "asked", "claimed", "in"}] /\ racing' \in BOOLEAN
      /\ gate' \in {"none", "vehicle"} \union Users
  BY <1>3 DEF Maintenance, AskMaintenance, ClaimMaintenance, ClaimUnasked, RecheckMaintenance,
              LeaveMaintenance, Released, UserTo
<1>6. TypeInv'
  BY <1>0, <1>5 DEF VehicleInv, TypeInv
<1>7. GateInv'
  <2>1. CASE AskMaintenance(u)
    <3>1. user' = [user EXCEPT ![u] = "asked"] /\ gate' = gate /\ u # "clear" /\ user[u] = "out"
      BY <2>1 DEF AskMaintenance, UserTo
    <3>2. gate # "vehicle" /\ u \in {"config", "ota"} => Allows(FALSE)
      BY <2>1, AllowedSound DEF AskMaintenance
    <3> QED
      BY <1>0, <1>3, <3>1, <3>2 DEF VehicleInv, GateInv, Allows
  <2>2. CASE ClaimMaintenance(u)
    <3>1. user[u] = "asked" /\ u # "clear"
      BY <2>2 DEF ClaimMaintenance, VehicleInv, GateInv
    <3>2. CASE gate # "none"
      <4>1. user' = [user EXCEPT ![u] = "out"] /\ gate' = gate
        BY <2>2, <3>2 DEF ClaimMaintenance, UserTo
      <4> QED
        BY <1>0, <1>3, <4>1 DEF VehicleInv, GateInv, Allows
    <3>3. CASE gate = "none"
      <4>1. user' = [user EXCEPT ![u] = IF u = "ota" THEN "in" ELSE "claimed"] /\ gate' = u
        BY <2>2, <3>3 DEF ClaimMaintenance, UserTo
      <4>2. \A v \in Users : user[v] \notin {"claimed", "in"}
        BY <1>4, <3>3 DEF VehicleInv, GateInv
      <4> QED
        BY <1>0, <1>3, <1>4, <3>1, <3>3, <4>1, <4>2 DEF VehicleInv, GateInv, Allows
    <3> QED BY <3>2, <3>3
  <2>3. CASE ClaimUnasked(u)
    <3>1. user' = [user EXCEPT ![u] = "in"] /\ gate' = u /\ gate = "none" /\ u = "clear"
      BY <2>3 DEF ClaimUnasked, UserTo
    <3>2. \A v \in Users : user[v] \notin {"claimed", "in"}
      BY <1>4, <3>1 DEF VehicleInv, GateInv
    <3> QED
      BY <1>0, <1>3, <1>4, <3>1, <3>2 DEF VehicleInv, GateInv, Allows
  <2>4. CASE RecheckMaintenance(u)
    <3>1. user[u] = "claimed" /\ gate = u /\ u # "clear"
      BY <2>4 DEF RecheckMaintenance, VehicleInv, GateInv
    <3>2. CASE RuntimeAllows(u)
      <4>1. user' = [user EXCEPT ![u] = "in"] /\ gate' = gate
        BY <2>4, <3>2 DEF RecheckMaintenance, UserTo
      <4>2. Allows(FALSE) /\ (u = "config" => Allows(TRUE))
        BY <1>4, <3>1, <3>2, AllowedSound
      <4> QED
        BY <1>0, <1>3, <3>1, <4>1, <4>2 DEF VehicleInv, GateInv, Allows
    <3>3. CASE ~RuntimeAllows(u)
      <4>1. user' = [user EXCEPT ![u] = "out"] /\ gate' = "none"
        BY <2>4, <3>3 DEF RecheckMaintenance, Released, UserTo
      <4> QED
        BY <1>0, <1>3, <1>4, <3>1, <4>1 DEF VehicleInv, GateInv, Allows
    <3> QED BY <3>2, <3>3
  <2>5. CASE LeaveMaintenance(u)
    <3>1. user' = [user EXCEPT ![u] = "out"] /\ gate' = "none" /\ user[u] = "in" /\ gate = u
      BY <2>5 DEF LeaveMaintenance, Released, UserTo, VehicleInv, GateInv
    <3> QED
      BY <1>0, <1>3, <1>4, <3>1 DEF VehicleInv, GateInv, Allows
  <2> QED
    BY <2>1, <2>2, <2>3, <2>4, <2>5 DEF Maintenance
<1> QED
  BY <1>2, <1>6, <1>7 DEF VehicleInv

-----------------------------------------------------------------------------
\* The link, the vehicle and the clock
LEMMA LinkKeeps ==
  ASSUME VehicleInv, Connect \/ Disconnect
  PROVE  VehicleInv'
<1>0. /\ owner' = owner /\ step' = step /\ context' = context /\ taken' = taken /\ cache' = cache /\ queue' = queue
      /\ gate' = gate /\ user' = user /\ racing' = racing /\ engaged' = engaged /\ boots' = boots
      /\ owed' = owed /\ asked' = asked /\ returns' = returns
  BY DEF Connect, Disconnect, callVars, sharedVars, serviceVars, historyVars
<1>1. Waiting' = Waiting
  BY <1>0 DEF Waiting
<1>2. /\ OwnerInv' /\ CallInv' /\ PublishedInv' /\ OutInv' /\ OwedInv' /\ ReturnsInv'
      /\ ConfirmInv' /\ ClosedInv' /\ GateInv'
  BY <1>0, <1>1 DEF VehicleInv, OwnerInv, CallInv, PublishedInv, OutInv, OwedInv, ReturnsInv,
                    ConfirmInv, ClosedInv, GateInv, Allows
<1>3. link \in [generation : 0..MaxLink, up : BOOLEAN] /\ cache.link \in Nat /\ owner \in Owner
  BY DEF VehicleInv, TypeInv, StatusType, OwnerInv, OwnerSound
<1>4. CASE Connect
  <2>1. link' = [generation |-> link.generation + 1, up |-> TRUE] /\ step = "out" /\ link.generation < MaxLink
    BY <1>4 DEF Connect
  <2>2. link' \in [generation : 0..MaxLink, up : BOOLEAN]
    BY <1>3, <2>1, BoundsAssumption
  <2>3. \A k \in Kinds : owner.link[k] \in Nat
    BY <1>3 DEF Owner
  <2>4. LinkInv'
    BY <1>0, <1>1, <1>3, <2>1, <2>3 DEF VehicleInv, LinkInv
  <2>5. TypeInv'
    BY <1>0, <2>2 DEF VehicleInv, TypeInv
  <2> QED
    BY <1>2, <2>4, <2>5 DEF VehicleInv
<1>5. CASE Disconnect
  <2>1. link' = [link EXCEPT !.up = FALSE]
    BY <1>5 DEF Disconnect
  <2>2. link' \in [generation : 0..MaxLink, up : BOOLEAN] /\ link'.generation = link.generation /\ ~link'.up
    BY <1>3, <2>1
  <2>3. LinkInv'
    BY <1>0, <1>1, <2>2 DEF VehicleInv, LinkInv
  <2>4. TypeInv'
    BY <1>0, <2>2 DEF VehicleInv, TypeInv
  <2> QED
    BY <1>2, <2>3, <2>4 DEF VehicleInv
<1> QED
  BY <1>4, <1>5

\* The owner stays sound when less is in force.
LEMMA LessEngaged ==
  ASSUME NEW s, NEW E, NEW F, OwnerSound(s, E), F \subseteq E
  PROVE  OwnerSound(s, F)
BY DEF OwnerSound, MarkerSound, SlotsSound

\* The ignition cycle ends whatever was in force.
LEMMA KeyCycleKeeps ==
  ASSUME VehicleInv, KeyCycle
  PROVE  VehicleInv'
<1>0. /\ owner' = owner /\ step' = step /\ context' = context /\ taken' = taken /\ cache' = cache /\ queue' = queue
      /\ gate' = gate /\ user' = user /\ racing' = racing /\ engaged' = {} /\ boots' = boots /\ link' = link
      /\ owed' = owed /\ asked' = asked /\ returns' = returns
  BY DEF KeyCycle, callVars, sharedVars, serviceVars, historyVars
<1>1. Waiting' = Waiting
  BY <1>0 DEF Waiting
<1>2. CallInv' /\ OutInv' /\ OwedInv' /\ ReturnsInv' /\ ClosedInv' /\ GateInv' /\ LinkInv' /\ TypeInv'
  <2>1. CallInv' /\ OutInv' /\ OwedInv' /\ ReturnsInv'
    BY <1>0 DEF VehicleInv, CallInv, OutInv, OwedInv, ReturnsInv
  <2>2. ClosedInv' /\ LinkInv'
    BY <1>0, <1>1 DEF VehicleInv, ClosedInv, LinkInv
  <2>3. GateInv'
    BY <1>0 DEF VehicleInv, GateInv, Allows
  <2>4. TypeInv'
    BY <1>0 DEF VehicleInv, TypeInv
  <2> QED BY <2>1, <2>2, <2>3, <2>4
<1>3. OwnerInv'
  BY <1>0, LessEngaged DEF VehicleInv, OwnerInv
<1>4. PublishedInv'
  BY <1>0 DEF VehicleInv, PublishedInv
<1>5. ConfirmInv'
  <2>1. \A r : ConfirmSafe(r, owner, engaged) => ConfirmSafe(r, owner, {})
    BY DEF ConfirmSafe
  <2> QED
    BY <1>0, <1>1, <2>1 DEF VehicleInv, ConfirmInv
<1> QED
  BY <1>2, <1>3, <1>4, <1>5 DEF VehicleInv

\* The time of a control, or of the fallback, is over.
LEMMA ExpireKeeps ==
  ASSUME VehicleInv, Expire
  PROVE  VehicleInv'
<1>0. /\ step' = step /\ context' = context /\ taken' = taken /\ cache' = cache /\ queue' = queue
      /\ gate' = gate /\ user' = user /\ racing' = racing /\ engaged' = engaged /\ boots' = boots /\ link' = link
      /\ owed' = owed /\ asked' = asked /\ returns' = returns
  BY DEF Expire, sharedVars, serviceVars, worldVars, historyVars
<1>1. PICK x \in Lapsed : owner' = [owner EXCEPT !.expired = @ \union {x}]
  BY DEF Expire
<1>2. x \in Kinds \union {"fallback"}
  BY DEF Lapsed
<1>3. OwnerSound(owner, engaged) /\ JobSound(owner) /\ owner \in Owner
  BY DEF VehicleInv, OwnerInv, OwnerSound
<1> DEFINE t == [owner EXCEPT !.expired = @ \union {x}]
<1>4. t \in Owner
  BY <1>2, <1>3 DEF Owner
<1>5. /\ t.phase = owner.phase /\ t.operation = owner.operation /\ t.link = owner.link
      /\ t.lastOperation = owner.lastOperation /\ t.pendingStart = owner.pendingStart
      /\ t.pendingStop = owner.pendingStop /\ t.releaseAttempted = owner.releaseAttempted
      /\ t.job = owner.job /\ t.marker = owner.marker /\ t.stored = owner.stored
  BY <1>3 DEF Owner
<1>6. t.journalReady = owner.journalReady
  BY <1>3 DEF Owner
<1>7. owner' = t
  BY <1>1
<1> HIDE DEF t
<1>8. (Idle(t) <=> Idle(owner)) /\ (Quiet(t) <=> Quiet(owner)) /\ (JobLive(t) <=> JobLive(owner))
      /\ \A k : (StartOf(t, k) <=> StartOf(owner, k)) /\ (ReturnOf(t, k) <=> ReturnOf(owner, k))
  BY <1>5 DEF Idle, Quiet, JobLive, StartOf, ReturnOf
<1>9. JobSound(t) /\ (Releases(t) <=> Releases(owner)) /\ (Returned(t) <=> Returned(owner))
      /\ \A c : Doomed(t, c) <=> Doomed(owner, c)
  <2>1. JobSound(t)
    BY <1>3, <1>5, <1>6, <1>8 DEF JobSound
  <2>2. Releases(t) <=> Releases(owner)
    BY <1>5, <1>8 DEF Releases
  <2>3. Returned(t) <=> Returned(owner)
    BY <1>5, <1>8 DEF Returned
  <2>4. \A c : Doomed(t, c) <=> Doomed(owner, c)
    BY <1>5 DEF Doomed, Scoped
  <2> QED BY <2>1, <2>2, <2>3, <2>4
<1>10. OwnerSound(t, engaged)
  <2>1. MarkerSound(t, engaged)
    BY <1>3, <1>5 DEF OwnerSound, MarkerSound
  <2>2. SlotsSound(owner, engaged) => SlotsSound(t, engaged)
    BY <1>5 DEF SlotsSound
  <2>3. Frozen(owner) => Frozen(t)
    BY <1>5, <1>8 DEF Frozen
  <2>4. \A k \in Kinds : t.operation[k] <= t.lastOperation /\ (t.phase[k] = "restart" => k = "abs")
    BY <1>3, <1>5 DEF OwnerSound
  <2> QED
    BY <1>3, <1>4, <1>6, <2>1, <2>2, <2>3, <2>4 DEF OwnerSound
<1>11. Waiting' = Waiting
  BY <1>0 DEF Waiting
<1>12. TypeInv' /\ OwnerInv'
  BY <1>0, <1>7, <1>9, <1>10 DEF VehicleInv, TypeInv, OwnerInv
<1>13. LinkInv'
  BY <1>0, <1>5, <1>7, <1>8, <1>11 DEF VehicleInv, LinkInv
<1>14. ConfirmInv'
  <2>1. \A r : ConfirmSafe(r, owner, engaged) => ConfirmSafe(r, t, engaged)
    BY <1>5, <1>8 DEF ConfirmSafe
  <2> QED
    BY <1>0, <1>5, <1>7, <1>8, <1>11, <2>1 DEF VehicleInv, ConfirmInv
<1>15. ClosedInv'
  BY <1>0, <1>6, <1>7, <1>11 DEF VehicleInv, ClosedInv
<1>16. CallInv'
  BY <1>0, <1>5, <1>7, <1>8, <1>9 DEF VehicleInv, CallInv
<1>17. PublishedInv' /\ OutInv' /\ GateInv'
  BY <1>0, <1>5, <1>7, <1>8 DEF VehicleInv, PublishedInv, OutInv, GateInv, Allows
<1>18. OwedInv' /\ ReturnsInv'
  BY <1>0, <1>5, <1>7, <1>8, <1>9 DEF VehicleInv, OwedInv, ReturnsInv
<1> QED
  BY <1>12, <1>13, <1>14, <1>15, <1>16, <1>17, <1>18 DEF VehicleInv

-----------------------------------------------------------------------------
\* A boot: nothing is under way, and what the marker holds is uncertain.
LEMMA BootSound ==
  ASSUME NEW s, NEW E \in SUBSET Kinds, OwnerSound(s, E), Idle(s), s.pendingStart = {}, s.pendingStop = {},
         \A k \in Kinds : s.link[k] = 0 /\ s.phase[k] \notin LivePhases
  PROVE  LET published == Status(s, NoContext)
         IN /\ published \in StatusType /\ published.enabled = {} /\ published.link = 0
            /\ published.phase = s.phase /\ published.operation = s.operation
            /\ \A k \in E : s.phase[k] \in PendingPhases
            /\ Quiet(s) /\ Returned(s) /\ JobSound(s) /\ JobLive(s) /\ Releases(s)
            /\ \A k : ~StartOf(s, k) /\ ~ReturnOf(s, k)
<1>1. s \in Owner
  BY DEF OwnerSound
<1>2. {k \in Kinds : s.journalReady /\ Qualified(NoContext, k)} = {}
  BY DEF Qualified, NoContext
<1>3. Status(s, NoContext) = [phase |-> s.phase, operation |-> s.operation, lastOperation |-> s.lastOperation,
                              link |-> 0, enabled |-> {}]
  BY <1>2 DEF Status, NoContext
<1>4. /\ s.phase \in [Kinds -> CommandPhases] /\ s.operation \in [Kinds -> 0..MaxOperation]
      /\ s.lastOperation \in 0..MaxOperation
  BY <1>1 DEF Owner
<1>5. \A k \in E : s.phase[k] \in PendingPhases
  BY DEF OwnerSound, SlotsSound, Frozen, PendingPhases
<1>6. JobSound(s) /\ JobLive(s) /\ Releases(s) /\ \A k : ~StartOf(s, k) /\ ~ReturnOf(s, k)
  BY DEF JobSound, JobLive, Releases, StartOf, ReturnOf
<1>7. Quiet(s) /\ Returned(s)
  BY <1>6 DEF Quiet, Returned, LivePhases
<1> QED
  BY <1>3, <1>4, <1>5, <1>6, <1>7, BoundsAssumption DEF StatusType

\* Power fails at any moment; only the stored marker is left.
LEMMA PowerFailsKeeps ==
  ASSUME VehicleInv, PowerFails
  PROVE  VehicleInv'
<1>0. /\ cache' = Status(owner', NoContext)
      /\ step' = "out" /\ context' = NoContext /\ taken' = <<>> /\ queue' = <<>>
      /\ gate' = "none" /\ user' = [u \in Users |-> "out"] /\ racing' = FALSE
      /\ link' = NoLink /\ owed' = {} /\ asked' = FALSE /\ engaged' = engaged /\ returns' = returns
      /\ boots' = boots + 1
  BY DEF PowerFails
<1>1. PICK ready \in BOOLEAN : owner' = Recorded(owner.stored, ready) /\ (ready \/ "journal" \in Faults)
  BY DEF PowerFails
<1> DEFINE t == Recorded(owner.stored, ready)
<1>2. owner.stored \in Marker /\ MarkerSound(owner, engaged)
  BY DEF VehicleInv, OwnerInv, OwnerSound, Owner
<1>3. /\ OwnerSound(t, engaged) /\ Idle(t) /\ t.pendingStart = {} /\ t.pendingStop = {} /\ t.journalReady = ready
      /\ \A k \in Kinds : t.link[k] = 0 /\ t.phase[k] \notin LivePhases
  BY <1>2, RecordedSound
<1>4. owner' = t
  BY <1>1
<1> HIDE DEF t
<1>5. engaged \in SUBSET Kinds /\ boots \in Nat /\ returns \in {0, 1}
  BY DEF VehicleInv, TypeInv, ReturnsInv
<1>6. /\ cache' \in StatusType /\ cache'.enabled = {} /\ cache'.link = 0
      /\ cache'.phase = t.phase /\ cache'.operation = t.operation
      /\ \A k \in engaged : t.phase[k] \in PendingPhases
      /\ Quiet(t) /\ Returned(t) /\ JobSound(t) /\ JobLive(t) /\ Releases(t)
      /\ \A k : ~StartOf(t, k) /\ ~ReturnOf(t, k)
  BY <1>0, <1>3, <1>4, <1>5, BootSound
<1>7. Waiting' = {}
  BY <1>0 DEF Waiting
<1>8. TypeInv'
  <2>1. <<>> \in Seq(Request) /\ NoContext \in BriefContext /\ NoLink \in [generation : 0..MaxLink, up : BOOLEAN]
    BY BoundsAssumption DEF NoContext, BriefContext, NoLink
  <2>2. step' \notin {"send", "receive"} /\ context' \in BriefContext
    BY <1>0, <2>1
  <2>3. user' \in [Users -> {"out", "asked", "claimed", "in"}] /\ boots' \in Nat /\ engaged' \in SUBSET Kinds
    BY <1>0, <1>5
  <2> QED
    BY <1>0, <1>6, <2>1, <2>2, <2>3 DEF TypeInv
<1>9. OwnerInv' /\ CallInv' /\ ClosedInv' /\ OutInv' /\ PublishedInv' /\ ReturnsInv'
  BY <1>0, <1>1, <1>3, <1>4, <1>5, <1>6, <1>7 DEF OwnerInv, CallInv, ClosedInv, OutInv, PublishedInv, ReturnsInv
<1>10. LinkInv'
  BY <1>0, <1>3, <1>4, <1>6, <1>7 DEF LinkInv, NoLink, NoContext
<1>11. ConfirmInv'
  BY <1>3, <1>4, <1>6, <1>7 DEF ConfirmInv, OwnerSound
<1>12. OwedInv'
  BY <1>3, <1>4, <1>6 DEF OwedInv
<1>13. GateInv'
  BY <1>0, <1>4, <1>6 DEF GateInv
<1> QED
  BY <1>8, <1>9, <1>10, <1>11, <1>12, <1>13 DEF VehicleInv

\* The first boot, with an empty marker
LEMMA InitHolds ==
  ASSUME VehicleInit
  PROVE  VehicleInv
<1>0. /\ owner = Recorded(NoMarker, TRUE) /\ cache = Status(owner, NoContext)
      /\ step = "out" /\ context = NoContext /\ taken = <<>> /\ queue = <<>>
      /\ gate = "none" /\ user = [u \in Users |-> "out"] /\ racing = FALSE
      /\ link = NoLink /\ engaged = {} /\ boots = 0 /\ owed = {} /\ asked = FALSE /\ returns = 0
  BY DEF VehicleInit
<1> DEFINE x == [stored |-> NoMarker]
           t == Recorded(x.stored, TRUE)
<1>1. x.stored \in Marker /\ MarkerSound(x, {})
  BY BoundsAssumption DEF NoMarker, Marker, MarkerSound, NoOperation
<1>2. /\ OwnerSound(t, {}) /\ Idle(t) /\ t.pendingStart = {} /\ t.pendingStop = {} /\ t.journalReady
      /\ \A k \in Kinds : t.link[k] = 0 /\ t.phase[k] \notin LivePhases
  <2> HIDE DEF x
  <2> QED BY <1>1, RecordedSound
<1>3. owner = t
  BY <1>0
<1> HIDE DEF t, x
<1>4. /\ cache \in StatusType /\ cache.enabled = {} /\ cache.link = 0
      /\ cache.phase = t.phase /\ cache.operation = t.operation
      /\ Quiet(t) /\ Returned(t) /\ JobSound(t) /\ JobLive(t) /\ Releases(t)
      /\ \A k : ~StartOf(t, k) /\ ~ReturnOf(t, k)
  BY <1>0, <1>2, <1>3, BootSound
<1>5. Waiting = {}
  BY <1>0 DEF Waiting
<1>6. TypeInv
  <2>1. <<>> \in Seq(Request) /\ NoContext \in BriefContext /\ NoLink \in [generation : 0..MaxLink, up : BOOLEAN]
    BY BoundsAssumption DEF NoContext, BriefContext, NoLink
  <2> QED
    BY <1>0, <1>4, <2>1 DEF TypeInv
<1>7. OwnerInv /\ CallInv /\ ClosedInv /\ OutInv /\ PublishedInv /\ ReturnsInv
  BY <1>0, <1>2, <1>3, <1>4, <1>5 DEF OwnerInv, CallInv, ClosedInv, OutInv, PublishedInv, ReturnsInv
<1>8. LinkInv
  <2>1. link.generation = 0 /\ ~link.up /\ ~context.connected
    BY <1>0 DEF NoLink, NoContext
  <2>2. cache.link <= link.generation
    BY <1>4, <2>1
  <2>3. Idle(owner) /\ \A k \in Kinds : owner.link[k] <= link.generation
    BY <1>2, <1>3, <2>1
  <2>4. step = "out"
    BY <1>0
  <2> QED
    BY <1>5, <2>1, <2>2, <2>3, <2>4 DEF LinkInv
<1>9. ConfirmInv
  BY <1>2, <1>3, <1>4, <1>5 DEF ConfirmInv, OwnerSound
<1>10. OwedInv
  BY <1>2, <1>3, <1>4 DEF OwedInv
<1>11. GateInv
  BY <1>0, <1>3, <1>4 DEF GateInv
<1> QED
  BY <1>6, <1>7, <1>8, <1>9, <1>10, <1>11 DEF VehicleInv

-----------------------------------------------------------------------------

\* Every step keeps the invariant.
LEMMA NextKeeps ==
  ASSUME VehicleInv, [VehicleNext]_commandVars
  PROVE  VehicleInv'
<1>1. CASE Worker
  BY <1>1, LookKeeps, ChooseKeeps, SendKeeps, ReceiveKeeps DEF Worker
<1>2. CASE \E k \in Kinds : OfferStart(k) \/ OfferStop(k) \/ OfferConfirm(k)
  BY <1>2, RequestKeeps
<1>3. CASE \E u \in Users : Maintenance(u)
  BY <1>3, MaintenanceKeeps
<1>4. CASE Connect \/ Disconnect
  BY <1>4, LinkKeeps
<1>5. CASE Expire
  BY <1>5, ExpireKeeps
<1>6. CASE KeyCycle
  BY <1>6, KeyCycleKeeps
<1>7. CASE PowerFails
  BY <1>7, PowerFailsKeeps
<1>8. CASE UNCHANGED commandVars
  <2>1. /\ owner' = owner /\ step' = step /\ context' = context /\ taken' = taken /\ cache' = cache /\ queue' = queue
        /\ gate' = gate /\ user' = user /\ racing' = racing /\ engaged' = engaged /\ boots' = boots /\ link' = link
        /\ owed' = owed /\ asked' = asked /\ returns' = returns
    BY <1>8 DEF commandVars, callVars, sharedVars, serviceVars, worldVars, historyVars
  <2>2. Waiting' = Waiting
    BY <2>1 DEF Waiting
  <2>3. TypeInv' /\ OwnerInv'
    BY <2>1 DEF VehicleInv, TypeInv, OwnerInv
  <2>4. LinkInv' /\ ConfirmInv' /\ ClosedInv'
    BY <2>1, <2>2 DEF VehicleInv, LinkInv, ConfirmInv, ClosedInv
  <2>5. CallInv' /\ PublishedInv' /\ OutInv' /\ OwedInv' /\ ReturnsInv'
    BY <2>1 DEF VehicleInv, CallInv, PublishedInv, OutInv, OwedInv, ReturnsInv
  <2>6. GateInv'
    BY <2>1 DEF VehicleInv, GateInv, Allows
  <2> QED
    BY <2>3, <2>4, <2>5, <2>6 DEF VehicleInv
<1> QED
  BY <1>1, <1>2, <1>3, <1>4, <1>5, <1>6, <1>7, <1>8 DEF VehicleNext

\* The invariant holds for every set of kinds and services, queue, bound and
\* choice of faults.
THEOREM VehicleInvariant == VehicleSpec => []VehicleInv
<1>1. VehicleInit => VehicleInv
  BY InitHolds
<1>2. VehicleInv /\ [VehicleNext]_commandVars => VehicleInv'
  BY NextKeeps
<1> QED
  BY <1>1, <1>2, PTL DEF VehicleSpec

\* EngagedIsRecorded: whatever may be in force in the vehicle is in the stored marker,
\* so that no crash can lose it.
THEOREM EngagedRecorded == VehicleSpec => []EngagedIsRecorded
<1>1. VehicleInv => EngagedIsRecorded
  BY DEF VehicleInv, OwnerInv, OwnerSound, MarkerSound, EngagedIsRecorded
<1> QED
  BY <1>1, VehicleInvariant, PTL

\* BurnoutIsExclusive: Burnout is never in force, pending or recorded beside another control.
THEOREM BurnoutExclusive == VehicleSpec => []BurnoutIsExclusive
<1>1. VehicleInv => BurnoutIsExclusive
  <2> SUFFICES ASSUME VehicleInv, "burnout" \in engaged PROVE engaged = {"burnout"}
    BY DEF BurnoutIsExclusive
  <2>1. engaged \subseteq owner.stored.mask /\ owner.stored.mask = {"burnout"}
    BY DEF VehicleInv, OwnerInv, OwnerSound, MarkerSound
  <2> QED BY <2>1
<1> QED
  BY <1>1, VehicleInvariant, PTL

\* EngagedIsPublished: what may be in force, clients are told of.
THEOREM EngagedPublished == VehicleSpec => []EngagedIsPublished
<1>1. VehicleInv => EngagedIsPublished
  BY DEF VehicleInv, PublishedInv, EngagedIsPublished
<1> QED
  BY <1>1, VehicleInvariant, PTL

\* ReturnsOnce: without a new Stop the Return of Burnout is sent once.
THEOREM ReturnsOnceOnly == VehicleSpec => []ReturnsOnce
<1>1. VehicleInv => ReturnsOnce
  BY DEF VehicleInv, ReturnsInv, ReturnsOnce
<1> QED
  BY <1>1, VehicleInvariant, PTL

\* StartsOnce: one accepted Start puts its control in force once.
THEOREM StartsOnceOnly == VehicleSpec => StartsOnce
<1>1. VehicleInv /\ [VehicleNext]_commandVars => [StartSent => owner.job.kind \in owed]_commandVars
  <2> SUFFICES ASSUME VehicleInv, StartSent PROVE owner.job.kind \in owed
    OBVIOUS
  <2>1. step = "send" /\ IsControl(owner.job) /\ owner.job.request = "start"
    BY DEF StartSent, Sends, Outgoing
  <2>2. /\ owner.job.kind \in Kinds /\ StartOf(owner, owner.job.kind) /\ ~owner.job.cancel
        /\ owner.job.at = ControlAt(owner.job.kind)
    BY <2>1, SendsFacts
  <2> QED
    BY <2>1, <2>2 DEF VehicleInv, OwedInv
<1> QED
  BY <1>1, VehicleInvariant, PTL DEF VehicleSpec, StartsOnce

\* What the gate excludes, when the journal has been read
LEMMA MaintenanceSafe ==
  ASSUME VehicleInv, owner.journalReady
  PROVE  MaintenanceExcludesControl
<1> SUFFICES ASSUME NEW u \in Users, user[u] = "in"
             PROVE  /\ gate = u /\ Idle(owner) /\ \A k \in Kinds : owner.phase[k] \notin LivePhases
                    /\ (u # "clear" => "burnout" \notin engaged) /\ (u = "config" => engaged = {})
  BY DEF MaintenanceExcludesControl
<1>1. gate = u /\ gate # "vehicle"
  BY WorkerAssumption DEF VehicleInv, GateInv
<1>2. Idle(owner) /\ \A k \in Kinds : owner.phase[k] \notin LivePhases
  BY <1>1 DEF VehicleInv, GateInv, Quiet
<1>3. \A k \in engaged : /\ k \in Kinds /\ owner.phase[k] \in PendingPhases /\ owner.operation[k] # NoOperation
                         /\ owner.phase[k] = "restart" => k = "abs"
  BY DEF VehicleInv, TypeInv, OwnerInv, OwnerSound, SlotsSound
<1>4. \A k \in engaged : owner.phase[k] \in {"unknown", "restart"}
  BY <1>2, <1>3 DEF PendingPhases
<1>5. u # "clear" => "burnout" \notin engaged
  BY <1>3, <1>4 DEF VehicleInv, GateInv, Allows, MaintenanceAllowed
<1>6. u = "config" => engaged = {}
  BY <1>3, <1>4 DEF VehicleInv, GateInv, Allows, MaintenanceAllowed
<1> QED
  BY <1>1, <1>2, <1>5, <1>6

\* MaintenanceExcludesControl: no service works while a control is under way. It takes a
\* journal that could be read: the first conjunct says it of the boots in which it was, the
\* second of all when reading it never fails.
THEOREM MaintenanceExcludes ==
  /\ VehicleSpec => [](owner.journalReady => MaintenanceExcludesControl)
  /\ "journal" \notin Faults => (VehicleSpec => []MaintenanceExcludesControl)
<1>1. VehicleInv => (owner.journalReady => MaintenanceExcludesControl)
  BY MaintenanceSafe
<1>2. VehicleSpec => [](owner.journalReady => MaintenanceExcludesControl)
  BY <1>1, VehicleInvariant, PTL
<1>3. ASSUME "journal" \notin Faults PROVE VehicleSpec => []MaintenanceExcludesControl
  <2>1. VehicleInv => owner.journalReady
    BY <1>3 DEF VehicleInv, ClosedInv
  <2> QED
    BY <1>2, <2>1, VehicleInvariant, PTL
<1> QED
  BY <1>2, <1>3
====
