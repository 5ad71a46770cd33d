--------------------------- MODULE Monitoring_proofs ---------------------------
(***************************************************************************)
(* Proofs about AdapterRoles, PollScheduler, AlertRules and AlertEvents:   *)
(* from the adapter that a reading comes from to the alert that it raises  *)
(* and the phone that hears of it, for any number of readings, alerts and  *)
(* events, queues and dwells of any length, and runs of any length.        *)
(*                                                                         *)
(* The routes agree because a source that has retired waits at the top of  *)
(* its loop with its link down until both have (RouteInv).  The evidence of*)
(* an exchange is sound because a link that is renewed takes the scope of  *)
(* its source away, and whatever is known of a source counts only within   *)
(* its scope (EvidenceInv).  A slot that passes a reading by is paid for by*)
(* the streak or by a reading less ahead of it (TurnInv).  What is pending *)
(* in an alert rule has been heard for as long, because the queue goes on  *)
(* from the last sample taken (Queued, PendingIsHeard).  The ring holds    *)
(* consecutive numbers, so that a phone's cursor separates what it has read*)
(* from what it has not (RingsInv, PhoneInv).                              *)
(***************************************************************************)
EXTENDS AdapterRoles, PollScheduler, AlertRules, AlertEvents, WellFoundedInduction, TLAPS

-----------------------------------------------------------------------------
(* The adapters and their roles: adapter_role_policy.c, main.c               *)

Places == {"loop", "barrier", "serve", "after", "connecting", "retiring"}
Links  == [up : BOOLEAN, adapter : Adapters, sees : Sources]
Probes == [half : BOOLEAN, roles : SUBSET Sources, contradicted : BOOLEAN]
Proofs == [observed : SUBSET Sources, roles : [Sources -> SUBSET Sources],
           fresh : SUBSET Sources, scoped : SUBSET Sources, primary : BOOLEAN]

RoleTypes ==
  /\ transport \in [Sources -> Adapters] /\ proof \in Proofs
  /\ exchange \in [pending : BOOLEAN, retired : SUBSET Sources]
  /\ place \in [Sources -> Places] /\ retired \in SUBSET Sources
  /\ link \in [Sources -> Links] /\ probe \in [Sources -> Probes]
  /\ shown \in [Sources -> SUBSET Sources]

\* A source that has retired waits, and one about to retire has closed its link.
RouteInv ==
  /\ RoutesAgree
  /\ \A s \in Sources :
       /\ s \in exchange.retired =>
            exchange.pending /\ s \in retired /\ place[s] = "loop" /\ ~link[s].up
       /\ place[s] = "retiring" => exchange.pending /\ s \in retired /\ ~link[s].up
       /\ place[s] = "connecting" => ~link[s].up

\* What counts as known of a source, its current link has shown.
Backed(p, links, seen) ==
  /\ \A s \in Sources :
       s \in p.scoped /\ s \in p.observed => links[s].up /\ p.roles[s] \subseteq seen[s]
  /\ Engine \in p.scoped /\ p.primary => links[Engine].up /\ Engine \in seen[Engine]

EvidenceInv ==
  /\ Backed(proof, link, shown)
  /\ \A s \in Sources : probe[s].roles \subseteq shown[s]

\* The inductive invariant
RoleInv == RoleTypes /\ RouteInv /\ EvidenceInv

-----------------------------------------------------------------------------
LEMMA SourcesAre ==
  /\ Sources = {0, 1} /\ Engine \in Sources /\ Gearbox \in Sources
  /\ \A s \in Sources : Other(s) \in Sources /\ Other(s) # s
  /\ \A s \in Sources : \A t \in Sources : t = s \/ t = Other(s)
  /\ \A a \in Adapters : Other(a) \in Adapters
  BY DEF Sources, Engine, Gearbox, Other, Adapters

LEMMA RestingTypes ==
  NoLink \in Links /\ NoProbe \in Probes /\ NoProof \in Proofs /\ ~NoLink.up
  /\ NoProbe.roles = {} /\ NoProof.observed = {} /\ ~NoProof.primary
  BY DEF NoLink, NoProbe, NoProof, Links, Probes, Proofs, Sources, Engine, Gearbox, Adapters

(* A scope that is given anew keeps the types and voids what is not backed. *)
LEMMA Scoping ==
  ASSUME NEW p \in Proofs, NEW s \in Sources
  PROVE  /\ Scope(p, s) \in Proofs /\ s \in Scope(p, s).scoped /\ p.scoped \subseteq Scope(p, s).scoped
         /\ \A links, seen : Backed(p, links, seen) => Backed(Scope(p, s), links, seen)
<1>1. CASE s \in p.scoped
  BY <1>1 DEF Scope
<1>2. CASE s \notin p.scoped
  <2> DEFINE q == Scope(p, s)
  <2>1. /\ q.scoped = p.scoped \union {s} /\ q.observed = p.observed \ {s}
        /\ q.fresh = p.fresh \ {s} /\ q.roles = [p.roles EXCEPT ![s] = {}]
        /\ q.primary = (p.primary /\ s # Engine)
    BY <1>2 DEF Scope, Proofs
  <2>2. q \in Proofs
    BY <1>2 DEF Scope, Proofs
  <2>3. ASSUME NEW links, NEW seen, Backed(p, links, seen) PROVE Backed(q, links, seen)
    <3> HIDE DEF q
    <3> QED
      BY <2>1, <2>3, SourcesAre DEF Backed, Proofs
  <2> QED
    BY <2>1, <2>2, <2>3
<1> QED
  BY <1>1, <1>2

(* A link that is renewed with its source unscoped leaves what is known backed. *)
LEMMA Unscoping ==
  ASSUME NEW p \in Proofs, NEW s \in Sources, NEW links, NEW seen, NEW links2, NEW seen2,
         Backed(p, links, seen),
         \A t \in Sources \ {s} : links2[t] = links[t] /\ seen2[t] = seen[t]
  PROVE  /\ [p EXCEPT !.scoped = @ \ {s}] \in Proofs
         /\ Backed([p EXCEPT !.scoped = @ \ {s}], links2, seen2)
<1> DEFINE q == [p EXCEPT !.scoped = @ \ {s}]
<1>1. /\ q \in Proofs /\ q.scoped = p.scoped \ {s} /\ q.observed = p.observed
      /\ q.roles = p.roles /\ q.primary = p.primary
  BY DEF Proofs
<1> HIDE DEF q
<1>2. Backed(q, links2, seen2)
  BY <1>1, SourcesAre DEF Backed
<1> QED
  BY <1>1, <1>2 DEF q

(* What is backed stays so when nothing but the fresh set changes. *)
LEMMA Aging ==
  ASSUME NEW p \in Proofs, NEW F \in SUBSET Sources
  PROVE  /\ [p EXCEPT !.fresh = F] \in Proofs
         /\ \A links, seen : Backed(p, links, seen) => Backed([p EXCEPT !.fresh = F], links, seen)
<1> DEFINE q == [p EXCEPT !.fresh = F]
<1>1. /\ q \in Proofs /\ q.scoped = p.scoped /\ q.observed = p.observed
      /\ q.roles = p.roles /\ q.primary = p.primary
  BY DEF Proofs
<1> HIDE DEF q
<1>2. ASSUME NEW links, NEW seen, Backed(p, links, seen) PROVE Backed(q, links, seen)
  BY <1>1, <1>2 DEF Backed
<1> QED
  BY <1>1, <1>2 DEF q

(* Nothing is known when the program starts, and no link is up. *)
LEMMA RolesStart == RoleInit => RoleInv
<1> SUFFICES ASSUME RoleInit PROVE RoleInv
  OBVIOUS
<1>1. RoleTypes
  BY RestingTypes DEF RoleInit, RoleTypes, Places, Sources, Engine, Gearbox, Adapters
<1>2. RouteInv
  BY RestingTypes DEF RoleInit, RouteInv, RoutesAgree
<1>3. EvidenceInv
  BY RestingTypes, SourcesAre DEF RoleInit, EvidenceInv, Backed
<1> QED
  BY <1>1, <1>2, <1>3 DEF RoleInv

(* A step of the loop *)
LEMMA LoopKeeps ==
  ASSUME RoleInv, NEW s \in Sources, NEW where \in {"loop", "barrier"}, LoopTo(s, where)
  PROVE  RoleInv'
<1> USE DEF RoleInv
<1>1. RoleTypes'
  <2>1. proof' \in Proofs
    BY Scoping DEF LoopTo, RoleTypes
  <2>2. probe' \in [Sources -> Probes]
    BY RestingTypes DEF LoopTo, RoleTypes
  <2>3. place' \in [Sources -> Places]
    BY DEF LoopTo, To, RoleTypes, Places
  <2> QED
    BY <2>1, <2>2, <2>3 DEF LoopTo, RoleTypes
<1>2. RouteInv'
  BY SourcesAre DEF LoopTo, Waits, To, RoleTypes, RouteInv, RoutesAgree
<1>3. EvidenceInv'
  <2>1. Backed(proof', link', shown')
    BY Scoping DEF LoopTo, EvidenceInv, RoleTypes
  <2>2. \A t \in Sources : probe'[t].roles \subseteq shown'[t]
    BY RestingTypes DEF LoopTo, EvidenceInv, RoleTypes
  <2> QED
    BY <2>1, <2>2 DEF EvidenceInv
<1> QED
  BY <1>1, <1>2, <1>3

(* The barrier, with an exchange pending or without *)
LEMMA BarrierKeeps ==
  ASSUME RoleInv, NEW s \in Sources, NEW from \in {"barrier", "after"},
         NEW on \in {"serve", "loop"}, Barrier(s, from, on)
  PROVE  RoleInv'
<1> USE DEF RoleInv
<1>1. CASE exchange.pending
  <2>1. /\ Renewed(s, NoLink) /\ proof' = [proof EXCEPT !.scoped = @ \ {s}]
        /\ To(s, "retiring") /\ retired' = retired \union {s}
        /\ UNCHANGED <<transport, exchange>> /\ place[s] = from
    BY <1>1 DEF Barrier
  <2>2. /\ link' = [link EXCEPT ![s] = NoLink] /\ probe' = [probe EXCEPT ![s] = NoProbe]
        /\ shown' = [shown EXCEPT ![s] = {}] /\ place' = [place EXCEPT ![s] = "retiring"]
    BY <2>1 DEF Renewed, To
  <2>3. proof' \in Proofs /\ Backed(proof', link', shown')
    BY <2>1, <2>2, Unscoping DEF EvidenceInv, RoleTypes
  <2>4. RoleTypes'
    BY <2>1, <2>2, <2>3, RestingTypes DEF RoleTypes, Places
  <2>5. RouteInv'
    BY <1>1, <2>1, <2>2, RestingTypes DEF RoleTypes, RouteInv, RoutesAgree
  <2>6. EvidenceInv'
    BY <2>2, <2>3, RestingTypes DEF EvidenceInv, RoleTypes
  <2> QED
    BY <2>4, <2>5, <2>6
<1>2. CASE ~exchange.pending
  <2>1. /\ place[s] = from /\ place' = [place EXCEPT ![s] = on]
        /\ UNCHANGED <<retired, link, probe, shown, proof, transport, exchange>>
    BY <1>2 DEF Barrier, To
  <2>2. RoleTypes' /\ EvidenceInv'
    BY <2>1 DEF RoleTypes, Places, EvidenceInv
  <2>3. RouteInv'
    BY <2>1 DEF RoleTypes, RouteInv, RoutesAgree
  <2> QED
    BY <2>2, <2>3
<1> QED
  BY <1>1, <1>2

(* The policy is told; the second source that retires exchanges the bindings, *)
(* while both links are down.                                                 *)
LEMMA RetireKeeps ==
  ASSUME RoleInv, NEW s \in Sources, RetireSource(s)
  PROVE  RoleInv'
<1> USE DEF RoleInv
<1>1. /\ place[s] = "retiring" /\ place' = [place EXCEPT ![s] = "loop"]
      /\ UNCHANGED <<retired, link, probe, shown>>
  BY DEF RetireSource, To
<1>2. CASE exchange.retired \union {s} = Sources
  <2>1. /\ transport' = [x \in Sources |-> Other(transport[x])]
        /\ exchange' = [pending |-> FALSE, retired |-> {}]
        /\ proof' = [NoProof EXCEPT !.scoped = proof.scoped]
    BY <1>2 DEF RetireSource
  <2>2. /\ proof' \in Proofs /\ proof'.observed = {} /\ ~proof'.primary
    BY <2>1, RestingTypes DEF RoleTypes, Proofs, NoProof
  <2>3. \A t \in Sources : ~link[t].up /\ place[t] \in {"loop", "retiring"}
    BY <1>1, <1>2, SourcesAre DEF RouteInv
  <2>4. RoleTypes'
    BY <1>1, <2>1, <2>2, SourcesAre DEF RoleTypes, Places
  <2>5. RouteInv'
    BY <1>1, <1>2, <2>1, <2>3, SourcesAre DEF RoleTypes, RouteInv, RoutesAgree
  <2>6. EvidenceInv'
    BY <1>1, <2>2 DEF EvidenceInv, Backed
  <2> QED
    BY <2>4, <2>5, <2>6
<1>3. CASE exchange.retired \union {s} # Sources
  <2>1. /\ exchange' = [exchange EXCEPT !.retired = @ \union {s}]
        /\ UNCHANGED <<transport, proof>>
    BY <1>3 DEF RetireSource
  <2>2. RoleTypes'
    BY <1>1, <2>1 DEF RoleTypes, Places
  <2>3. RouteInv'
    BY <1>1, <2>1 DEF RoleTypes, RouteInv, RoutesAgree
  <2>4. EvidenceInv'
    BY <1>1, <2>1 DEF EvidenceInv
  <2> QED
    BY <2>2, <2>3, <2>4
<1> QED
  BY <1>2, <1>3

(* A link is made, or not made. *)
LEMMA ConnectKeeps ==
  ASSUME RoleInv, NEW s \in Sources, StartConnecting(s) \/ Connected(s) \/ NotConnected(s)
  PROVE  RoleInv'
<1> USE DEF RoleInv
<1>1. CASE StartConnecting(s)
  <2> DEFINE L == [NoLink EXCEPT !.adapter = transport[s]]
  <2>1. L \in Links /\ L.adapter = transport[s] /\ ~L.up
    BY DEF NoLink, Links, RoleTypes, Sources, Engine, Gearbox
  <2> HIDE DEF L
  <2>2. /\ link' = [link EXCEPT ![s] = L] /\ probe' = [probe EXCEPT ![s] = NoProbe]
        /\ shown' = [shown EXCEPT ![s] = {}] /\ place' = [place EXCEPT ![s] = "connecting"]
        /\ proof' = [proof EXCEPT !.scoped = @ \ {s}] /\ place[s] = "serve"
        /\ UNCHANGED <<transport, exchange, retired>>
    BY <1>1 DEF StartConnecting, Renewed, To, L
  <2>3. proof' \in Proofs /\ Backed(proof', link', shown')
    BY <2>2, Unscoping DEF EvidenceInv, RoleTypes
  <2>4. RoleTypes'
    BY <2>1, <2>2, <2>3, RestingTypes DEF RoleTypes, Places
  <2>5. RouteInv'
    BY <2>1, <2>2 DEF RoleTypes, RouteInv, RoutesAgree
  <2>6. EvidenceInv'
    BY <2>2, <2>3, RestingTypes DEF EvidenceInv, RoleTypes
  <2> QED
    BY <2>4, <2>5, <2>6
<1>2. CASE Connected(s)
  <2>1. PICK unit \in Sources : link' = [link EXCEPT ![s].up = TRUE, ![s].sees = unit]
    BY <1>2 DEF Connected
  <2>2. /\ link' \in [Sources -> Links] /\ link'[s].up /\ link'[s].adapter = link[s].adapter
        /\ \A t \in Sources \ {s} : link'[t] = link[t]
    <3> DEFINE m == [[link[s] EXCEPT !.up = TRUE] EXCEPT !.sees = unit]
    <3>1. link \in [Sources -> Links] /\ link[s] \in Links
      BY DEF RoleTypes
    <3>2. m \in Links /\ m.up /\ m.adapter = link[s].adapter
      BY <2>1, <3>1 DEF Links
    <3>3. link' = [link EXCEPT ![s] = m]
      BY <2>1, <3>1
    <3> HIDE DEF m
    <3> QED
      BY <3>1, <3>2, <3>3
  <2>3. /\ place[s] = "connecting" /\ place' = [place EXCEPT ![s] = "loop"]
        /\ UNCHANGED <<transport, proof, exchange, retired, probe, shown>>
    BY <1>2 DEF Connected, To
  <2>4. RoleTypes'
    BY <2>2, <2>3 DEF RoleTypes, Places
  <2>5. RouteInv'
    BY <2>2, <2>3 DEF RoleTypes, RouteInv, RoutesAgree
  <2>6. EvidenceInv'
    BY <2>2, <2>3, SourcesAre DEF EvidenceInv, Backed, RouteInv
  <2> QED
    BY <2>4, <2>5, <2>6
<1>3. CASE NotConnected(s)
  <2>1. /\ place[s] = "connecting" /\ place' = [place EXCEPT ![s] = "loop"]
        /\ UNCHANGED <<transport, proof, exchange, retired, link, probe, shown>>
    BY <1>3 DEF NotConnected, To
  <2> QED
    BY <2>1 DEF RoleTypes, Places, RouteInv, RoutesAgree, EvidenceInv
<1> QED
  BY <1>1, <1>2, <1>3

(* A link is lost, time passes, or nothing is due. *)
LEMMA OtherKeeps ==
  ASSUME RoleInv, NEW s \in Sources, LinkLost(s) \/ EvidenceAges(s) \/ Idles(s)
  PROVE  RoleInv'
<1> USE DEF RoleInv
<1>1. CASE LinkLost(s)
  <2>1. /\ link' = [link EXCEPT ![s] = NoLink] /\ probe' = [probe EXCEPT ![s] = NoProbe]
        /\ shown' = [shown EXCEPT ![s] = {}] /\ link[s].up
        /\ proof' = [proof EXCEPT !.scoped = @ \ {s}]
        /\ UNCHANGED <<transport, exchange, place, retired>>
    BY <1>1 DEF LinkLost, Renewed
  <2>2. proof' \in Proofs /\ Backed(proof', link', shown')
    BY <2>1, Unscoping DEF EvidenceInv, RoleTypes
  <2>3. RoleTypes'
    BY <2>1, <2>2, RestingTypes DEF RoleTypes
  <2>4. RouteInv'
    BY <2>1, RestingTypes DEF RoleTypes, RouteInv, RoutesAgree
  <2>5. EvidenceInv'
    BY <2>1, <2>2, RestingTypes DEF EvidenceInv, RoleTypes
  <2> QED
    BY <2>3, <2>4, <2>5
<1>2. CASE EvidenceAges(s)
  <2>1. /\ proof' = [proof EXCEPT !.fresh = proof.fresh \ {s}] /\ proof.fresh \ {s} \in SUBSET Sources
        /\ UNCHANGED <<transport, exchange, place, retired, link, probe, shown>>
    BY <1>2 DEF EvidenceAges, RoleTypes, Proofs
  <2>2. proof' \in Proofs /\ Backed(proof', link', shown')
    BY <2>1, Aging DEF EvidenceInv, RoleTypes
  <2> QED
    BY <2>1, <2>2 DEF RoleTypes, RouteInv, RoutesAgree, EvidenceInv
<1>3. CASE Idles(s)
  <2>1. /\ place[s] = "serve" /\ place' = [place EXCEPT ![s] = "loop"]
        /\ UNCHANGED <<transport, proof, exchange, retired, link, probe, shown>>
    BY <1>3 DEF Idles, To
  <2> QED
    BY <2>1 DEF RoleTypes, Places, RouteInv, RoutesAgree, EvidenceInv
<1> QED
  BY <1>1, <1>2, <1>3

(* What a source has shown is recorded as known of it. *)
LEMMA Observing ==
  ASSUME NEW p \in Proofs, NEW s \in Sources, NEW c \in Probes, NEW links, NEW seen,
         Backed(p, links, seen), s \in p.scoped, links[s].up, c.roles \subseteq seen[s]
  PROVE  /\ Observed(p, s, c) \in Proofs /\ Observed(p, s, c).scoped = p.scoped
         /\ Backed(Observed(p, s, c), links, seen)
<1> DEFINE q == Observed(p, s, c)
<1>1. /\ q \in Proofs /\ q.scoped = p.scoped /\ q.observed = p.observed \union {s}
      /\ q.roles = [p.roles EXCEPT ![s] = c.roles]
      /\ q.primary = IF s # Engine THEN p.primary
                     ELSE ~c.contradicted /\ (p.primary \/ Engine \in c.roles)
  BY DEF Observed, Proofs, Probes
<1> HIDE DEF q
<1>2. Backed(q, links, seen)
  BY <1>1, SourcesAre DEF Backed, Proofs
<1> QED
  BY <1>1, <1>2 DEF q

(* A contradiction only takes away. *)
LEMMA Rejecting ==
  ASSUME NEW p \in Proofs, NEW links, NEW seen, Backed(p, links, seen)
  PROVE  Rejected(p) \in Proofs /\ Backed(Rejected(p), links, seen)
<1> DEFINE q == Rejected(p)
<1>1. /\ q \in Proofs /\ q.scoped = p.scoped /\ q.observed = p.observed /\ q.roles = p.roles
      /\ (q.primary => p.primary)
  BY DEF Rejected, Proofs
<1> HIDE DEF q
<1>2. Backed(q, links, seen)
  BY <1>1 DEF Backed
<1> QED
  BY <1>1, <1>2 DEF q

(* A step of the probe: what it adds, the link has shown; and what it exchanges *)
(* roles on, both links have.                                                   *)
LEMMA ProbeKeeps ==
  ASSUME RoleInv, NEW s \in Sources, ProbeRole(s)
  PROVE  /\ RoleInv'
         /\ exchange'.pending /\ ~exchange.pending => Crossed(proof') /\ proof'.scoped = Sources
<1> USE DEF RoleInv
<1> DEFINE Does(c, role, reply) ==
      LET next   == Added(s, c, role, reply)
          known  == IF next.contradicted THEN Rejected(proof) ELSE proof
          fenced == Fenced(known, s)
          after  == IF exchange.pending THEN fenced ELSE Observed(fenced, s, next)
      IN /\ shown' = [shown EXCEPT ![s] = IF reply = "match" THEN @ \union {role} ELSE @]
         /\ IF next.half
            THEN proof' = known /\ probe' = [probe EXCEPT ![s] = next] /\ UNCHANGED exchange
            ELSE /\ proof' = after /\ probe' = [probe EXCEPT ![s] = NoProbe]
                 /\ exchange' = [exchange EXCEPT !.pending = @ \/ Crossed(after)]
<1>1. PICK c \in Cycle(s), role \in Sources, reply \in {"none", "match", "contradict"} :
        Does(c, role, reply)
  <2>1. PICK c \in Cycle(s) :
          \E reply \in Answers(s, IF c.half THEN Gearbox ELSE Engine) :
            Does(c, IF c.half THEN Gearbox ELSE Engine, reply)
    BY DEF ProbeRole
  <2> DEFINE role == IF c.half THEN Gearbox ELSE Engine
  <2>2. PICK reply \in Answers(s, role) : Does(c, role, reply)
    BY <2>1
  <2>3. role \in Sources /\ reply \in {"none", "match", "contradict"}
    BY <2>2, SourcesAre DEF Answers
  <2> HIDE DEF Does, role
  <2> QED
    BY <2>2, <2>3
<1> DEFINE next   == Added(s, c, role, reply)
           known  == IF next.contradicted THEN Rejected(proof) ELSE proof
           fenced == Fenced(known, s)
           after  == IF exchange.pending THEN fenced ELSE Observed(fenced, s, next)
<1>2. /\ place[s] = "serve" /\ link[s].up /\ place' = [place EXCEPT ![s] = "after"]
      /\ UNCHANGED <<transport, retired, link>>
  BY DEF ProbeRole, To
<1>3. /\ c \in Probes /\ c.roles \subseteq shown[s] /\ next \in Probes /\ next.roles \subseteq shown'[s]
      /\ shown' \in [Sources -> SUBSET Sources]
      /\ \A t \in Sources : shown[t] \subseteq shown'[t]
  <2>1. c \in Probes /\ c.roles \subseteq shown[s]
    BY RestingTypes DEF Cycle, EvidenceInv, RoleTypes
  <2>2. /\ next \in Probes
        /\ next.roles = IF reply = "match" THEN c.roles \union {role} ELSE c.roles
    BY <2>1 DEF Added, Probes
  <2>3. shown' = [shown EXCEPT ![s] = IF reply = "match" THEN @ \union {role} ELSE @]
    BY <1>1
  <2> HIDE DEF next
  <2> QED
    BY <2>1, <2>2, <2>3 DEF RoleTypes
<1>4. known \in Proofs /\ Backed(known, link, shown')
  <2>1. proof \in Proofs /\ Backed(proof, link, shown')
    BY <1>3 DEF RoleTypes, EvidenceInv, Backed, Engine, Sources
  <2> QED
    BY <2>1, Rejecting
<1>5. fenced \in Proofs /\ fenced.scoped = Sources /\ Backed(fenced, link, shown')
  <2> HIDE DEF known
  <2>1. Scope(known, s) \in Proofs /\ s \in Scope(known, s).scoped /\ Backed(Scope(known, s), link, shown')
    BY <1>4, Scoping
  <2>2. /\ fenced \in Proofs /\ s \in fenced.scoped /\ Other(s) \in fenced.scoped
        /\ Backed(fenced, link, shown')
    BY <2>1, Scoping, SourcesAre DEF Fenced
  <2>3. fenced.scoped \subseteq Sources
    BY <2>2 DEF Proofs
  <2> QED
    BY <2>2, <2>3, SourcesAre
<1>6. after \in Proofs /\ after.scoped = Sources /\ Backed(after, link, shown')
  <2> HIDE DEF next, fenced
  <2> QED
    BY <1>2, <1>3, <1>5, Observing
<1> HIDE DEF next, known, fenced, after
<1>7. \/ proof' = known /\ probe' = [probe EXCEPT ![s] = next] /\ exchange' = exchange
      \/ /\ proof' = after /\ probe' = [probe EXCEPT ![s] = NoProbe]
         /\ exchange' = [exchange EXCEPT !.pending = exchange.pending \/ Crossed(after)]
  BY <1>1 DEF next, known, fenced, after
<1>8. RoleTypes'
  <2>1. exchange' \in [pending : BOOLEAN, retired : SUBSET Sources]
    BY <1>7 DEF RoleTypes, Crossed
  <2>2. proof' \in Proofs
    BY <1>4, <1>6, <1>7
  <2>3. probe' \in [Sources -> Probes]
    BY <1>3, <1>7, RestingTypes DEF RoleTypes
  <2>4. place' \in [Sources -> Places]
    BY <1>2 DEF RoleTypes, Places
  <2> QED
    BY <1>2, <1>3, <2>1, <2>2, <2>3, <2>4 DEF RoleTypes
<1>9. RouteInv'
  <2>1. exchange'.retired = exchange.retired /\ (exchange.pending => exchange'.pending)
    BY <1>7 DEF RoleTypes
  <2> QED
    BY <1>2, <2>1 DEF RoleTypes, RouteInv, RoutesAgree
<1>10. EvidenceInv'
  <2>1. Backed(proof', link', shown')
    BY <1>2, <1>4, <1>6, <1>7
  <2>2. \A t \in Sources : probe'[t].roles \subseteq shown'[t]
    BY <1>3, <1>7, RestingTypes DEF EvidenceInv, RoleTypes
  <2> QED
    BY <2>1, <2>2 DEF EvidenceInv
<1>11. exchange'.pending /\ ~exchange.pending => Crossed(proof') /\ proof'.scoped = Sources
  BY <1>6, <1>7 DEF RoleTypes
<1> QED
  BY <1>8, <1>9, <1>10, <1>11

(* Every step keeps the invariant. *)
LEMMA RolesKeep == RoleInv /\ [RoleNext]_roleVars => RoleInv'
<1> SUFFICES ASSUME RoleInv, [RoleNext]_roleVars PROVE RoleInv'
  OBVIOUS
<1>1. ASSUME NEW s \in Sources, RoleStep(s) \/ LoopTo(s, "loop") \/ LinkLost(s) \/ EvidenceAges(s)
      PROVE  RoleInv'
  BY <1>1, LoopKeeps, BarrierKeeps, RetireKeeps, ConnectKeeps, OtherKeeps, ProbeKeeps DEF RoleStep
<1>2. CASE UNCHANGED roleVars
  BY <1>2 DEF roleVars, RoleInv, RoleTypes, RouteInv, RoutesAgree, EvidenceInv, Backed
<1> QED
  BY <1>1, <1>2 DEF RoleNext

LEMMA RoleTypesFollow == RoleInv => RoleTypeOK
  BY SourcesAre DEF RoleInv, RoleTypes, RouteInv, RoleTypeOK, Places, Links, Probes, Proofs

(* The variables of the adapters have their types. *)
THEOREM RoleTypeCorrect == RoleSpec => []RoleTypeOK
  BY RolesStart, RolesKeep, RoleTypesFollow, PTL DEF RoleSpec

(* A worker reads through the adapter its source is bound to, and the bindings *)
(* are exchanged only while no link is up or being made.                       *)
THEOREM RoutesAlwaysAgree == RoleSpec => []RoutesAgree
<1>1. RoleInv => RoutesAgree
  BY DEF RoleInv, RouteInv
<1> QED
  BY RolesStart, RolesKeep, <1>1, PTL DEF RoleSpec

(* No two workers ever have links to one adapter: it takes that the bindings *)
(* stay a permutation.                                                       *)
Apart == transport[Engine] # transport[Gearbox]
THEOREM LinksApart ==
  RoleSpec => [](link[Engine].up /\ link[Gearbox].up => link[Engine].adapter # link[Gearbox].adapter)
<1>1. RoleInit => Apart
  BY SourcesAre DEF RoleInit, Apart, Engine, Gearbox
<1>2. RoleInv /\ Apart /\ [RoleNext]_roleVars => Apart'
  <2> SUFFICES ASSUME RoleInv, Apart, [RoleNext]_roleVars PROVE Apart'
    OBVIOUS
  <2>1. ASSUME NEW s \in Sources, RetireSource(s) PROVE Apart'
    BY <2>1, SourcesAre DEF RetireSource, Apart, Other, RoleInv, RoleTypes, Adapters
  <2>2. CASE UNCHANGED transport
    BY <2>2 DEF Apart
  <2> QED
    BY <2>1, <2>2 DEF RoleNext, RoleStep, LoopTo, Barrier, StartConnecting, Connected, NotConnected,
                      ProbeRole, Idles, LinkLost, EvidenceAges, roleVars
<1>3. RoleInv /\ Apart => (link[Engine].up /\ link[Gearbox].up => link[Engine].adapter # link[Gearbox].adapter)
  BY SourcesAre DEF RoleInv, RouteInv, RoutesAgree, Apart
<1> QED
  BY RolesStart, RolesKeep, <1>1, <1>2, <1>3, PTL DEF RoleSpec

(* Vehicle commands are admitted only on a link that has shown the engine's *)
(* identity itself (adapter_role_policy_primary_verified).                  *)
THEOREM CommandsAlwaysReachEngine == RoleSpec => []CommandsReachEngine
<1>1. RoleInv => CommandsReachEngine
  BY DEF RoleInv, EvidenceInv, Backed, CommandsReachEngine, PrimaryVerified
<1> QED
  BY RolesStart, RolesKeep, <1>1, PTL DEF RoleSpec

(* An exchange is begun only on what both current links have shown. *)
THEOREM ExchangesAreProven == RoleSpec => ExchangeIsProven
<1>1. ASSUME RoleInv, [RoleNext]_roleVars, ~exchange.pending /\ exchange'.pending
      PROVE  \A s \in Sources : link'[s].up /\ Other(s) \in shown'[s]
  <2>1. PICK s \in Sources : ProbeRole(s)
    <3>1. ASSUME NEW s \in Sources, RetireSource(s) PROVE FALSE
      BY <1>1, <3>1 DEF RetireSource, RoleInv, RoleTypes
    <3> QED
      BY <1>1, <3>1 DEF RoleNext, RoleStep, LoopTo, Barrier, StartConnecting, Connected, NotConnected,
                        Idles, LinkLost, EvidenceAges, roleVars
  <2>2. RoleInv' /\ Crossed(proof') /\ proof'.scoped = Sources
    BY <1>1, <2>1, ProbeKeeps
  <2>3. \A t \in Sources : proof'.roles[t] = {Other(t)} /\ t \in proof'.observed
    BY <2>2 DEF Crossed
  <2> QED
    BY <2>2, <2>3 DEF RoleInv, EvidenceInv, Backed
<1> QED
  BY RolesStart, RolesKeep, <1>1, PTL DEF RoleSpec, ExchangeIsProven

(* A set of numbers has a least one. *)
LEMMA LeastOne ==
  ASSUME NEW T \in SUBSET Nat, T # {}
  PROVE  \E n \in T : \A m \in T : n <= m
<1> DEFINE R == {p \in Nat \X Nat : p[1] < p[2]}
<1>1. IsWellFoundedOn(R, Nat)
  BY NatLessThanWellFounded DEF OpToRel
<1>2. PICK n \in T : \A m \in T : <<m, n>> \notin R
  BY <1>1, WFMin
<1>3. ASSUME NEW m \in T PROVE n <= m
  <2>1. <<m, n>> \in Nat \X Nat /\ <<m, n>> \notin R
    BY <1>2
  <2>2. ~(m < n)
    BY <2>1
  <2> QED
    BY <2>2
<1> QED
  BY <1>2, <1>3

-----------------------------------------------------------------------------
(* The poll scheduler: poll_scheduler.c                                      *)

PollTypes ==
  /\ slots \in [fair : Reading, streak : 0..Streak, normal : 0..Pace, job : Job]
  /\ preflight \in [job : 0..Jobs, touched : SUBSET Reading, reads : 0..2]
  /\ due \subseteq Reading /\ risky \subseteq Reading /\ failing \subseteq Failing /\ dueJobs \subseteq Job
  /\ waited.round \in Nat

\* Readings between the fairness cursor and Watched
Ahead == (Watched + Readings - slots.fair) % Readings

\* Every ordinary slot that passes Watched by is paid for: a fair slot with a
\* reading that was ahead of it, another one with a step of the streak.
TurnInv == waited.round + Ahead * (Streak + 1) + (Streak - slots.streak) < Rounds

PollInv == PollTypes /\ TurnInv

(* Round robin: how far a member is from the cursor, and that it is in range.    *)
LEMMA DistanceIs ==
  ASSUME NEW size \in Nat \ {0}, NEW from \in 0..size-1, NEW i \in 0..size-1
  PROVE  /\ (i + size - from) % size = IF i >= from THEN i - from ELSE i + size - from
         /\ (i + size - from) % size \in 0..size-1
<1> DEFINE x == i + size - from
<1>1. size \in Nat /\ size > 0 /\ x \in Nat /\ x < 2 * size /\ (i >= from <=> x >= size)
  OBVIOUS
<1> HIDE DEF x
<1>2. CASE x >= size
  <2>1. x % size = x - size
    BY <1>1, <1>2
  <2> QED
    BY <1>1, <1>2, <2>1 DEF x
<1>3. CASE x < size
  <2>1. x % size = x
    BY <1>1, <1>3
  <2> QED
    BY <1>1, <1>3, <2>1 DEF x
<1> QED
  BY <1>1, <1>2, <1>3

(* The cursor after a member is in range.                                        *)
LEMMA CursorAfter ==
  ASSUME NEW size \in Nat \ {0}, NEW i \in 0..size-1
  PROVE  /\ (i + 1) % size = IF i + 1 = size THEN 0 ELSE i + 1
         /\ (i + 1) % size \in 0..size-1
<1> DEFINE x == i + 1
<1>1. size \in Nat /\ size > 0 /\ x \in Nat /\ x <= size
  OBVIOUS
<1> HIDE DEF x
<1>2. CASE x = size
  <2>1. x % size = x - size
    BY <1>1, <1>2
  <2> QED
    BY <1>1, <1>2, <2>1 DEF x
<1>3. CASE x < size
  <2>1. x % size = x
    BY <1>1, <1>3
  <2> QED
    BY <1>1, <1>3, <2>1 DEF x
<1> QED
  BY <1>1, <1>2, <1>3

(* select_pid's fair slot and the diagnostics' round robin: of a set that is not *)
(* empty the member nearest to the cursor exists.                                *)
LEMMA NearestIs ==
  ASSUME NEW size \in Nat \ {0}, NEW from \in 0..size-1, NEW S \in SUBSET (0..size-1), S # {}
  PROVE  /\ Nearest(S, from, size) \in S
         /\ \A j \in S : (Nearest(S, from, size) + size - from) % size <= (j + size - from) % size
<1> DEFINE Far(i) == (i + size - from) % size
           T == {Far(i) : i \in S}
<1>1. \A i \in S : Far(i) \in Nat
  BY DistanceIs
<1>2. T \in SUBSET Nat /\ T # {}
  BY <1>1
<1>3. PICK n \in T : \A m \in T : n <= m
  BY <1>2, LeastOne
<1>4. PICK i \in S : n = Far(i)
  BY <1>3
<1>5. \A j \in S : Far(i) <= Far(j)
  BY <1>3, <1>4
<1> QED
  BY <1>5 DEF Nearest

(* The most that a fair slot, or a new scope, may leave to pay for.              *)
LEMMA SpareIs ==
  ASSUME NEW a \in 0..Readings-1
  PROVE  a * (Streak + 1) + Streak < Rounds /\ Rounds \in Nat
<1> USE PollAssumption
<1> DEFINE r == Readings
<1>1. r \in Nat /\ a \in Nat /\ a + 1 <= r
  OBVIOUS
<1> HIDE DEF r
<1>2. (a + 1) * (Streak + 1) <= r * (Streak + 1)
  BY <1>1
<1>3. (a + 1) * (Streak + 1) = a * (Streak + 1) + Streak + 1
      /\ r * (Streak + 1) = (Streak + 1) * r /\ (Streak + 1) * r \in Nat
  BY <1>1
<1>4. a * (Streak + 1) \in Nat
  BY <1>1
<1>5. a * (Streak + 1) + Streak < (Streak + 1) * r
  BY <1>1, <1>2, <1>3, <1>4
<1> QED
  BY <1>3, <1>5 DEF r, Rounds

(* How far Watched is from the fairness cursor.                                  *)
LEMMA AheadIs ==
  ASSUME PollTypes
  PROVE  Ahead \in 0..Readings-1 /\ Rounds \in Nat /\ Ahead * (Streak + 1) + Streak < Rounds
<1>1. slots.fair \in 0..Readings-1
  BY DEF PollTypes, Reading
<1>2. Ahead \in 0..Readings-1
  BY <1>1, DistanceIs, PollAssumption DEF Ahead
<1> QED
  BY <1>2, SpareIs

LEMMA PollStart == PollInit => PollInv
<1> SUFFICES ASSUME PollInit PROVE PollInv
  OBVIOUS
<1> USE PollAssumption
<1>1. PollTypes
  BY DEF PollInit, PollTypes, FirstSlots, NoPreflight, NotWaited, NoJob, Reading, Job
<1>2. waited.round = 0 /\ slots.streak = 0
  BY DEF PollInit, NotWaited, FirstSlots
<1>3. TurnInv
  BY <1>1, <1>2, AheadIs DEF TurnInv
<1> QED
  BY <1>1, <1>3 DEF PollInv

(* What the slots and the readings of a request become: Advanced, Completed.     *)
LEMMA ReadIs ==
  ASSUME PollTypes, NEW i \in Reading, NEW ordinary \in BOOLEAN, Read(i, ordinary)
  PROVE  /\ slots' \in [fair : Reading, streak : 0..Streak, normal : 0..Pace, job : Job]
         /\ due' \subseteq Reading /\ risky' \subseteq Reading /\ failing' \subseteq Failing
         /\ dueJobs' = dueJobs
         /\ slots'.fair = IF ordinary /\ Fair THEN (i + 1) % Readings ELSE slots.fair
         /\ slots'.streak = IF ~ordinary THEN slots.streak ELSE IF Fair THEN 0 ELSE slots.streak + 1
<1> USE PollAssumption
<1>1. slots \in [fair : Reading, streak : 0..Streak, normal : 0..Pace, job : Job]
  BY DEF PollTypes
<1>2. (i + 1) % Readings \in Reading
  BY CursorAfter DEF Reading
<1> DEFINE normal == IF slots.normal < Pace THEN slots.normal + 1 ELSE slots.normal
           streak == IF ~ordinary THEN slots.streak ELSE IF Fair THEN 0 ELSE slots.streak + 1
           fair   == IF ordinary /\ Fair THEN (i + 1) % Readings ELSE slots.fair
<1>3. normal \in 0..Pace /\ streak \in 0..Streak /\ fair \in Reading
  BY <1>1, <1>2 DEF Fair
<1>4. slots' = [slots EXCEPT !.normal = normal, !.streak = streak, !.fair = fair]
  BY DEF Read, Advanced
<1>5. slots'.fair = fair /\ slots'.streak = streak
  <2> HIDE DEF normal, streak, fair
  <2> QED
    BY <1>1, <1>4
<1>6. slots' \in [fair : Reading, streak : 0..Streak, normal : 0..Pace, job : Job]
  <2> HIDE DEF normal, streak, fair
  <2> QED
    BY <1>1, <1>3, <1>4
<1>7. due' \subseteq Reading /\ risky' \subseteq Reading /\ failing' \subseteq Failing /\ dueJobs' = dueJobs
  BY DEF Read, Completed, PollTypes
<1> QED
  BY <1>5, <1>6, <1>7

(* A slot that is not fair, or a request out of turn, does not raise what is left *)
(* to pay for, if it passes Watched by only in an ordinary slot.                  *)
LEMMA UnfairPays ==
  ASSUME PollInv, NEW i \in Reading, NEW ordinary \in BOOLEAN, Read(i, ordinary), ~(ordinary /\ Fair),
         waited'.round \in Nat, waited'.round <= waited.round + (IF ordinary THEN 1 ELSE 0)
  PROVE  TurnInv'
<1> USE PollAssumption
<1>1. PollTypes /\ TurnInv
  BY DEF PollInv
<1>2. slots'.fair = slots.fair /\ slots'.streak = IF ordinary THEN slots.streak + 1 ELSE slots.streak
  BY <1>1, ReadIs
<1>3. Ahead' = Ahead /\ Rounds' = Rounds
  BY <1>2 DEF Ahead, Rounds
<1>4. slots.streak \in Nat /\ waited.round \in Nat /\ Ahead \in Nat /\ Rounds \in Nat
  BY <1>1, AheadIs DEF PollTypes
<1> DEFINE paid == Ahead * (Streak + 1)
<1>5. paid \in Nat
  BY <1>4
<1>6. waited.round + paid + (Streak - slots.streak) < Rounds
  BY <1>1 DEF TurnInv
<1> HIDE DEF paid
<1>7. waited'.round + paid + (Streak - slots'.streak) < Rounds
  BY <1>2, <1>4, <1>5, <1>6
<1> QED
  BY <1>3, <1>7 DEF TurnInv, paid

(* A fair slot goes to the due reading nearest to the cursor: if it is not        *)
(* Watched, it was ahead of it, and is not any more.                              *)
LEMMA FairPays ==
  ASSUME PollInv, NEW i \in Reading, Read(i, TRUE), Fair,
         waited'.round = 0 \/ (waited'.round = waited.round + 1 /\ i # Watched /\ Watched \in due
                               /\ i = Nearest(due, slots.fair, Readings))
  PROVE  TurnInv'
<1> USE PollAssumption
<1>1. PollTypes /\ TurnInv
  BY DEF PollInv
<1>2. slots'.fair = (i + 1) % Readings /\ slots'.streak = 0 /\ slots'.fair \in Reading
  BY <1>1, ReadIs
<1>3. slots.streak = Streak /\ slots.fair \in 0..Readings-1 /\ waited.round \in Nat /\ due \subseteq Reading
  BY <1>1 DEF PollTypes, Fair, Reading
<1>4. Rounds' = Rounds /\ Rounds \in Nat /\ Ahead \in 0..Readings-1
  BY <1>1, AheadIs DEF Rounds
<1>5. Ahead' = (Watched + Readings - slots'.fair) % Readings
  BY DEF Ahead
<1>6. CASE waited'.round = 0
  <2>1. \A f \in 0..Readings-1 : (Watched + Readings - f) % Readings \in 0..Readings-1
    BY DistanceIs
  <2>2. Ahead' \in 0..Readings-1
    BY <1>2, <1>5, <2>1 DEF Reading
  <2>3. PICK a \in 0..Readings-1 : a = Ahead'
    BY <2>2
  <2>4. a * (Streak + 1) + Streak < Rounds
    BY SpareIs
  <2> DEFINE paid == a * (Streak + 1)
  <2>5. paid \in Nat
    OBVIOUS
  <2> HIDE DEF paid
  <2>6. waited'.round + paid + (Streak - slots'.streak) < Rounds
    BY <1>2, <1>4, <1>6, <2>4, <2>5 DEF paid
  <2> QED
    BY <1>4, <2>3, <2>6 DEF TurnInv, paid
<1>7. CASE waited'.round = waited.round + 1 /\ i # Watched /\ Watched \in due
           /\ i = Nearest(due, slots.fair, Readings)
  <2>1. (i + Readings - slots.fair) % Readings <= Ahead
    BY <1>3, <1>7, NearestIs DEF Reading, Ahead
  <2>2. (i + Readings - slots.fair) % Readings = IF i >= slots.fair THEN i - slots.fair ELSE i + Readings - slots.fair
    BY <1>3, DistanceIs DEF Reading
  <2>3. Ahead = IF Watched >= slots.fair THEN Watched - slots.fair ELSE Watched + Readings - slots.fair
    BY <1>3, DistanceIs DEF Ahead
  <2>4. slots'.fair = IF i + 1 = Readings THEN 0 ELSE i + 1
    BY <1>2, CursorAfter DEF Reading
  <2>5. Ahead' = IF Watched >= slots'.fair THEN Watched - slots'.fair ELSE Watched + Readings - slots'.fair
    BY <1>2, <1>5, DistanceIs DEF Reading
  <2> DEFINE from  == slots.fair
             after == slots'.fair
             new   == Ahead'
             old   == Ahead
             paid  == new * (Streak + 1)
             owed  == old * (Streak + 1)
  <2>6. new \in Nat /\ old \in Nat /\ new + 1 <= old
    <3>1. /\ from \in 0..Readings-1 /\ i \in 0..Readings-1 /\ i # Watched
          /\ (IF i >= from THEN i - from ELSE i + Readings - from) <= old
          /\ old = IF Watched >= from THEN Watched - from ELSE Watched + Readings - from
          /\ after = IF i + 1 = Readings THEN 0 ELSE i + 1
          /\ new = IF Watched >= after THEN Watched - after ELSE Watched + Readings - after
      BY <1>3, <1>7, <2>1, <2>2, <2>3, <2>4, <2>5 DEF Reading
    <3> HIDE DEF from, after, new, old
    <3> QED
      BY <3>1
  <2>7. paid \in Nat /\ owed \in Nat /\ paid + Streak + 1 <= owed
    <3> HIDE DEF new, old
    <3>2. (new + 1) * (Streak + 1) <= old * (Streak + 1)
      BY <2>6
    <3>3. (new + 1) * (Streak + 1) = new * (Streak + 1) + Streak + 1
      BY <2>6
    <3> QED
      BY <2>6, <3>2, <3>3
  <2>8. waited.round + owed + (Streak - slots.streak) < Rounds
    BY <1>1 DEF TurnInv
  <2> HIDE DEF paid, owed
  <2>9. waited'.round + paid + (Streak - slots'.streak) < Rounds
    BY <1>2, <1>3, <1>4, <1>7, <2>7, <2>8
  <2> QED
    BY <1>4, <2>9 DEF TurnInv, paid, new
<1> QED
  BY <1>6, <1>7

(* An ordinary slot: select_pid of poll_scheduler_next_budgeted.                 *)
LEMMA ReadDueKept == PollInv /\ ReadDue => PollInv'
<1> SUFFICES ASSUME PollInv, ReadDue PROVE PollInv'
  OBVIOUS
<1>1. PollTypes /\ TurnInv
  BY DEF PollInv
<1>2. PICK i \in Candidates :
        /\ Read(i, TRUE) /\ preflight' = preflight
        /\ waited' = IF i # Watched /\ Watched \in due THEN PassedBy ELSE NotWaited
  BY DEF ReadDue
<1>3. due \subseteq Reading /\ slots.fair \in Reading /\ waited.round \in Nat
  BY <1>1 DEF PollTypes
<1>4. i \in due /\ (Fair => i = Nearest(due, slots.fair, Readings))
  <2>1. due # {} => Nearest(due, slots.fair, Readings) \in due
    BY <1>3, NearestIs, PollAssumption DEF Reading
  <2> QED
    BY <2>1 DEF Candidates
<1>5. i \in Reading
  BY <1>3, <1>4
<1>6. \/ waited'.round = 0
      \/ waited'.round = waited.round + 1 /\ i # Watched /\ Watched \in due
  BY <1>2 DEF PassedBy, NotWaited
<1>7. PollTypes'
  <2>1. slots' \in [fair : Reading, streak : 0..Streak, normal : 0..Pace, job : Job]
        /\ due' \subseteq Reading /\ risky' \subseteq Reading /\ failing' \subseteq Failing /\ dueJobs' = dueJobs
    BY <1>1, <1>2, <1>5, ReadIs
  <2>2. waited'.round \in Nat
    BY <1>3, <1>6
  <2> QED
    BY <1>1, <1>2, <2>1, <2>2 DEF PollTypes
<1>8. TurnInv'
  <2>1. CASE Fair
    BY <1>2, <1>4, <1>5, <1>6, <2>1, FairPays
  <2>2. CASE ~Fair
    <3>1. waited'.round \in Nat /\ waited'.round <= waited.round + 1
      BY <1>3, <1>6
    <3> QED
      BY <1>2, <1>5, <2>2, <3>1, UnfairPays
  <2> QED
    BY <2>1, <2>2
<1> QED
  BY <1>7, <1>8 DEF PollInv

(* What waits while a reading of the page or a refresh is asked for.             *)
LEMMA StillIs ==
  ASSUME PollTypes, NEW i
  PROVE  Still(i).round \in Nat /\ Still(i).round <= waited.round
  BY DEF PollTypes, Still, NotWaited

(* A diagnostic or its preflight, in which the earned reading of the page may    *)
(* take a fair slot.                                                             *)
LEMMA DiagnoseKept == PollInv /\ Admit /\ Diagnose => PollInv'
<1> SUFFICES ASSUME PollInv, Admit, Diagnose PROVE PollInv'
  OBVIOUS
<1> USE PollAssumption
<1>1. PollTypes /\ TurnInv
  BY DEF PollInv
<1> DEFINE pre == IF preflight.job # NoJob THEN preflight
                  ELSE [NoPreflight EXCEPT !.job = Nearest(dueJobs, slots.job, Jobs)]
           page == IF pre.reads < 2 THEN {} ELSE due \intersect Visible
<1>2. pre.job \in Job /\ pre.reads \in 0..2
  <2>1. CASE preflight.job # NoJob
    BY <1>1, <2>1 DEF PollTypes, NoJob, Job
  <2>2. CASE preflight.job = NoJob
    <3>1. dueJobs # {} /\ dueJobs \subseteq Job /\ slots.job \in Job
      BY <1>1, <2>2 DEF Admit, PollTypes
    <3>2. Nearest(dueJobs, slots.job, Jobs) \in Job
      BY <3>1, NearestIs DEF Job
    <3> QED
      BY <2>2, <3>2 DEF NoPreflight
  <2> QED
    BY <2>1, <2>2
<1>3. \/ Ask(pre)
      \/ \E i \in page :
            /\ Read(i, TRUE) /\ waited' = IF Fair THEN [Still(i) EXCEPT !.round = 0] ELSE Still(i)
            /\ preflight' = [pre EXCEPT !.reads = 0]
      \/ \E i \in Refresh(pre) :
            /\ Read(i, FALSE) /\ waited' = Still(i)
            /\ preflight' = [pre EXCEPT !.touched = @ \union {i}, !.reads = IF @ < 2 THEN @ + 1 ELSE @]
  BY DEF Diagnose
<1>4. due \subseteq Reading /\ risky \subseteq Reading /\ waited.round \in Nat
  BY <1>1 DEF PollTypes
<1>5. preflight \in [job : 0..Jobs, touched : SUBSET Reading, reads : 0..2]
  BY <1>1 DEF PollTypes
<1>6. pre \in [job : Job, touched : SUBSET Reading, reads : 0..2]
  BY <1>2, <1>5 DEF NoPreflight
<1> HIDE DEF pre
<1>7. CASE Ask(pre)
  <2>1. slots \in [fair : Reading, streak : 0..Streak, normal : 0..Pace, job : Job]
    BY <1>1 DEF PollTypes
  <2>2. (pre.job + 1) % Jobs \in Job
    BY <1>2, CursorAfter DEF Job
  <2>3. slots' = [slots EXCEPT !.normal = 0, !.job = (pre.job + 1) % Jobs]
    BY <1>7 DEF Ask
  <2>4. slots' \in [fair : Reading, streak : 0..Streak, normal : 0..Pace, job : Job]
        /\ slots'.fair = slots.fair /\ slots'.streak = slots.streak
    <3> DEFINE job == (pre.job + 1) % Jobs
    <3>1. job \in Job /\ slots' = [slots EXCEPT !.normal = 0, !.job = job] /\ 0 \in 0..Pace
      BY <2>2, <2>3
    <3> HIDE DEF job
    <3> QED
      BY <2>1, <3>1
  <2>5. PollTypes'
    BY <1>1, <1>7, <2>4 DEF PollTypes, Ask, NoPreflight, NoJob, readingVars
  <2>6. TurnInv'
    BY <1>1, <1>7, <2>4 DEF TurnInv, Ahead, Rounds, Ask
  <2> QED
    BY <2>5, <2>6 DEF PollInv
<1>8. ASSUME NEW i \in page,
             Read(i, TRUE), waited' = IF Fair THEN [Still(i) EXCEPT !.round = 0] ELSE Still(i),
             preflight' = [pre EXCEPT !.reads = 0]
      PROVE  PollInv'
  <2>1. i \in Reading
    BY <1>4, <1>8
  <2>2. waited'.round \in Nat /\ waited'.round <= waited.round /\ (Fair => waited'.round = 0)
    <3>1. Still(i).round \in Nat /\ Still(i).round <= waited.round
      BY <1>1, StillIs
    <3>2. Fair => waited'.round = 0
      BY <1>8 DEF Still, NotWaited
    <3> QED
      BY <1>4, <1>8, <3>1, <3>2
  <2>3. preflight' \in [job : 0..Jobs, touched : SUBSET Reading, reads : 0..2]
    BY <1>6, <1>8 DEF Job
  <2>4. PollTypes'
    <3>1. slots' \in [fair : Reading, streak : 0..Streak, normal : 0..Pace, job : Job]
        /\ due' \subseteq Reading /\ risky' \subseteq Reading /\ failing' \subseteq Failing /\ dueJobs' = dueJobs
      BY <1>1, <1>8, <2>1, ReadIs
    <3> QED
      BY <1>1, <2>2, <2>3, <3>1 DEF PollTypes
  <2>5. TurnInv'
    <3>1. CASE Fair
      BY <1>8, <2>1, <2>2, <3>1, FairPays
    <3>2. CASE ~Fair
      <4>1. waited'.round <= waited.round + 1
        BY <1>4, <2>2
      <4> QED
        BY <1>8, <2>1, <2>2, <3>2, <4>1, UnfairPays
    <3> QED
      BY <3>1, <3>2
  <2> QED
    BY <2>4, <2>5 DEF PollInv
<1>9. ASSUME NEW i \in Refresh(pre),
             Read(i, FALSE), waited' = Still(i),
             preflight' = [pre EXCEPT !.touched = @ \union {i}, !.reads = IF @ < 2 THEN @ + 1 ELSE @]
      PROVE  PollInv'
  <2>1. i \in Reading
    BY <1>4, <1>9 DEF Refresh
  <2>2. waited'.round \in Nat /\ waited'.round <= waited.round + 0
    BY <1>1, <1>4, <1>9, StillIs
  <2> DEFINE reads   == IF pre.reads < 2 THEN pre.reads + 1 ELSE pre.reads
           touched == pre.touched \union {i}
  <2>3. reads \in 0..2 /\ touched \in SUBSET Reading
    BY <1>6, <2>1
  <2>4. preflight' = [pre EXCEPT !.touched = touched, !.reads = reads]
    BY <1>9
  <2> HIDE DEF reads, touched
  <2>5. preflight' \in [job : 0..Jobs, touched : SUBSET Reading, reads : 0..2]
    <3>1. preflight' = [job |-> pre.job, touched |-> touched, reads |-> reads]
      BY <1>6, <2>4
    <3>2. pre.job \in 0..Jobs
      BY <1>6 DEF Job
    <3> QED
      BY <2>3, <3>1, <3>2
  <2>6. PollTypes'
    <3>1. slots' \in [fair : Reading, streak : 0..Streak, normal : 0..Pace, job : Job]
        /\ due' \subseteq Reading /\ risky' \subseteq Reading /\ failing' \subseteq Failing /\ dueJobs' = dueJobs
      BY <1>1, <1>9, <2>1, ReadIs
    <3> QED
      BY <1>1, <2>2, <2>5, <3>1 DEF PollTypes
  <2>7. TurnInv'
    BY <1>9, <2>1, <2>2, UnfairPays
  <2> QED
    BY <2>6, <2>7 DEF PollInv
<1> QED
  BY <1>3, <1>7, <1>8, <1>9

(* A step that leaves the slots alone and counts no slot.                        *)
LEMMA SlotsAlone ==
  ASSUME TurnInv, PollTypes, PollTypes', UNCHANGED slots, waited'.round <= waited.round
  PROVE  TurnInv'
<1>1. Ahead' = Ahead /\ Rounds' = Rounds /\ slots'.streak = slots.streak
  BY DEF Ahead, Rounds
<1> DEFINE paid == Ahead * (Streak + 1)
<1>2. paid \in Nat /\ Rounds \in Nat /\ slots.streak \in 0..Streak /\ Streak \in Nat
      /\ waited.round \in Nat /\ waited'.round \in Nat
  <2>1. \A a \in Nat : a * (Streak + 1) \in Nat
    BY PollAssumption
  <2>2. Ahead \in Nat /\ Rounds \in Nat
    BY AheadIs, PollAssumption
  <2> QED
    BY <2>1, <2>2, PollAssumption DEF PollTypes
<1>3. waited.round + paid + (Streak - slots.streak) < Rounds
  BY DEF TurnInv
<1> HIDE DEF paid
<1>4. waited'.round + paid + (Streak - slots.streak) < Rounds
  BY <1>2, <1>3
<1> QED
  BY <1>1, <1>4 DEF TurnInv, paid

(* Time, and a sample that a vehicle command brought.                            *)
LEMMA TimeKept == PollInv /\ (Comes \/ PollTime \/ Sampled) => PollInv'
<1> SUFFICES ASSUME PollInv, Comes \/ PollTime \/ Sampled PROVE PollInv'
  OBVIOUS
<1>1. PollTypes /\ TurnInv
  BY DEF PollInv
<1>2. UNCHANGED slots /\ waited'.round \in Nat /\ waited'.round <= waited.round
  <2>1. waited.round \in Nat
    BY <1>1 DEF PollTypes
  <2>2. CASE Sampled
    <3>1. PICK i : waited' = Still(i)
      BY <2>2 DEF Sampled
    <3> QED
      BY <1>1, <2>2, <3>1, StillIs DEF Sampled
  <2>3. CASE Comes \/ PollTime
    BY <2>1, <2>3 DEF Comes, PollTime
  <2> QED
    BY <2>2, <2>3
<1>3. PollTypes'
  BY <1>1, <1>2 DEF PollTypes, Comes, PollTime, Sampled, readingVars
<1> QED
  BY <1>1, <1>2, <1>3, SlotsAlone DEF PollInv

LEMMA PollKept == PollInv /\ [PollNext]_pollVars => PollInv'
<1> SUFFICES ASSUME PollInv, [PollNext]_pollVars PROVE PollInv'
  OBVIOUS
<1>1. CASE Dispatch
  BY <1>1, ReadDueKept, DiagnoseKept DEF Dispatch
<1>2. CASE Comes \/ PollTime \/ Sampled
  BY <1>2, TimeKept
<1>3. CASE PollReset
  <2>1. PollTypes'
    BY <1>3, PollAssumption DEF PollReset, PollFresh, PollTypes, FirstSlots, NoPreflight, NotWaited, NoJob, Reading, Job
  <2>2. waited'.round = 0 /\ slots'.streak = 0 /\ slots'.fair = 0
    BY <1>3 DEF PollReset, PollFresh, NotWaited, FirstSlots
  <2>3. Rounds' = Rounds /\ Ahead' \in 0..Readings-1
    <3>1. Ahead' = (Watched + Readings - 0) % Readings
      BY <2>2 DEF Ahead
    <3>2. 0 \in 0..Readings-1
      BY PollAssumption
    <3> QED
      BY <3>1, <3>2, DistanceIs, PollAssumption DEF Rounds
  <2>4. PICK a \in 0..Readings-1 : a = Ahead'
    BY <2>3
  <2>5. a * (Streak + 1) + Streak < Rounds
    BY SpareIs
  <2> DEFINE paid == a * (Streak + 1)
  <2>6. paid \in Nat
    BY PollAssumption
  <2> HIDE DEF paid
  <2>7. waited'.round + paid + (Streak - slots'.streak) < Rounds
    BY <2>2, <2>5, <2>6, PollAssumption DEF paid
  <2>8. TurnInv'
    BY <2>3, <2>4, <2>7 DEF TurnInv, paid
  <2> QED
    BY <2>1, <2>8 DEF PollInv
<1>4. CASE UNCHANGED pollVars
  BY <1>4 DEF pollVars, readingVars, PollInv, PollTypes, TurnInv, Ahead, Rounds
<1> QED
  BY <1>1, <1>2, <1>3, <1>4 DEF PollNext

LEMMA PollTypesFollow == PollInv => PollTypeOK
  BY DEF PollInv, PollTypes, PollTypeOK

(* The variables of the scheduler have their types.                              *)
THEOREM PollTypeCorrect == PollSpec => []PollTypeOK
  BY PollStart, PollKept, PollTypesFollow, PTL DEF PollSpec

(* A reading that stays due gets a slot before more than (Streak + 1) * Readings *)
(* ordinary slots have gone to others, unless a preflight takes a fair slot in   *)
(* between (select_pid).                                                         *)
THEOREM EachRoundAlwaysServed == PollSpec => []EachRoundIsServed
<1>1. PollInv => EachRoundIsServed
  <2> SUFFICES ASSUME PollInv PROVE EachRoundIsServed
    OBVIOUS
  <2> DEFINE paid == Ahead * (Streak + 1)
  <2>1. PollTypes /\ waited.round + paid + (Streak - slots.streak) < Rounds
    BY DEF PollInv, TurnInv
  <2>2. Ahead \in Nat /\ Rounds \in Nat /\ waited.round \in Nat /\ slots.streak \in 0..Streak
    BY <2>1, AheadIs, PollAssumption DEF PollTypes
  <2>3. paid \in Nat
    BY <2>2, PollAssumption
  <2> HIDE DEF paid
  <2> QED
    BY <2>1, <2>2, <2>3, PollAssumption DEF EachRoundIsServed
<1> QED
  BY PollStart, PollKept, <1>1, PTL DEF PollSpec

-----------------------------------------------------------------------------
(* The alert rules: alert_engine.c, main.c                                   *)

Moments    == -1..Horizon
HeardType  == [at : Moments, crossing : [1..2 -> Moments], releasing : [1..2 -> Moments], lostAt : Moments]
SampleType == [zone : Zones \union {NaN}, heard : HeardType]
StateType  == [severity : 0..2, pending : 0..3, since : 0..Horizon, last : 0..Horizon, sampled : BOOLEAN]

RuleTypes ==
  /\ now \in 0..Horizon /\ feed \in {"up", "down", "seen"} /\ tick \in {None} \union 0..SampleQueue
  /\ lost \in BOOLEAN /\ marking \in BOOLEAN
  /\ queue \in Seq(SampleType) /\ Len(queue) <= SampleQueue /\ heard \in HeardType /\ rule \in StateType
  /\ breach \in Moments /\ heard.at <= now /\ rule.since <= now /\ \A i \in 1..Len(queue) : queue[i].heard.at \in 0..now

\* A sample and what was heard with it follow what was heard with the one before.
GoesOn(start, holds, broken, at) == IF ~holds THEN None ELSE IF start = None \/ broken THEN at ELSE start
Follows(sample, before) ==
  LET at     == sample.heard.at
      z      == sample.zone
      broken == before.at = None \/ at - before.at > Stale
  IN  /\ before.at < at
      /\ \A s \in 1..2 :
           /\ sample.heard.crossing[s] = GoesOn(before.crossing[s], z # NaN /\ ZoneTarget(z) >= s, broken, at)
           /\ sample.heard.releasing[s] = GoesOn(before.releasing[s], z # NaN /\ Releases(s, z), broken, at)

AllPast(h) == \A s \in 1..2 : h.crossing[s] <= h.at /\ h.releasing[s] <= h.at

\* What is pending since a moment has been heard since then or longer.
PendingIsHeard(state, h) ==
  /\ state.pending \in 1..2 =>
       /\ state.sampled /\ h.at = state.last /\ h.at # None
       /\ h.crossing[state.pending] # None /\ h.crossing[state.pending] <= state.since
  /\ state.pending = Clearing =>
       /\ state.sampled /\ h.at = state.last /\ h.at # None /\ state.severity \in 1..2
       /\ h.releasing[state.severity] # None /\ h.releasing[state.severity] <= state.since

\* The last loss that a tick has handled is older than what is pending, and no
\* newer than the last sample taken.
LossPast(state, h, past) ==
  /\ past <= h.at
  /\ state.sampled => state.last = h.at
  /\ state.pending # 0 => past < state.since

\* From what was heard with the last sample taken the queue goes on, one sample
\* after the other, to what was heard last.
Queued(h) ==
  /\ queue # <<>> => Follows(queue[1], h)
  /\ \A i \in 1..Len(queue)-1 : Follows(queue[i+1], queue[i].heard)
  /\ \E last \in HeardType :
       /\ last = (IF queue = <<>> THEN h ELSE queue[Len(queue)].heard)
       /\ heard.at = last.at /\ heard.crossing = last.crossing /\ heard.releasing = last.releasing

\* A link that is lost leaves nothing queued, and nothing pending once it is seen.
FeedInv == (feed # "up" => queue = <<>>) /\ (feed = "seen" => rule.pending = 0)

RuleInv ==
  /\ RuleTypes /\ FeedInv
  /\ \E h \in HeardType : AllPast(h) /\ Queued(h) /\ (feed # "down" => PendingIsHeard(rule, h) /\ LossPast(rule, h, breach))

LEMMA NothingHeardIs == NothingHeard \in HeardType /\ NothingHeard.at = None /\ AllPast(NothingHeard)
<1> USE RuleAssumption
<1>1. None \in Moments
  BY DEF None, Moments
<1>2. <<None, None>> \in [1..2 -> Moments]
  BY <1>1
<1>3. /\ NothingHeard.at = None /\ NothingHeard.crossing = <<None, None>>
      /\ NothingHeard.releasing = <<None, None>> /\ NothingHeard.lostAt = None
      /\ NothingHeard = [at |-> NothingHeard.at, crossing |-> NothingHeard.crossing,
                         releasing |-> NothingHeard.releasing, lostAt |-> NothingHeard.lostAt]
  BY DEF NothingHeard
<1>4. NothingHeard \in HeardType
  BY <1>1, <1>2, <1>3 DEF HeardType
<1>5. AllPast(NothingHeard)
  BY <1>3 DEF AllPast, None
<1> QED
  BY <1>3, <1>4, <1>5

(* What the engine keeps of a sample, and what has been pending before a severity *)
(* changes (alert_engine_sample).                                                 *)
LEMMA SampleMoves ==
  ASSUME NEW r \in StateType, NEW z, NEW at \in 0..Horizon, NEW new, new = EngineSample(r, z, at)
  PROVE  /\ new.sampled => new.last = at
         /\ new.pending # 0 => new.since = at \/ (r.pending # 0 /\ new.since = r.since)
         /\ new.severity > r.severity => r.pending # 0 /\ at - r.since >= Dwell
         /\ new.severity < r.severity => r.pending # 0 /\ at - r.since >= ClearDwell
<1> USE RuleAssumption
<1> DEFINE state  == Continued(r, at)
           target == ZoneTarget(z)
<1>1. /\ r.severity \in 0..2 /\ r.pending \in 0..3 /\ r.since \in 0..Horizon
      /\ r = [severity |-> r.severity, pending |-> r.pending, since |-> r.since,
              last |-> r.last, sampled |-> r.sampled]
  BY DEF StateType
<1>2. target \in 0..2
  BY DEF ZoneTarget
<1>3. CASE z = NaN
  <2>1. new = [severity |-> r.severity, pending |-> 0, since |-> 0, last |-> r.last, sampled |-> FALSE]
    BY <1>1, <1>3 DEF EngineSample, Invalidated
  <2> QED
    BY <1>1, <2>1
<1>4. CASE z # NaN
  <2>1. PICK pending \in {0, r.pending} :
          state = [severity |-> r.severity, pending |-> pending, since |-> r.since, last |-> at, sampled |-> TRUE]
    <3> DEFINE kept == IF r.sampled /\ at - r.last > Stale THEN 0 ELSE r.pending
    <3>1. state = [r EXCEPT !.pending = kept, !.sampled = TRUE, !.last = at]
      BY DEF Continued
    <3>2. kept \in {0, r.pending}
      OBVIOUS
    <3> HIDE DEF kept, state
    <3>3. state = [severity |-> r.severity, pending |-> kept, since |-> r.since, last |-> at, sampled |-> TRUE]
      BY <1>1, <3>1
    <3> QED
      BY <3>2, <3>3
  <2>2. new = Evaluated(state, z, at)
    BY <1>4 DEF EngineSample
  <2> HIDE DEF state
  <2>3. ASSUME NEW kind \in 1..3, NEW severity, NEW dwell, new = Pend(state, kind, severity, at, dwell)
        PROVE  /\ new.sampled => new.last = at
               /\ new.pending # 0 => new.since = at \/ (r.pending # 0 /\ new.since = r.since)
               /\ new.severity \in {r.severity, severity}
               /\ new.severity # r.severity => r.pending # 0 /\ at - r.since >= dwell
    <3>1. CASE state.pending # kind
      <4>1. new = [severity |-> r.severity, pending |-> kind, since |-> at, last |-> at, sampled |-> TRUE]
        BY <2>1, <2>3, <3>1 DEF Pend
      <4> QED
        BY <4>1
    <3>2. CASE state.pending = kind /\ at - state.since >= dwell
      <4>1. new = [severity |-> severity, pending |-> 0, since |-> r.since, last |-> at, sampled |-> TRUE]
        BY <2>1, <2>3, <3>2 DEF Pend
      <4> QED
        BY <1>1, <2>1, <2>3, <3>2, <4>1
    <3>3. CASE state.pending = kind /\ ~(at - state.since >= dwell)
      <4>1. new = state
        BY <2>3, <3>3 DEF Pend
      <4> QED
        BY <1>1, <2>1, <2>3, <3>3, <4>1
    <3> QED
      BY <3>1, <3>2, <3>3
  <2>4. state.severity = r.severity
    BY <2>1
  <2> HIDE DEF target
  <2>5. CASE target > r.severity
    <3>1. new = Pend(state, target, target, at, Dwell) /\ target \in 1..3
      BY <1>1, <1>2, <2>2, <2>4, <2>5 DEF Evaluated, target
    <3> QED
      BY <1>1, <1>2, <2>3, <2>5, <3>1
  <2>6. CASE target < r.severity /\ Releases(r.severity, z)
    <3>1. new = Pend(state, Clearing, target, at, ClearDwell) /\ Clearing \in 1..3
      BY <1>1, <1>2, <2>2, <2>4, <2>6 DEF Evaluated, target, Clearing
    <3> QED
      BY <1>1, <1>2, <2>3, <2>6, <3>1
  <2>7. CASE ~(target > r.severity) /\ ~(target < r.severity /\ Releases(r.severity, z))
    <3>1. new = [state EXCEPT !.pending = 0]
      BY <2>2, <2>4, <2>7 DEF Evaluated, target
    <3>2. new = [severity |-> r.severity, pending |-> 0, since |-> r.since, last |-> at, sampled |-> TRUE]
      BY <2>1, <3>1
    <3> QED
      BY <1>1, <3>2
  <2> QED
    BY <2>5, <2>6, <2>7
<1> QED
  BY <1>3, <1>4

LEMMA RuleStart == RuleInit => RuleInv
<1> SUFFICES ASSUME RuleInit PROVE RuleInv
  OBVIOUS
<1> USE RuleAssumption
<1>1. NoState \in StateType /\ NoState.pending = 0 /\ NoState.since = 0
  BY DEF NoState, StateType
<1>2. queue = <<>> /\ Len(queue) = 0 /\ queue \in Seq(SampleType)
  BY DEF RuleInit
<1>3. RuleTypes
  <2>1. heard \in HeardType /\ heard.at = None /\ None <= 0
    BY NothingHeardIs DEF RuleInit, None
  <2>2. \A i \in 1..Len(queue) : queue[i].heard.at \in 0..now
    BY <1>2
  <2>3. Len(queue) <= SampleQueue /\ rule.since <= now /\ heard.at <= now
    BY <1>1, <1>2, <2>1 DEF RuleInit
  <2>6. 0 \in 0..Horizon
    BY RuleAssumption
  <2>4. now \in 0..Horizon /\ lost \in BOOLEAN /\ marking \in BOOLEAN /\ tick \in {None} \union 0..SampleQueue
        /\ feed \in {"up", "down", "seen"}
    BY <2>6 DEF RuleInit
  <2>5. rule \in StateType
    BY <1>1 DEF RuleInit
  <2>7. breach \in Moments
    BY RuleAssumption DEF RuleInit, Moments, None
  <2> QED
    BY <1>2, <2>1, <2>2, <2>3, <2>4, <2>5, <2>7 DEF RuleTypes
<1>4. FeedInv
  BY <1>2 DEF RuleInit, FeedInv
<1>5. Queued(heard)
  BY <1>2, NothingHeardIs DEF RuleInit, Queued
<1>6. PendingIsHeard(rule, heard) /\ LossPast(rule, heard, breach)
  <2>1. ~NoState.sampled /\ NothingHeard.at = None /\ None <= None
    BY NothingHeardIs DEF NoState, None
  <2> QED
    BY <1>1, <2>1 DEF RuleInit, PendingIsHeard, LossPast, Clearing
<1> QED
  BY <1>3, <1>4, <1>5, <1>6, NothingHeardIs DEF RuleInit, RuleInv

(* HeardWith goes on from what was heard before.                                 *)
LEMMA HeardWithIs ==
  ASSUME RuleTypes, NEW z \in Zones \union {NaN}, heard.at < now
  PROVE  /\ HeardWith(z) \in HeardType /\ HeardWith(z).at = now
         /\ Follows([zone |-> z, heard |-> HeardWith(z)], heard)
<1> USE RuleAssumption
<1> DEFINE broken == heard.at = None \/ now - heard.at > Stale
           crossing  == [s \in 1..2 |-> Since(heard.crossing[s], z # NaN /\ ZoneTarget(z) >= s, broken)]
           releasing == [s \in 1..2 |-> Since(heard.releasing[s], z # NaN /\ Releases(s, z), broken)]
<1>1. heard \in HeardType /\ now \in Moments /\ None \in Moments
  BY DEF RuleTypes, Moments, None
<1>2. crossing \in [1..2 -> Moments]
  BY <1>1 DEF HeardType, Since
<1>3. releasing \in [1..2 -> Moments]
  BY <1>1 DEF HeardType, Since
<1>4. HeardWith(z) = [heard EXCEPT !.at = now, !.crossing = crossing, !.releasing = releasing]
  BY <1>1 DEF HeardWith, HeardType
<1>5. /\ HeardWith(z) \in HeardType /\ HeardWith(z).at = now
      /\ HeardWith(z).crossing = crossing /\ HeardWith(z).releasing = releasing
  <2> HIDE DEF crossing, releasing
  <2> QED
    BY <1>1, <1>2, <1>3, <1>4 DEF HeardType
<1>6. ASSUME NEW s \in 1..2
      PROVE  /\ HeardWith(z).crossing[s] = GoesOn(heard.crossing[s], z # NaN /\ ZoneTarget(z) >= s, broken, now)
             /\ HeardWith(z).releasing[s] = GoesOn(heard.releasing[s], z # NaN /\ Releases(s, z), broken, now)
  BY <1>5 DEF Since, GoesOn
<1> DEFINE sample == [zone |-> z, heard |-> HeardWith(z)]
<1>7. sample.heard = HeardWith(z) /\ sample.zone = z
  OBVIOUS
<1> HIDE DEF sample
<1>8. Follows(sample, heard)
  BY <1>5, <1>6, <1>7 DEF Follows
<1> QED
  BY <1>5, <1>8 DEF sample

(* What is pending after a sample has been heard since then, and a severity that *)
(* changes has been heard for the whole dwell (alert_engine_sample).             *)
LEMMA SampleEarns ==
  ASSUME rule \in StateType, NEW sample \in SampleType, NEW h \in HeardType, sample.heard.at \in 0..Horizon,
         AllPast(h), PendingIsHeard(rule, h), Follows(sample, h),
         NEW new, new = EngineSample(rule, sample.zone, sample.heard.at)
  PROVE  /\ new \in StateType /\ (new.since = rule.since \/ new.since \in {0, sample.heard.at})
         /\ AllPast(sample.heard) /\ PendingIsHeard(new, sample.heard)
         /\ new.severity > rule.severity =>
              LET start == sample.heard.crossing[new.severity]
              IN start # None /\ sample.heard.at - start >= Dwell
         /\ new.severity < rule.severity =>
              LET start == sample.heard.releasing[rule.severity]
              IN start # None /\ sample.heard.at - start >= ClearDwell
<1> USE RuleAssumption
<1> DEFINE z  == sample.zone
           at == sample.heard.at
           event == sample.heard
           broken == h.at = None \/ at - h.at > Stale
           state == Continued(rule, at)
           target == ZoneTarget(z)
<1>1. /\ rule.severity \in 0..2 /\ rule.pending \in 0..3 /\ rule.since \in 0..Horizon
      /\ rule.last \in 0..Horizon /\ rule.sampled \in BOOLEAN /\ z \in Zones \union {NaN}
      /\ at \in 0..Horizon
      /\ rule = [severity |-> rule.severity, pending |-> rule.pending, since |-> rule.since,
                 last |-> rule.last, sampled |-> rule.sampled]
  BY DEF StateType, SampleType
<1>2. /\ h.at \in -1..Horizon
      /\ \A s \in 1..2 : /\ h.crossing[s] \in -1..Horizon /\ h.releasing[s] \in -1..Horizon
                         /\ event.crossing[s] \in -1..Horizon /\ event.releasing[s] \in -1..Horizon
  BY DEF HeardType, Moments, SampleType
<1>3. /\ h.at < at
      /\ \A s \in 1..2 :
           /\ event.crossing[s] = GoesOn(h.crossing[s], z # NaN /\ ZoneTarget(z) >= s, broken, at)
           /\ event.releasing[s] = GoesOn(h.releasing[s], z # NaN /\ Releases(s, z), broken, at)
  BY DEF Follows
<1>4. target \in 0..2
  BY DEF ZoneTarget
<1>5. AllPast(event)
  BY <1>1, <1>2, <1>3 DEF AllPast, GoesOn, None
<1>6. CASE z = NaN
  <2>1. new = [rule EXCEPT !.sampled = FALSE, !.pending = 0, !.since = 0]
    BY <1>6 DEF EngineSample, Invalidated
  <2>2. new \in StateType /\ new.pending = 0 /\ new.severity = rule.severity /\ new.since = 0
    <3>1. new = [severity |-> rule.severity, pending |-> 0, since |-> 0, last |-> rule.last, sampled |-> FALSE]
      BY <1>1, <2>1
    <3> QED
      BY <1>1, <3>1 DEF StateType
  <2> QED
    BY <1>1, <1>5, <2>2 DEF PendingIsHeard, Clearing
<1>7. CASE z # NaN
  <2>1. new = Evaluated(state, z, at)
    BY <1>7 DEF EngineSample
  <2> DEFINE pending == IF rule.sampled /\ at - rule.last > Stale THEN 0 ELSE rule.pending
  <2>p. pending \in 0..3
    BY <1>1
  <2>e. state = [rule EXCEPT !.pending = pending, !.sampled = TRUE, !.last = at]
    BY DEF Continued
  <2>2. /\ state.severity = rule.severity /\ state.since = rule.since /\ state.last = at /\ state.sampled = TRUE
        /\ state.pending = pending /\ state \in StateType
        /\ state = [severity |-> state.severity, pending |-> state.pending, since |-> state.since,
                    last |-> state.last, sampled |-> state.sampled]
    <3> HIDE DEF state, pending, at
    <3>1. state = [severity |-> rule.severity, pending |-> pending, since |-> rule.since, last |-> at,
                   sampled |-> TRUE]
      BY <1>1, <2>e
    <3> QED
      BY <1>1, <2>p, <3>1 DEF StateType
  <2>3. state \in StateType
    BY <2>2
  <2> HIDE DEF state
  <2>4. state.pending # 0 => ~broken /\ state.pending = rule.pending
    BY <1>1, <1>2, <2>2 DEF PendingIsHeard, None, Clearing
  <2>5. state.pending \in 1..2 =>
          /\ h.crossing[state.pending] # None /\ h.crossing[state.pending] <= state.since
          /\ h.crossing[state.pending] <= h.at
    BY <1>1, <2>2, <2>4 DEF PendingIsHeard, AllPast
  <2>6. state.pending = Clearing =>
          /\ state.severity \in 1..2 /\ h.releasing[state.severity] # None
          /\ h.releasing[state.severity] <= state.since /\ h.releasing[state.severity] <= h.at
    BY <1>1, <2>2, <2>4 DEF PendingIsHeard, AllPast, Clearing
  <2> HIDE DEF broken, z, at, event
  <2>7. CASE target > state.severity
    <3>1. new = Pend(state, target, target, at, Dwell) /\ target \in 1..2
      BY <1>1, <1>4, <2>1, <2>2, <2>7 DEF Evaluated
    <3>2. event.crossing[target] = GoesOn(h.crossing[target], TRUE, broken, at)
      BY <1>3, <1>7, <3>1 DEF GoesOn
    <3>3. event.crossing[target] # None
      BY <1>1, <3>2 DEF GoesOn, None
    <3>4. CASE state.pending # target
      <4>1. new = [state EXCEPT !.pending = target, !.since = at]
        BY <3>1, <3>4 DEF Pend
      <4>2. /\ new.severity = rule.severity /\ new.pending = target /\ new.since = at
            /\ new.last = at /\ new.sampled = TRUE /\ new \in StateType
        <5>1. new = [severity |-> state.severity, pending |-> target, since |-> at, last |-> at, sampled |-> TRUE]
          BY <2>2, <4>1
        <5> QED
          BY <1>1, <1>4, <2>2, <2>3, <5>1 DEF StateType
      <4>3. event.crossing[target] <= at /\ event.at = at /\ at # None
        BY <1>1, <1>5, <3>1 DEF AllPast, at, event, None
      <4> QED
        BY <1>1, <1>5, <3>1, <3>3, <4>2, <4>3 DEF PendingIsHeard, Clearing, at, event
    <3>5. CASE state.pending = target /\ at - state.since >= Dwell
      <4>1. new = [state EXCEPT !.severity = target, !.pending = 0]
        BY <3>1, <3>5 DEF Pend
      <4>2. new.severity = target /\ new.pending = 0 /\ new.since = rule.since /\ new \in StateType
        <5>1. new = [severity |-> target, pending |-> 0, since |-> state.since, last |-> at, sampled |-> TRUE]
          BY <2>2, <4>1
        <5> QED
          BY <1>1, <1>4, <2>2, <2>3, <5>1 DEF StateType
      <4>3. event.crossing[target] = h.crossing[target] /\ h.crossing[target] <= state.since
        BY <1>1, <2>4, <2>5, <3>1, <3>2, <3>5 DEF GoesOn, None
      <4>4. at - event.crossing[target] >= Dwell
        BY <1>1, <1>2, <2>2, <3>1, <3>5, <4>3
      <4> QED
        BY <1>1, <1>5, <2>2, <2>7, <3>1, <3>3, <4>2, <4>4 DEF PendingIsHeard, Clearing, at, event
    <3>6. CASE state.pending = target /\ ~(at - state.since >= Dwell)
      <4>1. new = state
        BY <3>1, <3>6 DEF Pend
      <4>2. event.crossing[target] = h.crossing[target] /\ h.crossing[target] <= state.since
        BY <1>1, <2>4, <2>5, <3>1, <3>2, <3>6 DEF GoesOn, None
      <4>3. event.at = at /\ at # None
        BY <1>1 DEF at, event, None
      <4>4. PendingIsHeard(new, event)
        BY <1>1, <2>2, <3>1, <3>3, <3>6, <4>1, <4>2, <4>3 DEF PendingIsHeard, Clearing
      <4> QED
        BY <1>1, <1>5, <2>2, <2>3, <4>1, <4>4 DEF at, event
    <3> QED
      BY <3>4, <3>5, <3>6
  <2>8. CASE target < state.severity /\ Releases(state.severity, z)
    <3>1. new = Pend(state, Clearing, target, at, ClearDwell) /\ state.severity \in 1..2
      BY <1>1, <1>4, <2>1, <2>2, <2>8 DEF Evaluated
    <3> DEFINE from == state.severity
    <3>2. event.releasing[from] = GoesOn(h.releasing[from], TRUE, broken, at)
      BY <1>3, <1>7, <2>8, <3>1
    <3>3. event.releasing[from] # None
      BY <1>1, <3>2 DEF GoesOn, None
    <3>4. CASE state.pending # Clearing
      <4>1. new = [state EXCEPT !.pending = Clearing, !.since = at]
        BY <3>1, <3>4 DEF Pend
      <4>2. /\ new.severity = rule.severity /\ new.pending = Clearing /\ new.since = at
            /\ new.last = at /\ new.sampled = TRUE /\ new \in StateType
        <5>1. new = [severity |-> state.severity, pending |-> Clearing, since |-> at, last |-> at, sampled |-> TRUE]
          BY <2>2, <4>1
        <5> QED
          BY <1>1, <2>2, <2>3, <5>1 DEF StateType, Clearing
      <4>3. event.releasing[from] <= at /\ event.at = at /\ at # None
        BY <1>1, <1>5, <3>1 DEF AllPast, at, event, None
      <4> QED
        BY <1>1, <1>5, <2>2, <3>1, <3>3, <4>2, <4>3 DEF PendingIsHeard, Clearing, at, event
    <3>5. CASE state.pending = Clearing /\ at - state.since >= ClearDwell
      <4>1. new = [state EXCEPT !.severity = target, !.pending = 0]
        BY <3>1, <3>5 DEF Pend
      <4>2. new.severity = target /\ new.pending = 0 /\ new.since = rule.since /\ new \in StateType
        <5>1. new = [severity |-> target, pending |-> 0, since |-> state.since, last |-> at, sampled |-> TRUE]
          BY <2>2, <4>1
        <5> QED
          BY <1>1, <1>4, <2>2, <2>3, <5>1 DEF StateType
      <4>3. event.releasing[from] = h.releasing[from] /\ h.releasing[from] <= state.since
        BY <1>1, <2>4, <2>6, <3>1, <3>2, <3>5 DEF GoesOn, None, Clearing
      <4>4. at - event.releasing[from] >= ClearDwell
        BY <1>1, <1>2, <2>2, <3>1, <3>5, <4>3
      <4> QED
        <5>1. PendingIsHeard(new, event)
          BY <4>2 DEF PendingIsHeard, Clearing
        <5>2. from = rule.severity /\ ~(new.severity > rule.severity)
          BY <1>1, <1>4, <2>2, <2>8, <4>2
        <5> QED
          BY <1>5, <3>3, <4>2, <4>4, <5>1, <5>2 DEF at, event
    <3>6. CASE state.pending = Clearing /\ ~(at - state.since >= ClearDwell)
      <4>1. new = state
        BY <3>1, <3>6 DEF Pend
      <4>2. event.releasing[from] = h.releasing[from] /\ h.releasing[from] <= state.since
        BY <1>1, <2>4, <2>6, <3>1, <3>2, <3>6 DEF GoesOn, None, Clearing
      <4>3. event.at = at /\ at # None
        BY <1>1 DEF at, event, None
      <4>4. PendingIsHeard(new, event)
        BY <1>1, <2>2, <3>1, <3>3, <3>6, <4>1, <4>2, <4>3 DEF PendingIsHeard, Clearing
      <4> QED
        BY <1>1, <1>5, <2>2, <2>3, <4>1, <4>4 DEF at, event
    <3> QED
      BY <3>4, <3>5, <3>6
  <2>9. CASE ~(target > state.severity) /\ ~(target < state.severity /\ Releases(state.severity, z))
    <3>1. new = [state EXCEPT !.pending = 0]
      BY <2>1, <2>9 DEF Evaluated
    <3>2. new.severity = rule.severity /\ new.pending = 0 /\ new.since = rule.since /\ new \in StateType
      <4>1. new = [severity |-> state.severity, pending |-> 0, since |-> state.since, last |-> at, sampled |-> TRUE]
        BY <2>2, <3>1
      <4> QED
        BY <1>1, <2>2, <2>3, <4>1 DEF StateType
    <3> QED
      BY <1>1, <1>5, <3>2 DEF PendingIsHeard, Clearing, event
  <2> QED
    BY <2>7, <2>8, <2>9
<1> QED
  BY <1>6, <1>7

(* queue_alert_sample.                                                           *)
LEMMA ObserveKept == RuleInv /\ Observe => RuleInv'
<1> SUFFICES ASSUME RuleInv, Observe PROVE RuleInv'
  OBVIOUS
<1> USE RuleAssumption
<1>1. RuleTypes /\ FeedInv
  BY DEF RuleInv
<1>2. PICK h \in HeardType : AllPast(h) /\ Queued(h) /\ (feed # "down" => PendingIsHeard(rule, h) /\ LossPast(rule, h, breach))
  BY DEF RuleInv
<1>3. PICK z \in Zones \union {NaN} :
         IF Len(queue) < SampleQueue
         THEN /\ heard' = HeardWith(z)
              /\ queue' = Append(queue, [zone |-> z, heard |-> HeardWith(z)])
              /\ UNCHANGED marking
         ELSE marking' = TRUE /\ heard' = [heard EXCEPT !.lostAt = now] /\ UNCHANGED queue
  BY DEF Observe
<1>4. feed = "up" /\ heard.at < now /\ UNCHANGED <<now, feed, lost, tick, rule, breach>>
  BY DEF Observe
<1>5. /\ HeardWith(z) \in HeardType /\ HeardWith(z).at = now
      /\ Follows([zone |-> z, heard |-> HeardWith(z)], heard)
  BY <1>1, <1>4, HeardWithIs
<1>6. now \in 0..Horizon /\ heard \in HeardType /\ queue \in Seq(SampleType)
      /\ Len(queue) \in Nat /\ Len(queue) <= SampleQueue
  BY <1>1 DEF RuleTypes
<1>7. CASE Len(queue) < SampleQueue
  <2> DEFINE sample == [zone |-> z, heard |-> HeardWith(z)]
  <2>1. sample \in SampleType /\ sample.heard = HeardWith(z)
    BY <1>5 DEF SampleType
  <2>2. heard' = sample.heard /\ queue' = Append(queue, sample) /\ UNCHANGED marking
    BY <1>3, <1>7, <2>1
  <2>3. Follows(sample, heard)
    BY <1>5
  <2> HIDE DEF sample
  <2>4. /\ queue' \in Seq(SampleType) /\ Len(queue') = Len(queue) + 1 /\ queue' # <<>>
        /\ \A i \in 1..Len(queue) : queue'[i] = queue[i]
        /\ queue'[Len(queue) + 1] = sample
    BY <1>6, <2>1, <2>2
  <2>5. \A i \in 1..Len(queue') : queue'[i].heard.at \in 0..now
    BY <1>1, <1>5, <1>6, <2>1, <2>4 DEF RuleTypes
  <2>6. RuleTypes'
    BY <1>1, <1>4, <1>5, <1>6, <1>7, <2>1, <2>2, <2>4, <2>5 DEF RuleTypes
  <2>7. FeedInv'
    BY <1>4 DEF FeedInv
  <2>8. PICK last \in HeardType :
          /\ last = (IF queue = <<>> THEN h ELSE queue[Len(queue)].heard)
          /\ heard.at = last.at /\ heard.crossing = last.crossing /\ heard.releasing = last.releasing
    BY <1>2 DEF Queued
  <2>9. Follows(sample, last)
    BY <2>3, <2>8 DEF Follows
  <2>10. Follows(queue'[1], h)
    BY <1>2, <1>6, <2>4, <2>8, <2>9 DEF Queued
  <2>11. ASSUME NEW i \in 1..Len(queue')-1 PROVE Follows(queue'[i+1], queue'[i].heard)
    <3>1. CASE i < Len(queue)
      <4>1. queue'[i+1] = queue[i+1] /\ queue'[i] = queue[i] /\ i \in 1..Len(queue)-1
        BY <1>6, <2>4, <3>1
      <4> QED
        BY <1>2, <4>1 DEF Queued
    <3>2. CASE i = Len(queue)
      <4>1. queue # <<>> /\ queue'[i+1] = sample /\ queue'[i] = queue[Len(queue)]
        BY <1>6, <2>4, <3>2
      <4> QED
        BY <2>8, <2>9, <4>1
    <3> QED
      BY <1>6, <2>4, <3>1, <3>2
  <2>12. heard' \in HeardType /\ heard' = queue'[Len(queue')].heard
    BY <1>5, <1>6, <2>1, <2>2, <2>4
  <2>13. Queued(h)'
    BY <2>4, <2>10, <2>11, <2>12 DEF Queued
  <2> QED
    BY <1>2, <1>4, <2>6, <2>7, <2>13 DEF RuleInv
<1>8. CASE ~(Len(queue) < SampleQueue)
  <2>1. marking' = TRUE /\ heard' = [heard EXCEPT !.lostAt = now] /\ queue' = queue
    BY <1>3, <1>8
  <2>2. /\ heard' \in HeardType /\ heard'.at = heard.at /\ heard'.crossing = heard.crossing
        /\ heard'.releasing = heard.releasing
    <3>1. heard' = [at |-> heard.at, crossing |-> heard.crossing, releasing |-> heard.releasing, lostAt |-> now]
      BY <1>6, <2>1 DEF HeardType
    <3>2. now \in Moments
      BY <1>6 DEF Moments
    <3> QED
      BY <1>6, <3>1, <3>2 DEF HeardType
  <2>3. RuleTypes'
    BY <1>1, <1>4, <2>1, <2>2 DEF RuleTypes
  <2>4. Queued(h)'
    BY <1>2, <2>1, <2>2 DEF Queued
  <2>5. FeedInv'
    BY <1>4 DEF FeedInv
  <2> QED
    BY <1>2, <1>4, <2>3, <2>4, <2>5 DEF RuleInv
<1> QED
  BY <1>7, <1>8

(* A sample that the tick takes: what it changes in the rule is earned.          *)
LEMMA TakenIs ==
  ASSUME RuleInv, TickTakes
  PROVE  RuleInv' /\ Earned
<1> USE RuleAssumption
<1>1. RuleTypes /\ FeedInv
  BY DEF RuleInv
<1>2. /\ tick > 0 /\ queue # <<>> /\ queue' = Tail(queue) /\ tick' = tick - 1
      /\ rule' = EngineSample(rule, Head(queue).zone, Head(queue).heard.at)
      /\ UNCHANGED <<now, feed, lost, marking, heard, breach>>
  BY DEF TickTakes, lossVars
<1>3. feed = "up"
  BY <1>1, <1>2 DEF FeedInv
<1>4. PICK h \in HeardType : AllPast(h) /\ Queued(h) /\ PendingIsHeard(rule, h) /\ LossPast(rule, h, breach)
  BY <1>3 DEF RuleInv
<1>5. /\ queue \in Seq(SampleType) /\ Len(queue) \in Nat /\ Len(queue) >= 1 /\ Len(queue) <= SampleQueue
      /\ Head(queue) = queue[1] /\ queue' \in Seq(SampleType) /\ Len(queue') = Len(queue) - 1
      /\ \A i \in 1..Len(queue') : queue'[i] = queue[i+1]
      /\ (queue' = <<>> <=> Len(queue) = 1)
  <2>1. queue \in Seq(SampleType) /\ Len(queue) <= SampleQueue
    BY <1>1 DEF RuleTypes
  <2>2. Len(queue) \in Nat /\ Len(queue) >= 1 /\ Head(queue) = queue[1]
    BY <1>2, <2>1
  <2>3. Tail(queue) \in Seq(SampleType) /\ Len(Tail(queue)) = Len(queue) - 1
    BY <1>2, <2>1
  <2>4. \A i \in 1..Len(queue)-1 : Tail(queue)[i] = queue[i+1]
    BY <1>2, <2>1
  <2>5. Tail(queue) = <<>> <=> Len(Tail(queue)) = 0
    <3> DEFINE rest == Tail(queue)
    <3>1. rest \in Seq(SampleType)
      BY <2>3
    <3> HIDE DEF rest
    <3>2. rest = <<>> <=> Len(rest) = 0
      BY <3>1
    <3> QED
      BY <3>2 DEF rest
  <2> QED
    BY <1>2, <2>1, <2>2, <2>3, <2>4, <2>5
<1>s. PICK sample : sample = queue[1]
  OBVIOUS
<1>6. sample \in SampleType /\ sample.heard \in HeardType /\ sample.heard.at \in 0..now /\ now \in 0..Horizon
  <2>1. sample \in SampleType
    BY <1>5, <1>s
  <2>2. sample.heard.at \in 0..now /\ now \in 0..Horizon
    BY <1>1, <1>5, <1>s DEF RuleTypes
  <2> QED
    BY <2>1, <2>2 DEF SampleType
<1>7. Follows(sample, h)
  BY <1>2, <1>4, <1>s DEF Queued
<1>8. sample.heard.at \in 0..Horizon /\ rule \in StateType
  BY <1>1, <1>6 DEF RuleTypes
<1>9. rule' = EngineSample(rule, sample.zone, sample.heard.at)
  BY <1>2, <1>5, <1>s
<1> DEFINE earned ==
      /\ rule' \in StateType /\ (rule'.since = rule.since \/ rule'.since \in {0, sample.heard.at})
      /\ AllPast(sample.heard) /\ PendingIsHeard(rule', sample.heard)
      /\ rule'.severity > rule.severity =>
           LET start == sample.heard.crossing[rule'.severity]
           IN start # None /\ sample.heard.at - start >= Dwell
      /\ rule'.severity < rule.severity =>
           LET start == sample.heard.releasing[rule.severity]
           IN start # None /\ sample.heard.at - start >= ClearDwell
<1>10. earned
  BY <1>4, <1>6, <1>7, <1>8, <1>9, SampleEarns
<1>16. /\ LossPast(rule', sample.heard, breach)
       /\ rule'.severity > rule.severity => sample.heard.at - Dwell > breach
       /\ rule'.severity < rule.severity => sample.heard.at - ClearDwell > breach
  <2>1. /\ h.at < sample.heard.at /\ breach <= h.at /\ (rule.pending # 0 => breach < rule.since)
        /\ h.at \in -1..Horizon /\ breach \in -1..Horizon /\ rule.since \in 0..Horizon
    BY <1>1, <1>4, <1>7, <1>8 DEF Follows, LossPast, HeardType, RuleTypes, Moments, StateType
  <2>2. /\ rule'.sampled => rule'.last = sample.heard.at
        /\ rule'.pending # 0 => rule'.since = sample.heard.at \/ (rule.pending # 0 /\ rule'.since = rule.since)
        /\ rule'.severity > rule.severity => rule.pending # 0 /\ sample.heard.at - rule.since >= Dwell
        /\ rule'.severity < rule.severity => rule.pending # 0 /\ sample.heard.at - rule.since >= ClearDwell
    BY <1>8, <1>9, SampleMoves
  <2> QED
    BY <1>8, <2>1, <2>2 DEF LossPast
<1>11. RuleTypes'
  <2>1. \A i \in 1..Len(queue') : queue'[i].heard.at \in 0..now
    <3>1. \A i \in 1..Len(queue) : queue[i].heard.at \in 0..now
      BY <1>1 DEF RuleTypes
    <3>2. ASSUME NEW i \in 1..Len(queue') PROVE queue'[i] = queue[i+1] /\ i+1 \in 1..Len(queue)
      BY <1>5
    <3> QED
      BY <3>1, <3>2
  <2>2. rule'.since <= now /\ rule' \in StateType
    BY <1>1, <1>6, <1>10 DEF RuleTypes
  <2>3. tick' \in {None} \union 0..SampleQueue
    BY <1>1, <1>2 DEF RuleTypes, None
  <2> QED
    BY <1>1, <1>2, <1>5, <2>1, <2>2, <2>3 DEF RuleTypes
<1>12. FeedInv'
  BY <1>2, <1>3 DEF FeedInv
<1>13. Queued(sample.heard)'
  <2>1. queue' # <<>> => Follows(queue'[1], sample.heard)
    <3> SUFFICES ASSUME queue' # <<>> PROVE Follows(queue'[1], sample.heard)
      OBVIOUS
    <3>1. queue'[1] = queue[1+1] /\ 1 \in 1..Len(queue)-1
      BY <1>5
    <3> QED
      BY <1>4, <1>s, <3>1 DEF Queued
  <2>2. ASSUME NEW i \in 1..Len(queue')-1 PROVE Follows(queue'[i+1], queue'[i].heard)
    <3>1. i + 1 \in 1..Len(queue)-1 /\ i \in 1..Len(queue') /\ i + 1 \in 1..Len(queue')
      BY <1>5
    <3>2. queue'[i+1] = queue[(i+1)+1] /\ queue'[i] = queue[i+1]
      BY <1>5, <3>1
    <3> QED
      BY <1>4, <3>1, <3>2 DEF Queued
  <2>3. (IF queue' = <<>> THEN sample.heard ELSE queue'[Len(queue')].heard) = queue[Len(queue)].heard
    <3>1. CASE queue' = <<>>
      BY <1>5, <1>s, <3>1
    <3>2. CASE queue' # <<>>
      <4>1. Len(queue') \in 1..Len(queue') /\ Len(queue') + 1 = Len(queue)
        BY <1>5, <3>2
      <4>2. queue'[Len(queue')] = queue[Len(queue)]
        BY <1>5, <4>1
      <4> QED
        BY <3>2, <4>2
    <3> QED
      BY <3>1, <3>2
  <2>4. PICK last \in HeardType :
          /\ last = queue[Len(queue)].heard
          /\ heard.at = last.at /\ heard.crossing = last.crossing /\ heard.releasing = last.releasing
    BY <1>2, <1>4 DEF Queued
  <2>5. \E final \in HeardType :
          /\ final = (IF queue' = <<>> THEN sample.heard ELSE queue'[Len(queue')].heard)
          /\ heard'.at = final.at /\ heard'.crossing = final.crossing /\ heard'.releasing = final.releasing
    BY <1>2, <2>3, <2>4
  <2> QED
    BY <2>1, <2>2, <2>5 DEF Queued
<1>14. RuleInv'
  BY <1>2, <1>6, <1>10, <1>11, <1>12, <1>13, <1>16 DEF RuleInv
<1>15. Earned
  <2>1. Head(queue).heard = sample.heard
    BY <1>5, <1>s
  <2>2. rule.severity \in 0..2 /\ rule'.severity \in 0..2
    BY <1>8, <1>10 DEF StateType
  <2>3. CASE rule'.severity > rule.severity
    BY <1>2, <1>10, <1>16, <2>1, <2>2, <2>3 DEF Earned
  <2>4. CASE rule'.severity < rule.severity
    BY <1>2, <1>10, <1>16, <2>1, <2>2, <2>4 DEF Earned
  <2>5. CASE rule'.severity = rule.severity
    BY <2>5 DEF Earned
  <2> QED
    BY <2>2, <2>3, <2>4, <2>5
<1> QED
  BY <1>14, <1>15

(* The end of a tick: the lost bits, the link, alert_engine_tick.                *)
LEMMA TickEndsKept == RuleInv /\ TickEnds => RuleInv'
<1> SUFFICES ASSUME RuleInv, TickEnds PROVE RuleInv'
  OBVIOUS
<1> USE RuleAssumption
<1>1. RuleTypes /\ FeedInv
  BY DEF RuleInv
<1>2. PICK h \in HeardType : AllPast(h) /\ Queued(h) /\ (feed # "down" => PendingIsHeard(rule, h) /\ LossPast(rule, h, breach))
  BY DEF RuleInv
<1> DEFINE state == IF lost \/ feed # "up" THEN Invalidated(rule) ELSE rule
           stale == ~state.sampled \/ now - state.last > Stale
           pending == IF stale THEN 0 ELSE state.pending
<1>3. /\ tick' = None /\ lost' = FALSE /\ feed' = IF feed = "up" THEN "up" ELSE "seen"
      /\ rule' = [state EXCEPT !.pending = pending] /\ UNCHANGED <<now, queue, marking, heard>>
      /\ breach' = IF feed # "up" THEN None ELSE IF lost /\ rule.sampled THEN rule.last ELSE breach
  BY DEF TickEnds
<1>4. /\ rule \in StateType /\ now \in 0..Horizon /\ rule.since <= now
      /\ rule = [severity |-> rule.severity, pending |-> rule.pending, since |-> rule.since,
                 last |-> rule.last, sampled |-> rule.sampled]
  BY <1>1 DEF RuleTypes, StateType
<1>5. /\ state \in StateType /\ state.since <= now
      /\ state = rule \/ state.pending = 0
      /\ state.last = rule.last /\ (state.sampled => state = rule /\ ~lost /\ feed = "up")
      /\ feed # "up" => state.pending = 0
      /\ state = [severity |-> state.severity, pending |-> state.pending, since |-> state.since,
                  last |-> state.last, sampled |-> state.sampled]
  <2>1. CASE lost \/ feed # "up"
    <3>1. state = [severity |-> rule.severity, pending |-> 0, since |-> 0, last |-> rule.last, sampled |-> FALSE]
      BY <1>4, <2>1 DEF Invalidated
    <3> HIDE DEF state
    <3> QED
      BY <1>4, <3>1 DEF StateType
  <2>2. CASE ~(lost \/ feed # "up")
    <3>1. state = rule
      BY <2>2
    <3> HIDE DEF state
    <3> QED
      BY <1>4, <2>2, <3>1
  <2> QED
    BY <2>1, <2>2
<1> HIDE DEF state
<1>6. pending \in 0..3 /\ (pending = 0 \/ pending = state.pending)
  BY <1>5 DEF StateType
<1> HIDE DEF pending
<1>7. rule' = [severity |-> state.severity, pending |-> pending, since |-> state.since,
               last |-> state.last, sampled |-> state.sampled]
  BY <1>3, <1>5
<1>8. /\ rule' \in StateType /\ rule'.since <= now /\ (rule'.pending = 0 \/ rule' = rule)
      /\ rule'.last = rule.last /\ rule'.sampled = state.sampled
      /\ (feed # "up" => rule'.pending = 0)
  BY <1>5, <1>6, <1>7 DEF StateType
<1>9. RuleTypes'
  <2>1. breach' \in Moments
    <3>1. breach \in Moments /\ None \in Moments /\ rule.last \in Moments
      BY <1>1, <1>4 DEF RuleTypes, Moments, None, StateType
    <3> QED
      BY <1>3, <3>1
  <2> QED
    BY <1>1, <1>3, <1>8, <2>1 DEF RuleTypes
<1>10. FeedInv'
  BY <1>1, <1>3, <1>8 DEF FeedInv
<1>11. Queued(h)'
  BY <1>2, <1>3 DEF Queued
<1>12. feed' # "down" => PendingIsHeard(rule', h)
  <2>1. CASE rule'.pending = 0
    BY <2>1 DEF PendingIsHeard, Clearing
  <2>2. CASE rule'.pending # 0
    BY <1>2, <1>3, <1>8, <2>2
  <2> QED
    BY <2>1, <2>2
<1>13. feed' # "down" => LossPast(rule', h, breach')
  <2>1. CASE feed # "up"
    <3>1. breach' = None /\ rule'.pending = 0 /\ ~rule'.sampled
      <4>1. breach' = None
        BY <1>3, <2>1
      <4>2. ~state.sampled
        BY <1>5, <2>1
      <4> QED
        BY <1>8, <2>1, <4>1, <4>2
    <3>2. None <= h.at
      BY DEF HeardType, Moments, None
    <3> QED
      BY <3>1, <3>2 DEF LossPast
  <2>2. CASE feed = "up" /\ ~(lost /\ rule.sampled)
    <3>1. breach' = breach /\ LossPast(rule, h, breach)
      BY <1>2, <1>3, <2>2
    <3>2. rule'.sampled => rule.sampled
      BY <1>5, <1>8
    <3> QED
      BY <1>8, <3>1, <3>2 DEF LossPast
  <2>3. CASE feed = "up" /\ lost /\ rule.sampled
    <3>1. breach' = rule.last /\ rule.last = h.at
      BY <1>2, <1>3, <2>3 DEF LossPast
    <3>2. ~rule'.sampled /\ rule'.pending = 0
      BY <1>5, <1>6, <1>7, <1>8, <2>3
    <3>3. h.at <= h.at
      BY DEF HeardType, Moments
    <3> QED
      BY <3>1, <3>2, <3>3 DEF LossPast
  <2> QED
    BY <2>1, <2>2, <2>3
<1> QED
  BY <1>2, <1>9, <1>10, <1>11, <1>12, <1>13 DEF RuleInv

(* A link that is lost leaves nothing that the next samples could go on from.    *)
LEMMA FeedLostKept == RuleInv /\ FeedLost => RuleInv'
<1> SUFFICES ASSUME RuleInv, FeedLost PROVE RuleInv'
  OBVIOUS
<1> USE RuleAssumption
<1>1. RuleTypes
  BY DEF RuleInv
<1>2. /\ feed' = "down" /\ queue' = <<>> /\ heard' = NothingHeard
      /\ UNCHANGED <<now, lost, marking, tick, rule, breach>>
  BY DEF FeedLost, lossVars
<1>3. Len(queue') = 0 /\ queue' \in Seq(SampleType)
  BY <1>2
<1>4. heard' \in HeardType /\ heard'.at <= now
  BY <1>1, <1>2, NothingHeardIs DEF RuleTypes, None
<1>5. RuleTypes'
  <2>1. \A i \in 1..Len(queue') : queue'[i].heard.at \in 0..now
    BY <1>3
  <2>2. Len(queue') <= SampleQueue
    BY <1>3
  <2> QED
    BY <1>1, <1>2, <1>3, <1>4, <2>1, <2>2 DEF RuleTypes
<1>6. FeedInv'
  BY <1>2 DEF FeedInv
<1>7. Queued(NothingHeard)'
  BY <1>2, <1>3, <1>4 DEF Queued
<1> QED
  BY <1>2, <1>5, <1>6, <1>7, NothingHeardIs DEF RuleInv

LEMMA RuleKept == RuleInv /\ [RuleNext]_ruleVars => RuleInv'
<1> SUFFICES ASSUME RuleInv, [RuleNext]_ruleVars PROVE RuleInv'
  OBVIOUS
<1>1. CASE Observe
  BY <1>1, ObserveKept
<1>2. CASE FeedLost
  BY <1>2, FeedLostKept
<1>3. CASE TickTakes
  BY <1>3, TakenIs
<1>4. CASE TickEnds
  BY <1>4, TickEndsKept
<1>5. CASE MarkLost \/ FeedBack \/ TickBegins \/ RuleTime \/ UNCHANGED ruleVars
  <2>1. RuleTypes /\ FeedInv
    BY DEF RuleInv
  <2>2. PICK h \in HeardType : AllPast(h) /\ Queued(h) /\ (feed # "down" => PendingIsHeard(rule, h) /\ LossPast(rule, h, breach))
    BY DEF RuleInv
  <2>3. UNCHANGED <<queue, rule, heard, breach>>
    BY <1>5 DEF MarkLost, FeedBack, TickBegins, RuleTime, ruleVars, lossVars
  <2>4. /\ feed' = feed \/ (feed = "seen" /\ feed' = "up")
        /\ lost' \in BOOLEAN /\ marking' \in BOOLEAN /\ tick' \in {None} \union 0..SampleQueue
    <3>1. lost \in BOOLEAN /\ marking \in BOOLEAN /\ tick \in {None} \union 0..SampleQueue
          /\ SampleQueue \in 0..SampleQueue
      BY <2>1, RuleAssumption DEF RuleTypes
    <3>2. CASE MarkLost
      BY <3>1, <3>2 DEF MarkLost
    <3>3. CASE FeedBack
      BY <3>1, <3>3 DEF FeedBack, lossVars
    <3>4. CASE TickBegins
      BY <3>1, <3>4 DEF TickBegins, lossVars
    <3>5. CASE RuleTime \/ UNCHANGED ruleVars
      BY <3>1, <3>5 DEF RuleTime, ruleVars, lossVars
    <3> QED
      BY <1>5, <3>2, <3>3, <3>4, <3>5
  <2>5. now' \in 0..Horizon /\ now' >= now
    BY <1>5, <2>1, RuleAssumption
       DEF MarkLost, FeedBack, TickBegins, RuleTime, ruleVars, lossVars, RuleTypes
  <2>6. RuleTypes'
    <3>1. now \in 0..Horizon /\ rule.since \in 0..Horizon /\ heard.at \in -1..Horizon
          /\ rule.since <= now /\ heard.at <= now
      BY <2>1 DEF RuleTypes, StateType, HeardType, Moments
    <3>2. \A i \in 1..Len(queue) : queue[i].heard.at \in 0..now'
      BY <2>1, <2>5, <3>1 DEF RuleTypes
    <3>3. rule.since <= now' /\ heard.at <= now'
      BY <2>5, <3>1, RuleAssumption
    <3> QED
      BY <2>1, <2>3, <2>4, <2>5, <3>2, <3>3 DEF RuleTypes
  <2>7. FeedInv' /\ Queued(h)' /\ (feed' # "down" => PendingIsHeard(rule', h) /\ LossPast(rule', h, breach'))
    BY <2>1, <2>2, <2>3, <2>4 DEF FeedInv, Queued
  <2> QED
    BY <2>2, <2>6, <2>7 DEF RuleInv
<1> QED
  BY <1>1, <1>2, <1>3, <1>4, <1>5 DEF RuleNext

LEMMA RuleTypesFollow == RuleInv => RuleTypeOK
<1> SUFFICES ASSUME RuleInv PROVE RuleTypeOK
  OBVIOUS
<1>1. RuleTypes
  BY DEF RuleInv
<1>2. breach \in {None} \union 0..Horizon
  BY <1>1, RuleAssumption DEF RuleTypes, Moments, None
<1> QED
  BY <1>1, <1>2 DEF RuleTypes, StateType, RuleTypeOK

(* The variables of a rule have their types.                                     *)
THEOREM RuleTypeCorrect == RuleSpec => []RuleTypeOK
  BY RuleStart, RuleKept, RuleTypesFollow, PTL DEF RuleSpec

(* A severity rises only after a whole dwell of samples at its limit or past it, *)
(* and falls only after a whole clearing dwell past its release, unbroken by a   *)
(* gap, a failed request or a lost link (alert_engine_sample).  Only the samples *)
(* that the queue took count; the dwell does not reach back past those taken     *)
(* before a tick handled a loss, but it may pass over a loss that no tick has    *)
(* handled yet.                                                                  *)
THEOREM SeveritiesAlwaysEarned == RuleSpec => SeveritiesAreEarned
<1>1. RuleInv /\ [RuleNext]_ruleVars => [Earned]_ruleVars
  <2> SUFFICES ASSUME RuleInv, RuleNext PROVE Earned
    OBVIOUS
  <2>1. CASE TickTakes
    BY <2>1, TakenIs
  <2>2. CASE TickEnds
    <3>1. rule \in StateType
      BY DEF RuleInv, RuleTypes
    <3>2. rule'.severity = rule.severity
      BY <2>2, <3>1 DEF TickEnds, Invalidated, StateType
    <3>3. ~(rule'.severity # rule.severity)
      BY <3>2
    <3> QED
      BY <3>3 DEF Earned
  <2>3. CASE Observe \/ MarkLost \/ FeedLost \/ FeedBack \/ RuleTime \/ TickBegins
    BY <2>3 DEF Observe, MarkLost, FeedLost, FeedBack, RuleTime, TickBegins, Earned
  <2> QED
    BY <2>1, <2>2, <2>3 DEF RuleNext
<1> QED
  BY RuleStart, RuleKept, <1>1, PTL DEF RuleSpec, SeveritiesAreEarned
-----------------------------------------------------------------------------
(* The alert history: alert_events.c, alert_runtime.c                        *)

EpisodeType ==
  [episode : Nat, boot : Nat, severity : Severities, unavailable : BOOLEAN,
   life : {"active", "resolved", "expired"}, acked : Severities, snoozed : BOOLEAN]

\* A ring or a journal: the numbers up to the last, one after the other
Consecutive(ring, last) ==
  /\ ring \in Seq(Nat) /\ Len(ring) <= RingSize /\ Len(ring) <= last
  /\ \A i \in 1..Len(ring) : ring[i] = last - Len(ring) + i

EventTypes ==
  /\ events \in [boot : 1..MaxBoot, sequence : 0..LastEvent, ring : Seq(Nat)]
  /\ episodes \in [Keys -> EpisodeType]
  /\ answer \in [key : Keys \union {0}, episode : Nat, boot : Nat, same : BOOLEAN]
  /\ Len(stored) <= JournalSize /\ saved \in 0..LastEvent
  /\ phone \in [boot : Nat, cursor : 0..LastEvent]

RingsInv ==
  /\ Consecutive(events.ring, events.sequence)
  /\ \E last \in 0..LastEvent : Consecutive(stored, last)

\* An active episode is of this boot, has a number, and is silenced only if asked.
EpisodesInv ==
  \A k \in Keys : episodes[k].life = "active" =>
     /\ episodes[k].severity > 0 /\ episodes[k].boot = events.boot
     /\ episodes[k].episode \in 1..events.sequence
     /\ k \in asked \/ (episodes[k].acked = 0 /\ ~episodes[k].snoozed)

\* An answer names an episode of the past, and one to an occurrence that is over
\* names none that is active.
AnswerInv ==
  /\ answer.boot <= events.boot /\ (answer.boot # 0 => answer.key \in Keys)
  /\ answer.boot = events.boot =>
       /\ answer.episode <= events.sequence
       /\ ~answer.same /\ episodes[answer.key].life = "active" =>
            episodes[answer.key].episode # answer.episode

\* What is unread is past the phone's cursor.
PhoneInv ==
  /\ phone.boot <= events.boot /\ unread \subseteq 1..events.sequence
  /\ phone.boot = events.boot =>
       phone.cursor <= events.sequence /\ \A n \in unread : n > phone.cursor

EventsInv == EventTypes /\ RingsInv /\ EpisodesInv /\ AnswerInv /\ PhoneInv

LEMMA NoEpisodeIs ==
  /\ NoEpisode \in EpisodeType /\ NoEpisode.life = "resolved" /\ NoEpisode.episode = 0 /\ NoEpisode.boot = 0
  /\ NoEpisode.severity = 0 /\ NoEpisode.acked = 0 /\ NoEpisode.snoozed = FALSE
  BY EventsAssumption DEF NoEpisode, EpisodeType

LEMMA EventsStart == EventsInit => EventsInv
<1> SUFFICES ASSUME EventsInit PROVE EventsInv
  OBVIOUS
<1> USE EventsAssumption
<1>1. events.boot = 1 /\ events.sequence = 0 /\ events.ring = <<>>
      /\ events \in [boot : 1..MaxBoot, sequence : 0..LastEvent, ring : Seq(Nat)]
  BY DEF EventsInit
<1>2. episodes = [k \in Keys |-> NoEpisode] /\ \A k \in Keys : episodes[k] = NoEpisode
  BY DEF EventsInit
<1>3. /\ answer \in [key : Keys \union {0}, episode : Nat, boot : Nat, same : BOOLEAN] /\ answer.boot = 0
      /\ phone \in [boot : Nat, cursor : 0..LastEvent] /\ phone.boot = 0 /\ phone.cursor = 0
  BY DEF EventsInit, NoAnswer
<1>4. stored = <<>> /\ saved = 0 /\ unread = {}
  BY DEF EventsInit
<1>5. EventTypes
  BY <1>1, <1>2, <1>3, <1>4, NoEpisodeIs DEF EventTypes
<1>6. Consecutive(<<>>, 0)
  BY DEF Consecutive
<1>7. RingsInv
  BY <1>1, <1>4, <1>6 DEF RingsInv
<1>8. EpisodesInv
  BY <1>2, NoEpisodeIs DEF EpisodesInv
<1>9. AnswerInv /\ PhoneInv
  BY <1>1, <1>3, <1>4 DEF AnswerInv, PhoneInv
<1> QED
  BY <1>5, <1>7, <1>8, <1>9 DEF EventsInv

\* append, when a number is left: what becomes of the events and of the episodes
LEMMA AppendNext ==
  ASSUME EventTypes, events.sequence # LastEvent,
         NEW k \in Keys, NEW new \in EpisodeType, AppendEvent(k, new)
  PROVE  /\ events.sequence < LastEvent /\ events'.boot = events.boot /\ events'.sequence = events.sequence + 1
         /\ events'.ring = Append(IF Len(events.ring) < RingSize THEN events.ring ELSE Tail(events.ring),
                                  events.sequence + 1)
         /\ unread' = unread \union {events.sequence + 1}
         /\ \A j \in Keys \ {k} : episodes'[j] = episodes[j]
         /\ episodes'[k] = [new EXCEPT !.boot = events.boot,
                                       !.episode = IF @ = 0 THEN events.sequence + 1 ELSE @]
         /\ episodes' \in [Keys -> EpisodeType]
<1> USE EventsAssumption
<1>0. events \in [boot : 1..MaxBoot, sequence : 0..LastEvent, ring : Seq(Nat)]
      /\ episodes \in [Keys -> EpisodeType]
  BY DEF EventTypes
<1>1. events' = [events EXCEPT !.sequence = events.sequence + 1,
                               !.ring = Append(IF Len(@) < RingSize THEN @ ELSE Tail(@), events.sequence + 1)]
  BY DEF AppendEvent
<1>2. /\ events'.boot = events.boot /\ events'.sequence = events.sequence + 1
      /\ events'.ring = Append(IF Len(events.ring) < RingSize THEN events.ring ELSE Tail(events.ring),
                               events.sequence + 1)
  BY <1>0, <1>1
<1>3. unread' = unread \union {events.sequence + 1}
  BY DEF AppendEvent
<1> DEFINE kept == [new EXCEPT !.boot = events.boot, !.episode = IF @ = 0 THEN events.sequence + 1 ELSE @]
<1>4. episodes' = [episodes EXCEPT ![k] = kept]
  BY <1>2 DEF AppendEvent
<1> DEFINE number == IF new.episode = 0 THEN events.sequence + 1 ELSE new.episode
<1>5. kept \in EpisodeType
  <2>1. number \in Nat /\ events.boot \in Nat
    BY <1>0 DEF EpisodeType
  <2>2. kept = [new EXCEPT !.boot = events.boot, !.episode = number]
    BY DEF EpisodeType
  <2> HIDE DEF number, kept
  <2> QED
    BY <2>1, <2>2 DEF EpisodeType
<1>6. episodes'[k] = kept /\ (\A j \in Keys \ {k} : episodes'[j] = episodes[j])
      /\ episodes' \in [Keys -> EpisodeType]
  <2> HIDE DEF kept
  <2> QED BY <1>0, <1>4, <1>5
<1>7. events.sequence < LastEvent
  BY <1>0
<1> QED
  BY <1>2, <1>3, <1>6, <1>7

\* append, when the numbers have run out
LEMMA AppendLast ==
  ASSUME EventTypes, events.sequence = LastEvent,
         NEW k \in Keys, NEW new \in EpisodeType, AppendEvent(k, new)
  PROVE  /\ events.boot < MaxBoot /\ events'.boot = events.boot + 1 /\ events'.sequence = 1
         /\ events'.ring = <<1>> /\ unread' = {1}
         /\ \A j \in Keys \ {k} : episodes'[j] = NoEpisode
         /\ episodes'[k] = [new EXCEPT !.boot = events.boot + 1, !.episode = 1, !.acked = 0, !.snoozed = FALSE]
         /\ episodes' \in [Keys -> EpisodeType]
<1> USE EventsAssumption
<1>0. events \in [boot : 1..MaxBoot, sequence : 0..LastEvent, ring : Seq(Nat)]
      /\ episodes \in [Keys -> EpisodeType]
  BY DEF EventTypes
<1>1. events' = RenewedEvents /\ events.boot < MaxBoot
  BY DEF AppendEvent
<1>2. events'.boot = events.boot + 1 /\ events'.sequence = 1 /\ events'.ring = <<1>>
  BY <1>1 DEF RenewedEvents
<1>3. unread' = {1}
  BY DEF AppendEvent
<1> DEFINE kept == [new EXCEPT !.boot = events.boot + 1, !.episode = 1, !.acked = 0, !.snoozed = FALSE]
           renewed == [[new EXCEPT !.episode = 0, !.acked = 0, !.snoozed = FALSE]
                        EXCEPT !.boot = events'.boot, !.episode = IF @ = 0 THEN 1 ELSE @]
<1>4. episodes' = [[j \in Keys |-> NoEpisode] EXCEPT ![k] = renewed]
  BY DEF AppendEvent
<1>5. kept \in EpisodeType /\ renewed = kept
  <2>1. events.boot + 1 \in Nat /\ 1 \in Nat /\ 0 \in Severities
    BY <1>0
  <2>2. kept \in EpisodeType
    BY <2>1 DEF EpisodeType
  <2>3. renewed = kept
    BY <1>2 DEF EpisodeType
  <2> QED
    BY <2>2, <2>3
<1>6. episodes'[k] = kept /\ (\A j \in Keys \ {k} : episodes'[j] = NoEpisode)
      /\ episodes' \in [Keys -> EpisodeType]
  <2> HIDE DEF kept, renewed
  <2> QED BY <1>4, <1>5, NoEpisodeIs
<1> QED
  BY <1>1, <1>2, <1>3, <1>6

LEMMA RingGrows ==
  ASSUME NEW ring, NEW last \in Nat, Consecutive(ring, last)
  PROVE  Consecutive(Append(IF Len(ring) < RingSize THEN ring ELSE Tail(ring), last + 1), last + 1)
<1> USE EventsAssumption
<1> DEFINE kept == IF Len(ring) < RingSize THEN ring ELSE Tail(ring)
<1>1. ring \in Seq(Nat) /\ Len(ring) <= RingSize /\ Len(ring) <= last
      /\ \A i \in 1..Len(ring) : ring[i] = last - Len(ring) + i
  BY DEF Consecutive
<1>2. /\ kept \in Seq(Nat) /\ Len(kept) < RingSize /\ Len(kept) <= last
      /\ \A i \in 1..Len(kept) : kept[i] = last - Len(kept) + i
  <2>1. CASE Len(ring) < RingSize
    <3>1. kept = ring
      BY <2>1
    <3> HIDE DEF kept
    <3> QED
      BY <1>1, <2>1, <3>1
  <2>2. CASE Len(ring) = RingSize
    <3>1. ring # <<>> /\ kept = Tail(ring)
      BY <1>1, <2>2
    <3>2. kept \in Seq(Nat) /\ Len(kept) = Len(ring) - 1 /\ \A i \in 1..Len(kept) : kept[i] = ring[i + 1]
      BY <1>1, <3>1
    <3>3. Len(kept) < RingSize /\ Len(kept) <= last
      BY <1>1, <2>2, <3>1, <3>2
    <3> HIDE DEF kept
    <3>4. ASSUME NEW i \in 1..Len(kept) PROVE kept[i] = last - Len(kept) + i
      <4>1. i + 1 \in 1..Len(ring) /\ kept[i] = ring[i + 1]
        BY <1>1, <3>1, <3>2
      <4> QED
        BY <1>1, <3>1, <3>2, <4>1
    <3> QED
      BY <3>2, <3>3, <3>4
  <2>3. Len(ring) < RingSize \/ Len(ring) = RingSize
    BY <1>1
  <2> QED
    BY <2>1, <2>2, <2>3
<1> HIDE DEF kept
<1>3. /\ Append(kept, last + 1) \in Seq(Nat) /\ Len(Append(kept, last + 1)) = Len(kept) + 1
      /\ \A i \in 1..Len(kept) : Append(kept, last + 1)[i] = kept[i]
      /\ Append(kept, last + 1)[Len(kept) + 1] = last + 1
  BY <1>2
<1> DEFINE grown == Append(kept, last + 1)
<1>4. ASSUME NEW i \in 1..(Len(kept) + 1) PROVE grown[i] = (last + 1) - (Len(kept) + 1) + i
  <2>1. CASE i \in 1..Len(kept)
    BY <1>2, <1>3, <2>1
  <2>2. CASE i = Len(kept) + 1
    BY <1>2, <1>3, <2>2
  <2> QED
    BY <1>2, <2>1, <2>2
<1>5. grown \in Seq(Nat) /\ Len(grown) = Len(kept) + 1
  BY <1>3
<1> HIDE DEF grown
<1>6. Len(grown) <= RingSize /\ Len(grown) <= last + 1
      /\ \A i \in 1..Len(grown) : grown[i] = (last + 1) - Len(grown) + i
  BY <1>2, <1>4, <1>5
<1>7. Consecutive(grown, last + 1)
  BY <1>5, <1>6 DEF Consecutive
<1> QED
  BY <1>7 DEF kept, grown

\* An episode that is appended: it may be active again only as the same one or with
\* a new number, and is silenced only if asked.
LEMMA AppendKeeps ==
  ASSUME EventsInv, NEW k \in Keys, NEW new \in EpisodeType, AppendEvent(k, new), UNCHANGED storeVars,
         new.life = "active" =>
           /\ new.severity > 0 /\ (k \in asked' \/ (new.acked = 0 /\ ~new.snoozed))
           /\ new.episode = 0 \/ (episodes[k].life = "active" /\ new.episode = episodes[k].episode),
         \A j \in Keys \ {k} : j \in asked => j \in asked',
         answer' \in [key : Keys \union {0}, episode : Nat, boot : Nat, same : BOOLEAN],
         answer'.boot # 0 =>
           /\ answer'.boot = answer.boot /\ answer'.key = answer.key /\ answer'.episode = answer.episode
           /\ answer'.same = answer.same \/ (answer.key = k /\ new.episode = 0)
  PROVE  EventsInv'
<1> USE EventsAssumption
<1>0. EventTypes /\ RingsInv /\ EpisodesInv /\ AnswerInv /\ PhoneInv
  BY DEF EventsInv
<1>1. /\ events \in [boot : 1..MaxBoot, sequence : 0..LastEvent, ring : Seq(Nat)]
      /\ episodes \in [Keys -> EpisodeType]
      /\ phone \in [boot : Nat, cursor : 0..LastEvent]
  BY <1>0 DEF EventTypes
<1>2. stored' = stored /\ saved' = saved /\ phone' = phone
  BY DEF storeVars
<1>3. CASE events.sequence # LastEvent
  <2> DEFINE number == events.sequence + 1
             kept   == [new EXCEPT !.boot = events.boot, !.episode = IF @ = 0 THEN number ELSE @]
  <2>1. /\ events.sequence < LastEvent /\ events'.boot = events.boot /\ events'.sequence = number
        /\ events'.ring = Append(IF Len(events.ring) < RingSize THEN events.ring ELSE Tail(events.ring), number)
        /\ unread' = unread \union {number}
        /\ \A j \in Keys \ {k} : episodes'[j] = episodes[j]
        /\ episodes'[k] = kept /\ episodes' \in [Keys -> EpisodeType]
    BY <1>0, <1>3, AppendNext
  <2>2. /\ kept.life = new.life /\ kept.severity = new.severity /\ kept.boot = events.boot
        /\ kept.acked = new.acked /\ kept.snoozed = new.snoozed
        /\ (new.episode = 0 => kept.episode = number) /\ (new.episode # 0 => kept.episode = new.episode)
    BY DEF EpisodeType
  <2> HIDE DEF kept
  <2>3. Consecutive(events'.ring, events'.sequence)
    BY <1>0, <1>1, <2>1, RingGrows DEF RingsInv
  <2>3a. events' \in [boot : 1..MaxBoot, sequence : 0..LastEvent, ring : Seq(Nat)]
    <3>1. events' = [events EXCEPT !.sequence = events.sequence + 1,
                               !.ring = Append(IF Len(@) < RingSize THEN @ ELSE Tail(@), events.sequence + 1)]
      BY <1>3 DEF AppendEvent
    <3>2. events'.ring \in Seq(Nat) /\ number \in 0..LastEvent
      BY <1>1, <2>1, <2>3 DEF Consecutive
    <3> QED
      BY <1>1, <2>1, <3>1, <3>2
  <2>4. EventTypes'
    BY <1>0, <1>2, <2>1, <2>3a DEF EventTypes
  <2>5. RingsInv'
    BY <1>0, <1>2, <2>3 DEF RingsInv
  <2>6. EpisodesInv'
    <3> SUFFICES ASSUME NEW j \in Keys, episodes'[j].life = "active"
                 PROVE  /\ episodes'[j].severity > 0 /\ episodes'[j].boot = events'.boot
                        /\ episodes'[j].episode \in 1..events'.sequence
                        /\ j \in asked' \/ (episodes'[j].acked = 0 /\ ~episodes'[j].snoozed)
      BY DEF EpisodesInv
    <3>1. CASE j # k
      BY <1>0, <1>1, <2>1, <3>1 DEF EpisodesInv
    <3>2. CASE j = k
      <4>1. new.life = "active" /\ new.episode \in Nat
        BY <2>1, <2>2, <3>2 DEF EpisodeType
      <4>2. kept.episode \in 1..number
        BY <1>0, <1>1, <2>2, <4>1 DEF EpisodesInv
      <4> QED
        BY <2>1, <2>2, <3>2, <4>1, <4>2
    <3> QED
      BY <3>1, <3>2
  <2>7. AnswerInv'
    <3>1. CASE answer'.boot = 0
      BY <1>1, <2>1, <3>1 DEF AnswerInv
    <3>2. CASE answer'.boot # 0
      <4>1. /\ answer'.boot = answer.boot /\ answer'.key = answer.key /\ answer'.episode = answer.episode
            /\ answer'.same = answer.same \/ (answer.key = k /\ new.episode = 0)
        BY <3>2
      <4>2. answer.boot <= events.boot /\ answer.key \in Keys
            /\ (answer.boot = events.boot => answer.episode <= events.sequence)
            /\ answer.episode \in Nat
        BY <1>0, <3>2, <4>1 DEF AnswerInv, EventTypes
      <4>3. ASSUME answer.boot = events.boot, ~answer'.same, episodes'[answer.key].life = "active"
            PROVE  episodes'[answer.key].episode # answer.episode
        <5>1. CASE answer.key # k
          BY <1>0, <2>1, <4>1, <4>2, <4>3, <5>1 DEF AnswerInv
        <5>2. CASE answer.key = k /\ new.episode = 0
          BY <1>1, <2>1, <2>2, <4>2, <4>3, <5>2
        <5>3. CASE answer.key = k /\ new.episode # 0
          <6>1. new.life = "active" /\ ~answer.same
            BY <2>1, <2>2, <4>1, <4>3, <5>3
          <6> QED
            BY <1>0, <2>1, <2>2, <4>3, <5>3, <6>1 DEF AnswerInv
        <5> QED
          BY <5>1, <5>2, <5>3
      <4> QED
        BY <1>1, <2>1, <4>1, <4>2, <4>3 DEF AnswerInv
    <3> QED
      BY <3>1, <3>2
  <2>8. PhoneInv'
    <3>1. phone.boot <= events.boot /\ unread \subseteq 1..events.sequence
          /\ (phone.boot = events.boot => phone.cursor <= events.sequence /\ \A n \in unread : n > phone.cursor)
      BY <1>0 DEF PhoneInv
    <3>2. unread' \subseteq 1..events'.sequence
      <4>1. events.sequence \in Nat /\ number \in 1..number
        BY <1>1
      <4>2. \A n \in unread : n \in 1..number
        BY <3>1, <4>1
      <4> QED
        BY <2>1, <4>1, <4>2
    <3>3. phone.boot = events.boot => phone.cursor <= number /\ \A n \in unread' : n > phone.cursor
      BY <1>1, <2>1, <3>1
    <3> QED
      BY <1>2, <2>1, <3>1, <3>2, <3>3 DEF PhoneInv
  <2> QED
    BY <2>4, <2>5, <2>6, <2>7, <2>8 DEF EventsInv
<1>4. CASE events.sequence = LastEvent
  <2> DEFINE kept == [new EXCEPT !.boot = events.boot + 1, !.episode = 1, !.acked = 0, !.snoozed = FALSE]
  <2>1. /\ events.boot < MaxBoot /\ events'.boot = events.boot + 1 /\ events'.sequence = 1
        /\ events'.ring = <<1>> /\ unread' = {1}
        /\ \A j \in Keys \ {k} : episodes'[j] = NoEpisode
        /\ episodes'[k] = kept /\ episodes' \in [Keys -> EpisodeType]
    BY <1>0, <1>4, AppendLast
  <2>2. /\ kept.life = new.life /\ kept.severity = new.severity /\ kept.boot = events.boot + 1
        /\ kept.acked = 0 /\ kept.snoozed = FALSE /\ kept.episode = 1
    BY DEF EpisodeType
  <2> HIDE DEF kept
  <2>3. Consecutive(events'.ring, events'.sequence)
    BY <2>1 DEF Consecutive
  <2>3a. events' \in [boot : 1..MaxBoot, sequence : 0..LastEvent, ring : Seq(Nat)]
    BY <1>1, <1>4, <2>1 DEF AppendEvent, RenewedEvents
  <2>4. EventTypes'
    BY <1>0, <1>2, <2>1, <2>3a DEF EventTypes
  <2>5. RingsInv'
    BY <1>0, <1>2, <2>3 DEF RingsInv
  <2>6. EpisodesInv'
    <3> SUFFICES ASSUME NEW j \in Keys, episodes'[j].life = "active"
                 PROVE  /\ episodes'[j].severity > 0 /\ episodes'[j].boot = events'.boot
                        /\ episodes'[j].episode \in 1..events'.sequence
                        /\ j \in asked' \/ (episodes'[j].acked = 0 /\ ~episodes'[j].snoozed)
      BY DEF EpisodesInv
    <3>1. j = k
      BY <2>1, NoEpisodeIs
    <3> QED
      BY <2>1, <2>2, <3>1
  <2>7. AnswerInv'
    <3>1. answer'.boot < events'.boot /\ (answer'.boot # 0 => answer'.key \in Keys)
      BY <1>0, <1>1, <2>1 DEF AnswerInv, EventTypes
    <3> QED
      BY <1>1, <2>1, <3>1 DEF AnswerInv
  <2>8. PhoneInv'
    <3>1. phone'.boot < events'.boot
      BY <1>0, <1>1, <1>2, <2>1 DEF PhoneInv
    <3> QED
      BY <1>1, <1>2, <2>1, <3>1 DEF PhoneInv
  <2> QED
    BY <2>4, <2>5, <2>6, <2>7, <2>8 DEF EventsInv
<1> QED
  BY <1>3, <1>4

LEMMA ObservedKept ==
  ASSUME EventsInv, NEW k \in Keys, NEW s \in Severities, NEW u \in BOOLEAN, ObserveKey(k, s, u)
  PROVE  EventsInv'
<1> USE EventsAssumption
<1>0. EpisodesInv /\ episodes \in [Keys -> EpisodeType]
      /\ answer \in [key : Keys \union {0}, episode : Nat, boot : Nat, same : BOOLEAN]
  BY DEF EventsInv, EventTypes
<1> DEFINE p        == episodes[k]
           isActive == p.life = "active"
           severity == IF u /\ isActive THEN p.severity ELSE s
           entry    == severity > 0 /\ ~isActive
           base     == IF entry THEN NoEpisode ELSE p
           observed == [base EXCEPT !.severity = severity, !.unavailable = u,
                                    !.life = IF severity > 0 THEN "active" ELSE "resolved"]
           new      == Escalated(observed, base.severity)
<1>1. /\ asked' = (IF severity > base.severity THEN asked \ {k} ELSE asked)
      /\ answer' = (IF entry /\ answer.key = k THEN [answer EXCEPT !.same = FALSE] ELSE answer)
      /\ AppendEvent(k, new) /\ UNCHANGED storeVars
  BY DEF ObserveKey
<1>2. p \in EpisodeType /\ severity \in Severities /\ severity \in Nat /\ base \in EpisodeType
  BY <1>0, NoEpisodeIs DEF EpisodeType
<1>3. isActive => /\ p.severity > 0 /\ (k \in asked \/ (p.acked = 0 /\ ~p.snoozed))
  BY <1>0 DEF EpisodesInv
<1>4. entry => base.episode = 0 /\ base.severity = 0
  BY NoEpisodeIs
<1>5. ~entry => base = p
  OBVIOUS
<1>6. severity > 0 /\ ~entry => isActive
  OBVIOUS
<1> DEFINE life == IF severity > 0 THEN "active" ELSE "resolved"
<1>7. life \in {"active", "resolved", "expired"} /\ (life = "active" <=> severity > 0)
  OBVIOUS
<1> HIDE DEF severity, entry, base, life
<1>8. /\ observed \in EpisodeType /\ observed.severity = severity /\ observed.life = life
      /\ observed.episode = base.episode /\ observed.acked = base.acked /\ observed.snoozed = base.snoozed
  <2>1. observed = [base EXCEPT !.severity = severity, !.unavailable = u, !.life = life]
    BY DEF life
  <2> HIDE DEF observed
  <2> QED
    BY <1>2, <1>7, <2>1 DEF EpisodeType
<1> HIDE DEF observed
<1>9. /\ new \in EpisodeType /\ new.severity = severity /\ new.life = life /\ new.episode = base.episode
      /\ severity > base.severity => new.acked = 0 /\ new.snoozed = FALSE
      /\ ~(severity > base.severity) => new.acked = base.acked /\ new.snoozed = base.snoozed
  <2>1. CASE severity > base.severity
    <3>1. new = [observed EXCEPT !.acked = 0, !.snoozed = FALSE]
      BY <1>8, <2>1 DEF Escalated
    <3> HIDE DEF new
    <3> QED
      BY <1>8, <2>1, <3>1 DEF EpisodeType
  <2>2. CASE ~(severity > base.severity)
    <3>1. new = observed
      BY <1>8, <2>2 DEF Escalated
    <3> HIDE DEF new
    <3> QED
      BY <1>8, <2>2, <3>1
  <2> QED
    BY <2>1, <2>2
<1> HIDE DEF new
<1>10. ASSUME new.life = "active"
       PROVE  /\ new.severity > 0 /\ (k \in asked' \/ (new.acked = 0 /\ ~new.snoozed))
              /\ new.episode = 0 \/ (episodes[k].life = "active" /\ new.episode = episodes[k].episode)
  <2>1. severity > 0
    BY <1>7, <1>9, <1>10
  <2>2. CASE entry
    BY <1>2, <1>4, <1>9, <2>1, <2>2
  <2>3. CASE ~entry
    <3>1. isActive /\ base = p
      BY <1>5, <1>6, <2>1, <2>3
    <3>2. new.episode = episodes[k].episode
      BY <1>9, <3>1
    <3>3. k \in asked' \/ (new.acked = 0 /\ ~new.snoozed)
      BY <1>1, <1>3, <1>9, <3>1
    <3> QED
      BY <1>9, <2>1, <3>1, <3>2, <3>3
  <2> QED
    BY <2>2, <2>3
<1>11. \A j \in Keys \ {k} : j \in asked => j \in asked'
  BY <1>1
<1>12. /\ answer' \in [key : Keys \union {0}, episode : Nat, boot : Nat, same : BOOLEAN]
       /\ answer'.boot = answer.boot /\ answer'.key = answer.key /\ answer'.episode = answer.episode
       /\ answer'.same = answer.same \/ (answer.key = k /\ entry)
  BY <1>0, <1>1
<1> QED
  BY <1>1, <1>4, <1>9, <1>10, <1>11, <1>12, AppendKeeps

LEMMA AnswersGiven == EventsInv /\ UserAnswers => EventsInv'
<1> SUFFICES ASSUME EventsInv, UserAnswers PROVE EventsInv'
  OBVIOUS
<1>0. EventTypes /\ RingsInv /\ EpisodesInv /\ AnswerInv /\ PhoneInv
  BY DEF EventsInv
<1>1. PICK k \in Keys :
        /\ episodes[k].life = "active"
        /\ answer' = [key |-> k, episode |-> episodes[k].episode, boot |-> episodes[k].boot, same |-> TRUE]
  BY DEF UserAnswers
<1>2. events' = events /\ episodes' = episodes /\ stored' = stored /\ saved' = saved /\ phone' = phone
      /\ asked' = asked /\ unread' = unread
  BY DEF UserAnswers, storeVars
<1>3. episodes[k] \in EpisodeType
  BY <1>0 DEF EventTypes
<1>4. /\ answer' \in [key : Keys \union {0}, episode : Nat, boot : Nat, same : BOOLEAN]
      /\ answer'.boot = events.boot /\ answer'.key = k /\ answer'.same = TRUE
      /\ answer'.episode <= events.sequence
  <2>1. /\ episodes[k].episode \in Nat /\ episodes[k].boot \in Nat /\ episodes[k].boot = events.boot
        /\ episodes[k].episode \in 1..events.sequence /\ events.sequence \in Nat
    <3>1. episodes[k].episode \in Nat /\ episodes[k].boot \in Nat
      BY <1>3 DEF EpisodeType
    <3>2. events.sequence \in Nat
      BY <1>0, EventsAssumption DEF EventTypes
    <3>3. episodes[k].boot = events.boot /\ episodes[k].episode \in 1..events.sequence
      BY <1>0, <1>1 DEF EpisodesInv
    <3> QED
      BY <3>1, <3>2, <3>3
  <2>2. episodes[k].episode <= events.sequence
    BY <2>1
  <2> QED
    BY <1>1, <2>1, <2>2
<1>5. EventTypes'
  BY <1>0, <1>2, <1>4 DEF EventTypes
<1>6. events.boot \in Nat
  BY <1>0, EventsAssumption DEF EventTypes
<1>7. AnswerInv'
  BY <1>2, <1>4, <1>6 DEF AnswerInv
<1>8. RingsInv' /\ EpisodesInv' /\ PhoneInv'
  BY <1>0, <1>2 DEF RingsInv, EpisodesInv, PhoneInv
<1> QED
  BY <1>5, <1>7, <1>8 DEF EventsInv

LEMMA NoAnswerIs ==
  /\ NoAnswer \in [key : Keys \union {0}, episode : Nat, boot : Nat, same : BOOLEAN]
  /\ NoAnswer.boot = 0
  BY DEF NoAnswer

LEMMA AnswerKept == EventsInv /\ AnswerTaken => EventsInv'
<1> SUFFICES ASSUME EventsInv, AnswerTaken PROVE EventsInv'
  OBVIOUS
<1> USE EventsAssumption
<1>0. EventTypes /\ RingsInv /\ EpisodesInv /\ AnswerInv /\ PhoneInv
  BY DEF EventsInv
<1>1. answer' = NoAnswer /\ UNCHANGED storeVars
  BY DEF AnswerTaken
<1> DEFINE k == answer.key
           p == episodes[k]
           snoozed == [p EXCEPT !.snoozed = TRUE]
           acked   == [p EXCEPT !.snoozed = FALSE, !.acked = p.severity]
<1>2. CASE UNCHANGED <<events, episodes, asked, unread>>
  <2>1. EventTypes'
    BY <1>0, <1>1, <1>2, NoAnswerIs DEF EventTypes, storeVars
  <2>2. events.boot \in Nat /\ events.boot > 0
    BY <1>0 DEF EventTypes
  <2>3. AnswerInv'
    BY <1>1, <1>2, <2>2, NoAnswerIs DEF AnswerInv
  <2>4. RingsInv' /\ EpisodesInv' /\ PhoneInv'
    BY <1>0, <1>1, <1>2 DEF RingsInv, EpisodesInv, PhoneInv, storeVars
  <2> QED
    BY <2>1, <2>3, <2>4 DEF EventsInv
<1>3. CASE ~UNCHANGED <<events, episodes, asked, unread>>
  <2>1. /\ Meant /\ asked' = (IF answer.same THEN asked \union {k} ELSE asked)
        /\ AppendEvent(k, snoozed) \/ AppendEvent(k, acked)
    BY <1>3 DEF AnswerTaken
  <2>2. /\ answer.boot = events.boot /\ p.life = "active" /\ p.episode = answer.episode
        /\ events.boot > 0 /\ k \in Keys
    BY <1>0, <2>1 DEF Meant, AnswerInv, EventTypes
  <2>3. answer.same /\ k \in asked'
    BY <1>0, <2>1, <2>2 DEF AnswerInv
  <2>4. p \in EpisodeType /\ p.severity > 0
    BY <1>0, <2>2 DEF EventTypes, EpisodesInv
  <2>5. /\ snoozed \in EpisodeType /\ snoozed.life = "active" /\ snoozed.severity > 0
        /\ snoozed.episode = p.episode
    BY <2>2, <2>4 DEF EpisodeType
  <2>6. /\ acked \in EpisodeType /\ acked.life = "active" /\ acked.severity > 0
        /\ acked.episode = p.episode
    BY <2>2, <2>4 DEF EpisodeType
  <2>7. \A j \in Keys \ {k} : j \in asked => j \in asked'
    BY <2>1
  <2> HIDE DEF snoozed, acked
  <2> QED
    BY <1>1, <2>1, <2>2, <2>3, <2>5, <2>6, <2>7, NoAnswerIs, AppendKeeps
<1> QED
  BY <1>2, <1>3

LEMMA EpisodesEnd == EventsInv /\ (SnoozeEnds \/ AlertExpires) => EventsInv'
<1> SUFFICES ASSUME EventsInv, SnoozeEnds \/ AlertExpires PROVE EventsInv'
  OBVIOUS
<1>0. EventTypes /\ EpisodesInv
  BY DEF EventsInv
<1>1. /\ answer' = answer /\ asked' = asked /\ UNCHANGED storeVars
      /\ answer \in [key : Keys \union {0}, episode : Nat, boot : Nat, same : BOOLEAN]
      /\ episodes \in [Keys -> EpisodeType]
  BY <1>0 DEF SnoozeEnds, AlertExpires, EventTypes, storeVars
<1>2. CASE SnoozeEnds
  <2>1. PICK k \in Keys : episodes[k].snoozed /\ AppendEvent(k, [episodes[k] EXCEPT !.snoozed = FALSE])
    BY <1>2 DEF SnoozeEnds
  <2> DEFINE new == [episodes[k] EXCEPT !.snoozed = FALSE]
  <2>2. /\ new \in EpisodeType /\ new.life = episodes[k].life /\ new.severity = episodes[k].severity
        /\ new.episode = episodes[k].episode /\ new.acked = episodes[k].acked /\ new.snoozed = FALSE
    BY <1>1 DEF EpisodeType
  <2>3. AppendEvent(k, new)
    BY <2>1
  <2> HIDE DEF new
  <2>4. new.life = "active" => new.severity > 0 /\ (k \in asked' \/ (new.acked = 0 /\ ~new.snoozed))
    BY <1>0, <1>1, <2>2 DEF EpisodesInv
  <2> QED
    BY <1>1, <2>2, <2>3, <2>4, AppendKeeps
<1>3. CASE AlertExpires
  <2>1. PICK k \in Keys : AppendEvent(k, [episodes[k] EXCEPT !.life = "expired"])
    BY <1>3, EventsAssumption DEF AlertExpires
  <2> DEFINE new == [episodes[k] EXCEPT !.life = "expired"]
  <2>2. new \in EpisodeType /\ new.life = "expired"
    BY <1>1 DEF EpisodeType
  <2>3. AppendEvent(k, new)
    BY <2>1
  <2> HIDE DEF new
  <2> QED
    BY <1>1, <2>2, <2>3, AppendKeeps
<1> QED
  BY <1>2, <1>3

LEMMA LastsOf ==
  ASSUME NEW ring \in Seq(Nat), NEW from \in Nat, from < Len(ring)
  PROVE  /\ SubSeq(ring, from + 1, Len(ring)) \in Seq(Nat)
         /\ Len(SubSeq(ring, from + 1, Len(ring))) = Len(ring) - from
         /\ \A i \in 1..(Len(ring) - from) : SubSeq(ring, from + 1, Len(ring))[i] = ring[from + i]
  OBVIOUS

\* journal_task keeps the last numbers of the ring.
LEMMA SaveKept == EventsInv /\ JournalSave => EventsInv'
<1> SUFFICES ASSUME EventsInv, JournalSave PROVE EventsInv'
  OBVIOUS
<1> USE EventsAssumption
<1>0. EventTypes /\ RingsInv /\ EpisodesInv /\ AnswerInv /\ PhoneInv
  BY DEF EventsInv
<1>1. /\ events' = events /\ episodes' = episodes /\ answer' = answer /\ phone' = phone /\ asked' = asked
      /\ unread' = unread /\ saved' = events.sequence
  BY DEF JournalSave
<1> DEFINE ring == events.ring
           last == events.sequence
           from == Len(ring) - JournalSize
<1>2. /\ ring \in Seq(Nat) /\ last \in 0..LastEvent /\ Len(ring) <= RingSize /\ Len(ring) <= last
      /\ \A i \in 1..Len(ring) : ring[i] = last - Len(ring) + i
  BY <1>0 DEF RingsInv, Consecutive, EventTypes
<1>3. stored' = IF Len(ring) <= JournalSize THEN ring ELSE SubSeq(ring, from + 1, Len(ring))
  BY DEF JournalSave
<1>4. Consecutive(stored', last) /\ Len(stored') <= JournalSize
  <2>1. CASE Len(ring) <= JournalSize
    BY <1>0, <1>3, <2>1 DEF RingsInv
  <2>2. CASE Len(ring) > JournalSize
    <3>1. stored' = SubSeq(ring, from + 1, Len(ring)) /\ from \in Nat /\ from + 1 \in 1..Len(ring)
          /\ Len(ring) - from = JournalSize
      <4>1. Len(ring) \in Nat
        BY <1>2
      <4> HIDE DEF ring
      <4> QED
        BY <1>3, <2>2, <4>1
    <3>2. /\ stored' \in Seq(Nat) /\ Len(stored') = JournalSize
          /\ \A i \in 1..JournalSize : stored'[i] = ring[from + i]
      <4>1. ring \in Seq(Nat) /\ from < Len(ring)
        BY <1>2, <3>1
      <4> HIDE DEF ring, from
      <4> QED
        BY <3>1, <4>1, LastsOf
    <3>3. ASSUME NEW i \in 1..Len(stored') PROVE stored'[i] = last - Len(stored') + i
      <4>1. from + i \in 1..Len(ring) /\ stored'[i] = ring[from + i] /\ i \in Nat /\ Len(ring) \in Nat
        <5>1. Len(ring) \in Nat
          BY <1>2
        <5> HIDE DEF ring, from
        <5> QED
          BY <3>1, <3>2, <5>1
      <4>2. ring[from + i] = last - Len(ring) + (from + i)
        BY <1>2, <4>1
      <4> HIDE DEF ring, last
      <4> QED
        BY <1>2, <3>1, <3>2, <4>1, <4>2
    <3> QED
      BY <1>2, <2>2, <3>2, <3>3 DEF Consecutive
  <2> QED
    BY <1>2, <2>1, <2>2
<1>5. EventTypes'
  BY <1>0, <1>1, <1>2, <1>4 DEF EventTypes
<1>6. RingsInv'
  BY <1>0, <1>1, <1>2, <1>4 DEF RingsInv
<1>7. EpisodesInv' /\ AnswerInv' /\ PhoneInv'
  BY <1>0, <1>1 DEF EpisodesInv, AnswerInv, PhoneInv
<1> QED
  BY <1>5, <1>6, <1>7 DEF EventsInv

LEMMA RestartsKept == EventsInv /\ GaugeRestarts => EventsInv'
<1> SUFFICES ASSUME EventsInv, GaugeRestarts PROVE EventsInv'
  OBVIOUS
<1> USE EventsAssumption
<1>0. EventTypes /\ RingsInv /\ AnswerInv /\ PhoneInv
  BY DEF EventsInv
<1>1. /\ events.boot < MaxBoot /\ episodes' = [k \in Keys |-> NoEpisode] /\ asked' = {} /\ unread' = {}
      /\ answer' = [answer EXCEPT !.same = FALSE] /\ stored' = stored /\ phone' = phone
  BY DEF GaugeRestarts
<1>2. PICK ring \in {stored, <<>>} :
        LET number == IF ring = <<>> THEN 0 ELSE Last(ring)
        IN  events' = [boot |-> events.boot + 1, sequence |-> number, ring |-> ring] /\ saved' = number
  BY DEF GaugeRestarts
<1> DEFINE number == IF ring = <<>> THEN 0 ELSE Last(ring)
<1>3. number \in 0..LastEvent /\ Consecutive(ring, number)
  <2>1. CASE ring = <<>>
    <3>1. number = 0
      BY <2>1
    <3> QED
      BY <2>1, <3>1 DEF Consecutive
  <2>2. CASE ring # <<>>
    <3>1. ring = stored /\ number = ring[Len(ring)]
      BY <2>2 DEF Last
    <3>2. PICK last \in 0..LastEvent : Consecutive(stored, last)
      BY <1>0 DEF RingsInv
    <3>3. Len(ring) \in 1..Len(ring) /\ ring[Len(ring)] = last - Len(ring) + Len(ring)
      BY <2>2, <3>1, <3>2 DEF Consecutive
    <3>4. number = last
      BY <2>2, <3>1, <3>2, <3>3 DEF Consecutive
    <3> QED
      BY <3>1, <3>2, <3>4
  <2> QED
    BY <2>1, <2>2
<1>4. events' = [boot |-> events.boot + 1, sequence |-> number, ring |-> ring] /\ saved' = number
  BY <1>2
<1> HIDE DEF number
<1>5. ring \in Seq(Nat)
  BY <1>3 DEF Consecutive
<1>6. events.boot \in 1..MaxBoot
  BY <1>0 DEF EventTypes
<1>7. /\ events' \in [boot : 1..MaxBoot, sequence : 0..LastEvent, ring : Seq(Nat)]
      /\ events'.boot = events.boot + 1 /\ events'.sequence = number /\ events'.ring = ring
  BY <1>1, <1>3, <1>4, <1>5, <1>6
<1>8. /\ answer' \in [key : Keys \union {0}, episode : Nat, boot : Nat, same : BOOLEAN]
      /\ answer'.boot = answer.boot /\ answer'.key = answer.key
  BY <1>0, <1>1 DEF EventTypes
<1>9. EventTypes'
  BY <1>0, <1>1, <1>3, <1>4, <1>7, <1>8, NoEpisodeIs DEF EventTypes
<1>10. RingsInv'
  BY <1>0, <1>1, <1>3, <1>7 DEF RingsInv
<1>11. EpisodesInv'
  BY <1>1, NoEpisodeIs DEF EpisodesInv
<1>12. AnswerInv'
  <2>1. answer'.boot < events'.boot /\ (answer'.boot # 0 => answer'.key \in Keys)
    BY <1>0, <1>6, <1>7, <1>8 DEF AnswerInv, EventTypes
  <2> QED
    BY <1>6, <1>7, <1>8, <2>1 DEF AnswerInv
<1>13. PhoneInv'
  <2>1. phone'.boot < events'.boot /\ phone'.boot \in Nat
    <3>1. phone.boot \in Nat /\ phone.boot <= events.boot
      BY <1>0 DEF PhoneInv, EventTypes
    <3> QED
      BY <1>1, <1>6, <1>7, <3>1
  <2> QED
    BY <1>1, <1>6, <1>7, <2>1 DEF PhoneInv
<1> QED
  BY <1>9, <1>10, <1>11, <1>12, <1>13 DEF EventsInv

\* The page begins at the first event that is newer than the cursor, and what it
\* ends with is in the ring.
LEMMA PageIs ==
  ASSUME EventsInv, Page # <<>>
  PROVE  \E first, last \in 1..Len(events.ring) :
           /\ first <= last /\ Page = SubSeq(events.ring, first, last) /\ Last(Page) = events.ring[last]
           /\ events.ring[first] > (IF Gap THEN 0 ELSE phone.cursor)
           /\ \A j \in 1..Len(events.ring) :
                events.ring[j] > (IF Gap THEN 0 ELSE phone.cursor) => first <= j
<1> USE EventsAssumption
<1> DEFINE ring  == events.ring
           from  == IF Gap THEN 0 ELSE phone.cursor
           newer == {i \in DOMAIN ring : ring[i] > from}
           first == CHOOSE i \in newer : \A j \in newer : i <= j
           last  == IF first + PageSize - 1 < Len(ring) THEN first + PageSize - 1 ELSE Len(ring)
<1>1. ring \in Seq(Nat) /\ DOMAIN ring = 1..Len(ring) /\ Len(ring) \in Nat
  BY DEF EventsInv, RingsInv, Consecutive
<1>2. Page = (IF newer = {} THEN <<>> ELSE SubSeq(ring, first, last))
  BY DEF Page
<1>3. newer # {} /\ newer \in SUBSET Nat
  <2>1. newer # {}
    BY <1>2
  <2>2. newer \subseteq 1..Len(ring)
    BY <1>1
  <2> QED
    BY <2>1, <2>2
<1>4. \E n \in newer : \A m \in newer : n <= m
  BY <1>3, LeastOne
<1>5. first \in newer /\ \A j \in newer : first <= j
  BY <1>4
<1>6. first \in 1..Len(ring) /\ ring[first] > from
  BY <1>1, <1>5
<1>7. \A j \in 1..Len(ring) : ring[j] > from => first <= j
  BY <1>1, <1>5
<1> HIDE DEF newer, first, from
<1>8. last \in 1..Len(ring) /\ first <= last
  BY <1>1, <1>6
<1>9. Page = SubSeq(ring, first, last)
  BY <1>2, <1>3
<1> HIDE DEF last
<1>10. Len(Page) = last - first + 1 /\ Page[Len(Page)] = ring[last]
  <2>1. ring \in Seq(Nat) /\ first \in 1..Len(ring) /\ last \in 1..Len(ring) /\ first <= last
    BY <1>1, <1>6, <1>8
  <2> HIDE DEF ring
  <2>2. Len(SubSeq(ring, first, last)) = last - first + 1
    BY <2>1
  <2>3. SubSeq(ring, first, last)[last - first + 1] = ring[first + (last - first + 1) - 1]
    BY <2>1
  <2>4. first + (last - first + 1) - 1 = last
    BY <2>1
  <2> QED
    BY <1>9, <2>2, <2>3, <2>4
<1>11. Last(Page) = ring[last]
  BY <1>10 DEF Last
<1> QED
  BY <1>6, <1>7, <1>8, <1>9, <1>11 DEF from

\* What a read without a gap does not bring is on a later page.
LEMMA NothingSkipped ==
  ASSUME EventsInv, PhoneReads, ~Gap, phone.cursor > 0,
         NEW number \in unread, number <= phone'.cursor
  PROVE  number \in ToSet(Page)
<1> USE EventsAssumption
<1>0. EventTypes /\ RingsInv /\ PhoneInv
  BY DEF EventsInv
<1> DEFINE ring == events.ring
           all  == events.sequence
<1>1. /\ ring \in Seq(Nat) /\ Len(ring) \in Nat /\ all \in Nat /\ Len(ring) <= all
      /\ \A i \in 1..Len(ring) : ring[i] = all - Len(ring) + i
  BY <1>0 DEF RingsInv, Consecutive, EventTypes
<1>2. phone.boot = events.boot /\ ~(phone.cursor < Oldest - 1) /\ phone.cursor \in Nat
  BY <1>0 DEF Gap, EventTypes
<1>3. number > phone.cursor /\ number \in 1..all
  BY <1>0, <1>2 DEF PhoneInv
<1>4. phone'.cursor = IF Page # <<>> THEN Last(Page) ELSE phone.cursor
  BY DEF PhoneReads
<1>5. Page # <<>> /\ phone'.cursor = Last(Page)
  BY <1>1, <1>2, <1>3, <1>4
<1>6. PICK first, last \in 1..Len(ring) :
           /\ first <= last /\ Page = SubSeq(ring, first, last) /\ Last(Page) = ring[last]
           /\ \A j \in 1..Len(ring) : ring[j] > phone.cursor => first <= j
  BY <1>5, PageIs
<1>7. ring # <<>> /\ Oldest = ring[1] /\ 1 \in 1..Len(ring)
  BY <1>1, <1>6 DEF Oldest
<1>8. Oldest = all - Len(ring) + 1
  BY <1>1, <1>7
<1> DEFINE at == number - (all - Len(ring))
<1>9. at \in 1..Len(ring) /\ ring[at] = number
  <2> HIDE DEF ring, all
  <2>1. number > all - Len(ring) /\ number \in Nat
    BY <1>1, <1>2, <1>3, <1>8
  <2>2. at \in 1..Len(ring) /\ all - Len(ring) + at = number
    BY <1>1, <1>3, <2>1
  <2> QED
    BY <1>1, <2>2
<1>10. first <= at
  BY <1>3, <1>6, <1>9
<1>11. at <= last
  <2>1. number <= ring[last] /\ ring[last] = all - Len(ring) + last
    BY <1>1, <1>5, <1>6
  <2> HIDE DEF ring, all
  <2> QED
    BY <1>1, <1>3, <2>1
<1> HIDE DEF at
<1>12. at - first + 1 \in 1..Len(Page) /\ Page[at - first + 1] = ring[at] /\ DOMAIN Page = 1..Len(Page)
  BY <1>1, <1>6, <1>9, <1>10, <1>11
<1> QED
  BY <1>9, <1>12 DEF ToSet

\* The cursor that the phone stores is a number of this boot.
LEMMA CursorIs ==
  ASSUME EventsInv, PhoneReads
  PROVE  phone'.boot = events.boot /\ phone'.cursor \in Nat /\ phone'.cursor <= events.sequence
<1> USE EventsAssumption
<1>0. EventTypes /\ RingsInv /\ PhoneInv
  BY DEF EventsInv
<1>1. /\ phone'.boot = events.boot
      /\ phone'.cursor = IF Page # <<>> THEN Last(Page) ELSE IF Gap THEN 0 ELSE phone.cursor
  BY DEF PhoneReads
<1>2. events.sequence \in Nat /\ phone.cursor \in Nat
  BY <1>0 DEF EventTypes
<1>3. CASE Page # <<>>
  <2>1. PICK last \in 1..Len(events.ring) : Last(Page) = events.ring[last]
    BY <1>3, PageIs
  <2>2. /\ Len(events.ring) \in Nat /\ Len(events.ring) <= events.sequence
        /\ events.ring[last] = events.sequence - Len(events.ring) + last
    BY <1>0 DEF RingsInv, Consecutive
  <2>3. events.ring[last] \in Nat /\ events.ring[last] <= events.sequence
    BY <1>2, <2>2
  <2> QED
    BY <1>1, <1>3, <2>1, <2>3
<1>4. CASE Page = <<>> /\ Gap
  BY <1>1, <1>2, <1>4
<1>5. CASE Page = <<>> /\ ~Gap
  <2>1. phone.cursor <= events.sequence
    BY <1>0, <1>5 DEF Gap, PhoneInv
  <2> QED
    BY <1>1, <1>2, <1>5, <2>1
<1> QED
  BY <1>3, <1>4, <1>5

LEMMA ReadsKept == EventsInv /\ PhoneReads => EventsInv'
<1> SUFFICES ASSUME EventsInv, PhoneReads PROVE EventsInv'
  OBVIOUS
<1> USE EventsAssumption
<1>0. EventTypes /\ RingsInv /\ EpisodesInv /\ AnswerInv /\ PhoneInv
  BY DEF EventsInv
<1>1. /\ events' = events /\ episodes' = episodes /\ answer' = answer /\ stored' = stored /\ saved' = saved
      /\ asked' = asked
      /\ phone' = [boot |-> events.boot,
                   cursor |-> IF Page # <<>> THEN Last(Page) ELSE IF Gap THEN 0 ELSE phone.cursor]
      /\ unread' = {number \in unread : number > phone'.cursor /\ (Gap => number \in ToSet(events.ring))}
  BY DEF PhoneReads
<1>2. phone'.boot = events.boot /\ phone'.cursor \in Nat /\ phone'.cursor <= events.sequence
  BY CursorIs
<1>3. events.boot \in Nat /\ events.sequence \in 0..LastEvent
  BY <1>0 DEF EventTypes
<1>4. phone' \in [boot : Nat, cursor : 0..LastEvent]
  <2>1. phone'.cursor \in 0..LastEvent
    BY <1>2, <1>3
  <2> QED
    BY <1>1, <1>3, <2>1
<1>5. EventTypes'
  BY <1>0, <1>1, <1>4 DEF EventTypes
<1>6. PhoneInv'
  <2>1. unread \subseteq 1..events.sequence
    BY <1>0 DEF PhoneInv
  <2>2. unread' \subseteq unread /\ \A n \in unread' : n > phone'.cursor
    BY <1>1
  <2>3. unread' \subseteq 1..events'.sequence
    BY <1>1, <2>1, <2>2
  <2>4. phone'.boot <= events'.boot
    BY <1>1, <1>2, <1>3
  <2>5. phone'.cursor <= events'.sequence
    BY <1>1, <1>2
  <2> HIDE <1>1
  <2> QED
    BY <2>2, <2>3, <2>4, <2>5 DEF PhoneInv
<1>7. RingsInv' /\ EpisodesInv' /\ AnswerInv'
  BY <1>0, <1>1 DEF RingsInv, EpisodesInv, AnswerInv
<1> QED
  BY <1>5, <1>6, <1>7 DEF EventsInv

LEMMA EventsKept == EventsInv /\ [EventsNext]_eventVars => EventsInv'
<1> SUFFICES ASSUME EventsInv, [EventsNext]_eventVars PROVE EventsInv'
  OBVIOUS
<1>1. CASE KeyObserved
  <2>1. PICK k \in Keys, s \in Severities, u \in BOOLEAN : ObserveKey(k, s, u)
    BY <1>1 DEF KeyObserved
  <2> QED
    BY <2>1, ObservedKept
<1>2. CASE UserAnswers
  BY <1>2, AnswersGiven
<1>3. CASE AnswerTaken
  BY <1>3, AnswerKept
<1>4. CASE SnoozeEnds \/ AlertExpires
  BY <1>4, EpisodesEnd
<1>5. CASE JournalSave
  BY <1>5, SaveKept
<1>6. CASE GaugeRestarts
  BY <1>6, RestartsKept
<1>7. CASE PhoneReads
  BY <1>7, ReadsKept
<1>8. CASE UNCHANGED eventVars
  BY <1>8 DEF eventVars, storeVars, EventsInv, EventTypes, RingsInv, EpisodesInv, AnswerInv, PhoneInv
<1> QED
  BY <1>1, <1>2, <1>3, <1>4, <1>5, <1>6, <1>7, <1>8 DEF EventsNext

LEMMA EventsTypesFollow == EventsInv => EventsTypeOK
<1> SUFFICES ASSUME EventsInv PROVE EventsTypeOK
  OBVIOUS
<1>1. EventTypes /\ RingsInv
  BY DEF EventsInv
<1>2. \A k \in Keys : episodes[k].severity \in Severities /\ episodes[k].acked \in Severities
  BY <1>1 DEF EventTypes, EpisodeType
<1> QED
  BY <1>1, <1>2 DEF EventsTypeOK, EventTypes, RingsInv, Consecutive

(* The variables of the alert history have their types. *)
THEOREM EventsTypeCorrect == EventsSpec => []EventsTypeOK
  BY EventsStart, EventsKept, EventsTypesFollow, PTL DEF EventsSpec

(* An alert with a current value draws attention unless the user asked for       *)
(* silence on this very occurrence and it has not become more severe since       *)
(* (alert_events_observe, alert_events_ack), through restarts, numbers that run  *)
(* out, and answers that arrive late.                                            *)
THEOREM SilenceAlwaysAsked == EventsSpec => []SilenceIsAsked
<1>1. EventsInv => SilenceIsAsked
  <2> SUFFICES ASSUME EventsInv, NEW k \in Keys, episodes[k].life = "active", ~episodes[k].unavailable,
                      k \notin asked
               PROVE  Attention(k)
    BY DEF SilenceIsAsked
  <2>1. episodes[k].severity > 0 /\ episodes[k].acked = 0 /\ ~episodes[k].snoozed
    BY DEF EventsInv, EpisodesInv
  <2> QED
    BY <2>1 DEF Attention
<1> QED
  BY EventsStart, EventsKept, <1>1, PTL DEF EventsSpec

(* A phone that has read events of this boot never misses one without a gap      *)
(* (alert_events_packet): the ring holds consecutive numbers up to the last, so  *)
(* that what the cursor leaves out is on the page or on a later one.             *)
THEOREM HistoryAlwaysContinuous == EventsSpec => HistoryIsContinuous
<1>1. EventsInv /\ [EventsNext]_eventVars => [phone.cursor > 0 => ~Skips]_eventVars
  <2> SUFFICES ASSUME EventsInv, EventsNext, phone.cursor > 0, Skips PROVE FALSE
    OBVIOUS
  <2>1. phone' # phone /\ ~Gap
    BY DEF Skips
  <2>2. PICK number \in unread : number <= phone'.cursor /\ number \notin ToSet(Page)
    BY DEF Skips
  <2>3. PhoneReads
    <3>1. \A k \in Keys, s \in Severities, u \in BOOLEAN : ObserveKey(k, s, u) => phone' = phone
      BY DEF ObserveKey, storeVars
    <3>2. KeyObserved \/ UserAnswers \/ AnswerTaken \/ SnoozeEnds \/ AlertExpires \/ JournalSave \/ GaugeRestarts
            => phone' = phone
      BY <3>1 DEF KeyObserved, UserAnswers, AnswerTaken, SnoozeEnds, AlertExpires, JournalSave, GaugeRestarts,
                  storeVars
    <3> QED
      BY <2>1, <3>2 DEF EventsNext
  <2> QED
    BY <2>1, <2>2, <2>3, NothingSkipped
<1> QED
  BY EventsStart, EventsKept, <1>1, PTL DEF EventsSpec, HistoryIsContinuous
================================================================================
