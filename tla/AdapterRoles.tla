----------------------------- MODULE AdapterRoles -----------------------------
(***************************************************************************)
(* Two Bluetooth adapters in the engine's and the transmission's ports,    *)
(* either way round: src/adapter_role_policy.c with the loop of the two    *)
(* vehicle data workers (obd_task, role_barrier and role_probe in main.c)  *)
(* and the link generations of src/adapter_status.c.                       *)
(*                                                                         *)
(* A worker serves one logical source through the adapter that "transport" *)
(* binds it to.  Each worker asks its link which control units answer; if  *)
(* both see the other's, the bindings are exchanged once both workers have *)
(* retired their links.                                                    *)
(*                                                                         *)
(* A generation is compared only with the current one, so it is kept as    *)
(* "scoped": the policy knows the current generation of the source.  The   *)
(* two readings of one identity are one step; when a probe is due, which   *)
(* refresh requests hasten, and how a link was lost are left open, as is   *)
(* what an adapter is plugged into whenever it is connected.               *)
(***************************************************************************)
EXTENDS Naturals

Engine   == 0
Gearbox  == 1
Sources  == {Engine, Gearbox}
Adapters == {0, 1}
Other(x) == 1 - x

VARIABLES
  transport,  \* adapter of each logical source
  proof,      \* what the policy knows of the sources: see NoProof
  exchange,   \* [pending, retired]: pending, and the sources that have retired
  place,      \* where each worker is in its loop
  retired,    \* sources whose worker has set role_retired
  link,       \* each worker's link: its adapter, and what that is plugged into
  probe,      \* each worker's identity cycle: see NoProbe
  shown       \* history: the identities the current link of each source has shown

roleVars == <<transport, proof, exchange, place, retired, link, probe, shown>>

NoProof == [observed |-> {}, roles |-> [s \in Sources |-> {}], fresh |-> {},
            scoped |-> Sources, primary |-> FALSE]
NoProbe == [half |-> FALSE, roles |-> {}, contradicted |-> FALSE]
NoLink  == [up |-> FALSE, adapter |-> 0, sees |-> Engine]

-----------------------------------------------------------------------------
\* Mutant: a new generation keeps the primary proof.
Scope_KeepsPrimary(p, s) ==
  IF s \in p.scoped THEN p
  ELSE [p EXCEPT !.scoped = @ \union {s}, !.observed = @ \ {s}, !.fresh = @ \ {s}, !.roles[s] = {}]

\* adapter_role_policy_scope: a new generation voids what was known of the source.
Scope(p, s) ==
  IF s \in p.scoped THEN p
  ELSE [p EXCEPT !.scoped = @ \union {s}, !.observed = @ \ {s}, !.fresh = @ \ {s},
                 !.roles[s] = {}, !.primary = @ /\ s # Engine]

\* adapter_role_policy_observe, without its decision
Observed(p, s, c) ==
  [p EXCEPT !.roles[s] = c.roles, !.fresh = @ \union {s}, !.observed = @ \union {s},
            !.primary = IF s # Engine THEN @ ELSE ~c.contradicted /\ (@ \/ Engine \in c.roles)]

\* The decision: both observed, each sees the other's unit alone, neither is stale.
Crossed(p) ==
  p.observed = Sources /\ p.roles = [s \in Sources |-> {Other(s)}] /\ p.fresh = Sources

\* adapter_role_policy_reject_primary
Rejected(p) == [p EXCEPT !.primary = @ /\ Engine \notin p.scoped]

\* adapter_role_policy_primary_verified, on which vehicle commands depend
PrimaryVerified == ~exchange.pending /\ Engine \in proof.scoped /\ proof.primary

-----------------------------------------------------------------------------
To(s, where) == place' = [place EXCEPT ![s] = where]

\* The link's generation changes: adapter_status_event
Renewed(s, to) ==
  /\ link' = [link EXCEPT ![s] = to] /\ probe' = [probe EXCEPT ![s] = NoProbe]
  /\ shown' = [shown EXCEPT ![s] = {}]

\* Mutant: the sibling is not fenced.
Fenced_Own(p, s) == Scope(p, s)
\* "Fence the sibling too": both sources are scoped before an observation.
Fenced(p, s) == Scope(Scope(p, s), Other(s))

\* The loop of obd_task: a retired worker waits for its sibling, and forgets its
\* probe once the exchange is done; the source is scoped; a vehicle command may
\* keep the worker from going on (command_reserved).
Waits(s) == s \in retired /\ exchange.pending
LoopTo(s, where) ==
  /\ place[s] = "loop" /\ ~Waits(s)
  /\ proof' = Scope(proof, s) /\ retired' = retired \ {s}
  /\ probe' = IF s \in retired THEN [probe EXCEPT ![s] = NoProbe] ELSE probe
  /\ To(s, where) /\ UNCHANGED <<transport, exchange, link, shown>>

\* Mutant: the worker retires before its link is gone.
Barrier_KeepsLink(s, from, on) ==
  /\ place[s] = from
  /\ IF exchange.pending THEN To(s, "retiring") /\ retired' = retired \union {s}
     ELSE To(s, on) /\ UNCHANGED retired
  /\ UNCHANGED <<transport, exchange, link, probe, shown, proof>>

\* role_barrier: while an exchange is pending the link is closed first,
Barrier(s, from, on) ==
  /\ place[s] = from
  /\ IF exchange.pending
     THEN /\ Renewed(s, NoLink) /\ proof' = [proof EXCEPT !.scoped = @ \ {s}]
          /\ To(s, "retiring") /\ retired' = retired \union {s}
     ELSE To(s, on) /\ UNCHANGED <<retired, link, probe, shown, proof>>
  /\ UNCHANGED <<transport, exchange>>

\* then the policy is told; the second to tell exchanges the bindings
\* (adapter_role_policy_retire).
RetireSource(s) ==
  /\ place[s] = "retiring" /\ To(s, "loop")
  /\ IF exchange.retired \union {s} = Sources
     THEN /\ transport' = [x \in Sources |-> Other(transport[x])]
          /\ exchange' = [pending |-> FALSE, retired |-> {}]
          /\ proof' = [NoProof EXCEPT !.scoped = proof.scoped]
     ELSE exchange' = [exchange EXCEPT !.retired = @ \union {s}] /\ UNCHANGED <<transport, proof>>
  /\ UNCHANGED <<retired, link, probe, shown>>

\* Without a link, the adapter the source is bound to is connected.
StartConnecting(s) ==
  /\ place[s] = "serve" /\ ~link[s].up
  /\ Renewed(s, [NoLink EXCEPT !.adapter = transport[s]])
  /\ proof' = [proof EXCEPT !.scoped = @ \ {s}]
  /\ To(s, "connecting") /\ UNCHANGED <<transport, exchange, retired>>

Connected(s) ==
  /\ place[s] = "connecting" /\ To(s, "loop")
  /\ \E unit \in Sources : link' = [link EXCEPT ![s].up = TRUE, ![s].sees = unit]
  /\ UNCHANGED <<transport, proof, exchange, retired, probe, shown>>

NotConnected(s) ==
  /\ place[s] = "connecting" /\ To(s, "loop")
  /\ UNCHANGED <<transport, proof, exchange, retired, link, probe, shown>>

\* role_probe on a link: one identity of the cycle is read, the engine's first,
\* and matched, contradicted or not answered; a slow cycle starts again.
Answers(s, role) == {"none", IF link[s].sees = role THEN "match" ELSE "contradict"}

Cycle(s) == {probe[s], NoProbe}
Added(s, c, role, answer) ==
  [half         |-> ~c.half,
   roles        |-> IF answer = "match" THEN c.roles \union {role} ELSE c.roles,
   contradicted |-> c.contradicted \/ (s = Engine /\ role = Engine /\ answer = "contradict")]

ProbeRole(s) ==
  /\ place[s] = "serve" /\ link[s].up
  /\ \E c \in Cycle(s) :
       LET role == IF c.half THEN Gearbox ELSE Engine
       IN \E answer \in Answers(s, role) :
            LET next   == Added(s, c, role, answer)
                known  == IF next.contradicted THEN Rejected(proof) ELSE proof
                fenced == Fenced(known, s)
                after  == IF exchange.pending THEN fenced ELSE Observed(fenced, s, next)
            IN /\ shown' = [shown EXCEPT ![s] = IF answer = "match" THEN @ \union {role} ELSE @]
               /\ IF next.half
                  THEN proof' = known /\ probe' = [probe EXCEPT ![s] = next] /\ UNCHANGED exchange
                  ELSE /\ proof' = after /\ probe' = [probe EXCEPT ![s] = NoProbe]
                       /\ exchange' = [exchange EXCEPT !.pending = @ \/ Crossed(after)]
  /\ To(s, "after") /\ UNCHANGED <<transport, retired, link>>

\* Nothing is due, or Bluetooth is paused.
Idles(s) ==
  /\ place[s] = "serve" /\ To(s, "loop")
  /\ UNCHANGED <<transport, proof, exchange, retired, link, probe, shown>>

-----------------------------------------------------------------------------
LinkLost(s) ==
  /\ link[s].up /\ Renewed(s, NoLink) /\ proof' = [proof EXCEPT !.scoped = @ \ {s}]
  /\ UNCHANGED <<transport, exchange, place, retired>>

\* 15 s have passed since the source was observed, which counts for no more once
\* an exchange is pending.
EvidenceAges(s) ==
  /\ s \in proof.fresh /\ ~exchange.pending /\ proof' = [proof EXCEPT !.fresh = @ \ {s}]
  /\ UNCHANGED <<transport, exchange, place, retired, link, probe, shown>>

RoleInit ==
  /\ transport = [s \in Sources |-> s] /\ proof = NoProof
  /\ exchange = [pending |-> FALSE, retired |-> {}]
  /\ place = [s \in Sources |-> "loop"] /\ retired = {}
  /\ link = [s \in Sources |-> NoLink] /\ probe = [s \in Sources |-> NoProbe]
  /\ shown = [s \in Sources |-> {}]

RoleStep(s) ==
  \/ LoopTo(s, "barrier") \/ Barrier(s, "barrier", "serve") \/ Barrier(s, "after", "loop")
  \/ RetireSource(s) \/ StartConnecting(s) \/ Connected(s) \/ NotConnected(s) \/ ProbeRole(s) \/ Idles(s)
RoleNext == \E s \in Sources : RoleStep(s) \/ LoopTo(s, "loop") \/ LinkLost(s) \/ EvidenceAges(s)

\* The workers' tasks go on; a command that keeps one of them ends.
RoleSpec ==
  /\ RoleInit /\ [][RoleNext]_roleVars
  /\ \A s \in Sources : WF_roleVars(RoleStep(s))

-----------------------------------------------------------------------------
(* Properties *)

\* The variables have their types.
RoleTypeOK ==
  /\ transport \in [Sources -> Adapters] /\ proof.fresh \subseteq Sources
  /\ exchange.retired \subseteq Sources /\ (exchange.retired # {} => exchange.pending)
  /\ place \in [Sources -> {"loop", "barrier", "serve", "after", "connecting", "retiring"}]
  /\ \A s \in Sources : link[s].adapter \in Adapters /\ probe[s].roles \subseteq Sources

\* Whatever a worker reads comes through the adapter its source is bound to, and
\* no two workers have the same one: the map changes only between the links,
\* although a link is made while the sibling works ("No map changes until BOTH
\* workers reach this boundary", adapter_role_policy.h).
RoutesAgree ==
  \A s \in Sources : link[s].up \/ place[s] = "connecting" => link[s].adapter = transport[s]

\* Roles are exchanged on identities that both current links have shown, each
\* the other's, and never on what an earlier link showed.
ExchangeIsProven ==
  [][~exchange.pending /\ exchange'.pending =>
        \A s \in Sources : link'[s].up /\ Other(s) \in shown'[s]]_roleVars

\* Vehicle commands are admitted only on a link that has shown the engine's identity.
CommandsReachEngine == PrimaryVerified => link[Engine].up /\ Engine \in shown[Engine]

\* The two workers wait for each other, which must not be forever.
ExchangeWaits == exchange.pending
=============================================================================
