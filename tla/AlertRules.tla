------------------------------ MODULE AlertRules ------------------------------
(***************************************************************************)
(* How the samples of one reading raise and clear one alert:               *)
(* src/alert_engine.c behind the sample queue of main.c.                   *)
(*                                                                         *)
(* The worker of the adapter observes samples and queues them; the         *)
(* application tick takes them from the queue one by one while the worker  *)
(* goes on, then handles what the queue lost and the link, then evaluates. *)
(* A value is a zone of the rule: above and below stand for either         *)
(* direction of its comparison.                                            *)
(***************************************************************************)
EXTENDS Integers, Sequences

CONSTANTS Dwell,       \* trigger_dwell_ms, not 0
          ClearDwell,  \* clear_dwell_ms, not 0
          Stale,       \* stale_ms of the reading
          SampleQueue, \* ALERT_SAMPLE_QUEUE_LENGTH, 16 in the code
          Horizon      \* bound on time

ASSUME RuleAssumption == {Dwell, ClearDwell, Stale, SampleQueue, Horizon} \subseteq Nat

Zones   == {"clear", "under", "warning", "over", "critical"}
NaN     == "nan"       \* a request failed: queued as an unavailable marker
None    == -1
Clearing == 3           \* the pending value of a clearing

\* "under" is within the hysteresis of the warning, "over" past the warning and
\* within the hysteresis of the critical limit.
ZoneTarget(z)      == CASE z = "critical" -> 2 [] z \in {"warning", "over"} -> 1 [] OTHER -> 0
Releases(s, z) == IF s = 2 THEN z \in {"clear", "under", "warning"} ELSE z = "clear"

VARIABLES
  now,      \* milliseconds, in units of the bound
  feed,     \* adapter_status_ready_for: "up", "down", or "seen" down by the tick
  queue,    \* g_alert_sample_queue
  lost,     \* the reading's bit in g_alert_lost_pids
  marking,  \* the worker is between a send that failed and setting that bit
  tick,     \* samples the tick in progress may still take, or None between ticks
  rule,     \* alert_state_t
  heard,    \* history: since when the queued samples have crossed or released
  breach    \* history: the last sample before a loss that a tick has handled, or None

lossVars == <<lost, marking, breach>>
ruleVars == <<now, feed, queue, lossVars, tick, rule, heard>>

\* Since when, without a break, the samples have been at a severity's limit or
\* past it, and past its release; when the last was observed and the last lost
NothingHeard == [at |-> None, crossing |-> <<None, None>>, releasing |-> <<None, None>>, lostAt |-> None]
NoState      == [severity |-> 0, pending |-> 0, since |-> 0, last |-> 0, sampled |-> FALSE]

-----------------------------------------------------------------------------
(* The worker: queue_alert_sample                                          *)

Since(start, holds, broken) == IF ~holds THEN None ELSE IF start = None \/ broken THEN now ELSE start
HeardWith(z) ==
  LET broken == heard.at = None \/ now - heard.at > Stale
  IN  [heard EXCEPT
         !.at = now,
         !.crossing  = [s \in 1..2 |-> Since(@[s], z # NaN /\ ZoneTarget(z) >= s, broken)],
         !.releasing = [s \in 1..2 |-> Since(@[s], z # NaN /\ Releases(s, z), broken)]]

\* A reading is asked for at most once in a unit of time.
Observe ==
  /\ feed = "up" /\ heard.at < now /\ heard.lostAt < now /\ ~marking
  /\ \E z \in Zones \union {NaN} :
       IF Len(queue) < SampleQueue
       THEN /\ heard' = HeardWith(z)
            /\ queue' = Append(queue, [zone |-> z, heard |-> HeardWith(z)])
            /\ UNCHANGED marking
       ELSE marking' = TRUE /\ heard' = [heard EXCEPT !.lostAt = now] /\ UNCHANGED queue
  /\ UNCHANGED <<now, feed, lost, tick, rule, breach>>
MarkLost == marking /\ marking' = FALSE /\ lost' = TRUE /\ UNCHANGED <<now, feed, queue, tick, rule, heard, breach>>

\* The link is lost for long enough that a tick sees it.  What is still queued
\* belongs to the old generation, which the tick then discards.
FeedLost ==
  /\ feed = "up" /\ feed' = "down" /\ ~marking
  /\ queue' = <<>> /\ heard' = NothingHeard
  /\ UNCHANGED <<now, lossVars, tick, rule>>
FeedBack == feed = "seen" /\ feed' = "up" /\ UNCHANGED <<now, queue, lossVars, tick, rule, heard>>

RuleTime == now < Horizon /\ now' = now + 1 /\ UNCHANGED <<feed, queue, lossVars, tick, rule, heard>>

-----------------------------------------------------------------------------
(* alert_engine_sample                                                     *)

\* Mutant: a gap in the samples does not break what is pending.
Continued_AnyGap(state, at) == [state EXCEPT !.sampled = TRUE, !.last = at]
Continued(state, at) ==
  [state EXCEPT !.pending = IF state.sampled /\ at - state.last > Stale THEN 0 ELSE @,
                !.sampled = TRUE, !.last = at]

\* What is pending is taken, or goes on, or starts anew.
Pend(state, kind, severity, at, dwell) ==
  IF state.pending # kind THEN [state EXCEPT !.pending = kind, !.since = at]
  ELSE IF at - state.since >= dwell THEN [state EXCEPT !.severity = severity, !.pending = 0]
  ELSE state

Evaluated(state, z, at) ==
  LET target == ZoneTarget(z)
  IN  CASE target > state.severity -> Pend(state, target, target, at, Dwell)
        [] target < state.severity /\ Releases(state.severity, z) ->
             Pend(state, Clearing, target, at, ClearDwell)
        [] OTHER -> [state EXCEPT !.pending = 0]

\* alert_engine_invalidate_pid and alert_engine_invalidate_source
Invalidated(state) == [state EXCEPT !.sampled = FALSE, !.pending = 0, !.since = 0]

EngineSample(state, z, at) ==
  IF z = NaN THEN Invalidated(state) ELSE Evaluated(Continued(state, at), z, at)

-----------------------------------------------------------------------------
(* app_tick_task                                                           *)
TickBegins == tick = None /\ tick' = SampleQueue /\ UNCHANGED <<now, feed, queue, lossVars, rule, heard>>

TickTakes ==
  /\ tick > 0 /\ queue # <<>>
  /\ rule'  = EngineSample(rule, Head(queue).zone, Head(queue).heard.at)
  /\ queue' = Tail(queue) /\ tick' = tick - 1
  /\ UNCHANGED <<now, feed, lossVars, heard>>

\* Mutant: a tick forgets what the queue lost.
TickEnds_ForgetsLoss ==
  /\ tick # None /\ (tick = 0 \/ queue = <<>>)
  /\ tick' = None /\ lost' = FALSE
  /\ feed' = IF feed = "up" THEN "up" ELSE "seen"
  /\ breach' = IF feed # "up" THEN None ELSE IF lost /\ rule.sampled THEN rule.last ELSE breach
  /\ LET state == IF feed # "up" THEN Invalidated(rule) ELSE rule
         stale == ~state.sampled \/ now - state.last > Stale
     IN  rule' = [state EXCEPT !.pending = IF stale THEN 0 ELSE @]
  /\ UNCHANGED <<now, queue, marking, heard>>

\* The lost bits, the link, and alert_engine_tick, which breaks what is pending
\* on a reading gone stale.
TickEnds ==
  /\ tick # None /\ (tick = 0 \/ queue = <<>>)
  /\ tick' = None /\ lost' = FALSE
  /\ feed' = IF feed = "up" THEN "up" ELSE "seen"
  /\ breach' = IF feed # "up" THEN None ELSE IF lost /\ rule.sampled THEN rule.last ELSE breach
  /\ LET state == IF lost \/ feed # "up" THEN Invalidated(rule) ELSE rule
         stale == ~state.sampled \/ now - state.last > Stale
     IN  rule' = [state EXCEPT !.pending = IF stale THEN 0 ELSE @]
  /\ UNCHANGED <<now, queue, marking, heard>>

RuleInit ==
  /\ now = 0 /\ feed = "up" /\ queue = <<>> /\ lost = FALSE /\ marking = FALSE /\ tick = None
  /\ rule = NoState /\ heard = NothingHeard /\ breach = None

RuleNext ==
  \/ Observe \/ MarkLost \/ FeedLost \/ FeedBack \/ RuleTime
  \/ TickBegins \/ TickTakes \/ TickEnds

RuleSpec == RuleInit /\ [][RuleNext]_ruleVars

-----------------------------------------------------------------------------
(* Properties *)

\* The variables have their types.
RuleTypeOK ==
  /\ now \in 0..Horizon /\ feed \in {"up", "down", "seen"} /\ tick \in {None} \union 0..SampleQueue
  /\ Len(queue) <= SampleQueue /\ lost \in BOOLEAN /\ marking \in BOOLEAN
  /\ rule.severity \in 0..2 /\ rule.pending \in 0..3 /\ rule.since \in 0..now
  /\ breach \in {None} \union 0..Horizon

\* A severity is earned by the samples that the queue took.  It rises only on one
\* of them, after they have been at or past the new limit for the whole dwell, and
\* falls only on one after they have been past the old limit's hysteresis for the
\* whole clearing dwell, with no gap longer than the reading's age limit, no failed
\* request and no loss of the link in between ("Invalid/stale data breaks pending
\* dwell and preserves an active condition", docs/protocol/diagnostics-and-alerts.md).
\* Nor does the dwell reach back past the samples that were taken before a tick
\* handled a loss.  It may reach back past a loss that no tick has handled yet: one
\* that the worker has still to mark, or whose successors the same tick takes.
Earned ==
  rule'.severity # rule.severity =>
     /\ queue # <<>> /\ queue' = Tail(queue)
     /\ LET event == Head(queue).heard
            Dwelt(start, dwell) == start # None /\ event.at - start >= dwell /\ event.at - dwell > breach
        IN  IF rule'.severity > rule.severity
            THEN Dwelt(event.crossing[rule'.severity], Dwell)
            ELSE Dwelt(event.releasing[rule.severity], ClearDwell)
SeveritiesAreEarned == [][Earned]_ruleVars
=============================================================================
