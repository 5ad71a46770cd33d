------------------------------ MODULE AlertEvents ------------------------------
(***************************************************************************)
(* The shared alert episodes and their history: src/alert_events.c, the    *)
(* command queue, the ticks and the journal of src/alert_runtime.c, and   *)
(* the phone that follows the history with a cursor.                       *)
(*                                                                         *)
(* Every step holds the mutex of alert_runtime.c, so it is one step.  The  *)
(* boot number is random at a start and one more when the event numbers    *)
(* run out; here numbers never repeat.  Labels, values and the recorded    *)
(* context are left out.                                                   *)
(***************************************************************************)
EXTENDS Naturals, Sequences, SequencesExt

CONSTANTS Keys,        \* alerts, ALERT_EVENT_KEYS, 44 in the code
          External,    \* those of the phone's providers, which expire
          Severities,  \* 0 inactive, 1 to 4 in the code
          RingSize,    \* ALERT_EVENT_RING, 64 in the code
          JournalSize, \* events in the journal, 32 in the code
          PageSize,    \* events in one packet, 4 in the code
          LastEvent,   \* the last event number, UINT32_MAX in the code
          MaxBoot      \* bound on boot numbers

ASSUME EventsAssumption ==
  /\ External \subseteq Keys /\ Severities \subseteq Nat /\ 0 \in Severities
  /\ RingSize \in Nat \ {0} /\ JournalSize \in Nat \ {0} /\ PageSize \in Nat \ {0}
  /\ LastEvent \in Nat \ {0} /\ MaxBoot \in Nat \ {0}

VARIABLES
  events,    \* alert_events_t: boot, sequence, ring
  episodes,  \* its episodes: current, acknowledged_severity, snooze_ms
  answer,    \* what the user answers to, on its way to alert_runtime_tick
  stored,    \* NVS: the last events
  saved,     \* saved_sequence
  phone,     \* the phone's stored cursor
  asked,     \* history: the keys whose present occurrence the user has answered
  unread     \* history: events of this boot that no page brought or gap excused

storeVars == <<stored, saved, phone>>
eventVars == <<events, episodes, answer, storeVars, asked, unread>>

NoEpisode == [episode |-> 0, boot |-> 0, severity |-> 0, unavailable |-> FALSE, life |-> "resolved",
              acked |-> 0, snoozed |-> FALSE]

\* An answer: its identity, and (history) whether the occurrence is still the same
NoAnswer == [key |-> 0, episode |-> 0, boot |-> 0, same |-> FALSE]

-----------------------------------------------------------------------------
(* append                                                                  *)

RenewedEvents == [boot |-> events.boot + 1, sequence |-> 1, ring |-> <<1>>]

\* One key goes to new, with an event.  When the numbers have run out all other
\* episodes and the history are forgotten, and the key keeps what is current.
AppendEvent(k, new) ==
  LET last   == events.sequence = LastEvent
      number == IF last THEN 1 ELSE events.sequence + 1
      kept   == IF last THEN [new EXCEPT !.episode = 0, !.acked = 0, !.snoozed = FALSE] ELSE new
      others == IF last THEN [j \in Keys |-> NoEpisode] ELSE episodes
  IN  /\ last => events.boot < MaxBoot
      /\ events' = IF last THEN RenewedEvents
                   ELSE [events EXCEPT
                           !.sequence = number,
                           !.ring = Append(IF Len(@) < RingSize THEN @ ELSE Tail(@), number)]
      /\ episodes' = [others EXCEPT
                        ![k] = [kept EXCEPT !.boot = events'.boot,
                                            !.episode = IF @ = 0 THEN number ELSE @]]
      /\ unread' = IF last THEN {number} ELSE unread \union {number}

Escalated(new, previous) ==
  IF new.severity > previous THEN [new EXCEPT !.acked = 0, !.snoozed = FALSE] ELSE new

\* alert_events_observe: a producer reports a key.  Without a value an active
\* episode keeps its severity.
ObserveKey(k, reported, unavailable) ==
  LET p        == episodes[k]
      active   == p.life = "active"
      severity == IF unavailable /\ active THEN p.severity ELSE reported
      entry    == severity > 0 /\ ~active
      base     == IF entry THEN NoEpisode ELSE p
      new      == Escalated([base EXCEPT !.severity = severity, !.unavailable = unavailable,
                                         !.life = IF severity > 0 THEN "active" ELSE "resolved"],
                            base.severity)
  IN  /\ p.episode # 0 \/ (severity > 0 /\ ~unavailable)
      /\ entry \/ severity # p.severity \/ unavailable # p.unavailable
      /\ asked'  = IF severity > base.severity THEN asked \ {k} ELSE asked
      /\ answer' = IF entry /\ answer.key = k THEN [answer EXCEPT !.same = FALSE] ELSE answer
      /\ AppendEvent(k, new)
      /\ UNCHANGED storeVars

KeyObserved == \E k \in Keys, s \in Severities, u \in BOOLEAN : (k \in External => ~u) /\ ObserveKey(k, s, u)

-----------------------------------------------------------------------------
(* Acknowledging                                                           *)

\* The user answers an alert that is shown; the answer may be long in coming
\* from the phone, and waits in the command queue for the tick.
UserAnswers ==
  /\ \E k \in Keys :
       /\ episodes[k].life = "active"
       /\ answer' = [key |-> k, episode |-> episodes[k].episode, boot |-> episodes[k].boot, same |-> TRUE]
  /\ UNCHANGED <<events, episodes, storeVars, asked, unread>>

\* Mutant: whatever episode of the key is active is meant.
Meant_AnyEpisode == episodes[answer.key].life = "active"
Meant ==
  LET p == episodes[answer.key]
  IN  answer.boot = events.boot /\ p.life = "active" /\ p.episode = answer.episode /\ p.boot = answer.boot

\* alert_events_ack, by alert_runtime_tick: a snooze or an acknowledgement
AnswerTaken ==
  /\ answer # NoAnswer /\ answer' = NoAnswer
  /\ LET k == answer.key
         p == episodes[k]
         Applied(repeated, new) ==
           IF ~Meant \/ repeated THEN UNCHANGED <<events, episodes, asked, unread>>
           ELSE /\ asked' = IF answer.same THEN asked \union {k} ELSE asked
                /\ AppendEvent(k, new)
     IN  \/ Applied(p.snoozed, [p EXCEPT !.snoozed = TRUE])
         \/ Applied(p.acked >= p.severity, [p EXCEPT !.snoozed = FALSE, !.acked = p.severity])
  /\ UNCHANGED storeVars

\* alert_events_tick: a snooze of at most five minutes ends, an external alert expires.
SnoozeEnds ==
  /\ \E k \in Keys : episodes[k].snoozed /\ AppendEvent(k, [episodes[k] EXCEPT !.snoozed = FALSE])
  /\ UNCHANGED <<answer, storeVars, asked>>
AlertExpires ==
  /\ \E k \in External :
       episodes[k].life = "active" /\ AppendEvent(k, [episodes[k] EXCEPT !.life = "expired"])
  /\ UNCHANGED <<answer, storeVars, asked>>

\* alert_events_attention
Attention(k) ==
  LET p == episodes[k]
  IN  p.life = "active" /\ ~p.unavailable /\ p.severity > p.acked /\ ~p.snoozed

-----------------------------------------------------------------------------
(* The journal, a restart, and the phone                                  *)

\* journal_task: the copy under the mutex and its save; a failed save changes nothing.
JournalSave ==
  /\ events.sequence # saved /\ saved' = events.sequence
  /\ stored' = IF Len(events.ring) <= JournalSize THEN events.ring
                ELSE SubSeq(events.ring, Len(events.ring) - JournalSize + 1, Len(events.ring))
  /\ UNCHANGED <<events, episodes, answer, phone, asked, unread>>

\* alert_runtime_init: the numbers go on after the last saved event; a journal that
\* does not decode is dropped.
GaugeRestarts ==
  /\ events.boot < MaxBoot
  /\ \E ring \in {stored, <<>>} :
       LET number == IF ring = <<>> THEN 0 ELSE Last(ring)
       IN  /\ events' = [boot |-> events.boot + 1, sequence |-> number, ring |-> ring]
           /\ saved' = number
  /\ episodes' = [k \in Keys |-> NoEpisode] /\ asked' = {} /\ unread' = {}
  /\ answer' = [answer EXCEPT !.same = FALSE]
  /\ UNCHANGED <<stored, phone>>

\* alert_events_packet: whether a gap is advertised, and the page, from the first
\* event that is newer than the cursor on (their numbers ascend in the ring)
Oldest == IF events.ring = <<>> THEN events.sequence + 1 ELSE Head(events.ring)
\* Mutant: a cursor of an earlier boot goes on.
Gap_AnyBoot == (phone.cursor > 0 /\ phone.cursor < Oldest - 1) \/ phone.cursor > events.sequence
Gap ==
  phone.boot # events.boot \/ (phone.cursor > 0 /\ phone.cursor < Oldest - 1) \/ phone.cursor > events.sequence
Page ==
  LET from  == IF Gap THEN 0 ELSE phone.cursor
      newer == {i \in DOMAIN events.ring : events.ring[i] > from}
      first == CHOOSE i \in newer : \A j \in newer : i <= j
      last  == first + PageSize - 1
  IN  IF newer = {} THEN <<>>
      ELSE SubSeq(events.ring, first, IF last < Len(events.ring) THEN last ELSE Len(events.ring))

\* The phone reads a page and stores it with its cursor (AlertRepository.kt).
PhoneReads ==
  /\ phone' = [boot   |-> events.boot,
               cursor |-> IF Page # <<>> THEN Last(Page) ELSE IF Gap THEN 0 ELSE phone.cursor]
  /\ unread' = {number \in unread : number > phone'.cursor /\ (Gap => number \in ToSet(events.ring))}
  /\ UNCHANGED <<events, episodes, answer, stored, saved, asked>>

EventsInit ==
  /\ events = [boot |-> 1, sequence |-> 0, ring |-> <<>>]
  /\ episodes = [k \in Keys |-> NoEpisode] /\ answer = NoAnswer /\ asked = {} /\ unread = {}
  /\ stored = <<>> /\ saved = 0 /\ phone = [boot |-> 0, cursor |-> 0]

EventsNext ==
  \/ KeyObserved \/ UserAnswers \/ AnswerTaken \/ SnoozeEnds \/ AlertExpires
  \/ JournalSave \/ GaugeRestarts \/ PhoneReads

EventsSpec == EventsInit /\ [][EventsNext]_eventVars

-----------------------------------------------------------------------------
(* Properties *)

\* The variables have their types.
EventsTypeOK ==
  /\ events.boot \in 1..MaxBoot /\ events.sequence \in 0..LastEvent /\ Len(events.ring) <= RingSize
  /\ \A k \in Keys : episodes[k].severity \in Severities /\ episodes[k].acked \in Severities
  /\ Len(stored) <= JournalSize /\ saved \in 0..LastEvent /\ phone.cursor \in 0..LastEvent

\* An alert with a current value draws attention, unless the user asked for silence
\* on this very occurrence and it has not become more severe since: an answer to an
\* earlier occurrence, from before a restart or before the numbers ran out silences
\* nothing ("never apply it to a newly activated episode",
\* docs/architecture/alerts-and-diagnostics.md; "Escalation resets attention").
SilenceIsAsked ==
  \A k \in Keys :
     (episodes[k].life = "active" /\ ~episodes[k].unavailable) => (Attention(k) \/ k \in asked)

\* A page that passes an event of this boot by without advertising a gap
Skips == phone' # phone /\ ~Gap /\ \E number \in unread : number <= phone'.cursor /\ number \notin ToSet(Page)

\* A phone that has read events of this boot never misses one without a gap:
\* through evictions, restarts that lost the last events so that their numbers
\* come again, and numbers that ran out.
HistoryIsContinuous == [][phone.cursor > 0 => ~Skips]_eventVars
=============================================================================
