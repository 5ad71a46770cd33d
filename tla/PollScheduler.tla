----------------------------- MODULE PollScheduler -----------------------------
(***************************************************************************)
(* Which reading or diagnostic a vehicle data worker asks for next:        *)
(* src/poll_scheduler.c, driven by the poll loop of obd_task (main.c).     *)
(*                                                                         *)
(* Time is in what it makes true: a reading or a diagnostic is due, a      *)
(* sample would be too old after a diagnostic (at risk), a failed reading  *)
(* is in its backoff unless it is due, diagnostics are spaced by 2 s and   *)
(* late after 10 s.  Among due readings the ordinary slot may pick any:    *)
(* deadlines, priorities and the rotating cursor decide it.  Only one      *)
(* transaction is in flight, and selecting it and its end are one step.    *)
(***************************************************************************)
EXTENDS Naturals

CONSTANTS Readings,  \* number of readings of the source
          Visible,   \* readings of the page on the display: priority 2
          Failing,   \* readings whose requests may fail
          Watched,   \* the reading whose turns are counted
          Jobs,      \* number of diagnostics, 4 for each endpoint in the code
          Streak,    \* ordinary slots between two fair ones, 8 in the code
          Pace,      \* readings between two diagnostics, 10 in the code
          MaxResets  \* bound on new scopes of the scheduler

ASSUME PollAssumption ==
  /\ Readings \in Nat \ {0} /\ Jobs \in Nat \ {0} /\ Streak \in Nat /\ Pace \in Nat
  /\ Watched \in 0..Readings-1

Reading == 0..Readings-1
Job     == 0..Jobs-1
NoJob   == Jobs

VARIABLES
  slots,     \* fairness_cursor, priority_streak, normal_since_background, background_cursor
  preflight, \* preflight_background, preflight_pids, preflight_since_foreground
  due,       \* readings that are due
  risky,     \* readings whose sample would be too old after a diagnostic
  failing,   \* readings whose last request failed
  dueJobs,   \* diagnostics that are due
  clock,     \* [spaced, late]: since the last diagnostic
  waited,    \* history: ordinary slots that passed Watched by while it was due, all of
             \* them, and those since a preflight last took a fair slot
  resets     \* new scopes so far

readingVars == <<due, risky, failing>>
pollVars    == <<slots, preflight, readingVars, dueJobs, clock, waited, resets>>

FirstSlots  == [fair |-> 0, streak |-> 0, normal |-> Pace, job |-> 0]
NoPreflight == [job |-> NoJob, touched |-> {}, reads |-> 0]
Recent      == [spaced |-> FALSE, late |-> FALSE]
NotWaited   == [all |-> 0, round |-> 0]
Rounds      == (Streak + 1) * Readings

\* The first member of S from a cursor on, round robin
Nearest(S, from, size) ==
  CHOOSE i \in S : \A j \in S : (i + size - from) % size <= (j + size - from) % size

-----------------------------------------------------------------------------
\* select_pid, and which readings a slot may go to
Fair == slots.streak >= Streak
Candidates == IF Fair /\ due # {} THEN {Nearest(due, slots.fair, Readings)} ELSE due

\* Mutant: a fair slot does not move the fairness cursor on.
Advanced_SameCursor(i, ordinary) ==
  [slots EXCEPT !.normal = IF @ < Pace THEN @ + 1 ELSE @,
                !.streak = IF ~ordinary THEN @ ELSE IF Fair THEN 0 ELSE @ + 1]
Advanced(i, ordinary) ==
  [slots EXCEPT !.normal = IF @ < Pace THEN @ + 1 ELSE @,
                !.streak = IF ~ordinary THEN @ ELSE IF Fair THEN 0 ELSE @ + 1,
                !.fair   = IF ordinary /\ Fair THEN (i + 1) % Readings ELSE @]

\* The request ends: poll_scheduler_complete, sample and result
Completed(i) ==
  /\ due' = due \ {i}
  /\ \/ risky' = risky \ {i} /\ failing' = failing \ {i}
     \/ i \in Failing /\ failing' = failing \union {i} /\ UNCHANGED risky

Read(i, ordinary) == slots' = Advanced(i, ordinary) /\ Completed(i) /\ UNCHANGED <<dueJobs, clock>>
Still(i) == IF i = Watched THEN NotWaited ELSE waited
\* (all is counted up to the first number past the bound)
PassedBy == [all |-> IF waited.all > Rounds THEN waited.all ELSE waited.all + 1, round |-> waited.round + 1]

\* An ordinary slot
ReadDue ==
  \E i \in Candidates :
    /\ Read(i, TRUE) /\ UNCHANGED preflight
    /\ waited' = IF i # Watched /\ Watched \in due THEN PassedBy ELSE NotWaited

\* The diagnostic ends: due again after minutes, or a retry after a second or more.
Ask(pre) ==
  /\ slots' = [slots EXCEPT !.normal = 0, !.job = (pre.job + 1) % Jobs] /\ preflight' = NoPreflight
  /\ dueJobs' = dueJobs \ {pre.job} /\ clock' = Recent
  /\ UNCHANGED <<readingVars, waited>>

\* Mutant: a diagnostic waits for a moment when no reading is due.
Admit_WhenIdle == preflight.job # NoJob \/ (dueJobs # {} /\ clock.spaced /\ due = {})
\* When a diagnostic, or its preflight, goes before the readings
Admit ==
  \/ preflight.job # NoJob
  \/ /\ dueJobs # {} /\ clock.spaced
     /\ due = {} \/ slots.normal >= Pace \/ (slots.normal > 0 /\ clock.late)

\* Readings still to be refreshed before the diagnostic; a backoff is kept.
Refresh(pre) == {i \in risky \ pre.touched : i \in failing => i \in due}

\* The diagnostic goes once nothing is left to refresh; two refreshes earn one
\* due reading of the page.
Diagnose ==
  LET pre   == IF preflight.job # NoJob THEN preflight
               ELSE [NoPreflight EXCEPT !.job = Nearest(dueJobs, slots.job, Jobs)]
      shown == IF pre.reads < 2 THEN {} ELSE due \intersect Visible
  IN \/ Refresh(pre) = {} /\ Ask(pre)
     \/ /\ Refresh(pre) # {}
        /\ \E i \in shown :
             /\ Read(i, TRUE)
             /\ waited' = IF Fair THEN [Still(i) EXCEPT !.round = 0] ELSE Still(i)
        /\ preflight' = [pre EXCEPT !.reads = 0]
     \/ /\ shown = {}
        /\ \E i \in Refresh(pre) :
             /\ Read(i, FALSE) /\ waited' = Still(i)
             /\ preflight' = [pre EXCEPT !.touched = @ \union {i}, !.reads = IF @ < 2 THEN @ + 1 ELSE @]

\* poll_scheduler_next_budgeted
Dispatch == (IF Admit THEN Diagnose ELSE ReadDue) /\ UNCHANGED resets

-----------------------------------------------------------------------------
\* Time: readings and diagnostics come due, samples age.
Comes ==
  /\ \/ \E i \in Reading \ due : due' = due \union {i} /\ UNCHANGED <<risky, dueJobs, clock>>
     \/ \E i \in Reading \ risky : risky' = risky \union {i} /\ UNCHANGED <<due, dueJobs, clock>>
     \/ \E j \in Job \ dueJobs : dueJobs' = dueJobs \union {j} /\ UNCHANGED <<due, risky, clock>>
  /\ UNCHANGED <<slots, preflight, failing, waited, resets>>

PollTime ==
  /\ ~clock.late /\ clock' = [spaced |-> TRUE, late |-> clock.spaced]
  /\ UNCHANGED <<slots, preflight, readingVars, dueJobs, waited, resets>>

\* A vehicle command has brought a sample: poll_scheduler_sample
Sampled ==
  /\ \E i \in due \union risky :
       due' = due \ {i} /\ risky' = risky \ {i} /\ failing' = failing \ {i} /\ waited' = Still(i)
  /\ UNCHANGED <<slots, preflight, dueJobs, clock, resets>>

\* A new link, a clearing or an exchange of roles: poll_scheduler_init
PollFresh ==
  /\ slots' = FirstSlots /\ preflight' = NoPreflight /\ due' = Reading /\ risky' = Reading
  /\ failing' = {} /\ dueJobs' = Job /\ clock' = [spaced |-> TRUE, late |-> TRUE] /\ waited' = NotWaited
PollReset == resets < MaxResets /\ resets' = resets + 1 /\ PollFresh

PollInit ==
  /\ slots = FirstSlots /\ preflight = NoPreflight /\ due = Reading /\ risky = Reading
  /\ failing = {} /\ dueJobs = Job /\ clock = [spaced |-> TRUE, late |-> TRUE] /\ waited = NotWaited
  /\ resets = 0

PollNext == Dispatch \/ Comes \/ PollTime \/ Sampled \/ PollReset

\* The worker goes on and time passes.
PollSpec == PollInit /\ [][PollNext]_pollVars /\ WF_pollVars(Dispatch) /\ WF_pollVars(PollTime)

-----------------------------------------------------------------------------
(* Properties *)

\* The variables have their types.
PollTypeOK ==
  /\ due \subseteq Reading /\ risky \subseteq Reading /\ failing \subseteq Failing /\ dueJobs \subseteq Job
  /\ slots.streak \in 0..Streak /\ slots.normal \in 0..Pace /\ preflight.reads \in 0..2

\* "A continuously eligible hidden PID gets a slot within at most 9*count ordinary
\* PID dispatches, plus bounded diagnostic/preflight work" (poll_scheduler.c).
EachReadingIsServed == waited.all <= Rounds

\* What the fair slots do give: the bound holds for as long as no preflight gives
\* the fair slot to a reading of the page, which moves the fairness cursor past
\* the readings whose turn it was.  Urgent readings, the refreshes of a preflight,
\* failures and diagnostics do not disturb it.
EachRoundIsServed == waited.round <= Rounds

\* The last diagnostic is due: it must be asked for, however many readings are due,
\* fail, or age while it waits.
DiagnosticWaits == Jobs - 1 \in dueJobs
=============================================================================
