---------------------------- MODULE VehicleDriver ----------------------------
(***************************************************************************)
(* The two captured controller procedures, src/jeep_idle_driver.c and      *)
(* src/jeep_abs_tcs_driver.c, as operators on a job: the request, the      *)
(* place it has reached in its transactions and what it may have done.     *)
(*                                                                         *)
(* The three adapter routing commands count as one transaction; a reply is *)
(* one of the few outcomes the drivers tell apart.  Tickets are left out:  *)
(* the worker feeds a job the reply to its own last command only.  `late'  *)
(* says that one of the two deadlines, of 1.2 s and of 9 s, has passed.    *)
(***************************************************************************)
EXTENDS Naturals, Sequences

AllKinds == {"idle", "abs", "burnout"}
Requests == {"start", "report", "return", "recover"}

\* What the drivers can make of a reply: acceptance, one of the two known
\* states, a well-formed report of any other state, a refusal or bad framing.
Replies == {"ok", "inactive", "active", "odd", "bad"}

\* jeep_idle_driver.c: commands, with complete's choice of the next step;
\* jeep_abs_tcs_driver.c: step 0 to 4
Steps(kind, request) ==
  IF kind # "idle" THEN <<"route", "session", "control">>
  ELSE CASE request = "start"   -> <<"route", "session", "before", "start", "after">>
         [] request = "report"  -> <<"route", "report">>
         [] request = "return"  -> <<"route", "return", "settled">>
         [] request = "recover" -> <<"route", "session", "report">>

StepOf(job) == Steps(job.kind, job.request)[job.at]

\* The commands that act on the vehicle
ControlSteps   == {"start", "return", "control"}
IsControl(job) == StepOf(job) \in ControlSteps

Statuses == {"working", "confirmed", "cancelled", "rejected", "unknown"}

Job == [kind : AllKinds, request : Requests, at : 1..5, status : Statuses,
        seen : Replies, cancel : BOOLEAN, possible : BOOLEAN, uncertain : BOOLEAN,
        marked : BOOLEAN]

\* jeep_idle_driver_begin, jeep_abs_driver_begin, and begin_job's own
\* control_possible: a new job starts from a cleared driver.
NewJob(kind, request) ==
  [kind |-> kind, request |-> request, at |-> 1, status |-> "working", seen |-> "ok",
   cancel |-> FALSE, possible |-> request \in {"return", "report"},
   uncertain |-> FALSE, marked |-> FALSE]

\* jeep_idle_driver_cancel, jeep_abs_driver_cancel
Cancel(job) == [job EXCEPT !.cancel = TRUE]

-----------------------------------------------------------------------------
\* fail
Failed(job) ==
  [job EXCEPT !.status = IF job.possible \/ job.uncertain THEN "unknown" ELSE "rejected"]

\* current: a lost guard cancels everything but a Return.  A job whose
\* endpoint has changed never gets here, see Next and Feed of VehicleCommands.
Current(job, guarded) ==
  IF guarded \/ job.request = "return" \/ (job.kind # "idle" /\ job.request # "start")
  THEN job ELSE Cancel(job)

\* Mutant: a cancelled Start is only returned, never withheld.
CancelledLate(job) ==
  IF job.cancel /\ job.request = "start" /\ job.possible
  THEN [job EXCEPT !.request = "return", !.at = 1] ELSE job

\* cancellation: a control that may have begun is returned, never abandoned.
Cancelled(job) ==
  IF ~job.cancel \/ job.request = "return" THEN job
  ELSE IF job.kind # "idle"
       THEN [job EXCEPT !.status = IF job.possible THEN "unknown" ELSE "cancelled"]
       ELSE IF job.request = "recover" \/ ~job.possible
            THEN [job EXCEPT !.status = "cancelled"]
            ELSE [job EXCEPT !.request = "return", !.at = 1]

\* jeep_idle_driver_next, jeep_abs_driver_next: the job with its next command
\* about to be sent, or ended.
DriverNext(job, guarded, late) ==
  IF late THEN Failed(job)
  ELSE LET next == Cancelled(Current(job, guarded))
       IN IF next.status = "working" /\ IsControl(next)
          THEN [next EXCEPT !.possible = TRUE] ELSE next

\* What a step takes for success
Expected(step) ==
  CASE step \in {"before", "settled"} -> {"inactive"}
    [] step = "after"                 -> {"active"}
    [] step = "report"                -> {"inactive", "active"}
    [] OTHER                          -> {"ok"}

\* complete
Complete(job, reply) ==
  LET step == StepOf(job)
      last == job.at = Len(Steps(job.kind, job.request))
  IN IF reply \notin Expected(step)
     THEN Failed([job EXCEPT !.uncertain = @ \/ reply = "odd" \/ (step = "before" /\ reply = "active")])
     ELSE IF ~last THEN [job EXCEPT !.at = @ + 1]
     ELSE [job EXCEPT !.status = "confirmed", !.seen = reply,
                      !.possible = @ \/ (step = "report" /\ reply = "active")]

\* jeep_idle_driver_feed, jeep_abs_driver_feed: a cancelled idle job that has
\* just been confirmed active goes on, to the Return.
DriverFeed(job, reply, guarded, late) ==
  IF late THEN Failed(job)
  ELSE LET done == Complete(Current(job, guarded), reply)
           goesOn == /\ done.cancel /\ done.status = "confirmed"
                     /\ done.request # "recover" /\ done.seen = "active"
           next == IF goesOn THEN [done EXCEPT !.status = "working"] ELSE done
       IN IF next.kind = "idle" /\ next.status = "working" THEN Cancelled(next) ELSE next
=============================================================================
