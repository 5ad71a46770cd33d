------------------------------ MODULE MCServices ------------------------------
(***************************************************************************)
(* The services beside the configuration and the vehicle commands, one of  *)
(* them at a time: the firmware update with the network that WifiSessions  *)
(* allows, the network that implements it with a gate that others may      *)
(* have, the clearing of trouble codes, the roles of the adapters, the     *)
(* poll scheduler, the alert rules and the alert history.                  *)
(*                                                                         *)
(* Images have at most two blocks; of the two the phone offers one is      *)
(* signed.                                                                 *)
(***************************************************************************)
EXTENDS OtaTransfer, WifiBulk, DiagnosticClear, AdapterRoles, PollScheduler, AlertRules, AlertEvents

VARIABLE part   \* which of them is explored

servicesVars == <<part, otaVars, netVars, clearVars, roleVars, pollVars, ruleVars, eventVars>>

MCBlocks  == {0, 1}
MCSigned  == {<<1>>}
MCOffered == {<<1>>, <<0, 1>>}
MCChunks  == {<<0>>, <<1>>}

Parts == {"update", "network", "clearing", "roles", "polling", "rules", "history"}


Updating(A)   == part = "update"   /\ A /\ UNCHANGED <<part, netVars, clearVars, roleVars, pollVars, ruleVars, eventVars>>
Networking(A) == part = "network"  /\ A /\ UNCHANGED <<part, firmwareVars, ota, workerVars, clearVars, roleVars, pollVars, ruleVars, eventVars>>
Clears(A)     == part = "clearing" /\ A /\ UNCHANGED <<part, otaVars, netVars, roleVars, pollVars, ruleVars, eventVars>>
Exchanges(A)  == part = "roles"    /\ A /\ UNCHANGED <<part, otaVars, netVars, clearVars, pollVars, ruleVars, eventVars>>
Polls(A)      == part = "polling"  /\ A /\ UNCHANGED <<part, otaVars, netVars, clearVars, roleVars, ruleVars, eventVars>>
Alerts(A)     == part = "rules"    /\ A /\ UNCHANGED <<part, otaVars, netVars, clearVars, roleVars, pollVars, eventVars>>
Remembers(A)  == part = "history"  /\ A /\ UNCHANGED <<part, otaVars, netVars, clearVars, roleVars, pollVars, ruleVars>>

ServicesInit ==
  /\ OtaInit /\ WifiInit /\ ClearInit /\ RoleInit /\ PollInit /\ RuleInit /\ EventsInit
  /\ part \in Parts
ServicesNext ==
  \/ Updating(OtaNext) \/ Networking(WifiNext) \/ Clears(ClearNext) \/ Exchanges(RoleNext)
  \/ Polls(PollNext) \/ Alerts(RuleNext) \/ Remembers(EventsNext)

\* The fairness of each
ServicesSpec ==
  /\ ServicesInit /\ [][ServicesNext]_servicesVars
  /\ WF_otaVars(part = "update" /\ OtaWorker) /\ WF_otaVars(part = "update" /\ TimePasses)
  /\ WF_wifiVars(part = "network" /\ Control) /\ WF_wifiVars(part = "network" /\ ClientCut)
  /\ WF_wifiVars(part = "network" /\ SessionExpires)
  /\ WF_clearVars(part = "clearing" /\ Overdue) /\ WF_clearVars(part = "clearing" /\ ClearAges)
  /\ WF_clearVars(part = "clearing" /\ ClearWorker /\ clearing # "out")
  /\ \A s \in Sources : WF_roleVars(part = "roles" /\ RoleStep(s))
  /\ WF_pollVars(part = "polling" /\ Dispatch) /\ WF_pollVars(part = "polling" /\ PollTime)

-----------------------------------------------------------------------------
(* Properties *)

\* The variables of each service have their types.
ServicesTypeOK ==
  OtaTypeOK /\ WifiTypeOK /\ ClearTypeOK /\ RoleTypeOK /\ PollTypeOK /\ RuleTypeOK /\ EventsTypeOK

\* AdaptersFollow where the network is that of WifiBulk: between the commands of
\* the control worker the adapters are paused exactly while the access point is
\* on, which is when the phone is told so, whatever failed before.
AdaptersFollowNetwork == part = "network" => AdaptersFollow

\* What is under way
UnderWay ==
  CASE part = "update"   -> UpdateLeaves
    [] part = "network"  -> NetworkStays
    [] part = "clearing" -> OutcomeIsOpen
    [] part = "roles"    -> ExchangeWaits
    [] part = "polling"  -> DiagnosticWaits
    [] OTHER             -> FALSE

\* Nothing is under way for good, with no help from phone, adapter or network: an
\* update whose session is over or whose phone is silent gives up its gate, and
\* one that is activated restarts the chip; an access point is switched off, unless
\* an OPEN is refused while it is on, after which nothing does (NetworkCloses is
\* violated so); a confirmed clearing gets an outcome; the workers do not wait for
\* each other to exchange roles; and a diagnostic that is due is asked for however
\* busy the readings are.
NothingStaysForGood == UnderWay ~> ~UnderWay
=============================================================================
