---------------------------- MODULE Services_proofs ----------------------------
(***************************************************************************)
(* Proofs about MCServices, where the services run in one specification,   *)
(* one of them at a time, over the variables that the update and the       *)
(* network share: each keeps its own invariant while it is explored, and   *)
(* its types while another is.                                             *)
(***************************************************************************)
EXTENDS MCServices, DiagnosticClear_proofs, UpdateNetwork_proofs, Monitoring_proofs

ServicesInv ==
  /\ part \in Parts
  /\ OtaTypeOK /\ (part = "update" => OtaInv /\ SizesInv)
  /\ WifiTypeOK /\ (part = "network" => WifiInv)
  /\ ClearInv /\ RoleInv /\ PollInv /\ RuleInv /\ EventsInv

(* The invariants imply the types. *)
LEMMA ServicesTypesFollow ==
  /\ WifiInv => WifiTypeOK
  /\ RoleInv => RoleTypeOK
  /\ PollInv => PollTypeOK
  /\ RuleInv => RuleTypeOK
  /\ EventsInv => EventsTypeOK
<1>1. WifiInv => WifiTypeOK
  BY DEF WifiInv, NetTypes, WifiTypeOK
<1> QED
  BY <1>1, RoleTypesFollow, PollTypesFollow, RuleTypesFollow, EventsTypesFollow

LEMMA ServicesStart == ServicesInit => ServicesInv
<1> SUFFICES ASSUME ServicesInit PROVE ServicesInv
  OBVIOUS
<1>1. /\ OtaInit /\ WifiInit /\ ClearInit /\ RoleInit /\ PollInit /\ RuleInit /\ EventsInit
      /\ part \in Parts
  BY DEF ServicesInit
<1>2. OtaInv /\ SizesInv /\ OtaTypeOK
  BY <1>1, OtaStarts, OtaSizesStart, OtaTypesFollow
<1>3. WifiInv /\ WifiTypeOK
  BY <1>1, WifiStarts, ServicesTypesFollow
<1>4. ClearInv /\ RoleInv /\ PollInv /\ RuleInv /\ EventsInv
  BY <1>1, ClearStarts, RolesStart, PollStart, RuleStart, EventsStart
<1> QED
  BY <1>1, <1>2, <1>3, <1>4 DEF ServicesInv

LEMMA ServicesKept == ServicesInv /\ [ServicesNext]_servicesVars => ServicesInv'
<1> SUFFICES ASSUME ServicesInv, [ServicesNext]_servicesVars PROVE ServicesInv'
  OBVIOUS
<1>0. /\ part \in Parts
      /\ OtaTypeOK /\ (part = "update" => OtaInv /\ SizesInv)
      /\ WifiTypeOK /\ (part = "network" => WifiInv)
      /\ ClearInv /\ RoleInv /\ PollInv /\ RuleInv /\ EventsInv
  BY DEF ServicesInv
\* A service whose variables do not change keeps its invariant.
<1>1. /\ UNCHANGED clearVars => ClearInv'
      /\ UNCHANGED roleVars => RoleInv'
      /\ UNCHANGED pollVars => PollInv'
      /\ UNCHANGED ruleVars => RuleInv'
      /\ UNCHANGED eventVars => EventsInv'
  BY <1>0, ClearKeeps, RolesKeep, PollKept, RuleKept, EventsKept
<1>2. UNCHANGED <<firmwareVars, ota, workerVars>> /\ WifiTypeOK' => OtaTypeOK'
  BY <1>0 DEF OtaTypeOK, WifiTypeOK, firmwareVars, workerVars
<1>3. UNCHANGED netVars /\ OtaTypeOK' => WifiTypeOK'
  BY <1>0 DEF OtaTypeOK, WifiTypeOK, netVars
<1>4. UNCHANGED <<otaVars, netVars>> => OtaTypeOK' /\ WifiTypeOK'
  <2> SUFFICES ASSUME UNCHANGED <<otaVars, netVars>> PROVE OtaTypeOK' /\ WifiTypeOK'
    OBVIOUS
  <2>1. UNCHANGED <<firmwareVars, ota, workerVars, gate, sessionFlags>> /\ UNCHANGED netVars
    BY DEF otaVars
  <2>2. WifiTypeOK'
    BY <1>0, <2>1 DEF WifiTypeOK, netVars, sessionFlags
  <2> QED
    BY <1>2, <2>1, <2>2
<1>5. CASE Updating(OtaNext)
  <2>1. /\ part = "update" /\ OtaNext /\ part' = part
        /\ UNCHANGED netVars /\ UNCHANGED clearVars /\ UNCHANGED roleVars /\ UNCHANGED pollVars
        /\ UNCHANGED ruleVars /\ UNCHANGED eventVars
    BY <1>5 DEF Updating
  <2>2. OtaInv' /\ SizesInv'
    BY <1>0, <2>1, OtaKeeps, SizesKept
  <2>3. OtaTypeOK'
    <3>1. (OtaInv /\ SizesInv => OtaTypeOK)'
      BY OtaTypesFollow, PTL
    <3> QED
      BY <2>2, <3>1
  <2> QED
    BY <1>0, <1>1, <1>3, <2>1, <2>2, <2>3 DEF ServicesInv
<1>6. CASE Networking(WifiNext)
  <2>1. /\ part = "network" /\ WifiNext /\ part' = part
        /\ UNCHANGED <<firmwareVars, ota, workerVars>> /\ UNCHANGED clearVars /\ UNCHANGED roleVars
        /\ UNCHANGED pollVars /\ UNCHANGED ruleVars /\ UNCHANGED eventVars
    BY <1>6 DEF Networking
  <2>2. WifiInv'
    BY <1>0, <2>1, WifiKeeps
  <2>3. WifiTypeOK'
    BY <2>2 DEF WifiInv, NetTypes, WifiTypeOK
  <2> QED
    BY <1>0, <1>1, <1>2, <2>1, <2>2, <2>3 DEF ServicesInv
<1>7. CASE Clears(ClearNext)
  <2>1. /\ part = "clearing" /\ ClearNext /\ part' = part /\ UNCHANGED <<otaVars, netVars>>
        /\ UNCHANGED roleVars /\ UNCHANGED pollVars /\ UNCHANGED ruleVars /\ UNCHANGED eventVars
    BY <1>7 DEF Clears
  <2>2. ClearInv'
    BY <1>0, <2>1, ClearKeeps
  <2> QED
    BY <1>0, <1>1, <1>4, <2>1, <2>2 DEF ServicesInv
<1>8. CASE Exchanges(RoleNext)
  <2>1. /\ part = "roles" /\ RoleNext /\ part' = part /\ UNCHANGED <<otaVars, netVars>>
        /\ UNCHANGED clearVars /\ UNCHANGED pollVars /\ UNCHANGED ruleVars /\ UNCHANGED eventVars
    BY <1>8 DEF Exchanges
  <2>2. RoleInv'
    BY <1>0, <2>1, RolesKeep
  <2> QED
    BY <1>0, <1>1, <1>4, <2>1, <2>2 DEF ServicesInv
<1>9. CASE Polls(PollNext)
  <2>1. /\ part = "polling" /\ PollNext /\ part' = part /\ UNCHANGED <<otaVars, netVars>>
        /\ UNCHANGED clearVars /\ UNCHANGED roleVars /\ UNCHANGED ruleVars /\ UNCHANGED eventVars
    BY <1>9 DEF Polls
  <2>2. PollInv'
    BY <1>0, <2>1, PollKept
  <2> QED
    BY <1>0, <1>1, <1>4, <2>1, <2>2 DEF ServicesInv
<1>10. CASE Alerts(RuleNext)
  <2>1. /\ part = "rules" /\ RuleNext /\ part' = part /\ UNCHANGED <<otaVars, netVars>>
        /\ UNCHANGED clearVars /\ UNCHANGED roleVars /\ UNCHANGED pollVars /\ UNCHANGED eventVars
    BY <1>10 DEF Alerts
  <2>2. RuleInv'
    BY <1>0, <2>1, RuleKept
  <2> QED
    BY <1>0, <1>1, <1>4, <2>1, <2>2 DEF ServicesInv
<1>11. CASE Remembers(EventsNext)
  <2>1. /\ part = "history" /\ EventsNext /\ part' = part /\ UNCHANGED <<otaVars, netVars>>
        /\ UNCHANGED clearVars /\ UNCHANGED roleVars /\ UNCHANGED pollVars /\ UNCHANGED ruleVars
    BY <1>11 DEF Remembers
  <2>2. EventsInv'
    BY <1>0, <2>1, EventsKept
  <2> QED
    BY <1>0, <1>1, <1>4, <2>1, <2>2 DEF ServicesInv
<1>12. CASE UNCHANGED servicesVars
  <2>1. /\ part' = part /\ UNCHANGED <<otaVars, netVars>> /\ UNCHANGED otaVars /\ UNCHANGED wifiVars
        /\ UNCHANGED clearVars /\ UNCHANGED roleVars /\ UNCHANGED pollVars /\ UNCHANGED ruleVars
        /\ UNCHANGED eventVars
    BY <1>12 DEF servicesVars, wifiVars, otaVars
  <2>2. part = "update" => OtaInv' /\ SizesInv'
    BY <1>0, <2>1, OtaKeeps, SizesKept
  <2>3. part = "network" => WifiInv'
    BY <1>0, <2>1, WifiKeeps
  <2> QED
    BY <1>0, <1>1, <1>4, <2>1, <2>2, <2>3 DEF ServicesInv
<1> QED
  BY <1>5, <1>6, <1>7, <1>8, <1>9, <1>10, <1>11, <1>12, Zenon DEF ServicesNext

(* The variables of each service have their types. *)
THEOREM ServicesTypeCorrect == ServicesSpec => []ServicesTypeOK
<1>1. ServicesInv => ServicesTypeOK
  BY ServicesTypesFollow, ClearImplied DEF ServicesInv, ServicesTypeOK
<1> QED
  BY ServicesStart, ServicesKept, <1>1, PTL DEF ServicesSpec

(* Between the commands of the control worker the adapters are paused exactly   *)
(* while the access point is on, which is when the phone is told so             *)
(* (wifi_bulk.c), in every run of the services.                                 *)
THEOREM AdaptersFollowTheNetwork == ServicesSpec => []AdaptersFollowNetwork
<1>1. ServicesInv => AdaptersFollowNetwork
  BY DEF ServicesInv, WifiInv, NetTypes, PlaceInv, AdaptersFollow, AdaptersFollowNetwork
<1> QED
  BY ServicesStart, ServicesKept, <1>1, PTL DEF ServicesSpec
================================================================================
