------------------------------- MODULE WifiBulk -------------------------------
(***************************************************************************)
(* The temporary maintenance network of src/wifi_bulk.c: the control       *)
(* worker that opens, closes and expires it, the server that forwards the  *)
(* frames of its one client to the update session (OtaTransfer), the event *)
(* handler for a phone that leaves, and ota_recovery_close_network of      *)
(* inc/ota_recovery_policy.h.                                              *)
(*                                                                         *)
(* Three tasks share the flag wifi_active, the generation, the signal      *)
(* abandoned_ota_session and the session under state_lock.  A session is   *)
(* named by the generation it starts with: its id is a random number, new  *)
(* each time.  Encryption, frame numbers and replies are left out: a frame *)
(* counts when it is of the current, unexpired session.  A frame whose     *)
(* reply does not come in time is answered with an error, and the client   *)
(* goes on, so the server is not held to wait for the update's answer.     *)
(***************************************************************************)
EXTENDS WifiSessions, Sequences

CONSTANTS
  MaxSession,  \* bound: no phone does anything once the generation is higher
  MaxCommands     \* wifi_bulk_init: the length of the command queue, 2

ASSUME WifiAssumption == MaxSession \in Nat /\ MaxCommands \in Nat \ {0}

VARIABLES
  net,        \* state: its phase and session id; and whether its ten minutes are over
  commands,   \* command_queue
  control,    \* where the control worker is
  paused,     \* ble_mgr.c: central_paused
  client,     \* the connection the server handles, or NoClient
  abandoned,  \* abandoned_ota_session, NoSessionId if none
  departed    \* auxiliary: a client that sent update requests in this session is gone

netVars  == <<net, commands, control, paused, client, abandoned, departed>>
wifiVars == <<netVars, gate, sessionFlags>>

NoSessionId == 0
NetPhases   == {"OFF", "STARTING", "READY", "FAILED"}
Net         == [phase : NetPhases, session : Nat, expired : BOOLEAN]
Cleared(p)  == [phase |-> p, session |-> NoSessionId, expired |-> FALSE]   \* clear_session_locked

\* A client has the generation it was accepted in and the session it speaks
\* for; asked: it has sent an update request in that session (ota_session).
Client   == [generation : Nat, session : Nat, asked : BOOLEAN]
NoClient == [generation |-> 0, session |-> NoSessionId, asked |-> FALSE]

-----------------------------------------------------------------------------
(* worker_task                                                             *)

\* wifi_bulk_command
NetCommand(command) ==
  /\ Len(commands) < MaxCommands
  /\ generation < MaxSession
  /\ commands' = Append(commands, command)
  /\ UNCHANGED <<gate, sessionFlags, net, control, paused, client, abandoned, departed>>

TakeCommand ==
  /\ control = "wait" /\ commands # <<>>
  /\ commands' = Tail(commands)
  /\ IF Head(commands) = "OPEN"
     THEN control' = "open" /\ net' = [net EXCEPT !.phase = "STARTING"]
     ELSE control' = "stop" /\ net' = [net EXCEPT !.phase = "OFF"]
  /\ UNCHANGED <<gate, sessionFlags, paused, client, abandoned, departed>>

\* OPEN claims the gate and then asks the maintenance question.  Refused, it
\* clears the session and looks at nothing else.
OpenRefused ==
  /\ \/ control = "open" /\ gate # "none" /\ UNCHANGED gate
     \/ control = "claimed" /\ Release("wifi")
  /\ net' = Cleared("FAILED") /\ control' = "wait"
  /\ UNCHANGED <<sessionFlags, commands, paused, client, abandoned, departed>>

OpenClaims ==
  /\ control = "open" /\ Claim("wifi") /\ control' = "claimed"
  /\ UNCHANGED <<sessionFlags, net, commands, paused, client, abandoned, departed>>

\* Allowed, it pauses the adapters and gives the gate back
OpenAllowed ==
  /\ control = "claimed" /\ Release("wifi")
  /\ paused' = TRUE /\ control' = "start"
  /\ UNCHANGED <<sessionFlags, net, commands, client, abandoned, departed>>

\* and start_maintenance_network retires the previous session,
RetireSession_KeepsGeneration == active' = FALSE /\ UNCHANGED generation   \* seeded bug
RetireSession == active' = FALSE /\ generation' = generation + 1
StartRetires ==
  /\ control = "start" /\ RetireSession /\ control' = "started"
  /\ UNCHANGED <<gate, net, commands, paused, client, abandoned, departed>>

\* and has a new one ready or fails for lack of memory or a driver error.
NetworkReady ==
  /\ control = "started" /\ control' = "look"
  /\ net' = [phase |-> "READY", session |-> generation, expired |-> FALSE]
  /\ active' = TRUE /\ departed' = FALSE
  /\ UNCHANGED <<gate, generation, commands, paused, client, abandoned>>

NetworkFails_StaysPaused ==   \* seeded bug
  /\ control = "started" /\ control' = "look" /\ net' = Cleared("FAILED")
  /\ UNCHANGED <<gate, sessionFlags, paused, commands, client, abandoned, departed>>
NetworkFails ==
  /\ control = "started" /\ control' = "look"
  /\ paused' = FALSE /\ net' = Cleared("FAILED")
  /\ UNCHANGED <<gate, sessionFlags, commands, client, abandoned, departed>>

\* stop_maintenance_network, for CLOSE or when the worker has found it due.  After
\* a command the worker looks at the network, after that it waits.
StopRetires ==
  /\ control = "stop" /\ RetireSession /\ control' = "stopped"
  /\ UNCHANGED <<gate, net, commands, paused, client, abandoned, departed>>

StopEnds ==
  /\ control = "stopped"
  /\ control' = IF net.phase = "READY" THEN "wait" ELSE "look"   \* found due, or after CLOSE
  /\ paused' = FALSE /\ net' = Cleared("OFF") /\ departed' = FALSE
  /\ UNCHANGED <<gate, sessionFlags, commands, client, abandoned>>

\* ota_recovery_close_network
CloseFor_Any(session) == net.phase = "READY" /\ session # NoSessionId   \* seeded bug
CloseFor(session) ==
  net.phase = "READY" /\ session # NoSessionId /\ session = net.session

\* After a command and at least every second: is the network to be closed?
Due == (net.phase = "READY" /\ net.expired) \/ CloseFor(abandoned)
Look ==
  /\ control = "look" \/ (control = "wait" /\ commands = <<>>)
  /\ abandoned' = NoSessionId
  /\ control' = IF Due THEN "stop" ELSE "wait"
  /\ UNCHANGED <<gate, sessionFlags, net, commands, paused, client, departed>>

Control ==
  TakeCommand \/ OpenRefused \/ OpenClaims \/ OpenAllowed \/ StartRetires
  \/ NetworkReady \/ NetworkFails \/ StopRetires \/ StopEnds \/ Look

\* The ten minutes of the session
SessionExpires ==
  /\ net.phase = "READY" /\ ~net.expired
  /\ net' = [net EXCEPT !.expired = TRUE]
  /\ UNCHANGED <<gate, sessionFlags, commands, control, paused, client, abandoned, departed>>

-----------------------------------------------------------------------------
\* wifi_event: the phone leaves the access point
StationLeaves ==
  /\ active /\ generation < MaxSession
  /\ generation' = generation + 1
  /\ UNCHANGED <<gate, active, netVars>>

(* server_task and handle_frame                                            *)

\* The generation is read before the connection is accepted.
Accept ==
  /\ client = NoClient /\ active /\ net.session # NoSessionId /\ generation <= MaxSession
  /\ client' = [generation |-> generation, session |-> net.session, asked |-> FALSE]
  /\ UNCHANGED <<gate, sessionFlags, net, commands, control, paused, abandoned, departed>>

\* wifi_bulk_policy_accept
FrameCounts == net.phase = "READY" /\ client.session = net.session /\ ~net.expired

\* An update request, which ota_transfer_wifi_command takes or not
Frame ==
  /\ client # NoClient /\ FrameCounts
  /\ client' = [client EXCEPT !.asked = TRUE]
  /\ UNCHANGED <<gate, sessionFlags, net, commands, control, paused, abandoned, departed>>

\* The connection ends: by itself, or because its session or generation is no
\* longer current.  Only a client that took part in an update retires them.
ClientEnds ==
  /\ client # NoClient /\ client' = NoClient
  /\ generation' = IF client.asked /\ generation = client.generation THEN generation + 1 ELSE generation
  /\ abandoned'  = IF client.asked THEN client.session ELSE abandoned
  /\ departed'   = (departed \/ (client.asked /\ client.session = net.session))
  /\ UNCHANGED <<gate, active, net, commands, control, paused>>

ClientCut == ClientEnds /\ ~SessionCurrent(client.generation)

-----------------------------------------------------------------------------
\* The other users of the gate: update, configuration, clearing, vehicle commands
OthersGate ==
  /\ Claim("other") \/ (gate = "other" /\ Release("other"))
  /\ UNCHANGED <<sessionFlags, netVars>>

\* The chip restarts: everything is lost.
ChipRestarts ==
  /\ net' = Cleared("OFF") /\ commands' = <<>> /\ control' = "wait" /\ paused' = FALSE
  /\ client' = NoClient /\ abandoned' = NoSessionId /\ departed' = FALSE
  /\ gate' = "none" /\ Reset

-----------------------------------------------------------------------------
WifiInit ==
  /\ SessionsInit /\ gate = "none"
  /\ net = Cleared("OFF") /\ commands = <<>> /\ control = "wait" /\ paused = FALSE
  /\ client = NoClient /\ abandoned = NoSessionId /\ departed = FALSE

WifiNext ==
  \/ \E command \in {"OPEN", "CLOSE"} : NetCommand(command)
  \/ Control \/ SessionExpires
  \/ StationLeaves \/ Accept \/ Frame \/ ClientEnds
  \/ OthersGate \/ ChipRestarts

\* The control worker goes on with its loop, the server notices within a slice
\* of 250 ms that its client is no longer current, and time passes.
WifiSpec ==
  /\ WifiInit /\ [][WifiNext]_wifiVars
  /\ WF_wifiVars(Control) /\ WF_wifiVars(ClientCut) /\ WF_wifiVars(SessionExpires)

-----------------------------------------------------------------------------
(* Properties *)

\* The variables have their types.
WifiTypeOK ==
  /\ active \in BOOLEAN /\ generation \in Nat /\ gate \in {"none", "ota", "wifi", "other"}
  /\ net \in Net /\ commands \in Seq({"OPEN", "CLOSE"}) /\ Len(commands) <= MaxCommands
  /\ control \in {"wait", "open", "claimed", "start", "started", "stop", "stopped", "look"}
  /\ paused \in BOOLEAN /\ client \in Client /\ abandoned \in Nat /\ departed \in BOOLEAN

\* What the update relies on.
ImplementsSessions == SessionsSpec

\* The adapters follow the network: between the commands of the control worker
\* they are paused exactly while the access point is on, and it is on when the
\* phone is told so and off when the phone is told so, whatever failed before.
AdaptersFollow ==
  control = "wait" =>
    /\ paused = active
    /\ net.phase = "READY" => active
    /\ net.phase = "OFF" => ~active

\* The control worker closes a network before its time only for a client of
\* that very session: a signal that is late does not close the next network.
ClosesItsOwn ==
  [][(control \in {"look", "wait"} /\ control' = "stop" /\ ~net.expired /\ net'.phase = "READY") =>
        departed]_wifiVars

\* The access point is on, and no OPEN that was refused has taken its session away
\* (OpenRefused): it must be switched off with no help from the phone.
NetworkStays == active /\ net.phase # "FAILED"

\* "expires the session after ten minutes, and stops the access point on close,
\* expiry, or reboot" (docs/protocol/wifi-bulk-v1.md): the access point is not
\* left on for good.
NetworkCloses == active ~> ~active
=============================================================================
