----------------------------- MODULE WifiSessions -----------------------------
(***************************************************************************)
(* What the temporary network of src/wifi_bulk.c promises to the tasks     *)
(* that use its sessions: a generation that is no longer current, because  *)
(* the network closed or reopened, its phone left, or a client ended an    *)
(* update, is never current again.  The firmware update (OtaTransfer)      *)
(* relies on this and no more; WifiBulk is shown to implement it.          *)
(*                                                                         *)
(* Also the gate of src/transfer_gate.c, which both claim.                 *)
(***************************************************************************)
EXTENDS Integers

VARIABLES
  active,      \* wifi_bulk.c: wifi_active
  generation,  \* wifi_bulk.c: wifi_generation
  gate         \* transfer_gate.c: operation

sessionFlags == <<active, generation>>

\* wifi_bulk_session_current
SessionCurrent(g) == active /\ generation = g

\* transfer_gate_claim, transfer_gate_release
Claim(kind)   == gate = "none" /\ gate' = kind
Release(kind) == gate' = IF gate = kind THEN "none" ELSE gate

SessionsInit == active = FALSE /\ generation = 0

\* The network closes, or makes ready to open; it opens; its phone goes away;
\* or the chip restarts.
Retire  == active' = FALSE /\ generation' = generation + 1
Open    == ~active /\ active' = TRUE /\ UNCHANGED generation
Departs == generation' = generation + 1 /\ UNCHANGED active
Reset   == active' = FALSE /\ generation' = 0

SessionsSpec == SessionsInit /\ [][Retire \/ Open \/ Departs \/ Reset]_sessionFlags
=============================================================================
