---------------------------- MODULE CallContract ----------------------------
(***************************************************************************)
(* What a CallManager promises the Session that owns it, whatever order     *)
(* API calls, peer stanzas, acks and relay callbacks arrive in:             *)
(*                                                                         *)
(*   - the call moves forward along the lifecycle only, and "ended" is      *)
(*     final;                                                              *)
(*   - OnStateChange reports the state the call has at that moment, and is  *)
(*     never called again once the manager has dropped the call;            *)
(*   - OnIncoming and OnEnded are each called at most once, and OnEnded     *)
(*     only for a call that is dropped and has ended.                       *)
(*                                                                         *)
(* It says nothing about media, locks, goroutines or signaling.             *)
(***************************************************************************)
EXTENDS Naturals, CallState

VARIABLES
  phase,      \* the call's state, "none" before the call exists
  tracked,    \* is it the manager's current call?
  told,       \* the last state OnStateChange reported, "none" before the first
  nIncoming,  \* how often OnIncoming has been called
  nEnded      \* how often OnEnded has been called

vars == <<phase, tracked, told, nIncoming, nEnded>>

Init ==
  /\ phase = "none"
  /\ tracked = FALSE
  /\ told = "none"
  /\ nIncoming = 0
  /\ nEnded = 0

(* The forward edges of the lifecycle.  Any state may end.                  *)
Edge(s, s1) ==
  \/ s = "initiating" /\ s1 = "ringing"
  \/ s \in {"ringing", "incoming_ringing"} /\ s1 = "connecting"
  \/ s = "connecting" /\ s1 = "active"
  \/ s # "ended" /\ s1 = "ended"

Create ==
  /\ phase = "none"
  /\ phase' \in {"initiating", "incoming_ringing"}
  /\ tracked' = TRUE
  /\ UNCHANGED <<told, nIncoming, nEnded>>

(* The call advances or not, and a call still tracked may be reported.      *)
Advance ==
  /\ phase # "none"
  /\ phase' = phase \/ Edge(phase, phase')
  /\ told' = told \/ (tracked /\ told' = phase')
  /\ UNCHANGED <<tracked, nIncoming, nEnded>>

Drop ==
  /\ tracked
  /\ tracked' = FALSE
  /\ phase' \in {phase, "ended"}
  /\ UNCHANGED <<told, nIncoming, nEnded>>

NotifyIncoming ==
  /\ phase # "none"
  /\ nIncoming = 0
  /\ nIncoming' = 1
  /\ UNCHANGED <<phase, tracked, told, nEnded>>

NotifyEnded ==
  /\ ~tracked
  /\ phase = "ended"
  /\ nEnded = 0
  /\ nEnded' = 1
  /\ UNCHANGED <<phase, tracked, told, nIncoming>>

Next == Create \/ Advance \/ Drop \/ NotifyIncoming \/ NotifyEnded

Spec == Init /\ [][Next]_vars

=============================================================================
