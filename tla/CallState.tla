------------------------------ MODULE CallState ------------------------------
(***************************************************************************)
(* The state of one CallInfo and ApplyTransition, the only function that    *)
(* changes it (internal/voip/call/callstate.go).  A transition is a row of  *)
(* a table: the states it is legal in and the state it leads to.  In any    *)
(* other state ApplyTransition returns InvalidTransition and leaves the     *)
(* call as it was; every caller in the manager either discards that error   *)
(* or only tests it.                                                       *)
(***************************************************************************)

States == {"initiating", "ringing", "incoming_ringing", "connecting",
           "active", "on_hold", "ended"}

Directions == {"outgoing", "incoming"}

(* AcceptedAt is kept as "has been set"; times, mute and video flags, the   *)
(* end reason and the duration are left out.                                *)
CallInfo == [dir : Directions, state : States, accepted : BOOLEAN]

NewOutgoingCall == [dir |-> "outgoing", state |-> "initiating", accepted |-> FALSE]

NewIncomingCall == [dir |-> "incoming", state |-> "incoming_ringing", accepted |-> FALSE]

Transitions == {"offer_sent", "remote_accepted", "local_accepted", "local_rejected",
                "media_connected", "terminated"}

(* The transitions the manager uses; offer_received, remote_rejected, hold,  *)
(* resume and the two mute transitions have no caller outside the tests.     *)
LegalIn(t) ==
  CASE t = "offer_sent"      -> {"initiating"}
    [] t = "remote_accepted" -> {"ringing"}
    [] t = "local_accepted"  -> {"incoming_ringing"}
    [] t = "local_rejected"  -> {"incoming_ringing"}
    [] t = "media_connected" -> {"connecting"}
    [] t = "terminated"      -> States \ {"ended"}

LeadsTo(t) ==
  CASE t = "offer_sent"      -> "ringing"
    [] t = "remote_accepted" -> "connecting"
    [] t = "local_accepted"  -> "connecting"
    [] t = "local_rejected"  -> "ended"
    [] t = "media_connected" -> "active"
    [] t = "terminated"      -> "ended"

Legal(c, t) == c.state \in LegalIn(t)

ApplyTransition(c, t) ==
  IF Legal(c, t)
    THEN [c EXCEPT !.state = LeadsTo(t),
                   !.accepted = @ \/ t \in {"remote_accepted", "local_accepted"}]
    ELSE c

IsEnded(c) == c.state = "ended"

=============================================================================
