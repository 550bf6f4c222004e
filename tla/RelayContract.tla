---------------------------- MODULE RelayContract ----------------------------
(***************************************************************************)
(* What a CallManager can see of its relay transport, per connection id:    *)
(* the connection the transport has registered, and the calls of            *)
(* onConnected that are under way.  The relay manager implements this, and   *)
(* CallManager is checked and proved against it.                            *)
(*                                                                         *)
(* The transport promises little: a registered connection may be replaced    *)
(* by a newer one, and a connection that is not registered any more may      *)
(* still report that it is open.  It never reports a relay that nobody       *)
(* asked for, and reports each connection that opens while registered.       *)
(***************************************************************************)
CONSTANTS
  Relays   \* connection ids

VARIABLES
  relay,   \* per id: never asked for, connecting, open, or no longer registered
  opening  \* ids with an onConnected call under way

vars == <<relay, opening>>

RelayStates == {"none", "connecting", "open", "lost"}

Init ==
  /\ relay = [r \in Relays |-> "none"]
  /\ opening = {}

(* New connections are registered, in place of older ones if need be.        *)
Connect ==
  /\ \E fresh \in SUBSET Relays :
       relay' = [r \in Relays |-> IF r \in fresh THEN "connecting" ELSE relay[r]]
  /\ UNCHANGED opening

Open(r) ==
  /\ relay[r] = "connecting"
  /\ relay' = [relay EXCEPT ![r] = "open"]
  /\ opening' = opening \cup {r}

(* A connection opens that is not the one registered.                       *)
StrayOpen(r) ==
  /\ relay[r] # "none"
  /\ opening' = opening \cup {r}
  /\ UNCHANGED relay

Lost(r) ==
  /\ relay[r] \in {"connecting", "open"}
  /\ relay' = [relay EXCEPT ![r] = "lost"]
  /\ UNCHANGED opening

(* onConnected is called; another call for the same id may be under way.     *)
Connected(r) ==
  /\ r \in opening
  /\ opening' \in {opening, opening \ {r}}
  /\ UNCHANGED relay

Cleanup ==
  /\ relay' = [r \in Relays |-> IF relay[r] = "none" THEN "none" ELSE "lost"]
  /\ UNCHANGED opening

Next ==
  \/ Connect
  \/ Cleanup
  \/ \E r \in Relays : Open(r) \/ StrayOpen(r) \/ Lost(r) \/ Connected(r)

Spec == Init /\ [][Next]_vars

=============================================================================
