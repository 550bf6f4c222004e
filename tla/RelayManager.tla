----------------------------- MODULE RelayManager -----------------------------
(***************************************************************************)
(* transport.SctpRelayManager: the WebRTC connections to WhatsApp's relays   *)
(* (internal/voip/transport/sctprelay.go).                                 *)
(*                                                                         *)
(* The manager's map holds one connection per id, but connections outlive    *)
(* their entry: the goroutine that is still connecting one, its timeout, its *)
(* keepalive, and pion's callbacks hold the connection itself, while          *)
(* OnClose and every delete go by id and may hit a later connection of that   *)
(* id.  A connection is therefore modelled by identity, <<id, n>>, and the    *)
(* map by the set of those registered.                                      *)
(*                                                                         *)
(* Left out: STUN registration and the other packets, the SSRCs and pids,     *)
(* and primaryID, which only chooses among open connections.                *)
(***************************************************************************)
EXTENDS Naturals

CONSTANTS
  Ids,       \* connection ids: ip, port and token id of a relay
  MaxConns   \* connections made per id over the manager's life

ASSUME MaxConnsAssumption == MaxConns \in Nat \ {0}

Conns == Ids \X (1 .. MaxConns)

OfId(i) == {c \in Conns : c[1] = i}

VARIABLES
  registered, \* the connections in m.connections
  step,       \* how far connectToRelay has come with it
  state,      \* conn.state
  stopped,    \* conn.stopCh is closed
  timer,      \* the goroutine that waits for relayConnectionTimeout
  keepalive,  \* the goroutine that pings
  link,       \* the data channel, as pion has it
  onOpen,     \* pion's OnOpen: to run, to call onConnected, or neither
  onClose,    \* pion's OnClose is to run
  onFailed,   \* pion's ICE callback with Failed or Disconnected is to run
  tearing,    \* goroutines about to look at stopCh in teardown
  closing,    \* goroutines that found it open and are about to close it
  crashed     \* close of a closed channel: the process is gone

connVars == <<step, state>>
routineVars == <<timer, keepalive>>
pionVars == <<link, onOpen, onClose, onFailed>>
teardownVars == <<stopped, tearing, closing, crashed>>
vars == <<registered, connVars, routineVars, pionVars, teardownVars>>

Steps == {"unused", "absent", "connecting", "wired", "failed"}

(* The types of the fields; the goroutines in teardown are counted.            *)
TypeOK ==
  /\ registered \in SUBSET Conns
  /\ step \in [Conns -> Steps]
  /\ state \in [Conns -> {"connecting", "open", "closed", "failed"}]
  /\ stopped \in [Conns -> BOOLEAN]
  /\ timer \in [Conns -> BOOLEAN]
  /\ keepalive \in [Conns -> BOOLEAN]
  /\ link \in [Conns -> {"none", "connecting", "open", "closed", "failed"}]
  /\ onOpen \in [Conns -> {"none", "run", "notify"}]
  /\ onClose \in [Conns -> BOOLEAN]
  /\ onFailed \in [Conns -> BOOLEAN]
  /\ tearing \in [Conns -> Nat]
  /\ closing \in [Conns -> Nat]
  /\ crashed \in BOOLEAN

Init ==
  /\ registered = {}
  /\ step = [c \in Conns |-> "unused"]
  /\ state = [c \in Conns |-> "connecting"]
  /\ stopped = [c \in Conns |-> FALSE]
  /\ timer = [c \in Conns |-> FALSE]
  /\ keepalive = [c \in Conns |-> FALSE]
  /\ link = [c \in Conns |-> "none"]
  /\ onOpen = [c \in Conns |-> "none"]
  /\ onClose = [c \in Conns |-> FALSE]
  /\ onFailed = [c \in Conns |-> FALSE]
  /\ tearing = [c \in Conns |-> 0]
  /\ closing = [c \in Conns |-> 0]
  /\ crashed = FALSE

----------------------------------------------------------------------------
(* Pieces that several goroutines run.                                     *)

Registered(i) == registered \cap OfId(i)

(* A panic takes the whole process down.                                    *)
Alive == ~crashed

(* delete(m.connections, id): whichever connection is there now.            *)
Delete(i) == registered' = registered \ OfId(i)

(* Mutant: the entry stays when a connection fails.                         *)
FailConnectionMutant(c) ==
  IF state[c] = "failed"
    THEN UNCHANGED <<registered, state, tearing>>
    ELSE /\ state' = [state EXCEPT ![c] = "failed"]
         /\ tearing' = [tearing EXCEPT ![c] = @ + 1]
         /\ UNCHANGED registered

(* failConnection, up to the teardown it ends with.                         *)
FailConnection(c) ==
  IF state[c] = "failed"
    THEN UNCHANGED <<registered, state, tearing>>
    ELSE /\ state' = [state EXCEPT ![c] = "failed"]
         /\ Delete(c[1])
         /\ tearing' = [tearing EXCEPT ![c] = @ + 1]

(* closeConnection: by id, so it may be a connection the caller never knew.  *)
CloseConnection(i) ==
  /\ state' = [c \in Conns |-> IF c \in Registered(i) THEN "closed" ELSE state[c]]
  /\ tearing' = [c \in Conns |-> IF c \in Registered(i) THEN tearing[c] + 1 ELSE tearing[c]]
  /\ Delete(i)

(* The end of teardown closes the channel and the peer connection, if        *)
(* connectToRelay has made them; a channel that was open reports its close.   *)
CloseLink(c) ==
  IF link[c] \in {"connecting", "open"}
    THEN /\ link' = [link EXCEPT ![c] = "closed"]
         /\ onClose' = [onClose EXCEPT ![c] = link[c] = "open"]
    ELSE UNCHANGED <<link, onClose>>

----------------------------------------------------------------------------
(* ConfigureRelays and connectToRelay.                                     *)

(* The lookup and the registration are two critical sections.               *)
LookUp(c) ==
  /\ Alive
  /\ step[c] = "unused"
  /\ \A d \in OfId(c[1]) : d[2] < c[2] => step[d] # "unused"
  /\ Registered(c[1]) = {}
  /\ step' = [step EXCEPT ![c] = "absent"]
  /\ UNCHANGED <<registered, state, routineVars, pionVars, teardownVars>>

Register(c) ==
  /\ Alive
  /\ step[c] = "absent"
  /\ step' = [step EXCEPT ![c] = "connecting"]
  /\ registered' = (registered \ OfId(c[1])) \cup {c}
  /\ UNCHANGED <<state, routineVars, pionVars, teardownVars>>

(* The peer connection or one of the descriptions is refused.               *)
ConnectFails(c) ==
  /\ Alive
  /\ step[c] = "connecting"
  /\ step' = [step EXCEPT ![c] = "failed"]
  /\ FailConnection(c)
  /\ UNCHANGED <<routineVars, pionVars, stopped, closing, crashed>>

(* Mutant: nobody waits for the connection.                                 *)
WireMutant(c) ==
  /\ Alive
  /\ step[c] = "connecting"
  /\ step' = [step EXCEPT ![c] = "wired"]
  /\ link' = [link EXCEPT ![c] = "connecting"]
  /\ UNCHANGED <<registered, state, timer, keepalive, onOpen, onClose, onFailed, teardownVars>>

(* The channel's callbacks are set, it starts connecting, and so does its     *)
(* timeout.  A teardown that came before found nothing to close.             *)
Wire(c) ==
  /\ Alive
  /\ step[c] = "connecting"
  /\ step' = [step EXCEPT ![c] = "wired"]
  /\ link' = [link EXCEPT ![c] = "connecting"]
  /\ timer' = [timer EXCEPT ![c] = TRUE]
  /\ UNCHANGED <<registered, state, keepalive, onOpen, onClose, onFailed, teardownVars>>

TimerFires(c) ==
  /\ Alive
  /\ timer[c]
  /\ timer' = [timer EXCEPT ![c] = FALSE]
  /\ IF state[c] = "connecting"
       THEN FailConnection(c)
       ELSE UNCHANGED <<registered, state, tearing>>
  /\ UNCHANGED <<step, keepalive, pionVars, stopped, closing, crashed>>

TimerStops(c) ==
  /\ Alive
  /\ timer[c]
  /\ stopped[c]
  /\ timer' = [timer EXCEPT ![c] = FALSE]
  /\ UNCHANGED <<registered, connVars, keepalive, pionVars, teardownVars>>

----------------------------------------------------------------------------
(* pion: what the network does to a connection, and the callbacks.           *)

LinkOpens(c) ==
  /\ Alive
  /\ link[c] = "connecting"
  /\ link' = [link EXCEPT ![c] = "open"]
  /\ onOpen' = [onOpen EXCEPT ![c] = "run"]
  /\ UNCHANGED <<registered, connVars, routineVars, onClose, onFailed, teardownVars>>

LinkCloses(c) ==
  /\ Alive
  /\ link[c] = "open"
  /\ link' = [link EXCEPT ![c] = "closed"]
  /\ onClose' = [onClose EXCEPT ![c] = TRUE]
  /\ UNCHANGED <<registered, connVars, routineVars, onOpen, onFailed, teardownVars>>

LinkFails(c) ==
  /\ Alive
  /\ link[c] \in {"connecting", "open"}
  /\ link' = [link EXCEPT ![c] = "failed"]
  /\ onFailed' = [onFailed EXCEPT ![c] = TRUE]
  /\ UNCHANGED <<registered, connVars, routineVars, onOpen, onClose, teardownVars>>

(* Mutant: the CallManager is not told.                                      *)
OnOpenMutant(c) ==
  /\ Alive
  /\ onOpen[c] = "run"
  /\ onOpen' = [onOpen EXCEPT ![c] = "none"]
  /\ state' = [state EXCEPT ![c] = "open"]
  /\ keepalive' = [keepalive EXCEPT ![c] = TRUE]
  /\ UNCHANGED <<registered, step, timer, link, onClose, onFailed, teardownVars>>

(* Whatever became of the connection since, it counts as open again and gets  *)
(* a keepalive.                                                             *)
OnOpen(c) ==
  /\ Alive
  /\ onOpen[c] = "run"
  /\ onOpen' = [onOpen EXCEPT ![c] = "notify"]
  /\ state' = [state EXCEPT ![c] = "open"]
  /\ keepalive' = [keepalive EXCEPT ![c] = TRUE]
  /\ UNCHANGED <<registered, step, timer, link, onClose, onFailed, teardownVars>>

(* m.onConnected, the CallManager's onRelayConnected.                       *)
OnConnected(c) ==
  /\ Alive
  /\ onOpen[c] = "notify"
  /\ onOpen' = [onOpen EXCEPT ![c] = "none"]
  /\ UNCHANGED <<registered, connVars, routineVars, link, onClose, onFailed, teardownVars>>

OnClose(c) ==
  /\ Alive
  /\ onClose[c]
  /\ onClose' = [onClose EXCEPT ![c] = FALSE]
  /\ CloseConnection(c[1])
  /\ UNCHANGED <<step, routineVars, link, onOpen, onFailed, stopped, closing, crashed>>

(* Mutant: a connection that had opened is given up by its keepalive only.    *)
OnFailedMutant(c) ==
  /\ Alive
  /\ onFailed[c]
  /\ onFailed' = [onFailed EXCEPT ![c] = FALSE]
  /\ IF state[c] = "connecting"
       THEN FailConnection(c)
       ELSE UNCHANGED <<registered, state, tearing>>
  /\ UNCHANGED <<step, routineVars, link, onOpen, onClose, stopped, closing, crashed>>

OnFailed(c) ==
  /\ Alive
  /\ onFailed[c]
  /\ onFailed' = [onFailed EXCEPT ![c] = FALSE]
  /\ FailConnection(c)
  /\ UNCHANGED <<step, routineVars, link, onOpen, onClose, stopped, closing, crashed>>

KeepaliveTick(c) ==
  /\ Alive
  /\ keepalive[c]
  /\ state[c] # "open"
  /\ keepalive' = [keepalive EXCEPT ![c] = FALSE]
  /\ UNCHANGED <<registered, connVars, timer, pionVars, teardownVars>>

(* Mutant: the goroutine looks at the state only.                            *)
KeepaliveStopsMutant(c) == KeepaliveTick(c)

KeepaliveStops(c) ==
  /\ Alive
  /\ keepalive[c]
  /\ stopped[c]
  /\ keepalive' = [keepalive EXCEPT ![c] = FALSE]
  /\ UNCHANGED <<registered, connVars, timer, pionVars, teardownVars>>

----------------------------------------------------------------------------
(* teardown and Cleanup.                                                   *)

(* The select on stopCh, and the close in its default case: no lock is held.  *)
TeardownLooks(c) ==
  /\ Alive
  /\ tearing[c] > 0
  /\ tearing' = [tearing EXCEPT ![c] = @ - 1]
  /\ IF stopped[c]
       THEN CloseLink(c) /\ UNCHANGED closing
       ELSE closing' = [closing EXCEPT ![c] = @ + 1] /\ UNCHANGED <<link, onClose>>
  /\ UNCHANGED <<registered, connVars, routineVars, onOpen, onFailed, stopped, crashed>>

TeardownCloses(c) ==
  /\ Alive
  /\ closing[c] > 0
  /\ closing' = [closing EXCEPT ![c] = @ - 1]
  /\ stopped' = [stopped EXCEPT ![c] = TRUE]
  /\ crashed' = stopped[c]
  /\ CloseLink(c)
  /\ UNCHANGED <<registered, connVars, routineVars, onOpen, onFailed, tearing>>

(* Every registered connection is torn down, but none changes its state.      *)
Cleanup ==
  /\ Alive
  /\ registered # {}
  /\ tearing' = [c \in Conns |-> IF c \in registered THEN tearing[c] + 1 ELSE tearing[c]]
  /\ registered' = {}
  /\ UNCHANGED <<connVars, routineVars, pionVars, stopped, closing, crashed>>

----------------------------------------------------------------------------

(* Goroutines and callbacks that have begun.                                *)
Continue(c) ==
  \/ Register(c)
  \/ ConnectFails(c)
  \/ Wire(c)
  \/ TimerFires(c)
  \/ TimerStops(c)
  \/ OnOpen(c)
  \/ OnConnected(c)
  \/ OnClose(c)
  \/ OnFailed(c)
  \/ KeepaliveTick(c)
  \/ KeepaliveStops(c)
  \/ TeardownLooks(c)
  \/ TeardownCloses(c)

(* The CallManager's calls, and the network.                                *)
Environment ==
  \/ Cleanup
  \/ \E c \in Conns : LookUp(c) \/ LinkOpens(c) \/ LinkCloses(c) \/ LinkFails(c)

Next == Environment \/ \E c \in Conns : Continue(c)

Spec == Init /\ [][Next]_vars

(* The Go scheduler runs the goroutines and callbacks of every connection, and *)
(* the timeout's clock runs; the network and the CallManager owe nothing.  One  *)
(* connection has finitely many such steps, so a single weak fairness condition *)
(* for all steps of a connection starves none of them.                        *)
Fairness == \A c \in Conns : WF_vars(Continue(c))

FairSpec == Spec /\ Fairness

----------------------------------------------------------------------------
(* Properties.                                                             *)

(* A registered connection is alive: it is connecting or open, and no          *)
(* teardown of it has begun, whatever connection of its id failed, closed or    *)
(* opened late.  HasConnection and Broadcast rely on it.                      *)
RegisteredLive ==
  \A c \in registered :
    /\ step[c] \in {"connecting", "wired"}
    /\ state[c] \in {"connecting", "open"}
    /\ ~stopped[c] /\ tearing[c] = 0 /\ closing[c] = 0

(* A registered connection does not keep connecting for ever: it opens, or the *)
(* timeout or a failure takes it out of the map.                             *)
ConnectingResolves ==
  \A c \in Conns :
    (c \in registered /\ state[c] = "connecting")
      ~> (state[c] # "connecting" \/ c \notin registered \/ crashed)

(* A registered connection whose channel is down leaves the map.             *)
DeadLinkUnregistered ==
  \A c \in Conns :
    (c \in registered /\ link[c] \in {"closed", "failed"})
      ~> (c \notin registered \/ crashed)

(* No connection that was stopped pings for ever, not even one whose OnOpen    *)
(* ran after the stop.                                                       *)
KeepaliveEnds ==
  \A c \in Conns : (stopped[c] /\ keepalive[c]) ~> (~keepalive[c] \/ crashed)

EverRegistered(i) == \E c \in OfId(i) : step[c] \notin {"unused", "absent"}

(* What the CallManager sees of a connection id.                              *)
SeenOf(i) ==
  IF \E c \in Registered(i) : state[c] = "open" THEN "open"
  ELSE IF Registered(i) # {} THEN "connecting"
  ELSE IF EverRegistered(i) THEN "lost" ELSE "none"

Contract == INSTANCE RelayContract
              WITH Relays <- Ids,
                   relay <- [i \in Ids |-> SeenOf(i)],
                   opening <- {i \in Ids : \E c \in OfId(i) : onOpen[c] = "notify"}

(* Whatever connections of an id overlap, open late or are closed for another,   *)
(* the CallManager sees RelayContract: what opens was asked for and is reported,  *)
(* what is lost stays lost until it is registered anew.                         *)
ContractSpec == Contract!Spec

----------------------------------------------------------------------------
(* The inductive invariant behind RegisteredLive and ContractSpec.           *)

(* The map has one entry per id.                                            *)
OnePerId == \A c, d \in registered : c[1] = d[1] => c = d

(* Before it is registered, nothing has happened to a connection.            *)
Untouched ==
  \A c \in Conns : step[c] \in {"unused", "absent"} =>
    /\ c \notin registered
    /\ state[c] = "connecting"
    /\ ~stopped[c] /\ tearing[c] = 0 /\ closing[c] = 0
    /\ link[c] = "none" /\ onOpen[c] = "none"
    /\ ~timer[c] /\ ~keepalive[c] /\ ~onClose[c] /\ ~onFailed[c]

(* A connection is open only once its OnOpen has run.                        *)
OpenOnce ==
  \A c \in Conns :
    /\ onOpen[c] = "run" => state[c] # "open"
    /\ link[c] \in {"none", "connecting"} => state[c] # "open" /\ onOpen[c] = "none"
    /\ step[c] = "connecting" => link[c] = "none"

(* What holds in every reachable state and is preserved by every step.          *)
IndInv == TypeOK /\ RegisteredLive /\ OnePerId /\ Untouched /\ OpenOnce

=============================================================================
