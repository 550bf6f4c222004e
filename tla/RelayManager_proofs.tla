------------------------- MODULE RelayManager_proofs -------------------------
(***************************************************************************)
(* Proofs about RelayManager, for any ids and any number of connections,      *)
(* about the order its relays are tried in (RelayOrder), and about the bytes *)
(* that cross a relay: RTP headers (RtpHeader) and the attributes of STUN    *)
(* messages (StunAttribute).                                                 *)
(***************************************************************************)
EXTENDS RelayManager, RelayOrder, RtpHeader, StunAttribute, FiniteSetTheorems,
        FunctionTheorems, SequenceTheorems, TLAPS

(* The initial states satisfy the invariant.                               *)
LEMMA InitInv == Init => IndInv
<1> SUFFICES ASSUME Init PROVE IndInv
  OBVIOUS
<1>1. TypeOK
  <2>1. tearing \in [Conns -> Nat] /\ closing \in [Conns -> Nat]
    BY DEF Init
  <2>2. /\ stopped \in [Conns -> BOOLEAN] /\ timer \in [Conns -> BOOLEAN]
        /\ keepalive \in [Conns -> BOOLEAN] /\ onClose \in [Conns -> BOOLEAN]
        /\ onFailed \in [Conns -> BOOLEAN] /\ crashed \in BOOLEAN
    BY DEF Init
  <2> QED
    BY <2>1, <2>2 DEF Init, TypeOK, Steps
<1>2. RegisteredLive /\ OnePerId /\ Untouched /\ OpenOnce
  BY DEF Init, RegisteredLive, OnePerId, Untouched, OpenOnce
<1> QED
  BY <1>1, <1>2 DEF IndInv

(* A connection belongs to its own id only.                                 *)
LEMMA OfIdFacts ==
  ASSUME NEW c \in Conns
  PROVE  /\ c[1] \in Ids
         /\ c \in OfId(c[1])
         /\ \A i : c \in OfId(i) => c[1] = i
  BY DEF Conns, OfId

(* After failConnection the connection is out of the map, whether or not it    *)
(* had failed before, and no other connection has changed.                   *)
LEMMA FailConnectionFacts ==
  ASSUME IndInv, NEW c \in Conns, FailConnection(c)
  PROVE  /\ registered' \subseteq registered \ {c}
         /\ state' = [state EXCEPT ![c] = "failed"]
         /\ tearing' \in [Conns -> Nat]
         /\ \A d \in Conns \ {c} : tearing'[d] = tearing[d]
<1>1. CASE state[c] = "failed"
  BY <1>1 DEF FailConnection, IndInv, TypeOK, RegisteredLive
<1>2. CASE state[c] # "failed"
  <2>1. tearing' = [tearing EXCEPT ![c] = @ + 1] /\ registered' = registered \ OfId(c[1])
    BY <1>2 DEF FailConnection, Delete
  <2>2. tearing' \in [Conns -> Nat] /\ \A d \in Conns \ {c} : tearing'[d] = tearing[d]
    BY <2>1 DEF IndInv, TypeOK
  <2> QED
    BY <1>2, <2>1, <2>2, OfIdFacts DEF FailConnection
<1> QED
  BY <1>1, <1>2

(* Every step, stuttering included, preserves the invariant.                *)
LEMMA NextInv == IndInv /\ [Next]_vars => IndInv'
<1> SUFFICES ASSUME IndInv, [Next]_vars PROVE IndInv'
  OBVIOUS
<1> USE DEF IndInv, TypeOK, RegisteredLive, OnePerId, Untouched, OpenOnce, Steps,
            connVars, routineVars, pionVars, teardownVars
<1>1. ASSUME NEW c \in Conns, LookUp(c) PROVE IndInv'
  BY <1>1 DEF LookUp
<1>2. ASSUME NEW c \in Conns, Register(c) PROVE IndInv'
  BY <1>2, OfIdFacts DEF Register
<1>3. ASSUME NEW c \in Conns, ConnectFails(c) PROVE IndInv'
  BY <1>3, FailConnectionFacts DEF ConnectFails
<1>4. ASSUME NEW c \in Conns, Wire(c) PROVE IndInv'
  BY <1>4 DEF Wire
<1>5. ASSUME NEW c \in Conns, TimerFires(c) PROVE IndInv'
  <2>1. CASE state[c] = "connecting"
    <3>1. TypeOK'
      BY <1>5, <2>1, FailConnectionFacts DEF TimerFires
    <3>2. (RegisteredLive /\ OnePerId)'
      BY <1>5, <2>1, FailConnectionFacts DEF TimerFires
    <3>3. step[c] \notin {"unused", "absent"}
      BY <1>5 DEF TimerFires
    <3>4. (Untouched /\ OpenOnce)'
      BY <1>5, <2>1, <3>3, FailConnectionFacts DEF TimerFires
    <3> QED
      BY <3>1, <3>2, <3>4
  <2>2. CASE state[c] # "connecting"
    BY <1>5, <2>2 DEF TimerFires
  <2> QED
    BY <2>1, <2>2
<1>6. ASSUME NEW c \in Conns, TimerStops(c) PROVE IndInv'
  BY <1>6 DEF TimerStops
<1>7. ASSUME NEW c \in Conns, LinkOpens(c) PROVE IndInv'
  BY <1>7 DEF LinkOpens
<1>8. ASSUME NEW c \in Conns, LinkCloses(c) PROVE IndInv'
  BY <1>8 DEF LinkCloses
<1>9. ASSUME NEW c \in Conns, LinkFails(c) PROVE IndInv'
  BY <1>9 DEF LinkFails
<1>10. ASSUME NEW c \in Conns, OnOpen(c) PROVE IndInv'
  BY <1>10 DEF OnOpen
<1>11. ASSUME NEW c \in Conns, OnConnected(c) PROVE IndInv'
  BY <1>11 DEF OnConnected
<1>12. ASSUME NEW c \in Conns, OnClose(c) PROVE IndInv'
  BY <1>12, OfIdFacts DEF OnClose, CloseConnection, Delete, Registered
<1>13. ASSUME NEW c \in Conns, OnFailed(c) PROVE IndInv'
  <2>1. TypeOK'
    BY <1>13, FailConnectionFacts DEF OnFailed
  <2>2. (RegisteredLive /\ OnePerId)'
    BY <1>13, FailConnectionFacts DEF OnFailed
  <2>3. step[c] \notin {"unused", "absent"}
    BY <1>13 DEF OnFailed
  <2>4. (Untouched /\ OpenOnce)'
    BY <1>13, <2>3, FailConnectionFacts DEF OnFailed
  <2> QED
    BY <2>1, <2>2, <2>4
<1>14. ASSUME NEW c \in Conns, KeepaliveTick(c) PROVE IndInv'
  BY <1>14 DEF KeepaliveTick
<1>15. ASSUME NEW c \in Conns, KeepaliveStops(c) PROVE IndInv'
  BY <1>15 DEF KeepaliveStops
<1>16. ASSUME NEW c \in Conns, TeardownLooks(c) PROVE IndInv'
  <2>1. tearing' \in [Conns -> Nat] /\ \A d \in Conns \ {c} : tearing'[d] = tearing[d]
    BY <1>16 DEF TeardownLooks
  <2>2. closing' \in [Conns -> Nat] /\ \A d \in Conns \ {c} : closing'[d] = closing[d]
    BY <1>16 DEF TeardownLooks
  <2>3. c \notin registered /\ step[c] \notin {"unused", "absent"}
    BY <1>16 DEF TeardownLooks
  <2>4. TypeOK'
    <3>1. onClose' \in [Conns -> BOOLEAN]
      BY <1>16, Zenon DEF TeardownLooks, CloseLink
    <3>2. link' \in [Conns -> {"none", "connecting", "open", "closed", "failed"}]
      BY <1>16 DEF TeardownLooks, CloseLink
    <3> QED
      BY <1>16, <2>1, <2>2, <3>1, <3>2 DEF TeardownLooks
  <2>5. (RegisteredLive /\ OnePerId)'
    BY <1>16, <2>1, <2>2, <2>3 DEF TeardownLooks
  <2>6. (Untouched /\ OpenOnce)'
    BY <1>16, <2>1, <2>2, <2>3 DEF TeardownLooks, CloseLink
  <2> QED
    BY <2>4, <2>5, <2>6
<1>17. ASSUME NEW c \in Conns, TeardownCloses(c) PROVE IndInv'
  <2>1. closing' \in [Conns -> Nat] /\ \A d \in Conns \ {c} : closing'[d] = closing[d]
    BY <1>17 DEF TeardownCloses
  <2>2. c \notin registered /\ step[c] \notin {"unused", "absent"}
    BY <1>17 DEF TeardownCloses
  <2>3. TypeOK'
    <3>1. onClose' \in [Conns -> BOOLEAN]
      BY <1>17, Zenon DEF TeardownCloses, CloseLink
    <3>2. link' \in [Conns -> {"none", "connecting", "open", "closed", "failed"}]
      BY <1>17 DEF TeardownCloses, CloseLink
    <3>3. stopped' \in [Conns -> BOOLEAN] /\ crashed' \in BOOLEAN
      BY <1>17 DEF TeardownCloses
    <3> QED
      BY <1>17, <2>1, <3>1, <3>2, <3>3 DEF TeardownCloses
  <2>4. (RegisteredLive /\ OnePerId)'
    BY <1>17, <2>1, <2>2 DEF TeardownCloses
  <2>5. (Untouched /\ OpenOnce)'
    BY <1>17, <2>1, <2>2 DEF TeardownCloses, CloseLink
  <2> QED
    BY <2>3, <2>4, <2>5
<1>18. CASE Cleanup
  BY <1>18 DEF Cleanup
<1>19. CASE UNCHANGED vars
  BY <1>19 DEF vars
<1> QED
  BY <1>1, <1>2, <1>3, <1>4, <1>5, <1>6, <1>7, <1>8, <1>9, <1>10, <1>11, <1>12, <1>13,
     <1>14, <1>15, <1>16, <1>17, <1>18, <1>19 DEF Next, Environment, Continue

----------------------------------------------------------------------------
(* Theorems of the specification.                                          *)

(* The invariant holds in every reachable state.                            *)
THEOREM Invariance == Spec => []IndInv
BY InitInv, NextInv, PTL DEF Spec

(* Every variable keeps its type, for any ids and any number of connections.  *)
THEOREM TypeCorrect == Spec => []TypeOK
<1>1. IndInv => TypeOK
  BY DEF IndInv
<1> QED
  BY Invariance, <1>1, PTL

(* Whatever races whatever, a connection in the manager's map is connecting or  *)
(* open and nobody has begun to tear it down.                                 *)
THEOREM RegisteredAreLive == Spec => []RegisteredLive
<1>1. IndInv => RegisteredLive
  BY DEF IndInv
<1> QED
  BY Invariance, <1>1, PTL

----------------------------------------------------------------------------
(* The relay manager implements RelayContract.                              *)

Seen == [i \in Ids |-> SeenOf(i)]

Opening == {i \in Ids : \E c \in OfId(i) : onOpen[c] = "notify"}

(* What an id shows depends on its own connections only.                     *)
LEMMA SeenSame ==
  ASSUME NEW i \in Ids,
         \A d \in OfId(i) :
           /\ d \in registered' <=> d \in registered
           /\ state'[d] = state[d]
           /\ step'[d] \in {"unused", "absent"} <=> step[d] \in {"unused", "absent"}
  PROVE  SeenOf(i)' = SeenOf(i)
<1>1. Registered(i)' = Registered(i)
  BY DEF Registered, OfId
<1>2. EverRegistered(i)' <=> EverRegistered(i)
  BY DEF EverRegistered, OfId
<1>3. (\E c \in Registered(i) : state[c] = "open")' <=> \E c \in Registered(i) : state[c] = "open"
  BY DEF Registered, OfId
<1> QED
  BY <1>1, <1>2, <1>3 DEF SeenOf

(* What an id shows, read off the connection it has registered.              *)
LEMMA SeenFacts ==
  ASSUME IndInv, NEW i \in Ids
  PROVE  /\ \A c \in Registered(i) :
              /\ state[c] = "open" => SeenOf(i) = "open"
              /\ state[c] = "connecting" => SeenOf(i) = "connecting"
         /\ Registered(i) = {} /\ EverRegistered(i) => SeenOf(i) = "lost"
         /\ SeenOf(i) = "none" <=> Registered(i) = {} /\ ~EverRegistered(i)
         /\ Registered(i) # {} => SeenOf(i) \in {"connecting", "open"}
<1>1. \A c, d \in Registered(i) : c = d
  BY DEF Registered, IndInv, OnePerId, OfId
<1> QED
  BY <1>1 DEF SeenOf

(* A connection that left connectToRelay's first section was registered.      *)
LEMMA EverFacts ==
  ASSUME NEW c \in Conns, step[c] \notin {"unused", "absent"}
  PROVE  EverRegistered(c[1])
BY OfIdFacts DEF EverRegistered

(* A step that touches neither the map nor the states nor the calls of          *)
(* onConnected is not seen.                                                   *)
LEMMA Unseen ==
  ASSUME UNCHANGED <<registered, state>>,
         \A d \in Conns : onOpen'[d] = "notify" <=> onOpen[d] = "notify",
         \A d \in Conns : step'[d] \in {"unused", "absent"} <=> step[d] \in {"unused", "absent"}
  PROVE  UNCHANGED <<Seen, Opening>>
<1>1. \A i \in Ids : OfId(i) \subseteq Conns
  BY DEF OfId
<1>2. \A i \in Ids : SeenOf(i)' = SeenOf(i)
  BY <1>1, SeenSame
<1> QED
  BY <1>1, <1>2 DEF Seen, Opening

(* When the entry of an id is deleted, the id shows as lost, or shows nothing    *)
(* new because there was none.                                               *)
LEMMA DeleteIsLost ==
  ASSUME IndInv, IndInv', NEW i \in Ids, EverRegistered(i), Delete(i),
         \A d \in Conns \ OfId(i) : state'[d] = state[d],
         \A d \in Conns : step'[d] \in {"unused", "absent"} <=> step[d] \in {"unused", "absent"},
         UNCHANGED onOpen
  PROVE  Contract!Lost(i) \/ UNCHANGED <<Seen, Opening>>
<1>1. Opening' = Opening
  BY DEF Opening
<1>2. \A j \in Ids \ {i} : SeenOf(j)' = SeenOf(j)
  <2> SUFFICES ASSUME NEW j \in Ids \ {i} PROVE SeenOf(j)' = SeenOf(j)
    OBVIOUS
  <2>1. \A d \in OfId(j) : d \in Conns /\ d \notin OfId(i)
    BY DEF OfId
  <2> QED
    BY <2>1, SeenSame DEF Delete
<1>3. SeenOf(i)' = "lost"
  <2>1. EverRegistered(i)'
    BY DEF EverRegistered, OfId
  <2>2. Registered(i)' = {}
    BY DEF Registered, Delete, OfId
  <2> QED
    BY <2>1, <2>2 DEF SeenOf
<1>4. CASE Registered(i) = {}
  BY <1>1, <1>2, <1>3, <1>4, SeenFacts DEF Seen
<1>5. CASE Registered(i) # {}
  <2>1. Seen' = [Seen EXCEPT ![i] = "lost"]
    BY <1>2, <1>3 DEF Seen
  <2>2. Seen[i] \in {"connecting", "open"}
    BY <1>5, SeenFacts DEF Seen
  <2> QED
    BY <1>1, <2>1, <2>2 DEF Contract!Lost, Seen, Opening
<1> QED
  BY <1>4, <1>5

(* So is failConnection seen, and it happens to registered ids only.          *)
LEMMA FailIsLost ==
  ASSUME IndInv, IndInv', NEW c \in Conns, step[c] \notin {"unused", "absent"},
         FailConnection(c),
         \A d \in Conns : step'[d] \in {"unused", "absent"} <=> step[d] \in {"unused", "absent"},
         UNCHANGED onOpen
  PROVE  (\E i \in Ids : Contract!Lost(i)) \/ UNCHANGED <<Seen, Opening>>
<1>1. CASE state[c] = "failed"
  BY <1>1, Unseen DEF FailConnection
<1>2. CASE state[c] # "failed"
  <2>1. Delete(c[1]) /\ \A d \in Conns \ OfId(c[1]) : state'[d] = state[d]
    BY <1>2, OfIdFacts DEF FailConnection, IndInv, TypeOK
  <2> QED
    BY <2>1, EverFacts, DeleteIsLost, OfIdFacts
<1> QED
  BY <1>1, <1>2

(* The initial states map to the contract's.                                *)
LEMMA InitRefines == Init => Contract!Init
BY DEF Init, Contract!Init, SeenOf, Registered, EverRegistered, OfId

(* Every step is one of the contract's, or is not seen.                      *)
LEMMA NextRefines == IndInv /\ IndInv' /\ [Next]_vars => [Contract!Next]_(Contract!vars)
<1> SUFFICES ASSUME IndInv, IndInv', [Next]_vars PROVE Contract!Next \/ UNCHANGED Contract!vars
  BY DEF Contract!vars
<1> USE DEF connVars, routineVars, pionVars, teardownVars
<1>0. UNCHANGED <<Seen, Opening>> => UNCHANGED Contract!vars
  BY DEF Contract!vars, Seen, Opening
<1>1. (\E i \in Ids : Contract!Lost(i)) => Contract!Next
  BY DEF Contract!Next
<1>2. ASSUME NEW c \in Conns, LookUp(c) PROVE UNCHANGED <<Seen, Opening>>
  BY <1>2, Unseen DEF LookUp, IndInv, TypeOK
<1>3. ASSUME NEW c \in Conns, Register(c) PROVE Contract!Connect
  <2>1. /\ step[c] = "absent" /\ state'[c] = "connecting"
        /\ registered' = (registered \ OfId(c[1])) \cup {c}
        /\ step'[c] = "connecting" /\ UNCHANGED onOpen
        /\ \A d \in Conns \ {c} : state'[d] = state[d] /\ step'[d] = step[d]
    BY <1>3 DEF Register, IndInv, TypeOK, Untouched
  <2>2. \A j \in Ids \ {c[1]} : SeenOf(j)' = SeenOf(j)
    <3> SUFFICES ASSUME NEW j \in Ids \ {c[1]} PROVE SeenOf(j)' = SeenOf(j)
      OBVIOUS
    <3>1. \A d \in OfId(j) : d \in Conns /\ d \notin OfId(c[1]) /\ d # c
      BY DEF OfId
    <3> QED
      BY <2>1, <3>1, SeenSame
  <2>3. Registered(c[1])' = {c}
    BY <2>1, OfIdFacts DEF Registered, OfId
  <2>4. SeenOf(c[1])' = "connecting"
    BY <2>1, <2>3 DEF SeenOf
  <2>5. Seen' = [i \in Ids |-> IF i \in {c[1]} THEN "connecting" ELSE Seen[i]]
    BY <2>2, <2>4 DEF Seen
  <2>6. Opening' = Opening
    BY <2>1 DEF Opening, OfId
  <2>7. {c[1]} \in SUBSET Ids
    BY OfIdFacts
  <2> QED
    BY <2>5, <2>6, <2>7, Zenon DEF Contract!Connect, Seen, Opening
<1>4. ASSUME NEW c \in Conns, ConnectFails(c)
      PROVE  (\E i \in Ids : Contract!Lost(i)) \/ UNCHANGED <<Seen, Opening>>
  BY <1>4, FailIsLost DEF ConnectFails, IndInv, TypeOK
<1>5. ASSUME NEW c \in Conns, Wire(c) PROVE UNCHANGED <<Seen, Opening>>
  BY <1>5, Unseen DEF Wire, IndInv, TypeOK
<1>6. ASSUME NEW c \in Conns, TimerFires(c)
      PROVE  (\E i \in Ids : Contract!Lost(i)) \/ UNCHANGED <<Seen, Opening>>
  <2>1. CASE state[c] = "connecting"
    BY <1>6, <2>1, FailIsLost DEF TimerFires, IndInv, Untouched
  <2>2. CASE state[c] # "connecting"
    BY <1>6, <2>2, Unseen DEF TimerFires
  <2> QED
    BY <2>1, <2>2
<1>7. ASSUME NEW c \in Conns,
             TimerStops(c) \/ LinkCloses(c) \/ LinkFails(c)
               \/ KeepaliveTick(c) \/ KeepaliveStops(c)
      PROVE  UNCHANGED <<Seen, Opening>>
  BY <1>7, Unseen DEF TimerStops, LinkCloses, LinkFails, KeepaliveTick, KeepaliveStops
<1>8. ASSUME NEW c \in Conns, LinkOpens(c) PROVE UNCHANGED <<Seen, Opening>>
  <2>1. \A d \in Conns : onOpen'[d] = "notify" <=> onOpen[d] = "notify"
    BY <1>8 DEF LinkOpens, IndInv, TypeOK, OpenOnce
  <2> QED
    BY <1>8, <2>1, Unseen DEF LinkOpens
<1>9. ASSUME NEW c \in Conns, TeardownLooks(c) \/ TeardownCloses(c)
      PROVE  UNCHANGED <<Seen, Opening>>
  BY <1>9, Unseen DEF TeardownLooks, TeardownCloses
<1>10. ASSUME NEW c \in Conns, OnOpen(c)
       PROVE  Contract!Open(c[1]) \/ Contract!StrayOpen(c[1])
  <2>1. /\ onOpen[c] = "run" /\ state[c] # "open" /\ state'[c] = "open"
        /\ UNCHANGED <<registered, step>> /\ onOpen'[c] = "notify"
        /\ step[c] \notin {"unused", "absent"}
        /\ \A d \in Conns \ {c} : state'[d] = state[d] /\ onOpen'[d] = onOpen[d]
    BY <1>10 DEF OnOpen, IndInv, TypeOK, OpenOnce, Untouched
  <2>2. Opening' = Opening \cup {c[1]}
    BY <2>1, OfIdFacts DEF Opening, OfId
  <2>3. \A j \in Ids \ {c[1]} : SeenOf(j)' = SeenOf(j)
    <3> SUFFICES ASSUME NEW j \in Ids \ {c[1]} PROVE SeenOf(j)' = SeenOf(j)
      OBVIOUS
    <3>1. \A d \in OfId(j) : d \in Conns /\ d # c
      BY DEF OfId
    <3> QED
      BY <2>1, <3>1, SeenSame
  <2>4. CASE c \in registered
    <3>1. c \in Registered(c[1]) /\ c \in Registered(c[1])'
      BY <2>1, <2>4, OfIdFacts DEF Registered, OfId
    <3>2. SeenOf(c[1]) = "connecting" /\ SeenOf(c[1])' = "open"
      <4>1. state[c] = "connecting"
        BY <2>1, <2>4 DEF IndInv, RegisteredLive
      <4>2. SeenOf(c[1]) = "connecting"
        BY <3>1, <4>1, SeenFacts, OfIdFacts
      <4>3. SeenOf(c[1])' = "open"
        BY <2>1, <3>1 DEF SeenOf
      <4> QED
        BY <4>2, <4>3
    <3>3. Seen[c[1]] = "connecting" /\ Seen' = [Seen EXCEPT ![c[1]] = "open"]
      BY <2>3, <3>2, OfIdFacts DEF Seen
    <3> QED
      BY <2>2, <3>3 DEF Contract!Open, Seen, Opening
  <2>5. CASE c \notin registered
    <3>1. SeenOf(c[1])' = SeenOf(c[1])
      <4>1. Registered(c[1])' = Registered(c[1]) /\ c \notin Registered(c[1])
        BY <2>1, <2>5 DEF Registered, OfId
      <4>2. Registered(c[1]) \subseteq Conns
        BY DEF Registered, OfId
      <4>3. EverRegistered(c[1])' <=> EverRegistered(c[1])
        BY <2>1 DEF EverRegistered, OfId
      <4> QED
        BY <2>1, <4>1, <4>2, <4>3 DEF SeenOf
    <3>2. Seen' = Seen
      BY <2>3, <3>1 DEF Seen
    <3>3. Seen[c[1]] # "none"
      BY <2>1, EverFacts, SeenFacts, OfIdFacts DEF Seen
    <3> QED
      BY <2>2, <3>2, <3>3 DEF Contract!StrayOpen, Seen, Opening
  <2> QED
    BY <2>4, <2>5
<1>11. ASSUME NEW c \in Conns, OnConnected(c) PROVE Contract!Connected(c[1])
  <2>1. /\ onOpen[c] = "notify" /\ onOpen'[c] = "none"
        /\ UNCHANGED <<registered, state, step>>
        /\ \A d \in Conns \ {c} : onOpen'[d] = onOpen[d]
    BY <1>11 DEF OnConnected, IndInv, TypeOK
  <2>2. Seen' = Seen
    BY <2>1 DEF Seen, SeenOf, Registered, EverRegistered, OfId
  <2>3. c[1] \in Opening
    BY <2>1, OfIdFacts DEF Opening
  <2>4. \A j \in Ids \ {c[1]} : j \in Opening' <=> j \in Opening
    BY <2>1 DEF Opening, OfId
  <2>5. Opening' \in {Opening, Opening \ {c[1]}}
    BY <2>3, <2>4 DEF Opening
  <2> QED
    BY <2>2, <2>3, <2>5 DEF Contract!Connected, Seen, Opening
<1>12. ASSUME NEW c \in Conns, OnClose(c)
       PROVE  (\E i \in Ids : Contract!Lost(i)) \/ UNCHANGED <<Seen, Opening>>
  <2>1. /\ Delete(c[1]) /\ UNCHANGED <<step, onOpen>>
        /\ \A d \in Conns \ OfId(c[1]) : state'[d] = state[d]
        /\ step[c] \notin {"unused", "absent"}
    BY <1>12 DEF OnClose, CloseConnection, Registered, IndInv, Untouched
  <2> QED
    BY <2>1, EverFacts, DeleteIsLost, OfIdFacts
<1>13. ASSUME NEW c \in Conns, OnFailed(c)
       PROVE  (\E i \in Ids : Contract!Lost(i)) \/ UNCHANGED <<Seen, Opening>>
  BY <1>13, FailIsLost DEF OnFailed, IndInv, Untouched
<1>14. CASE Cleanup
  <2>1. registered' = {} /\ UNCHANGED <<step, state, onOpen>>
    BY <1>14 DEF Cleanup
  <2>2. \A i \in Ids : SeenOf(i)' = IF SeenOf(i) = "none" THEN "none" ELSE "lost"
    <3> SUFFICES ASSUME NEW i \in Ids
                 PROVE  SeenOf(i)' = IF SeenOf(i) = "none" THEN "none" ELSE "lost"
      OBVIOUS
    <3>1. Registered(i)' = {} /\ (EverRegistered(i)' <=> EverRegistered(i))
      BY <2>1 DEF Registered, EverRegistered, OfId
    <3>2. Registered(i) # {} => EverRegistered(i)
      BY DEF Registered, EverRegistered, IndInv, RegisteredLive
    <3> QED
      BY <3>1, <3>2, SeenFacts DEF SeenOf
  <2>3. Opening' = Opening
    BY <2>1 DEF Opening, OfId
  <2>4. Contract!Cleanup
    BY <2>2, <2>3 DEF Contract!Cleanup, Seen, Opening
  <2> QED
    BY <2>4 DEF Contract!Next
<1>15. ASSUME UNCHANGED vars PROVE UNCHANGED <<Seen, Opening>>
  BY <1>15, Unseen DEF vars
<1> QED
  BY <1>0, <1>1, <1>2, <1>3, <1>4, <1>5, <1>6, <1>7, <1>8, <1>9, <1>10, <1>11, <1>12, <1>13,
     <1>14, <1>15, OfIdFacts DEF Next, Environment, Continue, Contract!Next

(* The relay manager implements the transport CallManager is proved against:     *)
(* whatever the timeouts, the keepalives, pion and the CallManager's calls do,   *)
(* it only replaces, opens, loses or cleans up connections as RelayContract says. *)
THEOREM Refinement == Spec => ContractSpec
<1>1. Init => Contract!Init
  BY InitRefines
<1>2. IndInv /\ IndInv' /\ [Next]_vars => [Contract!Next]_(Contract!vars)
  BY NextRefines
<1> QED
  BY <1>1, <1>2, Invariance, PTL DEF Spec, ContractSpec, Contract!Spec

-----------------------------------------------------------------------------
(* The relays a call hands to its transport, in the order RelayOrder puts them.       *)

(* Being ahead is a strict order of all the places of a list.                     *)
LEMMA AheadOrder ==
  ASSUME NEW n \in Nat, NEW relays, \A i \in 1..n : relays[i].rtt \in Int,
         NEW i \in 1..n, NEW j \in 1..n, NEW k \in 1..n
  PROVE  /\ ~Ahead(relays, i, i)
         /\ Ahead(relays, i, j) /\ Ahead(relays, j, k) => Ahead(relays, i, k)
         /\ i # j => Ahead(relays, i, j) \/ Ahead(relays, j, i)
<1>1. PICK x, y, z \in Int : x = relays[i].rtt /\ y = relays[j].rtt /\ z = relays[k].rtt
  OBVIOUS
<1> QED
  BY <1>1 DEF Ahead, Closer, None

(* How many are ahead of a place tells the places apart, and counts below n.          *)
LEMMA RankOrder ==
  ASSUME NEW n \in Nat, NEW relays, DOMAIN relays = 1..n, \A i \in 1..n : relays[i].rtt \in Int
  PROVE  /\ \A i \in 1..n : Cardinality(AheadOf(relays, i)) \in 0..(n - 1)
         /\ \A i, j \in 1..n : Ahead(relays, i, j) =>
              Cardinality(AheadOf(relays, i)) < Cardinality(AheadOf(relays, j))
<1>1. IsFiniteSet(1..n) /\ Cardinality(1..n) = n
  BY FS_Interval
<1>2. ASSUME NEW i \in 1..n
      PROVE  /\ IsFiniteSet(AheadOf(relays, i))
             /\ Cardinality(AheadOf(relays, i)) \in 0..(n - 1)
  <2>1. PICK A : A = AheadOf(relays, i)
    OBVIOUS
  <2>2. A \in SUBSET ((1..n) \ {i})
    BY <2>1, AheadOrder DEF AheadOf
  <2>3. IsFiniteSet((1..n) \ {i}) /\ Cardinality((1..n) \ {i}) = n - 1
    BY <1>1, FS_RemoveElement
  <2>4. IsFiniteSet(A) /\ Cardinality(A) <= n - 1
    BY <2>2, <2>3, FS_Subset
  <2>5. Cardinality(A) \in Nat
    BY <2>4, FS_CardinalityType
  <2> QED
    BY <2>1, <2>4, <2>5
<1>3. ASSUME NEW i \in 1..n, NEW j \in 1..n, Ahead(relays, i, j)
      PROVE  Cardinality(AheadOf(relays, i)) < Cardinality(AheadOf(relays, j))
  <2>1. PICK A, B : A = AheadOf(relays, i) /\ B = AheadOf(relays, j)
    OBVIOUS
  <2>2. A \in SUBSET B
    BY <1>3, <2>1, AheadOrder DEF AheadOf
  <2>3. i \in B /\ i \notin A
    BY <1>3, <2>1, AheadOrder DEF AheadOf
  <2>4. IsFiniteSet(B) /\ Cardinality(A) \in Int /\ Cardinality(B) \in Int
    BY <1>2, <2>1
  <2>5. Cardinality(A) <= Cardinality(B) /\ (Cardinality(B) = Cardinality(A) => B = A)
    BY <2>2, <2>4, FS_Subset
  <2> QED
    BY <2>1, <2>3, <2>4, <2>5
<1> QED
  BY <1>2, <1>3

(* The relays of a call are all there and each once, the closest first, those of      *)
(* unknown distance last, and relays alike in the order they came: sortRelaysByRtt.   *)
THEOREM RelaysSorted ==
  ASSUME NEW R, \A r \in R : r.rtt \in Int, NEW relays \in Seq(R)
  PROVE  LET sorted == SortRelaysByRtt(relays)
             places == 1..Len(relays)
         IN \E p \in Bijection(places, places) :
              /\ sorted = [k \in places |-> relays[p[k]]]
              /\ \A k, l \in places : k < l =>
                   \/ Closer(sorted[k], sorted[l])
                   \/ ~Closer(sorted[l], sorted[k]) /\ p[k] < p[l]
<1>1. PICK n \in Nat : n = Len(relays) /\ DOMAIN relays = 1..n
  OBVIOUS
<1>2. \A i \in 1..n : relays[i].rtt \in Int
  BY <1>1
<1>3. PICK rank : rank = [i \in 1..n |-> Cardinality(AheadOf(relays, i))]
  OBVIOUS
<1>4. /\ rank \in [1..n -> 0..(n - 1)]
      /\ \A i, j \in 1..n : Ahead(relays, i, j) => rank[i] < rank[j]
  BY <1>1, <1>2, <1>3, RankOrder
<1>5. \A i, j \in 1..n : i # j => Ahead(relays, i, j) \/ Ahead(relays, j, i)
  BY <1>2, AheadOrder
<1>6. \A i, j \in 1..n : i # j => rank[i] # rank[j]
  BY <1>4, <1>5
<1>7. \A k \in 1..n : \E i \in 1..n : rank[i] = k - 1
  <2>1. rank \in Injection(1..n, 0..(n - 1))
    BY <1>4, <1>6 DEF Injection, IsInjective
  <2>2. /\ IsFiniteSet(0..(n - 1)) /\ Cardinality(0..(n - 1)) = n
        /\ Cardinality(1..n) = n
    BY FS_Interval
  <2>3. rank \in Surjection(1..n, 0..(n - 1))
    BY <2>1, <2>2, FS_Injection
  <2> QED
    BY <2>3 DEF Surjection
<1>8. PICK p : p = [k \in 1..n |-> Place(relays, k)]
  OBVIOUS
<1>9. \A k \in 1..n : p[k] \in 1..n /\ rank[p[k]] = k - 1
  <2>1. \A k \in 1..n : \E i \in DOMAIN relays : Cardinality(AheadOf(relays, i)) = k - 1
    BY <1>1, <1>3, <1>7
  <2>2. ASSUME NEW k \in 1..n
        PROVE  /\ Place(relays, k) \in DOMAIN relays
               /\ Cardinality(AheadOf(relays, Place(relays, k))) = k - 1
    <3>1. PICK i \in DOMAIN relays : Cardinality(AheadOf(relays, i)) = k - 1
      BY <2>1
    <3> QED
      BY <3>1, Zenon DEF Place
  <2> QED
    BY <1>1, <1>3, <1>8, <2>2
<1>10. p \in Bijection(1..n, 1..n)
  <2>1. p \in [1..n -> 1..n]
    BY <1>8, <1>9
  <2>2. ASSUME NEW k \in 1..n, NEW l \in 1..n, p[k] = p[l] PROVE k = l
    <3>1. k - 1 = l - 1
      BY <1>9, <2>2
    <3> QED
      BY <3>1
  <2>3. \A i \in 1..n : \E k \in 1..n : p[k] = i
    <3>1. SUFFICES ASSUME NEW i \in 1..n PROVE \E k \in 1..n : p[k] = i
      OBVIOUS
    <3>2. rank[i] + 1 \in 1..n /\ (rank[i] + 1) - 1 = rank[i]
      BY <1>4
    <3>3. p[rank[i] + 1] = i
      BY <1>6, <1>9, <3>2
    <3> QED
      BY <3>2, <3>3
  <2> QED
    BY <2>1, <2>2, <2>3 DEF Bijection, Injection, Surjection, IsInjective
<1>11. PICK sorted : sorted = SortRelaysByRtt(relays)
  OBVIOUS
<1>12. sorted = [k \in 1..n |-> relays[p[k]]]
  BY <1>1, <1>8, <1>11 DEF SortRelaysByRtt
<1>13. ASSUME NEW k \in 1..n, NEW l \in 1..n, k < l
       PROVE  \/ Closer(sorted[k], sorted[l])
              \/ ~Closer(sorted[l], sorted[k]) /\ p[k] < p[l]
  <2>1. /\ p[k] \in 1..n /\ p[l] \in 1..n /\ rank[p[k]] = k - 1 /\ rank[p[l]] = l - 1
    BY <1>9
  <2>2. p[k] # p[l] /\ ~(rank[p[l]] < rank[p[k]])
    BY <1>13, <2>1
  <2>3. Ahead(relays, p[k], p[l])
    BY <1>4, <1>5, <2>1, <2>2
  <2>4. sorted[k] = relays[p[k]] /\ sorted[l] = relays[p[l]]
    BY <1>12
  <2> QED
    BY <2>3, <2>4 DEF Ahead
<1> QED
  BY <1>1, <1>10, <1>11, <1>12, <1>13

-----------------------------------------------------------------------------
(***************************************************************************)
(* Proofs about RtpHeader, for every header the code writes and any payload:    *)
(* what is written is read back, part by part, each at the place where the      *)
(* parts before it end.                                                        *)
(***************************************************************************)

(* A sequence holds elements of its set.                                         *)
LEMMA SeqElements ==
  ASSUME NEW S, NEW s \in Seq(S)
  PROVE  Len(s) \in Nat /\ \A i \in 1 .. Len(s) : s[i] \in S
OBVIOUS

(* A number of two bytes, and the bits that share a byte.                        *)
LEMMA SmallModulo ==
  ASSUME NEW q \in Nat, NEW m \in Nat, q < m
  PROVE  q % m = q
BY SMT

LEMMA TwoByteNumber ==
  ASSUME NEW n \in Word
  PROVE  /\ Uint16(n) \in Seq(Byte) /\ Len(Uint16(n)) = 2
         /\ Uint16(n)[1] \in Byte /\ Uint16(n)[2] \in Byte
         /\ 256 * Uint16(n)[1] + Uint16(n)[2] = n
<1>1. PICK q : q = n \div 256
  OBVIOUS
<1>2. PICK r : r = n % 256
  OBVIOUS
<1>3. q \in 0 .. 255 /\ r \in 0 .. 255 /\ 256 * q + r = n
  BY <1>1, <1>2, SMT DEF Word
<1>4. q % 256 = q
  <2>1. q \in Nat /\ q < 256
    BY <1>3
  <2> QED
    BY <2>1, SMT
<1>5. Uint16(n) = <<q, r>>
  BY <1>1, <1>2, <1>4 DEF Uint16
<1> QED
  BY <1>3, <1>5 DEF Byte

LEMMA BitTested ==
  ASSUME NEW p \in BOOLEAN, NEW x, (x = 1) <=> p
  PROVE  (x = 1) = p
OBVIOUS

LEMMA FirstByteBits ==
  ASSUME NEW f \in {0, 32}, NEW g \in {0, 16}, NEW n \in 0 .. 15, NEW b, b = 128 + f + g + n
  PROVE  /\ b \in 0 .. 255 /\ b \div 64 = 2 /\ b % 16 = n
         /\ (((b \div 32) % 2) = 1) <=> (f = 32)
         /\ (((b \div 16) % 2) = 1) <=> (g = 16)
<1>1. CASE f = 0 /\ g = 0
  BY <1>1
<1>2. CASE f = 32 /\ g = 0
  BY <1>2
<1>3. CASE f = 0 /\ g = 16
  BY <1>3
<1>4. CASE f = 32 /\ g = 16
  BY <1>4
<1> QED
  BY <1>1, <1>2, <1>3, <1>4

(* Concatenation, as an operator of its own: the provers take it for a name.        *)
Cat(s, t) == s \o t

LEMMA CatType ==
  ASSUME NEW s \in Seq(Byte), NEW t \in Seq(Byte)
  PROVE  /\ Cat(s, t) \in Seq(Byte) /\ Len(Cat(s, t)) = Len(s) + Len(t)
         /\ Len(s) \in Nat /\ Len(t) \in Nat
BY DEF Cat

LEMMA CatHead ==
  ASSUME NEW s \in Seq(Byte), NEW t \in Seq(Byte)
  PROVE  \A i \in 1 .. Len(s) : Cat(s, t)[i] = s[i]
BY DEF Cat

LEMMA CatTail ==
  ASSUME NEW s \in Seq(Byte), NEW t \in Seq(Byte)
  PROVE  \A i \in 1 .. Len(t) : Cat(s, t)[Len(s) + i] = t[i]
BY DEF Cat

LEMMA CatJoins ==
  ASSUME NEW s \in Seq(Byte), NEW t \in Seq(Byte), NEW u \in Seq(Byte)
  PROVE  Cat(Cat(s, t), u) = Cat(s, Cat(t, u))
BY ConcatAssociative DEF Cat

LEMMA CutAt ==
  ASSUME NEW w \in Seq(Byte), NEW m \in 1 .. (Len(w) + 1), NEW n \in (m - 1) .. Len(w)
  PROVE  /\ SubSeq(w, m, n) \in Seq(Byte) /\ Len(SubSeq(w, m, n)) = n - m + 1
         /\ \A i \in 1 .. (n - m + 1) : SubSeq(w, m, n)[i] = w[m + i - 1]
BY SubSeqProperties

(* A part of a sequence of bytes is found where the parts before it end, whatever *)
(* follows it.                                                                *)
LEMMA PartAt ==
  ASSUME NEW s \in Seq(Byte), NEW t \in Seq(Byte), NEW u \in Seq(Byte)
  PROVE  LET w == Cat(Cat(s, t), u) IN
         /\ w \in Seq(Byte) /\ Len(w) = Len(s) + Len(t) + Len(u)
         /\ Len(s) \in Nat /\ Len(t) \in Nat /\ Len(u) \in Nat
         /\ \A i \in 1 .. Len(t) : w[Len(s) + i] = t[i]
         /\ SubSeq(w, Len(s) + 1, Len(s) + Len(t)) = t
<1>1. PICK v, w : v = Cat(s, t) /\ w = Cat(v, u)
  OBVIOUS
<1>2. v \in Seq(Byte) /\ Len(v) = Len(s) + Len(t) /\ Len(s) \in Nat /\ Len(t) \in Nat
  BY <1>1, CatType
<1>3. w \in Seq(Byte) /\ Len(w) = Len(v) + Len(u) /\ Len(u) \in Nat
  BY <1>1, <1>2, CatType
<1>4. PICK a, b, c : a = Len(s) /\ b = Len(t) /\ c = Len(u)
  OBVIOUS
<1>5. a \in Nat /\ b \in Nat /\ c \in Nat /\ Len(v) = a + b /\ Len(w) = a + b + c
  BY <1>2, <1>3, <1>4, Zenon
<1>6. ASSUME NEW i \in 1 .. b PROVE w[a + i] = t[i]
  <2>1. a + i \in 1 .. a + b
    BY <1>5
  <2>2. v[a + i] = t[i]
    BY <1>1, <1>4, <1>6, CatTail
  <2>3. a + i \in 1 .. Len(v)
    BY <1>5, <2>1, Zenon
  <2>4. w[a + i] = v[a + i]
    BY <1>1, <1>2, <2>3, CatHead
  <2> QED
    BY <2>2, <2>4, Zenon
<1>7. SubSeq(w, a + 1, a + b) = t
  <2>1. PICK m, n, l : m = a + 1 /\ n = a + b /\ l = Len(w)
    OBVIOUS
  <2>2. m \in 1 .. (l + 1) /\ n \in (m - 1) .. l /\ n - m + 1 = b
    BY <1>5, <2>1
  <2>3. PICK z : z = SubSeq(w, m, n)
    OBVIOUS
  <2>4. /\ z \in Seq(Byte) /\ Len(z) = n - m + 1
        /\ \A i \in 1 .. (n - m + 1) : z[i] = w[m + i - 1]
    BY <1>3, <2>1, <2>2, <2>3, CutAt, Zenon
  <2>5. ASSUME NEW i \in 1 .. b PROVE z[i] = t[i]
    <3>1. m + i - 1 = a + i
      BY <1>5, <2>1
    <3> QED
      BY <1>6, <2>2, <2>4, <3>1, Zenon
  <2>6. Len(z) = Len(t) /\ Len(t) = b
    BY <1>4, <2>2, <2>4, Zenon
  <2>7. z = t
    <3>1. \A i \in 1 .. Len(z) : z[i] = t[i]
      BY <2>5, <2>6, Zenon
    <3>2. z \in Seq(Byte) /\ Len(z) = Len(t)
      BY <2>4, <2>6, Zenon
    <3> QED
      BY <3>1, <3>2, SeqEqual
  <2> QED
    BY <2>1, <2>3, <2>7, Zenon
<1> QED
  BY <1>1, <1>3, <1>4, <1>5, <1>6, <1>7, Zenon

LEMMA PartElements ==
  ASSUME NEW s \in Seq(Byte), NEW t \in Seq(Byte), NEW u \in Seq(Byte)
  PROVE  \A i \in 1 .. Len(t) : Cat(Cat(s, t), u)[Len(s) + i] = t[i]
BY PartAt

LEMMA PartCut ==
  ASSUME NEW s \in Seq(Byte), NEW t \in Seq(Byte), NEW u \in Seq(Byte)
  PROVE  SubSeq(Cat(Cat(s, t), u), Len(s) + 1, Len(s) + Len(t)) = t
BY PartAt

(* The sources, one after the other: each has four bytes of its own.               *)
LEMMA CsrcPlaces ==
  ASSUME NEW c \in Seq(Uint32Bytes)
  PROVE  /\ CsrcBytes(c) \in Seq(Byte) /\ Len(CsrcBytes(c)) = 4 * Len(c)
         /\ \A i \in 1 .. Len(c) : \A j \in 1 .. 4 :
              CsrcBytes(c)[4 * (i - 1) + j] = c[i][j]
<1>1. Len(c) \in Nat /\ \A i \in 1 .. Len(c) : c[i] \in Uint32Bytes
  BY SeqElements
<1>2. ASSUME NEW k \in 1 .. 4 * Len(c)
      PROVE  c[((k - 1) \div 4) + 1][((k - 1) % 4) + 1] \in Byte
  <2>1. ((k - 1) \div 4) + 1 \in 1 .. Len(c) /\ ((k - 1) % 4) + 1 \in 1 .. 4
    BY <1>1
  <2>2. PICK i \in 1 .. Len(c), j \in 1 .. 4 :
          i = ((k - 1) \div 4) + 1 /\ j = ((k - 1) % 4) + 1
    BY <2>1
  <2>3. c[i] \in Seq(Byte) /\ Len(c[i]) = 4
    BY <1>1 DEF Uint32Bytes
  <2>4. c[i][j] \in Byte
    BY <2>3, SeqElements
  <2> QED
    BY <2>2, <2>4
<1>3. PICK z, n : z = CsrcBytes(c) /\ n = 4 * Len(c)
  OBVIOUS
<1>4. z \in Seq(Byte) /\ Len(z) = n
  <2>1. n \in Nat
    BY <1>1, <1>3
  <2>2. z \in [1 .. n -> Byte]
    BY <1>2, <1>3, Zenon DEF CsrcBytes
  <2> QED
    BY <2>1, <2>2
<1>5. ASSUME NEW i \in 1 .. Len(c), NEW j \in 1 .. 4
      PROVE  CsrcBytes(c)[4 * (i - 1) + j] = c[i][j]
  <2>1. PICK k : k = 4 * (i - 1) + j
    OBVIOUS
  <2>2. /\ k \in 1 .. 4 * Len(c)
        /\ ((k - 1) \div 4) + 1 = i /\ ((k - 1) % 4) + 1 = j
    BY <1>1, <2>1
  <2>3. CsrcBytes(c)[k] = c[((k - 1) \div 4) + 1][((k - 1) % 4) + 1]
    BY <2>2 DEF CsrcBytes
  <2> QED
    BY <2>1, <2>2, <2>3
<1> QED
  BY <1>3, <1>4, <1>5

(* The parts of a header are sequences of bytes, and as long as they should be.      *)
LEMMA HeaderTyped ==
  ASSUME NEW h \in RtpHeaders
  PROVE  /\ h.padding \in BOOLEAN /\ h.extension \in BOOLEAN /\ h.marker \in BOOLEAN
         /\ h.payloadType \in 0 .. 127 /\ h.seq \in Word /\ h.profile \in Word
         /\ h.timestamp \in Seq(Byte) /\ Len(h.timestamp) = 4
         /\ h.ssrc \in Seq(Byte) /\ Len(h.ssrc) = 4
         /\ h.csrc \in Seq(Uint32Bytes) /\ Len(h.csrc) \in 0 .. 15
         /\ h.extData \in Seq(Byte) /\ Len(h.extData) \in Nat
         /\ Len(h.extData) \div 4 \in Word
         /\ 4 * (Len(h.extData) \div 4) = Len(h.extData)
         /\ ~h.extension => h.profile = 0 /\ h.extData = <<>>
<1>1. /\ h.padding \in BOOLEAN /\ h.extension \in BOOLEAN /\ h.marker \in BOOLEAN
      /\ h.payloadType \in 0 .. 127 /\ h.seq \in Word /\ h.profile \in Word
      /\ h.timestamp \in Uint32Bytes /\ h.ssrc \in Uint32Bytes
      /\ h.csrc \in Seq(Uint32Bytes) /\ h.extData \in Seq(Byte)
  BY Zenon DEF RtpHeaders
<1>2. /\ Len(h.extData) \div 4 \in Word
      /\ ~h.extension => h.profile = 0 /\ h.extData = <<>>
  BY Zenon DEF RtpHeaders
<1>3. Len(h.csrc) \in Nat /\ Len(h.extData) \in Nat
  <2>1. h.csrc \in Seq(Uint32Bytes) /\ h.extData \in Seq(Byte)
    BY <1>1
  <2> QED
    BY <2>1, SeqElements
<1>4. PICK n, k : n = Len(h.extData) /\ k = Len(h.csrc)
  OBVIOUS
<1>5. n \in Nat /\ k \in Nat /\ n % 4 = 0 /\ k <= 15
  <2>1. n % 4 = 0 /\ k <= 15
    BY <1>4, Zenon DEF RtpHeaders
  <2> QED
    BY <1>3, <1>4, <2>1, Zenon
<1>8. 4 * (n \div 4) = n
  BY <1>5
<1>6. \A s \in Uint32Bytes : s \in Seq(Byte) /\ Len(s) = 4
  BY DEF Uint32Bytes
<1>7. k \in 0 .. 15
  BY <1>5
<1> QED
  BY <1>1, <1>2, <1>3, <1>4, <1>6, <1>7, <1>8, Zenon

LEMMA FirstByteRead ==
  ASSUME NEW h \in RtpHeaders
  PROVE  /\ FirstByte(h) \in Byte /\ FirstByte(h) \div 64 = 2
         /\ FirstByte(h) % 16 = Len(h.csrc)
         /\ ((FirstByte(h) \div 32) % 2 = 1) = h.padding
         /\ ((FirstByte(h) \div 16) % 2 = 1) = h.extension
<1>1. PICK f, g, n, b :
        /\ f = Flag(h.padding, 32) /\ g = Flag(h.extension, 16)
        /\ n = Len(h.csrc) /\ b = FirstByte(h)
  OBVIOUS
<1>2. h.padding \in BOOLEAN /\ h.extension \in BOOLEAN /\ n \in 0 .. 15
  BY <1>1, HeaderTyped, Zenon
<1>3. f \in {0, 32} /\ (f = 32 <=> h.padding) /\ g \in {0, 16} /\ (g = 16 <=> h.extension)
  BY <1>1, <1>2 DEF Flag
<1>4. n % 16 = n
  BY <1>2
<1>5. b = 128 + f + g + n
  BY <1>1, <1>4 DEF FirstByte
<1>6. /\ b \in 0 .. 255 /\ b \div 64 = 2 /\ b % 16 = n
      /\ (((b \div 32) % 2) = 1) <=> (f = 32)
      /\ (((b \div 16) % 2) = 1) <=> (g = 16)
  BY <1>2, <1>3, <1>5, FirstByteBits
<1>7. PICK x, y : x = (b \div 32) % 2 /\ y = (b \div 16) % 2
  OBVIOUS
<1>8. (x = 1) = h.padding /\ (y = 1) = h.extension
  BY <1>2, <1>3, <1>6, <1>7, BitTested
<1>9. b \in Byte
  BY <1>6 DEF Byte
<1> QED
  BY <1>1, <1>6, <1>7, <1>8, <1>9

LEMMA SecondByteRead ==
  ASSUME NEW h \in RtpHeaders
  PROVE  /\ SecondByte(h) \in Byte /\ SecondByte(h) % 128 = h.payloadType
         /\ (SecondByte(h) >= 128) = h.marker
<1>1. PICK t, b : t = h.payloadType /\ b = SecondByte(h)
  OBVIOUS
<1>2. h.marker \in BOOLEAN /\ t \in 0 .. 127
  BY <1>1, HeaderTyped, Zenon
<1>3. t % 128 = t
  BY <1>2
<1>4. b = Flag(h.marker, 128) + t
  BY <1>1, <1>3 DEF SecondByte
<1>5. CASE h.marker
  <2>1. b = 128 + t
    BY <1>4, <1>5 DEF Flag
  <2>2. b \in 0 .. 255 /\ b % 128 = t /\ b >= 128
    BY <1>2, <2>1
  <2> QED
    BY <1>1, <1>5, <2>2, Zenon DEF Byte
<1>6. CASE ~h.marker
  BY <1>1, <1>2, <1>4, <1>6 DEF Flag, Byte
<1> QED
  BY <1>2, <1>5, <1>6

LEMMA FourBytes ==
  ASSUME NEW p \in Seq(Byte), NEW l \in Seq(Byte), Len(p) = 2, Len(l) = 2
  PROVE  /\ Cat(p, l) \in Seq(Byte) /\ Len(Cat(p, l)) = 4
         /\ Cat(p, l)[1] = p[1] /\ Cat(p, l)[2] = p[2]
         /\ Cat(p, l)[3] = l[1] /\ Cat(p, l)[4] = l[2]
<1>1. Cat(p, l) \in Seq(Byte) /\ Len(Cat(p, l)) = 2 + 2
  BY CatType
<1>2. \A i \in 1 .. 2 : Cat(p, l)[i] = p[i]
  BY CatHead
<1>3. \A i \in 1 .. 2 : Cat(p, l)[2 + i] = l[i]
  <2>1. \A i \in 1 .. Len(l) : Cat(p, l)[Len(p) + i] = l[i]
    BY CatTail
  <2> QED
    BY <2>1, Zenon
<1>4. 1 \in 1 .. 2 /\ 2 \in 1 .. 2 /\ 2 + 1 = 3 /\ 2 + 2 = 4
  OBVIOUS
<1> QED
  BY <1>1, <1>2, <1>3, <1>4, Zenon

LEMMA FirstFour ==
  ASSUME NEW q \in Seq(Byte), NEW d \in Seq(Byte), Len(q) = 4
  PROVE  /\ Cat(q, d) \in Seq(Byte) /\ Len(Cat(q, d)) = 4 + Len(d) /\ Len(d) \in Nat
         /\ Cat(q, d)[1] = q[1] /\ Cat(q, d)[2] = q[2]
         /\ Cat(q, d)[3] = q[3] /\ Cat(q, d)[4] = q[4]
<1>1. /\ Cat(q, d) \in Seq(Byte) /\ Len(Cat(q, d)) = 4 + Len(d) /\ Len(d) \in Nat
  BY CatType
<1>2. \A i \in 1 .. 4 : Cat(q, d)[i] = q[i]
  BY CatHead
<1>3. 1 \in 1 .. 4 /\ 2 \in 1 .. 4 /\ 3 \in 1 .. 4 /\ 4 \in 1 .. 4
  OBVIOUS
<1> QED
  BY <1>1, <1>2, <1>3, Zenon

(* The extension, behind x and before u: its profile, its length and its data.        *)
LEMMA ExtensionPlaces ==
  ASSUME NEW h \in RtpHeaders, h.extension, NEW x \in Seq(Byte), NEW u \in Seq(Byte)
  PROVE  LET w == Cat(Cat(x, ExtensionBytes(h)), u) IN
         /\ ExtensionBytes(h) \in Seq(Byte)
         /\ Len(ExtensionBytes(h)) = 4 + Len(h.extData)
         /\ ReadUint16(w, Len(x) + 1) = h.profile
         /\ 4 * ReadUint16(w, Len(x) + 3) = Len(h.extData)
         /\ SubSeq(w, Len(x) + 5, Len(x) + 4 + Len(h.extData)) = h.extData
<1>1. PICK p, l, d, n, q, e, w, a, m :
        /\ p = Uint16(h.profile) /\ l = Uint16(n \div 4) /\ d = h.extData /\ n = Len(d)
        /\ q = Cat(p, l) /\ e = Cat(q, d) /\ w = Cat(Cat(x, e), u)
        /\ a = Len(x) /\ m = Len(e)
  OBVIOUS
<1>2. h.profile \in Word /\ n \div 4 \in Word /\ d \in Seq(Byte) /\ 4 * (n \div 4) = n
  BY <1>1, HeaderTyped, Zenon
<1>3. p \in Seq(Byte) /\ Len(p) = 2 /\ 256 * p[1] + p[2] = h.profile
  BY <1>1, <1>2, TwoByteNumber, Zenon
<1>4. l \in Seq(Byte) /\ Len(l) = 2 /\ 256 * l[1] + l[2] = n \div 4
  BY <1>1, <1>2, TwoByteNumber, Zenon
<1>5. e = ExtensionBytes(h)
  BY <1>1, Zenon DEF ExtensionBytes, Cat
<1>6. /\ q \in Seq(Byte) /\ Len(q) = 4
      /\ q[1] = p[1] /\ q[2] = p[2] /\ q[3] = l[1] /\ q[4] = l[2]
  <2>1. p \in Seq(Byte) /\ l \in Seq(Byte) /\ Len(p) = 2 /\ Len(l) = 2
    BY <1>3, <1>4
  <2>2. /\ Cat(p, l) \in Seq(Byte) /\ Len(Cat(p, l)) = 4
        /\ Cat(p, l)[1] = p[1] /\ Cat(p, l)[2] = p[2]
        /\ Cat(p, l)[3] = l[1] /\ Cat(p, l)[4] = l[2]
    BY <2>1, FourBytes
  <2> QED
    BY <1>1, <2>2, Zenon
<1>7. /\ e \in Seq(Byte) /\ m = 4 + n /\ n \in Nat
      /\ e[1] = q[1] /\ e[2] = q[2] /\ e[3] = q[3] /\ e[4] = q[4]
  BY <1>1, <1>2, <1>6, FirstFour, Zenon
<1>8. (\A i \in 1 .. m : w[a + i] = e[i]) /\ a \in Nat
  <2>1. e \in Seq(Byte)
    BY <1>7
  <2>2. \A i \in 1 .. Len(e) : Cat(Cat(x, e), u)[Len(x) + i] = e[i]
    BY <2>1, PartElements
  <2>3. Len(x) \in Nat
    OBVIOUS
  <2> QED
    BY <2>2, <2>3, <1>1, Zenon
<1>9. 1 \in 1 .. m /\ 2 \in 1 .. m /\ 3 \in 1 .. m /\ 4 \in 1 .. m
  BY <1>7
<1>10. w[a + 1] = p[1] /\ w[a + 2] = p[2] /\ w[a + 3] = l[1] /\ w[a + 4] = l[2]
  BY <1>6, <1>7, <1>8, <1>9, Zenon
<1>11. PICK y, b : y = Cat(x, q) /\ b = Len(y)
  OBVIOUS
<1>12. q \in Seq(Byte) /\ y \in Seq(Byte) /\ b = a + 4
  <2>1. q \in Seq(Byte)
    BY <1>6
  <2>2. Cat(x, q) \in Seq(Byte) /\ Len(Cat(x, q)) = Len(x) + Len(q)
    BY <2>1, CatType
  <2> QED
    BY <1>1, <1>6, <1>11, <2>1, <2>2, Zenon
<1>13. SubSeq(w, b + 1, b + n) = d
  <2>1. Cat(x, e) = Cat(y, d)
    BY <1>1, <1>2, <1>11, <1>12, CatJoins
  <2>2. w = Cat(Cat(y, d), u)
    BY <1>1, <2>1, Zenon
  <2>3. SubSeq(Cat(Cat(y, d), u), Len(y) + 1, Len(y) + Len(d)) = d
    BY <1>2, <1>12, PartCut
  <2> QED
    BY <1>1, <1>11, <2>2, <2>3, Zenon
<1>14. b + 1 = a + 5 /\ b + n = a + 4 + n
  BY <1>7, <1>8, <1>12
<1>15. (a + 1) + 1 = a + 2 /\ (a + 3) + 1 = a + 4
  BY <1>8
<1>16. ReadUint16(w, a + 1) = h.profile /\ ReadUint16(w, a + 3) = n \div 4
  <2>1. ReadUint16(w, a + 1) = 256 * w[a + 1] + w[a + 2]
    BY <1>15, Zenon DEF ReadUint16
  <2>2. ReadUint16(w, a + 3) = 256 * w[a + 3] + w[a + 4]
    BY <1>15, Zenon DEF ReadUint16
  <2> QED
    BY <1>3, <1>4, <1>10, <2>1, <2>2
<1>17. w = Cat(Cat(x, ExtensionBytes(h)), u)
  BY <1>1, <1>5, Zenon
<1> QED
  BY <1>1, <1>2, <1>5, <1>7, <1>13, <1>14, <1>16, <1>17, Zenon

LEMMA ExtensionTyped ==
  ASSUME NEW h \in RtpHeaders
  PROVE  /\ ExtensionBytes(h) \in Seq(Byte)
         /\ Len(ExtensionBytes(h)) = IF h.extension THEN 4 + Len(h.extData) ELSE 0
<1>1. CASE h.extension
  <2>1. <<>> \in Seq(Byte)
    OBVIOUS
  <2> QED
    BY <1>1, <2>1, ExtensionPlaces
<1>2. CASE ~h.extension
  BY <1>2 DEF ExtensionBytes
<1> QED
  BY <1>1, <1>2

(* Where a packet holds the parts of its header, and how long they are.            *)
LEMMA HeaderPlaces ==
  ASSUME NEW h \in RtpHeaders, NEW payload \in Seq(Byte)
  PROVE  LET w == EncodeRtpHeader(h) \o payload
             k == Len(h.csrc)
         IN  /\ w \in Seq(Byte) /\ Len(EncodeRtpHeader(h)) = HeaderSize(h)
             /\ EncodeRtpHeader(h) \in Seq(Byte)
             /\ w[1] = FirstByte(h) /\ w[2] = SecondByte(h)
             /\ ReadUint16(w, 3) = h.seq
             /\ SubSeq(w, 5, 8) = h.timestamp /\ SubSeq(w, 9, 12) = h.ssrc
             /\ \A i \in 1 .. 4 * k : w[12 + i] = CsrcBytes(h.csrc)[i]
             /\ h.extension =>
                  /\ ReadUint16(w, 12 + 4 * k + 1) = h.profile
                  /\ 4 * ReadUint16(w, 12 + 4 * k + 3) = Len(h.extData)
                  /\ SubSeq(w, 12 + 4 * k + 5, 12 + 4 * k + 4 + Len(h.extData)) = h.extData
<1>1. PICK a, s, t, r, c, e, k :
        /\ a = <<FirstByte(h), SecondByte(h)>>
        /\ s = Uint16(h.seq) /\ t = h.timestamp /\ r = h.ssrc /\ c = CsrcBytes(h.csrc)
        /\ e = ExtensionBytes(h) /\ k = Len(h.csrc)
  OBVIOUS
<1>2. /\ t \in Seq(Byte) /\ Len(t) = 4 /\ r \in Seq(Byte) /\ Len(r) = 4
      /\ c \in Seq(Byte) /\ Len(c) = 4 * k /\ k \in Nat
  <2>1. t \in Seq(Byte) /\ Len(t) = 4 /\ r \in Seq(Byte) /\ Len(r) = 4
    BY <1>1, HeaderTyped, Zenon
  <2>2. h.csrc \in Seq(Uint32Bytes) /\ k \in 0 .. 15
    BY <1>1, HeaderTyped, Zenon
  <2>3. c \in Seq(Byte) /\ Len(c) = 4 * k
    BY <1>1, <2>2, CsrcPlaces, Zenon
  <2> QED
    BY <2>1, <2>2, <2>3
<1>3. e \in Seq(Byte) /\ Len(e) = IF h.extension THEN 4 + Len(h.extData) ELSE 0
  BY <1>1, ExtensionTyped, Zenon
<1>4. s \in Seq(Byte) /\ Len(s) = 2 /\ 256 * s[1] + s[2] = h.seq
  <2>1. h.seq \in Word
    BY HeaderTyped, Zenon
  <2> QED
    BY <1>1, <2>1, TwoByteNumber, Zenon
<1>5. /\ a \in Seq(Byte) /\ Len(a) = 2 /\ a[1] = FirstByte(h) /\ a[2] = SecondByte(h)
  <2>1. FirstByte(h) \in Byte /\ SecondByte(h) \in Byte
    BY FirstByteRead, SecondByteRead, Zenon
  <2> QED
    BY <1>1, <2>1
<1>6. PICK x2, x3, x4, x5, x6, w :
        /\ x2 = Cat(a, s) /\ x3 = Cat(x2, t) /\ x4 = Cat(x3, r) /\ x5 = Cat(x4, c)
        /\ x6 = Cat(x5, e) /\ w = Cat(x6, payload)
  OBVIOUS
<1>7. EncodeRtpHeader(h) = x6 /\ EncodeRtpHeader(h) \o payload = w
  BY <1>1, <1>6, Zenon DEF EncodeRtpHeader, Cat
<1>8. PICK l : l = Len(e)
  OBVIOUS
<1>9. /\ x2 \in Seq(Byte) /\ Len(x2) = 4
      /\ x2[1] = a[1] /\ x2[2] = a[2] /\ x2[3] = s[1] /\ x2[4] = s[2]
  BY <1>4, <1>5, <1>6, FourBytes, Zenon
<1>10. x3 \in Seq(Byte) /\ Len(x3) = 8
  <2>1. x3 \in Seq(Byte) /\ Len(x3) = Len(x2) + Len(t)
    BY <1>2, <1>6, <1>9, CatType
  <2> QED
    BY <1>2, <1>9, <2>1
<1>11. x4 \in Seq(Byte) /\ Len(x4) = 12
  <2>1. x4 \in Seq(Byte) /\ Len(x4) = Len(x3) + Len(r)
    BY <1>2, <1>6, <1>10, CatType
  <2> QED
    BY <1>2, <1>10, <2>1
<1>12. x5 \in Seq(Byte) /\ Len(x5) = 12 + 4 * k
  <2>1. x5 \in Seq(Byte) /\ Len(x5) = Len(x4) + Len(c)
    BY <1>2, <1>6, <1>11, CatType
  <2> QED
    BY <1>2, <1>11, <2>1
<1>13. x6 \in Seq(Byte) /\ Len(x6) = 12 + 4 * k + Len(e)
  <2>1. x6 \in Seq(Byte) /\ Len(x6) = Len(x5) + Len(e)
    BY <1>3, <1>6, <1>12, CatType
  <2> QED
    BY <1>12, <2>1, Zenon
<1>14. PICK u5, u4, u3, u2 :
         /\ u5 = Cat(e, payload) /\ u4 = Cat(c, u5) /\ u3 = Cat(r, u4) /\ u2 = Cat(t, u3)
  OBVIOUS
<1>15. u5 \in Seq(Byte) /\ u4 \in Seq(Byte) /\ u3 \in Seq(Byte) /\ u2 \in Seq(Byte)
  BY <1>2, <1>3, <1>14, CatType
<1>16. w \in Seq(Byte)
  BY <1>6, <1>13, CatType
<1>17. w = Cat(x5, u5)
  BY <1>3, <1>6, <1>12, <1>14, CatJoins
<1>18. w = Cat(x4, u4)
  BY <1>2, <1>6, <1>11, <1>14, <1>15, <1>17, CatJoins
<1>19. w = Cat(x3, u3)
  BY <1>2, <1>6, <1>10, <1>14, <1>15, <1>18, CatJoins
<1>20. w = Cat(x2, u2)
  BY <1>2, <1>6, <1>9, <1>14, <1>15, <1>19, CatJoins
<1>21. w[1] = a[1] /\ w[2] = a[2] /\ ReadUint16(w, 3) = h.seq
  <2>1. w[1] = x2[1] /\ w[2] = x2[2] /\ w[3] = x2[3] /\ w[4] = x2[4]
    BY <1>9, <1>15, <1>20, FirstFour, Zenon
  <2>2. ReadUint16(w, 3) = 256 * w[3] + w[4]
    BY DEF ReadUint16
  <2> QED
    BY <1>4, <1>9, <2>1, <2>2, Zenon
<1>22. SubSeq(w, 5, 8) = t
  <2>1. w = Cat(Cat(x2, t), u3)
    BY <1>6, <1>19, Zenon
  <2>2. SubSeq(w, Len(x2) + 1, Len(x2) + Len(t)) = t
    BY <1>2, <1>9, <1>15, <2>1, PartCut
  <2>3. Len(x2) + 1 = 5 /\ Len(x2) + Len(t) = 8
    BY <1>2, <1>9
  <2> QED
    BY <2>2, <2>3, Zenon
<1>23. SubSeq(w, 9, 12) = r
  <2>1. w = Cat(Cat(x3, r), u4)
    BY <1>6, <1>18, Zenon
  <2>2. SubSeq(w, Len(x3) + 1, Len(x3) + Len(r)) = r
    BY <1>2, <1>10, <1>15, <2>1, PartCut
  <2>3. Len(x3) + 1 = 9 /\ Len(x3) + Len(r) = 12
    BY <1>2, <1>10
  <2> QED
    BY <2>2, <2>3, Zenon
<1>24. \A i \in 1 .. 4 * k : w[12 + i] = c[i]
  <2>1. w = Cat(Cat(x4, c), u5)
    BY <1>6, <1>17, Zenon
  <2>3. x4 \in Seq(Byte) /\ c \in Seq(Byte) /\ u5 \in Seq(Byte)
    BY <1>2, <1>11, <1>15
  <2>2. \A i \in 1 .. Len(c) : w[Len(x4) + i] = c[i]
    BY <2>1, <2>3, PartElements
  <2> QED
    BY <1>2, <1>11, <2>2, Zenon
<1>25. h.extension =>
         /\ ReadUint16(w, 12 + 4 * k + 1) = h.profile
         /\ 4 * ReadUint16(w, 12 + 4 * k + 3) = Len(h.extData)
         /\ SubSeq(w, 12 + 4 * k + 5, 12 + 4 * k + 4 + Len(h.extData)) = h.extData
  <2>1. HAVE h.extension
  <2>2. w = Cat(Cat(x5, ExtensionBytes(h)), payload)
    BY <1>1, <1>6, Zenon
  <2>3. /\ ReadUint16(w, Len(x5) + 1) = h.profile
        /\ 4 * ReadUint16(w, Len(x5) + 3) = Len(h.extData)
        /\ SubSeq(w, Len(x5) + 5, Len(x5) + 4 + Len(h.extData)) = h.extData
    <3>1. LET v == Cat(Cat(x5, ExtensionBytes(h)), payload) IN
          /\ ReadUint16(v, Len(x5) + 1) = h.profile
          /\ 4 * ReadUint16(v, Len(x5) + 3) = Len(h.extData)
          /\ SubSeq(v, Len(x5) + 5, Len(x5) + 4 + Len(h.extData)) = h.extData
      BY <1>12, <2>1, ExtensionPlaces, Zenon
    <3> QED
      BY <2>2, <3>1, Zenon
  <2> QED
    BY <1>12, <2>3, Zenon
<1>26. Len(x6) = HeaderSize(h)
  <2>1. HeaderSize(h) = 12 + 4 * k + Len(e)
    BY <1>1, <1>3, Zenon DEF HeaderSize
  <2> QED
    BY <1>13, <2>1, Zenon
<1> QED
  BY <1>1, <1>5, <1>7, <1>13, <1>16, <1>21, <1>22, <1>23, <1>24, <1>25, <1>26, Zenon

LEMMA HeaderLength ==
  ASSUME NEW h \in RtpHeaders, NEW payload \in Seq(Byte)
  PROVE  LET w == EncodeRtpHeader(h) \o payload IN
         /\ Len(w) >= 12 + 4 * Len(h.csrc) /\ Len(w) \in Nat
         /\ h.extension => Len(w) >= 12 + 4 * Len(h.csrc) + 4 + Len(h.extData)
         /\ Len(w) = HeaderSize(h) + Len(payload)
         /\ HeaderSize(h) \in Nat
         /\ SubSeq(w, HeaderSize(h) + 1, Len(w)) = payload
<1>1. PICK x, w, k, n, l, s :
        /\ x = EncodeRtpHeader(h) /\ w = Cat(x, payload) /\ k = Len(h.csrc)
        /\ n = Len(h.extData) /\ l = Len(payload) /\ s = HeaderSize(h)
  OBVIOUS
<1>2. k \in Nat /\ n \in Nat
  <2>1. k \in 0 .. 15 /\ n \in Nat
    BY <1>1, HeaderTyped, Zenon
  <2> QED
    BY <2>1
<1>3. x \in Seq(Byte) /\ Len(x) = s
  BY <1>1, HeaderPlaces, Zenon
<1>4. s = 12 + 4 * k + (IF h.extension THEN 4 + n ELSE 0)
  BY <1>1 DEF HeaderSize
<1>5. s \in Nat /\ s >= 12 + 4 * k /\ (h.extension => s = 12 + 4 * k + 4 + n)
  BY <1>2, <1>4
<1>6. w \in Seq(Byte) /\ Len(w) = s + l /\ l \in Nat
  <2>1. Cat(x, payload) \in Seq(Byte) /\ Len(Cat(x, payload)) = Len(x) + Len(payload)
        /\ Len(payload) \in Nat
    BY <1>3, CatType
  <2> QED
    BY <1>1, <1>3, <2>1, Zenon
<1>7. PICK v : v = Len(w)
  OBVIOUS
<1>8. v \in Nat /\ v >= 12 + 4 * k /\ (h.extension => v >= 12 + 4 * k + 4 + n)
  <2>1. v = s + l /\ l \in Nat
    BY <1>6, <1>7, Zenon
  <2> QED
    BY <1>2, <1>5, <2>1
<1>9. SubSeq(w, s + 1, v) = payload
  <2>1. PICK e : e = <<>>
    OBVIOUS
  <2>2. e \in Seq(Byte) /\ Cat(w, e) = w
    <3>1. e \in Seq(Byte)
      BY <2>1
    <3>2. \A z \in Seq(Byte) : Cat(z, e) = z
      BY <2>1 DEF Cat
    <3> QED
      BY <1>6, <3>1, <3>2, Zenon
  <2>3. SubSeq(Cat(Cat(x, payload), e), Len(x) + 1, Len(x) + Len(payload)) = payload
    BY <1>3, <2>2, PartCut
  <2> QED
    BY <1>1, <1>3, <1>6, <1>7, <2>2, <2>3, Zenon
<1>10. EncodeRtpHeader(h) \o payload = w
  BY <1>1 DEF Cat
<1> QED
  BY <1>1, <1>5, <1>6, <1>7, <1>8, <1>9, <1>10, Zenon

(* The sources as they are read.                                               *)
LEMMA SourcesRead ==
  ASSUME NEW h \in RtpHeaders, NEW payload \in Seq(Byte)
  PROVE  LET w == EncodeRtpHeader(h) \o payload IN
         [i \in 1 .. Len(h.csrc) |-> SubSeq(w, 9 + 4 * i, 12 + 4 * i)] = h.csrc
<1>1. PICK w, k, c, b : /\ w = EncodeRtpHeader(h) \o payload /\ c = h.csrc /\ k = Len(c)
                        /\ b = CsrcBytes(c)
  OBVIOUS
<1>2. /\ w \in Seq(Byte) /\ \A i \in 1 .. 4 * k : w[12 + i] = b[i]
  BY <1>1, HeaderPlaces, Zenon
<1>3. c \in Seq(Uint32Bytes) /\ k \in Nat
  <2>1. c \in Seq(Uint32Bytes)
    BY <1>1, HeaderTyped, Zenon
  <2> QED
    BY <1>1, <2>1, SeqElements
<1>4. /\ \A i \in 1 .. k : \A j \in 1 .. 4 : b[4 * (i - 1) + j] = c[i][j]
  BY <1>1, <1>3, CsrcPlaces, Zenon
<1>5. PICK n : n = Len(w)
  OBVIOUS
<1>6. n \in Nat /\ n >= 12 + 4 * k
  BY <1>1, <1>5, HeaderLength, Zenon
<1>7. ASSUME NEW i \in 1 .. k PROVE SubSeq(w, 9 + 4 * i, 12 + 4 * i) = c[i]
  <2>1. PICK f, t, z : f = 9 + 4 * i /\ t = 12 + 4 * i /\ z = SubSeq(w, f, t)
    OBVIOUS
  <2>2. f \in 1 .. (n + 1) /\ t \in (f - 1) .. n /\ t - f + 1 = 4
    BY <1>3, <1>6, <2>1
  <2>3. z \in Seq(Byte) /\ Len(z) = t - f + 1
        /\ \A j \in 1 .. (t - f + 1) : z[j] = w[f + j - 1]
    BY <1>2, <1>5, <2>1, <2>2, CutAt, Zenon
  <2>4. c[i] \in Seq(Byte) /\ Len(c[i]) = 4
    <3>1. c[i] \in Uint32Bytes
      BY <1>1, <1>3, SeqElements
    <3> QED
      BY <3>1 DEF Uint32Bytes
  <2>5. ASSUME NEW j \in 1 .. 4 PROVE z[j] = c[i][j]
    <3>1. PICK m : m = 4 * (i - 1) + j
      OBVIOUS
    <3>2. m \in 1 .. 4 * k /\ f + j - 1 = 12 + m
      BY <1>3, <2>1, <3>1
    <3>3. z[j] = w[12 + m]
      BY <2>2, <2>3, <3>2, Zenon
    <3> QED
      BY <1>2, <1>4, <3>1, <3>2, <3>3, Zenon
  <2>6. PICK y : y = c[i]
    OBVIOUS
  <2>7. y \in Seq(Byte) /\ z \in Seq(Byte) /\ Len(z) = Len(y) /\ \A j \in 1 .. Len(z) : z[j] = y[j]
    BY <2>2, <2>3, <2>4, <2>5, <2>6, Zenon
  <2>8. z = y
    BY <2>7, SeqEqual
  <2> QED
    BY <2>1, <2>6, <2>8, Zenon
<1>8. c = [i \in 1 .. k |-> c[i]]
  BY <1>1, <1>3
<1>9. [i \in 1 .. k |-> SubSeq(w, 9 + 4 * i, 12 + 4 * i)] = [i \in 1 .. k |-> c[i]]
  BY <1>7, Zenon
<1> QED
  BY <1>1, <1>8, <1>9, Zenon

(* What DecodeRtpPacket (media/rtp.go) makes of the bytes Encode writes for a header *)
(* and a payload is that header, part by part, of the size it was written with, and    *)
(* that payload: for any flags, numbers, sources, extension and payload.            *)
THEOREM HeaderReadBack ==
  ASSUME NEW h \in RtpHeaders, NEW payload \in Seq(Byte)
  PROVE  LET w == EncodeRtpHeader(h) \o payload
             d == DecodeRtpHeader(w)
         IN  /\ d = [ok |-> TRUE, padding |-> h.padding, extension |-> h.extension,
                     marker |-> h.marker, payloadType |-> h.payloadType, seq |-> h.seq,
                     timestamp |-> h.timestamp, ssrc |-> h.ssrc, csrc |-> h.csrc,
                     profile |-> h.profile, extData |-> h.extData]
             /\ HeaderSize(d) = HeaderSize(h) /\ Len(EncodeRtpHeader(h)) = HeaderSize(h)
             /\ SubSeq(w, HeaderSize(d) + 1, Len(w)) = payload
<1>1. PICK w, k : w = EncodeRtpHeader(h) \o payload /\ k = Len(h.csrc)
  OBVIOUS
<1>2. /\ w[1] = FirstByte(h) /\ w[2] = SecondByte(h) /\ ReadUint16(w, 3) = h.seq
      /\ SubSeq(w, 5, 8) = h.timestamp /\ SubSeq(w, 9, 12) = h.ssrc
      /\ Len(EncodeRtpHeader(h)) = HeaderSize(h)
  BY <1>1, HeaderPlaces, Zenon
<1>3. h.extension =>
        /\ ReadUint16(w, 12 + 4 * k + 1) = h.profile
        /\ 4 * ReadUint16(w, 12 + 4 * k + 3) = Len(h.extData)
        /\ SubSeq(w, 12 + 4 * k + 5, 12 + 4 * k + 4 + Len(h.extData)) = h.extData
  BY <1>1, HeaderPlaces, Zenon
<1>4. /\ Len(w) >= 12 + 4 * k /\ Len(w) \in Nat
      /\ h.extension => Len(w) >= 12 + 4 * k + 4 + Len(h.extData)
      /\ SubSeq(w, HeaderSize(h) + 1, Len(w)) = payload
  BY <1>1, HeaderLength, Zenon
<1>5. [i \in 1 .. k |-> SubSeq(w, 9 + 4 * i, 12 + 4 * i)] = h.csrc
  BY <1>1, SourcesRead, Zenon
<1>6. /\ w[1] \div 64 = 2 /\ w[1] % 16 = k
      /\ ((w[1] \div 32) % 2 = 1) = h.padding /\ ((w[1] \div 16) % 2 = 1) = h.extension
  BY <1>1, <1>2, FirstByteRead, Zenon
<1>7. w[2] % 128 = h.payloadType /\ (w[2] >= 128) = h.marker
  BY <1>2, SecondByteRead, Zenon
<1>8. PICK base, n, l, ext, has, words :
        /\ base = 12 + 4 * k /\ n = Len(h.extData) /\ l = Len(w)
        /\ ext = ((w[1] \div 16) % 2 = 1) /\ has = (ext /\ l >= base + 4)
        /\ words = 4 * ReadUint16(w, base + 3)
  OBVIOUS
<1>9. k \in Nat /\ n \in Nat /\ l \in Nat /\ ext = h.extension /\ ext \in BOOLEAN
  <2>1. k \in 0 .. 15 /\ n \in Nat /\ h.extension \in BOOLEAN
    BY <1>1, <1>8, HeaderTyped, Zenon
  <2>2. ext = h.extension /\ l \in Nat
    BY <1>4, <1>6, <1>8, Zenon
  <2>3. k \in Nat
    BY <2>1
  <2> QED
    BY <2>1, <2>2, <2>3, Zenon
<1>10. l >= base /\ ~(l < 12) /\ ~(l < base) /\ (h.extension => l >= base + 4 /\ l >= base + 4 + n)
  <2>1. /\ l >= 12 + 4 * k /\ base = 12 + 4 * k
        /\ h.extension => l >= 12 + 4 * k + 4 + n
    BY <1>4, <1>8, Zenon
  <2> QED
    BY <1>9, <2>1
<1>11. /\ (IF has THEN ReadUint16(w, base + 1) ELSE 0) = h.profile
       /\ (IF has /\ l >= base + 4 + words
           THEN SubSeq(w, base + 5, base + 4 + words) ELSE <<>>) = h.extData
  <2>1. CASE h.extension
    <3>1. has = TRUE
      BY <1>8, <1>9, <1>10, <2>1, Zenon
    <3>2. words = n /\ ReadUint16(w, base + 1) = h.profile
          /\ SubSeq(w, base + 5, base + 4 + n) = h.extData
      BY <1>3, <1>8, <2>1, Zenon
    <3> QED
      BY <1>10, <2>1, <3>1, <3>2, Zenon
  <2>2. CASE ~h.extension
    <3>1. h.profile = 0 /\ h.extData = <<>>
      BY <2>2, HeaderTyped, Zenon
    <3>2. has = FALSE
      BY <1>8, <1>9, <2>2, Zenon
    <3> QED
      BY <3>1, <3>2, Zenon
  <2> QED
    BY <2>1, <2>2, Zenon
<1>12. DecodeRtpHeader(w) =
         [ok |-> TRUE, padding |-> h.padding, extension |-> h.extension,
          marker |-> h.marker, payloadType |-> h.payloadType, seq |-> h.seq,
          timestamp |-> h.timestamp, ssrc |-> h.ssrc, csrc |-> h.csrc,
          profile |-> h.profile, extData |-> h.extData]
  <2>1. DecodeRtpHeader(w) =
          [ok |-> TRUE, padding |-> (w[1] \div 32) % 2 = 1, extension |-> ext,
           marker |-> w[2] >= 128, payloadType |-> w[2] % 128,
           seq |-> ReadUint16(w, 3), timestamp |-> SubSeq(w, 5, 8),
           ssrc |-> SubSeq(w, 9, 12),
           csrc |-> [i \in 1 .. k |-> SubSeq(w, 9 + 4 * i, 12 + 4 * i)],
           profile |-> IF has THEN ReadUint16(w, base + 1) ELSE 0,
           extData |-> IF has /\ l >= base + 4 + words
                       THEN SubSeq(w, base + 5, base + 4 + words) ELSE <<>>]
    BY <1>6, <1>8, <1>10, Zenon DEF DecodeRtpHeader
  <2> QED
    BY <1>2, <1>5, <1>6, <1>7, <1>9, <1>11, <2>1, Zenon
<1>13. HeaderSize(DecodeRtpHeader(w)) = HeaderSize(h)
  <2>1. PICK d : d = DecodeRtpHeader(w)
    OBVIOUS
  <2>2. d.csrc = h.csrc /\ d.extension = h.extension /\ d.extData = h.extData
    BY <1>12, <2>1
  <2> QED
    BY <2>1, <2>2, Zenon DEF HeaderSize
<1> QED
  BY <1>1, <1>2, <1>4, <1>12, <1>13, Zenon

(* The low half of a number, whatever its high half.                               *)
LowWord(n) == n % 65536

LEMMA LowBytes ==
  ASSUME NEW n \in Nat
  PROVE  /\ Uint16(n) \in Seq(Byte) /\ Len(Uint16(n)) = 2
         /\ 256 * Uint16(n)[1] + Uint16(n)[2] = LowWord(n)
<1>1. PICK q, r, a : q = n \div 256 /\ r = n % 256 /\ a = q % 256
  OBVIOUS
<1>2. q \in Nat /\ r \in Nat /\ r < 256 /\ n = 256 * q + r
  BY <1>1, SMT
<1>3. PICK m \in Nat : q = 256 * m + a
  <2>1. q = 256 * (q \div 256) + a /\ q \div 256 \in Nat
    BY <1>1, <1>2, SMT
  <2> QED
    BY <2>1, SMT
<1>4. a \in Nat /\ a < 256
  BY <1>1, <1>2, SMT
<1>5. PICK v : v = 256 * a + r
  OBVIOUS
<1>6. v \in Nat /\ v < 65536 /\ n = 65536 * m + v
  BY <1>2, <1>3, <1>4, <1>5, SMT
<1>7. LowWord(n) = v
  BY <1>6, SMT DEF LowWord
<1>8. Uint16(n) = <<a, r>>
  BY <1>1, SMT DEF Uint16
<1>9. a \in Byte /\ r \in Byte
  BY <1>2, <1>4, SMT DEF Byte
<1> QED
  BY <1>5, <1>7, <1>8, <1>9, SMT

LEMMA WordsTell ==
  ASSUME NEW a \in Nat, NEW b \in Nat, HighWord(a) = HighWord(b), LowWord(a) = LowWord(b)
  PROVE  a = b
BY SMT DEF HighWord, LowWord

LEMMA ZerosTyped ==
  ASSUME NEW k \in Nat
  PROVE  Zeros(k) \in Seq(Byte) /\ Len(Zeros(k)) = k
BY DEF Zeros, Byte

(* Where the mask holds its parts.                                              *)
LEMMA MaskPlaces ==
  ASSUME NEW s \in Uint32Bytes, NEW roc \in Nat, HighWord(roc) \in Word, NEW n \in Word
  PROVE  LET v == IvMask(s, roc, n) IN
         /\ SubSeq(v, 5, 8) = s
         /\ ReadUint16(v, 9) = HighWord(roc) /\ ReadUint16(v, 11) = LowWord(roc)
         /\ ReadUint16(v, 13) = n
<1>1. PICK z, a, b, c : /\ z = Zeros(4) /\ a = Uint16(HighWord(roc)) /\ b = Uint16(roc)
                        /\ c = Uint16(n)
  OBVIOUS
<1>2. z \in Seq(Byte) /\ Len(z) = 4 /\ s \in Seq(Byte) /\ Len(s) = 4
  <2>3. z \in Seq(Byte) /\ Len(z) = 4
    BY <1>1, ZerosTyped
  <2> QED
    BY <2>3, Zenon DEF Uint32Bytes
<1>3. a \in Seq(Byte) /\ Len(a) = 2 /\ 256 * a[1] + a[2] = HighWord(roc)
  BY <1>1, TwoByteNumber, Zenon
<1>4. b \in Seq(Byte) /\ Len(b) = 2 /\ 256 * b[1] + b[2] = LowWord(roc)
  BY <1>1, LowBytes, Zenon
<1>5. c \in Seq(Byte) /\ Len(c) = 2 /\ 256 * c[1] + c[2] = n
  BY <1>1, TwoByteNumber, Zenon
<1>6. PICK x, y, u, v, e :
        x = Cat(z, s) /\ y = Cat(x, a) /\ u = Cat(y, b) /\ v = Cat(u, c) /\ e = <<>>
  OBVIOUS
<1>7. v = IvMask(s, roc, n)
  BY <1>1, <1>6, Zenon DEF IvMask, Cat
<1>8. x \in Seq(Byte) /\ Len(x) = 8
  <2>1. z \in Seq(Byte) /\ s \in Seq(Byte)
    BY <1>2
  <2>2. Cat(z, s) \in Seq(Byte) /\ Len(Cat(z, s)) = Len(z) + Len(s)
    BY <2>1, CatType
  <2> QED
    BY <1>2, <1>6, <2>2
<1>9. y \in Seq(Byte) /\ Len(y) = 10
  <2>1. Cat(x, a) \in Seq(Byte) /\ Len(Cat(x, a)) = Len(x) + Len(a)
    BY <1>3, <1>8, CatType
  <2> QED
    BY <1>3, <1>6, <1>8, <2>1
<1>10. u \in Seq(Byte) /\ Len(u) = 12
  <2>1. Cat(y, b) \in Seq(Byte) /\ Len(Cat(y, b)) = Len(y) + Len(b)
    BY <1>4, <1>9, CatType
  <2> QED
    BY <1>4, <1>6, <1>9, <2>1
<1>11. PICK f, g : f = Cat(b, c) /\ g = Cat(a, f)
  OBVIOUS
<1>12. f \in Seq(Byte) /\ g \in Seq(Byte) /\ v = Cat(y, f) /\ v = Cat(x, g)
  <2>1. f \in Seq(Byte)
    BY <1>4, <1>5, <1>11, CatType
  <2>2. g \in Seq(Byte)
    BY <1>3, <1>11, <2>1, CatType
  <2>3. v = Cat(y, f)
    BY <1>4, <1>5, <1>6, <1>9, <1>11, CatJoins
  <2>4. v = Cat(x, g)
    BY <1>3, <1>6, <1>8, <1>11, <2>1, <2>3, CatJoins
  <2> QED
    BY <2>1, <2>2, <2>3, <2>4
<1>13. SubSeq(v, 5, 8) = s
  <2>1. SubSeq(Cat(Cat(z, s), g), Len(z) + 1, Len(z) + Len(s)) = s
    BY <1>2, <1>12, PartCut
  <2>2. Len(z) + 1 = 5 /\ Len(z) + Len(s) = 8
    BY <1>2
  <2> QED
    BY <1>6, <1>12, <2>1, <2>2, Zenon
<1>14. v[9] = a[1] /\ v[10] = a[2]
  <2>1. \A i \in 1 .. Len(a) : Cat(Cat(x, a), f)[Len(x) + i] = a[i]
    BY <1>3, <1>8, <1>12, PartElements
  <2>2. 1 \in 1 .. Len(a) /\ 2 \in 1 .. Len(a) /\ Len(x) + 1 = 9 /\ Len(x) + 2 = 10
    BY <1>3, <1>8
  <2> QED
    BY <1>6, <1>12, <2>1, <2>2, Zenon
<1>15. e \in Seq(Byte) /\ Cat(v, e) = v
  <2>1. e \in Seq(Byte)
    BY <1>6
  <2>2. \A t \in Seq(Byte) : Cat(t, e) = t
    BY <1>6 DEF Cat
  <2>3. v \in Seq(Byte)
    BY <1>5, <1>6, <1>10, CatType
  <2> QED
    BY <2>1, <2>2, <2>3, Zenon
<1>16. v[11] = b[1] /\ v[12] = b[2]
  <2>1. \A i \in 1 .. Len(b) : Cat(Cat(y, b), c)[Len(y) + i] = b[i]
    BY <1>4, <1>5, <1>9, PartElements
  <2>2. 1 \in 1 .. Len(b) /\ 2 \in 1 .. Len(b) /\ Len(y) + 1 = 11 /\ Len(y) + 2 = 12
    BY <1>4, <1>9
  <2> QED
    BY <1>6, <2>1, <2>2, Zenon
<1>17. v[13] = c[1] /\ v[14] = c[2]
  <2>1. \A i \in 1 .. Len(c) : Cat(Cat(u, c), e)[Len(u) + i] = c[i]
    BY <1>5, <1>10, <1>15, PartElements
  <2>2. 1 \in 1 .. Len(c) /\ 2 \in 1 .. Len(c) /\ Len(u) + 1 = 13 /\ Len(u) + 2 = 14
    BY <1>5, <1>10
  <2> QED
    BY <1>6, <1>15, <2>1, <2>2, Zenon
<1>18. /\ ReadUint16(v, 9) = 256 * v[9] + v[10] /\ ReadUint16(v, 11) = 256 * v[11] + v[12]
       /\ ReadUint16(v, 13) = 256 * v[13] + v[14]
  BY DEF ReadUint16
<1>19. /\ ReadUint16(v, 9) = HighWord(roc) /\ ReadUint16(v, 11) = LowWord(roc)
       /\ ReadUint16(v, 13) = n
  BY <1>3, <1>4, <1>5, <1>14, <1>16, <1>17, <1>18, Zenon
<1> QED
  BY <1>7, <1>13, <1>19, Zenon

(* What generateIV (media/srtp.go) lays over a salt tells the packets of a session      *)
(* apart: two packets get the same mask only if they have the same source, rollover    *)
(* count (of 32 bits) and sequence number. With the indices that never recur (the     *)
(* properties of MediaPath) no two packets are enciphered with the same counter.       *)
THEOREM MaskTellsPacketsApart ==
  ASSUME NEW s \in Uint32Bytes, NEW t \in Uint32Bytes,
         NEW a \in Nat, HighWord(a) \in Word, NEW b \in Nat, HighWord(b) \in Word,
         NEW m \in Word, NEW n \in Word,
         IvMask(s, a, m) = IvMask(t, b, n)
  PROVE  s = t /\ a = b /\ m = n
<1>1. PICK v, w : v = IvMask(s, a, m) /\ w = IvMask(t, b, n)
  OBVIOUS
<1>2. /\ SubSeq(v, 5, 8) = s /\ ReadUint16(v, 9) = HighWord(a) /\ ReadUint16(v, 11) = LowWord(a)
      /\ ReadUint16(v, 13) = m
  BY <1>1, MaskPlaces, Zenon
<1>3. /\ SubSeq(w, 5, 8) = t /\ ReadUint16(w, 9) = HighWord(b) /\ ReadUint16(w, 11) = LowWord(b)
      /\ ReadUint16(w, 13) = n
  BY <1>1, MaskPlaces, Zenon
<1>4. s = t /\ m = n /\ HighWord(a) = HighWord(b) /\ LowWord(a) = LowWord(b)
  BY <1>1, <1>2, <1>3, Zenon
<1> QED
  BY <1>4, WordsTell

-----------------------------------------------------------------------------
(***************************************************************************)
(* Proofs about StunAttribute, for an attribute of any type and data, wherever   *)
(* in a message it stands.                                                    *)
(***************************************************************************)

(* Padding fills up four bytes.                                               *)
LEMMA PaddingFills ==
  ASSUME NEW n \in Nat
  PROVE  Padding(n) \in 0 .. 3 /\ (n + Padding(n)) % 4 = 0
<1>1. PICK r : r = n % 4
  OBVIOUS
<1>2. r \in 0 .. 3
  BY <1>1
<1>3. CASE r = 0
  BY <1>1, <1>3 DEF Padding
<1>4. CASE r = 1
  BY <1>1, <1>4 DEF Padding
<1>5. CASE r = 2
  BY <1>1, <1>5 DEF Padding
<1>6. CASE r = 3
  BY <1>1, <1>6 DEF Padding
<1> QED
  BY <1>2, <1>3, <1>4, <1>5, <1>6

(* One turn of ParseStunResponse's loop (transport/stun.go), at the place where an     *)
(* attribute of encodeAttribute begins: it reads that attribute's type and data,      *)
(* whatever stands before and behind it, and goes on exactly behind its padding, so    *)
(* that attributes written one after the other are read one after the other.         *)
THEOREM AttributeReadBack ==
  ASSUME NEW x \in Seq(Byte), NEW d \in Seq(Byte), NEW u \in Seq(Byte), NEW type \in Word,
         Len(d) \in Word, NEW end \in Nat,
         Len(x) + Len(EncodeAttribute(type, d)) <= end
  PROVE  LET e == EncodeAttribute(type, d)
             w == (x \o e) \o u
         IN  /\ AttributeFits(w, Len(x), end)
             /\ AttributeAt(w, Len(x)) = [type |-> type, data |-> d]
             /\ NextAttribute(w, Len(x)) = Len(x) + Len(e)
             /\ Len(e) % 4 = 0
<1>1. PICK p, l, n, z, q, t, e, w, a, m, k :
        /\ p = Uint16(type) /\ l = Uint16(n) /\ n = Len(d) /\ k = Padding(n) /\ z = Zeros(k)
        /\ q = Cat(p, l) /\ t = Cat(d, z) /\ e = Cat(q, t) /\ w = Cat(Cat(x, e), u)
        /\ a = Len(x) /\ m = Len(e)
  OBVIOUS
<1>2. n \in Nat /\ n \in Word /\ a \in Nat
  <2>1. Len(d) \in Nat /\ Len(x) \in Nat
    OBVIOUS
  <2> QED
    BY <1>1, <2>1, Zenon
<1>3. p \in Seq(Byte) /\ Len(p) = 2 /\ 256 * p[1] + p[2] = type
  BY <1>1, TwoByteNumber, Zenon
<1>4. l \in Seq(Byte) /\ Len(l) = 2 /\ 256 * l[1] + l[2] = n
  BY <1>1, <1>2, TwoByteNumber, Zenon
<1>5. k \in 0 .. 3 /\ (n + k) % 4 = 0
  BY <1>1, <1>2, PaddingFills, Zenon
<1>6. k \in Nat
  BY <1>5
<1>7. z \in Seq(Byte) /\ Len(z) = k
  BY <1>1, <1>6, ZerosTyped, Zenon
<1>8. t \in Seq(Byte) /\ Len(t) = n + k
  <2>1. z \in Seq(Byte)
    BY <1>7
  <2>2. Cat(d, z) \in Seq(Byte) /\ Len(Cat(d, z)) = Len(d) + Len(z)
    BY <2>1, CatType
  <2> QED
    BY <1>1, <1>7, <2>2, Zenon
<1>9. /\ q \in Seq(Byte) /\ Len(q) = 4
      /\ q[1] = p[1] /\ q[2] = p[2] /\ q[3] = l[1] /\ q[4] = l[2]
  <2>1. p \in Seq(Byte) /\ l \in Seq(Byte) /\ Len(p) = 2 /\ Len(l) = 2
    BY <1>3, <1>4
  <2>2. /\ Cat(p, l) \in Seq(Byte) /\ Len(Cat(p, l)) = 4
        /\ Cat(p, l)[1] = p[1] /\ Cat(p, l)[2] = p[2]
        /\ Cat(p, l)[3] = l[1] /\ Cat(p, l)[4] = l[2]
    BY <2>1, FourBytes
  <2> QED
    BY <1>1, <2>2, Zenon
<1>10. /\ e \in Seq(Byte) /\ Len(e) = 4 + Len(t)
       /\ e[1] = q[1] /\ e[2] = q[2] /\ e[3] = q[3] /\ e[4] = q[4]
  <2>1. q \in Seq(Byte) /\ t \in Seq(Byte) /\ Len(q) = 4
    BY <1>8, <1>9
  <2>2. /\ Cat(q, t) \in Seq(Byte) /\ Len(Cat(q, t)) = 4 + Len(t)
        /\ Cat(q, t)[1] = q[1] /\ Cat(q, t)[2] = q[2]
        /\ Cat(q, t)[3] = q[3] /\ Cat(q, t)[4] = q[4]
    BY <2>1, FirstFour
  <2> QED
    BY <1>1, <2>2, Zenon
<1>11. m = 4 + (n + k)
  BY <1>1, <1>8, <1>10, Zenon
<1>12. e = EncodeAttribute(type, d)
  <2>1. EncodeAttribute(type, d) = Cat(Cat(q, d), z)
    BY <1>1, Zenon DEF EncodeAttribute, Cat
  <2>2. Cat(Cat(q, d), z) = Cat(q, Cat(d, z))
    BY <1>7, <1>9, CatJoins
  <2> QED
    BY <1>1, <2>1, <2>2, Zenon
<1>13. \A i \in 1 .. m : w[a + i] = e[i]
  <2>1. e \in Seq(Byte)
    BY <1>10
  <2>2. \A i \in 1 .. Len(e) : Cat(Cat(x, e), u)[Len(x) + i] = e[i]
    BY <2>1, PartElements
  <2> QED
    BY <2>2, <1>1, Zenon
<1>14. 1 \in 1 .. m /\ 2 \in 1 .. m /\ 3 \in 1 .. m /\ 4 \in 1 .. m
  BY <1>2, <1>6, <1>11
<1>15. w[a + 1] = p[1] /\ w[a + 2] = p[2] /\ w[a + 3] = l[1] /\ w[a + 4] = l[2]
  BY <1>9, <1>10, <1>13, <1>14, Zenon
<1>16. ReadUint16(w, a + 1) = type /\ ReadUint16(w, a + 3) = n
  <2>1. (a + 1) + 1 = a + 2 /\ (a + 3) + 1 = a + 4
    BY <1>2
  <2>2. ReadUint16(w, a + 1) = 256 * w[a + 1] + w[a + 2]
    BY <2>1, Zenon DEF ReadUint16
  <2>3. ReadUint16(w, a + 3) = 256 * w[a + 3] + w[a + 4]
    BY <2>1, Zenon DEF ReadUint16
  <2> QED
    BY <1>3, <1>4, <1>15, <2>2, <2>3, Zenon
<1>17. PICK y, v, b : y = Cat(x, q) /\ v = Cat(z, u) /\ b = Len(y)
  OBVIOUS
<1>18. q \in Seq(Byte) /\ y \in Seq(Byte) /\ b = a + 4
  <2>1. q \in Seq(Byte)
    BY <1>9
  <2>2. Cat(x, q) \in Seq(Byte) /\ Len(Cat(x, q)) = Len(x) + Len(q)
    BY <2>1, CatType
  <2> QED
    BY <1>1, <1>9, <1>17, <2>1, <2>2, Zenon
<1>19. v \in Seq(Byte) /\ w = Cat(Cat(y, d), v)
  <2>1. v \in Seq(Byte)
    BY <1>7, <1>17, CatType
  <2>2. t \in Seq(Byte) /\ z \in Seq(Byte)
    BY <1>7, <1>8
  <2>3. Cat(x, e) = Cat(y, t)
    BY <1>1, <1>17, <1>18, <2>2, CatJoins
  <2>4. Cat(y, t) = Cat(Cat(y, d), z)
    BY <1>1, <1>18, <2>2, CatJoins
  <2>5. Cat(y, d) \in Seq(Byte)
    BY <1>18, CatType
  <2>6. Cat(Cat(Cat(y, d), z), u) = Cat(Cat(y, d), Cat(z, u))
    BY <2>2, <2>5, CatJoins
  <2> QED
    BY <1>1, <1>17, <2>1, <2>3, <2>4, <2>6, Zenon
<1>20. SubSeq(w, a + 5, a + 4 + n) = d
  <2>1. SubSeq(Cat(Cat(y, d), v), Len(y) + 1, Len(y) + Len(d)) = d
    BY <1>18, <1>19, PartCut
  <2>2. b + 1 = a + 5 /\ b + n = a + 4 + n
    BY <1>2, <1>18
  <2> QED
    BY <1>1, <1>17, <1>19, <2>1, <2>2, Zenon
<1>21. AttributeLength(w, a) = n /\ AttributeEnd(w, a) = a + 4 + n
  BY <1>16, Zenon DEF AttributeLength, AttributeEnd
<1>22. AttributeAt(w, a) = [type |-> type, data |-> d]
  BY <1>16, <1>20, <1>21, Zenon DEF AttributeAt
<1>23. NextAttribute(w, a) = a + m
  <2>1. NextAttribute(w, a) = (a + 4 + n) + k
    BY <1>1, <1>21, Zenon DEF NextAttribute
  <2> QED
    BY <1>2, <1>6, <1>11, <2>1
<1>24. m % 4 = 0
  BY <1>2, <1>5, <1>6, <1>11
<1>25. AttributeFits(w, a, end)
  <2>1. PICK c, g : c = Len(w) /\ g = Len(u)
    OBVIOUS
  <2>2. Len(Cat(Cat(x, e), u)) = Len(x) + Len(e) + Len(u) /\ Len(u) \in Nat
    BY <1>10, PartAt
  <2>3. c = a + m + g /\ g \in Nat
    BY <1>1, <2>1, <2>2, Zenon
  <2>4. a + m <= end
    BY <1>1, <1>12, Zenon
  <2>5. a + 4 <= end /\ a + 4 <= c /\ a + 4 + n <= c
    BY <1>2, <1>6, <1>11, <2>3, <2>4
  <2> QED
    BY <1>21, <2>1, <2>5, Zenon DEF AttributeFits
<1>26. w = (x \o EncodeAttribute(type, d)) \o u
  BY <1>1, <1>12, Zenon DEF Cat
<1> QED
  BY <1>1, <1>12, <1>22, <1>23, <1>24, <1>25, <1>26, Zenon
=============================================================================
