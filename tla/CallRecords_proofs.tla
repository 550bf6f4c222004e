-------------------------- MODULE CallRecords_proofs --------------------------
(***************************************************************************)
(* Proofs about CallRecords, for any number of requests and bridges: IndInv  *)
(* is inductive, and the properties of the run follow from it.               *)
(***************************************************************************)
EXTENDS CallRecords, TLAPS

(* The dialling handler. *)
LEMMA DialInv ==
  ASSUME IndInv,
         \/ CreateOutgoing
         \/ Announce
         \/ StartCall
         \/ OfferQuery
         \/ OfferSent
         \/ OfferSentPanics
         \/ StartFailed
         \/ StartFailedFile
         \/ Placed
  PROVE  IndInv'
<1> USE ThreadsAssumption
<1> USE DEF IndInv, TypeOK, Sections, ReportedState, Creation, BridgeFollowsCall,
            EndedCallLeaves, EndedRecordLeaves, Leaving, LateWrite, Filing, Resting,
            Threads, Others, Owners, CallRecord, NoRecord, Labels, At, Goto, Locks,
            managerVars, lockVars, entryVars, recordVars,
            Manager!States, Manager!Directions
<1>1. CASE CreateOutgoing
  BY <1>1, SMTT(60) DEF CreateOutgoing
<1>2. CASE Announce
  BY <1>2, SMTT(60) DEF Announce, UpsertCall
<1>3. CASE StartCall
  BY <1>3, SMTT(60) DEF StartCall, Manager!Create
<1>4. CASE OfferQuery
  BY <1>4, SMTT(60) DEF OfferQuery
<1>5. CASE OfferSent
  BY <1>5, SMTT(60) DEF OfferSent, Advance, Manager!Advance, Manager!Edge
<1>6. CASE OfferSentPanics
  BY <1>6, SMTT(60) DEF OfferSentPanics
<1>7. CASE StartFailed
  <2> USE <1>7 DEF StartFailed, RemoveCall
  <2>1. registered' \in BOOLEAN /\ tracked' \in BOOLEAN
    OBVIOUS
  <2>2. conn' \in [Bridges -> {"none", "open", "closed"}]
    OBVIOUS
  <2> QED
    BY <2>1, <2>2, SMTT(60)
<1>8. CASE StartFailedFile
  BY <1>8, SMTT(60) DEF StartFailedFile, FileCall
<1>9. CASE Placed
  BY <1>9, SMTT(60) DEF Placed, UpsertCall
<1> QED
  BY <1>1, <1>2, <1>3, <1>4, <1>5, <1>6, <1>7, <1>8, <1>9

(* The answer to the offer. *)
LEMMA AckInv ==
  ASSUME IndInv,
         \/ OfferAckError
         \/ OfferAck
  PROVE  IndInv'
<1> USE ThreadsAssumption
<1> USE DEF IndInv, TypeOK, Sections, ReportedState, Creation, BridgeFollowsCall,
            EndedCallLeaves, EndedRecordLeaves, Leaving, LateWrite, Filing, Resting,
            Threads, Others, Owners, CallRecord, NoRecord, Labels, At, Goto, Locks,
            managerVars, lockVars, entryVars, recordVars,
            Manager!States, Manager!Directions
<1>1. CASE OfferAckError
  BY <1>1, SMTT(60) DEF OfferAckError, Advance, Manager!Advance, Manager!Edge
<1>2. CASE OfferAck
  BY <1>2, SMTT(60) DEF OfferAck
<1> QED
  BY <1>1, <1>2

(* OnStateChange. *)
LEMMA ReportInv ==
  ASSUME IndInv,
         \/ ReportRead
         \/ ReportWrite
         \/ ReportRemove
         \/ ReportFile
  PROVE  IndInv'
<1> USE ThreadsAssumption
<1> USE DEF IndInv, TypeOK, Sections, ReportedState, Creation, BridgeFollowsCall,
            EndedCallLeaves, EndedRecordLeaves, Leaving, LateWrite, Filing, Resting,
            Threads, Others, Owners, CallRecord, NoRecord, Labels, At, Goto, Locks,
            managerVars, lockVars, entryVars, recordVars,
            Manager!States, Manager!Directions
<1>1. CASE ReportRead
  BY <1>1, SMTT(60) DEF ReportRead, GetCall
<1>2. CASE ReportWrite
  BY <1>2, SMTT(60) DEF ReportWrite, UpsertCall, MapStatus, ReportDone
<1>3. CASE ReportRemove
  <2> USE <1>3 DEF ReportRemove, RemoveCall
  <2>1. registered' \in BOOLEAN /\ tracked' \in BOOLEAN
    OBVIOUS
  <2>2. conn' \in [Bridges -> {"none", "open", "closed"}]
    OBVIOUS
  <2> QED
    BY <2>1, <2>2, SMTT(60)
<1>4. CASE ReportFile
  BY <1>4, SMTT(60) DEF ReportFile, FileCall, ReportDone
<1> QED
  BY <1>1, <1>2, <1>3, <1>4

(* The offer of an incoming call. *)
LEMMA IncomingInv ==
  ASSUME IndInv,
         \/ CreateIncoming
         \/ HandleCallOffer
         \/ OnIncoming
         \/ OfferReport
         \/ AutoAnswer
  PROVE  IndInv'
<1> USE ThreadsAssumption
<1> USE DEF IndInv, TypeOK, Sections, ReportedState, Creation, BridgeFollowsCall,
            EndedCallLeaves, EndedRecordLeaves, Leaving, LateWrite, Filing, Resting,
            Threads, Others, Owners, CallRecord, NoRecord, Labels, At, Goto, Locks,
            managerVars, lockVars, entryVars, recordVars,
            Manager!States, Manager!Directions
<1>1. CASE CreateIncoming
  BY <1>1, SMTT(60) DEF CreateIncoming
<1>2. CASE HandleCallOffer
  BY <1>2, SMTT(60) DEF HandleCallOffer, Manager!Create
<1>3. CASE OnIncoming
  BY <1>3, SMTT(60) DEF OnIncoming, Manager!NotifyIncoming, UpsertCall
<1>4. CASE OfferReport
  BY <1>4, SMTT(60) DEF OfferReport, Advance, Manager!Advance, Manager!Edge
<1>5. CASE AutoAnswer
  BY <1>5, SMTT(60) DEF AutoAnswer
<1> QED
  BY <1>1, <1>2, <1>3, <1>4, <1>5

(* The peer's stanzas and media. *)
LEMMA PeerInv ==
  ASSUME IndInv,
         \/ CallAccept
         \/ CallTerminate
         \/ HandleCallAccept
         \/ HandleCallTerminate
         \/ StrayEnd
         \/ MediaConnect
         \/ OnPeerAudio
  PROVE  IndInv'
<1> USE ThreadsAssumption
<1> USE DEF IndInv, TypeOK, Sections, ReportedState, Creation, BridgeFollowsCall,
            EndedCallLeaves, EndedRecordLeaves, Leaving, LateWrite, Filing, Resting,
            Threads, Others, Owners, CallRecord, NoRecord, Labels, At, Goto, Locks,
            managerVars, lockVars, entryVars, recordVars,
            Manager!States, Manager!Directions
<1>1. CASE CallAccept
  BY <1>1, SMTT(60) DEF CallAccept
<1>2. CASE CallTerminate
  BY <1>2, SMTT(60) DEF CallTerminate
<1>3. CASE HandleCallAccept
  BY <1>3, SMTT(60) DEF HandleCallAccept, Advance, Manager!Advance, Manager!Edge
<1>4. CASE HandleCallTerminate
  <2> USE <1>4 DEF HandleCallTerminate, DropEnded, Manager!Drop
  <2>1. registered' \in BOOLEAN /\ tracked' \in BOOLEAN
    OBVIOUS
  <2>2. conn' \in [Bridges -> {"none", "open", "closed"}]
    OBVIOUS
  <2> QED
    BY <2>1, <2>2, SMTT(60)
<1>5. CASE StrayEnd
  BY <1>5, SMTT(60) DEF StrayEnd, FileCall
<1>6. CASE MediaConnect
  BY <1>6, SMTT(60) DEF MediaConnect, Advance, Manager!Advance, Manager!Edge
<1>7. CASE OnPeerAudio
  BY <1>7, SMTT(60) DEF OnPeerAudio
<1> QED
  BY <1>1, <1>2, <1>3, <1>4, <1>5, <1>6, <1>7

(* Requests of the API. *)
LEMMA RequestInv ==
  ASSUME IndInv, NEW t \in Threads,
         \/ Request(t)
         \/ AcceptCall(t)
         \/ SetOwner(t)
         \/ RejectCall(t)
         \/ Remove(t)
         \/ File(t)
  PROVE  IndInv'
<1> USE ThreadsAssumption
<1> USE DEF IndInv, TypeOK, Sections, ReportedState, Creation, BridgeFollowsCall,
            EndedCallLeaves, EndedRecordLeaves, Leaving, LateWrite, Filing, Resting,
            Threads, Others, Owners, CallRecord, NoRecord, Labels, At, Goto, Locks,
            managerVars, lockVars, entryVars, recordVars,
            Manager!States, Manager!Directions
<1>1. CASE Request(t)
  BY <1>1, SMTT(60) DEF Request, Published
<1>2. CASE AcceptCall(t)
  BY <1>2, SMTT(60) DEF AcceptCall, Advance, Manager!Advance, Manager!Edge, Return
<1>3. CASE SetOwner(t)
  BY <1>3, SMTT(60) DEF SetOwner
<1>4. CASE RejectCall(t)
  <2> USE <1>4 DEF RejectCall, Manager!Drop
  <2>1. registered' \in BOOLEAN /\ tracked' \in BOOLEAN
    OBVIOUS
  <2>2. conn' \in [Bridges -> {"none", "open", "closed"}]
    OBVIOUS
  <2> QED
    BY <2>1, <2>2, SMTT(60)
<1>5. CASE Remove(t)
  <2> USE <1>5 DEF Remove, RemoveCall
  <2>1. registered' \in BOOLEAN /\ tracked' \in BOOLEAN
    OBVIOUS
  <2>2. conn' \in [Bridges -> {"none", "open", "closed"}]
    OBVIOUS
  <2> QED
    BY <2>1, <2>2, SMTT(60)
<1>6. CASE File(t)
  BY <1>6, SMTT(60) DEF File, FileCall, Return
<1> QED
  BY <1>1, <1>2, <1>3, <1>4, <1>5, <1>6

(* Bridges. *)
LEMMA BridgeInv ==
  ASSUME IndInv, NEW b \in Bridges,
         \/ SetBridge(b)
         \/ TerminalICE(b)
  PROVE  IndInv'
<1> USE ThreadsAssumption
<1> USE DEF IndInv, TypeOK, Sections, ReportedState, Creation, BridgeFollowsCall,
            EndedCallLeaves, EndedRecordLeaves, Leaving, LateWrite, Filing, Resting,
            Threads, Others, Owners, CallRecord, NoRecord, Labels, At, Goto, Locks,
            managerVars, lockVars, entryVars, recordVars,
            Manager!States, Manager!Directions
<1>1. CASE SetBridge(b)
  BY <1>1, SMTT(60) DEF SetBridge
<1>2. CASE TerminalICE(b)
  BY <1>2, SMTT(60) DEF TerminalICE
<1> QED
  BY <1>1, <1>2

(* teardownAllCalls. *)
LEMMA TeardownInv ==
  ASSUME IndInv,
         \/ Drain
         \/ CloseHeld
  PROVE  IndInv'
<1> USE ThreadsAssumption
<1> USE DEF IndInv, TypeOK, Sections, ReportedState, Creation, BridgeFollowsCall,
            EndedCallLeaves, EndedRecordLeaves, Leaving, LateWrite, Filing, Resting,
            Threads, Others, Owners, CallRecord, NoRecord, Labels, At, Goto, Locks,
            managerVars, lockVars, entryVars, recordVars,
            Manager!States, Manager!Directions
<1>1. CASE Drain
  <2> USE <1>1 DEF Drain
  <2>1. registered' \in BOOLEAN /\ tracked' \in BOOLEAN
    OBVIOUS
  <2>2. conn' \in [Bridges -> {"none", "open", "closed"}]
    OBVIOUS
  <2> QED
    BY <2>1, <2>2, SMTT(60)
<1>2. CASE CloseHeld
  BY <1>2, SMTT(60) DEF CloseHeld
<1> QED
  BY <1>1, <1>2

(* The end of a call and OnEnded. *)
LEMMA EndInv ==
  ASSUME IndInv, NEW t \in Threads,
         \/ EndCall(t)
         \/ OnEnded(t)
         \/ EndedRemove(t)
         \/ EndedFile(t)
  PROVE  IndInv'
<1> USE ThreadsAssumption
<1> USE DEF IndInv, TypeOK, Sections, ReportedState, Creation, BridgeFollowsCall,
            EndedCallLeaves, EndedRecordLeaves, Leaving, LateWrite, Filing, Resting,
            Threads, Others, Owners, CallRecord, NoRecord, Labels, At, Goto, Locks,
            managerVars, lockVars, entryVars, recordVars,
            Manager!States, Manager!Directions
<1>1. CASE EndCall(t)
  <2> USE <1>1 DEF EndCall, DropEnded, Manager!Drop, AfterEnd
  <2>1. registered' \in BOOLEAN /\ tracked' \in BOOLEAN
    OBVIOUS
  <2>2. conn' \in [Bridges -> {"none", "open", "closed"}]
    OBVIOUS
  <2> QED
    BY <2>1, <2>2, SMTT(60)
<1>2. CASE OnEnded(t)
  BY <1>2, SMTT(60) DEF OnEnded, Manager!NotifyEnded
<1>3. CASE EndedRemove(t)
  <2> USE <1>3 DEF EndedRemove, RemoveCall
  <2>1. registered' \in BOOLEAN /\ tracked' \in BOOLEAN
    OBVIOUS
  <2>2. conn' \in [Bridges -> {"none", "open", "closed"}]
    OBVIOUS
  <2> QED
    BY <2>1, <2>2, SMTT(60)
<1>4. CASE EndedFile(t)
  BY <1>4, SMTT(60) DEF EndedFile, FileCall, AfterEnd
<1> QED
  BY <1>1, <1>2, <1>3, <1>4

(* Every step preserves the invariant, whichever goroutine takes it.          *)
LEMMA NextInv ==
  ASSUME IndInv, [Next]_vars
  PROVE  IndInv'
<1>1. CASE UNCHANGED vars
  BY <1>1 DEF IndInv, TypeOK, Sections, ReportedState, Creation, BridgeFollowsCall,
              EndedCallLeaves, EndedRecordLeaves, Leaving, LateWrite, Filing, Resting,
              vars, managerVars, lockVars, entryVars, recordVars
<1>2. CASE Environment
  <2>1. \A t \in Clients \cup Bridges : t \in Threads
    BY DEF Threads
  <2> QED
    BY <1>2, <2>1, DialInv, IncomingInv, PeerInv, RequestInv, BridgeInv, TeardownInv, Zenon
       DEF Environment
<1>3. CASE Report
  BY <1>3, ReportInv DEF Report
<1>4. CASE Dial
  BY <1>4, DialInv DEF Dial
<1>5. CASE Ack
  BY <1>5, AckInv DEF Ack
<1>6. CASE Event
  BY <1>6, IncomingInv, PeerInv DEF Event
<1>7. CASE AutoAnswer
  BY <1>7, IncomingInv
<1>8. CASE CloseHeld
  BY <1>8, TeardownInv
<1>9. CASE \E b \in Bridges : SetBridge(b)
  BY <1>9, BridgeInv
<1>10. CASE \E t \in Threads : Continue(t)
  BY <1>10, RequestInv, EndInv, Zenon DEF Continue
<1> QED
  BY <1>1, <1>2, <1>3, <1>4, <1>5, <1>6, <1>7, <1>8, <1>9, <1>10 DEF Next

(* Before anything has happened the invariant holds.                         *)
LEMMA InitInv == Init => IndInv
<1> SUFFICES ASSUME Init PROVE IndInv
  OBVIOUS
<1> USE ThreadsAssumption
<1> USE DEF Init, Manager!Init
<1>1. TypeOK
  <2>1. tracked \in BOOLEAN /\ connected \in BOOLEAN /\ registered \in BOOLEAN /\ audio \in BOOLEAN
    OBVIOUS
  <2>2. filed \in {{}} \cup {{owner} : owner \in Owners}
    OBVIOUS
  <2>3. pc \in [Threads -> Labels] /\ conn \in [Bridges -> {"none", "open", "closed"}]
    BY DEF Labels
  <2> QED
    BY <2>1, <2>2, <2>3 DEF TypeOK, Owners, Manager!States, Manager!Directions
<1>2. Sections
  BY DEF Sections, Threads, Others
<1>3. ReportedState /\ Creation
  BY DEF ReportedState, Creation, Threads, Others
<1>4. BridgeFollowsCall /\ EndedCallLeaves /\ EndedRecordLeaves
  BY DEF BridgeFollowsCall, EndedCallLeaves, EndedRecordLeaves
<1> QED
  BY <1>1, <1>2, <1>3, <1>4 DEF IndInv

(* In every reachable state, for any number of requests and bridges, the        *)
(* inductive invariant holds.                                                *)
THEOREM Invariance == Spec => []IndInv
<1>1. Init => IndInv
  BY InitInv
<1>2. IndInv /\ [Next]_vars => IndInv'
  BY NextInv
<1> QED
  BY <1>1, <1>2, PTL DEF Spec

(* Every variable keeps its type.                                            *)
THEOREM TypeCorrect == Spec => []TypeOK
<1>1. IndInv => TypeOK
  BY DEF IndInv
<1> QED
  BY <1>1, Invariance, PTL

(* No browser's peer connection outlives its call, for any number of bridge      *)
(* requests: setBridge closes the one it replaces and the one that comes after   *)
(* removeCall, removeCall and teardownAllCalls close the last.                  *)
THEOREM BridgesFollow == Spec => []BridgeFollowsCall
<1>1. IndInv => BridgeFollowsCall
  BY DEF IndInv
<1> QED
  BY <1>1, Invariance, PTL

(* The entry of a call that has ended is always about to be removed, by the       *)
(* report of its end, by OnEnded or by the request that ended it.               *)
THEOREM EndedCallsLeave == Spec => []EndedCallLeaves
<1>1. IndInv => EndedCallLeaves
  BY DEF IndInv
<1> QED
  BY <1>1, Invariance, PTL

(* A record left behind by an ended call was written without the manager's lock: *)
(* no report of OnStateChange leaves one.                                     *)
THEOREM OnlyLateWrites == Spec => []LateWritesOnly
<1>1. IndInv => LateWritesOnly
  BY DEF IndInv, EndedRecordLeaves, LateWrite, Filing, LateWritesOnly, Settled, Resting
<1> QED
  BY <1>1, Invariance, PTL

(* Who writes the live record: the broker's upsertCall, endCall and setOwner.    *)
LEMMA RecordWriters ==
  ASSUME [Next]_vars
  PROVE  \/ UNCHANGED live
         \/ FileCall
         \/ \E status, owner, connectedAt : UpsertCall(status, owner, connectedAt)
         \/ \E t \in Threads : SetOwner(t)
<1> USE DEF recordVars
<1>1. CASE UNCHANGED vars
  BY <1>1 DEF vars
<1>2. CASE Environment
  BY <1>2 DEF Environment, CreateOutgoing, CreateIncoming, CallAccept, CallTerminate, MediaConnect,
              OnPeerAudio, Request, TerminalICE, Drain
<1>3. CASE Report
  BY <1>3, Zenon DEF Report, ReportRead, ReportWrite, ReportRemove, ReportFile
<1>4. CASE Dial
  BY <1>4, Zenon DEF Dial, Announce, StartCall, OfferQuery, OfferSent, OfferSentPanics,
                     StartFailed, StartFailedFile, Placed
<1>5. CASE Ack
  BY <1>5 DEF Ack, OfferAckError, OfferAck
<1>6. CASE Event
  BY <1>6, Zenon DEF Event, HandleCallOffer, OnIncoming, OfferReport, HandleCallAccept,
                     HandleCallTerminate, StrayEnd
<1>7. CASE AutoAnswer \/ CloseHeld \/ \E b \in Bridges : SetBridge(b)
  BY <1>7 DEF AutoAnswer, CloseHeld, SetBridge
<1>8. CASE \E t \in Threads : Continue(t)
  BY <1>8, Zenon DEF Continue, AcceptCall, RejectCall, EndCall, Remove, File, OnEnded, EndedRemove,
                     EndedFile
<1> QED
  BY <1>1, <1>2, <1>3, <1>4, <1>5, <1>6, <1>7, <1>8 DEF Next

(* ConnectedAt of a live record is never lost, whichever goroutine replaces the   *)
(* record.                                                                  *)
THEOREM ConnectedAtStays == Spec => ConnectedAtKept
<1>1. IndInv /\ [Next]_vars => (live.connectedAt /\ live' # NoRecord => live'.connectedAt)
  <2> SUFFICES ASSUME IndInv, [Next]_vars, live.connectedAt, live' # NoRecord
               PROVE  live'.connectedAt
    OBVIOUS
  <2>1. CASE UNCHANGED live
    BY <2>1
  <2>2. CASE FileCall
    BY <2>2 DEF FileCall
  <2>3. CASE \E status, owner, connectedAt : UpsertCall(status, owner, connectedAt)
    <3>1. PICK status, owner, connectedAt :
                 live' = [status |-> status, owner |-> owner,
                          connectedAt |-> connectedAt \/ live.connectedAt]
      BY <2>3, Zenon DEF UpsertCall
    <3>2. live'.connectedAt = (connectedAt \/ live.connectedAt)
      BY <3>1, Zenon
    <3> QED
      BY <3>2, Zenon
  <2>4. CASE \E t \in Threads : SetOwner(t)
    BY <2>4 DEF SetOwner, IndInv, TypeOK, CallRecord, NoRecord
  <2> QED
    BY <2>1, <2>2, <2>3, <2>4, RecordWriters
<1> QED
  BY <1>1, Invariance, PTL DEF Spec, ConnectedAtKept

----------------------------------------------------------------------------
(* The server uses of the manager no more than its contract, which CallManager is  *)
(* proved to keep: what is shown here of the records holds with the real manager.   *)

(* What each goroutine sees the manager do is a step of the contract or none.       *)
LEMMA ManagerSteps == [Next]_vars => [Manager!Next]_Manager!vars
<1> SUFFICES ASSUME [Next]_vars PROVE Manager!Next \/ UNCHANGED managerVars
  BY DEF managerVars, Manager!vars
<1>0. ASSUME NEW t, NEW p, Advance(t, p) PROVE Manager!Next
  BY <1>0 DEF Advance, Manager!Next
<1>1. CASE UNCHANGED vars
  BY <1>1 DEF vars
<1>2. CASE Environment
  BY <1>0, <1>2 DEF Environment, CreateOutgoing, CreateIncoming, CallAccept, CallTerminate, MediaConnect,
     OnPeerAudio, Request, TerminalICE, Drain
<1>3. CASE Report
  BY <1>3 DEF Report, ReportRead, ReportWrite, ReportRemove, ReportFile
<1>4. CASE Dial
  <2>1. CASE StartCall
    BY <2>1 DEF StartCall, Manager!Next
  <2> QED
    BY <1>0, <1>4, <2>1 DEF Dial, Announce, OfferQuery, OfferSent, OfferSentPanics, StartFailed,
       StartFailedFile, Placed
<1>5. CASE Ack
  BY <1>0, <1>5 DEF Ack, OfferAckError, OfferAck
<1>6. CASE Event
  <2>1. CASE HandleCallOffer \/ OnIncoming \/ HandleCallTerminate
    BY <2>1 DEF HandleCallOffer, OnIncoming, HandleCallTerminate, DropEnded, Manager!Next
  <2> QED
    BY <1>0, <1>6, <2>1 DEF Event, OfferReport, HandleCallAccept, StrayEnd
<1>7. CASE AutoAnswer \/ CloseHeld \/ \E b \in Bridges : SetBridge(b)
  BY <1>7 DEF AutoAnswer, CloseHeld, SetBridge
<1>8. ASSUME NEW t \in Threads, Continue(t) PROVE Manager!Next \/ UNCHANGED managerVars
  <2>1. CASE RejectCall(t) \/ EndCall(t) \/ OnEnded(t)
    BY <2>1 DEF RejectCall, EndCall, OnEnded, DropEnded, Manager!Next
  <2> QED
    BY <1>0, <1>8, <2>1 DEF Continue, AcceptCall, SetOwner, Remove, File, EndedRemove, EndedFile
<1> QED
  BY <1>1, <1>2, <1>3, <1>4, <1>5, <1>6, <1>7, <1>8 DEF Next

(* Every behaviour of the records is one of the manager's contract: no handler and   *)
(* no callback counts on anything the manager does not promise.                      *)
THEOREM ManagerUse == Spec => Manager!Spec
<1>1. Init => Manager!Init
  BY DEF Init
<1> QED
  BY <1>1, ManagerSteps, PTL DEF Spec, Manager!Spec

=============================================================================
