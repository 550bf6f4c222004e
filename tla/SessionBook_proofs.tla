-------------------------- MODULE SessionBook_proofs --------------------------
(***************************************************************************)
(* Proofs about SessionBook, for any sets of sessions, devices, clients and     *)
(* handlers: IndInv is inductive; a deleted session never comes back, a restart  *)
(* brings back what runs, and no client is left over.                          *)
(***************************************************************************)
EXTENDS SessionBook, TLAPS

(* What stands for no row, no jid and no client is none of them. *)
LEMMA Distinct ==
  /\ None # NoJid
  /\ None \notin Ids \cup Jids \cup Clients
  /\ NoJid \notin Jids
BY BookAssumption DEF None, NoJid

(* What a deleted session has left, whatever its row names. *)
DeletedGone == \A s \in deleted : s \notin book /\ (row[s] # None => s \in kept)

(* What every handler and every reference is. *)
Known ==
  TypeOK /\ HandlersWork /\ CreatesAlone /\ ClientsKnown /\ DropsUnregistered /\ DeletedGone
  /\ MissedLeft

(* Create: every handler and reference stays what it was. *)
LEMMA CreateKnown ==
  ASSUME IndInv, NEW r \in Requests,
         \/ Insert(r)
         \/ Register(r)
         \/ StartPairing(r)
  PROVE  Known'
<1> USE Distinct
<1> USE DEF IndInv, Known, TypeOK, HandlersWork, CreatesAlone, ClientsKnown, DropsUnregistered,
            DeletedForGood, DeletedGone, MissedLeft,
            Labels, At, Goto, Done, Busy, Enter, Unused,
            memoryVars, threadVars, diskVars, historyVars, failureVars
<1>1. CASE Insert(r)
  BY <1>1, SMTT(60) DEF Insert
<1>2. CASE Register(r)
  BY <1>2, SMTT(60) DEF Register
<1>3. CASE StartPairing(r)
  BY <1>3, SMTT(60) DEF StartPairing
<1> QED
  BY <1>1, <1>2, <1>3

(* Create: a handler alone with its session finds it as it left it. *)
LEMMA CreateUndisturbed ==
  ASSUME IndInv, NEW r \in Requests,
         \/ Insert(r)
         \/ Register(r)
         \/ StartPairing(r),
         Known'
  PROVE  Undisturbed'
<1> USE Distinct
<1> USE DEF IndInv, Known, TypeOK, HandlersWork, CreatesAlone, ClientsKnown, DropsUnregistered,
            DeletedForGood, DeletedGone, MissedLeft, Undisturbed,
            Labels, At, Goto, Done, Busy, Enter, Unused,
            memoryVars, threadVars, diskVars, historyVars, failureVars
<1>1. CASE Insert(r)
  BY <1>1, SMTT(60) DEF Insert
<1>2. CASE Register(r)
  BY <1>2, SMTT(60) DEF Register
<1>3. CASE StartPairing(r)
  BY <1>3, SMTT(60) DEF StartPairing
<1> QED
  BY <1>1, <1>2, <1>3

(* Create: no client is left connected by whoever disconnected it. *)
LEMMA CreateOnline ==
  ASSUME IndInv, NEW r \in Requests,
         \/ Insert(r)
         \/ Register(r)
         \/ StartPairing(r),
         Known'
  PROVE  OnlineOwned'
<1> USE Distinct
<1> USE DEF IndInv, Known, TypeOK, HandlersWork, CreatesAlone, ClientsKnown, DropsUnregistered,
            DeletedForGood, DeletedGone, MissedLeft, Undisturbed, OnlineOwned,
            Labels, At, Goto, Done, Busy, Enter, Unused,
            memoryVars, threadVars, diskVars, historyVars, failureVars
<1>1. CASE Insert(r)
  BY <1>1, SMTT(60) DEF Insert
<1>2. CASE Register(r)
  BY <1>2, SMTT(60) DEF Register
<1>3. CASE StartPairing(r)
  BY <1>3, SMTT(60) DEF StartPairing
<1> QED
  BY <1>1, <1>2, <1>3

(* Create: no device gets a second client or row. *)
LEMMA CreateDevices ==
  ASSUME IndInv, NEW r \in Requests,
         \/ Insert(r)
         \/ Register(r)
         \/ StartPairing(r),
         Known'
  PROVE  DevicesApart'
<1> USE Distinct
<1> USE DEF IndInv, Known, TypeOK, HandlersWork, CreatesAlone, ClientsKnown, DropsUnregistered,
            DeletedForGood, DeletedGone, MissedLeft, DevicesApart,
            Labels, At, Goto, Done, Busy, Enter, Unused,
            memoryVars, threadVars, diskVars, historyVars, failureVars
<1>1. CASE Insert(r)
  BY <1>1, SMTT(60) DEF Insert
<1>2. CASE Register(r)
  BY <1>2, SMTT(60) DEF Register
<1>3. CASE StartPairing(r)
  BY <1>3, SMTT(60) DEF StartPairing
<1> QED
  BY <1>1, <1>2, <1>3

(* Create: the row keeps naming the device of the client. *)
LEMMA CreateRows ==
  ASSUME IndInv, NEW r \in Requests,
         \/ Insert(r)
         \/ Register(r)
         \/ StartPairing(r),
         Known'
  PROVE  RowsTrue'
<1> USE Distinct
<1> USE DEF IndInv, Known, TypeOK, HandlersWork, CreatesAlone, ClientsKnown, DropsUnregistered,
            DeletedForGood, DeletedGone, MissedLeft, Undisturbed, DevicesApart, RowsTrue,
            Labels, At, Goto, Done, Busy, Enter, Unused,
            memoryVars, threadVars, diskVars, historyVars, failureVars
<1>1. CASE Insert(r)
  BY <1>1, SMTT(60) DEF Insert
<1>2. CASE Register(r)
  BY <1>2, SMTT(60) DEF Register
<1>3. CASE StartPairing(r)
  BY <1>3, SMTT(60) DEF StartPairing
<1> QED
  BY <1>1, <1>2, <1>3

(* Create: a session that leaves keeps no stored device. *)
LEMMA CreateUnlinked ==
  ASSUME IndInv, NEW r \in Requests,
         \/ Insert(r)
         \/ Register(r)
         \/ StartPairing(r),
         Known', RowsTrue'
  PROVE  Unlinked'
<1> USE Distinct
<1> USE DEF IndInv, Known, TypeOK, HandlersWork, CreatesAlone, ClientsKnown, DropsUnregistered,
            DeletedForGood, DeletedGone, MissedLeft, Undisturbed, OnlineOwned,
            DevicesApart, RowsTrue, Leaving, Unlinked,
            Labels, At, Goto, Done, Busy, Enter, Unused,
            memoryVars, threadVars, diskVars, historyVars, failureVars
<1>1. CASE Insert(r)
  BY <1>1, SMTT(60) DEF Insert
<1>2. CASE Register(r)
  BY <1>2, SMTT(60) DEF Register
<1>3. CASE StartPairing(r)
  BY <1>3, SMTT(60) DEF StartPairing
<1> QED
  BY <1>1, <1>2, <1>3

(* Delete: every handler and reference stays what it was. *)
LEMMA DeleteKnown ==
  ASSUME IndInv, NEW r \in Requests,
         \/ Delete(r)
         \/ Unlink(r)
         \/ Unregister(r)
         \/ DropRow(r)
  PROVE  Known'
<1> USE Distinct
<1> USE DEF IndInv, Known, TypeOK, HandlersWork, CreatesAlone, ClientsKnown, DropsUnregistered,
            DeletedForGood, DeletedGone, MissedLeft,
            Labels, At, Goto, Done, Busy, Enter, Unused,
            memoryVars, threadVars, diskVars, historyVars, failureVars
<1>1. CASE Delete(r)
  BY <1>1, SMTT(60) DEF Delete
<1>2. CASE Unlink(r)
  BY <1>2, SMTT(60) DEF Unlink, LoggedOff
<1>3. CASE Unregister(r)
  BY <1>3, SMTT(60) DEF Unregister
<1>4. CASE DropRow(r)
  BY <1>4, SMTT(60) DEF DropRow
<1> QED
  BY <1>1, <1>2, <1>3, <1>4

(* Delete: a handler alone with its session finds it as it left it. *)
LEMMA DeleteUndisturbed ==
  ASSUME IndInv, NEW r \in Requests,
         \/ Delete(r)
         \/ Unlink(r)
         \/ Unregister(r)
         \/ DropRow(r),
         Known'
  PROVE  Undisturbed'
<1> USE Distinct
<1> USE DEF IndInv, Known, TypeOK, HandlersWork, CreatesAlone, ClientsKnown, DropsUnregistered,
            DeletedForGood, DeletedGone, MissedLeft, Undisturbed,
            Labels, At, Goto, Done, Busy, Enter, Unused,
            memoryVars, threadVars, diskVars, historyVars, failureVars
<1>1. CASE Delete(r)
  BY <1>1, SMTT(60) DEF Delete
<1>2. CASE Unlink(r)
  BY <1>2, SMTT(60) DEF Unlink, LoggedOff
<1>3. CASE Unregister(r)
  BY <1>3, SMTT(60) DEF Unregister
<1>4. CASE DropRow(r)
  BY <1>4, SMTT(60) DEF DropRow
<1> QED
  BY <1>1, <1>2, <1>3, <1>4

(* Delete: no client is left connected by whoever disconnected it. *)
LEMMA DeleteOnline ==
  ASSUME IndInv, NEW r \in Requests,
         \/ Delete(r)
         \/ Unlink(r)
         \/ Unregister(r)
         \/ DropRow(r),
         Known'
  PROVE  OnlineOwned'
<1> USE Distinct
<1> USE DEF IndInv, Known, TypeOK, HandlersWork, CreatesAlone, ClientsKnown, DropsUnregistered,
            DeletedForGood, DeletedGone, MissedLeft, Undisturbed, OnlineOwned,
            Labels, At, Goto, Done, Busy, Enter, Unused,
            memoryVars, threadVars, diskVars, historyVars, failureVars
<1>1. CASE Delete(r)
  BY <1>1, SMTT(60) DEF Delete
<1>2. CASE Unlink(r)
  BY <1>2, SMTT(60) DEF Unlink, LoggedOff
<1>3. CASE Unregister(r)
  BY <1>3, SMTT(60) DEF Unregister
<1>4. CASE DropRow(r)
  BY <1>4, SMTT(60) DEF DropRow
<1> QED
  BY <1>1, <1>2, <1>3, <1>4

(* Delete: no device gets a second client or row. *)
LEMMA DeleteDevices ==
  ASSUME IndInv, NEW r \in Requests,
         \/ Delete(r)
         \/ Unlink(r)
         \/ Unregister(r)
         \/ DropRow(r),
         Known'
  PROVE  DevicesApart'
<1> USE Distinct
<1> USE DEF IndInv, Known, TypeOK, HandlersWork, CreatesAlone, ClientsKnown, DropsUnregistered,
            DeletedForGood, DeletedGone, MissedLeft, DevicesApart,
            Labels, At, Goto, Done, Busy, Enter, Unused,
            memoryVars, threadVars, diskVars, historyVars, failureVars
<1>1. CASE Delete(r)
  BY <1>1, SMTT(60) DEF Delete
<1>2. CASE Unlink(r)
  BY <1>2, SMTT(60) DEF Unlink, LoggedOff
<1>3. CASE Unregister(r)
  BY <1>3, SMTT(60) DEF Unregister
<1>4. CASE DropRow(r)
  BY <1>4, SMTT(60) DEF DropRow
<1> QED
  BY <1>1, <1>2, <1>3, <1>4

(* Delete: the row keeps naming the device of the client. *)
LEMMA DeleteRows ==
  ASSUME IndInv, NEW r \in Requests,
         \/ Delete(r)
         \/ Unlink(r)
         \/ Unregister(r)
         \/ DropRow(r),
         Known'
  PROVE  RowsTrue'
<1> USE Distinct
<1> USE DEF IndInv, Known, TypeOK, HandlersWork, CreatesAlone, ClientsKnown, DropsUnregistered,
            DeletedForGood, DeletedGone, MissedLeft, Undisturbed, DevicesApart, RowsTrue,
            Labels, At, Goto, Done, Busy, Enter, Unused,
            memoryVars, threadVars, diskVars, historyVars, failureVars
<1>1. CASE Delete(r)
  BY <1>1, SMTT(60) DEF Delete
<1>2. CASE Unlink(r)
  <2> USE <1>2 DEF Unlink, LoggedOff
  <2>1. devices' \in {devices, devices \ {store[got[r]]}} /\ devices' \subseteq devices
        /\ UNCHANGED <<up, row, book, client, pending, raced, unsaved, missed>>
        /\ spared \subseteq spared'
    OBVIOUS
  <2>2. ASSUME NEW s \in Ids \ raced, row[s] \in devices'
        PROVE  \/ client[s] \in Clients /\ store'[client[s]] = row[s]
               \/ s \in spared' \cap unsaved
               \/ s \in missed
    <3>1. CASE s \in spared \cap unsaved \/ s \in missed
      BY <2>1, <3>1
    <3>2. CASE client[s] \in Clients /\ store[client[s]] = row[s]
      <4>1. CASE store' = store
        BY <3>2, <4>1
      <4>2. CASE LoggedOff(got[r])
        <5>1. store[got[r]] # row[s]
          BY <2>2, <4>2
        <5>2. got[r] # client[s]
          BY <3>2, <5>1
        <5> QED
          BY <3>2, <4>2, <5>2
      <4> QED
        BY <4>1, <4>2
    <3> QED
      BY <2>1, <2>2, <3>1, <3>2
  <2>3. ASSUME NEW s \in book \ raced, s # arg[r], store'[client[s]] # None
        PROVE  /\ client[s] \notin pending => row[s] = store'[client[s]] \/ s \in unsaved
               /\ \/ store'[client[s]] \in devices'
                  \/ \E q \in Requests : pc'[q] = "forget" /\ arg'[q] = s
    <3>1. client[s] \in Clients /\ got[r] # client[s] /\ store'[client[s]] = store[client[s]]
      BY <2>3
    <3>2. \A q \in Requests : pc[q] = "forget" => pc'[q] = "forget" /\ arg'[q] = arg[q]
      OBVIOUS
    <3> QED
      BY <2>1, <2>3, <3>1, <3>2
  <2>4. ASSUME arg[r] \in book \ raced, store'[client[arg[r]]] # None
        PROVE  client[arg[r]] \notin pending =>
                 row[arg[r]] = store'[client[arg[r]]] \/ arg[r] \in unsaved
    BY <2>1, <2>4
  <2>5. pc'[r] = "forget" /\ arg'[r] = arg[r]
    OBVIOUS
  <2> QED
    BY <2>1, <2>2, <2>3, <2>4, <2>5
<1>3. CASE Unregister(r)
  BY <1>3, SMTT(60) DEF Unregister
<1>4. CASE DropRow(r)
  BY <1>4, SMTT(60) DEF DropRow
<1> QED
  BY <1>1, <1>2, <1>3, <1>4

(* Delete: a session that leaves keeps no stored device. *)
LEMMA DeleteUnlinked ==
  ASSUME IndInv, NEW r \in Requests,
         \/ Delete(r)
         \/ Unlink(r)
         \/ Unregister(r)
         \/ DropRow(r),
         Known', RowsTrue'
  PROVE  Unlinked'
<1> USE Distinct
<1> USE DEF IndInv, Known, TypeOK, HandlersWork, CreatesAlone, ClientsKnown, DropsUnregistered,
            DeletedForGood, DeletedGone, MissedLeft, Undisturbed, OnlineOwned,
            DevicesApart, RowsTrue, Leaving, Unlinked,
            Labels, At, Goto, Done, Busy, Enter, Unused,
            memoryVars, threadVars, diskVars, historyVars, failureVars
<1>1. CASE Delete(r)
  BY <1>1, SMTT(60) DEF Delete
<1>2. CASE Unlink(r)
  BY <1>2, SMTT(60) DEF Unlink, LoggedOff
<1>3. CASE Unregister(r)
  BY <1>3, SMTT(60) DEF Unregister
<1>4. CASE DropRow(r)
  BY <1>4, SMTT(60) DEF DropRow
<1> QED
  BY <1>1, <1>2, <1>3, <1>4

(* Logout and Pair: every handler and reference stays what it was. *)
LEMMA ReplaceKnown ==
  ASSUME IndInv, NEW r \in Requests,
         \/ Logout(r)
         \/ Pair(r)
         \/ DisconnectOld(r)
         \/ Swap(r)
  PROVE  Known'
<1> USE Distinct
<1> USE DEF IndInv, Known, TypeOK, HandlersWork, CreatesAlone, ClientsKnown, DropsUnregistered,
            DeletedForGood, DeletedGone, MissedLeft,
            Labels, At, Goto, Done, Busy, Enter, Unused,
            memoryVars, threadVars, diskVars, historyVars, failureVars
<1>1. CASE Logout(r)
  BY <1>1, SMTT(60) DEF Logout, LoggedOff, NotLoggedOff
<1>2. CASE Pair(r)
  BY <1>2, SMTT(60) DEF Pair
<1>3. CASE DisconnectOld(r)
  BY <1>3, SMTT(60) DEF DisconnectOld
<1>4. CASE Swap(r)
  BY <1>4, SMTT(60) DEF Swap, SetJID
<1> QED
  BY <1>1, <1>2, <1>3, <1>4

(* Logout and Pair: a handler alone with its session finds it as it left it. *)
LEMMA ReplaceUndisturbed ==
  ASSUME IndInv, NEW r \in Requests,
         \/ Logout(r)
         \/ Pair(r)
         \/ DisconnectOld(r)
         \/ Swap(r),
         Known'
  PROVE  Undisturbed'
<1> USE Distinct
<1> USE DEF IndInv, Known, TypeOK, HandlersWork, CreatesAlone, ClientsKnown, DropsUnregistered,
            DeletedForGood, DeletedGone, MissedLeft, Undisturbed,
            Labels, At, Goto, Done, Busy, Enter, Unused,
            memoryVars, threadVars, diskVars, historyVars, failureVars
<1>1. CASE Logout(r)
  BY <1>1, SMTT(60) DEF Logout, LoggedOff, NotLoggedOff
<1>2. CASE Pair(r)
  BY <1>2, SMTT(60) DEF Pair
<1>3. CASE DisconnectOld(r)
  BY <1>3, SMTT(60) DEF DisconnectOld
<1>4. CASE Swap(r)
  BY <1>4, SMTT(60) DEF Swap, SetJID
<1> QED
  BY <1>1, <1>2, <1>3, <1>4

(* Logout and Pair: no client is left connected by whoever disconnected it. *)
LEMMA ReplaceOnline ==
  ASSUME IndInv, NEW r \in Requests,
         \/ Logout(r)
         \/ Pair(r)
         \/ DisconnectOld(r)
         \/ Swap(r),
         Known'
  PROVE  OnlineOwned'
<1> USE Distinct
<1> USE DEF IndInv, Known, TypeOK, HandlersWork, CreatesAlone, ClientsKnown, DropsUnregistered,
            DeletedForGood, DeletedGone, MissedLeft, Undisturbed, OnlineOwned,
            Labels, At, Goto, Done, Busy, Enter, Unused,
            memoryVars, threadVars, diskVars, historyVars, failureVars
<1>1. CASE Logout(r)
  BY <1>1, SMTT(60) DEF Logout, LoggedOff, NotLoggedOff
<1>2. CASE Pair(r)
  BY <1>2, SMTT(60) DEF Pair
<1>3. CASE DisconnectOld(r)
  BY <1>3, SMTT(60) DEF DisconnectOld
<1>4. CASE Swap(r)
  BY <1>4, SMTT(60) DEF Swap, SetJID
<1> QED
  BY <1>1, <1>2, <1>3, <1>4

(* Logout and Pair: no device gets a second client or row. *)
LEMMA ReplaceDevices ==
  ASSUME IndInv, NEW r \in Requests,
         \/ Logout(r)
         \/ Pair(r)
         \/ DisconnectOld(r)
         \/ Swap(r),
         Known'
  PROVE  DevicesApart'
<1> USE Distinct
<1> USE DEF IndInv, Known, TypeOK, HandlersWork, CreatesAlone, ClientsKnown, DropsUnregistered,
            DeletedForGood, DeletedGone, MissedLeft, DevicesApart,
            Labels, At, Goto, Done, Busy, Enter, Unused,
            memoryVars, threadVars, diskVars, historyVars, failureVars
<1>1. CASE Logout(r)
  BY <1>1, SMTT(60) DEF Logout, LoggedOff, NotLoggedOff
<1>2. CASE Pair(r)
  BY <1>2, SMTT(60) DEF Pair
<1>3. CASE DisconnectOld(r)
  BY <1>3, SMTT(60) DEF DisconnectOld
<1>4. CASE Swap(r)
  BY <1>4, SMTT(60) DEF Swap, SetJID
<1> QED
  BY <1>1, <1>2, <1>3, <1>4

(* Logout and Pair: the row keeps naming the device of the client. *)
LEMMA ReplaceRows ==
  ASSUME IndInv, NEW r \in Requests,
         \/ Logout(r)
         \/ Pair(r)
         \/ DisconnectOld(r)
         \/ Swap(r),
         Known'
  PROVE  RowsTrue'
<1> USE Distinct
<1> USE DEF IndInv, Known, TypeOK, HandlersWork, CreatesAlone, ClientsKnown, DropsUnregistered,
            DeletedForGood, DeletedGone, MissedLeft, Undisturbed, DevicesApart, RowsTrue,
            Labels, At, Goto, Done, Busy, Enter, Unused,
            memoryVars, threadVars, diskVars, historyVars, failureVars
<1>1. CASE Logout(r)
  BY <1>1, SMTT(60) DEF Logout, LoggedOff, NotLoggedOff
<1>2. CASE Pair(r)
  BY <1>2, SMTT(60) DEF Pair
<1>3. CASE DisconnectOld(r)
  BY <1>3, SMTT(60) DEF DisconnectOld
<1>4. CASE Swap(r)
  <2> USE <1>4 DEF Swap, SetJID
  <2>1. PICK c \in Clients : /\ Unused(c)
                            /\ client' = [client EXCEPT ![arg[r]] = c]
                            /\ store' = [store EXCEPT ![c] = None]
    OBVIOUS
  <2>2. /\ UNCHANGED <<up, devices, book, pending, raced>> /\ arg[r] \in Ids
        /\ row' \in {row, [row EXCEPT ![arg[r]] = IF @ = None THEN None ELSE NoJid]}
        /\ spared' = spared /\ missed' = missed
        /\ \A s \in Ids \ {arg[r]} : s \in unsaved' <=> s \in unsaved
    OBVIOUS
  <2>3. \A s \in book : row'[s] # None
    BY <2>2
  <2>4. ASSUME NEW s \in Ids \ raced, row'[s] \in devices
        PROVE  \/ client'[s] \in Clients /\ store'[client'[s]] = row'[s]
               \/ s \in spared' \cap unsaved'
               \/ s \in missed
    <3>1. CASE s # arg[r]
      BY <2>1, <2>2, <2>4, <3>1
    <3>2. CASE s = arg[r]
      <4>1. CASE pc[r] = "clear"
        BY <2>4, <3>2, <4>1
      <4>2. CASE pc[r] = "swap"
        BY <2>4, <3>2, <4>2
      <4> QED
        BY <4>1, <4>2
    <3> QED
      BY <3>1, <3>2
  <2>5. ASSUME NEW s \in book \ raced, store'[client'[s]] # None
        PROVE  /\ client'[s] \notin pending => row'[s] = store'[client'[s]] \/ s \in unsaved'
               /\ \/ store'[client'[s]] \in devices
                  \/ \E q \in Requests : pc'[q] = "forget" /\ arg'[q] = s
    <3>1. s # arg[r] /\ client'[s] = client[s] /\ store'[client[s]] = store[client[s]] /\ row'[s] = row[s]
      BY <2>1, <2>2, <2>5
    <3>2. \A q \in Requests : pc[q] = "forget" => pc'[q] = "forget" /\ arg'[q] = arg[q]
      OBVIOUS
    <3> QED
      BY <2>5, <3>1, <3>2
  <2> QED
    BY <2>2, <2>3, <2>4, <2>5
<1> QED
  BY <1>1, <1>2, <1>3, <1>4

(* Logout and Pair: a session that leaves keeps no stored device. *)
LEMMA ReplaceUnlinked ==
  ASSUME IndInv, NEW r \in Requests,
         \/ Logout(r)
         \/ Pair(r)
         \/ DisconnectOld(r)
         \/ Swap(r),
         Known', RowsTrue'
  PROVE  Unlinked'
<1> USE Distinct
<1> USE DEF IndInv, Known, TypeOK, HandlersWork, CreatesAlone, ClientsKnown, DropsUnregistered,
            DeletedForGood, DeletedGone, MissedLeft, Undisturbed, OnlineOwned,
            DevicesApart, RowsTrue, Leaving, Unlinked,
            Labels, At, Goto, Done, Busy, Enter, Unused,
            memoryVars, threadVars, diskVars, historyVars, failureVars
<1>1. CASE Logout(r)
  BY <1>1, SMTT(60) DEF Logout, LoggedOff, NotLoggedOff
<1>2. CASE Pair(r)
  BY <1>2, SMTT(60) DEF Pair
<1>3. CASE DisconnectOld(r)
  BY <1>3, SMTT(60) DEF DisconnectOld
<1>4. CASE Swap(r)
  BY <1>4, SMTT(60) DEF Swap, SetJID
<1> QED
  BY <1>1, <1>2, <1>3, <1>4

(* The clients and the phone: every handler and reference stays what it was. *)
LEMMA ClientKnown ==
  ASSUME IndInv, NEW c \in Clients,
         \/ Scan(c)
         \/ QRTimeout(c)
         \/ Reconnect(c)
         \/ PhoneUnlinks(c)
         \/ HandleEvent(c)
  PROVE  Known'
<1> USE Distinct
<1> USE DEF IndInv, Known, TypeOK, HandlersWork, CreatesAlone, ClientsKnown, DropsUnregistered,
            DeletedForGood, DeletedGone, MissedLeft,
            Labels, At, Goto, Done, Busy, Enter, Unused,
            memoryVars, threadVars, diskVars, historyVars, failureVars
<1>1. CASE Scan(c)
  BY <1>1, SMTT(60) DEF Scan
<1>2. CASE QRTimeout(c)
  BY <1>2, SMTT(60) DEF QRTimeout
<1>3. CASE Reconnect(c)
  BY <1>3, SMTT(60) DEF Reconnect
<1>4. CASE PhoneUnlinks(c)
  BY <1>4, SMTT(60) DEF PhoneUnlinks, LoggedOff
<1>5. CASE HandleEvent(c)
  BY <1>5, SMTT(60) DEF HandleEvent, SetJID
<1> QED
  BY <1>1, <1>2, <1>3, <1>4, <1>5

(* The clients and the phone: a handler alone with its session finds it as it left it. *)
LEMMA ClientUndisturbed ==
  ASSUME IndInv, NEW c \in Clients,
         \/ Scan(c)
         \/ QRTimeout(c)
         \/ Reconnect(c)
         \/ PhoneUnlinks(c)
         \/ HandleEvent(c),
         Known'
  PROVE  Undisturbed'
<1> USE Distinct
<1> USE DEF IndInv, Known, TypeOK, HandlersWork, CreatesAlone, ClientsKnown, DropsUnregistered,
            DeletedForGood, DeletedGone, MissedLeft, Undisturbed,
            Labels, At, Goto, Done, Busy, Enter, Unused,
            memoryVars, threadVars, diskVars, historyVars, failureVars
<1>1. CASE Scan(c)
  BY <1>1, SMTT(60) DEF Scan
<1>2. CASE QRTimeout(c)
  BY <1>2, SMTT(60) DEF QRTimeout
<1>3. CASE Reconnect(c)
  BY <1>3, SMTT(60) DEF Reconnect
<1>4. CASE PhoneUnlinks(c)
  BY <1>4, SMTT(60) DEF PhoneUnlinks, LoggedOff
<1>5. CASE HandleEvent(c)
  BY <1>5, SMTT(60) DEF HandleEvent, SetJID
<1> QED
  BY <1>1, <1>2, <1>3, <1>4, <1>5

(* The clients and the phone: no client is left connected by whoever disconnected it. *)
LEMMA ClientOnline ==
  ASSUME IndInv, NEW c \in Clients,
         \/ Scan(c)
         \/ QRTimeout(c)
         \/ Reconnect(c)
         \/ PhoneUnlinks(c)
         \/ HandleEvent(c),
         Known'
  PROVE  OnlineOwned'
<1> USE Distinct
<1> USE DEF IndInv, Known, TypeOK, HandlersWork, CreatesAlone, ClientsKnown, DropsUnregistered,
            DeletedForGood, DeletedGone, MissedLeft, Undisturbed, OnlineOwned,
            Labels, At, Goto, Done, Busy, Enter, Unused,
            memoryVars, threadVars, diskVars, historyVars, failureVars
<1>1. CASE Scan(c)
  BY <1>1, SMTT(60) DEF Scan
<1>2. CASE QRTimeout(c)
  BY <1>2, SMTT(60) DEF QRTimeout
<1>3. CASE Reconnect(c)
  BY <1>3, SMTT(60) DEF Reconnect
<1>4. CASE PhoneUnlinks(c)
  BY <1>4, SMTT(60) DEF PhoneUnlinks, LoggedOff
<1>5. CASE HandleEvent(c)
  BY <1>5, SMTT(60) DEF HandleEvent, SetJID
<1> QED
  BY <1>1, <1>2, <1>3, <1>4, <1>5

(* The clients and the phone: no device gets a second client or row. *)
LEMMA ClientDevices ==
  ASSUME IndInv, NEW c \in Clients,
         \/ Scan(c)
         \/ QRTimeout(c)
         \/ Reconnect(c)
         \/ PhoneUnlinks(c)
         \/ HandleEvent(c),
         Known'
  PROVE  DevicesApart'
<1> USE Distinct
<1> USE DEF IndInv, Known, TypeOK, HandlersWork, CreatesAlone, ClientsKnown, DropsUnregistered,
            DeletedForGood, DeletedGone, MissedLeft, DevicesApart,
            Labels, At, Goto, Done, Busy, Enter, Unused,
            memoryVars, threadVars, diskVars, historyVars, failureVars
<1>1. CASE Scan(c)
  BY <1>1, SMTT(60) DEF Scan
<1>2. CASE QRTimeout(c)
  BY <1>2, SMTT(60) DEF QRTimeout
<1>3. CASE Reconnect(c)
  BY <1>3, SMTT(60) DEF Reconnect
<1>4. CASE PhoneUnlinks(c)
  BY <1>4, SMTT(60) DEF PhoneUnlinks, LoggedOff
<1>5. CASE HandleEvent(c)
  BY <1>5, SMTT(60) DEF HandleEvent, SetJID
<1> QED
  BY <1>1, <1>2, <1>3, <1>4, <1>5

(* The clients and the phone: the row keeps naming the device of the client. *)
LEMMA ClientRows ==
  ASSUME IndInv, NEW c \in Clients,
         \/ Scan(c)
         \/ QRTimeout(c)
         \/ Reconnect(c)
         \/ PhoneUnlinks(c)
         \/ HandleEvent(c),
         Known'
  PROVE  RowsTrue'
<1> USE Distinct
<1> USE DEF IndInv, Known, TypeOK, HandlersWork, CreatesAlone, ClientsKnown, DropsUnregistered,
            DeletedForGood, DeletedGone, MissedLeft, Undisturbed, DevicesApart, RowsTrue,
            Labels, At, Goto, Done, Busy, Enter, Unused,
            memoryVars, threadVars, diskVars, historyVars, failureVars
<1>1. CASE Scan(c)
  BY <1>1, SMTT(60) DEF Scan
<1>2. CASE QRTimeout(c)
  BY <1>2, SMTT(60) DEF QRTimeout
<1>3. CASE Reconnect(c)
  BY <1>3, SMTT(60) DEF Reconnect
<1>4. CASE PhoneUnlinks(c)
  BY <1>4, SMTT(60) DEF PhoneUnlinks, LoggedOff
<1>5. CASE HandleEvent(c)
  BY <1>5, SMTT(60) DEF HandleEvent, SetJID
<1> QED
  BY <1>1, <1>2, <1>3, <1>4, <1>5

(* The clients and the phone: a session that leaves keeps no stored device. *)
LEMMA ClientUnlinked ==
  ASSUME IndInv, NEW c \in Clients,
         \/ Scan(c)
         \/ QRTimeout(c)
         \/ Reconnect(c)
         \/ PhoneUnlinks(c)
         \/ HandleEvent(c),
         Known', RowsTrue'
  PROVE  Unlinked'
<1> USE Distinct
<1> USE DEF IndInv, Known, TypeOK, HandlersWork, CreatesAlone, ClientsKnown, DropsUnregistered,
            DeletedForGood, DeletedGone, MissedLeft, Undisturbed, OnlineOwned,
            DevicesApart, RowsTrue, Leaving, Unlinked,
            Labels, At, Goto, Done, Busy, Enter, Unused,
            memoryVars, threadVars, diskVars, historyVars, failureVars
<1>1. CASE Scan(c)
  BY <1>1, SMTT(60) DEF Scan
<1>2. CASE QRTimeout(c)
  BY <1>2, SMTT(60) DEF QRTimeout
<1>3. CASE Reconnect(c)
  BY <1>3, SMTT(60) DEF Reconnect
<1>4. CASE PhoneUnlinks(c)
  BY <1>4, SMTT(60) DEF PhoneUnlinks, LoggedOff
<1>5. CASE HandleEvent(c)
  BY <1>5, SMTT(60) DEF HandleEvent, SetJID
<1> QED
  BY <1>1, <1>2, <1>3, <1>4, <1>5

(* Whatever row a deleted session has left names a device only if that was spared. *)
LEMMA DeletedExcused ==
  ASSUME up', Known', RowsTrue', Unlinked'
  PROVE  DeletedForGood'
BY DEF Known, TypeOK, DeletedGone, DeletedForGood, MissedLeft, Restorable, RowsTrue, Leaving, Unlinked

(* Create, step by step. *)
LEMMA CreateInv ==
  ASSUME IndInv, NEW r \in Requests,
         \/ Insert(r)
         \/ Register(r)
         \/ StartPairing(r)
  PROVE  IndInv'
<1>1. Known'
  BY CreateKnown
<1>2. RowsTrue'
  BY <1>1, CreateRows
<1>3. Unlinked'
  BY <1>1, <1>2, CreateUnlinked
<1>4. up'
  BY DEF Insert, Register, StartPairing, At, Enter
<1>5. DeletedForGood'
  BY <1>1, <1>2, <1>3, <1>4, DeletedExcused
<1> QED
  BY <1>1, <1>2, <1>3, <1>5, CreateUndisturbed, CreateOnline, CreateDevices DEF IndInv, Known

(* Delete, step by step. *)
LEMMA DeleteInv ==
  ASSUME IndInv, NEW r \in Requests,
         \/ Delete(r)
         \/ Unlink(r)
         \/ Unregister(r)
         \/ DropRow(r)
  PROVE  IndInv'
<1>1. Known'
  BY DeleteKnown
<1>2. RowsTrue'
  BY <1>1, DeleteRows
<1>3. Unlinked'
  BY <1>1, <1>2, DeleteUnlinked
<1>4. up'
  BY DEF Delete, Unlink, Unregister, DropRow, At, Enter
<1>5. DeletedForGood'
  BY <1>1, <1>2, <1>3, <1>4, DeletedExcused
<1> QED
  BY <1>1, <1>2, <1>3, <1>5, DeleteUndisturbed, DeleteOnline, DeleteDevices DEF IndInv, Known

(* Logout and Pair. *)
LEMMA ReplaceInv ==
  ASSUME IndInv, NEW r \in Requests,
         \/ Logout(r)
         \/ Pair(r)
         \/ DisconnectOld(r)
         \/ Swap(r)
  PROVE  IndInv'
<1>1. Known'
  BY ReplaceKnown
<1>2. RowsTrue'
  BY <1>1, ReplaceRows
<1>3. Unlinked'
  BY <1>1, <1>2, ReplaceUnlinked
<1>4. up'
  BY DEF Logout, Pair, DisconnectOld, Swap, At, Enter
<1>5. DeletedForGood'
  BY <1>1, <1>2, <1>3, <1>4, DeletedExcused
<1> QED
  BY <1>1, <1>2, <1>3, <1>5, ReplaceUndisturbed, ReplaceOnline, ReplaceDevices DEF IndInv, Known

(* The clients, and the phone behind them. *)
LEMMA ClientInv ==
  ASSUME IndInv, NEW c \in Clients,
         \/ Scan(c)
         \/ QRTimeout(c)
         \/ Reconnect(c)
         \/ PhoneUnlinks(c)
         \/ HandleEvent(c)
  PROVE  IndInv'
<1>1. Known'
  BY ClientKnown
<1>2. RowsTrue'
  BY <1>1, ClientRows
<1>3. Unlinked'
  BY <1>1, <1>2, ClientUnlinked
<1>4. up'
  BY DEF Scan, QRTimeout, Reconnect, PhoneUnlinks, HandleEvent, At, Enter
<1>5. DeletedForGood'
  BY <1>1, <1>2, <1>3, <1>4, DeletedExcused
<1> QED
  BY <1>1, <1>2, <1>3, <1>5, ClientUndisturbed, ClientOnline, ClientDevices DEF IndInv, Known

(* The process stops: no more than the databases is left. *)
LEMMA StopInv ==
  ASSUME IndInv, Stop
  PROVE  IndInv'
<1> USE Distinct
<1> USE DEF IndInv, TypeOK, HandlersWork, CreatesAlone, ClientsKnown, DropsUnregistered,
            DeletedForGood, Restorable, Labels, Stop, diskVars
<1>1. TypeOK'
  OBVIOUS
<1>2. (HandlersWork /\ CreatesAlone /\ DropsUnregistered /\ DeletedForGood)'
  OBVIOUS
<1>3. ClientsKnown'
  OBVIOUS
<1>4. Undisturbed' /\ OnlineOwned'
  BY DEF Undisturbed, OnlineOwned
<1>5. DevicesApart'
  BY DEF DevicesApart
<1>6. RowsTrue' /\ Unlinked'
  BY DEF RowsTrue, Unlinked
<1>7. MissedLeft'
  BY DEF MissedLeft, NothingInMemory
<1> QED
  BY <1>1, <1>2, <1>3, <1>4, <1>5, <1>6, <1>7

(* It comes back with what the databases hold. *)
LEMMA RestoreInv ==
  ASSUME IndInv, Restore
  PROVE  IndInv'
<1> USE Distinct
<1> USE DEF IndInv, TypeOK, HandlersWork, CreatesAlone, ClientsKnown, DropsUnregistered,
            DeletedForGood, Labels, At, Restore, Restorable,
            threadVars
<1>1. /\ book' \subseteq {s \in Ids : Restorable(s)}
      /\ client' \in [Ids -> Clients \cup {None}]
      /\ \A s \in Ids : client'[s] = None <=> s \notin book'
      /\ \A s, t \in book' : client'[s] = client'[t] => s = t
      /\ online' \subseteq {client'[s] : s \in book'}
      /\ pending' = online'
  OBVIOUS
<1>2. handler' = [c \in Clients |-> IF \E s \in book' : client'[s] = c
                                   THEN CHOOSE s \in book' : client'[s] = c ELSE None]
  OBVIOUS
<1>3. /\ store' = [c \in Clients |-> IF handler'[c] = None THEN None ELSE row[handler'[c]]]
      /\ \E left \in SUBSET (Ids \ book') :
           /\ row' = [s \in Ids |-> IF s \in book' \cup left THEN row[s] ELSE None]
           /\ missed' = {s \in left : Restorable(s)}
      /\ devices' = devices /\ deleted' = deleted \ book' /\ kept' = kept \ book'
      /\ raced' = raced \ book' /\ spared' = (spared \cap deleted) \ book' /\ unsaved' = {}
      /\ linked' = linked
  OBVIOUS
<1>4. ASSUME NEW c \in Clients
      PROVE  /\ (\E s \in book' : client'[s] = c) => handler'[c] \in book' /\ client'[handler'[c]] = c
             /\ ~(\E s \in book' : client'[s] = c) => handler'[c] = None
  BY <1>2
<1>5. handler' \in [Clients -> Ids \cup {None}]
  BY <1>1, <1>2, <1>4
<1>6. store' \in [Clients -> Jids \cup {None}]
  BY <1>1, <1>3, <1>4
<1>7. TypeOK'
  BY <1>1, <1>3, <1>5, <1>6
<1>8. /\ \A r \in Requests : pc[r] = "idle" /\ pc' = pc /\ arg' = arg
      /\ \A s \in book' : client'[s] \in Clients /\ handler'[client'[s]] = s
  BY <1>1, <1>4
<1>9. ClientsKnown'
  BY <1>1, <1>4, <1>5, <1>8
<1>10. (HandlersWork /\ CreatesAlone /\ DropsUnregistered)'
  BY <1>1, <1>8
<1>11. /\ \A s \in Ids : row'[s] \in {row[s], None} /\ (s \in book' => row'[s] = row[s])
       /\ \A s \in Ids : row'[s] \in devices' => s \in book' \cup missed'
  BY <1>1, <1>3
<1>12. Undisturbed' /\ OnlineOwned'
  BY <1>1, <1>8 DEF Undisturbed, OnlineOwned
<1>13. \A c \in Clients : store'[c] # None => /\ handler'[c] \in book' /\ client'[handler'[c]] = c
                                             /\ store'[c] = row[handler'[c]]
  BY <1>3, <1>4
<1>14. DevicesApart'
  BY <1>1, <1>3, <1>11, <1>13 DEF DevicesApart
<1>15. RowsTrue'
  BY <1>1, <1>3, <1>8, <1>11 DEF RowsTrue
<1>16. DeletedForGood'
  BY <1>1, <1>3, <1>11
<1>17. Unlinked'
  BY <1>1, <1>3, <1>4, <1>8, <1>11 DEF Unlinked, Leaving
<1>18. MissedLeft'
  BY <1>1, <1>3 DEF MissedLeft
<1> QED
  BY <1>7, <1>9, <1>10, <1>12, <1>14, <1>15, <1>16, <1>17, <1>18

LEMMA InitInv == Init => IndInv
BY Distinct DEF Init, NothingInMemory, IndInv, TypeOK, HandlersWork, CreatesAlone,
   ClientsKnown, DropsUnregistered, DeletedForGood, Undisturbed, OnlineOwned, DevicesApart,
   RowsTrue, Restorable, Leaving, Unlinked, MissedLeft, Labels

LEMMA StepInv == IndInv /\ [Next]_vars => IndInv'
<1> SUFFICES ASSUME IndInv, [Next]_vars PROVE IndInv'
  OBVIOUS
<1>1. CASE UNCHANGED vars
  BY <1>1 DEF IndInv, TypeOK, HandlersWork, CreatesAlone, ClientsKnown, DropsUnregistered,
     DeletedForGood, Restorable, Undisturbed, OnlineOwned, DevicesApart, RowsTrue,
     Leaving, Unlinked, MissedLeft, vars, memoryVars, threadVars, diskVars, historyVars, failureVars
<1>2. CASE \E r \in Requests :
       \/ Insert(r) \/ Register(r) \/ StartPairing(r)
       \/ Delete(r) \/ Unlink(r) \/ Unregister(r) \/ DropRow(r)
       \/ Logout(r) \/ Pair(r) \/ DisconnectOld(r) \/ Swap(r)
  BY <1>2, CreateInv, DeleteInv, ReplaceInv
<1>3. CASE \E c \in Clients :
       Scan(c) \/ QRTimeout(c) \/ Reconnect(c) \/ PhoneUnlinks(c) \/ HandleEvent(c)
  BY <1>3, ClientInv
<1>4. CASE Stop \/ Restore
  BY <1>4, StopInv, RestoreInv
<1> QED
  BY <1>1, <1>2, <1>3, <1>4 DEF Next

(* Every variable keeps its type, with sessions, clients and devices racing,    *)
(* failing and being restored in any way.                                      *)
THEOREM TypeCorrect == Spec => []TypeOK
<1>1. IndInv => TypeOK
  BY DEF IndInv
<1> QED
  BY InitInv, StepInv, <1>1, PTL DEF Spec

(* A session whose deletion was answered is not in the book, then and ever after,  *)
(* whatever late event comes and however often the process restarts.  A row is left *)
(* of it only if that could not be deleted, and one that a restart would take up     *)
(* again only if its device could not be deleted either, or requests raced for it.    *)
THEOREM DeletionLasts == Spec => []DeletedForGood
<1>1. IndInv => DeletedForGood
  BY DEF IndInv
<1> QED
  BY InitInv, StepInv, <1>1, PTL DEF Spec

(* The row of a settled session names the stored device of its client, unless      *)
(* setJID failed last; and no stored device if its client has none, unless the logout *)
(* and setJID have both failed.  A race of two requests, or of a request and a scan,   *)
(* for the session excuses it.                                                  *)
THEOREM RestartKeeps == Spec => []RestartKeepsDevices
<1>1. IndInv => RestartKeepsDevices
  <2> SUFFICES ASSUME IndInv, NEW s \in Ids \ raced, Settled(s)
               PROVE  IF store[client[s]] = None THEN Restorable(s) => s \in spared \cap unsaved
                      ELSE s \notin unsaved => Restorable(s) /\ row[s] = store[client[s]]
    BY DEF RestartKeepsDevices
  <2>1. /\ up /\ s \in book /\ client[s] \notin pending /\ None \notin devices
        /\ ~\E r \in Requests : pc[r] = "forget" /\ arg[r] = s
    BY Distinct DEF IndInv, TypeOK, Settled, Busy
  <2>2. s \notin missed
    BY <2>1 DEF IndInv, MissedLeft
  <2> QED
    BY <2>1, <2>2 DEF IndInv, RowsTrue, Restorable
<1> QED
  BY InitInv, StepInv, <1>1, PTL DEF Spec

(* A client that is connected is the one its session in the book has, but for one   *)
(* that could not be logged out at the deletion, and races.                       *)
THEOREM NoClientStrays == Spec => []NoStrayClient
<1>1. IndInv => NoStrayClient
  BY DEF IndInv, OnlineOwned, NoStrayClient, Busy
<1> QED
  BY InitInv, StepInv, <1>1, PTL DEF Spec
=============================================================================
