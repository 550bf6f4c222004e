------------------------------ MODULE SessionBook ------------------------------
(***************************************************************************)
(* The sessions of the server (cmd/server/sessionmanager.go, sessionstore.go,   *)
(* the connection half of session.go): the book in memory, the sessions table,  *)
(* the devices whatsmeow stores, and the client each session has at the time.   *)
(*                                                                         *)
(* Requests create, delete, log out and pair sessions in goroutines of their    *)
(* own; a client's events come later, and also after its session has got        *)
(* another client; the process may stop between any two steps, and Restore then  *)
(* makes the sessions anew from the table and the devices.                      *)
(*                                                                         *)
(* Writes to the database are made without a look at their error.  Those of a    *)
(* Delete or a Logout run under the request's context, which is cancelled when   *)
(* whoever asked leaves: then the logout fails as well, and the writes after it.  *)
(*                                                                         *)
(* whatsmeow and the phone are outside: a client logs in, stores its device,    *)
(* reconnects by itself, and is unlinked by the phone when they like.  The calls *)
(* that a new client ends are SessionCalls'.                                   *)
(***************************************************************************)
EXTENDS Naturals, FiniteSets

CONSTANTS
  Ids,       \* session ids (newSessionID); none is given twice
  Jids,      \* devices the phones hand out
  Clients,   \* whatsmeow clients alive at a time
  Requests   \* HTTP handlers

None   == "none"     \* no row, no device
NoJid  == "no jid"   \* a row without a jid: NULL or ""

ASSUME BookAssumption ==
  /\ IsFiniteSet(Jids) /\ IsFiniteSet(Clients)
  /\ {None, NoJid} \cap (Ids \cup Jids \cup Clients) = {}

VARIABLES
  up,        \* the process runs
  row,       \* the sessions table
  devices,   \* the devices of whatsmeow's container
  book,      \* SessionManager.sessions
  client,    \* Session.client
  store,     \* each client's Store.ID
  online,    \* clients that are connected, or will reconnect by themselves
  handler,   \* the session whose handler a client calls
  pending,   \* clients with a Connected, or a "success" of their QR channel, to hand over
  pc, arg,   \* each handler's next step and its session
  got,       \* the client it has read or made
  deleted,   \* history: sessions whose Delete has come back
  raced,     \* history: sessions two requests, or a request and a scan, have worked on at once
  linked,    \* history: clients a Delete could not log out
  kept,      \* history: sessions whose row Delete could not delete
  spared,    \* history: sessions whose device a Delete or a Logout has left stored
  unsaved,   \* history: sessions whose last setJID failed
  missed     \* history: sessions the last Restore could neither read nor delete

memoryVars == <<book, client, store, online, handler, pending>>
threadVars == <<pc, arg, got>>
diskVars   == <<row, devices>>
failureVars == <<linked, kept, spared, unsaved, missed>>
historyVars == <<deleted, raced, failureVars>>
vars == <<up, diskVars, memoryVars, threadVars, historyVars>>

Labels == {"idle", "register", "pairing", "unlink", "forget", "drop", "replace", "swap",
           "clear"}

(* Every variable has its type.                                              *)
TypeOK ==
  /\ up \in BOOLEAN
  /\ row \in [Ids -> Jids \cup {None, NoJid}]
  /\ devices \subseteq Jids
  /\ book \subseteq Ids
  /\ client \in [Ids -> Clients \cup {None}]
  /\ store \in [Clients -> Jids \cup {None}]
  /\ online \subseteq Clients
  /\ handler \in [Clients -> Ids \cup {None}]
  /\ pending \subseteq Clients
  /\ pc \in [Requests -> Labels]
  /\ arg \in [Requests -> Ids \cup {None}]
  /\ got \in [Requests -> Clients \cup {None}]
  /\ deleted \subseteq Ids /\ raced \subseteq Ids /\ linked \subseteq Clients
  /\ kept \subseteq Ids /\ spared \subseteq Ids /\ unsaved \subseteq Ids /\ missed \subseteq Ids

NothingInMemory ==
  /\ book = {}
  /\ client = [s \in Ids |-> None]
  /\ store = [c \in Clients |-> None]
  /\ online = {}
  /\ handler = [c \in Clients |-> None]
  /\ pending = {}
  /\ pc = [r \in Requests |-> "idle"]
  /\ arg = [r \in Requests |-> None]
  /\ got = [r \in Requests |-> None]

Init ==
  /\ up = TRUE
  /\ row = [s \in Ids |-> None]
  /\ devices = {}
  /\ NothingInMemory
  /\ deleted = {} /\ raced = {} /\ linked = {} /\ kept = {} /\ spared = {} /\ unsaved = {}
  /\ missed = {}

----------------------------------------------------------------------------
(* Handlers.                                                                  *)

At(r, l) == up /\ pc[r] = l

Goto(r, l) == pc' = [pc EXCEPT ![r] = l] /\ UNCHANGED <<arg, got>>

Done(r) ==
  /\ pc'  = [pc EXCEPT ![r] = "idle"]
  /\ arg' = [arg EXCEPT ![r] = None]
  /\ got' = [got EXCEPT ![r] = None]

Busy(s) == \E r \in Requests : arg[r] = s

(* A handler takes on a session it finds in the book.                           *)
Enter(r, s, l, c) ==
  /\ At(r, "idle")
  /\ s \in book
  /\ pc'  = [pc EXCEPT ![r] = l]
  /\ arg' = [arg EXCEPT ![r] = s]
  /\ got' = [got EXCEPT ![r] = c]
  /\ raced' = IF Busy(s) THEN raced \cup {s} ELSE raced

(* Memory nothing refers to any more, where the next client is made.              *)
Unused(c) ==
  /\ c \notin online \cup pending
  /\ \A s \in Ids : client[s] # c
  /\ \A r \in Requests : got[r] # c

(* Mutant: the row is written whether it is there or not.                         *)
SetJIDMutant(s, j) ==
  /\ row' = [row EXCEPT ![s] = j]
  /\ unsaved' = unsaved \ {s}

(* setJID is an UPDATE: a row that is gone stays gone.  Nobody learns of its failure. *)
SetJID(s, j) ==
  \/ /\ row' = [row EXCEPT ![s] = IF @ = None THEN None ELSE j]
     /\ unsaved' = unsaved \ {s}
  \/ /\ unsaved' = unsaved \cup {s}
     /\ UNCHANGED row

----------------------------------------------------------------------------
(* Create: the row, then the session with a client, then pairing.  A pairing      *)
(* that cannot start leaves both behind.                                        *)

Insert(r) ==
  /\ At(r, "idle")
  /\ \E s \in Ids \ deleted :
       /\ row[s] = None /\ s \notin book /\ ~Busy(s)
       /\ row' = [row EXCEPT ![s] = NoJid]
       /\ arg' = [arg EXCEPT ![r] = s]
  /\ pc' = [pc EXCEPT ![r] = "register"]
  /\ UNCHANGED <<up, devices, memoryVars, got, historyVars>>

Register(r) ==
  /\ At(r, "register")
  /\ \E c \in Clients :
       /\ Unused(c)
       /\ client'  = [client EXCEPT ![arg[r]] = c]
       /\ handler' = [handler EXCEPT ![c] = arg[r]]
       /\ store'   = [store EXCEPT ![c] = None]
       /\ linked'  = linked \ {c}
  /\ book' = book \cup {arg[r]}
  /\ Goto(r, "pairing")
  /\ UNCHANGED <<up, diskVars, online, pending, deleted, raced, kept, spared, unsaved, missed>>

(* startPairing on the client the session has by now: GetQRChannel refuses one     *)
(* that is connected or paired, and Connect may fail.                            *)
StartPairing(r) ==
  /\ At(r, "pairing")
  /\ LET c == client[arg[r]] IN
       \/ online' = online
       \/ c \notin online /\ store[c] = None /\ online' = online \cup {c}
  /\ Done(r)
  /\ UNCHANGED <<up, diskVars, book, client, store, handler, pending, historyVars>>

----------------------------------------------------------------------------
(* Delete: log out, or disconnect a client that was never paired; then the book,    *)
(* then the row.                                                              *)

Delete(r) ==
  /\ \E s \in book : Enter(r, s, "unlink", client[s])
  /\ UNCHANGED <<up, diskVars, memoryVars, deleted, failureVars>>

(* client.Logout: the server unlinks the device, the client disconnects and its     *)
(* device is deleted.                                                          *)
LoggedOff(c) ==
  /\ devices' = devices \ {store[c]}
  /\ store' = [store EXCEPT ![c] = None]
  /\ online' = online \ {c}

(* A logout may fail before anything is done, or once the client has disconnected;    *)
(* the device is stored in either case.                                         *)
NotLoggedOff(c) ==
  /\ online' \in {online, online \ {c}}
  /\ UNCHANGED <<store, devices>>

(* When the logout fails the stored device goes on its own, if the database lets it:  *)
(* the client may stay connected.                                               *)
Unlink(r) ==
  /\ At(r, "unlink")
  /\ LET c == got[r] IN
       IF store[c] # None
       THEN \/ c \in online /\ LoggedOff(c) /\ UNCHANGED <<linked, spared>>
            \/ /\ online' \in {online, online \ {c}}
               /\ linked' = IF c \in online' THEN linked \cup {c} ELSE linked
               /\ \/ devices' = devices \ {store[c]} /\ UNCHANGED spared
                  \/ spared' = spared \cup {arg[r]} /\ UNCHANGED devices
               /\ UNCHANGED store
       ELSE online' = online \ {c} /\ UNCHANGED <<devices, store, linked, spared>>
  /\ Goto(r, "forget")
  /\ UNCHANGED <<up, row, book, client, handler, pending, deleted, raced, kept, unsaved, missed>>

Unregister(r) ==
  /\ At(r, "forget")
  /\ book' = book \ {arg[r]}
  /\ Goto(r, "drop")
  /\ UNCHANGED <<up, diskVars, client, store, online, handler, pending, historyVars>>

(* Delete comes back as done, also when the row could not be deleted.              *)
DropRow(r) ==
  /\ At(r, "drop")
  /\ \/ row' = [row EXCEPT ![arg[r]] = None] /\ UNCHANGED kept
     \/ kept' = kept \cup {arg[r]} /\ UNCHANGED row
  /\ deleted' = deleted \cup {arg[r]}
  /\ Done(r)
  /\ UNCHANGED <<up, devices, memoryVars, raced, linked, spared, unsaved, missed>>

----------------------------------------------------------------------------
(* Logout and Pair.                                                            *)

(* Logout tries to log the client out, and goes on without it.                   *)
Logout(r) ==
  /\ \E s \in book :
       /\ Enter(r, s, "replace", client[s])
       /\ LET c == client[s] IN
            \/ c \in online /\ store[c] # None /\ LoggedOff(c) /\ UNCHANGED spared
            \/ store[c] # None /\ NotLoggedOff(c) /\ spared' = spared \cup {s}
            \/ store[c] = None /\ UNCHANGED <<devices, store, online, spared>>
  /\ UNCHANGED <<up, row, book, client, handler, pending, deleted, linked, kept, unsaved, missed>>

(* Pair is refused for a session that is paired.                                 *)
Pair(r) ==
  /\ \E s \in book : store[client[s]] = None /\ Enter(r, s, "replace", None)
  /\ UNCHANGED <<up, diskVars, memoryVars, deleted, failureVars>>

(* Mutant: the client that is replaced stays connected.                           *)
DisconnectOldMutant(r) ==
  /\ At(r, "replace")
  /\ UNCHANGED online
  /\ Goto(r, IF got[r] = None THEN "swap" ELSE "clear")
  /\ UNCHANGED <<up, diskVars, book, client, store, handler, pending, historyVars>>

(* replaceClient disconnects the session's client ...                             *)
DisconnectOld(r) ==
  /\ At(r, "replace")
  /\ online' = online \ {client[arg[r]]}
  /\ Goto(r, IF got[r] = None THEN "swap" ELSE "clear")
  /\ UNCHANGED <<up, diskVars, book, client, store, handler, pending, historyVars>>

(* ... and puts a new one in its place.  The old one's handler stays, and what it  *)
(* still hands over is taken as the session's.  In Logout the row follows, or not.   *)
Swap(r) ==
  /\ pc[r] \in {"swap", "clear"} /\ up
  /\ \E c \in Clients :
       /\ Unused(c)
       /\ client'  = [client EXCEPT ![arg[r]] = c]
       /\ handler' = [handler EXCEPT ![c] = arg[r]]
       /\ store'   = [store EXCEPT ![c] = None]
       /\ linked'  = linked \ {c}
  /\ IF pc[r] = "swap" THEN Goto(r, "pairing") /\ UNCHANGED <<row, unsaved>>
     ELSE SetJID(arg[r], NoJid) /\ Done(r)
  /\ UNCHANGED <<up, devices, book, online, pending, deleted, raced, kept, spared, missed>>

----------------------------------------------------------------------------
(* Clients.                                                                   *)

(* The code is scanned: the device is stored, and the events follow.               *)
Scan(c) ==
  /\ up /\ c \in online /\ store[c] = None
  /\ \E j \in Jids \ (devices \cup {store[d] : d \in Clients}) :
       /\ \A s \in Ids : row[s] # j
       /\ store' = [store EXCEPT ![c] = j]
       /\ devices' = devices \cup {j}
  /\ pending' = pending \cup {c}
  /\ raced' = IF Busy(handler[c]) THEN raced \cup {handler[c]} ELSE raced
  /\ UNCHANGED <<up, row, book, client, online, handler, threadVars, deleted, failureVars>>

(* The QR codes run out: the client is disconnected.                               *)
QRTimeout(c) ==
  /\ up /\ c \in online /\ store[c] = None
  /\ online' = online \ {c}
  /\ UNCHANGED <<up, diskVars, book, client, store, handler, pending, threadVars, historyVars>>

(* A paired client connects again.                                                *)
Reconnect(c) ==
  /\ up /\ c \in online /\ store[c] # None
  /\ pending' = pending \cup {c}
  /\ UNCHANGED <<up, diskVars, book, client, store, online, handler, threadVars, historyVars>>

(* The phone unlinks the device.                                                  *)
PhoneUnlinks(c) ==
  /\ up /\ c \in online /\ store[c] # None
  /\ LoggedOff(c)
  /\ UNCHANGED <<up, row, book, client, handler, pending, threadVars, historyVars>>

(* Mutant: the handler writes the jid of the client that calls it.                 *)
HandleEventMutant(c) ==
  /\ up /\ c \in pending
  /\ pending' = pending \ {c}
  /\ IF store[c] # None THEN SetJID(handler[c], store[c]) ELSE UNCHANGED <<row, unsaved>>
  /\ UNCHANGED <<up, devices, book, client, store, online, handler, threadVars, deleted, raced,
                 linked, kept, spared, missed>>

(* handleEvent and the goroutine that reads the QR channel write the jid of the     *)
(* client the session has now, whoever calls.  LoggedOut and a timeout only change   *)
(* what is shown.                                                              *)
HandleEvent(c) ==
  /\ up /\ c \in pending
  /\ pending' = pending \ {c}
  /\ LET now == client[handler[c]] IN
       IF store[now] # None THEN SetJID(handler[c], store[now]) ELSE UNCHANGED <<row, unsaved>>
  /\ UNCHANGED <<up, devices, book, client, store, online, handler, threadVars, deleted, raced,
                 linked, kept, spared, missed>>

----------------------------------------------------------------------------
(* The process.                                                                *)

(* A crash, or main coming to its end: only the database is left.                  *)
Stop ==
  /\ up
  /\ up' = FALSE
  /\ book' = {}
  /\ client' = [s \in Ids |-> None]
  /\ store' = [c \in Clients |-> None]
  /\ online' = {}
  /\ handler' = [c \in Clients |-> None]
  /\ pending' = {}
  /\ pc' = [r \in Requests |-> "idle"]
  /\ arg' = [r \in Requests |-> None]
  /\ got' = [r \in Requests |-> None]
  /\ raced' = raced \cap deleted /\ linked' = {}
  /\ UNCHANGED <<diskVars, deleted, kept, spared, unsaved, missed>>

(* A row with a jid whose device is stored comes back.                             *)
Restorable(s) == row[s] \in devices

(* Restore, before the server listens, takes up the sessions whose device it can read; *)
(* the other rows are deleted, if they can be.  A client that cannot connect at once is *)
(* only logged about.  A session that comes back is one again, whoever had deleted it. *)
Restore ==
  /\ ~up
  /\ up' = TRUE
  /\ book' \in SUBSET {s \in Ids : Restorable(s)}
  /\ \E left \in SUBSET (Ids \ book') :
       /\ row' = [s \in Ids |-> IF s \in book' \cup left THEN row[s] ELSE None]
       /\ missed' = {s \in left : Restorable(s)}
  /\ deleted' = deleted \ book' /\ kept' = kept \ book'
  /\ raced' = raced \ book' /\ spared' = (spared \cap deleted) \ book' /\ unsaved' = {}
  /\ \E f \in [Ids -> Clients \cup {None}] :
       /\ \A s \in Ids : f[s] = None <=> s \notin book'
       /\ \A s, t \in book' : f[s] = f[t] => s = t
       /\ client' = f
       /\ \E on \in SUBSET {f[s] : s \in book'} : online' = on
       /\ handler' = [c \in Clients |-> IF \E s \in book' : f[s] = c
                                        THEN CHOOSE s \in book' : f[s] = c ELSE None]
       /\ store' = [c \in Clients |-> IF handler'[c] = None THEN None ELSE row[handler'[c]]]
  /\ pending' = online'
  /\ UNCHANGED <<devices, threadVars, linked>>

----------------------------------------------------------------------------
Next ==
  \/ \E r \in Requests :
       \/ Insert(r) \/ Register(r) \/ StartPairing(r)
       \/ Delete(r) \/ Unlink(r) \/ Unregister(r) \/ DropRow(r)
       \/ Logout(r) \/ Pair(r) \/ DisconnectOld(r) \/ Swap(r)
  \/ \E c \in Clients : Scan(c) \/ QRTimeout(c) \/ Reconnect(c) \/ PhoneUnlinks(c) \/ HandleEvent(c)
  \/ Stop
  \/ Restore

Spec == Init /\ [][Next]_vars

----------------------------------------------------------------------------
(* Properties.                                                                *)

(* A session whose deletion was answered is gone: no late event of its client and no   *)
(* restart brings it back.  Its row is there only if it could not be deleted, and it    *)
(* names a stored device, with which Restore would take it up again, only if that       *)
(* could not be deleted either, or requests raced for the session.                   *)
DeletedForGood ==
  \A s \in deleted :
    /\ s \notin book
    /\ row[s] # None => s \in kept
    /\ Restorable(s) => s \in spared \cup raced

(* No handler works on the session, and its client has nothing to hand over.        *)
Settled(s) ==
  /\ up /\ s \in book /\ ~Busy(s)
  /\ client[s] \notin pending

(* What a restart finds is what runs: the row of a settled session names the stored    *)
(* device of its client, unless setJID failed last; and when the client has none,       *)
(* because it was logged out or the phone unlinked it, the row names no device that is   *)
(* stored, unless both the logout and setJID failed.  (Such a session is not restored    *)
(* at all.)  Two requests at once on one session, or a scan while one replaces the       *)
(* client, may break it.                                                        *)
RestartKeepsDevices ==
  \A s \in Ids \ raced :
    Settled(s) => IF store[client[s]] = None THEN Restorable(s) => s \in spared \cap unsaved
                  ELSE s \notin unsaved => Restorable(s) /\ row[s] = store[client[s]]

(* A client that takes calls is the client of a session in the book, unless it could   *)
(* not be logged out when its session was deleted, or two requests raced.            *)
NoStrayClient ==
  \A c \in online :
    LET s == handler[c] IN
      s \in raced \/ c \in linked \/ Busy(s) \/ (s \in book /\ client[s] = c)
----------------------------------------------------------------------------
(* The inductive invariant behind them.                                         *)

(* A handler at work has a session; while the process is down none is.             *)
HandlersWork ==
  /\ \A r \in Requests : IF pc[r] = "idle" THEN arg[r] = None ELSE up /\ arg[r] \in Ids
  /\ ~up => online = {} /\ pending = {} /\ linked = {}

(* Only Create works on a session that is not in the book yet, or has no client;     *)
(* one that has left the book is being deleted.                                   *)
CreatesAlone ==
  /\ \A r \in Requests : pc[r] = "register" =>
       /\ arg[r] \notin book \cup deleted
       /\ client[arg[r]] = None /\ row[arg[r]] = NoJid
       /\ \A q \in Requests \ {r} : arg[q] # arg[r]
  /\ \A s \in Ids \ (book \cup deleted) :
       client[s] # None => \E r \in Requests : pc[r] = "drop" /\ arg[r] = s

ClientsKnown ==
  /\ \A s \in book : client[s] \in Clients
  /\ \A r \in Requests : pc[r] \notin {"idle", "register"} => client[arg[r]] \in Clients
  /\ \A r \in Requests : pc[r] = "unlink" => got[r] \in Clients /\ handler[got[r]] = arg[r]
  /\ \A s \in Ids : client[s] # None => handler[client[s]] = s
  /\ \A c \in online \cup pending : handler[c] \in Ids
  /\ \A c \in Clients : handler[c] # None => client[handler[c]] \in Clients

(* A session whose row is about to go has left the book.                            *)
DropsUnregistered == \A r \in Requests : pc[r] = "drop" => arg[r] \notin book

(* A handler alone with its session finds it as it left it; the client it replaces    *)
(* has no device, unless that was spared.                                        *)
Undisturbed ==
  \A r \in Requests : pc[r] # "idle" /\ arg[r] \notin raced =>
    /\ \A q \in Requests \ {r} : arg[q] # arg[r]
    /\ pc[r] \notin {"register", "drop"} => arg[r] \in book
    /\ pc[r] = "unlink" => got[r] = client[arg[r]]
    /\ pc[r] \in {"replace", "swap", "clear"} =>
         \/ store[client[arg[r]]] = None
         \/ arg[r] \in spared /\ pc[r] # "swap" /\ got[r] # None

(* A handler that has disconnected its session's client leaves none connected.      *)
OnlineOwned ==
  \A c \in online \ linked :
    LET s == handler[c] IN
      s \notin raced =>
        /\ s \in book /\ client[s] = c
        /\ \A r \in Requests : arg[r] = s => pc[r] \in {"pairing", "unlink", "replace"}

(* No two clients have one device, and no two rows; a row with the device of a       *)
(* client is that of its handler.                                               *)
DevicesApart ==
  /\ \A c, d \in Clients : store[c] = store[d] /\ c # d => store[c] = None
  /\ \A s, t \in Ids : row[s] = row[t] /\ s # t => row[s] \notin Jids
  /\ \A s \in Ids, c \in Clients : row[s] \in Jids /\ store[c] = row[s] => handler[c] = s

(* The row of a session nobody raced for names no other device than its client's,    *)
(* but for failures, and this one as soon as the client has handed its events over.   *)
RowsTrue ==
  /\ \A s \in book : row[s] # None
  /\ up => \A s \in Ids \ raced :
       row[s] \in devices => \/ client[s] \in Clients /\ store[client[s]] = row[s]
                            \/ s \in spared \cap unsaved
                            \/ s \in missed
  /\ \A s \in book \ raced : store[client[s]] # None =>
       /\ client[s] \notin pending => row[s] = store[client[s]] \/ s \in unsaved
       /\ store[client[s]] \in devices \/ \E r \in Requests : pc[r] = "forget" /\ arg[r] = s

(* A handler that deletes the session has come past the logout, or come back.          *)
Leaving(s) == s \in deleted \/ \E r \in Requests : pc[r] \in {"forget", "drop"} /\ arg[r] = s

(* The client of a session that is deleted, or nearly, has no stored device, but for     *)
(* failures and races; and only those are left connected.                            *)
Unlinked ==
  /\ up => \A s \in Ids \ (raced \cup spared) :
       Leaving(s) /\ client[s] \in Clients => store[client[s]] \notin devices
  /\ \A c \in linked : handler[c] \in raced \/ Leaving(handler[c])
  /\ \A c \in linked \cap online : handler[c] \in raced \/ store[c] # None

(* A session that Restore has missed has a row and no more, until the next Restore.     *)
MissedLeft ==
  \A s \in missed :
    /\ s \notin book /\ client[s] = None /\ row[s] \in Jids
    /\ s \in deleted => s \in spared \cup raced

IndInv ==
  /\ TypeOK /\ HandlersWork /\ CreatesAlone /\ ClientsKnown /\ DropsUnregistered
  /\ DeletedForGood /\ Undisturbed /\ OnlineOwned /\ DevicesApart /\ RowsTrue /\ Unlinked
  /\ MissedLeft
=============================================================================
