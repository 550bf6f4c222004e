# A TLA+ model of the calling agent

This directory holds TLA+ specifications of the Go server of this repository (`cmd/server`,
`internal/voip`, `internal/agent`) and of the rows its web client shows, TLC configurations that
model-check them on small instances, and proofs, checked by TLAPS, of what they should guarantee for
every instance. The specifications are translated from the source; where a document and the source
disagree, the model follows the source, and the findings say how they differ.

## The system

The server pairs WhatsApp accounts and places and takes voice calls on them. An operator's
browser, an AI agent, or both, are the local end of a call.

| Component | State it keeps | Operations |
| --- | --- | --- |
| Call state (`call/callstate.go`) | state, direction, AcceptedAt, ConnectedAt of one call | `ApplyTransition` |
| CallManager (`call/callmanager*.go`) | `currentCall`, relay data, codec, SRTP session, stop channel of the audio goroutine | `StartCall`, `AcceptCall`, `RejectCall`, `EndCall`, one handler per stanza and ack, `onRelayConnected`, `onRelayData`, `cleanupMedia` |
| Relay transport (`transport/sctprelay.go`) | map of connections by id, `primaryID`, per connection a state, a stop channel and goroutines | `ConfigureRelays`, `connectToRelay`, `Broadcast`, `Cleanup`, pion's callbacks |
| STUN, subscriptions (`transport/stun.go`, `subscriptions.go`) | none | build and parse registrations, pings, subscription lists |
| Audio pump (`call/callmanager_media.go`) | play queue, jitter hold | `FeedCapturedPCM`, `dispatchAudioFrameLocked`, `FlushCapturedPCM` |
| RTP and SRTP (`media/rtp.go`, `srtp.go`) | sequence numbers, rollover counters, keys | `Protect`, `Unprotect` |
| PCM (`media/pcm.go`) | remainder of a piece | conversions, resampling |
| MLow codec (`media/mlow`) | range coder, frame history, filters | encode and decode a packet |
| Signaling (`signaling`, `wanode`) | none | build and parse stanzas, relay lists, call keys |
| Session (`session.go`) | whatsmeow client, auth state, last callbacks | event handlers, `createCall`, the callbacks of `wireCall`, `setBridge`, `teardownAllCalls`, `scheduleAutoCallback` |
| Call registry (`callregistry.go`) | active calls with bridge, agent, `peerAudioReceived` | `add`, `get`, `remove`, `setBridge`, `drain` |
| Broker (`broker.go`) | live records, history, SSE subscribers | `upsertCall`, `endCall`, `setOwner`, `recordCallEvent`, `broadcast`, `subscribe` |
| Session store (`sessionstore.go`) | SQLite tables | `saveCallRecord`, `insert`, `setJID`, `delete`, queries |
| Session manager (`sessionmanager.go`) | map of sessions | `Create`, `Restore`, `Pair`, `Logout`, `Delete` |
| HTTP API (`httpapi.go`) | none | a handler per route, each a sequence of the above |
| WebRTC bridge (`bridge.go`) | a peer connection to the browser | `NewBridge`, `WritePCM`, `Close`, `OnTerminalICE` |
| Gemini live agent (`agent/gemini_live.go`) | websocket, queue of caller audio, greeting flags | `Start`, `readLoop`, `TriggerGreeting`, `FeedCallerAudio`, `Close` |
| Text agent (`agent/agent.go`, `vad.go`, `openrouter.go`, `tts.go`) | echo gate, speech lock, VAD segment, chat history | `FeedPeerAudio`, `handleCallerSpeech`, `Greet`, `SetEnabled`, `Close` |
| Web client (`client/src`) | call store | reducers over the broker's events |

How the parts meet:

- An HTTP handler, or whatsmeow's event goroutine, looks a call up in the **registry** and calls
  its **CallManager**. The manager answers through three callbacks of the **Session**:
  `OnStateChange`, called with the manager's lock held, and `OnIncoming` and `OnEnded`, called
  without it. The callbacks write to the **Broker** and take the call out of the registry.
- The manager opens **relay** connections through `ConfigureRelays`, asks `HasConnection`, and is
  called back by `onRelayConnected` and `onRelayData` from pion's goroutines.
- The peer's audio goes from `onRelayData` through SRTP and the codec to `OnPeerAudio` and the agent's
  queue; the agent's and the browser's goes into the play queue, which the pump empties.
- The broker tells the browsers over bounded channels and the table over goroutines of their own.
- The browser's audio comes in through a **bridge**, whose end calls `Session.terminateCall`.

What is hard here is concurrency. Every handler drops the manager's lock to talk to the network
and goes on with what it read before; a connection outlives its entry in the map; the registry,
the broker and the manager each have a lock and no operation holds two of them in a fixed
protocol; a callback may run long after the state it reports. Beside that there are counters that
wrap, channels that drop, saves that overtake each other, a process that restarts, and tables an
encoder and a decoder choose by different code. The hazards are listed, each at its line, in
`PROJECT.json`. What makes a component correct:

- *Call state, CallManager*: the lifecycle goes forward; an end is final for state, reports and
  media; audio is sent only when it may be; an accepted call with an open relay becomes active.
- *Relay transport*: the map names only live connections; nothing connects for ever.
- *Session, registry, broker, bridge, API*: the record, the entry and the bridge follow the call;
  an ended call occupies nothing; the limit on calls; every live call can be ended; who was missed is
  called back once, and who was answered is not.
- *Audio pump, Gemini agent*: speech leaves in order, none twice; an interruption silences it; a turn
  ends; the report under the manager's lock returns.
- *SRTP, caller's audio*: both ends agree on the rollover counter; a full queue loses the old frames.
- *Session manager and store*: a deleted session stays deleted; a restart brings back what ran; one
  client per session acts; and what exactly a failed write costs.
- *Broker fan-out, store and web client*: a browser and the table end with the truth, but for what is
  dropped, overtaken, lost, or never told.
- *Text agent*: it does not answer itself; its history is bounded; every turn ends.
- *Codec, STUN, signaling, PCM*: what is written is what is read.

## The modules

| Module | What it is |
| --- | --- |
| `CallState` | `CallInfo` and the transition table of `ApplyTransition` |
| `CallContract` | abstract: what a CallManager promises its Session |
| `RelayContract` | abstract: what the relay transport looks like to the CallManager |
| `CallManager` | the manager in detail; implements `CallContract`, over `RelayContract` |
| `RelayManager` | the relay transport in detail; implements `RelayContract` |
| `CallRecords` | Session, registry, broker, bridges and API around one call; over `CallContract` |
| `SessionCalls` | all calls of one session: limit, hang-ups, shutdown, auto-callback |
| `SessionBook` | sessions, their clients, table and devices, with restarts |
| `CallFeed` | the broker's subscribers, the browser's rows and the call history |
| `VoiceAgent` | the Gemini agent and the play queue it speaks into |
| `TextAgent` | the agent of text and synthesised speech |
| `MediaPath` | RTP and SRTP counters both ways, and the way of a frame to the agent's queue |
| `RangeStep` | one symbol of the range coder: the interval chosen, the symbol found |
| `RangeCoder`, `MlowFrame`, `MlowDecoder` | entropy coding of the codec: coder, frame written, frame read |
| `WireBytes`, `RtpHeader`, `StunAttribute` | numbers as bytes, the RTP header with the IV's mask, one STUN attribute |
| `Protobuf`, `Stun`, `RtpWire`, `Signaling` | bytes and nodes on each of the other wires, over those |
| `RelayOrder` | the order in which a call tries its relays |
| `PcmStream` | the two readers that take audio in pieces: the audio websocket, and the agent's resampler |
| `Wire` | each of these written and read back |
| `MC*` | constants and symmetry of a run, where the `.cfg` does not suffice |
| `*_proofs` | proofs about `CallManager`, `RelayManager`, `CallRecords`, `SessionCalls`, `SessionBook`, `CallFeed`, `MediaPath` with `PcmStream`, and both agents (`Agents_proofs`); `RelayManager_proofs` also has the packets, `MediaPath_proofs` the range coder |

There are three seams. `CallManager` and `RelayManager` meet in `RelayContract`: the manager's
behaviours on the relays are behaviours of the contract (`RelaySpec`), and the transport implements
it (`ContractSpec` of `RelayManager`). `CallManager` and `CallRecords` meet in `CallContract`: the
manager implements it, and every step of the manager in `CallRecords` is a step of it. `SessionCalls`
has many managers, and each of them alone behaves as `CallContract` says (`ManagersKeepContract`). The other
modules keep of their neighbours what they use, and their heads say what that is.

### CallManager

A goroutine `t` is at `pc[t]`, the critical section it runs next; a section is one action. The
goroutines are the API's (`Callers`), `"dial"` (`StartCall`), `"event"` (whatsmeow's, which handles
stanzas one at a time) and `"ack"`. What a handler keeps in a local variable across an unlock and
uses later is state (`captured`, the call itself, `absent`). `cur` is `m.currentCall # nil`, and
`call` the `CallInfo` that handlers still point to after `cur` is `FALSE`. `codec`, `srtp`,
`keepalive` are the manager's media fields, `tickers` counts the audio goroutines whose stop channel
nobody closed. `panicked` is `m.mu` locked for good. `told`, `nIncoming`, `nEnded` are the callbacks.

### RelayManager

A connection is `<<id, n>>`, so that a new connection of an id differs from the one before it, which
still has a goroutine in `connectToRelay` (`step`), a timeout (`timer`), a keepalive, callbacks pion
has queued (`onOpen`, `onClose`, `onFailed`), and teardowns under way (`tearing`, `closing`).
`registered` is the map. pion is the environment: it opens, closes or fails a link that has not been
closed, and runs each callback some time later, on a goroutine of its own.

### CallRecords

`phase`, `tracked`, `told`, `nIncoming`, `nEnded` are the manager as `CallContract` has it. A step
that emits a state takes the manager's lock (`reporter`) and keeps it through the steps of
`OnStateChange` (`report`): read the broker's snapshot, write it back, or, for an end, take the entry
out and file the record. `registered`, `bridge`, `audio` are the registry's entry, `conn` the peer
connections, `live` and `filed` the broker's record in `calls` and in `history`. Registry and broker
operations are atomic, as their mutexes make them; handlers are sequences of them. Of a record the
model keeps the status, the owner and whether ConnectedAt is set.

### SessionCalls

A manager is a number; `phase` is the state of its `currentCall` (the code's states, as `CallState`
names them), `reg` the registry. An accept that comes while the call still initiates is lost. `Requests` are HTTP handlers
that dial, a peer is also the goroutine `scheduleAutoCallback` starts for him, `Hangups` are the
goroutines of `doEndCall`, `doReject`, `TerminalICE` and `teardownAllCalls`, and `"event"` is
whatsmeow's. `recent` is `lastCallbacks`, `jobs` what a `drain` has returned. The limit is tested in
one action (`Dial`, `OfferTest`) and used in another (`Create`, `OfferCreate`), as the code has it, and
a call is published by `Create` and made by `StartCall`. `crashed` is the panic of the auto-callback's
goroutine, which nothing recovers.

### SessionBook

`book`, `client` and `store` are the sessions in memory, their whatsmeow clients and the devices these
have; `row` and `devices` are the two databases. A handler's steps are its reads and writes of them.
A client keeps its `handler` when its session gets another one, and what it has to hand over
(`pending`) may come any time later. `Stop` leaves only the databases, and `Restore` is the start of
the process. Memory that nothing refers to is the next client.

A logout may fail before or after the client has disconnected, and so may each write whose error the
code discards: `DeleteDevice` and the deletion of the row in `Delete`, and `setJID` in `Logout` and in
the handlers. Those of `Delete` and `Logout` run under the request's context (`httpapi.go:243`, `:251`), which
whoever asked cancels by leaving, so that a failed logout is just when they fail too. `Delete` answers
as done anyhow. The history variables say what failed: `linked` (a client that could not be logged out),
`kept` (a row that could not be deleted), `spared` (a device that stayed), `unsaved` (a jid that was not
written), and `missed`. For `Restore` deletes the row of a session whose device it cannot read
(`sessionmanager.go:120-124`), stored or not, and may fail at that as well: `missed` are the sessions it
has neither taken up nor deleted. If it cannot list the rows the server does not start.

### CallFeed

A record is the number of its last change. `rev`, `shown` and `filed` are the broker's: the record, what
a row shows of it while it is in `calls`, and its first entry in `history`. A call that is over may be
upserted again (`doStartCall` does it late), is then in both, and may be filed a second time, behind the
first entry; an event that comes after goes to the first. `told` is the last upsert, which `shown` is
ahead of when the owner was set since: `setOwner` neither broadcasts nor saves. `saves` are the goroutines of
`saveCallRecord`, each with the copy it was given; a save may fail and nobody learns of it. `stored` is
the table, which a restart reads into the history, or fails to. A goroutine that changes
a record has a list of what it will broadcast (`todo`), made under the broker's lock and sent after it;
`"snapshot"` is a list of calls that is taken when it is sent. `queue` is a browser's channel, `view`
its call store. The history variables `alone`, `doubtful`, `crossed` and `unsaved` say where the two
properties make an exception, and only there. The limits of 50 and 100 rows of the history's queries and
which fields of a record a change touches are left out.

### VoiceAgent

A sample is its part and its place in the part, so that order and repetition show. `starting` are the
two goroutines that may call `Start`, `reading` is the read loop between two of its critical sections
(the part in hand is `chunk`), `trigger` the first `TriggerGreeting`: called with the manager's lock
held (`locked`), it sets `callActive`, takes `prewarmed` and leaves it to a goroutine that sleeps
150 ms (`buffered`). The pump plays a frame, or the rest when nothing came for 400 ms (`quiet`), but only
while a relay is `connected`; relays come and go as they like (`RelayChanges`), and without one the pump
returns early and leaves queue and `wasPlaying` as they are.

### TextAgent

A frame is loud or not, and is marked (`echo`) when it comes to the gate while the agent is heard or
less than `Cooldown` ticks after. Ticks are a clock of their own (`Tick`, `since`): frames may come at any
point of it, `streamAudioWithCooldown` sleeps `Cooldown` of them, and nothing ties them to the steps of the
other goroutines. `frame`
is what `FeedPeerAudio` has let past the gate and the VAD has not seen, so that the gate may shut or open
in between; `vad` is the VAD's counters
and whether its segment holds echo. A turn waits for `lock`, asks, retries, tries the engines in their
order, speaks and cools down. Edge's dial has a deadline but its writes and reads have none
(`tts.go:429-452`), so a turn may be `"hanging"` in it until the server answers (`EdgeReturns`,
`GreetAtLast`) or the agent is closed. `history` is the chat client's list of roles. The server constructs no
`AIAgent`; the module is about what the package offers.

### MediaPath

A packet is its place in its sender's stream. `send` and `recv` are the contexts (`roc`, `lastSeq`,
`initialized`), one receiving context per SRTP session, since `HandleCallAccept` makes new ones while
the pump goes on. `Unprotect` runs on each relay's goroutine without a lock, so its read and its write
of the context are steps of their own (`ReadContext`, `WriteContext`, `ComputeIndex`). Go orders the three
fields of a context no further. Where the model says that an index comes out right the rollover
counter is the same before and after each write that goes on at the time, and `lastSeq` is any packet's
on the same side of the wrap, so that reading the fields of two writes gives the same index; where they
differ the context is no longer `tame` and nothing is claimed. `queued` counts
the frames in `audioInCh`; `FeedCallerAudio` is its three `select` statements.

### The wires

`Wire` has one step for each wire: it takes an item, has it written by the operators translated from
the writing code and read by those from the reading code, and keeps both. `RangeCoder` has the
coder's arithmetic with the widths as constants, the choice of an interval and of a symbol in `RangeStep`; `MlowFrame` the tables an encoder chooses from lag
indices and `MlowDecoder` those a decoder chooses from contours (their contents are stand-ins, their
shapes and the rules that choose them the code's); `Stun` attributes, padding and the lengths digests
are computed over; `RtpWire` header, IV and tag; `Signaling` stanzas as nodes. HMAC, AES and CRC are a
digest in which every byte and its place count. The relay's side of STUN and protobuf's reader are
external: they are modelled from what the client sends and expects.

`PcmStream` is a state machine of its own, whose steps are messages of any bytes: `direct` is what
`handleDirectAudioWS` keeps between them (`byteBuf`, `resampleBuf`) with the samples it has fed to the
call, `voice` the resampler of the live agent and what was fed from it, `came` and `spoken` the bytes
that came since the last clear or interruption. `Wire` runs it on lists of messages, one a step.

## The runs

| Run | Checks | Instance |
| --- | --- | --- |
| `callmanager` | `MediaTeardownFinal`, `NoAudioBeforeAnswer`, `NoLostMediaConnect`, `ContractSpec`, `AcceptedCallConnects`, `DroppedCallReleased` | 2 API goroutines, 1 relay |
| `relaymanager` | `RegisteredLive`, `ContractSpec`, `ConnectingResolves`, `DeadLinkUnregistered`, `KeepaliveEnds` | 1 id, 2 connections of it |
| `callrecords` | `BridgeFollowsCall`, `LateWritesOnly`, `EndedCallLeaves`, `ConnectedAtKept` | 1 request, 2 bridges |
| `sessioncalls` | `LimitUpToRacers`, `LiveCallsReachable`, `MissedCalledBack`, `ManagersKeepContract` | 1 request, 1 hang-up goroutine, 1 peer, limit 1, 2 calls made by requests and offers |
| `sessionbook` | `DeletedForGood`, `RestartKeepsDevices`, `NoStrayClient` | 1 session, 2 devices, 3 clients, 2 requests |
| `callfeed` | `ViewCurrent`, `StoredCurrent` | 1 call, 2 emitters, channel of 1, 4 changes |
| `voiceagent` | `SpokenInOrder`, `AtMostOneStranded`, `FlushCutsSpeech`, `ReportReturns`, `SpeechEnds` | frames of 2 samples, 3 parts of 1 or 3, greeting of 3 |
| `textagent` | `NoEchoAnswered`, `HistoryBounded`, `TurnEnds` | 2 turns, 3 engines, segments of 3 frames, cooldown of 2 ticks, history of 2, 2 failures |
| `mediapath` | `SendIndexTrue`, `RecvIndexTrue`, `FreshKept` | 2 relays, sequence numbers modulo 4, 3 packets in 2 copies, 2 sessions, queue of 1 |
| `wire` | `RoundTrip`, `CutsInaudible`, `RelaysInOrder` | the items of `MCWire`; streams of up to 13 bytes cut anywhere, with a clear or another message between |
| `teardown`, `answeredcall` | `TeardownCompletes`, `AnsweredNotCalledBack`: violated, see the findings | 1 API goroutine; 2 requests |

In words, what the passing runs establish:

- `MediaTeardownFinal`: once the cleanup of a dropped call is through, no handler still under way
  brings back codec, keys or audio goroutine. That rests on `initSrtpKeysLocked` looking at
  `currentCall`, on `startSilenceKeepaliveLocked` looking at the codec, and on the media connect
  being illegal in an ended call.
- `NoAudioBeforeAnswer`: a relay that opens while an incoming call rings sends nothing of it.
- `NoLostMediaConnect`: `AcceptCall` looks at the relays and then the relay's callback looks at the
  call, in different sections; whichever comes second sees the other. With fair goroutines such a call
  becomes active or ends (`AcceptedCallConnects`), and a dropped one gives its media back
  (`DroppedCallReleased`) unless the lock is gone (finding 1).
- `ContractSpec` of the manager: lifecycle edges only, no report of a dropped call, `OnEnded` at most
  once and only for a call that ended.
- `RegisteredLive`: although every delete and `OnClose` go by id and may hit a later connection, the
  map never keeps a dead one. `ConnectingResolves`, `DeadLinkUnregistered`, `KeepaliveEnds`: nothing
  connects for ever, a dead link leaves the map, a stopped keepalive ends.
- `BridgeFollowsCall`: however `setBridge`, its replacement, `removeCall` and `drain` interleave, an
  open browser connection belongs to a registered call or to a teardown that is about to close it.
- `LateWritesOnly`: reports, made under the manager's lock, never bring an ended call's record back;
  the two upserts made without it (`doStartCall`'s and `OnIncoming`'s) can, and are the only ones.
- `EndedCallLeaves`: an ended call leaves the registry, where it would count against the limit of
  calls, although nobody calls `OnEnded` for one that the offer's ack ended.
- `ConnectedAtKept`: the merge in `upsertCall` keeps ConnectedAt over every later write.
- `LimitUpToRacers`: the limit on calls is not kept, since each handler tests it before it makes its
  call; it is exceeded by no more than the calls being set up at once beyond the first. Calls back are
  made whatever the limit says and are not counted.
- `LiveCallsReachable`: a call that rings or talks is in the registry or in the hands of a goroutine
  that will end it. Two kinds of call escape, and `dropped` records just these: one hung up between its
  publication and `StartCall`, which is dialled nevertheless, and one whose offer went unanswered.
- `ManagersKeepContract`: whatever the session's goroutines do to each other, each call moves as
  `CallContract` has it: forward only, and not answered before its offer is out.
- `MissedCalledBack`: who was missed, or asked for a call, is dialled, unless he is on the phone when
  the goroutine wakes up, or the process has panicked.
- `DeletedForGood`: no late event of its client brings a deleted session back. Its row is left only if it
  could not be deleted (`kept`), and a restart takes it up again only if the device could not be deleted
  either (`spared`), or requests raced for the session: both happen when whoever asked leaves during
  the logout.
- `RestartKeepsDevices`: what a restart finds is what runs. The row of a session nobody works on names the
  stored device of its client, unless its last `setJID` failed (`unsaved`); and when the client has none,
  no stored device, unless the logout and `setJID` both failed. Two requests on one session, or a scan
  during one, are excused (`raced`).
- `NoStrayClient`: a connected client is that of a session in the book, except one that could not be
  logged out at the deletion (`linked`) and the same races.
- `ViewCurrent`: a browser that has taken all that was sent shows exactly the calls the broker has, each
  as of its last upsert or an owner set since, unless an event was dropped or two goroutines emitted at
  once since the last list that went
  out alone (`doubtful`). Then it may show an ended call until the next list.
- `StoredCurrent`: when nothing of a call is being saved the history shows its last change, also one made
  after its end or after it was filed twice, unless two
  saves of it were under way at once (`crossed`), the last save failed, or an owner was set since
  (`unsaved`).
- `SpokenInOrder`, `AtMostOneStranded`, `FlushCutsSpeech`: stored greeting and live speech are each
  heard in order and once, though the greeting may come after live speech; a pick-up strands one part
  at most; after an interruption nothing older is played but the greeting. `ReportReturns`: the report
  under the manager's lock ends though the agent feeds a queue under that lock. `SpeechEnds`: a turn's
  rest is played and the call falls silent, unless the relays are lost meanwhile: then the turn stays open
  for as long.
- `NoEchoAnswered`: no segment that is answered holds a frame that came to the gate from the start of a
  speech to the end of its cooldown, whichever frame was let through before and whatever the VAD held,
  unless `SetEnabled(false)` or `Close` opened the gate in that time (`turnedOff`). An echo that takes longer
  than the cooldown does come through: the model knows when a frame arrives and not what it holds.
  `HistoryBounded`: the
  prompt stays first, and each failed chat since the last success adds one message above the limit.
  `TurnEnds`: every turn ends, whatever service fails, unless Edge hangs for ever and nobody closes the
  agent.
- `SendIndexTrue`: our packets are protected with their true index, unless the keys were set again
  after a wrap. `RecvIndexTrue`: the peer's are decrypted with theirs, with any number of goroutines in
  the context, as long as the context is `tame`: it saw a packet before the first wrap, never missed half a
  cycle, got no packet from behind a wrap that it had passed, and had no two goroutines inside at once
  with packets from both sides of a wrap or with the wrap still to count. Each of these makes the code
  count a wrap twice or not at all, for the rest of the call. `FreshKept`: a frame of the caller is given up only for a
  newer one that took the room made for it.
- `RoundTrip`, `CutsInaudible`, `RelaysInOrder`: what one side writes the other reads, or the writer
  reports that its buffer is too small; audio cut anywhere is fed whole; relays come all, closest
  first, with the tokens of their own ids.

Each property has a mutant in `PROJECT.json`: an operator beside the definition it changes, named
`...Mutant`, under which the property fails. The type invariants are conjuncts of the invariants proved
below.

### Bounds

- `callmanager`: two API goroutines let any two of the API's operations race beside the dialler, the
  peer, an ack and the relay; each runs as many as it likes. What several connections of one relay do
  to each other is `RelayManager`'s, where an id has two, so that an old one can hit a new one
  (`MaxConns`). Ids do not interact except in `Cleanup`, which is the same for each.
- `callrecords`: a request runs once; two bridges are what a replacement needs. One call: registry and
  broker are maps by call id.
- `sessioncalls`: with a limit of one, a request, the event goroutine and a call back are three that
  set up calls at once, so that the limit is exceeded. `MaxDialled` bounds only requests and offers; the
  debounce bounds the calls back. One goroutine hangs up or shuts the session down, while the event
  goroutine ends calls too.
- `sessionbook`: two requests on one session with an old and a new client, and a third for the client
  a restore or a second swap makes. Ids are never reused, so one session shows what becomes of it.
- `callfeed`: a channel of one is full after the first of an emitter's two events; four changes are an
  upsert, an end, a second upsert and its end, or an owner and an event in between, and make a save
  overtake another.
- `voiceagent`: parts shorter and longer than a frame, so that a part leaves a rest; a greeting that
  overflows; a part before, during and after it.
- `textagent`: a segment can be shut by its length or by silence, and the history overflows at once. Two
  ticks of cooldown have a middle, in which frames come and the agent may be turned off and on.
- `mediapath`: first numbers 2 and 3 modulo 4, so that the third packet and the second wrap; two copies
  over two relays make a packet meet itself, and two packets of one side of the wrap be in the context at
  once. The proofs have none of these bounds but the constants.
- `wire`: tables are small, and each case that selects another table, padding or field is among the
  items.

Deadlock is not checked: calls end, and then nothing need happen.

### Fairness

`FairSpec` gives weak fairness to what the Go scheduler runs. In `CallManager`: a goroutine that is at
a section and can take the lock runs it, and a `Query` ends, because `wa.Socket` limits it to
15 seconds. In `RelayManager` also the timeout and the keepalive's ticker, and pion running the
callbacks of a link that changed. In `SessionCalls` the goroutines that dial and the four seconds'
sleep. In `VoiceAgent` the read loop's sections, the greeting's goroutine, the pump's ticker and the
passing of 400 ms. In `TextAgent` the steps of a turn, since each request but Edge's has a client's
timeout, the passing of time, and that a hanging Edge is left once the context is cancelled;
`speechLock` goes to each that waits, which Go's mutexes see to after a millisecond of starvation. That
Edge's server answers is assumed by `TurnEnds` itself, as its premise (`EdgeLetsGo`).
Nothing is assumed of the environment: calls need not start, peers need not answer, relays need not
open or stay, Gemini need not speak.

## Findings

Two runs check what a text of the repository says and the code does not keep.

1. `teardown` / `TeardownCompletes`: a call that ends between the two sections of `StartCall` makes it
   dereference nil with `m.mu` held; the lock is gone, and the media is never given back.
2. `answeredcall` / `AnsweredNotCalledBack`: whoever empties the registry before `OnEnded` reads the
   entry (a logout, or a second DELETE) makes an answered call a missed one, which is called back.

Two more texts do not agree with the code; no run is about them.

- `README.md:191` says that a logout keeps the account for re-pairing. It does while the process runs;
  `Restore` deletes the row of a session whose jid is empty (`sessionmanager.go:110-113`), so a restart
  before the next pairing loses the account. `RestartKeepsDevices` is about devices and does not ask
  that such a session be kept.
- `AI_AGENT_GUIDELINES.md:66` has an echo cooldown of 400 ms; `agent.go:283` passes 250 ms. `Cooldown` is a
  constant of the model, and what is checked and proved holds for any.

The models also reach states of which no text of the repository says that they should not be:

- One failing read of a device in `Restore` deletes the row of a session that is paired, and the device
  stays stored without a session.
- `AcceptCall` sets the call to connecting before it sends the accept stanza, and a relay that opens
  in between starts the audio.
- A `Cleanup` between a connection's registration and its wiring closes nothing, and the connection
  then opens, in no map; two teardowns of one connection may both find `stopCh` open, and the second
  close panics.
- A call hung up before `StartCall` is unregistered and dialled nevertheless.
- An accept that comes before `StartCall` has recorded the offer as sent is discarded, and the call
  rings on. A second bridge for a call ends the call, by the terminal ICE state of the first.
- A `Delete` whose caller leaves during the logout answers as done and leaves row and device, and the next
  start brings the session back. A `Logout` cut short in the same way is undone by a restart. `Pair` and
  `Logout` at once can leave a client online that no session has.
- An owner that is set is shown and stored only with the next change of the record. A call upserted after
  its end is filed twice, and later events go to the first of the two.
- While no relay is connected a turn of the agent stays open and its queue stands still.
- An Edge server that accepts the connection and says nothing holds `speechLock` until the agent is
  closed: no turn is answered and no greeting spoken meanwhile.
- Packets from both sides of a wrap that are unprotected at once, or the wrap's own packet beside
  another, may step the rollover counter twice or not at all.
- `setCallOutcome` of a call that is over is lost. A save that overtakes a newer one leaves the older.
- New keys under a running stream that has wrapped start their rollover counter at zero.
- Turning the text agent off while it speaks opens its gate, and it hears the rest of itself.

## The proofs

TLAPS checks the following for every value of the constants that satisfies the module's assumption.

| Module | Theorems | Assumption |
| --- | --- | --- |
| `CallManager_proofs` | `Invariance`, `TypeCorrect`, `TeardownIsFinal`, `SilentUntilAnswered`, `MediaConnectNotLost`, `Refinement`, `RelayUse` | the API's goroutines are not the three named ones |
| `RelayManager_proofs` | `Invariance`, `TypeCorrect`, `RegisteredAreLive`, `Refinement`; `RelaysSorted`; of the packets: `HeaderReadBack`, `MaskTellsPacketsApart`, `AttributeReadBack` | `MaxConns` is a positive number; none for the relays' order and the packets |
| `CallRecords_proofs` | `Invariance`, `TypeCorrect`, `BridgesFollow`, `EndedCallsLeave`, `OnlyLateWrites`, `ConnectedAtStays`, `ManagerUse` | requests, bridges and named goroutines differ |
| `SessionCalls_proofs` | `TypeCorrect`, `LimitKept`, `CallsReachable`, `EachManagerKeepsContract`, `ManagerImplementsContract` | a limit above 0, finitely many requests and peers, goroutines that differ |
| `SessionBook_proofs` | `TypeCorrect`, `DeletionLasts`, `RestartKeeps`, `NoClientStrays` | finitely many devices and clients; the two null values are none of the ids |
| `CallFeed_proofs` | `TypeCorrect`, `RowsCurrent`, `HistoryCurrent` | finitely many calls, a channel that holds something |
| `Agents_proofs` | of `TextAgent`: `TypeCorrect`, `NoEcho`, `BoundedHistory`; of `VoiceAgent`: `VoiceTypes`, `VoiceSpokenInOrder`, `VoiceOneStranded`, `VoiceFlushCuts` | the greeter is no turn, the engines include those that need no key, positive limits; frames, greetings and parts hold at least one sample |
| `MediaPath_proofs` | `TypeCorrect`, `SendIndices`, `RecvIndices`, `FreshFrames`; of `PcmStream`: `StreamTypes`, `StreamCutsInaudible`, `SignalSurvives`; of `RangeStep`: `SymbolFound`, `BitFound`, `IcdfFound`, `CdfFound`, `DigitsFollowed` | an even cycle of 4 or more; none for the streams and the coder |

`RelaysSorted`, `SignalSurvives` and the theorems about packets and the range coder are about operators:
any relays, any bytes, any header, any interval and table. Each of the others goes by an inductive invariant (`IndInv`; `VoiceInv` and `StreamInv` where two modules share a proof module),
stated in the component's module with a comment for every conjunct: that it holds at first, that a step
keeps it and that it implies the property are combined in the theorem's last step. Why the properties
are not inductive alone:

- *CallManager*: `MediaTeardownFinal` needs that the audio goroutine runs exactly while its stop
  channel is set (`TickersCounted`), that nothing has happened before the call exists
  (`NothingBeforeCreation`) and that an ack's goroutine is only ever in an ack's sections
  (`AckSections`). That `OnEnded` comes once needs that one goroutine at most is on its way to it
  (`EndedOnce`), and `OnIncoming` the same (`IncomingOnce`). `NoAudioBeforeAnswer` needs that a call
  leaves ringing only through an accept (`AnsweredStates`). The proof goes by groups of actions that
  change the same fields; the refinements map each action to a step of the contract or a stutter.
- *RelayManager*: an id has one registered connection (`OnePerId`), a number not used yet is untouched,
  a connection opens once. `FailConnection` and `CloseConnection` have lemmas of their own, because
  they hit whatever the id names now.
- *CallRecords*: `LateWritesOnly` speaks of moments when nobody is at work; `EndedRecordLeaves` says the
  same of every moment. It needs that a report tells the state the call still has, because the lock is
  held (`ReportedState`), that nobody can write for a call that does not exist (`Creation`), and which
  goroutines come to which steps (`Sections`). `ConnectedAtStays` rests on `RecordWriters`. `ManagerUse`
  is the other side of the seam: step by step, what the records' goroutines have the manager do
  is a transition of `CallContract` or a stutter, so that they ask nothing of it that it does not promise.
- *SessionCalls*: reachability has to hold of a call from its making, before it rings (`AllReachable`);
  a hang-up that is through has ended its call or let it escape (`HungUp`); who sets a call up has it to
  himself (`ThreadsOwn`). That managers do not run out needs that no peer is called back twice
  (`CalledOnce`, by cardinalities). The limit has a proof of its own (`LimitStep`): the sum of counted
  calls and of those let in grows only at a test that found the registry below its limit. That each
  manager keeps the contract (`EachManagerKeepsContract`) needs who may still set up a call and which
  calls have been told of (`ManagersMade`, `ThreadsOwn`); a behaviour of the session is then one of the
  contract for any of its managers (`ManagerImplementsContract`).
- *SessionBook*: `DeletedForGood` needs that only `Create` works on a session that is not in the book
  (`CreatesAlone`), that a row about to go has left the book (`DropsUnregistered`), and that every
  reference leads to a client (`ClientsKnown`). The other two are about settled moments, so the
  induction says what holds between a handler's steps: one that is alone with its session finds it as
  it left it (`Undisturbed`), one that has disconnected the client leaves none connected
  (`OnlineOwned`), no two clients or rows have one device (`DevicesApart`), and the row names the
  client's device once the client's events are handed over (`RowsTrue`). What failed writes leave behind
  is in the same conjuncts as exceptions, and `Unlinked` says of a session on its way out that its
  client has no stored device but for those. `MissedLeft` says that a session `Restore` has missed has a
  row and nothing else, and if it was deleted is among the exceptions.
- *CallFeed*: what is queued for a browser takes it from the rows it has to the broker's (`Leads`), and
  what an emitter that is alone has yet to broadcast does so or changes nothing (`Settles`); the
  induction needs both, for any list on the way. `SavesCurrent` says of the table that the one save
  under way, or else the row, is the last change. `InOrder`: upsert, owner and record come in this order,
  so that there always are rows between them for a browser to have (`Current`).
- *TextAgent*: one goroutine at most is between Lock and Unlock (`OneSpeaks`), and while it sleeps no more
  ticks have gone by than it has slept (`Cooling`), so the gate is shut until the cooldown is over, and
  nothing that came through it, is held by the VAD or is being answered is echo (`GateShut`).
- *MediaPath*: our context is one packet behind the stream (`OwnStream`); a tame context has the number
  of the packet it saw last and has counted the wraps before it (`TameReached`). The goroutines inside it
  are on one side of every wrap: what each has read brings it to its packet, and what it has written has
  counted the wraps before it, whoever wrote last (`TameTogether`). The arithmetic of half a cycle is in
  lemmas of its own.
- *VoiceAgent*: that a sample is heard once and in its order needs to know where the others are. The
  part the read loop works on is the last that came and is nowhere else yet (`ChunkIsLast`), nothing
  elsewhere is as new (`AllOlder`), the stored greeting stays apart from the queue until its goroutine
  feeds it in one piece (`GreetingApart`), and what is queued comes after what was heard
  (`QueueFollows`). That one part at most is stranded needs that the greeting is taken after the call
  was made active (`TriggerSteps`), so that only a part whose test came before can be stored after it
  (`StrandedAlike`).
- *PcmStream*: between two messages the buffers hold just what does not make a sample, or a triple of
  them, yet (`LeftOver`). That a resampler which goes on from its rest gives what one gives for the
  whole is a lemma about sequences (`DownsampleJoined`), and so is the same for bytes.
- `RelaysSorted`: each relay is ahead of or behind every other (`AheadOrder`), so counting those ahead
  gives the relays the places from first to last (`RankOrder`); the sorted list then has all of them, in
  order, and equals as they were. `SignalSurvives`: the way out divides by 32768 and the way back
  multiplies by 32767, which costs one unit at most and never the sign (`SampleKept`).

- *Packets*: what a reader finds at a place depends only on the parts written before it, so the proof
  of `HeaderReadBack` goes along the header: each part begins where the sizes of those before it say, and
  joining them is one operator of which only lengths and elements are known. The two bytes of flags are
  taken apart by division. `MaskTellsPacketsApart` takes the mask apart the same way, byte by byte.
  `AttributeReadBack` is one turn of the loop, with any bytes before and behind.
- *Range coder*: the encoder's interval and the decoder's distance from its top name one point (`With`).
  `SymbolFound` rests on a fact about quotients (`QuotientBelow`) and on what lies above and below a
  symbol (`AboveBelow`, `LowestBelow`). In a table the search can end at one place only, since the table
  falls or rises. `DigitsFollowed` shows that the point may be read a digit at a time. The theorems say
  of one symbol what a whole body needs for each; that a body is read as it was written is their
  repetition and the encoder's way with carries, which `RoundTrip` checks.

Only model-checked:

- Liveness (`AcceptedCallConnects`, `DroppedCallReleased`, `ConnectingResolves`, `DeadLinkUnregistered`,
  `KeepaliveEnds`, `MissedCalledBack`, `ReportReturns`, `SpeechEnds`, `TurnEnds`): it rests on fairness,
  and so on ENABLED, which the prover does not treat.
- `RoundTrip` and `RelaysInOrder`: their operators parse bytes and nodes and write symbols by recursion
  and some by bits, and the prover has no induction over data. What stands between two turns of those
  recursions is proved: of the first the samples' way (`SignalSurvives`), the RTP header, the STUN
  attribute and the range coder's symbol, of the second the sort (`RelaysSorted`).

## Not modelled

- The codec's signal processing: LPC analysis, LTP search, CELP encoding and synthesis, filters
  (`analysis.go`, `celp_enc.go`, `pitch_enc.go`, `lsf_seed.go`, most of `encoder.go` and `decoder.go`),
  `dsp.go` and the linear resampler. They are arithmetic over floats whose errors are heard, not states
  that are reached; TLC has neither reals nor the ranges.
- Key derivation and the cryptography itself; SSRC generation; contents of the codec's tables.
- Stanzas that are constant nodes (terminate, reject, preaccept, transport, mute), and what a handler
  does with formats beyond those of `Signaling`: in the state machines an action takes what parsing can
  yield as its input.
- `primaryID` and `Broadcast` of the relay transport, SSRCs and pids, the data channel's own protocol.
- Texts and times of records, messages sent to the caller, the QR display, auth and session events.
- Read-only handlers, agent configuration, the CRM client, `main.go`, the scripts, the web client but
  for its call store. They keep no state others wait for, or none at all.
- `stt.go`, which nothing calls, and the requests of `tts.go` and `openrouter.go` beyond their outcome.

## What could follow

`primaryID` and `Broadcast` in `RelayManager`, with a stale primary; a second browser that reconnects in
`CallFeed`, to show when the next list repairs it; the
audio listeners of the registry; the WebRTC playback worklet; the encoder's carries, with a proof that
what is held back in `rem` and `ext` is the lower end of the interval.
