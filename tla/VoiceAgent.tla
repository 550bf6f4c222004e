------------------------------ MODULE VoiceAgent ------------------------------
(***************************************************************************)
(* The Gemini Live agent of one call (internal/agent/gemini_live.go) and the  *)
(* playback queue it speaks into (internal/voip/call/callmanager_media.go),   *)
(* wired as Session.createCall and OnStateChange wire them.                   *)
(*                                                                         *)
(* The agent is started while the call rings and asks Gemini for a greeting.  *)
(* What it hears before the call is active is stored; TriggerGreeting, called *)
(* from OnStateChange with the manager's lock held, hands the stored greeting *)
(* to a goroutine of its own.  After that the read loop feeds the queue        *)
(* itself, and the pump takes one frame from it every 60 ms.                  *)
(*                                                                         *)
(* Gemini is the environment: it confirms the setup, answers the greeting      *)
(* request with audio and reports that the caller interrupted it.  A sample    *)
(* stands for a fraction of a frame and is named by its part and its place.    *)
(***************************************************************************)
EXTENDS Naturals, Sequences

CONSTANTS
  FrameSize,    \* samples in a frame of the codec
  MaxGreeting,  \* the most samples of a greeting that are stored
  PartSizes,    \* how many samples the resampler makes of one part
  MaxParts      \* bound: audio parts Gemini sends in the call

ASSUME SizesAssumption ==
  /\ FrameSize \in Nat \ {0}
  /\ MaxGreeting \in Nat \ {0}
  /\ PartSizes \subseteq Nat \ {0}
  /\ MaxParts \in Nat

(* "ring" starts the agent during the ring or the dialling, "pickup" is the     *)
(* goroutine TriggerGreeting spawns when nobody has.                          *)
Starters == {"ring", "pickup"}

VARIABLES
  started, ready, active, closed,   \* the agent's flags; active is callActive
  asked,      \* the greeting was requested of Gemini
  starting,   \* where each starter is in Start
  reading,    \* where the read loop is
  chunk,      \* the samples of the part the read loop is working on
  received,   \* parts received
  prewarmed,  \* prewarmedGreeting
  trigger,    \* where the first TriggerGreeting is
  buffered,   \* the greeting its goroutine holds during the 150 ms
  locked,     \* OnStateChange runs TriggerGreeting with the manager's lock held
  playQueue, wasPlaying,
  quiet,      \* 400 ms have passed since lastCaptureAt
  link,       \* the pump: not running, running, stopped by the end of the call
  connected,  \* relay.HasConnection(): some relay is open
  stored,     \* history: the parts that went into prewarmed
  heard,      \* history: the samples that were sent to the peer
  cut         \* history: parts received when the queue was last flushed

agentVars  == <<started, ready, active, closed, asked, starting>>
readVars   == <<reading, chunk, received>>
greetVars  == <<prewarmed, trigger, buffered, locked>>
queueVars  == <<playQueue, wasPlaying, quiet>>
linkVars   == <<link, connected>>
voiceVars == <<agentVars, readVars, greetVars, queueVars, linkVars, stored, heard, cut>>

Parts == 1..MaxParts

Samples == Parts \X Nat

PartsOf(samples) == {samples[i][1] : i \in DOMAIN samples}

(* Every variable has its type.                                              *)
VoiceTypeOK ==
  /\ started \in BOOLEAN /\ ready \in BOOLEAN /\ active \in BOOLEAN /\ closed \in BOOLEAN
  /\ asked \in BOOLEAN /\ locked \in BOOLEAN /\ wasPlaying \in BOOLEAN /\ quiet \in BOOLEAN
  /\ starting \in [Starters -> {"none", "start", "dial", "setup", "done"}]
  /\ reading \in {"none", "read", "feed", "store", "flush", "reset", "gone"}
  /\ received \in 0..MaxParts
  /\ chunk \in Seq(Samples) /\ prewarmed \in Seq(Samples) /\ buffered \in Seq(Samples)
  /\ playQueue \in Seq(Samples) /\ heard \in Seq(Samples)
  /\ Len(prewarmed) <= MaxGreeting
  /\ trigger \in {"idle", "triggered", "take", "sleep", "done"}
  /\ link \in {"down", "up", "gone"} /\ connected \in BOOLEAN
  /\ stored \subseteq Parts
  /\ cut \in 0..MaxParts

VoiceInit ==
  /\ started = FALSE /\ ready = FALSE /\ active = FALSE /\ closed = FALSE
  /\ asked = FALSE
  /\ starting = [s \in Starters |-> IF s = "ring" THEN "start" ELSE "none"]
  /\ reading = "none" /\ chunk = <<>> /\ received = 0
  /\ prewarmed = <<>> /\ trigger = "idle" /\ buffered = <<>> /\ locked = FALSE
  /\ playQueue = <<>> /\ wasPlaying = FALSE /\ quiet = TRUE
  /\ link = "down" /\ connected = FALSE
  /\ stored = {} /\ heard = <<>> /\ cut = 0

----------------------------------------------------------------------------
(* Start, in whichever goroutine comes first.  A dial or a setup that fails     *)
(* leaves started set: nobody tries again.                                   *)

Step(s, l) == starting' = [starting EXCEPT ![s] = l]

Start(s) ==
  /\ starting[s] = "start"
  /\ Step(s, IF started THEN "done" ELSE "dial")
  /\ started' = TRUE
  /\ UNCHANGED <<ready, active, closed, asked, readVars, greetVars, queueVars, linkVars, stored, heard, cut>>

Dial(s) ==
  /\ starting[s] = "dial"
  /\ \E l \in IF closed THEN {"done"} ELSE {"setup", "done"} : Step(s, l)
  /\ UNCHANGED <<started, ready, active, closed, asked, readVars, greetVars, queueVars, linkVars, stored,
                 heard, cut>>

SendSetup(s) ==
  /\ starting[s] = "setup"
  /\ Step(s, "done")
  /\ reading' \in IF closed THEN {"none"} ELSE {"read", "none"}
  /\ UNCHANGED <<started, ready, active, closed, asked, chunk, received, greetVars, queueVars, linkVars,
                 stored, heard, cut>>

----------------------------------------------------------------------------
(* readLoop: one message at a time, its parts one after the other.             *)

SetupComplete ==
  /\ reading = "read"
  /\ ~ready /\ ~closed
  /\ ready' = TRUE
  /\ asked' = TRUE
  /\ UNCHANGED <<started, active, closed, starting, readVars, greetVars, queueVars, linkVars, stored, heard, cut>>

ReadPart ==
  /\ reading = "read"
  /\ asked /\ ~closed
  /\ received < MaxParts
  /\ received' = received + 1
  /\ \E n \in PartSizes : chunk' = [i \in 1..n |-> <<received', i>>]
  /\ reading' = IF active THEN "feed" ELSE "store"
  /\ UNCHANGED <<agentVars, greetVars, queueVars, linkVars, stored, heard, cut>>

(* FeedCapturedPCM: the samples join the queue under the manager's lock.        *)
FeedCapturedPCM(samples) ==
  /\ ~locked
  /\ playQueue' = playQueue \o samples
  /\ quiet' = FALSE
  /\ UNCHANGED wasPlaying

FeedPart ==
  /\ reading = "feed"
  /\ FeedCapturedPCM(chunk)
  /\ reading' = "read"
  /\ chunk' = <<>>
  /\ UNCHANGED <<agentVars, received, greetVars, linkVars, stored, heard, cut>>

StorePart ==
  /\ reading = "store"
  /\ LET all == prewarmed \o chunk IN
       prewarmed' = IF Len(all) > MaxGreeting THEN SubSeq(all, 1, MaxGreeting) ELSE all
  /\ stored' = stored \cup PartsOf(chunk)
  /\ reading' = "read"
  /\ chunk' = <<>>
  /\ UNCHANGED <<agentVars, received, trigger, buffered, locked, queueVars, linkVars, heard, cut>>

(* Gemini detects a barge-in from the caller's audio, which it is sent only      *)
(* while the call is active.                                                 *)
ReadInterrupted ==
  /\ reading = "read"
  /\ asked /\ active /\ ~closed
  /\ reading' = "flush"
  /\ UNCHANGED <<agentVars, chunk, received, greetVars, queueVars, linkVars, stored, heard, cut>>

(* Mutant: the flush forgets to empty the queue.                              *)
FlushCapturedPCMMutant ==
  /\ reading = "flush"
  /\ ~locked
  /\ wasPlaying' = FALSE
  /\ cut' = received
  /\ reading' = "read"
  /\ UNCHANGED <<agentVars, chunk, received, greetVars, playQueue, quiet, linkVars, stored, heard>>

(* OnInterrupt; the resampler and the filters are reset with it.               *)
FlushCapturedPCM ==
  /\ reading = "flush"
  /\ ~locked
  /\ playQueue' = <<>>
  /\ wasPlaying' = FALSE
  /\ cut' = received
  /\ reading' = "read"
  /\ UNCHANGED <<agentVars, chunk, received, greetVars, quiet, linkVars, stored, heard>>

(* The loop ends with the connection, or when it finds the agent closed, and    *)
(* closes the agent.                                                        *)
ReadEnd ==
  /\ reading = "read"
  /\ reading' = "gone"
  /\ closed' = TRUE
  /\ UNCHANGED <<started, ready, active, asked, starting, chunk, received, greetVars, queueVars, linkVars,
                 stored, heard, cut>>

----------------------------------------------------------------------------
(* TriggerGreeting, under the manager's lock; later calls find                 *)
(* greetingTriggered set and do nothing.                                     *)

ReportActive ==
  /\ trigger = "idle"
  /\ ~locked
  /\ link # "gone"
  /\ locked' = TRUE
  /\ trigger' = "triggered"
  /\ UNCHANGED <<agentVars, readVars, prewarmed, buffered, queueVars, linkVars, stored, heard, cut>>

(* Mutant: the call is made active only after the greeting was taken.           *)
ActivateCallMutant ==
  /\ trigger = "triggered"
  /\ trigger' = "take"
  /\ active' = FALSE
  /\ starting' = IF started THEN starting ELSE [starting EXCEPT !["pickup"] = "start"]
  /\ UNCHANGED <<started, ready, closed, asked, readVars, prewarmed, buffered, locked, queueVars, linkVars,
                 stored, heard, cut>>

ActivateCall ==
  /\ trigger = "triggered"
  /\ trigger' = "take"
  /\ active' = TRUE
  /\ starting' = IF started THEN starting ELSE [starting EXCEPT !["pickup"] = "start"]
  /\ UNCHANGED <<started, ready, closed, asked, readVars, prewarmed, buffered, locked, queueVars, linkVars,
                 stored, heard, cut>>

(* Mutant: the greeting is fed on the spot, by the goroutine that holds the lock. *)
TakeGreetingMutant ==
  /\ trigger = "take"
  /\ prewarmed = <<>> \/ ~locked
  /\ buffered' = prewarmed
  /\ prewarmed' = <<>>
  /\ trigger' = IF prewarmed = <<>> THEN "done" ELSE "sleep"
  /\ locked' = FALSE
  /\ UNCHANGED <<agentVars, readVars, queueVars, linkVars, stored, heard, cut>>

TakeGreeting ==
  /\ trigger = "take"
  /\ buffered' = prewarmed
  /\ prewarmed' = <<>>
  /\ trigger' = IF prewarmed = <<>> THEN "done" ELSE "sleep"
  /\ locked' = FALSE
  /\ UNCHANGED <<agentVars, readVars, queueVars, linkVars, stored, heard, cut>>

(* After 150 ms the goroutine feeds what it holds, whatever happened meanwhile.  *)
PlayGreeting ==
  /\ trigger = "sleep"
  /\ FeedCapturedPCM(buffered)
  /\ buffered' = <<>>
  /\ trigger' = "done"
  /\ UNCHANGED <<agentVars, readVars, prewarmed, locked, linkVars, stored, heard, cut>>

----------------------------------------------------------------------------
(* The pump of the call.                                                     *)

(* dispatchAudioFrameLocked does nothing while no relay is open.  It sends a    *)
(* frame of the queue,                                                       *)
PlayFrame ==
  /\ Len(playQueue) >= FrameSize
  /\ heard' = heard \o SubSeq(playQueue, 1, FrameSize)
  /\ playQueue' = SubSeq(playQueue, FrameSize + 1, Len(playQueue))
  /\ wasPlaying' = TRUE

(* or at the end of a turn its rest, padded,                                   *)
PlayTail ==
  /\ Len(playQueue) < FrameSize
  /\ wasPlaying /\ quiet
  /\ heard' = heard \o playQueue
  /\ playQueue' = <<>>
  /\ wasPlaying' = FALSE

(* Mutant: the frame that begins a turn stays in the queue.                     *)
DispatchFrameMutant ==
  /\ link = "up" /\ connected
  /\ ~locked
  /\ \/ wasPlaying /\ PlayFrame
     \/ /\ ~wasPlaying /\ Len(playQueue) >= FrameSize
        /\ heard' = heard \o SubSeq(playQueue, 1, FrameSize)
        /\ wasPlaying' = TRUE
        /\ UNCHANGED playQueue
     \/ PlayTail
  /\ UNCHANGED <<agentVars, readVars, greetVars, quiet, linkVars, stored, cut>>

(* Mutant: the rest of a turn waits for a full frame.                          *)
DispatchTailMutant ==
  /\ link = "up" /\ connected
  /\ ~locked
  /\ PlayFrame
  /\ UNCHANGED <<agentVars, readVars, greetVars, quiet, linkVars, stored, cut>>

(* and otherwise silence, which leaves the queue as it is: before a turn a full  *)
(* frame has to come first, and during one the rest waits for what follows.      *)
DispatchFrame ==
  /\ link = "up" /\ connected
  /\ ~locked
  /\ PlayFrame \/ PlayTail
  /\ UNCHANGED <<agentVars, readVars, greetVars, quiet, linkVars, stored, cut>>

(* Nothing was captured for 400 ms.                                          *)
FallQuiet ==
  /\ ~quiet
  /\ quiet' = TRUE
  /\ UNCHANGED <<agentVars, readVars, greetVars, playQueue, wasPlaying, linkVars, stored, heard, cut>>

(* A relay opens while none was, or the last one open is lost: the manager of the *)
(* relays has its own lock.                                                  *)
RelayChanges ==
  /\ link # "gone"
  /\ connected' = ~connected
  /\ UNCHANGED <<agentVars, readVars, greetVars, queueVars, link, stored, heard, cut>>

(* startSilenceKeepaliveLocked, once there is media and a relay, which may be     *)
(* lost again by now.                                                        *)
StartPump ==
  /\ link = "down"
  /\ ~locked
  /\ link' = "up"
  /\ UNCHANGED <<agentVars, readVars, greetVars, queueVars, connected, stored, heard, cut>>

(* The call ends: the pump is stopped, which leaves the queue as it is, and the  *)
(* callbacks close the agent.                                                *)
EndCall ==
  /\ link # "gone"
  /\ ~locked
  /\ link' = "gone"
  /\ closed' = TRUE
  /\ UNCHANGED <<started, ready, active, asked, starting, readVars, greetVars, queueVars, connected,
                 stored, heard, cut>>

----------------------------------------------------------------------------
Agent == SetupComplete \/ ReadPart \/ FeedPart \/ StorePart \/ ReadInterrupted \/ FlushCapturedPCM
           \/ ReadEnd \/ \E s \in Starters : Start(s) \/ Dial(s) \/ SendSetup(s)

Greeting == ReportActive \/ ActivateCall \/ TakeGreeting \/ PlayGreeting

Pump == DispatchFrame \/ FallQuiet \/ RelayChanges \/ StartPump \/ EndCall

VoiceNext == Agent \/ Greeting \/ Pump

(* The goroutines run on, the ticker ticks and time passes; Gemini, the peer, the *)
(* relays and the end of the call owe us nothing.                             *)
Fairness ==
  /\ WF_voiceVars(FeedPart) /\ WF_voiceVars(StorePart) /\ WF_voiceVars(FlushCapturedPCM)
  /\ WF_voiceVars(ActivateCall) /\ WF_voiceVars(TakeGreeting) /\ WF_voiceVars(PlayGreeting)
  /\ WF_voiceVars(DispatchFrame) /\ WF_voiceVars(FallQuiet)

VoiceSpec == VoiceInit /\ [][VoiceNext]_voiceVars

VoiceFairSpec == VoiceSpec /\ Fairness

----------------------------------------------------------------------------
(* Properties.                                                             *)

Before(x, y) == x[1] < y[1] \/ (x[1] = y[1] /\ x[2] < y[2])

(* Two samples that were stored for the greeting, or two that were not.          *)
Alike(x, y) == x[1] \in stored <=> y[1] \in stored

InOrder(samples) ==
  \A i, j \in DOMAIN samples :
    i < j /\ Alike(samples[i], samples[j]) => Before(samples[i], samples[j])

(* What the peer hears is the greeting and the live speech, each in its order     *)
(* and no sample twice, however the read loop, the delayed greeting, the flushes  *)
(* and the pump interleave.  (The greeting may come after live speech: its        *)
(* goroutine sleeps 150 ms while the read loop already feeds the queue.)         *)
SpokenInOrder == InOrder(heard)

(* The read loop tests callActive and stores in two steps, so a part can miss the *)
(* greeting that TriggerGreeting takes; because callActive is set before the       *)
(* greeting is taken, at most the one part under way is stranded there.          *)
AtMostOneStranded ==
  trigger \in {"sleep", "done"} => \A p, q \in PartsOf(prewarmed) : p = q

(* After a barge-in nothing the agent had said before it is left to be played,    *)
(* except the greeting, which its goroutine may still be holding.               *)
FlushCutsSpeech ==
  \A i \in DOMAIN playQueue : playQueue[i][1] > cut \/ playQueue[i][1] \in stored

(* OnStateChange runs TriggerGreeting with the manager's lock held, and feeding    *)
(* the queue takes that lock: the report always comes to its end.               *)
ReportReturns == locked ~> ~locked

(* A turn does not stay open while relays stay: the frames and then the rest are   *)
(* played, and the call goes back to silence, unless it ends.  Without a relay    *)
(* the pump returns on every tick, the queue and wasPlaying stand still for as    *)
(* long, and the turn goes on where it was when a relay opens again.              *)
SpeechEnds ==
  link = "up" /\ wasPlaying /\ connected ~> ~wasPlaying \/ link = "gone" \/ ~connected

----------------------------------------------------------------------------
(* The inductive invariant behind the three of them.                             *)

(* TriggerGreeting makes the call active before it takes the greeting.            *)
TriggerSteps ==
  /\ active <=> trigger \in {"take", "sleep", "done"}
  /\ trigger # "sleep" => buffered = <<>>

(* The read loop works on the part it received last, which is nowhere else yet.     *)
ChunkIsLast ==
  /\ reading \in {"feed", "store"} =>
       /\ received \in Parts
       /\ \A i \in DOMAIN chunk : chunk[i] = <<received, i>>
       /\ received \notin stored /\ cut < received
  /\ \A p \in stored : p <= received
  /\ cut <= received

(* No sample is of a part yet to come, nor of the one under way.                   *)
Older(samples) ==
  \A i \in DOMAIN samples :
    /\ samples[i][1] <= received
    /\ reading \in {"feed", "store"} => samples[i][1] < received

AllOlder == Older(heard) /\ Older(playQueue) /\ Older(buffered) /\ Older(prewarmed)

(* The greeting is held apart until its goroutine feeds it, all at once.            *)
GreetingApart ==
  /\ PartsOf(prewarmed) \subseteq stored /\ PartsOf(buffered) \subseteq stored
  /\ trigger # "done" => PartsOf(heard) \cap stored = {} /\ PartsOf(playQueue) \cap stored = {}

(* What is yet to be heard comes after what was heard.                             *)
QueueFollows ==
  /\ InOrder(playQueue) /\ InOrder(buffered) /\ InOrder(prewarmed)
  /\ \A i \in DOMAIN heard, j \in DOMAIN playQueue :
       Alike(heard[i], playQueue[j]) => Before(heard[i], playQueue[j])

(* Once the greeting is taken, the part that was under way is all that is stored.    *)
StrandedAlike ==
  trigger \in {"sleep", "done"} =>
    /\ reading = "store" => prewarmed = <<>>
    /\ \A i, j \in DOMAIN prewarmed : prewarmed[i][1] = prewarmed[j][1]

VoiceInv ==
  /\ VoiceTypeOK /\ TriggerSteps /\ ChunkIsLast /\ AllOlder /\ GreetingApart
  /\ SpokenInOrder /\ QueueFollows /\ StrandedAlike /\ FlushCutsSpeech

=============================================================================
