------------------------------- MODULE TextAgent -------------------------------
(***************************************************************************)
(* The agent that answers with text and a synthesised voice (internal/agent:    *)
(* agent.go, vad.go, openrouter.go, tts.go).  The server is wired for it          *)
(* (session.go:162, 273) and makes none at this commit, so its callers here are   *)
(* the calls the package offers: peer audio, a greeting, on and off, Close.       *)
(*                                                                         *)
(* A frame of audio is loud or quiet, and noted as echo when it comes while the    *)
(* agent is heard or within the cooldown after it.  A turn answers one segment of   *)
(* speech.  The services are outside: a request is answered or fails in its         *)
(* client's time, but for Edge, whose connection has no deadline once it is made.   *)
(***************************************************************************)
EXTENDS Naturals, Sequences, FiniteSets

CONSTANTS
  Turns,           \* goroutines of handleCallerSpeech alive at a time
  Engines,         \* the speech services that are configured, and the ones that need not be
  MinSpeechFrames, \* loud frames in a row that start a segment
  MinSegment,      \* frames a segment needs to be answered
  MaxSegment,      \* frames after which it ends anyhow (MaxSpeechDuration)
  Chunks,          \* frames of a synthesised answer
  Cooldown,        \* ticks the gate stays shut after a speech (250 ms in the code)
  HistoryLimit,    \* messages kept: the system prompt and the last HistoryLimit - 1
  MaxFailures      \* bound: no segment is answered after so many failed chats

Greeter == "greeter"
Speakers == Turns \cup {Greeter}
Nobody == "nobody"

AllEngines == {"local", "azure", "googlecloud", "huggingface", "openai", "edge", "google"}

ASSUME AgentAssumption ==
  /\ Greeter \notin Turns /\ Nobody \notin Turns
  /\ {"local", "edge", "google"} \subseteq Engines /\ Engines \subseteq AllEngines
  /\ MinSpeechFrames \in Nat \ {0} /\ MaxSegment \in Nat /\ MinSegment \in 1..MaxSegment
  /\ Chunks \in Nat \ {0} /\ Cooldown \in Nat \ {0} /\ HistoryLimit \in Nat \ {0, 1} /\ MaxFailures \in Nat

VARIABLES
  enabled, cancelled, \* AIAgent.enabled, and whether its context is cancelled
  state,            \* AIAgent.state
  isSpeaking,       \* the echo gate
  vad,              \* isSpeaking, consecSpeech and the buffer of the VAD
  frame,            \* what FeedPeerAudio has let through and ProcessFrame has not seen
  onset,            \* an OnSpeechStart that has yet to run
  lock,             \* speechLock
  pc,               \* each goroutine's next step
  reply,            \* its answer
  left,             \* frames of speech it has yet to feed, then ticks it has yet to sleep
  segment,          \* history: the segment a turn answers holds echo
  prewarmPCM,       \* whether there is one
  history,          \* OpenRouterClient.history: the roles
  failures,         \* history: chats failed since one went well
  since,            \* history: ticks since the agent was heard, Cooldown when it is long ago
  turnedOff         \* history: SetEnabled(false) opened the gate during what is being said,
                    \*   or during the cooldown after it

switchVars == <<enabled, cancelled>>
gateVars   == <<isSpeaking, vad, frame, onset>>
turnVars   == <<lock, pc, reply, left, segment>>
chatVars   == <<history, failures>>
echoVars   == <<since, turnedOff>>
vars == <<switchVars, state, gateVars, turnVars, prewarmPCM, chatVars, echoVars>>

Roles == {"system", "user", "assistant"}
Labels == {"idle", "ended", "sleeping", "waiting", "asking", "retrying", "answering", "greeting",
           "synthesizing", "hanging", "streaming", "cooling"}
NoFrame == [loud |-> FALSE, echo |-> FALSE, here |-> FALSE]
Frames == [loud : BOOLEAN, echo : BOOLEAN, here : BOOLEAN]

(* Every variable has its type.                                              *)
TypeOK ==
  /\ enabled \in BOOLEAN /\ cancelled \in BOOLEAN
  /\ state \in {"idle", "listening", "thinking", "speaking"}
  /\ isSpeaking \in BOOLEAN
  /\ vad \in [on : BOOLEAN, run : 0..MinSpeechFrames, len : 0..MaxSegment, echo : BOOLEAN]
  /\ frame \in Frames /\ onset \in BOOLEAN
  /\ lock \in Speakers \cup {Nobody}
  /\ pc \in [Speakers -> Labels]
  /\ reply \in [Speakers -> {"none", "text", "markup"}]
  /\ left \in [Speakers -> Nat]
  /\ segment \in [Turns -> BOOLEAN]
  /\ prewarmPCM \in BOOLEAN
  /\ history \in Seq(Roles) /\ failures \in Nat
  /\ since \in 0..Cooldown /\ turnedOff \in BOOLEAN

Silence == [on |-> FALSE, run |-> 0, len |-> 0, echo |-> FALSE]

(* NewAIAgent: a greeting that was recorded beforehand is there at once.         *)
Init ==
  /\ enabled = TRUE /\ cancelled = FALSE
  /\ state = "idle"
  /\ isSpeaking = FALSE /\ vad = Silence /\ frame = NoFrame /\ onset = FALSE
  /\ lock = Nobody
  /\ pc = [s \in Speakers |-> "idle"]
  /\ reply = [s \in Speakers |-> "none"]
  /\ left = [s \in Speakers |-> 0]
  /\ segment = [t \in Turns |-> FALSE]
  /\ prewarmPCM \in BOOLEAN
  /\ history = <<"system">> /\ failures = 0
  /\ since = Cooldown /\ turnedOff = FALSE

----------------------------------------------------------------------------
(* What a request to a service may come to.  All of them fail once the context is   *)
(* cancelled.                                                                *)

Answers(results) == IF cancelled THEN {"error"} ELSE results

(* sendRequest and sendGoogleRequest may bring an empty text.                       *)
SendRequest == Answers({"error", "none", "text", "markup"})
SendGoogleRequest == Answers({"error", "none", "text", "markup"})

(* sendGoogleAudioRequest sends the audio and the prompt, and none of the history.   *)
SendGoogleAudioRequest == Answers({"error", "none", "text", "markup"})

(* sendWebhookRequest looks in five fields, then takes a body that is not JSON.       *)
SendWebhookRequest == Answers({"error", "none", "text", "markup"})

(* Azure, Google Cloud and the OpenAI-like services send raw samples, perhaps none;   *)
(* a WAV file may hold none; the MP3 and FLAC decoders fail on an empty one.           *)
SynthesizeLocal       == Answers({"error", "silence", "speech"})
SynthesizeAzure       == Answers({"error", "silence", "speech"})
SynthesizeGoogleCloud == Answers({"error", "silence", "speech"})
SynthesizeHuggingFace == Answers({"error", "silence", "speech"})
SynthesizeOpenAI      == Answers({"error", "silence", "speech"})
SynthesizeGoogle      == Answers({"error", "silence", "speech"})

(* Only the dial has a deadline: a server that is connected and says nothing holds its    *)
(* caller until it answers after all, or the agent is closed.                         *)
SynthesizeEdge == Answers({"error", "speech", "hang"})

Results(e) ==
  CASE e = "local"       -> SynthesizeLocal
    [] e = "azure"       -> SynthesizeAzure
    [] e = "googlecloud" -> SynthesizeGoogleCloud
    [] e = "huggingface" -> SynthesizeHuggingFace
    [] e = "openai"      -> SynthesizeOpenAI
    [] e = "edge"        -> SynthesizeEdge
    [] e = "google"      -> SynthesizeGoogle

(* Synthesize: whose samples they are.  A text that cleanSpeechText leaves nothing of     *)
(* has none; otherwise the engines are asked in turn, Edge and Google last, and when none  *)
(* yields samples a tone is made.  Edge may also hang.                                 *)
Synthesize(text) ==
  IF text = "markup" THEN {"nothing"}
  ELSE {e \in Engines : "speech" \in Results(e)} \cup {"tone"}
         \cup (Results("edge") \cap {"hang"})

----------------------------------------------------------------------------
(* OpenRouterClient's history.                                                   *)

(* Mutant: the last messages are kept, and not the system prompt.                   *)
TrimMutant(h) == IF Len(h) > HistoryLimit THEN SubSeq(h, Len(h) - HistoryLimit + 1, Len(h)) ELSE h

(* The system prompt and the last ones.                                            *)
Trim(h) ==
  IF Len(h) > HistoryLimit
  THEN <<h[1]>> \o SubSeq(h, Len(h) - HistoryLimit + 2, Len(h))
  ELSE h

(* ChatWithAudio: the audio itself is never kept.  An answer that is no JSON is taken as  *)
(* it is.                                                                        *)
ChatWithAudio ==
  SendRequest \cup SendGoogleAudioRequest

(* Chat: by the webhook, by Google, or by OpenRouter.                                 *)
Chat == SendWebhookRequest \cup SendGoogleRequest \cup SendRequest

----------------------------------------------------------------------------
Goto(s, l) == pc' = [pc EXCEPT ![s] = l]

Unlock == lock' = Nobody

(* Somebody's speech is being fed to the call.                                       *)
Heard == \E s \in Speakers : pc[s] = "streaming"

Lock(s, l) ==
  /\ pc[s] = "waiting" /\ lock = Nobody
  /\ lock' = s
  /\ Goto(s, l)

----------------------------------------------------------------------------
(* The caller's audio.                                                           *)

(* The agent is heard, or was within the cooldown, and the gate was left to itself.       *)
Echoing == since < Cooldown /\ ~turnedOff

(* The gate is read before the VAD takes its lock.                                    *)
FeedPeerAudio(loud) ==
  /\ ~frame.here
  /\ enabled /\ ~isSpeaking
  /\ frame' = [loud |-> loud, echo |-> Echoing, here |-> TRUE]
  /\ UNCHANGED <<switchVars, state, isSpeaking, vad, onset, turnVars, prewarmPCM, chatVars, echoVars>>

Reset == vad' = Silence

Busy == {t \in Turns : pc[t] # "idle"}

(* ProcessFrame: loud frames in a row start a segment; silence, or its length, ends it.   *)
(* One that is long enough is answered by a goroutine.                               *)
ProcessFrame ==
  /\ frame.here
  /\ LET run   == IF ~frame.loud THEN 0 ELSE IF vad.run < MinSpeechFrames THEN vad.run + 1 ELSE vad.run
         start == frame.loud /\ ~vad.on /\ run = MinSpeechFrames
         len   == IF start THEN 1 ELSE vad.len + 1
         echo  == frame.echo \/ (~start /\ vad.echo) IN
       IF ~(vad.on \/ start)
       THEN /\ vad' = [vad EXCEPT !.run = run]
            /\ UNCHANGED <<pc, segment, onset>>
       ELSE /\ onset' = (onset \/ start)
            /\ \/ /\ len < MaxSegment
                  /\ vad' = [on |-> TRUE, run |-> run, len |-> len, echo |-> echo]
                  /\ UNCHANGED <<pc, segment>>
               \/ /\ ~frame.loud \/ len = MaxSegment
                  /\ vad' = [Silence EXCEPT !.run = run]
                  /\ IF len >= MinSegment
                     THEN \E t \in Turns :
                            /\ pc[t] = "idle"
                            /\ failures + Cardinality(Busy) < MaxFailures
                            /\ Goto(t, "ended")
                            /\ segment' = [segment EXCEPT ![t] = echo]
                     ELSE UNCHANGED <<pc, segment>>
  /\ frame' = NoFrame
  /\ UNCHANGED <<switchVars, state, isSpeaking, lock, reply, left, prewarmPCM, chatVars, echoVars>>

OnSpeechStart ==
  /\ onset
  /\ onset' = FALSE
  /\ state' = IF enabled /\ ~isSpeaking THEN "listening" ELSE state
  /\ UNCHANGED <<switchVars, isSpeaking, vad, frame, turnVars, prewarmPCM, chatVars, echoVars>>

(* What is said while the agent thinks or speaks is not answered.                        *)
OnSpeechEnd(t) ==
  /\ pc[t] = "ended"
  /\ Goto(t, IF enabled /\ ~isSpeaking /\ state \notin {"thinking", "speaking"} THEN "waiting" ELSE "idle")
  /\ segment' = [segment EXCEPT ![t] = @ /\ pc'[t] = "waiting"]
  /\ UNCHANGED <<switchVars, state, gateVars, lock, reply, left, prewarmPCM, chatVars, echoVars>>

----------------------------------------------------------------------------
(* handleCallerSpeech, under speechLock.                                           *)

StartTurn(t) ==
  /\ Lock(t, "asking")
  /\ state' = "thinking"
  /\ UNCHANGED <<switchVars, gateVars, reply, left, segment, prewarmPCM, chatVars, echoVars>>

(* The audio first, which leaves nothing behind when it fails ...                        *)
AskWithAudio(t) ==
  /\ pc[t] = "asking"
  /\ \E r \in ChatWithAudio :
       IF r = "error"
       THEN Goto(t, "retrying") /\ UNCHANGED <<reply, chatVars>>
       ELSE /\ Goto(t, "answering")
            /\ reply' = [reply EXCEPT ![t] = r]
            /\ history' = Trim(history \o <<"user", "assistant">>)
            /\ failures' = 0
  /\ UNCHANGED <<switchVars, state, gateVars, lock, left, segment, prewarmPCM, echoVars>>

(* ... then a text, which stays in the history untrimmed when that fails as well.          *)
AskWithText(t) ==
  /\ pc[t] = "retrying"
  /\ \E r \in Chat :
       IF r = "error"
       THEN /\ failures' = failures + 1
            /\ history' = Append(history, "user")
            /\ reply' = [reply EXCEPT ![t] = "none"]
       ELSE /\ failures' = 0
            /\ history' = Trim(history \o <<"user", "assistant">>)
            /\ reply' = [reply EXCEPT ![t] = r]
  /\ Goto(t, "answering")
  /\ UNCHANGED <<switchVars, state, gateVars, lock, left, segment, prewarmPCM, echoVars>>

(* Without an answer a stock phrase is said.                                           *)
Answer(t) ==
  /\ pc[t] = "answering"
  /\ reply' = [reply EXCEPT ![t] = IF @ = "none" THEN "text" ELSE @]
  /\ state' = "speaking"
  /\ Goto(t, "synthesizing")
  /\ UNCHANGED <<switchVars, gateVars, lock, left, segment, prewarmPCM, chatVars, echoVars>>

EndTurn(s) ==
  /\ state' = "idle"
  /\ Unlock
  /\ Goto(s, "idle")
  /\ reply' = [reply EXCEPT ![s] = "none"]
  /\ segment' = [t \in Turns |-> segment[t] /\ t # s]

(* streamAudioWithCooldown shuts the gate before the first frame.                          *)
Stream(s) ==
  /\ isSpeaking' = TRUE
  /\ Goto(s, "streaming")
  /\ left' = [left EXCEPT ![s] = Chunks]
  /\ since' = 0

Hang(s) ==
  /\ Goto(s, "hanging")
  /\ UNCHANGED <<state, isSpeaking, lock, reply, segment, left, since>>

(* Mutant: the turn returns early with speechLock held.                                   *)
SpeakReplyMutant(t) ==
  /\ pc[t] = "synthesizing"
  /\ \E sound \in Synthesize(reply[t]) :
       IF sound = "nothing"
       THEN Goto(t, "idle") /\ UNCHANGED <<state, isSpeaking, lock, reply, segment, left, since>>
       ELSE \/ sound = "hang" /\ Hang(t)
            \/ sound # "hang" /\ Stream(t) /\ UNCHANGED <<state, lock, reply, segment>>
  /\ UNCHANGED <<switchVars, vad, frame, onset, prewarmPCM, chatVars, turnedOff>>

SpeakReply(t) ==
  /\ pc[t] = "synthesizing"
  /\ \E sound \in Synthesize(reply[t]) :
       \/ sound = "nothing" /\ EndTurn(t) /\ UNCHANGED <<isSpeaking, left, since>>
       \/ sound = "hang" /\ Hang(t)
       \/ sound \notin {"nothing", "hang"} /\ Stream(t) /\ UNCHANGED <<state, lock, reply, segment>>
  /\ UNCHANGED <<switchVars, vad, frame, onset, prewarmPCM, chatVars, turnedOff>>

(* Edge answers after all, breaks off, or is left because the agent was closed; then there  *)
(* are its samples, Google's, or the tone.                                             *)
EdgeReturns(t) ==
  /\ pc[t] = "hanging"
  /\ Stream(t)
  /\ UNCHANGED <<state, lock, reply, segment>>
  /\ UNCHANGED <<switchVars, vad, frame, onset, prewarmPCM, chatVars, turnedOff>>

(* A frame every 60 ms, while the agent is on.                                           *)
FeedFrame(s) ==
  /\ pc[s] = "streaming"
  /\ IF left[s] = 0 \/ ~enabled \/ cancelled
     THEN Goto(s, "cooling") /\ left' = [left EXCEPT ![s] = Cooldown]
     ELSE left' = [left EXCEPT ![s] = @ - 1] /\ UNCHANGED pc
  /\ UNCHANGED <<switchVars, state, gateVars, lock, reply, segment, prewarmPCM, chatVars, echoVars>>

(* Time goes by; during a speech the agent is heard all along.                            *)
Tick ==
  /\ since < Cooldown
  /\ since' = IF Heard THEN 0 ELSE since + 1
  /\ left' = [s \in Speakers |-> IF pc[s] = "cooling" /\ left[s] > 0 THEN left[s] - 1 ELSE left[s]]
  /\ UNCHANGED <<switchVars, state, gateVars, lock, pc, reply, segment, prewarmPCM, chatVars, turnedOff>>

(* Mutant: the gate opens with the last frame, without the cooldown.                       *)
EndStreamMutant(s) ==
  /\ pc[s] = "cooling"
  /\ Reset
  /\ isSpeaking' = FALSE
  /\ EndTurn(s)
  /\ UNCHANGED <<switchVars, frame, onset, left, prewarmPCM, chatVars, echoVars>>

(* After the cooldown the VAD forgets what it has, the gate opens, and the turn is over.    *)
EndStream(s) ==
  /\ pc[s] = "cooling" /\ left[s] = 0
  /\ Reset
  /\ isSpeaking' = FALSE
  /\ EndTurn(s)
  /\ turnedOff' = FALSE
  /\ UNCHANGED <<switchVars, frame, onset, left, prewarmPCM, chatVars, since>>

----------------------------------------------------------------------------
(* The greeting.                                                                 *)

(* PrewarmGreeting; its synthesis may come to nothing, or never end.                     *)
PrewarmGreeting ==
  /\ enabled
  /\ \E sound \in Synthesize("text") : prewarmPCM' = (prewarmPCM \/ sound \notin {"nothing", "hang"})
  /\ UNCHANGED <<switchVars, state, gateVars, turnVars, chatVars, echoVars>>

GreetCaller ==
  /\ enabled /\ pc[Greeter] = "idle"
  /\ Goto(Greeter, "sleeping")
  /\ UNCHANGED <<switchVars, state, gateVars, lock, reply, left, segment, prewarmPCM, chatVars, echoVars>>

(* After 750 ms, unless the agent speaks already.                                        *)
Wake ==
  /\ pc[Greeter] = "sleeping"
  /\ Goto(Greeter, IF enabled /\ ~isSpeaking THEN "waiting" ELSE "idle")
  /\ UNCHANGED <<switchVars, state, gateVars, lock, reply, left, segment, prewarmPCM, chatVars, echoVars>>

StartGreeting ==
  /\ Lock(Greeter, "greeting")
  /\ UNCHANGED <<switchVars, state, gateVars, reply, left, segment, prewarmPCM, chatVars, echoVars>>

(* The history notes the greeting, and it is spoken.                                      *)
SayGreeting ==
  /\ history' = Trim(Append(history, "assistant"))
  /\ failures' = IF Len(history) >= HistoryLimit THEN 0 ELSE failures
  /\ state' = "speaking"
  /\ Stream(Greeter)
  /\ UNCHANGED <<lock, reply, segment>>

(* The prewarmed greeting is taken, or one is made now.                                   *)
Greet ==
  /\ pc[Greeter] = "greeting"
  /\ prewarmPCM' = FALSE
  /\ \E sound \in IF prewarmPCM THEN {"prewarmed"} ELSE Synthesize("text") :
       \/ sound \notin {"nothing", "hang"} /\ SayGreeting
       \/ sound = "hang" /\ Hang(Greeter) /\ UNCHANGED chatVars
       \/ sound = "nothing" /\ EndTurn(Greeter) /\ UNCHANGED <<isSpeaking, left, since, chatVars>>
  /\ UNCHANGED <<switchVars, vad, frame, onset, turnedOff>>

GreetAtLast ==
  /\ pc[Greeter] = "hanging"
  /\ SayGreeting
  /\ UNCHANGED <<switchVars, vad, frame, onset, prewarmPCM, turnedOff>>

----------------------------------------------------------------------------
(* On, off, and the end.                                                          *)

(* SetEnabled(false) opens the gate, whatever is being said.                              *)
TurnOff ==
  /\ enabled' = FALSE
  /\ isSpeaking' = FALSE
  /\ Reset
  /\ state' = "idle"
  /\ turnedOff' = (turnedOff \/ since < Cooldown)

SetEnabled(on) ==
  /\ ~cancelled
  /\ IF on THEN enabled' = TRUE /\ UNCHANGED <<state, isSpeaking, vad, turnedOff>> ELSE TurnOff
  /\ UNCHANGED <<cancelled, frame, onset, turnVars, prewarmPCM, chatVars, since>>

Close ==
  /\ ~cancelled
  /\ cancelled' = TRUE
  /\ TurnOff
  /\ UNCHANGED <<frame, onset, turnVars, prewarmPCM, chatVars, since>>

----------------------------------------------------------------------------
TurnStep(t) ==
  \/ OnSpeechEnd(t) \/ AskWithAudio(t) \/ AskWithText(t) \/ Answer(t) \/ SpeakReply(t)

SpeakerStep(s) == FeedFrame(s) \/ EndStream(s)

Next ==
  \/ \E loud \in BOOLEAN : FeedPeerAudio(loud)
  \/ ProcessFrame \/ OnSpeechStart
  \/ \E t \in Turns : TurnStep(t) \/ StartTurn(t) \/ EdgeReturns(t)
  \/ \E s \in Speakers : SpeakerStep(s)
  \/ Tick
  \/ PrewarmGreeting \/ GreetCaller \/ Wake \/ StartGreeting \/ Greet \/ GreetAtLast
  \/ \E on \in BOOLEAN : SetEnabled(on)
  \/ Close

Spec == Init /\ [][Next]_vars

(* Goroutines run, time passes and sleeps end; requests have a deadline, but for Edge,       *)
(* which is only left when the agent is closed; a mutex hands itself on to the longest       *)
(* waiting.  Nobody has to speak.                                                      *)
FairSpec ==
  /\ Spec
  /\ \A t \in Turns : WF_vars(TurnStep(t)) /\ SF_vars(StartTurn(t)) /\ WF_vars(cancelled /\ EdgeReturns(t))
  /\ \A s \in Speakers : WF_vars(SpeakerStep(s))
  /\ WF_vars(Tick)
  /\ WF_vars(Wake) /\ SF_vars(StartGreeting) /\ WF_vars(Greet) /\ WF_vars(cancelled /\ GreetAtLast)

----------------------------------------------------------------------------
(* Properties.                                                                    *)

(* The agent does not answer itself: no segment that is answered holds a frame that came     *)
(* to the gate between the start of a speech and Cooldown ticks after its last frame,        *)
(* whichever goroutine spoke and whatever the VAD held before, unless SetEnabled(false) or   *)
(* Close opened the gate in that time (streamAudioWithCooldown, FeedPeerAudio).  An echo     *)
(* that takes longer than the cooldown does come through.                                *)
NoEchoAnswered ==
  \A t \in Turns : pc[t] \notin {"idle", "ended"} => ~segment[t]

(* The history keeps its system prompt first and only there, and grows past its limit by       *)
(* the chats that failed since it was last trimmed and no more.                             *)
HistoryBounded ==
  /\ history[1] = "system"
  /\ \A i \in 2..Len(history) : history[i] # "system"
  /\ Len(history) \in 1..(HistoryLimit + failures)

(* A turn that waits for the agent gets its answer and ends: every engine and service may       *)
(* fail, and the agent may be turned off at any time.  Only Edge can stop it, by hanging for   *)
(* ever; and closing the agent ends that as well.                                         *)
EdgeLetsGo(s) == []<>(pc[s] # "hanging" \/ cancelled)

TurnEnds ==
  (\A s \in Speakers : EdgeLetsGo(s)) => \A t \in Turns : pc[t] = "waiting" ~> pc[t] = "idle"

----------------------------------------------------------------------------
(* The inductive invariant behind the safety properties.                               *)

(* speechLock: one goroutine at most is between its Lock and its Unlock.                  *)
OneSpeaks ==
  \A s \in Speakers :
    pc[s] \in {"asking", "retrying", "answering", "greeting", "synthesizing", "hanging", "streaming",
              "cooling"}
      => lock = s

(* The clock stands while the agent is heard; a cooldown that has some ticks left has made    *)
(* the others.                                                                     *)
Cooling ==
  \A s \in Speakers :
    /\ pc[s] = "streaming" => since = 0
    /\ pc[s] = "cooling" => since + left[s] >= Cooldown

(* Until the cooldown is over the gate is shut, unless somebody opened it; so no frame that   *)
(* comes through is echo.                                                            *)
GateShut ==
  /\ since < Cooldown => isSpeaking \/ turnedOff
  /\ ~frame.echo /\ ~vad.echo /\ \A t \in Turns : ~segment[t]

IndInv == TypeOK /\ vad.len < MaxSegment /\ HistoryBounded /\ OneSpeaks /\ Cooling /\ GateShut
=============================================================================
