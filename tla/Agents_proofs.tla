----------------------------- MODULE Agents_proofs -----------------------------
(***************************************************************************)
(* Proofs about the two agents a call may have.                               *)
(*                                                                         *)
(* TextAgent, for any number of turns and any sizes: IndInv is inductive, so     *)
(* the agent does not answer itself and its history stays bounded.             *)
(*                                                                         *)
(* VoiceAgent, for any sizes of frame, greeting and parts and any number of       *)
(* parts: VoiceInv is inductive, so what the peer hears is in order, the       *)
(* greeting leaves at most one part behind and a barge-in cuts what was said.     *)
(***************************************************************************)
EXTENDS TextAgent, VoiceAgent, SequenceTheorems, TLAPS

----------------------------------------------------------------------------
(* TextAgent.                                                               *)

LEMMA Sizes ==
  /\ Greeter \notin Turns /\ Nobody \notin Speakers /\ Greeter \in Speakers
  /\ Turns \subseteq Speakers
  /\ MinSpeechFrames \in Nat /\ MaxSegment \in Nat /\ MaxSegment > 0
  /\ Chunks \in Nat /\ Cooldown \in Nat /\ Cooldown > 0 /\ HistoryLimit \in Nat /\ HistoryLimit >= 2
BY AgentAssumption DEF Speakers, Nobody, Greeter

(* The type invariant in parts. *)
LEMMA AgentTyped ==
  TypeOK => /\ enabled \in BOOLEAN /\ cancelled \in BOOLEAN
            /\ state \in {"idle", "listening", "thinking", "speaking"}
            /\ isSpeaking \in BOOLEAN /\ onset \in BOOLEAN
            /\ prewarmPCM \in BOOLEAN /\ turnedOff \in BOOLEAN
            /\ lock \in Speakers \cup {Nobody} /\ since \in 0..Cooldown
BY DEF TypeOK

LEMMA TurnTyped ==
  TypeOK => /\ pc \in [Speakers -> Labels] /\ segment \in [Turns -> BOOLEAN]
            /\ reply \in [Speakers -> {"none", "text", "markup"}]
            /\ left \in [Speakers -> Nat]
BY DEF TypeOK

LEMMA GateTyped ==
  TypeOK => /\ vad \in [on : BOOLEAN, run : 0..MinSpeechFrames, len : 0..MaxSegment, echo : BOOLEAN]
            /\ vad.on \in BOOLEAN /\ vad.run \in 0..MinSpeechFrames /\ vad.len \in 0..MaxSegment
            /\ vad.echo \in BOOLEAN
            /\ frame \in Frames /\ frame.loud \in BOOLEAN /\ frame.echo \in BOOLEAN
BY DEF TypeOK, Frames

LEMMA ChatTyped ==
  TypeOK => history \in Seq(Roles) /\ failures \in Nat
BY DEF TypeOK

(* A request that is not an error has one of the answers there are. *)
LEMMA Replies ==
  /\ ChatWithAudio \subseteq {"error", "none", "text", "markup"}
  /\ Chat \subseteq {"error", "none", "text", "markup"}
BY DEF ChatWithAudio, Chat, SendRequest, SendGoogleRequest, SendGoogleAudioRequest,
   SendWebhookRequest, Answers

(* What a history must be: its prompt first and only there. *)
Prompted(h) == h \in Seq(Roles) /\ Len(h) >= 1 /\ h[1] = "system" /\ \A i \in 2..Len(h) : h[i] # "system"

(* Trimming keeps the prompt, and the limit. *)
LEMMA TrimKeeps ==
  ASSUME NEW h, Prompted(h)
  PROVE  Prompted(Trim(h)) /\ Len(Trim(h)) \in 1..HistoryLimit
<1>1. CASE Len(h) <= HistoryLimit
  BY <1>1, Sizes DEF Trim, Prompted
<1>2. CASE Len(h) > HistoryLimit
  <2> DEFINE k == Len(h) - HistoryLimit + 2
             g == SubSeq(h, k, Len(h))
  <2>1. k \in 3..Len(h) /\ Len(h) \in Nat
    BY <1>2, Sizes DEF Prompted
  <2>2. g \in Seq(Roles) /\ Len(g) = HistoryLimit - 1 /\ \A i \in 1..Len(g) : g[i] = h[k + i - 1]
    BY <2>1, Sizes DEF Prompted
  <2>3. \A i \in 1..Len(g) : g[i] # "system"
    <3> SUFFICES ASSUME NEW i \in 1..Len(g) PROVE g[i] # "system"
      OBVIOUS
    <3>1. k + i - 1 \in 2..Len(h)
      BY <2>1, <2>2, Sizes
    <3> QED
      BY <2>2, <3>1 DEF Prompted
  <2>4. h[1] = "system" /\ h[1] \in Roles
    BY DEF Prompted, Roles
  <2>5. Trim(h) = <<h[1]>> \o g
    BY <1>2 DEF Trim
  <2> HIDE DEF g
  <2>6. /\ Trim(h) \in Seq(Roles) /\ Len(Trim(h)) = HistoryLimit /\ Trim(h)[1] = "system"
        /\ \A i \in 2..HistoryLimit : Trim(h)[i] = g[i - 1] /\ i - 1 \in 1..Len(g)
    BY <2>2, <2>4, <2>5, Sizes
  <2>7. \A i \in 2..HistoryLimit : Trim(h)[i] # "system"
    BY <2>3, <2>6
  <2> HIDE DEF k
  <2> QED
    BY <2>6, <2>7, Sizes DEF Prompted
<1> QED
  BY <1>1, <1>2, Sizes DEF Prompted

(* A message that is not a prompt leaves a history one. *)
LEMMA AppendKeeps ==
  ASSUME NEW h, Prompted(h), NEW role \in {"user", "assistant"}
  PROVE  Prompted(Append(h, role)) /\ Len(Append(h, role)) = Len(h) + 1
BY DEF Prompted, Roles

LEMMA ChatKeeps ==
  ASSUME NEW h, Prompted(h)
  PROVE  Prompted(h \o <<"user", "assistant">>)
<1>1. h \o <<"user", "assistant">> = Append(Append(h, "user"), "assistant")
  BY DEF Prompted
<1> QED
  BY <1>1, AppendKeeps

LEMMA IsPrompted ==
  TypeOK /\ HistoryBounded => Prompted(history) /\ Len(history) \in 1..(HistoryLimit + failures)
BY ChatTyped, Sizes DEF HistoryBounded, Prompted

(* The history, where it changes. *)
LEMMA HistoryStep ==
  ASSUME IndInv, [Next]_vars
  PROVE  HistoryBounded' /\ history' \in Seq(Roles) /\ failures' \in Nat
<1>1. Prompted(history) /\ Len(history) \in 1..(HistoryLimit + failures) /\ failures \in Nat
  BY IsPrompted, ChatTyped DEF IndInv
<1> SUFFICES /\ Prompted(history') /\ failures' \in Nat
             /\ Len(history') \in 1..(HistoryLimit + failures')
  BY DEF Prompted, HistoryBounded
<1>2. CASE UNCHANGED chatVars
  BY <1>1, <1>2 DEF chatVars
<1>3. CASE history' = Trim(history \o <<"user", "assistant">>) /\ failures' = 0
  BY <1>1, <1>3, ChatKeeps, TrimKeeps, Sizes
<1>4. CASE history' = Append(history, "user") /\ failures' = failures + 1
  BY <1>1, <1>4, AppendKeeps, Sizes
<1>5. CASE /\ history' = Trim(Append(history, "assistant"))
           /\ failures' = IF Len(history) >= HistoryLimit THEN 0 ELSE failures
  <2>1. failures' \in Nat
    BY <1>1, <1>5
  <2>2. Prompted(Append(history, "assistant"))
    BY <1>1, AppendKeeps
  <2>3. Prompted(history') /\ Len(history') \in 1..HistoryLimit
    BY <1>5, <2>2, TrimKeeps
  <2> QED
    BY <2>1, <2>3, Sizes
<1>6. UNCHANGED chatVars
      \/ (history' = Trim(history \o <<"user", "assistant">>) /\ failures' = 0)
      \/ (history' = Append(history, "user") /\ failures' = failures + 1)
      \/ (/\ history' = Trim(Append(history, "assistant"))
          /\ failures' = IF Len(history) >= HistoryLimit THEN 0 ELSE failures)
  <2>1. CASE \E t \in Turns : TurnStep(t) \/ StartTurn(t) \/ EdgeReturns(t)
    BY <2>1 DEF TurnStep, OnSpeechEnd, AskWithAudio, AskWithText, Answer, SpeakReply, EdgeReturns,
       StartTurn, chatVars
  <2>2. CASE Greet \/ GreetAtLast
    BY <2>2 DEF Greet, GreetAtLast, SayGreeting, chatVars
  <2>3. CASE ~Greet /\ ~GreetAtLast /\ ~\E t \in Turns : TurnStep(t) \/ StartTurn(t) \/ EdgeReturns(t)
    BY <2>3 DEF Next, vars, FeedPeerAudio, ProcessFrame, OnSpeechStart, SpeakerStep, FeedFrame, EndStream,
       Tick, PrewarmGreeting, GreetCaller, Wake, StartGreeting, SetEnabled, Close
  <2> QED
    BY <2>1, <2>2, <2>3
<1> QED
  BY <1>2, <1>3, <1>4, <1>5, <1>6

(* The VAD's states, and where a segment is still short enough. *)
Vads == [on : BOOLEAN, run : 0..MinSpeechFrames, len : 0..MaxSegment, echo : BOOLEAN]
Listening(v) == v \in Vads /\ v.len < MaxSegment /\ ~v.echo

LEMMA SilenceType == Listening(Silence)
BY Sizes DEF Listening, Vads, Silence

LEMMA FrameStep ==
  ASSUME IndInv, ProcessFrame
  PROVE  /\ Listening(vad') /\ onset' \in BOOLEAN
         /\ pc' \in [Speakers -> Labels] /\ segment' \in [Turns -> BOOLEAN]
         /\ \A s \in Speakers : pc'[s] # pc[s] => pc'[s] = "ended"
         /\ \A t \in Turns : ~segment'[t]
<1> DEFINE run   == IF ~frame.loud THEN 0 ELSE IF vad.run < MinSpeechFrames THEN vad.run + 1 ELSE vad.run
           start == frame.loud /\ ~vad.on /\ run = MinSpeechFrames
           len   == IF start THEN 1 ELSE vad.len + 1
           echo  == frame.echo \/ (~start /\ vad.echo)
<1>1. /\ vad \in Vads /\ vad.run \in 0..MinSpeechFrames /\ vad.len \in 0..MaxSegment
      /\ vad.len < MaxSegment /\ ~vad.echo /\ ~frame.echo
      /\ onset \in BOOLEAN /\ pc \in [Speakers -> Labels] /\ segment \in [Turns -> BOOLEAN]
      /\ \A t \in Turns : ~segment[t]
  BY AgentTyped, TurnTyped, GateTyped DEF IndInv, GateShut, Vads
<1>2. /\ run \in 0..MinSpeechFrames /\ len \in 0..MaxSegment /\ ~echo /\ echo \in BOOLEAN
      /\ start \in BOOLEAN
  <2>1. run \in 0..MinSpeechFrames
    BY <1>1, Sizes
  <2>2. len \in 0..MaxSegment
    BY <1>1, Sizes
  <2>3. start \in BOOLEAN
    OBVIOUS
  <2> QED
    BY <1>1, <2>1, <2>2, <2>3
<1>3. \/ /\ vad' = [vad EXCEPT !.run = run] /\ UNCHANGED <<pc, segment, onset>>
      \/ /\ onset' = (onset \/ start)
         /\ \/ /\ len < MaxSegment
               /\ vad' = [on |-> TRUE, run |-> run, len |-> len, echo |-> echo]
               /\ UNCHANGED <<pc, segment>>
            \/ /\ vad' = [Silence EXCEPT !.run = run]
               /\ \/ \E t \in Turns : /\ pc' = [pc EXCEPT ![t] = "ended"]
                                      /\ segment' = [segment EXCEPT ![t] = echo]
                  \/ UNCHANGED <<pc, segment>>
  BY DEF ProcessFrame, Goto
<1> HIDE DEF run, start, len, echo
<1>4. onset' \in BOOLEAN
  BY <1>1, <1>2, <1>3
<1>5. Listening(vad')
  <2>1. Listening(vad) /\ Listening(Silence)
    BY <1>1, SilenceType DEF Listening
  <2>2. \A v \in Vads : Listening(v) => Listening([v EXCEPT !.run = run])
    BY <1>2 DEF Listening, Vads
  <2>3. len < MaxSegment => Listening([on |-> TRUE, run |-> run, len |-> len, echo |-> echo])
    BY <1>2 DEF Listening, Vads
  <2> QED
    BY <1>3, <2>1, <2>2, <2>3 DEF Listening
<1>6. /\ pc' \in [Speakers -> Labels] /\ segment' \in [Turns -> BOOLEAN]
      /\ \A s \in Speakers : pc'[s] # pc[s] => pc'[s] = "ended"
      /\ \A t \in Turns : ~segment'[t]
  <2>1. CASE UNCHANGED <<pc, segment>>
    BY <1>1, <2>1
  <2>2. CASE \E t \in Turns : pc' = [pc EXCEPT ![t] = "ended"] /\ segment' = [segment EXCEPT ![t] = echo]
    BY <1>1, <1>2, <2>2, Sizes DEF Labels
  <2> QED
    BY <1>3, <2>1, <2>2
<1> QED
  BY <1>4, <1>5, <1>6

(* What a goroutine of the agent does, in all the parts that the types are about. *)
TurnsTyped == /\ pc \in [Speakers -> Labels] /\ segment \in [Turns -> BOOLEAN]
              /\ reply \in [Speakers -> {"none", "text", "markup"}]
              /\ left \in [Speakers -> Nat]
              /\ lock \in Speakers \cup {Nobody}
              /\ state \in {"idle", "listening", "thinking", "speaking"}
              /\ isSpeaking \in BOOLEAN /\ turnedOff \in BOOLEAN /\ since \in 0..Cooldown

(* The end of a turn, the start of a speech, and a wait for Edge. *)
LEMMA EndTyped ==
  ASSUME TurnsTyped, NEW s \in Speakers, EndTurn(s)
  PROVE  /\ pc' \in [Speakers -> Labels] /\ segment' \in [Turns -> BOOLEAN]
         /\ reply' \in [Speakers -> {"none", "text", "markup"}]
         /\ lock' = Nobody /\ state' = "idle"
<1>1. segment' = [t \in Turns |-> segment[t] /\ t # s] /\ lock' = Nobody /\ state' = "idle"
  BY DEF EndTurn, Unlock
<1>2. segment' \in [Turns -> BOOLEAN]
  BY <1>1
<1>3. pc' \in [Speakers -> Labels] /\ reply' \in [Speakers -> {"none", "text", "markup"}]
  BY DEF EndTurn, Goto, TurnsTyped, Labels
<1> QED
  BY <1>1, <1>2, <1>3

LEMMA StreamTyped ==
  ASSUME TurnsTyped, NEW s \in Speakers, Stream(s)
  PROVE  /\ pc' \in [Speakers -> Labels] /\ left' \in [Speakers -> Nat]
         /\ isSpeaking' = TRUE /\ since' \in 0..Cooldown
BY Sizes DEF Stream, Goto, TurnsTyped, Labels

LEMMA HangTyped ==
  ASSUME TurnsTyped, NEW s \in Speakers, Hang(s)
  PROVE  /\ pc' \in [Speakers -> Labels]
         /\ UNCHANGED <<state, isSpeaking, lock, reply, segment, left, since>>
BY DEF Hang, Goto, TurnsTyped, Labels

LEMMA TurnsStep ==
  ASSUME IndInv, NEW t \in Turns, TurnStep(t) \/ StartTurn(t) \/ EdgeReturns(t)
  PROVE  TurnsTyped'
<1>1. TurnsTyped
  BY AgentTyped, TurnTyped DEF IndInv, TurnsTyped
<1> USE <1>1, Sizes DEF TurnsTyped, Labels, Goto, switchVars, gateVars, turnVars, chatVars, echoVars
<1>2. CASE OnSpeechEnd(t)
  <2>1. pc' \in [Speakers -> Labels] /\ pc'[t] \in {"idle", "waiting"}
    BY <1>2 DEF OnSpeechEnd
  <2>2. segment' \in [Turns -> BOOLEAN]
    BY <1>2, <2>1 DEF OnSpeechEnd
  <2> QED
    BY <1>2, <2>1, <2>2 DEF OnSpeechEnd
<1>3. CASE AskWithAudio(t)
  BY <1>3, Replies DEF AskWithAudio
<1>4. CASE AskWithText(t)
  BY <1>4, Replies DEF AskWithText
<1>5. CASE Answer(t)
  BY <1>5 DEF Answer
<1>6. CASE SpeakReply(t)
  <2>1. CASE EndTurn(t) /\ UNCHANGED <<isSpeaking, left, since>>
    BY <1>6, <2>1, EndTyped DEF SpeakReply
  <2>2. CASE Stream(t) /\ UNCHANGED <<state, lock, reply, segment>>
    BY <1>6, <2>2, StreamTyped DEF SpeakReply
  <2>3. CASE Hang(t)
    BY <1>6, <2>3, HangTyped DEF SpeakReply
  <2> QED
    BY <1>6, <2>1, <2>2, <2>3 DEF SpeakReply
<1>7. CASE StartTurn(t)
  BY <1>7 DEF StartTurn, Lock
<1>8. CASE EdgeReturns(t)
  BY <1>8, StreamTyped DEF EdgeReturns
<1> QED
  BY <1>2, <1>3, <1>4, <1>5, <1>6, <1>7, <1>8 DEF TurnStep

LEMMA SpeakersStep ==
  ASSUME IndInv, NEW s \in Speakers, SpeakerStep(s)
  PROVE  TurnsTyped'
<1>1. TurnsTyped
  BY AgentTyped, TurnTyped DEF IndInv, TurnsTyped
<1> USE <1>1, Sizes DEF TurnsTyped, Labels, Goto, switchVars, gateVars, turnVars, chatVars, echoVars
<1>2. CASE FeedFrame(s)
  <2>1. left[s] \in Nat
    OBVIOUS
  <2>2. left' \in [Speakers -> Nat]
    BY <1>2, <2>1 DEF FeedFrame
  <2> QED
    BY <1>2, <2>2 DEF FeedFrame
<1>3. CASE EndStream(s)
  BY <1>3 DEF EndStream, EndTurn, Unlock
<1> QED
  BY <1>2, <1>3 DEF SpeakerStep

LEMMA GreeterStep ==
  ASSUME IndInv, GreetCaller \/ Wake \/ StartGreeting \/ Greet \/ GreetAtLast
  PROVE  TurnsTyped'
<1>1. TurnsTyped
  BY AgentTyped, TurnTyped DEF IndInv, TurnsTyped
<1> USE <1>1, Sizes DEF TurnsTyped, Labels, Goto, switchVars, gateVars, turnVars, chatVars, echoVars
<1>2. CASE GreetCaller \/ Wake \/ StartGreeting
  BY <1>2 DEF GreetCaller, Wake, StartGreeting, Lock
<1>3. CASE Greet
  <2>1. CASE EndTurn(Greeter) /\ UNCHANGED <<isSpeaking, left, since>>
    BY <1>3, <2>1, EndTyped DEF Greet
  <2>2. CASE SayGreeting
    BY <1>3, <2>2, StreamTyped DEF Greet, SayGreeting
  <2>3. CASE Hang(Greeter)
    BY <1>3, <2>3, HangTyped DEF Greet
  <2> QED
    BY <1>3, <2>1, <2>2, <2>3 DEF Greet
<1>4. CASE GreetAtLast
  BY <1>4, StreamTyped DEF GreetAtLast, SayGreeting
<1> QED
  BY <1>2, <1>3, <1>4

(* Every action keeps the types. *)
LEMMA TypeStep ==
  ASSUME IndInv, [Next]_vars
  PROVE  TypeOK'
<1>0. history' \in Seq(Roles) /\ failures' \in Nat
  BY HistoryStep
<1>1. CASE UNCHANGED vars
  BY <1>1 DEF IndInv, TypeOK, vars, switchVars, gateVars, turnVars, chatVars, echoVars
<1>2. CASE \E loud \in BOOLEAN : FeedPeerAudio(loud)
  <2>1. frame' \in Frames
    BY <1>2 DEF FeedPeerAudio, Frames, Echoing
  <2> QED
    BY <1>2, <2>1 DEF IndInv, TypeOK, FeedPeerAudio, switchVars, turnVars, chatVars, echoVars
<1>3. CASE ProcessFrame
  <2>1. frame' \in Frames
    BY <1>3 DEF ProcessFrame, Frames, NoFrame
  <2> QED
    BY <1>3, <2>1, FrameStep DEF IndInv, TypeOK, ProcessFrame, Listening, Vads, switchVars, chatVars, echoVars
<1>4. CASE OnSpeechStart
  BY <1>4 DEF IndInv, TypeOK, OnSpeechStart, switchVars, turnVars, chatVars, echoVars
<1>5. ASSUME NEW t \in Turns, TurnStep(t) \/ StartTurn(t) \/ EdgeReturns(t) PROVE TypeOK'
  <2>1. TurnsTyped'
    BY <1>5, TurnsStep
  <2>2. UNCHANGED <<switchVars, vad, frame, onset, prewarmPCM>>
    BY <1>5 DEF TurnStep, OnSpeechEnd, AskWithAudio, AskWithText, Answer, SpeakReply, EdgeReturns,
       StartTurn, switchVars, gateVars
  <2> QED
    BY <1>0, <2>1, <2>2 DEF IndInv, TypeOK, TurnsTyped, switchVars
<1>6. ASSUME NEW s \in Speakers, SpeakerStep(s) PROVE TypeOK'
  <2>1. TurnsTyped'
    BY <1>6, SpeakersStep
  <2>2. UNCHANGED <<switchVars, frame, onset, prewarmPCM>> /\ vad' \in {vad, Silence}
    BY <1>6 DEF SpeakerStep, FeedFrame, EndStream, Reset, switchVars, gateVars
  <2> QED
    BY <1>0, <2>1, <2>2, SilenceType DEF IndInv, TypeOK, TurnsTyped, switchVars, Listening, Vads
<1>7. CASE GreetCaller \/ Wake \/ StartGreeting \/ Greet \/ GreetAtLast
  <2>1. TurnsTyped'
    BY <1>7, GreeterStep
  <2>2. UNCHANGED <<switchVars, vad, frame, onset>> /\ prewarmPCM' \in {prewarmPCM, FALSE}
    BY <1>7 DEF GreetCaller, Wake, StartGreeting, Greet, GreetAtLast, SayGreeting, switchVars, gateVars
  <2> QED
    BY <1>0, <2>1, <2>2 DEF IndInv, TypeOK, TurnsTyped, switchVars
<1>8. CASE PrewarmGreeting
  BY <1>8 DEF IndInv, TypeOK, PrewarmGreeting, switchVars, gateVars, turnVars, chatVars, echoVars
<1>9. CASE (\E on \in BOOLEAN : SetEnabled(on)) \/ Close
  <2>1. /\ vad' \in {vad, Silence} /\ turnedOff' \in BOOLEAN /\ isSpeaking' \in BOOLEAN
        /\ state' \in {state, "idle"} /\ enabled' \in BOOLEAN /\ cancelled' \in BOOLEAN
        /\ UNCHANGED <<frame, onset, turnVars, prewarmPCM, chatVars, since>>
    BY <1>9, AgentTyped DEF IndInv, SetEnabled, Close, TurnOff, Reset
  <2> QED
    BY <2>1, SilenceType DEF IndInv, TypeOK, turnVars, chatVars, Listening, Vads
<1>10. CASE Tick
  <2>1. since' \in 0..Cooldown
    BY <1>10, AgentTyped, Sizes DEF IndInv, Tick
  <2>2. left' \in [Speakers -> Nat]
    BY <1>10, TurnTyped DEF IndInv, Tick
  <2> QED
    BY <1>10, <2>1, <2>2 DEF IndInv, TypeOK, Tick, switchVars, gateVars, chatVars
<1> QED
  BY <1>1, <1>2, <1>3, <1>4, <1>5, <1>6, <1>7, <1>8, <1>9, <1>10 DEF Next

Inside == {"asking", "retrying", "answering", "greeting", "synthesizing", "hanging", "streaming",
           "cooling"}

(* speechLock is taken and given up by whom it is about. *)
LEMMA LockStep ==
  ASSUME IndInv, [Next]_vars
  PROVE  OneSpeaks'
<1>1. pc \in [Speakers -> Labels] /\ \A s \in Speakers : pc[s] \in Inside => lock = s
  BY TurnTyped DEF IndInv, OneSpeaks, Inside
<1> SUFFICES \A s \in Speakers : pc'[s] \in Inside => lock' = s
  BY DEF OneSpeaks, Inside
<1> USE <1>1, Sizes DEF Goto, Inside
<1>2. CASE UNCHANGED <<pc, lock>>
  BY <1>2
<1>3. CASE ProcessFrame
  BY <1>3, FrameStep DEF ProcessFrame
<1>4. ASSUME NEW t \in Turns, TurnStep(t) \/ StartTurn(t) \/ EdgeReturns(t)
      PROVE  \A s \in Speakers : pc'[s] \in Inside => lock' = s
  <2>1. CASE OnSpeechEnd(t)
    BY <2>1 DEF OnSpeechEnd
  <2>2. CASE AskWithAudio(t) \/ AskWithText(t) \/ Answer(t)
    BY <2>2 DEF AskWithAudio, AskWithText, Answer
  <2>3. CASE SpeakReply(t)
    BY <2>3 DEF SpeakReply, Stream, Hang, EndTurn, Unlock
  <2>4. CASE StartTurn(t)
    BY <2>4 DEF StartTurn, Lock
  <2>5. CASE EdgeReturns(t)
    BY <2>5 DEF EdgeReturns, Stream
  <2> QED
    BY <1>4, <2>1, <2>2, <2>3, <2>4, <2>5 DEF TurnStep
<1>5. ASSUME NEW t \in Speakers, SpeakerStep(t)
      PROVE  \A s \in Speakers : pc'[s] \in Inside => lock' = s
  BY <1>5 DEF SpeakerStep, FeedFrame, EndStream, EndTurn, Unlock
<1>6. CASE GreetCaller \/ Wake \/ StartGreeting \/ Greet \/ GreetAtLast
  <2>1. CASE GreetCaller \/ Wake
    BY <2>1 DEF GreetCaller, Wake
  <2>2. CASE StartGreeting
    BY <2>2 DEF StartGreeting, Lock
  <2>3. CASE Greet
    BY <2>3 DEF Greet, SayGreeting, Stream, Hang, EndTurn, Unlock
  <2>4. CASE GreetAtLast
    BY <2>4 DEF GreetAtLast, SayGreeting, Stream
  <2> QED
    BY <1>6, <2>1, <2>2, <2>3, <2>4
<1>7. CASE \/ \E loud \in BOOLEAN : FeedPeerAudio(loud)
           \/ OnSpeechStart \/ PrewarmGreeting \/ \E on \in BOOLEAN : SetEnabled(on)
           \/ Close \/ Tick \/ UNCHANGED vars
  BY <1>2, <1>7 DEF FeedPeerAudio, OnSpeechStart, Tick, PrewarmGreeting, SetEnabled, Close, vars, turnVars
<1> QED
  BY <1>3, <1>4, <1>5, <1>6, <1>7 DEF Next

(* The clock of the cooldown: who is heard or cools down holds the lock, alone.           *)
LEMMA CoolingStep ==
  ASSUME IndInv, [Next]_vars
  PROVE  Cooling'
<1>1. /\ pc \in [Speakers -> Labels] /\ left \in [Speakers -> Nat] /\ since \in 0..Cooldown
      /\ \A s \in Speakers : pc[s] \in Inside => lock = s
      /\ \A s \in Speakers : pc[s] = "streaming" => since = 0
      /\ \A s \in Speakers : pc[s] = "cooling" => since + left[s] >= Cooldown
  BY AgentTyped, TurnTyped DEF IndInv, OneSpeaks, Inside, Cooling
<1> SUFFICES /\ \A s \in Speakers : pc'[s] = "streaming" => since' = 0
             /\ \A s \in Speakers : pc'[s] = "cooling" => since' + left'[s] >= Cooldown
  BY DEF Cooling
<1> USE <1>1, Sizes DEF Goto, Inside
<1>2. CASE UNCHANGED <<pc, left, since>>
  BY <1>2
<1>3. CASE ProcessFrame
  BY <1>3, FrameStep DEF ProcessFrame, echoVars
<1>4. ASSUME NEW s \in Speakers, pc[s] \in Inside, Stream(s)
      PROVE  Cooling'
  <2>1. pc' = [pc EXCEPT ![s] = "streaming"] /\ since' = 0
    BY <1>4 DEF Stream
  <2>2. \A u \in Speakers : u # s => pc'[u] \notin Inside
    BY <1>4, <2>1
  <2> QED
    BY <2>1, <2>2 DEF Cooling
<1>5. ASSUME NEW s \in Speakers, NEW l \in {"idle", "waiting", "asking", "retrying", "answering",
                                          "synthesizing", "sleeping", "greeting", "hanging"},
             pc' = [pc EXCEPT ![s] = l], UNCHANGED <<left, since>>
      PROVE  Cooling'
  BY <1>5 DEF Cooling
<1>6. ASSUME NEW t \in Turns, TurnStep(t) \/ StartTurn(t) \/ EdgeReturns(t)
      PROVE  Cooling'
  <2>1. CASE OnSpeechEnd(t)
    <3>1. pc' = [pc EXCEPT ![t] = "idle"] \/ pc' = [pc EXCEPT ![t] = "waiting"]
      BY <2>1 DEF OnSpeechEnd
    <3> QED
      BY <1>5, <2>1, <3>1 DEF OnSpeechEnd, echoVars
  <2>2. CASE AskWithAudio(t) \/ AskWithText(t) \/ Answer(t) \/ StartTurn(t)
    BY <1>5, <2>2 DEF AskWithAudio, AskWithText, Answer, StartTurn, Lock, echoVars
  <2>3. CASE SpeakReply(t)
    BY <1>4, <1>5, <2>3 DEF SpeakReply, Hang, EndTurn
  <2>4. CASE EdgeReturns(t)
    BY <1>4, <2>4 DEF EdgeReturns
  <2> QED
    BY <1>6, <2>1, <2>2, <2>3, <2>4 DEF TurnStep
<1>7. ASSUME NEW s \in Speakers, SpeakerStep(s)
      PROVE  Cooling'
  <2>1. CASE FeedFrame(s)
    <3>1. since' = since /\ pc[s] = "streaming"
      BY <2>1 DEF FeedFrame, echoVars
    <3>2. CASE UNCHANGED pc
      <4>1. \A u \in Speakers : pc[u] # "cooling"
        BY <3>1
      <4> QED
        BY <3>1, <3>2, <4>1 DEF Cooling
    <3>3. CASE pc' = [pc EXCEPT ![s] = "cooling"] /\ left' = [left EXCEPT ![s] = Cooldown]
      BY <3>1, <3>3 DEF Cooling
    <3> QED
      BY <2>1, <3>2, <3>3 DEF FeedFrame
  <2>2. CASE EndStream(s)
    BY <1>5, <2>2 DEF EndStream, EndTurn
  <2> QED
    BY <1>7, <2>1, <2>2 DEF SpeakerStep
<1>8. CASE GreetCaller \/ Wake \/ StartGreeting
  <2>1. CASE GreetCaller \/ StartGreeting
    BY <1>5, <2>1 DEF GreetCaller, StartGreeting, Lock, echoVars
  <2>2. CASE Wake
    <3>1. pc' = [pc EXCEPT ![Greeter] = "idle"] \/ pc' = [pc EXCEPT ![Greeter] = "waiting"]
      BY <2>2 DEF Wake
    <3> QED
      BY <1>5, <2>2, <3>1 DEF Wake, echoVars
  <2> QED
    BY <1>8, <2>1, <2>2 DEF Cooling
<1>9. CASE Greet \/ GreetAtLast
  BY <1>4, <1>5, <1>9 DEF Greet, GreetAtLast, SayGreeting, Hang, EndTurn, Cooling
<1>10. CASE Tick
  <2>1. /\ since' = (IF Heard THEN 0 ELSE since + 1) /\ pc' = pc
        /\ \A s \in Speakers : left'[s] = IF pc[s] = "cooling" /\ left[s] > 0 THEN left[s] - 1 ELSE left[s]
    BY <1>10 DEF Tick
  <2>2. CASE Heard
    <3>1. \A s \in Speakers : pc[s] # "cooling"
      BY <2>2 DEF Heard
    <3> QED
      BY <2>1, <2>2, <3>1
  <2>3. CASE ~Heard
    BY <1>10, <2>1, <2>3 DEF Heard, Tick
  <2> QED
    BY <2>2, <2>3
<1>11. CASE \/ \E loud \in BOOLEAN : FeedPeerAudio(loud)
            \/ OnSpeechStart \/ PrewarmGreeting \/ \E on \in BOOLEAN : SetEnabled(on)
            \/ Close \/ UNCHANGED vars
  BY <1>2, <1>11 DEF FeedPeerAudio, OnSpeechStart, PrewarmGreeting, SetEnabled, Close, vars, turnVars,
     echoVars
<1> QED
  BY <1>3, <1>6, <1>7, <1>8, <1>9, <1>10, <1>11 DEF Next, Cooling

(* The gate: it is shut before anybody is heard, and opened once the cooldown is over, or   *)
(* by whoever turns the agent off.                                                *)
LEMMA GateStep ==
  ASSUME IndInv, [Next]_vars
  PROVE  GateShut' /\ vad'.len < MaxSegment
<1>1. /\ pc \in [Speakers -> Labels] /\ segment \in [Turns -> BOOLEAN]
      /\ left \in [Speakers -> Nat] /\ since \in 0..Cooldown
      /\ Listening(vad) /\ ~frame.echo /\ \A t \in Turns : ~segment[t]
      /\ since < Cooldown => isSpeaking \/ turnedOff
      /\ \A s \in Speakers : pc[s] = "cooling" => since + left[s] >= Cooldown
  BY AgentTyped, TurnTyped, GateTyped DEF IndInv, Cooling, GateShut, Listening, Vads
<1> SUFFICES /\ since' < Cooldown => isSpeaking' \/ turnedOff'
             /\ ~frame'.echo /\ Listening(vad') /\ \A t \in Turns : ~segment'[t]
  BY DEF GateShut, Listening
<1> USE <1>1, Sizes DEF Goto
<1>2. CASE UNCHANGED vars
  BY <1>2 DEF vars, gateVars, turnVars, echoVars
<1>3. CASE \E loud \in BOOLEAN : FeedPeerAudio(loud)
  <2>1. /\ ~isSpeaking /\ frame'.echo = Echoing
        /\ UNCHANGED <<segment, vad, isSpeaking, since, turnedOff>>
    BY <1>3 DEF FeedPeerAudio, turnVars, echoVars
  <2> QED
    BY <2>1 DEF Echoing
<1>4. CASE ProcessFrame
  BY <1>4, FrameStep DEF ProcessFrame, NoFrame, echoVars
<1>5. CASE OnSpeechStart \/ PrewarmGreeting
  BY <1>5 DEF OnSpeechStart, PrewarmGreeting, turnVars, gateVars, echoVars
<1>6. ASSUME NEW t \in Turns, TurnStep(t) \/ StartTurn(t) \/ EdgeReturns(t)
      PROVE  /\ since' < Cooldown => isSpeaking' \/ turnedOff'
             /\ ~frame'.echo /\ Listening(vad') /\ \A u \in Turns : ~segment'[u]
  <2>1. CASE OnSpeechEnd(t)
    <3>1. segment' = [segment EXCEPT ![t] = segment[t] /\ pc'[t] = "waiting"]
      BY <2>1 DEF OnSpeechEnd
    <3>2. \A u \in Turns : ~segment'[u]
      BY <3>1
    <3> QED
      BY <2>1, <3>2 DEF OnSpeechEnd, gateVars, echoVars
  <2>2. CASE AskWithAudio(t) \/ AskWithText(t) \/ Answer(t)
    BY <2>2 DEF AskWithAudio, AskWithText, Answer, gateVars, echoVars
  <2>3. CASE SpeakReply(t) \/ EdgeReturns(t)
    BY <2>3 DEF SpeakReply, EdgeReturns, Stream, Hang, EndTurn
  <2>4. CASE StartTurn(t)
    BY <2>4 DEF StartTurn, Lock, gateVars, echoVars
  <2> QED
    BY <1>6, <2>1, <2>2, <2>3, <2>4 DEF TurnStep
<1>7. ASSUME NEW s \in Speakers, SpeakerStep(s)
      PROVE  /\ since' < Cooldown => isSpeaking' \/ turnedOff'
             /\ ~frame'.echo /\ Listening(vad') /\ \A u \in Turns : ~segment'[u]
  <2>1. CASE FeedFrame(s)
    BY <2>1 DEF FeedFrame, gateVars, echoVars
  <2>2. CASE EndStream(s)
    <3>1. ~(since' < Cooldown)
      BY <2>2 DEF EndStream
    <3> QED
      BY <2>2, <3>1, SilenceType DEF EndStream, EndTurn, Reset
  <2> QED
    BY <1>7, <2>1, <2>2 DEF SpeakerStep
<1>8. CASE GreetCaller \/ Wake \/ StartGreeting \/ Greet \/ GreetAtLast
  <2>1. CASE GreetCaller \/ Wake \/ StartGreeting
    BY <2>1 DEF GreetCaller, Wake, StartGreeting, Lock, gateVars, echoVars
  <2>2. CASE Greet \/ GreetAtLast
    BY <2>2 DEF Greet, GreetAtLast, SayGreeting, Stream, Hang, EndTurn, gateVars
  <2> QED
    BY <1>8, <2>1, <2>2
<1>9. CASE (\E on \in BOOLEAN : SetEnabled(on)) \/ Close
  BY <1>9, SilenceType DEF SetEnabled, Close, TurnOff, Reset, turnVars
<1>10. CASE Tick
  BY <1>10 DEF Tick, gateVars
<1> QED
  BY <1>2, <1>3, <1>4, <1>5, <1>6, <1>7, <1>8, <1>9, <1>10 DEF Next

LEMMA StepInv == IndInv /\ [Next]_vars => IndInv'
BY TypeStep, HistoryStep, LockStep, CoolingStep, GateStep DEF IndInv

LEMMA InitInv == Init => IndInv
<1> SUFFICES ASSUME Init PROVE IndInv
  OBVIOUS
<1>1. TypeOK
  <2>1. /\ vad = Silence /\ frame \in Frames /\ history \in Seq(Roles)
        /\ lock \in Speakers \cup {Nobody}
    BY DEF Init, NoFrame, Frames, Roles
  <2>2. /\ pc \in [Speakers -> Labels] /\ segment \in [Turns -> BOOLEAN]
        /\ reply \in [Speakers -> {"none", "text", "markup"}]
        /\ left \in [Speakers -> Nat]
    BY DEF Init, Labels
  <2>3. vad \in Vads /\ since \in 0..Cooldown
    BY <2>1, SilenceType, Sizes DEF Init, Listening
  <2> QED
    BY <2>1, <2>2, <2>3 DEF Init, TypeOK, Vads
<1>2. vad.len < MaxSegment /\ GateShut /\ Cooling
  BY Sizes DEF Init, GateShut, Cooling, Speakers, Silence, NoFrame
<1>3. HistoryBounded /\ OneSpeaks
  BY Sizes DEF Init, HistoryBounded, OneSpeaks
<1> QED
  BY <1>1, <1>2, <1>3 DEF IndInv

(* Every variable keeps its type. *)
THEOREM TypeCorrect == Spec => []TypeOK
<1>1. IndInv => TypeOK
  BY DEF IndInv
<1> QED
  BY InitInv, StepInv, <1>1, PTL DEF Spec

(* The agent does not answer itself: no frame that comes while it is heard or within the     *)
(* cooldown is in a segment that is answered, unless it was turned off in that time.       *)
THEOREM NoEcho == Spec => []NoEchoAnswered
<1>1. IndInv => NoEchoAnswered
  BY DEF IndInv, GateShut, NoEchoAnswered
<1> QED
  BY InitInv, StepInv, <1>1, PTL DEF Spec

(* The history keeps its prompt and its limit, but for the failed chats since the last    *)
(* time it was trimmed.                                                          *)
THEOREM BoundedHistory == Spec => []HistoryBounded
<1>1. IndInv => HistoryBounded
  BY DEF IndInv
<1> QED
  BY InitInv, StepInv, <1>1, PTL DEF Spec

----------------------------------------------------------------------------
(* VoiceAgent: sequences of samples.                                         *)

(* What a concatenation and a part of a sequence hold.                           *)
LEMMA ConcatFacts ==
  ASSUME NEW S, NEW s \in Seq(S), NEW t \in Seq(S)
  PROVE  /\ s \o t \in Seq(S)
         /\ DOMAIN (s \o t) = 1..(Len(s) + Len(t))
         /\ DOMAIN s = 1..Len(s) /\ DOMAIN t = 1..Len(t)
         /\ Len(s \o t) = Len(s) + Len(t) /\ Len(s) \in Nat /\ Len(t) \in Nat
         /\ \A i \in DOMAIN (s \o t) :
              (s \o t)[i] = IF i <= Len(s) THEN s[i] ELSE t[i - Len(s)]
OBVIOUS

LEMMA SubSeqFacts ==
  ASSUME NEW S, NEW s \in Seq(S), NEW m \in 1..(Len(s) + 1), NEW n \in (m - 1)..Len(s)
  PROVE  /\ SubSeq(s, m, n) \in Seq(S)
         /\ DOMAIN SubSeq(s, m, n) = 1..(n - m + 1)
         /\ Len(SubSeq(s, m, n)) = n - m + 1
         /\ \A i \in 1..(n - m + 1) : SubSeq(s, m, n)[i] = s[m + i - 1]
BY SubSeqProperties

USE SizesAssumption

LEMMA VoiceBegins == VoiceInit => VoiceInv
<1> SUFFICES ASSUME VoiceInit PROVE VoiceInv
  OBVIOUS
<1>1. VoiceTypeOK
  <2>1. /\ started \in BOOLEAN /\ ready \in BOOLEAN /\ active \in BOOLEAN /\ closed \in BOOLEAN
        /\ asked \in BOOLEAN /\ locked \in BOOLEAN /\ wasPlaying \in BOOLEAN /\ quiet \in BOOLEAN
        /\ connected \in BOOLEAN
    BY DEF VoiceInit
  <2>2. <<>> \in Seq(Samples) /\ Len(<<>>) = 0
    OBVIOUS
  <2>3. starting \in [Starters -> {"none", "start", "dial", "setup", "done"}]
    BY DEF VoiceInit, Starters
  <2> QED
    BY <2>1, <2>2, <2>3 DEF VoiceInit, VoiceTypeOK, SizesAssumption
<1>2. PartsOf(<<>>) = {}
  BY DEF PartsOf
<1>3. TriggerSteps
  BY DEF VoiceInit, TriggerSteps
<1> QED
  BY <1>1, <1>2, <1>3, SMT DEF VoiceInit, VoiceInv, ChunkIsLast, AllOlder,
     Older, GreetingApart, SpokenInOrder, QueueFollows, InOrder,
     StrandedAlike, FlushCutsSpeech

(* The types that a step reads.                                                  *)
LEMMA VoiceTyped ==
  ASSUME VoiceTypeOK
  PROVE  /\ received \in Nat /\ cut \in Nat /\ stored \subseteq Nat
         /\ \A s \in {chunk, prewarmed, buffered, playQueue, heard} : s \in Seq(Samples)
BY DEF VoiceTypeOK, Parts, SizesAssumption

(* What the elements of the queues are.                                          *)
LEMMA SampleTyped ==
  ASSUME NEW s \in Seq(Samples), NEW i \in DOMAIN s
  PROVE  s[i] \in Samples /\ s[i][1] \in Nat /\ s[i][2] \in Nat /\ s[i][1] \in PartsOf(s)
<1>1. s[i] \in Samples /\ s[i][1] \in PartsOf(s)
  BY DEF PartsOf
<1> QED
  BY <1>1 DEF Samples, Parts, SizesAssumption

LEMMA PartsWithin ==
  ASSUME NEW s, NEW T
  PROVE  PartsOf(s) \subseteq T <=> \A i \in DOMAIN s : s[i][1] \in T
BY Zenon DEF PartsOf

(* What holds of the parts of two sequences holds of their concatenation.            *)
LEMMA JoinedParts ==
  ASSUME NEW s \in Seq(Samples), NEW t \in Seq(Samples)
  PROVE  PartsOf(s \o t) = PartsOf(s) \cup PartsOf(t)
<1>1. ASSUME NEW p \in PartsOf(s \o t) PROVE p \in PartsOf(s) \cup PartsOf(t)
  <2>1. PICK i \in DOMAIN (s \o t) : p = (s \o t)[i][1]
    BY <1>1 DEF PartsOf
  <2> QED
    BY <2>1, ConcatFacts DEF PartsOf
<1>2. ASSUME NEW i \in DOMAIN s PROVE s[i][1] \in PartsOf(s \o t)
  <2>1. i \in DOMAIN (s \o t) /\ (s \o t)[i] = s[i]
    BY ConcatFacts
  <2> QED
    BY <2>1 DEF PartsOf
<1>3. ASSUME NEW i \in DOMAIN t PROVE t[i][1] \in PartsOf(s \o t)
  <2>1. Len(s) + i \in DOMAIN (s \o t) /\ (s \o t)[Len(s) + i] = t[i]
    BY ConcatFacts
  <2> QED
    BY <2>1 DEF PartsOf
<1> QED
  BY <1>1, <1>2, <1>3 DEF PartsOf

LEMMA JoinedInOrder ==
  ASSUME NEW s \in Seq(Samples), NEW t \in Seq(Samples), InOrder(s),
  InOrder(t),
         \A i \in DOMAIN s, j \in DOMAIN t : Alike(s[i], t[j]) => Before(s[i], t[j])
  PROVE  InOrder(s \o t)
<1> DEFINE all == s \o t
<1> SUFFICES ASSUME NEW i \in DOMAIN all, NEW j \in DOMAIN all, i < j, Alike(all[i], all[j])
             PROVE  Before(all[i], all[j])
  BY DEF InOrder
<1> HIDE DEF all
<1>0. DOMAIN s = 1..Len(s) /\ DOMAIN t = 1..Len(t) /\ Len(s) \in Nat /\ Len(t) \in Nat
      /\ i \in 1..(Len(s) + Len(t)) /\ j \in 1..(Len(s) + Len(t))
      /\ all[i] = (IF i <= Len(s) THEN s[i] ELSE t[i - Len(s)])
      /\ all[j] = (IF j <= Len(s) THEN s[j] ELSE t[j - Len(s)])
  BY ConcatFacts DEF all
<1>1. CASE j <= Len(s)
  <2>1. i \in DOMAIN s /\ j \in DOMAIN s /\ all[i] = s[i] /\ all[j] = s[j]
    BY <1>0, <1>1
  <2> QED
    BY <2>1 DEF InOrder
<1>2. CASE i <= Len(s) /\ j > Len(s)
  <2>1. i \in DOMAIN s /\ j - Len(s) \in DOMAIN t /\ all[i] = s[i] /\ all[j] = t[j - Len(s)]
    BY <1>0, <1>2
  <2> QED
    BY <2>1
<1>3. CASE i > Len(s)
  <2>1. /\ i - Len(s) \in DOMAIN t /\ j - Len(s) \in DOMAIN t /\ i - Len(s) < j - Len(s)
        /\ all[i] = t[i - Len(s)] /\ all[j] = t[j - Len(s)]
    BY <1>0, <1>3
  <2> QED
    BY <2>1 DEF InOrder
<1> QED
  BY <1>0, <1>1, <1>2, <1>3

(* A stretch of a sequence has its elements, in the same order.                      *)
LEMMA StretchInOrder ==
  ASSUME NEW s \in Seq(Samples), NEW m \in 1..(Len(s) + 1), NEW n \in (m - 1)..Len(s)
  PROVE  /\ \A i \in DOMAIN SubSeq(s, m, n) :
              m + i - 1 \in DOMAIN s /\ SubSeq(s, m, n)[i] = s[m + i - 1]
         /\ PartsOf(SubSeq(s, m, n)) \subseteq PartsOf(s)
         /\ InOrder(s) => InOrder(SubSeq(s, m, n))
<1> DEFINE t == SubSeq(s, m, n)
<1>0. DOMAIN s = 1..Len(s) /\ Len(s) \in Nat
  OBVIOUS
<1>1. /\ DOMAIN t = 1..(n - m + 1)
      /\ \A i \in DOMAIN t : m + i - 1 \in DOMAIN s /\ t[i] = s[m + i - 1]
  BY <1>0, SubSeqFacts
<1> HIDE DEF t
<1>2. PartsOf(t) \subseteq PartsOf(s)
  BY <1>1 DEF PartsOf
<1>3. ASSUME InOrder(s) PROVE InOrder(t)
  <2> SUFFICES ASSUME NEW i \in DOMAIN t, NEW j \in DOMAIN t, i < j, Alike(t[i], t[j])
               PROVE  Before(t[i], t[j])
    BY DEF InOrder
  <2>1. m + i - 1 < m + j - 1
    BY <1>1
  <2> QED
    BY <1>1, <1>3, <2>1 DEF InOrder
<1> QED
  BY <1>1, <1>2, <1>3 DEF t

(* A step that leaves the samples, and what they are known to be, alone.            *)
LEMMA VoiceUnseen ==
  ASSUME VoiceInv, VoiceTypeOK', TriggerSteps',
         UNCHANGED <<chunk, received, prewarmed, buffered, playQueue, stored, heard, cut>>,
         reading' = reading \/ reading' \notin {"feed", "store"},
         trigger' = trigger \/ {trigger, trigger'} \subseteq {"idle", "triggered", "take"}
  PROVE  VoiceInv'
BY SMT DEF VoiceInv, ChunkIsLast, AllOlder, Older, GreetingApart,
   SpokenInOrder, QueueFollows,
   InOrder, Alike, Before, StrandedAlike, FlushCutsSpeech,
   PartsOf

LEMMA StartKeeps ==
  ASSUME VoiceInv, NEW s \in Starters,
  Start(s) \/ Dial(s) \/ SendSetup(s)
  PROVE  VoiceInv'
<1>1. VoiceTypeOK'
  <2> USE DEF VoiceInv, VoiceTypeOK, agentVars, linkVars, readVars, greetVars,
  queueVars, Step
  <2>1. CASE Start(s)
    BY <2>1 DEF Start
  <2>2. CASE Dial(s)
    BY <2>2 DEF Dial
  <2>3. CASE SendSetup(s)
    BY <2>3 DEF SendSetup
  <2> QED
    BY <2>1, <2>2, <2>3
<1>2. TriggerSteps'
  BY DEF VoiceInv, TriggerSteps, Start, Dial, SendSetup,
     agentVars, linkVars, greetVars
<1> QED
  BY <1>1, <1>2, VoiceUnseen DEF Start, Dial, SendSetup, agentVars, linkVars,
     readVars, greetVars, queueVars

LEMMA FlagsKeep ==
  ASSUME VoiceInv,
         \/ SetupComplete \/ ReadInterrupted \/ ReadEnd
         \/ ReportActive \/ ActivateCall
         \/ FallQuiet \/ RelayChanges \/ StartPump \/ EndCall
  PROVE  VoiceInv'
<1> USE DEF SetupComplete, ReadInterrupted, ReadEnd, ReportActive,
ActivateCall, FallQuiet,
            RelayChanges, StartPump, EndCall, agentVars, linkVars, readVars, greetVars,
            queueVars
<1>1. VoiceTypeOK'
  <2> USE DEF VoiceInv, VoiceTypeOK
  <2>1. CASE SetupComplete
    BY <2>1
  <2>2. CASE ReadInterrupted
    BY <2>2
  <2>3. CASE ReadEnd
    BY <2>3
  <2>4. CASE ReportActive
    BY <2>4
  <2>5. CASE ActivateCall
    <3>1. starting' \in [Starters -> {"none", "start", "dial", "setup", "done"}]
      BY <2>5
    <3>2. active' = TRUE /\ trigger' = "take"
      BY <2>5
    <3> QED
      BY <2>5, <3>1, <3>2
  <2>6. CASE FallQuiet
    BY <2>6
  <2>7. CASE StartPump
    BY <2>7
  <2>8. CASE EndCall
    BY <2>8
  <2>9. CASE RelayChanges
    BY <2>9
  <2> QED
    BY <2>1, <2>2, <2>3, <2>4, <2>5, <2>6, <2>7, <2>8, <2>9
<1>2. TriggerSteps'
  BY DEF VoiceInv, TriggerSteps
<1> QED
  BY <1>1, <1>2, VoiceUnseen

(* A part is received: its samples are later than all there are.                   *)
LEMMA ReadPartKeeps ==
  ASSUME VoiceInv, ReadPart
  PROVE  VoiceInv'
<1>1. PICK n \in PartSizes : chunk' = [i \in 1..n |-> <<received', i>>]
  BY DEF ReadPart
<1>2. received' = received + 1 /\ received' \in Parts /\ n \in Nat
  BY DEF ReadPart, VoiceInv, VoiceTypeOK, Parts, SizesAssumption
<1>3. chunk' \in Seq(Samples) /\ DOMAIN chunk' = 1..n
  BY <1>1, <1>2 DEF Samples
<1>4. VoiceTypeOK'
  BY <1>2, <1>3 DEF ReadPart, VoiceInv, VoiceTypeOK, Parts, agentVars, linkVars,
     greetVars, queueVars
<1>5. UNCHANGED <<prewarmed, buffered, playQueue, stored, heard, cut, trigger, active>>
  BY DEF ReadPart, agentVars, linkVars, greetVars, queueVars
<1>6. /\ TriggerSteps' /\ GreetingApart' /\ SpokenInOrder'
      /\ QueueFollows' /\ FlushCutsSpeech'
  BY <1>5 DEF VoiceInv, TriggerSteps, GreetingApart, SpokenInOrder,
     QueueFollows, FlushCutsSpeech,
     InOrder, Alike, PartsOf
<1>7. ChunkIsLast'
  <2>1. received \in Nat /\ cut <= received /\ \A p \in stored : p <= received
    BY DEF VoiceInv, VoiceTypeOK, ChunkIsLast
  <2>2. stored \subseteq Nat /\ cut \in Nat
    BY VoiceTyped DEF VoiceInv
  <2> QED
    BY <1>1, <1>2, <1>3, <1>5, <2>1, <2>2 DEF ChunkIsLast
<1>8. AllOlder'
  <2>1. \A s \in {heard, playQueue, buffered, prewarmed} :
          s \in Seq(Samples) /\ \A i \in DOMAIN s : s[i][1] \in Nat /\ s[i][1] <= received
    BY VoiceTyped, SampleTyped DEF VoiceInv, AllOlder, Older
  <2> QED
    <3>1. \A p \in Nat : p <= received => p <= received' /\ p < received'
      BY <1>2, VoiceTyped DEF VoiceInv
    <3> QED
      BY <1>5, <2>1, <3>1 DEF AllOlder, Older
<1>9. StrandedAlike'
  BY <1>5 DEF ReadPart, VoiceInv, TriggerSteps, StrandedAlike
<1> QED
  BY <1>4, <1>6, <1>7, <1>8, <1>9 DEF VoiceInv


(* The read loop feeds the part it received last, which comes after all there is.    *)
LEMMA FeedPartKeeps ==
  ASSUME VoiceInv, FeedPart
  PROVE  VoiceInv'
<1>1. /\ reading = "feed" /\ reading' = "read" /\ chunk' = <<>> /\ playQueue' = playQueue \o chunk
      /\ UNCHANGED <<active, received, prewarmed, buffered, trigger, stored, heard, cut>>
  BY DEF FeedPart, FeedCapturedPCM, agentVars, linkVars, greetVars
<1>2. VoiceTypeOK'
  <2>1. playQueue' \in Seq(Samples) /\ chunk' \in Seq(Samples)
    BY <1>1, VoiceTyped, ConcatFacts DEF VoiceInv
  <2> QED
    BY <1>1, <2>1 DEF FeedPart, FeedCapturedPCM, VoiceInv, VoiceTypeOK,
       agentVars, linkVars, greetVars
<1>3. /\ received \in Nat /\ received \notin stored /\ cut < received
      /\ \A i \in DOMAIN chunk : chunk[i] = <<received, i>> /\ i \in Nat
      /\ playQueue \in Seq(Samples) /\ chunk \in Seq(Samples)
  BY <1>1, VoiceTyped DEF VoiceInv, ChunkIsLast
<1>4. /\ PartsOf(chunk) \subseteq {received}
      /\ PartsOf(playQueue') = PartsOf(playQueue) \cup PartsOf(chunk)
  <2>1. \A i \in DOMAIN chunk : chunk[i][1] \in {received}
    BY <1>3
  <2>2. PartsOf(chunk) \subseteq {received}
    BY <2>1, PartsWithin
  <2> QED
    BY <1>1, <1>3, <2>2, JoinedParts
<1>5. \A i \in DOMAIN playQueue : playQueue[i][1] \in Nat /\ playQueue[i][1] < received
  BY <1>1, <1>3, SampleTyped DEF VoiceInv, AllOlder, Older
<1>6. \A j \in DOMAIN playQueue' :
        \/ \E i \in DOMAIN playQueue : playQueue'[j] = playQueue[i]
        \/ playQueue'[j][1] = received
  <2> SUFFICES ASSUME NEW j \in DOMAIN playQueue', j > Len(playQueue)
               PROVE  playQueue'[j][1] = received
    BY <1>1, <1>3, ConcatFacts
  <2>1. j - Len(playQueue) \in DOMAIN chunk /\ playQueue'[j] = chunk[j - Len(playQueue)]
    BY <1>1, <1>3, ConcatFacts
  <2> QED
    BY <1>3, <2>1
<1>7. TriggerSteps' /\ ChunkIsLast' /\ StrandedAlike'
  BY <1>1 DEF VoiceInv, TriggerSteps, ChunkIsLast, StrandedAlike
<1>8. AllOlder'
  <2>1. Older(heard)' /\ Older(buffered)' /\ Older(prewarmed)'
    BY <1>1 DEF VoiceInv, AllOlder, Older
  <2>2. Older(playQueue)'
    BY <1>1, <1>3, <1>5, <1>6 DEF Older
  <2> QED
    BY <2>1, <2>2 DEF AllOlder
<1>9. GreetingApart'
  BY <1>1, <1>3, <1>4 DEF VoiceInv, GreetingApart
<1>10. SpokenInOrder'
  BY <1>1 DEF VoiceInv, SpokenInOrder, InOrder, Alike
<1>11. QueueFollows'
  <2>1. InOrder(chunk)
    BY <1>3 DEF InOrder, Before
  <2>2. InOrder(playQueue \o chunk)
    BY <1>3, <1>5, <2>1, JoinedInOrder DEF VoiceInv, QueueFollows, Before
  <2>3. InOrder(playQueue)' /\ InOrder(buffered)' /\ InOrder(prewarmed)'
    BY <1>1, <2>2 DEF VoiceInv, QueueFollows, InOrder, Alike
  <2>4. \A i \in DOMAIN heard : heard[i][1] \in Nat /\ heard[i][1] < received
    BY <1>1, VoiceTyped, SampleTyped DEF VoiceInv, AllOlder, Older
  <2>5. \A i \in DOMAIN heard', j \in DOMAIN playQueue' :
          Alike(heard[i], playQueue[j])' => Before(heard[i], playQueue[j])'
    <3> SUFFICES ASSUME NEW i \in DOMAIN heard, NEW j \in DOMAIN playQueue', Alike(heard[i],
    playQueue[j])'
                 PROVE  Before(heard[i], playQueue'[j])
      BY <1>1 DEF Before
    <3>1. Alike(heard[i], playQueue'[j])
      BY <1>1 DEF Alike
    <3>2. CASE playQueue'[j][1] = received
      BY <2>4, <3>2 DEF Before
    <3>3. CASE \E k \in DOMAIN playQueue : playQueue'[j] = playQueue[k]
      BY <3>1, <3>3 DEF VoiceInv, QueueFollows
    <3> QED
      BY <1>6, <3>2, <3>3
  <2> QED
    BY <2>3, <2>5, Zenon DEF QueueFollows
<1>12. FlushCutsSpeech'
  BY <1>1, <1>3, <1>6 DEF VoiceInv, FlushCutsSpeech
<1> QED
  BY <1>2, <1>7, <1>8, <1>9, <1>10, <1>11, <1>12 DEF VoiceInv

(* A part that is stored: the classes of all that came before it stay as they are.   *)
LEMMA StorePartKeeps ==
  ASSUME VoiceInv, StorePart
  PROVE  VoiceInv'
<1> DEFINE all == prewarmed \o chunk
           kept == SubSeq(all, 1, IF Len(all) > MaxGreeting THEN MaxGreeting ELSE Len(all))
<1>1. /\ reading = "store" /\ reading' = "read" /\ chunk' = <<>>
      /\ stored' = stored \cup PartsOf(chunk)
      /\ UNCHANGED <<active, received, playQueue, buffered, trigger, heard, cut>>
  BY DEF StorePart, agentVars, linkVars, queueVars
<1>2. /\ received \in Nat /\ received \in Parts /\ received \notin stored /\ cut < received
      /\ \A i \in DOMAIN chunk : chunk[i] = <<received, i>> /\ i \in Nat
      /\ prewarmed \in Seq(Samples) /\ chunk \in Seq(Samples) /\ all \in Seq(Samples)
  BY <1>1, VoiceTyped, ConcatFacts DEF VoiceInv, ChunkIsLast
<1>3. prewarmed' = kept
  BY <1>2 DEF StorePart
<1>4. /\ kept \in Seq(Samples) /\ Len(kept) <= MaxGreeting
      /\ PartsOf(kept) \subseteq PartsOf(all) /\ (InOrder(all) => InOrder(kept))
      /\ \E n \in 0..Len(all) : kept = SubSeq(all, 1, n)
  <2>1. PICK n \in 0..Len(all) : kept = SubSeq(all, 1, n) /\ n <= MaxGreeting
    <3>1. PICK l \in Nat : l = Len(all)
      BY <1>2
    <3>2. PICK n \in 0..l : n = (IF l > MaxGreeting THEN MaxGreeting ELSE l) /\ n <= MaxGreeting
      BY DEF SizesAssumption
    <3> QED
      BY <3>1, <3>2
  <2>2. 1 \in 1..(Len(all) + 1) /\ n \in (1 - 1)..Len(all)
    BY <1>2
  <2> HIDE DEF all, kept
  <2>3. SubSeq(all, 1, n) \in Seq(Samples) /\ Len(SubSeq(all, 1, n)) = n - 1 + 1
    BY ONLY <1>2, <2>2, SubSeqFacts
  <2>4. /\ PartsOf(SubSeq(all, 1, n)) \subseteq PartsOf(all)
        /\ InOrder(all) => InOrder(SubSeq(all, 1, n))
    BY ONLY <1>2, <2>2, StretchInOrder
  <2>5. n \in Nat /\ n - 1 + 1 = n
    BY <1>2
  <2>6. Len(kept) <= MaxGreeting
    BY <2>1, <2>3, <2>5
  <2> QED
    BY <2>1, <2>3, <2>4, <2>6, Zenon
<1> HIDE DEF all, kept
<1>5. /\ PartsOf(chunk) \subseteq {received}
      /\ PartsOf(all) = PartsOf(prewarmed) \cup PartsOf(chunk)
  <2>1. \A i \in DOMAIN chunk : chunk[i][1] \in {received}
    BY <1>2
  <2>2. PartsOf(chunk) \subseteq {received}
    BY <2>1, PartsWithin
  <2> QED
    BY <1>2, <2>2, JoinedParts DEF all
<1>6. ASSUME NEW s \in {heard, playQueue, buffered, prewarmed}, NEW i \in DOMAIN s
      PROVE  s[i][1] \in Nat /\ s[i][1] < received /\ (s[i][1] \in stored' <=> s[i][1] \in stored)
  BY <1>1, <1>2, <1>5, VoiceTyped, SampleTyped DEF VoiceInv, AllOlder, Older
<1>7. VoiceTypeOK'
  <2>1. stored' \subseteq Parts
    BY <1>1, <1>2, <1>5 DEF VoiceInv, VoiceTypeOK
  <2> QED
    BY <1>1, <1>3, <1>4, <2>1 DEF StorePart, VoiceInv, VoiceTypeOK, agentVars, linkVars,
       queueVars
<1>8. TriggerSteps' /\ ChunkIsLast'
  BY <1>1, <1>2, <1>5, VoiceTyped DEF VoiceInv, TriggerSteps, ChunkIsLast
<1>9. AllOlder'
  <2>1. \A p \in PartsOf(kept) : p <= received
    <3>1. \A i \in DOMAIN prewarmed : prewarmed[i][1] \in 0..received
      BY <1>2, <1>6
    <3>2. PartsOf(prewarmed) \subseteq 0..received
      BY <3>1, PartsWithin
    <3> QED
      BY <1>2, <1>4, <1>5, <3>2
  <2>2. Older(prewarmed)'
    <3>1. \A i \in DOMAIN kept : kept[i][1] \in PartsOf(kept)
      BY DEF PartsOf
    <3> QED
      BY <1>1, <1>3, <2>1, <3>1 DEF Older
  <2>3. Older(heard)' /\ Older(playQueue)' /\ Older(buffered)'
    BY <1>1, <1>2, <1>6 DEF Older
  <2> QED
    BY <2>2, <2>3 DEF AllOlder
<1>10. GreetingApart'
  <2>1. PartsOf(prewarmed)' \subseteq stored' /\ PartsOf(buffered)' \subseteq stored'
    BY <1>1, <1>3, <1>4, <1>5 DEF VoiceInv, GreetingApart
  <2>2. received \notin PartsOf(heard) /\ received \notin PartsOf(playQueue)
    BY <1>2, <1>6 DEF PartsOf
  <2> QED
    BY <1>1, <1>5, <2>1, <2>2 DEF VoiceInv, GreetingApart
<1>11. SpokenInOrder'
  BY <1>1, <1>6 DEF VoiceInv, SpokenInOrder, InOrder, Alike
<1>12. QueueFollows'
  <2>1. InOrder(playQueue)' /\ InOrder(buffered)'
    BY <1>1, <1>6 DEF VoiceInv, QueueFollows, InOrder, Alike
  <2>2. InOrder(prewarmed)'
    <3>1. \A i, j \in DOMAIN prewarmed : i < j => Before(prewarmed[i], prewarmed[j])
      BY DEF VoiceInv, QueueFollows, GreetingApart, PartsOf, InOrder,
         Alike
    <3>2. \A i, j \in DOMAIN all : i < j => Before(all[i], all[j])
      <4> SUFFICES ASSUME NEW i \in DOMAIN all, NEW j \in DOMAIN all, i < j
                   PROVE  Before(all[i], all[j])
        OBVIOUS
      <4>0. DOMAIN prewarmed = 1..Len(prewarmed) /\ DOMAIN chunk = 1..Len(chunk)
            /\ Len(prewarmed) \in Nat /\ Len(chunk) \in Nat
            /\ i \in 1..(Len(prewarmed) + Len(chunk)) /\ j \in 1..(Len(prewarmed) + Len(chunk))
            /\ all[i] = (IF i <= Len(prewarmed) THEN prewarmed[i] ELSE chunk[i - Len(prewarmed)])
            /\ all[j] = (IF j <= Len(prewarmed) THEN prewarmed[j] ELSE chunk[j - Len(prewarmed)])
        BY <1>2, ConcatFacts DEF all
      <4>1. CASE j <= Len(prewarmed)
        BY <3>1, <4>0, <4>1
      <4>2. CASE i <= Len(prewarmed) /\ j > Len(prewarmed)
        <5>1. i \in DOMAIN prewarmed /\ all[i] = prewarmed[i] /\ all[j] = <<received, j - Len(prewarmed)>>
          BY <1>2, <4>0, <4>2
        <5> QED
          BY <1>6, <5>1 DEF Before
      <4>3. CASE i > Len(prewarmed)
        <5>1. /\ all[i] = <<received, i - Len(prewarmed)>> /\ all[j] = <<received, j - Len(prewarmed)>>
              /\ i - Len(prewarmed) < j - Len(prewarmed)
          BY <1>2, <4>0, <4>3
        <5> QED
          BY <5>1 DEF Before
      <4> QED
        BY <4>0, <4>1, <4>2, <4>3
    <3>3. InOrder(kept)
      BY <1>4, <3>2 DEF InOrder
    <3>4. PartsOf(kept) \subseteq stored'
      BY <1>1, <1>4, <1>5 DEF VoiceInv, GreetingApart
    <3>5. \A i, j \in DOMAIN kept : i < j => Before(kept[i], kept[j])
      <4>1. PICK n \in 0..Len(all) : kept = SubSeq(all, 1, n)
        BY <1>4
      <4>2. 1 \in 1..(Len(all) + 1) /\ n \in (1 - 1)..Len(all)
        BY <1>2
      <4>3. /\ DOMAIN kept \subseteq Nat
            /\ \A i \in DOMAIN kept : 1 + i - 1 \in DOMAIN all /\ kept[i] = all[1 + i - 1]
        BY <1>2, <4>1, <4>2, StretchInOrder, SubSeqFacts
      <4> QED
        BY <3>2, <4>3
    <3> QED
      BY <1>3, <3>5 DEF InOrder, Before
  <2>3. \A i \in DOMAIN heard', j \in DOMAIN playQueue' :
          Alike(heard[i], playQueue[j])' => Before(heard[i], playQueue[j])'
    BY <1>1, <1>6 DEF VoiceInv, QueueFollows, Before, Alike
  <2> QED
    BY <2>1, <2>2, <2>3 DEF QueueFollows
<1>13. StrandedAlike'
  <2> SUFFICES ASSUME trigger' \in {"sleep", "done"}
               PROVE  \A i, j \in DOMAIN prewarmed' : prewarmed'[i][1] = prewarmed'[j][1]
    BY <1>1 DEF StrandedAlike
  <2>1. PartsOf(prewarmed) = {}
    BY <1>1 DEF VoiceInv, StrandedAlike, PartsOf
  <2> QED
    <3>1. PartsOf(prewarmed') \subseteq {received}
      BY <1>3, <1>4, <1>5, <2>1
    <3>2. \A i \in DOMAIN prewarmed' : prewarmed'[i][1] \in {received}
      BY <3>1, PartsWithin
    <3> QED
      BY <3>2
<1>14. FlushCutsSpeech'
  BY <1>1 DEF VoiceInv, FlushCutsSpeech
<1> QED
  BY <1>7, <1>8, <1>9, <1>10, <1>11, <1>12, <1>13, <1>14 DEF VoiceInv

(* TriggerGreeting hands what is stored to its goroutine.                            *)
LEMMA TakeGreetingKeeps ==
  ASSUME VoiceInv, TakeGreeting
  PROVE  VoiceInv'
<1>1. /\ trigger = "take" /\ buffered' = prewarmed /\ prewarmed' = <<>>
      /\ trigger' = IF prewarmed = <<>> THEN "done" ELSE "sleep"
      /\ UNCHANGED <<active, reading, chunk, received, playQueue, stored, heard, cut>>
  BY DEF TakeGreeting, agentVars, linkVars, readVars, queueVars
<1>2. VoiceTypeOK'
  <2>1. <<>> \in Seq(Samples) /\ Len(<<>>) = 0
    OBVIOUS
  <2>2. trigger' \in {"done", "sleep"} /\ locked' = FALSE
    BY <1>1 DEF TakeGreeting
  <2>3. UNCHANGED <<started, ready, active, closed, asked, starting, wasPlaying, quiet, linkVars>>
    BY DEF TakeGreeting, agentVars, linkVars, queueVars
  <2>4. 0 <= MaxGreeting
    BY DEF SizesAssumption
  <2> QED
    <3>1. /\ prewarmed' \in Seq(Samples) /\ Len(prewarmed') <= MaxGreeting
          /\ buffered' \in Seq(Samples)
      BY <1>1, <2>1, <2>4, VoiceTyped DEF VoiceInv
    <3>2. UNCHANGED <<reading, chunk, received, playQueue, stored, heard, cut>>
      BY <1>1
    <3>3. trigger' \in {"idle", "triggered", "take", "sleep", "done"} /\ locked' \in BOOLEAN
      BY <2>2
    <3> QED
      BY <2>3, <3>1, <3>2, <3>3 DEF VoiceInv, VoiceTypeOK, linkVars
<1>3. PartsOf(<<>>) = {}
  BY DEF PartsOf
<1>4. TriggerSteps' /\ ChunkIsLast' /\ AllOlder'
  BY <1>1 DEF VoiceInv, TriggerSteps, ChunkIsLast, AllOlder, Older
<1>5. GreetingApart'
  BY <1>1, <1>3 DEF VoiceInv, GreetingApart
<1>6. SpokenInOrder' /\ QueueFollows'
  BY <1>1 DEF VoiceInv, SpokenInOrder, QueueFollows, InOrder, Alike,
     Before
<1>7. StrandedAlike' /\ FlushCutsSpeech'
  BY <1>1 DEF VoiceInv, StrandedAlike, FlushCutsSpeech
<1> QED
  BY <1>2, <1>4, <1>5, <1>6, <1>7 DEF VoiceInv

(* The goroutine feeds what it holds: until then no stored sample is in the queue or  *)
(* was heard.                                                                    *)
LEMMA PlayGreetingKeeps ==
  ASSUME VoiceInv, PlayGreeting
  PROVE  VoiceInv'
<1>1. /\ trigger = "sleep" /\ trigger' = "done" /\ buffered' = <<>> /\ playQueue' = playQueue \o buffered
      /\ UNCHANGED <<active, reading, chunk, received, prewarmed, stored, heard, cut>>
  BY DEF PlayGreeting, FeedCapturedPCM, agentVars, linkVars, readVars
<1>2. playQueue \in Seq(Samples) /\ buffered \in Seq(Samples) /\ playQueue' \in Seq(Samples)
  BY <1>1, VoiceTyped, ConcatFacts DEF VoiceInv
<1>3. VoiceTypeOK'
  <2>1. <<>> \in Seq(Samples)
    OBVIOUS
  <2>2. /\ UNCHANGED <<started, ready, active, closed, asked, starting, linkVars>>
        /\ locked' \in BOOLEAN /\ wasPlaying' \in BOOLEAN /\ quiet' \in BOOLEAN
    BY VoiceTyped DEF PlayGreeting, FeedCapturedPCM, VoiceInv, VoiceTypeOK, agentVars, linkVars,
       readVars
  <2> QED
    BY <1>1, <1>2, <2>1, <2>2 DEF VoiceInv, VoiceTypeOK, linkVars
<1>4. \A j \in DOMAIN playQueue' :
        \/ \E i \in DOMAIN playQueue : playQueue'[j] = playQueue[i]
        \/ \E i \in DOMAIN buffered : playQueue'[j] = buffered[i]
  BY <1>1, <1>2, ConcatFacts
<1>5. /\ \A i \in DOMAIN buffered : buffered[i][1] \in stored
      /\ \A i \in DOMAIN playQueue : playQueue[i][1] \notin stored
      /\ \A i \in DOMAIN heard : heard[i][1] \notin stored
  BY <1>1 DEF VoiceInv, GreetingApart, PartsOf
<1>6. TriggerSteps' /\ ChunkIsLast' /\ StrandedAlike'
  BY <1>1 DEF VoiceInv, TriggerSteps, ChunkIsLast, StrandedAlike
<1>7. AllOlder'
  <2>1. Older(heard)' /\ Older(prewarmed)' /\ Older(buffered)'
    BY <1>1 DEF VoiceInv, AllOlder, Older
  <2>2. Older(playQueue)'
    BY <1>1, <1>4 DEF VoiceInv, AllOlder, Older
  <2> QED
    BY <2>1, <2>2 DEF AllOlder
<1>8. GreetingApart'
  <2>1. PartsOf(<<>>) = {}
    BY DEF PartsOf
  <2> QED
    BY <1>1, <2>1 DEF VoiceInv, GreetingApart
<1>9. SpokenInOrder'
  BY <1>1 DEF VoiceInv, SpokenInOrder, InOrder, Alike
<1>10. QueueFollows'
  <2>1. InOrder(playQueue \o buffered)
    BY <1>2, <1>5, JoinedInOrder DEF VoiceInv, QueueFollows, Alike
  <2>2. InOrder(playQueue)' /\ InOrder(prewarmed)' /\ InOrder(buffered)'
    BY <1>1, <2>1 DEF VoiceInv, QueueFollows, InOrder, Alike
  <2>3. \A i \in DOMAIN heard', j \in DOMAIN playQueue' :
          Alike(heard[i], playQueue[j])' => Before(heard[i], playQueue[j])'
    <3> SUFFICES ASSUME NEW i \in DOMAIN heard, NEW j \in DOMAIN playQueue', Alike(heard[i],
    playQueue[j])'
                 PROVE  Before(heard[i], playQueue'[j])
      BY <1>1 DEF Before
    <3>1. playQueue'[j][1] \notin stored
      BY <1>1, <1>5 DEF Alike
    <3>2. PICK k \in DOMAIN playQueue : playQueue'[j] = playQueue[k]
      BY <1>4, <1>5, <3>1
    <3> QED
      BY <1>1, <3>2 DEF VoiceInv, QueueFollows, Alike
  <2> QED
    BY <2>2, <2>3, Zenon DEF QueueFollows
<1>11. FlushCutsSpeech'
  BY <1>1, <1>4, <1>5 DEF VoiceInv, FlushCutsSpeech
<1> QED
  BY <1>3, <1>6, <1>7, <1>8, <1>9, <1>10, <1>11 DEF VoiceInv

LEMMA FlushKeeps ==
  ASSUME VoiceInv, FlushCapturedPCM
  PROVE  VoiceInv'
<1>1. /\ reading' = "read" /\ playQueue' = <<>> /\ cut' = received
      /\ UNCHANGED <<active, chunk, received, prewarmed, buffered, trigger, stored, heard>>
  BY DEF FlushCapturedPCM, agentVars, linkVars, greetVars
<1>2. VoiceTypeOK'
  <2>1. <<>> \in Seq(Samples)
    OBVIOUS
  <2> QED
    BY <1>1, <2>1 DEF FlushCapturedPCM, VoiceInv, VoiceTypeOK, agentVars, linkVars,
       greetVars
<1>3. PartsOf(<<>>) = {}
  BY DEF PartsOf
<1>4. TriggerSteps' /\ AllOlder' /\ StrandedAlike' /\ FlushCutsSpeech'
  BY <1>1 DEF VoiceInv, TriggerSteps, AllOlder, Older, StrandedAlike,
     FlushCutsSpeech
<1>5. ChunkIsLast'
  BY <1>1, VoiceTyped DEF VoiceInv, ChunkIsLast
<1>6. GreetingApart'
  BY <1>1, <1>3 DEF VoiceInv, GreetingApart
<1>7. SpokenInOrder' /\ QueueFollows'
  BY <1>1 DEF VoiceInv, SpokenInOrder, QueueFollows, InOrder, Alike,
     Before
<1> QED
  BY <1>2, <1>4, <1>5, <1>6, <1>7 DEF VoiceInv

(* The pump moves the head of the queue to what was heard.                           *)
LEMMA DispatchKeeps ==
  ASSUME VoiceInv, DispatchFrame
  PROVE  VoiceInv'
<1>1. PICK n \in 0..Len(playQueue) :
        /\ heard' = heard \o SubSeq(playQueue, 1, n)
        /\ playQueue' = SubSeq(playQueue, n + 1, Len(playQueue))
  <2>0. playQueue \in Seq(Samples) /\ Len(playQueue) \in Nat
    BY VoiceTyped DEF VoiceInv
  <2>1. CASE PlayFrame
    <3>1. FrameSize \in 0..Len(playQueue)
      BY <2>0, <2>1 DEF PlayFrame, SizesAssumption
    <3> QED
      BY <2>1, <3>1, Zenon DEF PlayFrame
  <2>2. CASE PlayTail
    <3>1. /\ playQueue = SubSeq(playQueue, 1, Len(playQueue))
          /\ <<>> = SubSeq(playQueue, Len(playQueue) + 1, Len(playQueue))
      BY <2>0, SMT
    <3>2. Len(playQueue) \in 0..Len(playQueue)
      BY <2>0
    <3> QED
      BY <2>2, <3>1, <3>2, Zenon DEF PlayTail
  <2> QED
    BY <2>1, <2>2 DEF DispatchFrame
<1> DEFINE head == SubSeq(playQueue, 1, n)
           rest == SubSeq(playQueue, n + 1, Len(playQueue))
<1>2. UNCHANGED <<active, reading, chunk, received, prewarmed, buffered, trigger, stored, cut>>
  BY DEF DispatchFrame, agentVars, linkVars, readVars, greetVars
<1>3. /\ playQueue \in Seq(Samples) /\ heard \in Seq(Samples)
      /\ head \in Seq(Samples) /\ rest \in Seq(Samples) /\ heard \o head \in Seq(Samples)
      /\ DOMAIN head = 1..n /\ DOMAIN rest = 1..(Len(playQueue) - n)
      /\ \A i \in DOMAIN head : i \in DOMAIN playQueue /\ head[i] = playQueue[i]
      /\ \A i \in DOMAIN rest : n + i \in DOMAIN playQueue /\ rest[i] = playQueue[n + i]
      /\ PartsOf(head) \subseteq PartsOf(playQueue)
      /\ PartsOf(rest) \subseteq PartsOf(playQueue)
      /\ InOrder(head) /\ InOrder(rest)
  <2>1. playQueue \in Seq(Samples) /\ heard \in Seq(Samples) /\ Len(playQueue) \in Nat
    BY VoiceTyped DEF VoiceInv
  <2>2. 1 \in 1..(Len(playQueue) + 1) /\ n \in (1 - 1)..Len(playQueue)
    BY <2>1
  <2>3. n + 1 \in 1..(Len(playQueue) + 1) /\ Len(playQueue) \in ((n + 1) - 1)..Len(playQueue)
    BY <2>1
  <2>4. /\ head \in Seq(Samples) /\ DOMAIN head = 1..n
        /\ \A i \in 1..n : head[i] = playQueue[i]
    BY <2>1, <2>2, SubSeqFacts
  <2>5. /\ rest \in Seq(Samples) /\ DOMAIN rest = 1..(Len(playQueue) - n)
        /\ \A i \in 1..(Len(playQueue) - n) : rest[i] = playQueue[n + i]
    BY <2>1, <2>3, SubSeqFacts
  <2>6. /\ PartsOf(head) \subseteq PartsOf(playQueue)
        /\ PartsOf(rest) \subseteq PartsOf(playQueue)
        /\ InOrder(head) /\ InOrder(rest)
    BY <2>1, <2>2, <2>3, StretchInOrder DEF VoiceInv, QueueFollows
  <2>7. heard \o head \in Seq(Samples)
    BY <2>1, <2>4, ConcatFacts
  <2> HIDE DEF head, rest
  <2> QED
    BY <2>1, <2>4, <2>5, <2>6, <2>7
<1> HIDE DEF head, rest
<1>4. heard' = heard \o head /\ playQueue' = rest
  BY <1>1 DEF head, rest
<1>5. \A i \in DOMAIN heard' : \/ \E k \in DOMAIN heard : heard'[i] = heard[k]
                              \/ \E k \in DOMAIN head : heard'[i] = head[k]
  <2> SUFFICES ASSUME NEW i \in DOMAIN (heard \o head)
               PROVE  \/ \E k \in DOMAIN heard : (heard \o head)[i] = heard[k]
                      \/ \E k \in DOMAIN head : (heard \o head)[i] = head[k]
    BY <1>4
  <2>1. /\ i \in 1..(Len(heard) + Len(head)) /\ DOMAIN heard = 1..Len(heard) /\ DOMAIN head = 1..Len(head)
        /\ Len(heard) \in Nat /\ Len(head) \in Nat
        /\ (heard \o head)[i] = IF i <= Len(heard) THEN heard[i] ELSE head[i - Len(heard)]
    BY <1>3, ConcatFacts
  <2>2. CASE i <= Len(heard)
    BY <2>1, <2>2
  <2>3. CASE i > Len(heard)
    <3>1. i - Len(heard) \in DOMAIN head
      BY <2>1, <2>3
    <3> QED
      BY <2>1, <2>3, <3>1
  <2> QED
    BY <2>1, <2>2, <2>3
<1>6. VoiceTypeOK'
  <2>1. wasPlaying' \in BOOLEAN /\ UNCHANGED <<started, ready, active, closed, asked, locked, quiet>>
    BY DEF DispatchFrame, PlayFrame, PlayTail, agentVars, linkVars, greetVars
  <2>2. UNCHANGED <<starting, link, connected>>
    BY DEF DispatchFrame, agentVars, linkVars
  <2> QED
    BY <1>2, <1>3, <1>4, <2>1, <2>2 DEF VoiceInv, VoiceTypeOK
<1>7. TriggerSteps' /\ ChunkIsLast' /\ StrandedAlike'
  BY <1>2 DEF VoiceInv, TriggerSteps, ChunkIsLast, StrandedAlike
<1>8. AllOlder'
  <2>1. Older(buffered)' /\ Older(prewarmed)'
    BY <1>2 DEF VoiceInv, AllOlder, Older
  <2>2. Older(playQueue)'
    BY <1>2, <1>3, <1>4 DEF VoiceInv, AllOlder, Older
  <2>3. Older(heard)'
    BY <1>2, <1>3, <1>5 DEF VoiceInv, AllOlder, Older
  <2> QED
    BY <2>1, <2>2, <2>3 DEF AllOlder
<1>9. GreetingApart'
  <2>1. PartsOf(heard)' = PartsOf(heard) \cup PartsOf(head)
    BY <1>3, <1>4, JoinedParts
  <2> QED
    BY <1>2, <1>3, <1>4, <2>1 DEF VoiceInv, GreetingApart
<1>10. SpokenInOrder'
  <2>1. InOrder(heard \o head)
    BY <1>3, JoinedInOrder DEF VoiceInv, SpokenInOrder, QueueFollows
  <2> QED
    BY <1>2, <1>4, <2>1 DEF SpokenInOrder, InOrder, Alike
<1>11. QueueFollows'
  <2>1. InOrder(playQueue)' /\ InOrder(prewarmed)' /\ InOrder(buffered)'
    BY <1>2, <1>3, <1>4 DEF VoiceInv, QueueFollows, InOrder, Alike
  <2>2. \A i \in DOMAIN heard', j \in DOMAIN playQueue' :
          Alike(heard[i], playQueue[j])' => Before(heard[i], playQueue[j])'
    <3> SUFFICES ASSUME NEW i \in DOMAIN heard', NEW j \in DOMAIN rest, Alike(heard'[i],
    rest[j])
                 PROVE  Before(heard'[i], rest[j])
      BY <1>2, <1>4 DEF Alike, Before
    <3>1. n + j \in DOMAIN playQueue /\ rest[j] = playQueue[n + j]
      BY <1>3
    <3>2. CASE \E k \in DOMAIN heard : heard'[i] = heard[k]
      BY <3>1, <3>2 DEF VoiceInv, QueueFollows
    <3>3. ASSUME NEW k \in DOMAIN head, heard'[i] = head[k] PROVE Before(heard'[i], rest[j])
      <4>1. k \in DOMAIN playQueue /\ head[k] = playQueue[k] /\ k < n + j
        BY <1>3
      <4> QED
        BY <3>1, <3>3, <4>1 DEF VoiceInv, QueueFollows, InOrder
    <3> QED
      BY <1>5, <3>2, <3>3
  <2> QED
    BY <2>1, <2>2, Zenon DEF QueueFollows
<1>12. FlushCutsSpeech'
  BY <1>2, <1>3, <1>4 DEF VoiceInv, FlushCutsSpeech
<1> QED
  BY <1>6, <1>7, <1>8, <1>9, <1>10, <1>11, <1>12 DEF VoiceInv

LEMMA VoiceStep ==
  ASSUME VoiceInv, [VoiceNext]_voiceVars
  PROVE  VoiceInv'
<1>1. CASE UNCHANGED voiceVars
  <2>1. VoiceTypeOK' /\ TriggerSteps'
    BY <1>1 DEF VoiceInv, VoiceTypeOK, TriggerSteps, voiceVars, agentVars, linkVars,
       readVars, greetVars, queueVars
  <2> QED
    BY <1>1, <2>1, VoiceUnseen DEF voiceVars, agentVars, linkVars, readVars, greetVars,
       queueVars
<1>2. CASE Agent
  BY <1>2, StartKeeps, FlagsKeep, ReadPartKeeps, FeedPartKeeps, StorePartKeeps,
     FlushKeeps DEF Agent
<1>3. CASE Greeting
  BY <1>3, FlagsKeep, TakeGreetingKeeps, PlayGreetingKeeps DEF Greeting
<1>4. CASE Pump
  BY <1>4, FlagsKeep, DispatchKeeps DEF Pump
<1> QED
  BY <1>1, <1>2, <1>3, <1>4 DEF VoiceNext

LEMMA VoiceInvariant == VoiceSpec => []VoiceInv
BY VoiceBegins, VoiceStep, PTL DEF VoiceSpec

(* The variables of the voice agent keep their types.                               *)
THEOREM VoiceTypes == VoiceSpec => []VoiceTypeOK
<1>1. VoiceInv => VoiceTypeOK
  BY DEF VoiceInv
<1> QED
  BY <1>1, VoiceInvariant, PTL

(* The peer hears the greeting and the live speech each in its order, whatever the sizes  *)
(* of frames and parts and however feeding, flushing and pumping interleave.           *)
THEOREM VoiceSpokenInOrder == VoiceSpec => []SpokenInOrder
<1>1. VoiceInv => SpokenInOrder
  BY DEF VoiceInv
<1> QED
  BY <1>1, VoiceInvariant, PTL

(* Of the parts stored for the greeting, at most one misses it.                       *)
THEOREM VoiceOneStranded == VoiceSpec => []AtMostOneStranded
<1>1. VoiceInv => AtMostOneStranded
  <2> SUFFICES ASSUME VoiceInv, trigger \in {"sleep", "done"},
                      NEW p \in PartsOf(prewarmed), NEW q \in PartsOf(prewarmed)
               PROVE  p = q
    BY DEF AtMostOneStranded
  <2>1. PICK i \in DOMAIN prewarmed : p = prewarmed[i][1]
    BY DEF PartsOf
  <2>2. PICK j \in DOMAIN prewarmed : q = prewarmed[j][1]
    BY DEF PartsOf
  <2> QED
    BY <2>1, <2>2 DEF VoiceInv, StrandedAlike
<1> QED
  BY <1>1, VoiceInvariant, PTL

(* A barge-in leaves nothing of what was said before it to be played.                   *)
THEOREM VoiceFlushCuts == VoiceSpec => []FlushCutsSpeech
<1>1. VoiceInv => FlushCutsSpeech
  BY DEF VoiceInv
<1> QED
  BY <1>1, VoiceInvariant, PTL

=============================================================================
