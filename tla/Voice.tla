------------------------------- MODULE Voice -------------------------------
(***************************************************************************)
(* The voice agent (apps/web/src/components/shell/voice-agent.tsx) over    *)
(* the browser's speech recognition and synthesis (lib/voice/speech.ts).   *)
(*                                                                         *)
(* Handlers run to their end one at a time; between them come the events   *)
(* of microphones, of utterances and of questions asked.  A callback sees  *)
(* the values of the render that created it, kept here in `seen`.  A       *)
(* browser that supports both interfaces is modelled; what is said is not, *)
(* except whether there is any of it.  Times and labels are left out.      *)
(***************************************************************************)
EXTENDS FiniteSets, Naturals

CONSTANTS
    Speeches, Mics, Questions,  \* 1..n: as many as may go on at a time
    MaxChunks                   \* sentences of a spoken answer

ASSUME VoiceAssumption ==
    /\ \A S \in {Speeches, Mics, Questions} : IsFiniteSet(S) /\ S = 1..Cardinality(S)
    /\ MaxChunks \in Nat

VARIABLES
    agent,      \* the panel as last rendered, and what its two refs hold that goes on
    speech,     \* calls of speakConversationalText that go on
    mic,        \* recognisers that have not ended
    question    \* requests to /api/chat under way

voiceVars == <<agent, speech, mic, question>>

\* What the handlers of a render see.
Renders == [mode : BOOLEAN, muted : BOOLEAN, loading : BOOLEAN]
Blank == [mode |-> FALSE, muted |-> FALSE, loading |-> FALSE]

NoSpeech == [at |-> "none", left |-> 0, resume |-> FALSE, seen |-> Blank, late |-> FALSE]
NoQuestion == [at |-> "none", seen |-> Blank]
NoMic == [at |-> "none", started |-> FALSE, stopped |-> FALSE, errored |-> FALSE,
          heard |-> FALSE, seen |-> Blank, late |-> FALSE]

\* `overlapped` and `failed` are history: a microphone was started while another
\* had not ended, an utterance failed.
VoiceInit ==
    /\ agent = [open |-> FALSE, tidy |-> TRUE, mode |-> FALSE, muted |-> FALSE,
                loading |-> FALSE, listening |-> FALSE, interim |-> FALSE,
                speech |-> 0, mic |-> 0, overlapped |-> FALSE, failed |-> FALSE]
    /\ speech = [s \in Speeches |-> NoSpeech]
    /\ mic = [m \in Mics |-> NoMic]
    /\ question = [q \in Questions |-> NoQuestion]

\* The handlers are written over all of it at once.
Now == [agent |-> agent, speech |-> speech, mic |-> mic, question |-> question]
Becomes(w) ==
    /\ agent' = w.agent /\ speech' = w.speech /\ mic' = w.mic /\ question' = w.question

Seen == [mode |-> agent.mode, muted |-> agent.muted, loading |-> agent.loading]

Free(f) == {k \in DOMAIN f : f[k].at = "none"}
Next1(S) == CHOOSE k \in S : \A l \in S : k <= l

-----------------------------------------------------------------------------
(* What the handlers are made of.                                          *)

\* The stop function of a speech: its callbacks are dead from here on.
Cancelled(w, s) ==
    IF s = 0 THEN w ELSE [w EXCEPT !.speech[s] = NoSpeech, !.agent.speech = 0]

\* Mutant of StopAllAudio: the ref is cleared and the speech goes on.
ForgetAudio(w) == [w EXCEPT !.agent.speech = 0]

\* stopAllAudio
StopAllAudio(w) == Cancelled(w, w.agent.speech)

\* startVoiceListening: a recogniser whose callbacks see the given render, in
\* the ref in place of whichever was there.  start may throw.
StartListening(w, seen, starts) ==
    LET v == StopAllAudio(w)
        m == Next1(Free(w.mic))
    IN [v EXCEPT
          !.agent.listening = starts, !.agent.interim = FALSE,
          !.agent.mic = IF starts THEN m ELSE 0,
          !.agent.overlapped = @ \/ \E l \in Mics : w.mic[l].at = "on",
          !.mic[m] = IF starts THEN [NoMic EXCEPT !.at = "on", !.seen = seen, !.late = ~w.agent.open]
                    ELSE NoMic]

StopMic(w, m) ==
    IF m = 0 THEN w ELSE [w EXCEPT !.mic[m].stopped = TRUE]

\* The onComplete of an answer: in voice mode the microphone comes on again.
Resumed(w, resume, seen, starts) ==
    IF resume THEN StartListening(w, seen, starts) ELSE w

\* playTextToSpeech and speakConversationalText.  Text that cleans to nothing is
\* complete at once.
Play(w, chunks, resume, seen, starts) ==
    LET v == StopAllAudio(w)
        s == Next1(Free(w.speech))
    IN IF seen.muted THEN Resumed(w, resume, seen, starts)
       ELSE IF chunks = 0 THEN [Resumed(v, resume, seen, starts) EXCEPT !.agent.speech = 0]
       ELSE [v EXCEPT
               !.agent.speech = s,
               !.speech[s] = [NoSpeech EXCEPT !.at = "playing", !.left = chunks - 1,
                                  !.resume = resume, !.seen = IF resume THEN seen ELSE Blank,
                                  !.late = ~w.agent.open]]

\* handleSendQuery up to its await: the guard reads `loading` of its own render.
Send(w, words, seen) ==
    IF ~words \/ seen.loading THEN w
    ELSE LET v == StopAllAudio(w)
             q == Next1(Free(w.question))
         IN [v EXCEPT !.agent.interim = FALSE, !.agent.loading = TRUE,
                      !.question[q] = [at |-> "asked", seen |-> seen]]

\* stopVoiceListening: what was heard so far is sent.
StopListening(w, seen) ==
    LET m == w.agent.mic
        v == StopMic(w, m)
    IN Send([v EXCEPT !.agent.mic = 0, !.agent.listening = FALSE], w.agent.interim, seen)

-----------------------------------------------------------------------------
(* The buttons of the panel.                                               *)

MayAsk == Free(question) # {}
MayListen == Free(mic) # {}
MaySpeak == Free(speech) # {}

OpenPanel ==
    /\ ~agent.open
    /\ agent' = [agent EXCEPT !.open = TRUE]
    /\ UNCHANGED <<speech, mic, question>>

ClosePanel ==
    /\ agent.open
    /\ Becomes([StopAllAudio(Now) EXCEPT !.agent.open = FALSE, !.agent.tidy = FALSE])

\* Mutant of Tidied: the microphone is left to end by itself.
TidiedSpeech(w) == [Cancelled(w, w.agent.speech) EXCEPT !.agent.listening = FALSE, !.agent.tidy = TRUE]

\* What the effect on voiceOpen does.
Tidied(w) ==
    LET v == Cancelled(w, w.agent.speech)
        m == w.agent.mic
    IN [StopMic(v, m) EXCEPT !.agent.listening = FALSE, !.agent.tidy = TRUE]

\* The effect that runs after the render in which the panel closed.
CloseEffect ==
    /\ ~agent.open /\ ~agent.tidy
    /\ Becomes(Tidied(Now))

PressMicrophone(starts) ==
    /\ agent.open /\ MayAsk
    /\ \/ agent.listening /\ Becomes(StopListening(Now, Seen))
       \/ ~agent.listening /\ MayListen /\ Becomes(StartListening(Now, Seen, starts))

\* toggleVoiceMode: the microphone it starts belongs to the render before.
ToggleVoiceMode(starts) ==
    /\ agent.open /\ MayAsk /\ MayListen
    /\ LET v == [StopAllAudio(Now) EXCEPT !.agent.mode = ~@] IN
       Becomes(IF agent.mode THEN StopListening(v, Seen) ELSE StartListening(v, Seen, starts))

ToggleMute ==
    /\ agent.open
    /\ Becomes([IF agent.muted THEN Now ELSE StopAllAudio(Now) EXCEPT !.agent.muted = ~@])

StopSound ==
    /\ agent.open
    /\ Becomes(StopAllAudio(Now))

ReadAloud(chunks) ==
    /\ agent.open /\ MaySpeak
    /\ Becomes(Play(Now, chunks, FALSE, Seen, TRUE))

\* The form, with the words typed or heard in it, or one of the questions on offer.
Submit ==
    /\ agent.open /\ MayAsk
    /\ Becomes(Send(Now, TRUE, Seen))

-----------------------------------------------------------------------------
(* Events.                                                                 *)

\* The answer of /api/chat, spoken in the voice of the render that asked.
AnswerArrives(q, chunks, starts) ==
    /\ question[q].at = "asked" /\ MaySpeak /\ MayListen
    /\ LET seen == question[q].seen
           w == Play([Now EXCEPT !.question[q] = NoQuestion], chunks, seen.mode, seen, starts)
       IN Becomes([w EXCEPT !.agent.loading = FALSE])

AnswerFails(q) ==
    /\ question[q].at = "asked"
    /\ Becomes([Now EXCEPT !.question[q] = NoQuestion, !.agent.loading = FALSE])

\* onComplete of a speech, after its ref was cleared.
Completed(w, s, starts) ==
    Resumed([w EXCEPT !.agent.speech = 0], speech[s].resume, speech[s].seen, starts)

\* onend of an utterance: the next sentence, or the end.
ChunkEnds(s, starts) ==
    /\ speech[s].at = "playing" /\ MayListen
    /\ Becomes(IF speech[s].left > 0 THEN [Now EXCEPT !.speech[s].left = @ - 1]
               ELSE Completed([Now EXCEPT !.speech[s] = NoSpeech], s, starts))

\* onerror of an utterance: completion is reported, and speaking goes on.  After
\* the last sentence it is reported twice.
ChunkFails(s, starts) ==
    /\ speech[s].at = "playing" /\ Cardinality(Free(mic)) > 1
    /\ LET w == Completed([Now EXCEPT !.agent.failed = TRUE], s, starts) IN
       Becomes(IF speech[s].left > 0 THEN [w EXCEPT !.speech[s].left = @ - 1]
               ELSE Completed([w EXCEPT !.speech[s] = NoSpeech], s, starts))

\* onstart: the recogniser runs, and the panel says so, even if it was stopped
\* before it had begun.
MicStarts(m) ==
    /\ mic[m].at = "on" /\ ~mic[m].started /\ ~mic[m].errored
    /\ Becomes([Now EXCEPT !.mic[m].started = TRUE, !.agent.listening = TRUE])

\* onresult with nothing final.
HearInterim(m) ==
    /\ mic[m].at = "on" /\ mic[m].started /\ ~mic[m].stopped /\ ~mic[m].heard
    /\ agent' = [agent EXCEPT !.interim = TRUE]
    /\ UNCHANGED <<speech, mic, question>>

\* onresult with the final words, which a recogniser that was stopped still has.
HearFinal(m) ==
    /\ mic[m].at = "on" /\ mic[m].started /\ ~mic[m].heard /\ MayAsk
    /\ LET w == [Now EXCEPT !.mic[m].heard = TRUE, !.mic[m].stopped = TRUE,
                            !.agent.interim = TRUE,
                            !.agent.listening = FALSE]
       IN Becomes(Send(w, TRUE, mic[m].seen))

\* onerror and onend: a recogniser that was stopped ends without a word.
MicFails(m) ==
    /\ mic[m].at = "on" /\ ~mic[m].errored
    /\ Becomes([Now EXCEPT !.mic[m].errored = TRUE, !.agent.listening = FALSE])

MicEnds(m) ==
    /\ mic[m].at = "on"
    /\ Becomes([Now EXCEPT !.mic[m] = NoMic, !.agent.mic = IF @ = m THEN 0 ELSE @,
                           !.agent.listening = IF mic[m].stopped THEN @ ELSE FALSE])

-----------------------------------------------------------------------------
VoiceNext ==
    \/ OpenPanel \/ ClosePanel \/ CloseEffect
    \/ ToggleMute \/ StopSound \/ Submit
    \/ \E starts \in BOOLEAN : PressMicrophone(starts) \/ ToggleVoiceMode(starts)
    \/ \E chunks \in 0..MaxChunks : ReadAloud(chunks)
    \/ \E q \in Questions :
          \/ AnswerFails(q)
          \/ \E chunks \in 0..MaxChunks, starts \in BOOLEAN : AnswerArrives(q, chunks, starts)
    \/ \E s \in Speeches, starts \in BOOLEAN : ChunkEnds(s, starts) \/ ChunkFails(s, starts)
    \/ \E m \in Mics : MicStarts(m) \/ HearInterim(m) \/ HearFinal(m) \/ MicFails(m) \/ MicEnds(m)

VoiceSpec == VoiceInit /\ [][VoiceNext]_voiceVars

-----------------------------------------------------------------------------
VoiceTypeOK ==
    /\ agent.speech \in Speeches \cup {0} /\ agent.mic \in Mics \cup {0}
    /\ \A s \in Speeches : speech[s].at \in {"none", "playing"} /\ speech[s].seen \in Renders
    /\ \A m \in Mics : mic[m].at \in {"none", "on"} /\ mic[m].seen \in Renders
    /\ \A q \in Questions : question[q].at \in {"none", "asked"}

Playing == {s \in Speeches : speech[s].at = "playing"}
Open == {m \in Mics : mic[m].at = "on" /\ ~mic[m].stopped}

\* As long as no utterance has failed, one speech plays at most, and it is the
\* one that the buttons can stop.
OneVoice == ~agent.failed => Playing \subseteq {agent.speech}

\* As long as no microphone was started over another, one that is on is shown.
MicIsShown ==
    ~agent.overlapped => \A m \in Open : agent.listening \/ mic[m].errored

\* A closed panel is silent and deaf, but for an answer that comes after it was
\* closed, an utterance that failed and a microphone that was started over
\* another.
QuietWhenClosed ==
    ~agent.open /\ agent.tidy =>
        /\ ~agent.failed => \A s \in Playing : speech[s].late
        /\ ~agent.overlapped => \A m \in Open : mic[m].late

\* The person decides what is heard and said, over renders whose callbacks are
\* still called long after (VoiceAgentPanel, speakConversationalText,
\* createSpeechRecognizer).
HeardAndSaidAsShown == OneVoice /\ MicIsShown /\ QuietWhenClosed
=============================================================================
