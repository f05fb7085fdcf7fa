----------------------------- MODULE ReplySpeech -----------------------------
(***************************************************************************)
(* How a reply is spoken: the subtitle controller shows one segment after  *)
(* the other, the voice controller asks for the speech of the segment in   *)
(* the bubble and, ahead of time, of the next one; a synthesis thread      *)
(* makes one audio file at a time; the playback endpoint plays them.       *)
(*                                                                         *)
(* Two threads: the UI thread, which runs one handler at a time, and the   *)
(* synthesis thread, whose results reach the UI thread as queued signals.  *)
(* The objects the UI thread writes are one record, ui, and a handler is a *)
(* function of it, as a handler calls back into the controllers while it   *)
(* runs.  A segment is a number, in the order in which they are shown.     *)
(***************************************************************************)
EXTENDS Integers, Sequences, FiniteSets, SequencesExt

CONSTANTS
  MaxSegments,  \* bound: segments shown in all
  Guards        \* what the language guard may keep from being spoken: sets of segments

ASSUME ReplySpeechAssumption ==
  /\ MaxSegments \in Nat \ {0}
  /\ Guards \subseteq SUBSET (1 .. MaxSegments)

Segment == 1 .. MaxSegments
None == 0

VARIABLES
  ui,      \* the controllers, the request queue and the playback endpoint
  events,  \* signals of the synthesis thread that the UI thread has yet to handle
  stray    \* audio files left half written, whose path nobody was told

vars == <<ui, events, stray>>

Signals == {"audio", "ahead", "aheadFailed", "aheadSkipped", "started", "finished", "cleanup"}

(* What the controllers, the request queue and the playback endpoint keep *)
UiState ==
  [silent : Guards,                  \* the choice of the language guard
   shown : 0 .. MaxSegments,         \* segments handed to the bubble so far
   pending : Seq(Segment),           \* pending_reply_segments
   batches : Seq(Seq(Segment)),      \* queued_reply_segment_batches
   current : Segment \cup {None},    \* current_segment
   typing : BOOLEAN,                 \* speech_timer
   textDone : BOOLEAN,               \* current_segment_speech_done
   ttsDone : BOOLEAN,                \* current_segment_tts_done
   advancing : BOOLEAN,              \* reply_advance_scheduled
   timers : SUBSET Segment,          \* timers to the next segment, by their segment
   handle : Segment \cup {None},     \* _prepared_next_tts
   ahead : SUBSET Segment,           \* asked for by prepare, not by speak
   wanted : SUBSET Segment,          \* handle.play_requested, its callbacks set
   cancelled : SUBSET Segment,       \* handle.cancelled
   failed : SUBSET Segment,          \* handle.failed
   ready : SUBSET Segment,           \* handle.audio_path is set
   requests : Seq(Segment),          \* _pending_requests
   active : Segment \cup {None},     \* _active_request
   stage : {"begin", "made", "none", "end"},  \* what the thread does with it
   dropped : SUBSET Segment,         \* request.cancelled
   list : Seq(Segment),              \* _pending_audio
   audio : Segment \cup {None},      \* _current_audio
   begun : BOOLEAN,                  \* _current_started_emitted
   wake : BOOLEAN,                   \* a zero timer of _play_next is due
   fallbacks : SUBSET Segment,       \* finish fallbacks, by their audio
   files : SUBSET Segment,           \* temporary audio files that are neither stray nor given up
   voice : {"on", "closing", "off"}, \* the provider: in use, in close(), replaced
   stale : SUBSET Segment]           \* segments shown before the last interruption

(* Type correctness; a segment is queued at most once at each place, and only
   an audio that plays has begun. *)
TypeOK ==
  /\ ui \in UiState
  /\ events \in Seq(Signals \X Segment)
  /\ stray \subseteq Segment
  /\ IsInjective(ui.requests) /\ IsInjective(ui.list)
  /\ ui.begun => ui.audio # None

Init ==
  /\ ui \in [silent : Guards,
             shown : {0}, pending : {<<>>}, batches : {<<>>}, current : {None},
             typing : {FALSE}, textDone : {FALSE}, ttsDone : {TRUE},
             advancing : {FALSE}, timers : {{}}, handle : {None},
             ahead : {{}}, wanted : {{}}, cancelled : {{}}, failed : {{}}, ready : {{}},
             requests : {<<>>}, active : {None}, stage : {"end"}, dropped : {{}},
             list : {<<>>}, audio : {None}, begun : {FALSE}, wake : {FALSE},
             fallbacks : {{}}, files : {{}}, voice : {"on"}, stale : {{}}]
  /\ events = <<>>
  /\ stray = {}

-----------------------------------------------------------------------------
(* The synthesis queue. *)

(* TTSSynthesisQueue._start_next_request *)
StartNext(u) ==
  IF u.active # None \/ u.requests = <<>> \/ u.voice # "on" THEN u
  ELSE [u EXCEPT !.active = Head(u.requests), !.stage = "begin",
                    !.requests = Tail(@)]

(* TTSSynthesisQueue.submit: the segment in the bubble goes before those that
   are prepared; a provider that is closed drops the request. *)
Submit(u, s) ==
  IF u.voice # "on"
  THEN IF s \in u.ahead THEN [u EXCEPT !.failed = @ \cup {s}] ELSE u
  ELSE LET first == SelectInSeq(u.requests, LAMBDA r : r \in u.ahead)
       IN StartNext([u EXCEPT !.requests =
                       IF s \in u.ahead \/ first = 0 THEN Append(@, s)
                       ELSE InsertAt(@, first, s)])

-----------------------------------------------------------------------------
(* Handles and audio. *)

(* VoicePlaybackController.discard_prepared: the handle is cancelled, its
   request leaves the queue, its audio is deleted. *)
Discard(u) ==
  IF u.handle = None THEN u
  ELSE [u EXCEPT !.handle = None,
                 !.cancelled = @ \cup {u.handle},
                 !.requests = RemoveFirst(@, u.handle),
                 !.list = RemoveFirst(@, u.handle),
                 !.ready = @ \ {u.handle},
                 !.files = @ \ ({u.handle} \cap (u.ready \cup Range(u.list)))]

(* _enqueue_prepared_audio, and the end of _enqueue_audio *)
Enqueue(u, s) ==
  [u EXCEPT !.list = Append(@, s), !.ready = @ \ {s}, !.wake = @ \/ u.audio = None]

(* _play_next *)
PlayNext(u) ==
  IF u.audio # None \/ u.list = <<>> \/ u.voice # "on" THEN u
  ELSE [u EXCEPT !.audio = Head(u.list), !.list = Tail(@), !.begun = FALSE,
                 !.fallbacks = @ \cup {Head(u.list)}]

(* speak_prepared, for a handle that can be played *)
AskAhead(u, s) ==
  LET asked == [u EXCEPT !.wanted = @ \cup {s}]
  IN IF s \in u.ready THEN Enqueue(asked, s) ELSE asked

-----------------------------------------------------------------------------
(* The subtitle controller.  A callback of a segment that is no longer the one
   in the bubble does nothing. *)

(* _start_segment_speech *)
Started(u, s) == IF s = u.current THEN [u EXCEPT !.typing = TRUE] ELSE u

(* A segment that is not to be spoken: both callbacks run within speak_segment. *)
Mute(u) == [u EXCEPT !.typing = TRUE, !.ttsDone = TRUE]

(* VoicePlaybackController.speak_segment for the current segment *)
Speak(u) ==
  LET s == u.current
      taken == [u EXCEPT !.handle = IF @ = s THEN None ELSE @]
  IN IF u.handle = s
     THEN IF s \in u.cancelled \cup u.failed THEN Mute(taken) ELSE AskAhead(taken, s)
     ELSE IF s \in u.silent \/ u.voice = "off" THEN Mute(u)
     ELSE Submit(u, s)

(* VoicePlaybackController.prepare_next *)
PrepareNext(u) ==
  LET free == Discard(u)
      s == Head(u.pending)
  IN IF u.pending = <<>> \/ u.voice = "off" THEN free
     ELSE IF s \in u.silent THEN free
     ELSE Submit([free EXCEPT !.handle = s, !.ahead = @ \cup {s}], s)

Bug_Shown(u) ==   \* the flag of the last timer is kept
  [u EXCEPT !.current = Head(u.pending), !.pending = Tail(@),
            !.textDone = FALSE, !.ttsDone = FALSE]

(* The segment that _show_next_reply_segment puts in the bubble *)
Shown(u) ==
  [u EXCEPT !.current = Head(u.pending), !.pending = Tail(@),
            !.textDone = FALSE, !.ttsDone = FALSE, !.advancing = FALSE]

(* _show_next_reply_segment *)
ShowNext(u) == PrepareNext(Speak(Shown(u)))

(* reset_current_segment_progress *)
Reset(u) ==
  [Discard(u) EXCEPT !.current = None, !.textDone = FALSE, !.ttsDone = TRUE,
                     !.advancing = FALSE]

(* _start_reply_segments_now *)
ShowReply(u, reply) == ShowNext([Reset(u) EXCEPT !.pending = reply])

(* What follows a segment's text or speech: the next batch after the last
   segment, if an interaction (interacting) is to be completed, and a timer to
   the next segment otherwise. *)
Advance(u, interacting) ==
  IF ~(u.textDone /\ u.ttsDone) THEN u
  ELSE IF u.pending = <<>>
  THEN IF interacting /\ u.batches # <<>>
       THEN ShowReply([u EXCEPT !.batches = Tail(@)], Head(u.batches))
       ELSE u
  ELSE IF u.advancing THEN u
  ELSE [u EXCEPT !.advancing = TRUE, !.timers = @ \cup {u.current}]

(* _mark_segment_tts_done *)
Finished(u, s, interacting) ==
  IF s # u.current THEN u ELSE Advance([u EXCEPT !.ttsDone = TRUE], interacting)

Both(u, s, interacting) == Finished(Started(u, s), s, interacting)

(* _reply_segments_active *)
Showing(u) ==
  \/ u.pending # <<>> \/ u.advancing
  \/ u.current # None /\ ~(u.textDone /\ u.ttsDone)

-----------------------------------------------------------------------------
(* UI handlers. *)

(* show_segments *)
Reply ==
  /\ ui.shown < MaxSegments
  /\ \E last \in ui.shown + 1 .. MaxSegments :
       LET reply == [i \in 1 .. last - ui.shown |-> ui.shown + i]
           u == [ui EXCEPT !.shown = last]
       IN ui' = IF Showing(ui) THEN [u EXCEPT !.batches = Append(@, reply)]
                               ELSE ShowReply(u, reply)
  /\ UNCHANGED <<events, stray>>

(* _show_next_speech_char, at the end of the text *)
TextEnds ==
  /\ ui.typing
  /\ LET u == [ui EXCEPT !.typing = FALSE]
     IN \E interacting \in BOOLEAN :
          ui' = IF u.current = None THEN u
                ELSE Advance([u EXCEPT !.textDone = TRUE], interacting)
  /\ UNCHANGED <<events, stray>>

(* restart_current_segment_speech: the subtitle's language was changed *)
RestartText ==
  /\ ui.current # None
  /\ ui' = [ui EXCEPT !.textDone = FALSE, !.advancing = FALSE, !.typing = TRUE]
  /\ UNCHANGED <<events, stray>>

(* _show_scheduled_next_reply_segment: a timer of an earlier segment, or one
   that was called off, does nothing. *)
TimerFires(s) ==
  /\ s \in ui.timers
  /\ LET u == [ui EXCEPT !.timers = @ \ {s}]
     IN ui' = IF s = u.current /\ u.advancing /\ u.pending # <<>> THEN ShowNext(u) ELSE u
  /\ UNCHANGED <<events, stray>>

WakeUp ==
  /\ ui.wake
  /\ ui' = PlayNext([ui EXCEPT !.wake = FALSE])
  /\ UNCHANGED <<events, stray>>

(* _emit_current_started *)
AudioBegins ==
  /\ ui.audio # None /\ ~ui.begun
  /\ ui' = Started([ui EXCEPT !.begun = TRUE], ui.audio)
  /\ UNCHANGED <<events, stray>>

Bug_Stopped(u) ==   \* the started flag outlives the audio
  [u EXCEPT !.audio = None, !.files = @ \ {u.audio}]

(* _reset_current_audio_state, and the deletion of the file *)
Stopped(u) ==
  [u EXCEPT !.audio = None, !.begun = FALSE, !.files = @ \ {u.audio}]

(* _finish_current_audio *)
Finish(u, interacting) ==
  IF u.audio = None THEN u
  ELSE Finished(Stopped(Started(u, u.audio)), u.audio, interacting)

(* The audio ends, fails, or turns out not to be playable. *)
AudioEnds ==
  /\ ui.audio # None
  /\ \E interacting \in BOOLEAN : ui' = PlayNext(Finish(ui, interacting))
  /\ UNCHANGED <<events, stray>>

(* _finish_current_audio_if_stalled *)
FallbackFires(s) ==
  /\ s \in ui.fallbacks
  /\ LET u == [ui EXCEPT !.fallbacks = @ \ {s}]
     IN IF s = ui.audio
        THEN \E interacting \in BOOLEAN : ui' = PlayNext(Finish(u, interacting))
        ELSE ui' = u
  /\ UNCHANGED <<events, stray>>

(* cancel_all and cancel_playback of a provider: requests and audio are dropped
   and their callbacks run, which the segment in the bubble alone heeds. *)
Silence(u, interacting) ==
  LET waits == {s \in Range(u.requests) : s \in u.ahead => s \in u.wanted \ u.cancelled}
      heard == (IF u.voice = "on" THEN waits ELSE {}) \cup Range(u.list) \cup {u.audio}
      quiet == [u EXCEPT !.dropped = @ \cup Range(u.requests)
                                      \cup (IF u.voice = "on" THEN {u.active} \ {None} ELSE {}),
                         !.failed = @ \cup (Range(u.requests) \cap u.ahead),
                         !.requests = <<>>,
                         !.files = @ \ (Range(u.list) \cup {u.audio}),
                         !.list = <<>>,
                         !.audio = None, !.begun = FALSE]
  IN IF u.current \in heard \ {None} THEN Both(quiet, u.current, interacting) ELSE quiet

(* cancel_reply_flow: a message is sent (the dots stop the text), a request
   failed (an apology is typed), the speaking watchdog, another character *)
Interrupt ==
  /\ \E interacting, typing \in BOOLEAN :
       LET u == Silence(Discard([ui EXCEPT !.stale = 1 .. ui.shown]), interacting)
       IN ui' = [Reset([u EXCEPT !.pending = <<>>, !.batches = <<>>]) EXCEPT !.typing = typing]
  /\ UNCHANGED <<events, stray>>

(* _retire_tts_provider, then set_provider: the provider is closed while the
   controllers still refer to it; what comes later is not spoken. *)
SwitchVoice ==
  /\ ui.voice = "on"
  /\ \E interacting \in BOOLEAN :
       ui' = [Discard(Silence([ui EXCEPT !.voice = "closing"], interacting))
                EXCEPT !.voice = "off"]
  /\ UNCHANGED <<events, stray>>

-----------------------------------------------------------------------------
(* The synthesis thread (TTSSynthesisQueue._request_audio). *)

(* A signal reaches the UI thread unless the provider is closed by then. *)
Post(signals) == events' = IF ui.voice = "on" THEN events \o signals ELSE events

Fails(s) ==
  IF s \in ui.ahead THEN <<<<"aheadFailed", s>>>> ELSE <<<<"started", s>>, <<"finished", s>>>>

Skips(s) ==
  IF s \in ui.ahead THEN <<<<"aheadSkipped", s>>>> ELSE <<<<"started", s>>, <<"finished", s>>>>

(* The request is skipped: the provider is closed, the handle or the request
   is cancelled, the text has nothing that can be voiced. *)
Skip ==
  /\ ui.active # None /\ ui.stage = "begin"
  /\ Post(Skips(ui.active))
  /\ ui' = [ui EXCEPT !.stage = "end"]
  /\ UNCHANGED stray

(* The engine fails, with or without a file that it has to give up, ... *)
EngineFails ==
  /\ ui.active # None /\ ui.stage = "begin"
  /\ \E signals \in {Fails(ui.active), Skips(ui.active)} : Post(signals)
  /\ ui' = [ui EXCEPT !.stage = "none"]
  /\ UNCHANGED stray

(* ... raises, which ends the request at once: when the file it has made cannot
   be written to the end, its path is lost with the exception, ... *)
EngineRaises ==
  /\ ui.active # None /\ ui.stage = "begin"
  /\ Post(Fails(ui.active))
  /\ ui' = [ui EXCEPT !.stage = "end"]
  /\ stray' \in {stray, stray \cup {ui.active}}

(* ... or returns a file, unless the request was cancelled. *)
EngineMakes ==
  /\ ui.active # None /\ ui.stage = "begin"
  /\ ui.active \notin ui.cancelled \cup ui.dropped
  /\ ui' = [ui EXCEPT !.stage = "made", !.files = @ \cup {ui.active}]
  /\ UNCHANGED <<events, stray>>

(* The last look at request.cancelled, and the result *)
Delivered(s) ==
  IF s \in ui.dropped THEN <<<<"cleanup", s>>>> \o Skips(s)
  ELSE <<<<IF s \in ui.ahead THEN "ahead" ELSE "audio", s>>>>

Deliver ==
  /\ ui.active # None /\ ui.stage \in {"made", "none"}
  /\ IF ui.stage = "made" THEN Post(Delivered(ui.active))
     ELSE IF ui.active \in ui.dropped THEN Post(Skips(ui.active))
     ELSE UNCHANGED events
  /\ ui' = [ui EXCEPT !.stage = "end",
                      !.files = IF ui.voice = "on" THEN @ ELSE @ \ {ui.active}]
  /\ UNCHANGED stray

EndRequest ==
  /\ ui.active # None /\ ui.stage = "end"
  /\ ui' = StartNext([ui EXCEPT !.active = None])
  /\ UNCHANGED <<events, stray>>

-----------------------------------------------------------------------------
(* The slots of the playback endpoint for the thread's signals. *)

Deleted(u, s) == [u EXCEPT !.files = @ \ {s}]

Bug_Stored(u, s) == Enqueue(u, s)   \* played whether or not it is its turn

(* _store_prepared_audio, with the provider open and the handle in use *)
Stored(u, s) ==
  IF s \in u.wanted THEN Enqueue(u, s) ELSE [u EXCEPT !.ready = @ \cup {s}]

Bug_StoreAhead(u, s) ==   \* a handle that was discarded meanwhile is filled
  IF u.voice # "on" THEN Deleted(u, s) ELSE Stored(u, s)

(* _store_prepared_audio *)
StoreAhead(u, s) ==
  IF u.voice # "on" \/ s \in u.cancelled THEN Deleted(u, s) ELSE Stored(u, s)

(* _fail_prepared_audio and _skip_prepared_audio: the callbacks run once. *)
FailAhead(u, s, interacting) ==
  LET f == [u EXCEPT !.failed = @ \cup {s}]
  IN IF u.voice # "on" \/ s \in u.cancelled \/ s \notin u.wanted THEN f
     ELSE Both([f EXCEPT !.wanted = @ \ {s}], s, interacting)

HandleSignal ==
  /\ events # <<>>
  /\ events' = Tail(events)
  /\ LET kind == Head(events)[1]
         s == Head(events)[2]
     IN \E interacting \in BOOLEAN :
        ui' = CASE kind = "audio" /\ ui.voice = "on" -> Enqueue(ui, s)
                [] kind = "audio" /\ ui.voice # "on" -> Deleted(ui, s)
                [] kind = "ahead" -> StoreAhead(ui, s)
                [] kind \in {"aheadFailed", "aheadSkipped"} -> FailAhead(ui, s, interacting)
                [] kind = "started" -> Started(ui, s)
                [] kind = "finished" -> Finished(ui, s, interacting)
                [] kind = "cleanup" -> Deleted(ui, s)
  /\ UNCHANGED stray

-----------------------------------------------------------------------------
Next ==
  \/ Reply \/ TextEnds \/ RestartText
  \/ \E s \in Segment : TimerFires(s) \/ FallbackFires(s)
  \/ WakeUp \/ AudioBegins \/ AudioEnds
  \/ Interrupt \/ SwitchVoice
  \/ Skip \/ EngineFails \/ EngineRaises \/ EngineMakes \/ Deliver \/ EndRequest
  \/ HandleSignal

(* Timers fire, signals are handled, the synthesis thread goes on.  That an
   audio begins or ends is not assumed: its fallback timer is. *)
Fairness ==
  /\ WF_vars(TextEnds) /\ WF_vars(WakeUp) /\ WF_vars(HandleSignal)
  /\ \A s \in Segment : WF_vars(TimerFires(s)) /\ WF_vars(FallbackFires(s))
  /\ WF_vars(Skip \/ EngineFails \/ EngineRaises \/ EngineMakes) /\ WF_vars(Deliver) /\ WF_vars(EndRequest)

Spec == Init /\ [][Next]_vars
FairSpec == Spec /\ Fairness

-----------------------------------------------------------------------------
(* The voice speaks the segment in the bubble: neither one that was prepared
   and is not its turn yet, nor one whose turn is over; only what an
   interruption has overtaken is left out. *)
VoiceIsCurrent == ui.audio # None => ui.audio = ui.current \/ ui.audio \in ui.stale

Owned(s) ==
  \/ ui.active = s /\ ui.stage = "made"
  \/ \E i \in DOMAIN events : events[i] \in {<<"audio", s>>, <<"ahead", s>>, <<"cleanup", s>>}
  \/ s \in ui.ready /\ ui.handle = s
  \/ s \in Range(ui.list)
  \/ ui.audio = s

(* Every temporary audio file has someone who will play or delete it: the
   thread, a signal, a handle the controller holds or that waits for its turn,
   the play list or the player.  Only a file that could not be written to the
   end is left to the next start of the program (purge_tts_cache). *)
NoAudioLeaks == \A s \in ui.files \cup stray : Owned(s) \/ s \in stray

(* Every segment of a reply is shown at some time, whatever becomes of its
   speech: synthesis fails, is skipped, is not wanted, or an audio stalls.
   Only a provider closed meanwhile, or a user who restarts the text for ever,
   may keep the reply where it is. *)
ReplyGoesOn ==
  \/ []<><<RestartText>>_vars
  \/ \A s \in Segment :
       ui.current = s /\ ui.pending # <<>> ~> ui.current # s \/ ui.voice = "off"

(* "interrupt the current and the queued speech" (TTSProvider.cancel_playback):
   what was shown before an interruption is not spoken after it. *)
InterruptionSilences == ui.audio \notin ui.stale
=============================================================================
