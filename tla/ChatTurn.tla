------------------------------- MODULE ChatTurn -------------------------------
(***************************************************************************)
(* The turn taking of the pet window (app/ui/pet_window.py): who may start *)
(* an agent job, how its result comes back to the UI thread, and how a     *)
(* reply reaches the bubble.                                               *)
(*                                                                         *)
(* Everything here runs on the UI thread, one handler at a time; what is   *)
(* concurrent is the order of the handlers: clicks, timers, the signals of *)
(* the worker threads (first the result, later the end of the thread), the *)
(* callbacks of the speech.  A handler is one action.                      *)
(*                                                                         *)
(* Data is abstracted: a reply is the kind of its origin, "answer" or      *)
(* "reminder", and counts as one segment; conversation history, portraits  *)
(* and log stages are left out.                                            *)
(***************************************************************************)
EXTENDS Naturals, Sequences, FiniteSets

CONSTANTS
  MaxJobs,    \* bound: agent jobs that run at the same time
  MaxQueue    \* bound: reply batches waiting for the bubble

ASSUME ChatTurnAssumption ==
  /\ MaxJobs \in Nat \ {0}
  /\ MaxQueue \in Nat

VARIABLES
  turn,       \* active_interaction_id is set
  speaking,   \* ui_state is SPEAKING
  busy,       \* _set_busy(True): the buttons are disabled
  dialog,     \* the modal "request failed" box of _handle_error is open
  jobs,       \* the QThread workers of the agent
  lane,       \* worker_thread: the job the window knows of, 0 for None
  event,      \* active_event is set
  tool,       \* pending_tool_action is set
  contexts,   \* screen_awareness_contexts holds a screenshot
  encode,     \* screen_observation_encode_thread: what it encodes
  encoded,    \* its result was handled, the thread has not ended yet
  followup,   \* screen_observation_followup_in_progress
  resume,     \* pending_screen_observation_messages is set
  cleanup,    \* a zero timer of _cleanup_worker is due
  current,    \* the reply in the bubble
  talking,    \* its speech has started
  queue,      \* queued_reply_segment_batches
  waiting,    \* waiting_indicator_active
  closing     \* _shutdown_in_progress

ui == <<turn, speaking, busy, dialog>>
work == <<jobs, lane, event>>
sight == <<encode, encoded, followup, resume, cleanup, contexts>>
bubble == <<current, talking, queue, waiting>>
vars == <<ui, work, sight, bubble, tool, closing>>

Job == 1 .. MaxJobs
Free == [kind |-> "none", told |-> FALSE]
Idle(js) == {j \in Job : js[j].kind = "none"}
Running(kind) == {j \in Job : jobs[j].kind = kind}
NoReply == "none"

(* Type correctness, and only a reply in the bubble is being spoken. *)
TypeOK ==
  /\ turn \in BOOLEAN /\ busy \in BOOLEAN /\ dialog \in BOOLEAN
  /\ speaking \in BOOLEAN
  /\ jobs \in [Job -> [kind : {"none", "chat", "action", "event", "mobile"}, told : BOOLEAN]]
  /\ lane \in 0 .. MaxJobs
  /\ event \in BOOLEAN /\ tool \in BOOLEAN /\ contexts \in BOOLEAN
  /\ encode \in {"none", "chat", "context", "manual"}
  /\ encoded \in BOOLEAN /\ followup \in BOOLEAN /\ resume \in BOOLEAN
  /\ cleanup \in BOOLEAN
  /\ current \in {NoReply, "answer", "reminder"}
  /\ talking \in BOOLEAN /\ (talking => current # NoReply)
  /\ queue \in Seq({"answer", "reminder"}) /\ Len(queue) <= MaxQueue
  /\ waiting \in BOOLEAN
  /\ closing \in BOOLEAN

Init ==
  /\ turn = FALSE /\ speaking = FALSE /\ busy = FALSE /\ dialog = FALSE
  /\ jobs = [j \in Job |-> Free] /\ lane = 0
  /\ event = FALSE /\ tool = FALSE /\ contexts = FALSE
  /\ encode = "none" /\ encoded = FALSE
  /\ followup = FALSE /\ resume = FALSE /\ cleanup = FALSE
  /\ current = NoReply /\ talking = FALSE /\ queue = <<>> /\ waiting = FALSE
  /\ closing = FALSE

-----------------------------------------------------------------------------
(* Parts of handlers.  Each gives the next value of the variables it names. *)

(* ResourceManager.spawn_qt_worker: the new thread becomes worker_thread,
   whatever worker_thread was. *)
Spawn(js, kind) ==
  \E j \in Idle(js) :
    /\ jobs' = [js EXCEPT ![j] = [kind |-> kind, told |-> FALSE]]
    /\ lane' = j

Bug_ClearBubble ==   \* the progress of the current segment is not reset
  current' = NoReply /\ queue' = <<>> /\ waiting' = FALSE /\ UNCHANGED talking

(* SubtitleController.cancel_reply_flow *)
ClearBubble ==
  /\ current' = NoReply /\ talking' = FALSE
  /\ queue' = <<>>
  /\ waiting' = FALSE

(* SubtitleController.show_segments: a reply is queued while one is shown. *)
Show(reply) ==
  IF current # NoReply
  THEN /\ Len(queue) < MaxQueue
       /\ queue' = Append(queue, reply)
       /\ UNCHANGED <<current, talking, waiting>>
  ELSE /\ current' = reply /\ talking' = FALSE
       /\ UNCHANGED <<queue, waiting>>

(* _consume_agent_result, and the end of _handle_reply: the reply is shown
   and the pending tool action becomes the one of this result, or none. *)
Consume(reply, asks) ==
  /\ Show(reply)
  /\ tool' = asks

(* _cleanup_worker, with the jobs and worker_thread it finds. *)
Cleanup(js, ln) ==
  IF followup
  THEN jobs' = js /\ lane' = ln /\ UNCHANGED <<busy, resume>>
  ELSE IF resume
  THEN resume' = FALSE /\ busy' = TRUE /\ Spawn(js, "chat")
  ELSE jobs' = js /\ lane' = ln /\ busy' = FALSE /\ UNCHANGED resume

-----------------------------------------------------------------------------
(* The user. *)

(* send_message with something to send: the pending tool action and the
   bubble are dropped, the waiting dots start, and so does a chat worker. *)
Send ==
  /\ turn' = TRUE /\ speaking' = FALSE /\ busy' = TRUE
  /\ tool' = FALSE /\ contexts' = FALSE
  /\ current' = NoReply /\ talking' = FALSE /\ queue' = <<>> /\ waiting' = TRUE
  /\ Spawn(jobs, "chat")
  /\ UNCHANGED <<dialog, event, encode, encoded, followup, resume, cleanup>>

(* send_message with nothing to send, or while a job runs: the interaction
   that has just begun is ended at once. *)
Ignore ==
  /\ turn' = FALSE /\ speaking' = FALSE
  /\ UNCHANGED <<busy, dialog, work, sight, bubble, tool>>

PressReturn ==
  /\ ~dialog /\ lane = 0
  /\ Send \/ Ignore

ClickSend ==
  /\ ~dialog /\ ~busy
  /\ \/ lane = 0 /\ Send
     \/ Ignore

(* confirm_pending_action and cancel_pending_action *)
ResolveTool ==
  /\ ~dialog /\ ~busy /\ tool /\ lane = 0
  /\ turn' = TRUE /\ speaking' = FALSE /\ busy' = TRUE
  /\ tool' = FALSE
  /\ queue' = <<>>
  /\ Spawn(jobs, "action")
  /\ UNCHANGED <<dialog, event, sight, current, talking, waiting>>

(* A region of the screen is attached to the next message. *)
AttachScreenshot ==
  /\ ~dialog /\ encode = "none"
  /\ encode' = "manual" /\ encoded' = FALSE
  /\ UNCHANGED <<ui, work, followup, resume, cleanup, contexts, bubble, tool>>

(* _apply_character with another character: a new conversation *)
SwitchCharacter ==
  /\ ClearBubble
  /\ UNCHANGED <<ui, work, sight, tool>>

-----------------------------------------------------------------------------
(* Timers. *)

(* _check_due_reminders: the bridge has claimed a due delivery; the bubble is
   handed its text, and the delivery is confirmed as sent. *)
ShowReminder ==
  /\ lane = 0 /\ ~event
  /\ Consume("reminder", FALSE)
  /\ UNCHANGED <<ui, work, sight>>

MayLook ==
  /\ lane = 0 /\ ~event /\ ~tool /\ ~resume /\ ~followup
  /\ encode = "none" /\ ~turn
  /\ current = NoReply

(* _check_screen_awareness: take a screenshot if one is due, and speak of the
   screenshots gathered so far if it is time to *)
CheckScreen ==
  /\ MayLook
  /\ \/ encode' = "context" /\ encoded' = FALSE
     \/ UNCHANGED <<encode, encoded>>
  /\ \/ /\ contexts
        /\ contexts' = FALSE
        /\ turn' = TRUE /\ speaking' = FALSE /\ busy' = TRUE
        /\ event' = TRUE
        /\ Spawn(jobs, "event")
     \/ UNCHANGED <<contexts, turn, speaking, busy, event, jobs, lane>>
  /\ UNCHANGED <<dialog, followup, resume, cleanup, bubble, tool>>

RunCleanup ==
  /\ cleanup
  /\ cleanup' = FALSE
  /\ Cleanup(jobs, lane)
  /\ UNCHANGED <<turn, speaking, dialog, event, encode, encoded, followup, contexts,
                 bubble, tool>>

(* _handle_speaking_state_timeout *)
Watchdog ==
  /\ speaking
  /\ speaking' = FALSE
  /\ IF current = NoReply /\ ~waiting
     THEN UNCHANGED <<turn, bubble>>
     ELSE turn' = FALSE /\ ClearBubble
  /\ UNCHANGED <<busy, dialog, work, sight, tool>>

-----------------------------------------------------------------------------
(* The agent's jobs. *)

Told(j) == jobs' = [jobs EXCEPT ![j].told = TRUE] /\ UNCHANGED <<lane>>

(* _handle_progress_reply *)
HearProgress(j) ==
  /\ jobs[j].kind \in {"chat", "action", "event"} /\ ~jobs[j].told
  /\ speaking' = FALSE
  /\ UNCHANGED <<turn, busy, dialog, work, sight, bubble, tool>>

(* _handle_reply and _handle_action_reply: a reply, with or without a tool
   action that needs the user's consent *)
HearAnswer(j) ==
  /\ jobs[j].kind \in {"chat", "action"} /\ ~jobs[j].told
  /\ Told(j)
  /\ \E asks \in BOOLEAN : Consume("answer", asks)
  /\ UNCHANGED <<ui, event, sight>>

Bug_LookFails ==   \* the flag is not taken back
  /\ Consume("answer", FALSE) /\ followup' = TRUE
  /\ UNCHANGED <<encode, encoded>>

(* What is left of a request to see the screen that fails at once: a switch is
   off, the capture fails, or the encoder is busy with another screenshot. *)
LookFails ==
  /\ Consume("answer", FALSE)
  /\ UNCHANGED <<followup, encode, encoded>>

(* _queue_screen_observation_followup: the agent asks to see the screen.  The
   job is started again with the screenshot, unless that fails at once. *)
HearLook(j) ==
  /\ jobs[j].kind = "chat" /\ ~jobs[j].told
  /\ Told(j)
  /\ \/ /\ encode = "none"
        /\ followup' = TRUE
        /\ encode' = "chat" /\ encoded' = FALSE
        /\ UNCHANGED <<bubble, tool>>
     \/ LookFails
  /\ UNCHANGED <<ui, event, resume, cleanup, contexts>>

(* _handle_event_reply: screenshots are part of the event, so a request to see
   the screen ends in a reply as well; the agent may also keep silent. *)
HearEvent(j) ==
  /\ jobs[j].kind = "event" /\ ~jobs[j].told
  /\ Told(j)
  /\ event' = FALSE
  /\ \/ (\E asks \in BOOLEAN : Consume("answer", asks)) /\ UNCHANGED <<turn, speaking>>
     \/ turn' = FALSE /\ speaking' = FALSE /\ UNCHANGED <<bubble, tool>>
  /\ UNCHANGED <<busy, dialog, sight>>

(* _handle_error up to its modal box; other handlers run while it is open. *)
HearError(j) ==
  /\ jobs[j].kind \in {"chat", "action"} /\ ~jobs[j].told /\ ~dialog
  /\ Told(j)
  /\ speaking' = FALSE /\ dialog' = TRUE
  /\ ClearBubble
  /\ UNCHANGED <<turn, busy, event, sight, tool>>

CloseDialog ==
  /\ dialog
  /\ dialog' = FALSE /\ turn' = FALSE
  /\ UNCHANGED <<speaking, busy, work, sight, bubble, tool>>

Bug_HearEventError(j) ==   \* active_event is not cleared
  /\ jobs[j].kind = "event" /\ ~jobs[j].told
  /\ Told(j)
  /\ turn' = FALSE /\ speaking' = FALSE
  /\ UNCHANGED <<event, busy, dialog, sight, bubble, tool>>

(* _handle_event_error: the events are those of CheckScreen, which end silently.
   A due reminder, whose error is answered with a reply, no longer comes as an
   event: ShowReminder hands it to the bubble. *)
HearEventError(j) ==
  /\ jobs[j].kind = "event" /\ ~jobs[j].told
  /\ Told(j)
  /\ event' = FALSE
  /\ turn' = FALSE /\ speaking' = FALSE
  /\ UNCHANGED <<busy, dialog, sight, bubble, tool>>

(* _handle_mobile_chat_result and _handle_mobile_chat_error *)
AnswerPhone(j) ==
  /\ jobs[j].kind = "mobile" /\ ~jobs[j].told
  /\ Told(j)
  /\ UNCHANGED <<ui, event, sight, bubble, tool>>

Bug_LaneAfter(j) == 0       \* without the test that it is still this thread
Bug2_LaneAfter(j) == lane   \* the attribute is never cleared

(* QtWorkerResource._null_owner_attrs: worker_thread is cleared if it is still
   this thread. *)
LaneAfter(j) == IF lane = j THEN 0 ELSE lane

(* QtWorkerResource._finalize: then the job's on_finished runs. *)
EndJob(j) ==
  /\ jobs[j].told
  /\ LET js == [jobs EXCEPT ![j] = Free]
         ln == LaneAfter(j)
     IN IF jobs[j].kind = "mobile"
        THEN jobs' = js /\ lane' = ln /\ UNCHANGED <<busy, resume>>
        ELSE Cleanup(js, ln)
  /\ UNCHANGED <<turn, speaking, dialog, event, encode, encoded, followup, cleanup, contexts,
                 bubble, tool>>

-----------------------------------------------------------------------------
(* The screenshot encoder's thread. *)

Bug_ResumeCleanup == UNCHANGED cleanup   \* left to the end of the job

(* _resume_screen_observation_followup_cleanup *)
ResumeCleanup == cleanup' = (cleanup \/ lane = 0)

(* _handle_screen_observation_encoded; a follow-up whose user message is gone,
   the conversation having been cleared, ends in a reply that says so. *)
ScreenEncoded ==
  /\ encode # "none" /\ ~encoded
  /\ encoded' = TRUE
  /\ \/ /\ encode = "chat"
        /\ followup' = FALSE
        /\ \/ resume' = TRUE /\ UNCHANGED <<bubble, tool>>
           \/ Consume("answer", FALSE) /\ UNCHANGED resume
        /\ ResumeCleanup
        /\ UNCHANGED contexts
     \/ /\ encode = "context" /\ contexts' = TRUE
        /\ UNCHANGED <<followup, resume, cleanup, bubble, tool>>
     \/ /\ encode = "manual"
        /\ UNCHANGED <<followup, resume, cleanup, contexts, bubble, tool>>
  /\ UNCHANGED <<ui, work, encode>>

(* _handle_screen_observation_encode_failed *)
ScreenFailed ==
  /\ encode # "none" /\ ~encoded
  /\ encoded' = TRUE
  /\ IF encode = "chat"
     THEN followup' = FALSE /\ Consume("answer", FALSE) /\ ResumeCleanup
     ELSE UNCHANGED <<followup, bubble, tool, cleanup>>
  /\ UNCHANGED <<ui, work, encode, resume, contexts>>

EndEncoder ==
  /\ encoded
  /\ encode' = "none" /\ encoded' = FALSE
  /\ UNCHANGED <<ui, work, followup, resume, cleanup, contexts, bubble, tool>>

-----------------------------------------------------------------------------
(* The speech of the reply in the bubble. *)

(* _start_segment_speech, _apply_reply_segment *)
SpeechStarts ==
  /\ current # NoReply /\ ~talking
  /\ talking' = TRUE /\ waiting' = FALSE
  /\ speaking' = TRUE
  /\ UNCHANGED <<turn, busy, dialog, work, sight, current, queue, tool>>

(* _end_interaction_if_reply_done: with an interaction, the next batch or the
   end of the interaction; without one, nothing. *)
SpeechEnds ==
  /\ current # NoReply /\ talking
  /\ talking' = FALSE
  /\ IF turn /\ queue # <<>>
     THEN current' = Head(queue) /\ queue' = Tail(queue) /\ UNCHANGED <<turn, speaking>>
     ELSE /\ current' = NoReply /\ UNCHANGED queue
          /\ turn' = FALSE
          /\ speaking' = (speaking /\ ~turn)
  /\ UNCHANGED <<busy, dialog, work, sight, waiting, tool>>

-----------------------------------------------------------------------------
(* The phone. *)

MobileBusy ==
  \/ lane # 0 \/ Running("mobile") # {}
  \/ event \/ tool \/ resume \/ followup
  \/ encode # "none"
  \/ current # NoReply \/ waiting

(* submit_mobile_chat, on a thread of the HTTP server, sends the request to the
   UI thread, where _enqueue_mobile_chat starts its job unless the desktop is
   busy.  The first of these makes the same test, which only refuses earlier. *)
AskFromPhone ==
  /\ ~MobileBusy
  /\ Spawn(jobs, "mobile")
  /\ UNCHANGED <<ui, event, sight, bubble, tool>>

-----------------------------------------------------------------------------
(* The end of the program. *)

(* close_external_tools: the bubble is emptied, and every thread is cancelled
   and waited for.  Those that end in time are finalized, which runs
   _cleanup_worker for a job of the window; the others are left to themselves. *)
Close ==
  /\ ~closing /\ closing' = TRUE
  /\ ClearBubble
  /\ jobs' = [j \in Job |-> Free] /\ lane' = 0
  /\ encode' = "none" /\ encoded' = FALSE
  /\ \/ UNCHANGED <<followup, resume>>
     \/ /\ \E j \in Job : jobs[j].kind \notin {"none", "mobile"}
        /\ followup' = FALSE /\ resume' = FALSE
  /\ UNCHANGED <<ui, event, cleanup, contexts, tool>>

(* What the event loop may still deliver: the answer or the cancellation of the
   encoder (_handle_screen_observation_encode_cancelled), the answer of an event
   job, and a cleanup that was due.  None of them shows or starts anything. *)
HearLate ==
  /\ closing
  /\ \/ followup' = FALSE /\ UNCHANGED <<event, resume, cleanup>>
     \/ event' = FALSE /\ UNCHANGED <<followup, resume, cleanup>>
     \/ cleanup /\ cleanup' = FALSE /\ followup' = FALSE /\ resume' = FALSE
        /\ UNCHANGED event
  /\ UNCHANGED <<ui, jobs, lane, encode, encoded, contexts, bubble, tool, closing>>

-----------------------------------------------------------------------------
JobStep(j) ==
  \/ HearProgress(j) \/ HearAnswer(j) \/ HearLook(j) \/ HearEvent(j)
  \/ HearError(j) \/ HearEventError(j) \/ AnswerPhone(j) \/ EndJob(j)

Step ==
  \/ PressReturn \/ ClickSend \/ ResolveTool \/ AttachScreenshot \/ SwitchCharacter
  \/ ShowReminder \/ CheckScreen \/ RunCleanup \/ Watchdog
  \/ \E j \in Job : JobStep(j)
  \/ CloseDialog
  \/ ScreenEncoded \/ ScreenFailed \/ EndEncoder
  \/ SpeechStarts \/ SpeechEnds
  \/ AskFromPhone

Next ==
  \/ ~closing /\ Step /\ UNCHANGED closing
  \/ Close
  \/ HearLate

Hear(j) ==
  \/ HearAnswer(j) \/ HearLook(j) \/ HearEvent(j)
  \/ HearError(j) \/ HearEventError(j) \/ AnswerPhone(j)

(* A job ends with a signal and then with its thread, an encoder answers, a due
   timer fires, a box that is shown is closed, a reply that is to be spoken
   starts, as long as the window is open.  Nothing is assumed of the user, nor
   that the agent stops asking to see the screen. *)
Open(A) == ~closing /\ A /\ UNCHANGED closing

Fairness ==
  /\ \A j \in Job : WF_vars(Open(Hear(j))) /\ WF_vars(Open(EndJob(j)))
  /\ WF_vars(Open(ScreenEncoded \/ ScreenFailed))
  /\ WF_vars(Open(RunCleanup))
  /\ WF_vars(Open(CloseDialog))
  /\ WF_vars(Open(SpeechStarts))

Spec == Init /\ [][Next]_vars
FairSpec == Spec /\ Fairness

-----------------------------------------------------------------------------
(* The follow-up flag stands for a screenshot that is being encoded: while it
   is set every cleanup is put off, so the window stays busy, and the phone and
   the screen observation stay locked out, until that encoder answers or the
   window closes. *)
FollowupEncodes == followup /\ ~closing => encode = "chat" /\ ~encoded

(* The proactive event the window remembers is that of a job that has yet to
   answer: no handler of an open window leaves one behind, which would silence
   reminders, screen observation and the phone for good. *)
EventHasJob == event /\ ~closing => \E j \in Running("event") : ~jobs[j].told

(* worker_thread never names a thread that has ended: every entry of the window
   refuses work while it is set. *)
LaneRuns == lane # 0 => jobs[lane].kind # "none"

(* worker_thread is emptied by the end of the job it names and by no other: a
   job whose place was taken by a younger one does not take it along. *)
LaneKeptByItsJob == [][lane # 0 /\ lane' = 0 => jobs'[lane] = Free]_vars

(* The waiting dots give way to a reply, an error or silence, unless the user
   sends, or the agent asks to look, again and again.  The case that needs care
   is an agent job that is started again with a screenshot: its predecessor may
   end before or after the encoder does. *)
WaitingEnds ==
  \/ waiting ~> ~waiting
  \/ []<><<PressReturn \/ ClickSend \/ \E j \in Job : HearLook(j)>>_vars

Reminders(q) == Cardinality({i \in DOMAIN q : q[i] = "reminder"})

(* "never report an unshown bubble as sent" (_check_due_reminders): a reminder
   that waits for the bubble, and is already confirmed as sent, leaves the queue
   of an open window for the bubble only. *)
QueuedReminderIsShown ==
  [][~closing' /\ Reminders(queue') < Reminders(queue) => current' = "reminder"]_vars
=============================================================================
