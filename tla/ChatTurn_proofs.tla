--------------------------- MODULE ChatTurn_proofs ---------------------------
(***************************************************************************)
(* Proofs about ChatTurn: its types, the follow-up flag, the remembered    *)
(* event and the agent lane.                                               *)
(***************************************************************************)
EXTENDS ChatTurn, TLAPS

JobState == [kind : {"none", "chat", "action", "event", "mobile"}, told : BOOLEAN]

(* The parts of the type invariant: flags, threads, bubble. *)
FlagsOK ==
  /\ turn \in BOOLEAN /\ speaking \in BOOLEAN /\ busy \in BOOLEAN /\ dialog \in BOOLEAN
  /\ event \in BOOLEAN /\ tool \in BOOLEAN /\ contexts \in BOOLEAN
  /\ encoded \in BOOLEAN /\ followup \in BOOLEAN /\ resume \in BOOLEAN
  /\ cleanup \in BOOLEAN /\ talking \in BOOLEAN /\ waiting \in BOOLEAN

ThreadsOK ==
  /\ jobs \in [Job -> JobState]
  /\ lane \in 0 .. MaxJobs
  /\ encode \in {"none", "chat", "context", "manual"}

BubbleOK ==
  /\ current \in {NoReply, "answer", "reminder"}
  /\ talking => current # NoReply
  /\ queue \in Seq({"answer", "reminder"}) /\ Len(queue) <= MaxQueue

LEMMA Parts == TypeOK <=> FlagsOK /\ ThreadsOK /\ BubbleOK /\ closing \in BOOLEAN
BY DEF TypeOK, FlagsOK, ThreadsOK, BubbleOK, JobState

(* What is inductive: no part of it needs another but the types and LaneRuns. *)
IInv == TypeOK /\ FollowupEncodes /\ EventHasJob /\ LaneRuns

-----------------------------------------------------------------------------
(* Spawn fills a free place, which becomes the lane, and leaves the others. *)
LEMMA SpawnFacts ==
  ASSUME NEW js \in [Job -> JobState],
         NEW kind \in {"chat", "action", "event", "mobile"},
         Spawn(js, kind)
  PROVE  /\ jobs' \in [Job -> JobState]
         /\ lane' \in Job
         /\ jobs'[lane'] = [kind |-> kind, told |-> FALSE]
         /\ \A k \in Job : js[k].kind # "none" => jobs'[k] = js[k]
<1>1. PICK j \in Idle(js) : /\ jobs' = [js EXCEPT ![j] = [kind |-> kind, told |-> FALSE]]
                            /\ lane' = j
  BY DEF Spawn
<1>2. j \in Job /\ js[j].kind = "none"
  BY <1>1 DEF Idle
<1> QED
  BY <1>1, <1>2 DEF JobState

(* The bubble keeps its types when a reply is shown or queued. *)
LEMMA ShowFlags ==
  ASSUME FlagsOK, NEW reply, Show(reply)
  PROVE  talking' \in BOOLEAN /\ waiting' \in BOOLEAN
<1>1. CASE current # NoReply
  BY <1>1, Zenon DEF Show, FlagsOK
<1>2. CASE current = NoReply
  BY <1>2, Zenon DEF Show, FlagsOK
<1> QED
  BY <1>1, <1>2

LEMMA ShowBubble ==
  ASSUME BubbleOK, NEW reply \in {"answer", "reminder"}, Show(reply)
  PROVE  BubbleOK'
<1> USE ChatTurnAssumption
<1>1. CASE current # NoReply
  BY <1>1 DEF Show, BubbleOK
<1>2. CASE current = NoReply
  BY <1>2 DEF Show, BubbleOK, NoReply
<1> QED
  BY <1>1, <1>2

(* _cleanup_worker starts a chat job in a free place, or leaves the jobs. *)
LEMMA CleanupFacts ==
  ASSUME NEW js \in [Job -> JobState], NEW ln \in 0 .. MaxJobs,
         ln # 0 => js[ln].kind # "none",
         Cleanup(js, ln)
  PROVE  /\ jobs' \in [Job -> JobState]
         /\ lane' \in 0 .. MaxJobs
         /\ lane' # 0 => jobs'[lane'].kind # "none"
         /\ \A k \in Job : js[k].kind # "none" => jobs'[k] = js[k]
<1>1. CASE followup
  BY <1>1 DEF Cleanup
<1>2. CASE ~followup /\ resume
  <2>1. Spawn(js, "chat") /\ resume' = FALSE /\ busy' = TRUE
    BY <1>2 DEF Cleanup
  <2>2. "chat" \in {"chat", "action", "event", "mobile"}
    OBVIOUS
  <2>3. /\ jobs' \in [Job -> JobState] /\ lane' \in Job
        /\ jobs'[lane'] = [kind |-> "chat", told |-> FALSE]
        /\ \A k \in Job : js[k].kind # "none" => jobs'[k] = js[k]
    BY <2>1, <2>2, SpawnFacts
  <2>4. jobs'[lane'].kind # "none" /\ lane' \in 0 .. MaxJobs
    BY <2>3, ChatTurnAssumption DEF Job
  <2> QED
    BY <2>1, <2>3, <2>4
<1>3. CASE ~followup /\ ~resume
  BY <1>3 DEF Cleanup
<1> QED
  BY <1>1, <1>2, <1>3

LEMMA CleanupFlags ==
  ASSUME FlagsOK, NEW js, NEW ln, Cleanup(js, ln)
  PROVE  busy' \in BOOLEAN /\ resume' \in BOOLEAN
<1>1. CASE followup
  BY <1>1, Zenon DEF Cleanup, FlagsOK
<1>2. CASE ~followup /\ resume
  BY <1>2, Zenon DEF Cleanup, FlagsOK
<1>3. CASE ~followup /\ ~resume
  BY <1>3, Zenon DEF Cleanup, FlagsOK
<1> QED
  BY <1>1, <1>2, <1>3

(* A job that signals keeps its kind; the others are left alone. *)
LEMMA ToldFacts ==
  ASSUME NEW j \in Job, jobs \in [Job -> JobState], Told(j)
  PROVE  /\ jobs' \in [Job -> JobState] /\ lane' = lane
         /\ \A k \in Job : jobs'[k].kind = jobs[k].kind
         /\ \A k \in Job \ {j} : jobs'[k] = jobs[k]
BY DEF Told, JobState

(* A new job of the window. *)
LEMMA NewJob ==
  ASSUME ThreadsOK, NEW kind \in {"chat", "action", "event", "mobile"}, Spawn(jobs, kind)
  PROVE  /\ jobs' \in [Job -> JobState] /\ lane' \in 0 .. MaxJobs
         /\ lane' # 0 /\ lane' \in Job
         /\ jobs'[lane'] = [kind |-> kind, told |-> FALSE]
         /\ \A k \in Job : jobs[k].kind # "none" => jobs'[k] = jobs[k]
<1>1. /\ jobs' \in [Job -> JobState] /\ lane' \in Job
      /\ jobs'[lane'] = [kind |-> kind, told |-> FALSE]
      /\ \A k \in Job : jobs[k].kind # "none" => jobs'[k] = jobs[k]
  BY SpawnFacts DEF ThreadsOK
<1> QED
  BY <1>1, ChatTurnAssumption DEF Job

(* The end of a job's thread, with or without a job started in its wake. *)
LEMMA EndFacts ==
  ASSUME ThreadsOK, LaneRuns, NEW j \in Job, EndJob(j)
  PROVE  /\ jobs' \in [Job -> JobState] /\ lane' \in 0 .. MaxJobs
         /\ lane' # 0 => jobs'[lane'].kind # "none"
         /\ \A k \in Job \ {j} : jobs[k].kind # "none" => jobs'[k] = jobs[k]
<1> DEFINE js == [jobs EXCEPT ![j] = Free]
           ln == LaneAfter(j)
<1>1. js \in [Job -> JobState] /\ \A k \in Job \ {j} : js[k] = jobs[k]
  BY DEF ThreadsOK, JobState, Free
<1>2. ln \in 0 .. MaxJobs /\ (ln # 0 => ln = lane /\ ln \in Job \ {j})
  BY ChatTurnAssumption DEF LaneAfter, ThreadsOK, Job
<1>3. ln # 0 => js[ln].kind # "none"
  BY <1>1, <1>2 DEF LaneRuns
<1>4. CASE jobs' = js /\ lane' = ln
  BY <1>1, <1>2, <1>3, <1>4
<1>5. CASE Cleanup(js, ln)
  <2> HIDE DEF js, ln
  <2>1. /\ jobs' \in [Job -> JobState] /\ lane' \in 0 .. MaxJobs
        /\ lane' # 0 => jobs'[lane'].kind # "none"
        /\ \A k \in Job : js[k].kind # "none" => jobs'[k] = js[k]
    BY <1>1, <1>2, <1>3, <1>5, CleanupFacts
  <2> QED
    BY <1>1, <2>1
<1> QED
  BY <1>4, <1>5 DEF EndJob

(* A due _cleanup_worker, under its zero timer. *)
LEMMA RunCleanupFacts ==
  ASSUME ThreadsOK, LaneRuns, RunCleanup
  PROVE  /\ jobs' \in [Job -> JobState] /\ lane' \in 0 .. MaxJobs
         /\ lane' # 0 => jobs'[lane'].kind # "none"
         /\ \A k \in Job : jobs[k].kind # "none" => jobs'[k] = jobs[k]
<1>1. /\ jobs \in [Job -> JobState] /\ lane \in 0 .. MaxJobs
      /\ lane # 0 => jobs[lane].kind # "none"
  BY DEF ThreadsOK, LaneRuns
<1>2. Cleanup(jobs, lane)
  BY DEF RunCleanup
<1> QED
  BY <1>1, <1>2, CleanupFacts

-----------------------------------------------------------------------------
LEMMA InitInv == Init => IInv
<1> SUFFICES ASSUME Init PROVE IInv
  OBVIOUS
<1>1. FlagsOK
  BY Zenon DEF Init, FlagsOK
<1>2. ThreadsOK
  BY ChatTurnAssumption DEF Init, ThreadsOK, JobState, Job, Free
<1>3. BubbleOK
  BY ChatTurnAssumption DEF Init, BubbleOK, NoReply
<1>4. FollowupEncodes /\ EventHasJob /\ LaneRuns /\ closing \in BOOLEAN
  BY DEF Init, FollowupEncodes, EventHasJob, LaneRuns
<1> QED
  BY <1>1, <1>2, <1>3, <1>4, Parts DEF IInv

(* Flags that do not change stay flags. *)
LEMMA SameFlags ==
  ASSUME FlagsOK,
         turn' = turn /\ speaking' = speaking /\ busy' = busy /\ dialog' = dialog,
         event' = event /\ tool' = tool /\ encoded' = encoded /\ followup' = followup,
         resume' = resume /\ cleanup' = cleanup /\ contexts' = contexts,
         talking' = talking /\ waiting' = waiting
  PROVE  FlagsOK'
<1>1. turn' \in BOOLEAN /\ speaking' \in BOOLEAN /\ busy' \in BOOLEAN /\ dialog' \in BOOLEAN
  BY Zenon DEF FlagsOK
<1>2. event' \in BOOLEAN /\ tool' \in BOOLEAN /\ encoded' \in BOOLEAN /\ followup' \in BOOLEAN
  BY Zenon DEF FlagsOK
<1>3. resume' \in BOOLEAN /\ cleanup' \in BOOLEAN /\ contexts' \in BOOLEAN
  BY Zenon DEF FlagsOK
<1>4. talking' \in BOOLEAN /\ waiting' \in BOOLEAN
  BY Zenon DEF FlagsOK
<1> QED
  BY <1>1, <1>2, <1>3, <1>4, Zenon DEF FlagsOK

(* The flags stay flags. *)
LEMMA NextFlags ==
  ASSUME FlagsOK, [Next]_vars
  PROVE  FlagsOK'
<1>1. ASSUME Send PROVE FlagsOK'
  BY <1>1, Zenon DEF Send, FlagsOK, ui, work, sight, bubble
<1>2. ASSUME Ignore PROVE FlagsOK'
  BY <1>2, Zenon DEF Ignore, FlagsOK, ui, work, sight, bubble
<1>3. ASSUME ResolveTool PROVE FlagsOK'
  BY <1>3, Zenon DEF ResolveTool, FlagsOK, ui, work, sight, bubble
<1>4. ASSUME AttachScreenshot PROVE FlagsOK'
  BY <1>4, Zenon DEF AttachScreenshot, FlagsOK, ui, work, sight, bubble
<1>5. ASSUME SwitchCharacter PROVE FlagsOK'
  BY <1>5, Zenon DEF SwitchCharacter, ClearBubble, FlagsOK, ui, work, sight
<1>6. ASSUME ShowReminder PROVE FlagsOK'
  BY <1>6, ShowFlags, Zenon DEF ShowReminder, Consume, FlagsOK, ui, work, sight
<1>7. ASSUME CheckScreen PROVE FlagsOK'
  <2>1. event' \in BOOLEAN /\ turn' \in BOOLEAN /\ speaking' \in BOOLEAN
       /\ busy' \in BOOLEAN /\ contexts' \in BOOLEAN
    BY <1>7, Zenon DEF CheckScreen, FlagsOK
  <2>2. encoded' \in BOOLEAN
    BY <1>7, Zenon DEF CheckScreen, FlagsOK
  <2> QED
    BY <1>7, <2>1, <2>2, Zenon DEF CheckScreen, FlagsOK, bubble
<1>8. ASSUME RunCleanup PROVE FlagsOK'
  <2>1. busy' \in BOOLEAN /\ resume' \in BOOLEAN
    BY <1>8, CleanupFlags, Zenon DEF RunCleanup
  <2> QED
    BY <1>8, <2>1, Zenon DEF RunCleanup, FlagsOK, bubble
<1>9. ASSUME Watchdog PROVE FlagsOK'
  <2>1. talking' \in BOOLEAN /\ waiting' \in BOOLEAN /\ turn' \in BOOLEAN
    BY <1>9, Zenon DEF Watchdog, ClearBubble, FlagsOK, bubble
  <2> QED
    BY <1>9, <2>1, Zenon DEF Watchdog, FlagsOK, work, sight
<1>10. ASSUME NEW j \in Job, JobStep(j) PROVE FlagsOK'
  <2>1. ASSUME HearProgress(j) PROVE FlagsOK'
    BY <2>1, Zenon DEF HearProgress, FlagsOK, ui, work, sight, bubble
  <2>2. ASSUME HearAnswer(j) PROVE FlagsOK'
    BY <2>2, ShowFlags, Zenon DEF HearAnswer, Consume, FlagsOK, ui, sight
  <2>3. ASSUME HearLook(j) PROVE FlagsOK'
    <3>1. talking' \in BOOLEAN /\ waiting' \in BOOLEAN /\ tool' \in BOOLEAN
      BY <2>3, ShowFlags, Zenon DEF HearLook, LookFails, Consume, FlagsOK, bubble
    <3>2. followup' \in BOOLEAN /\ encoded' \in BOOLEAN
      BY <2>3, Zenon DEF HearLook, LookFails, FlagsOK
    <3> QED
      BY <2>3, <3>1, <3>2, Zenon DEF HearLook, FlagsOK, ui
  <2>4. ASSUME HearEvent(j) PROVE FlagsOK'
    <3>1. talking' \in BOOLEAN /\ waiting' \in BOOLEAN /\ tool' \in BOOLEAN
      BY <2>4, ShowFlags, Zenon DEF HearEvent, Consume, FlagsOK, bubble
    <3>2. turn' \in BOOLEAN /\ speaking' \in BOOLEAN
      BY <2>4, Zenon DEF HearEvent, FlagsOK
    <3> QED
      BY <2>4, <3>1, <3>2, Zenon DEF HearEvent, FlagsOK, sight
  <2>5. ASSUME HearError(j) PROVE FlagsOK'
    BY <2>5, Zenon DEF HearError, ClearBubble, FlagsOK, sight
  <2>6. ASSUME HearEventError(j) PROVE FlagsOK'
    BY <2>6, Zenon DEF HearEventError, FlagsOK, ui, work, sight, bubble
  <2>7. ASSUME AnswerPhone(j) PROVE FlagsOK'
    <3>1. /\ turn' = turn /\ speaking' = speaking /\ busy' = busy /\ dialog' = dialog
          /\ event' = event /\ tool' = tool /\ encoded' = encoded /\ followup' = followup
          /\ resume' = resume /\ cleanup' = cleanup /\ contexts' = contexts
          /\ talking' = talking /\ waiting' = waiting
      BY <2>7, Zenon DEF AnswerPhone, ui, sight, bubble
    <3> QED
      BY <3>1, SameFlags
  <2>8. ASSUME EndJob(j) PROVE FlagsOK'
    <3>1. busy' \in BOOLEAN /\ resume' \in BOOLEAN
      BY <2>8, CleanupFlags, Zenon DEF EndJob, FlagsOK
    <3> QED
      BY <2>8, <3>1, Zenon DEF EndJob, FlagsOK, bubble
  <2> QED
    BY <1>10, <2>1, <2>2, <2>3, <2>4, <2>5, <2>6, <2>7, <2>8 DEF JobStep
<1>11. ASSUME CloseDialog PROVE FlagsOK'
  BY <1>11, Zenon DEF CloseDialog, FlagsOK, ui, work, sight, bubble
<1>12. ASSUME ScreenEncoded PROVE FlagsOK'
  <2>1. talking' \in BOOLEAN /\ waiting' \in BOOLEAN /\ tool' \in BOOLEAN
    BY <1>12, ShowFlags, Zenon DEF ScreenEncoded, Consume, FlagsOK, bubble
  <2>2. followup' \in BOOLEAN /\ resume' \in BOOLEAN /\ contexts' \in BOOLEAN
    BY <1>12, Zenon DEF ScreenEncoded, FlagsOK
  <2>3. cleanup' \in BOOLEAN
    BY <1>12, Zenon DEF ScreenEncoded, ResumeCleanup, FlagsOK
  <2> QED
    BY <1>12, <2>1, <2>2, <2>3, Zenon DEF ScreenEncoded, FlagsOK, ui, work
<1>13. ASSUME ScreenFailed PROVE FlagsOK'
  <2>1. talking' \in BOOLEAN /\ waiting' \in BOOLEAN /\ tool' \in BOOLEAN
    BY <1>13, ShowFlags, Zenon DEF ScreenFailed, Consume, FlagsOK, bubble
  <2>2. followup' \in BOOLEAN /\ cleanup' \in BOOLEAN
    BY <1>13, Zenon DEF ScreenFailed, ResumeCleanup, FlagsOK
  <2> QED
    BY <1>13, <2>1, <2>2, Zenon DEF ScreenFailed, FlagsOK, ui, work
<1>14. ASSUME EndEncoder PROVE FlagsOK'
  BY <1>14, Zenon DEF EndEncoder, FlagsOK, ui, work, sight, bubble
<1>15. ASSUME SpeechStarts PROVE FlagsOK'
  BY <1>15, Zenon DEF SpeechStarts, FlagsOK, ui, work, sight, bubble
<1>16. ASSUME SpeechEnds PROVE FlagsOK'
  <2>1. turn' \in BOOLEAN /\ speaking' \in BOOLEAN
    BY <1>16, Zenon DEF SpeechEnds, FlagsOK
  <2> QED
    BY <1>16, <2>1, Zenon DEF SpeechEnds, FlagsOK, work, sight
<1>17. ASSUME AskFromPhone PROVE FlagsOK'
  <2>1. /\ turn' = turn /\ speaking' = speaking /\ busy' = busy /\ dialog' = dialog
        /\ event' = event /\ tool' = tool /\ encoded' = encoded /\ followup' = followup
        /\ resume' = resume /\ cleanup' = cleanup /\ contexts' = contexts
        /\ talking' = talking /\ waiting' = waiting
    BY <1>17, Zenon DEF AskFromPhone, ui, sight, bubble
  <2> QED
    BY <2>1, SameFlags
<1>18. ASSUME UNCHANGED vars PROVE FlagsOK'
  <2>1. /\ turn' = turn /\ speaking' = speaking /\ busy' = busy /\ dialog' = dialog
        /\ event' = event /\ tool' = tool /\ encoded' = encoded /\ followup' = followup
        /\ resume' = resume /\ cleanup' = cleanup /\ contexts' = contexts
        /\ talking' = talking /\ waiting' = waiting
    BY <1>18, Zenon DEF vars, ui, work, sight, bubble
  <2> QED
    BY <2>1, SameFlags
<1>19. ASSUME Close PROVE FlagsOK'
  <2>1. followup' \in BOOLEAN /\ resume' \in BOOLEAN
    BY <1>19, Zenon DEF Close, FlagsOK
  <2>2. /\ turn' = turn /\ speaking' = speaking /\ busy' = busy /\ dialog' = dialog
        /\ event' = event /\ tool' = tool /\ encoded' = FALSE
        /\ cleanup' = cleanup /\ contexts' = contexts
        /\ talking' = FALSE /\ waiting' = FALSE
    BY <1>19, Zenon DEF Close, ClearBubble, ui
  <2> QED
    BY <2>1, <2>2, Zenon DEF FlagsOK
<1>20. ASSUME HearLate PROVE FlagsOK'
  <2>1. /\ followup' \in BOOLEAN /\ resume' \in BOOLEAN
        /\ cleanup' \in BOOLEAN /\ event' \in BOOLEAN
    BY <1>20, Zenon DEF HearLate, FlagsOK
  <2>2. /\ turn' = turn /\ speaking' = speaking /\ busy' = busy /\ dialog' = dialog
        /\ tool' = tool /\ encoded' = encoded /\ contexts' = contexts
        /\ talking' = talking /\ waiting' = waiting
    BY <1>20, Zenon DEF HearLate, ui, bubble
  <2> QED
    BY <2>1, <2>2, Zenon DEF FlagsOK
<1> QED
  BY <1>1, <1>2, <1>3, <1>4, <1>5, <1>6, <1>7, <1>8, <1>9, <1>10, <1>11, <1>12,
     <1>13, <1>14, <1>15, <1>16, <1>17, <1>18,
     <1>19, <1>20 DEF Next, Step, PressReturn, ClickSend

(* The threads keep their types. *)
LEMMA NextThreads ==
  ASSUME ThreadsOK, LaneRuns, [Next]_vars
  PROVE  ThreadsOK'
<1>1. ASSUME Send PROVE ThreadsOK'
  BY <1>1, NewJob DEF Send, ThreadsOK, sight
<1>2. ASSUME Ignore PROVE ThreadsOK'
  BY <1>2 DEF Ignore, ThreadsOK, work, sight
<1>3. ASSUME ResolveTool PROVE ThreadsOK'
  BY <1>3, NewJob DEF ResolveTool, ThreadsOK, sight
<1>4. ASSUME AttachScreenshot PROVE ThreadsOK'
  BY <1>4 DEF AttachScreenshot, ThreadsOK, work, sight
<1>5. ASSUME SwitchCharacter PROVE ThreadsOK'
  BY <1>5 DEF SwitchCharacter, ThreadsOK, work, sight
<1>6. ASSUME ShowReminder PROVE ThreadsOK'
  BY <1>6 DEF ShowReminder, ThreadsOK, work, sight
<1>7. ASSUME CheckScreen PROVE ThreadsOK'
  <2>1. jobs' \in [Job -> JobState] /\ lane' \in 0 .. MaxJobs
    BY <1>7, NewJob DEF CheckScreen, ThreadsOK
  <2> QED
    BY <1>7, <2>1 DEF CheckScreen, ThreadsOK
<1>8. ASSUME RunCleanup PROVE ThreadsOK'
  BY <1>8, RunCleanupFacts DEF RunCleanup, ThreadsOK
<1>9. ASSUME Watchdog PROVE ThreadsOK'
  BY <1>9 DEF Watchdog, ThreadsOK, work, sight
<1>10. ASSUME NEW j \in Job, JobStep(j) PROVE ThreadsOK'
  <2>1. ASSUME HearProgress(j) PROVE ThreadsOK'
    BY <2>1 DEF HearProgress, ThreadsOK, work, sight
  <2>2. ASSUME HearAnswer(j) PROVE ThreadsOK'
    BY <2>2, ToldFacts DEF HearAnswer, ThreadsOK, sight
  <2>3. ASSUME HearLook(j) PROVE ThreadsOK'
    BY <2>3, ToldFacts DEF HearLook, LookFails, ThreadsOK
  <2>4. ASSUME HearEvent(j) PROVE ThreadsOK'
    BY <2>4, ToldFacts DEF HearEvent, ThreadsOK, sight
  <2>5. ASSUME HearError(j) PROVE ThreadsOK'
    BY <2>5, ToldFacts DEF HearError, ThreadsOK, sight
  <2>6. ASSUME HearEventError(j) PROVE ThreadsOK'
    BY <2>6, ToldFacts DEF HearEventError, ThreadsOK, sight
  <2>7. ASSUME AnswerPhone(j) PROVE ThreadsOK'
    BY <2>7, ToldFacts DEF AnswerPhone, ThreadsOK, sight
  <2>8. ASSUME EndJob(j) PROVE ThreadsOK'
    BY <2>8, EndFacts DEF EndJob, ThreadsOK
  <2> QED
    BY <1>10, <2>1, <2>2, <2>3, <2>4, <2>5, <2>6, <2>7, <2>8 DEF JobStep
<1>11. ASSUME CloseDialog PROVE ThreadsOK'
  BY <1>11 DEF CloseDialog, ThreadsOK, work, sight
<1>12. ASSUME ScreenEncoded PROVE ThreadsOK'
  BY <1>12 DEF ScreenEncoded, ThreadsOK, work, sight
<1>13. ASSUME ScreenFailed PROVE ThreadsOK'
  BY <1>13 DEF ScreenFailed, ThreadsOK, work, sight
<1>14. ASSUME EndEncoder PROVE ThreadsOK'
  BY <1>14 DEF EndEncoder, ThreadsOK, work, sight
<1>15. ASSUME SpeechStarts PROVE ThreadsOK'
  BY <1>15 DEF SpeechStarts, ThreadsOK, work, sight
<1>16. ASSUME SpeechEnds PROVE ThreadsOK'
  BY <1>16 DEF SpeechEnds, ThreadsOK, work, sight
<1>17. ASSUME AskFromPhone PROVE ThreadsOK'
  BY <1>17, NewJob DEF AskFromPhone, ThreadsOK, sight
<1>18. ASSUME UNCHANGED vars PROVE ThreadsOK'
  BY <1>18 DEF vars, ui, work, sight, bubble, ThreadsOK, work, sight
<1>19. ASSUME Close PROVE ThreadsOK'
  BY <1>19, ChatTurnAssumption DEF Close, ThreadsOK, JobState, Free
<1>20. ASSUME HearLate PROVE ThreadsOK'
  BY <1>20 DEF HearLate, ThreadsOK
<1> QED
  BY <1>1, <1>2, <1>3, <1>4, <1>5, <1>6, <1>7, <1>8, <1>9, <1>10, <1>11, <1>12,
     <1>13, <1>14, <1>15, <1>16, <1>17, <1>18,
     <1>19, <1>20 DEF Next, Step, PressReturn, ClickSend

(* The bubble keeps its types: the queue within its bound, speech only of a reply. *)
LEMMA NextBubble ==
  ASSUME BubbleOK, [Next]_vars
  PROVE  BubbleOK'
<1>1. ASSUME Send PROVE BubbleOK'
  BY <1>1, ChatTurnAssumption DEF Send, BubbleOK, NoReply
<1>2. ASSUME Ignore PROVE BubbleOK'
  BY <1>2 DEF Ignore, BubbleOK, bubble
<1>3. ASSUME ResolveTool PROVE BubbleOK'
  BY <1>3, ChatTurnAssumption DEF ResolveTool, BubbleOK, NoReply
<1>4. ASSUME AttachScreenshot PROVE BubbleOK'
  BY <1>4 DEF AttachScreenshot, BubbleOK, bubble
<1>5. ASSUME SwitchCharacter PROVE BubbleOK'
  BY <1>5, ChatTurnAssumption DEF SwitchCharacter, ClearBubble, BubbleOK, NoReply
<1>6. ASSUME ShowReminder PROVE BubbleOK'
  BY <1>6, ShowBubble DEF ShowReminder, Consume
<1>7. ASSUME CheckScreen PROVE BubbleOK'
  BY <1>7 DEF CheckScreen, BubbleOK, bubble
<1>8. ASSUME RunCleanup PROVE BubbleOK'
  BY <1>8 DEF RunCleanup, BubbleOK, bubble
<1>9. ASSUME Watchdog PROVE BubbleOK'
  <2>1. CASE ClearBubble
    BY <2>1, ChatTurnAssumption DEF ClearBubble, BubbleOK, NoReply
  <2>2. CASE UNCHANGED bubble
    BY <2>2 DEF BubbleOK, bubble
  <2> QED
    BY <1>9, <2>1, <2>2 DEF Watchdog
<1>10. ASSUME NEW j \in Job, JobStep(j) PROVE BubbleOK'
  <2>1. ASSUME HearProgress(j) PROVE BubbleOK'
    BY <2>1 DEF HearProgress, BubbleOK, bubble
  <2>2. ASSUME HearAnswer(j) PROVE BubbleOK'
    BY <2>2, ShowBubble DEF HearAnswer, Consume
  <2>3. ASSUME HearLook(j) PROVE BubbleOK'
    <3>1. CASE Show("answer")
      BY <3>1, ShowBubble
    <3>2. CASE UNCHANGED bubble
      BY <3>2 DEF BubbleOK, bubble
    <3> QED
      BY <2>3, <3>1, <3>2 DEF HearLook, LookFails, Consume, bubble
  <2>4. ASSUME HearEvent(j) PROVE BubbleOK'
    <3>1. CASE Show("answer")
      BY <3>1, ShowBubble
    <3>2. CASE UNCHANGED bubble
      BY <3>2 DEF BubbleOK, bubble
    <3> QED
      BY <2>4, <3>1, <3>2 DEF HearEvent, Consume, bubble
  <2>5. ASSUME HearError(j) PROVE BubbleOK'
    BY <2>5, ChatTurnAssumption DEF HearError, ClearBubble, BubbleOK, NoReply
  <2>6. ASSUME HearEventError(j) PROVE BubbleOK'
    BY <2>6 DEF HearEventError, BubbleOK, bubble
  <2>7. ASSUME AnswerPhone(j) PROVE BubbleOK'
    BY <2>7 DEF AnswerPhone, BubbleOK, bubble
  <2>8. ASSUME EndJob(j) PROVE BubbleOK'
    BY <2>8 DEF EndJob, BubbleOK, bubble
  <2> QED
    BY <1>10, <2>1, <2>2, <2>3, <2>4, <2>5, <2>6, <2>7, <2>8 DEF JobStep
<1>11. ASSUME CloseDialog PROVE BubbleOK'
  BY <1>11 DEF CloseDialog, BubbleOK, bubble
<1>12. ASSUME ScreenEncoded PROVE BubbleOK'
  <2>1. CASE Show("answer")
    BY <2>1, ShowBubble
  <2>2. CASE UNCHANGED bubble
    BY <2>2 DEF BubbleOK, bubble
  <2> QED
    BY <1>12, <2>1, <2>2 DEF ScreenEncoded, Consume, bubble
<1>13. ASSUME ScreenFailed PROVE BubbleOK'
  <2>1. CASE Show("answer")
    BY <2>1, ShowBubble
  <2>2. CASE UNCHANGED bubble
    BY <2>2 DEF BubbleOK, bubble
  <2> QED
    BY <1>13, <2>1, <2>2 DEF ScreenFailed, Consume, bubble
<1>14. ASSUME EndEncoder PROVE BubbleOK'
  BY <1>14 DEF EndEncoder, BubbleOK, bubble
<1>15. ASSUME SpeechStarts PROVE BubbleOK'
  BY <1>15 DEF SpeechStarts, BubbleOK, bubble
<1>16. ASSUME SpeechEnds PROVE BubbleOK'
  <2>1. CASE turn /\ queue # <<>>
    BY <1>16, <2>1, ChatTurnAssumption DEF SpeechEnds, BubbleOK
  <2>2. CASE ~(turn /\ queue # <<>>)
    BY <1>16, <2>2 DEF SpeechEnds, BubbleOK
  <2> QED
    BY <2>1, <2>2
<1>17. ASSUME AskFromPhone PROVE BubbleOK'
  BY <1>17 DEF AskFromPhone, BubbleOK, bubble
<1>18. ASSUME UNCHANGED vars PROVE BubbleOK'
  BY <1>18 DEF vars, ui, work, sight, bubble, BubbleOK, bubble
<1>19. ASSUME Close PROVE BubbleOK'
  BY <1>19, ChatTurnAssumption DEF Close, ClearBubble, BubbleOK, NoReply
<1>20. ASSUME HearLate PROVE BubbleOK'
  BY <1>20 DEF HearLate, BubbleOK, bubble
<1> QED
  BY <1>1, <1>2, <1>3, <1>4, <1>5, <1>6, <1>7, <1>8, <1>9, <1>10, <1>11, <1>12,
     <1>13, <1>14, <1>15, <1>16, <1>17, <1>18,
     <1>19, <1>20 DEF Next, Step, PressReturn, ClickSend

(* FollowupEncodes and EventHasJob while the window is open. *)
Encodes == followup => encode = "chat" /\ ~encoded
HasJob == event => \E j \in Running("event") : ~jobs[j].told

(* The follow-up flag is set with its encoder, and taken back when that answers. *)
LEMMA StepFollowup ==
  ASSUME Encodes, Step
  PROVE  Encodes'
<1>1. ASSUME Send PROVE Encodes'
  <2>1. UNCHANGED <<followup, encode, encoded>>
    BY <1>1 DEF Send, sight
  <2> QED
    BY <2>1 DEF Encodes
<1>2. ASSUME Ignore PROVE Encodes'
  <2>1. UNCHANGED <<followup, encode, encoded>>
    BY <1>2 DEF Ignore, sight
  <2> QED
    BY <2>1 DEF Encodes
<1>3. ASSUME ResolveTool PROVE Encodes'
  <2>1. UNCHANGED <<followup, encode, encoded>>
    BY <1>3 DEF ResolveTool, sight
  <2> QED
    BY <2>1 DEF Encodes
<1>4. ASSUME AttachScreenshot PROVE Encodes'
  <2>1. ~followup
    BY <1>4 DEF AttachScreenshot, Encodes
  <2> QED
    BY <1>4, <2>1 DEF AttachScreenshot, Encodes
<1>5. ASSUME SwitchCharacter PROVE Encodes'
  <2>1. UNCHANGED <<followup, encode, encoded>>
    BY <1>5 DEF SwitchCharacter, sight
  <2> QED
    BY <2>1 DEF Encodes
<1>6. ASSUME ShowReminder PROVE Encodes'
  <2>1. UNCHANGED <<followup, encode, encoded>>
    BY <1>6 DEF ShowReminder, sight
  <2> QED
    BY <2>1 DEF Encodes
<1>7. ASSUME CheckScreen PROVE Encodes'
  <2>1. ~followup /\ followup' = followup
    BY <1>7 DEF CheckScreen, MayLook
  <2> QED
    BY <2>1 DEF Encodes
<1>8. ASSUME RunCleanup PROVE Encodes'
  <2>1. UNCHANGED <<followup, encode, encoded>>
    BY <1>8 DEF RunCleanup, sight
  <2> QED
    BY <2>1 DEF Encodes
<1>9. ASSUME Watchdog PROVE Encodes'
  <2>1. UNCHANGED <<followup, encode, encoded>>
    BY <1>9 DEF Watchdog, sight
  <2> QED
    BY <2>1 DEF Encodes
<1>10. ASSUME NEW j \in Job, JobStep(j) PROVE Encodes'
  <2>1. ASSUME HearProgress(j) PROVE Encodes'
    <3>1. UNCHANGED <<followup, encode, encoded>>
      BY <2>1 DEF HearProgress, sight
    <3> QED
      BY <3>1 DEF Encodes
  <2>2. ASSUME HearAnswer(j) PROVE Encodes'
    <3>1. UNCHANGED <<followup, encode, encoded>>
      BY <2>2 DEF HearAnswer, sight
    <3> QED
      BY <3>1 DEF Encodes
  <2>3. ASSUME HearLook(j) PROVE Encodes'
    <3>1. CASE followup' = TRUE /\ encode' = "chat" /\ encoded' = FALSE
      BY <3>1 DEF Encodes
    <3>2. CASE UNCHANGED <<followup, encode, encoded>>
      BY <3>2 DEF Encodes
    <3> QED
      BY <2>3, <3>1, <3>2 DEF HearLook, LookFails
  <2>4. ASSUME HearEvent(j) PROVE Encodes'
    <3>1. UNCHANGED <<followup, encode, encoded>>
      BY <2>4 DEF HearEvent, sight
    <3> QED
      BY <3>1 DEF Encodes
  <2>5. ASSUME HearError(j) PROVE Encodes'
    <3>1. UNCHANGED <<followup, encode, encoded>>
      BY <2>5 DEF HearError, sight
    <3> QED
      BY <3>1 DEF Encodes
  <2>6. ASSUME HearEventError(j) PROVE Encodes'
    <3>1. UNCHANGED <<followup, encode, encoded>>
      BY <2>6 DEF HearEventError, sight
    <3> QED
      BY <3>1 DEF Encodes
  <2>7. ASSUME AnswerPhone(j) PROVE Encodes'
    <3>1. UNCHANGED <<followup, encode, encoded>>
      BY <2>7 DEF AnswerPhone, sight
    <3> QED
      BY <3>1 DEF Encodes
  <2>8. ASSUME EndJob(j) PROVE Encodes'
    <3>1. UNCHANGED <<followup, encode, encoded>>
      BY <2>8 DEF EndJob, sight
    <3> QED
      BY <3>1 DEF Encodes
  <2> QED
    BY <1>10, <2>1, <2>2, <2>3, <2>4, <2>5, <2>6, <2>7, <2>8 DEF JobStep
<1>11. ASSUME CloseDialog PROVE Encodes'
  <2>1. UNCHANGED <<followup, encode, encoded>>
    BY <1>11 DEF CloseDialog, sight
  <2> QED
    BY <2>1 DEF Encodes
<1>12. ASSUME ScreenEncoded PROVE Encodes'
  <2>1. CASE encode = "chat" /\ followup' = FALSE
    BY <2>1 DEF Encodes
  <2>2. CASE encode # "chat" /\ followup' = followup
    BY <2>2 DEF Encodes
  <2> QED
    BY <1>12, <2>1, <2>2 DEF ScreenEncoded
<1>13. ASSUME ScreenFailed PROVE Encodes'
  <2>1. CASE encode = "chat" /\ followup' = FALSE
    BY <2>1 DEF Encodes
  <2>2. CASE encode # "chat" /\ followup' = followup
    BY <2>2 DEF Encodes
  <2> QED
    BY <1>13, <2>1, <2>2 DEF ScreenFailed
<1>14. ASSUME EndEncoder PROVE Encodes'
  <2>1. ~followup
    BY <1>14 DEF EndEncoder, Encodes
  <2> QED
    BY <1>14, <2>1 DEF EndEncoder, Encodes
<1>15. ASSUME SpeechStarts PROVE Encodes'
  <2>1. UNCHANGED <<followup, encode, encoded>>
    BY <1>15 DEF SpeechStarts, sight
  <2> QED
    BY <2>1 DEF Encodes
<1>16. ASSUME SpeechEnds PROVE Encodes'
  <2>1. UNCHANGED <<followup, encode, encoded>>
    BY <1>16 DEF SpeechEnds, sight
  <2> QED
    BY <2>1 DEF Encodes
<1>17. ASSUME AskFromPhone PROVE Encodes'
  <2>1. UNCHANGED <<followup, encode, encoded>>
    BY <1>17 DEF AskFromPhone, sight
  <2> QED
    BY <2>1 DEF Encodes
<1> QED
  BY <1>1, <1>2, <1>3, <1>4, <1>5, <1>6, <1>7, <1>8, <1>9, <1>10, <1>11, <1>12,
     <1>13, <1>14, <1>15, <1>16, <1>17 DEF Step, PressReturn, ClickSend

(* A closing window leaves the flag and the event to signals that may not come. *)
LEMMA NextFollowup ==
  ASSUME FollowupEncodes, [Next]_vars
  PROVE  FollowupEncodes'
<1>1. CASE ~closing /\ Step /\ UNCHANGED closing
  BY <1>1, StepFollowup DEF FollowupEncodes, Encodes
<1>2. CASE Close
  BY <1>2 DEF Close, FollowupEncodes
<1>3. CASE HearLate
  BY <1>3 DEF HearLate, FollowupEncodes
<1>4. CASE UNCHANGED vars
  BY <1>4 DEF vars, FollowupEncodes, sight
<1> QED
  BY <1>1, <1>2, <1>3, <1>4 DEF Next

(* The job of the remembered event goes on. *)
Kept == \A k \in Job : jobs[k].kind = "event" /\ ~jobs[k].told => jobs'[k] = jobs[k]

LEMMA EventKept ==
  ASSUME HasJob, event' => event, Kept
  PROVE  HasJob'
BY DEF HasJob, Kept, Running

(* The remembered event is left to its job, which forgets it when it answers. *)
LEMMA StepEvent ==
  ASSUME ThreadsOK, LaneRuns, HasJob, Step
  PROVE  HasJob'
<1>1. ASSUME Send PROVE HasJob'
  <2>1. Kept /\ event' = event
    BY <1>1, NewJob DEF Send, Kept
  <2> QED
    BY <2>1, EventKept
<1>2. ASSUME Ignore PROVE HasJob'
  <2>1. UNCHANGED <<event, jobs>>
    BY <1>2 DEF Ignore, work
  <2> QED
    BY <2>1, EventKept DEF Kept
<1>3. ASSUME ResolveTool PROVE HasJob'
  <2>1. Kept /\ event' = event
    BY <1>3, NewJob DEF ResolveTool, Kept
  <2> QED
    BY <2>1, EventKept
<1>4. ASSUME AttachScreenshot PROVE HasJob'
  <2>1. UNCHANGED <<event, jobs>>
    BY <1>4 DEF AttachScreenshot, work
  <2> QED
    BY <2>1, EventKept DEF Kept
<1>5. ASSUME SwitchCharacter PROVE HasJob'
  <2>1. UNCHANGED <<event, jobs>>
    BY <1>5 DEF SwitchCharacter, work
  <2> QED
    BY <2>1, EventKept DEF Kept
<1>6. ASSUME ShowReminder PROVE HasJob'
  <2>1. UNCHANGED <<event, jobs>>
    BY <1>6 DEF ShowReminder, work
  <2> QED
    BY <2>1, EventKept DEF Kept
<1>7. ASSUME CheckScreen PROVE HasJob'
  <2>1. CASE Spawn(jobs, "event")
    <3>1. lane' \in Job /\ jobs'[lane'].kind = "event" /\ ~jobs'[lane'].told
      BY <2>1, NewJob
    <3> QED
      BY <3>1 DEF HasJob, Running
  <2>2. CASE UNCHANGED <<event, jobs>>
    BY <2>2, EventKept DEF Kept
  <2> QED
    BY <1>7, <2>1, <2>2 DEF CheckScreen
<1>8. ASSUME RunCleanup PROVE HasJob'
  <2>1. Kept /\ event' = event
    BY <1>8, RunCleanupFacts DEF RunCleanup, Kept
  <2> QED
    BY <2>1, EventKept
<1>9. ASSUME Watchdog PROVE HasJob'
  <2>1. UNCHANGED <<event, jobs>>
    BY <1>9 DEF Watchdog, work
  <2> QED
    BY <2>1, EventKept DEF Kept
<1>10. ASSUME NEW j \in Job, JobStep(j) PROVE HasJob'
  <2>1. ASSUME HearProgress(j) PROVE HasJob'
    <3>1. UNCHANGED <<event, jobs>>
      BY <2>1 DEF HearProgress, work
    <3> QED
      BY <3>1, EventKept DEF Kept
  <2>2. ASSUME HearAnswer(j) PROVE HasJob'
    <3>1. Kept /\ event' = event
      BY <2>2, ToldFacts DEF HearAnswer, Kept, ThreadsOK
    <3> QED
      BY <3>1, EventKept
  <2>3. ASSUME HearLook(j) PROVE HasJob'
    <3>1. Kept /\ event' = event
      BY <2>3, ToldFacts DEF HearLook, Kept, ThreadsOK
    <3> QED
      BY <3>1, EventKept
  <2>4. ASSUME HearEvent(j) PROVE HasJob'
    BY <2>4 DEF HearEvent, HasJob
  <2>5. ASSUME HearError(j) PROVE HasJob'
    <3>1. Kept /\ event' = event
      BY <2>5, ToldFacts DEF HearError, Kept, ThreadsOK
    <3> QED
      BY <3>1, EventKept
  <2>6. ASSUME HearEventError(j) PROVE HasJob'
    BY <2>6 DEF HearEventError, HasJob
  <2>7. ASSUME AnswerPhone(j) PROVE HasJob'
    <3>1. Kept /\ event' = event
      BY <2>7, ToldFacts DEF AnswerPhone, Kept, ThreadsOK
    <3> QED
      BY <3>1, EventKept
  <2>8. ASSUME EndJob(j) PROVE HasJob'
    <3>1. Kept /\ event' = event
      BY <2>8, EndFacts DEF EndJob, Kept
    <3> QED
      BY <3>1, EventKept
  <2> QED
    BY <1>10, <2>1, <2>2, <2>3, <2>4, <2>5, <2>6, <2>7, <2>8 DEF JobStep
<1>11. ASSUME CloseDialog PROVE HasJob'
  <2>1. UNCHANGED <<event, jobs>>
    BY <1>11 DEF CloseDialog, work
  <2> QED
    BY <2>1, EventKept DEF Kept
<1>12. ASSUME ScreenEncoded PROVE HasJob'
  <2>1. UNCHANGED <<event, jobs>>
    BY <1>12 DEF ScreenEncoded, work
  <2> QED
    BY <2>1, EventKept DEF Kept
<1>13. ASSUME ScreenFailed PROVE HasJob'
  <2>1. UNCHANGED <<event, jobs>>
    BY <1>13 DEF ScreenFailed, work
  <2> QED
    BY <2>1, EventKept DEF Kept
<1>14. ASSUME EndEncoder PROVE HasJob'
  <2>1. UNCHANGED <<event, jobs>>
    BY <1>14 DEF EndEncoder, work
  <2> QED
    BY <2>1, EventKept DEF Kept
<1>15. ASSUME SpeechStarts PROVE HasJob'
  <2>1. UNCHANGED <<event, jobs>>
    BY <1>15 DEF SpeechStarts, work
  <2> QED
    BY <2>1, EventKept DEF Kept
<1>16. ASSUME SpeechEnds PROVE HasJob'
  <2>1. UNCHANGED <<event, jobs>>
    BY <1>16 DEF SpeechEnds, work
  <2> QED
    BY <2>1, EventKept DEF Kept
<1>17. ASSUME AskFromPhone PROVE HasJob'
  <2>1. Kept /\ event' = event
    BY <1>17, NewJob DEF AskFromPhone, Kept
  <2> QED
    BY <2>1, EventKept
<1> QED
  BY <1>1, <1>2, <1>3, <1>4, <1>5, <1>6, <1>7, <1>8, <1>9, <1>10, <1>11, <1>12,
     <1>13, <1>14, <1>15, <1>16, <1>17 DEF Step, PressReturn, ClickSend

(* The same of the event. *)
LEMMA NextEvent ==
  ASSUME ThreadsOK, LaneRuns, EventHasJob, [Next]_vars
  PROVE  EventHasJob'
<1>1. CASE ~closing /\ Step /\ UNCHANGED closing
  BY <1>1, StepEvent DEF EventHasJob, HasJob
<1>2. CASE Close
  BY <1>2 DEF Close, EventHasJob
<1>3. CASE HearLate
  BY <1>3 DEF HearLate, EventHasJob
<1>4. CASE UNCHANGED vars
  BY <1>4 DEF vars, EventHasJob, work, Running
<1> QED
  BY <1>1, <1>2, <1>3, <1>4 DEF Next

(* The lane is emptied with its job, or taken by a job that runs. *)
LEMMA NextLane ==
  ASSUME ThreadsOK, LaneRuns, [Next]_vars
  PROVE  LaneRuns'
<1>1. ASSUME Send PROVE LaneRuns'
  <2>1. lane' \in Job /\ jobs'[lane'].kind # "none"
    BY <1>1, NewJob DEF Send
  <2> QED
    BY <2>1 DEF LaneRuns
<1>2. ASSUME Ignore PROVE LaneRuns'
  <2>1. UNCHANGED <<jobs, lane>>
    BY <1>2 DEF Ignore, work
  <2> QED
    BY <2>1 DEF LaneRuns
<1>3. ASSUME ResolveTool PROVE LaneRuns'
  <2>1. lane' \in Job /\ jobs'[lane'].kind # "none"
    BY <1>3, NewJob DEF ResolveTool
  <2> QED
    BY <2>1 DEF LaneRuns
<1>4. ASSUME AttachScreenshot PROVE LaneRuns'
  <2>1. UNCHANGED <<jobs, lane>>
    BY <1>4 DEF AttachScreenshot, work
  <2> QED
    BY <2>1 DEF LaneRuns
<1>5. ASSUME SwitchCharacter PROVE LaneRuns'
  <2>1. UNCHANGED <<jobs, lane>>
    BY <1>5 DEF SwitchCharacter, work
  <2> QED
    BY <2>1 DEF LaneRuns
<1>6. ASSUME ShowReminder PROVE LaneRuns'
  <2>1. UNCHANGED <<jobs, lane>>
    BY <1>6 DEF ShowReminder, work
  <2> QED
    BY <2>1 DEF LaneRuns
<1>7. ASSUME CheckScreen PROVE LaneRuns'
  <2>1. CASE Spawn(jobs, "event")
    <3>1. jobs'[lane'].kind # "none"
      BY <2>1, NewJob
    <3> QED
      BY <3>1 DEF LaneRuns
  <2>2. CASE UNCHANGED <<jobs, lane>>
    BY <2>2 DEF LaneRuns
  <2> QED
    BY <1>7, <2>1, <2>2 DEF CheckScreen
<1>8. ASSUME RunCleanup PROVE LaneRuns'
  BY <1>8, RunCleanupFacts DEF LaneRuns
<1>9. ASSUME Watchdog PROVE LaneRuns'
  <2>1. UNCHANGED <<jobs, lane>>
    BY <1>9 DEF Watchdog, work
  <2> QED
    BY <2>1 DEF LaneRuns
<1>10. ASSUME NEW j \in Job, JobStep(j) PROVE LaneRuns'
  <2>1. ASSUME HearProgress(j) PROVE LaneRuns'
    <3>1. UNCHANGED <<jobs, lane>>
      BY <2>1 DEF HearProgress, work
    <3> QED
      BY <3>1 DEF LaneRuns
  <2>2. ASSUME HearAnswer(j) PROVE LaneRuns'
    <3>1. lane' = lane /\ \A k \in Job : jobs'[k].kind = jobs[k].kind
      BY <2>2, ToldFacts DEF HearAnswer, ThreadsOK
    <3> QED
      BY <3>1, ChatTurnAssumption DEF LaneRuns, ThreadsOK, Job
  <2>3. ASSUME HearLook(j) PROVE LaneRuns'
    <3>1. lane' = lane /\ \A k \in Job : jobs'[k].kind = jobs[k].kind
      BY <2>3, ToldFacts DEF HearLook, ThreadsOK
    <3> QED
      BY <3>1, ChatTurnAssumption DEF LaneRuns, ThreadsOK, Job
  <2>4. ASSUME HearEvent(j) PROVE LaneRuns'
    <3>1. lane' = lane /\ \A k \in Job : jobs'[k].kind = jobs[k].kind
      BY <2>4, ToldFacts DEF HearEvent, ThreadsOK
    <3> QED
      BY <3>1, ChatTurnAssumption DEF LaneRuns, ThreadsOK, Job
  <2>5. ASSUME HearError(j) PROVE LaneRuns'
    <3>1. lane' = lane /\ \A k \in Job : jobs'[k].kind = jobs[k].kind
      BY <2>5, ToldFacts DEF HearError, ThreadsOK
    <3> QED
      BY <3>1, ChatTurnAssumption DEF LaneRuns, ThreadsOK, Job
  <2>6. ASSUME HearEventError(j) PROVE LaneRuns'
    <3>1. lane' = lane /\ \A k \in Job : jobs'[k].kind = jobs[k].kind
      BY <2>6, ToldFacts DEF HearEventError, ThreadsOK
    <3> QED
      BY <3>1, ChatTurnAssumption DEF LaneRuns, ThreadsOK, Job
  <2>7. ASSUME AnswerPhone(j) PROVE LaneRuns'
    <3>1. lane' = lane /\ \A k \in Job : jobs'[k].kind = jobs[k].kind
      BY <2>7, ToldFacts DEF AnswerPhone, ThreadsOK
    <3> QED
      BY <3>1, ChatTurnAssumption DEF LaneRuns, ThreadsOK, Job
  <2>8. ASSUME EndJob(j) PROVE LaneRuns'
    BY <2>8, EndFacts DEF LaneRuns
  <2> QED
    BY <1>10, <2>1, <2>2, <2>3, <2>4, <2>5, <2>6, <2>7, <2>8 DEF JobStep
<1>11. ASSUME CloseDialog PROVE LaneRuns'
  <2>1. UNCHANGED <<jobs, lane>>
    BY <1>11 DEF CloseDialog, work
  <2> QED
    BY <2>1 DEF LaneRuns
<1>12. ASSUME ScreenEncoded PROVE LaneRuns'
  <2>1. UNCHANGED <<jobs, lane>>
    BY <1>12 DEF ScreenEncoded, work
  <2> QED
    BY <2>1 DEF LaneRuns
<1>13. ASSUME ScreenFailed PROVE LaneRuns'
  <2>1. UNCHANGED <<jobs, lane>>
    BY <1>13 DEF ScreenFailed, work
  <2> QED
    BY <2>1 DEF LaneRuns
<1>14. ASSUME EndEncoder PROVE LaneRuns'
  <2>1. UNCHANGED <<jobs, lane>>
    BY <1>14 DEF EndEncoder, work
  <2> QED
    BY <2>1 DEF LaneRuns
<1>15. ASSUME SpeechStarts PROVE LaneRuns'
  <2>1. UNCHANGED <<jobs, lane>>
    BY <1>15 DEF SpeechStarts, work
  <2> QED
    BY <2>1 DEF LaneRuns
<1>16. ASSUME SpeechEnds PROVE LaneRuns'
  <2>1. UNCHANGED <<jobs, lane>>
    BY <1>16 DEF SpeechEnds, work
  <2> QED
    BY <2>1 DEF LaneRuns
<1>17. ASSUME AskFromPhone PROVE LaneRuns'
  <2>1. lane' \in Job /\ jobs'[lane'].kind # "none"
    BY <1>17, NewJob DEF AskFromPhone
  <2> QED
    BY <2>1 DEF LaneRuns
<1>18. ASSUME UNCHANGED vars PROVE LaneRuns'
  <2>1. UNCHANGED <<jobs, lane>>
    BY <1>18 DEF vars, work
  <2> QED
    BY <2>1 DEF LaneRuns
<1>19. ASSUME Close PROVE LaneRuns'
  BY <1>19 DEF Close, LaneRuns
<1>20. ASSUME HearLate PROVE LaneRuns'
  <2>1. UNCHANGED <<jobs, lane>>
    BY <1>20 DEF HearLate
  <2> QED
    BY <2>1 DEF LaneRuns
<1> QED
  BY <1>1, <1>2, <1>3, <1>4, <1>5, <1>6, <1>7, <1>8, <1>9, <1>10, <1>11, <1>12,
     <1>13, <1>14, <1>15, <1>16, <1>17, <1>18,
     <1>19, <1>20 DEF Next, Step, PressReturn, ClickSend

(* What LaneKeptByItsJob says of a step. *)
LaneKept == lane # 0 /\ lane' = 0 => jobs'[lane] = Free

(* Only the end of its own job empties the lane. *)
LEMMA NextLaneKept ==
  ASSUME ThreadsOK, [Next]_vars
  PROVE  LaneKept
<1>1. ASSUME Send PROVE LaneKept
  BY <1>1, NewJob DEF Send, LaneKept
<1>2. ASSUME Ignore PROVE LaneKept
  BY <1>2 DEF Ignore, LaneKept, work
<1>3. ASSUME ResolveTool PROVE LaneKept
  BY <1>3, NewJob DEF ResolveTool, LaneKept
<1>4. ASSUME AttachScreenshot PROVE LaneKept
  BY <1>4 DEF AttachScreenshot, LaneKept, work
<1>5. ASSUME SwitchCharacter PROVE LaneKept
  BY <1>5 DEF SwitchCharacter, LaneKept, work
<1>6. ASSUME ShowReminder PROVE LaneKept
  BY <1>6 DEF ShowReminder, LaneKept, work
<1>7. ASSUME CheckScreen PROVE LaneKept
  <2>1. CASE Spawn(jobs, "event")
    BY <2>1, NewJob DEF LaneKept
  <2>2. CASE lane' = lane
    BY <2>2 DEF LaneKept
  <2> QED
    BY <1>7, <2>1, <2>2 DEF CheckScreen
<1>8. ASSUME RunCleanup PROVE LaneKept
  <2>1. CASE Spawn(jobs, "chat")
    BY <2>1, NewJob DEF LaneKept
  <2>2. CASE lane' = lane
    BY <2>2 DEF LaneKept
  <2> QED
    BY <1>8, <2>1, <2>2 DEF RunCleanup, Cleanup
<1>9. ASSUME Watchdog PROVE LaneKept
  BY <1>9 DEF Watchdog, LaneKept, work
<1>10. ASSUME NEW j \in Job, JobStep(j) PROVE LaneKept
  <2>1. ASSUME HearProgress(j) PROVE LaneKept
    BY <2>1 DEF HearProgress, LaneKept, work
  <2>2. ASSUME HearAnswer(j) PROVE LaneKept
    BY <2>2 DEF HearAnswer, Told, LaneKept
  <2>3. ASSUME HearLook(j) PROVE LaneKept
    BY <2>3 DEF HearLook, Told, LaneKept
  <2>4. ASSUME HearEvent(j) PROVE LaneKept
    BY <2>4 DEF HearEvent, Told, LaneKept
  <2>5. ASSUME HearError(j) PROVE LaneKept
    BY <2>5 DEF HearError, Told, LaneKept
  <2>6. ASSUME HearEventError(j) PROVE LaneKept
    BY <2>6 DEF HearEventError, Told, LaneKept
  <2>7. ASSUME AnswerPhone(j) PROVE LaneKept
    BY <2>7 DEF AnswerPhone, Told, LaneKept
  <2>8. ASSUME EndJob(j) PROVE LaneKept
    <3> DEFINE js == [jobs EXCEPT ![j] = Free]
               ln == LaneAfter(j)
    <3>1. js \in [Job -> JobState] /\ js[j] = Free
      BY DEF ThreadsOK, JobState, Free
    <3>2. CASE jobs' = js /\ lane' = ln
      BY <3>1, <3>2 DEF LaneKept, LaneAfter
    <3>3. CASE Spawn(js, "chat")
      <4> HIDE DEF js
      <4>1. lane' \in Job
        BY <3>1, <3>3, SpawnFacts
      <4> QED
        BY <4>1, ChatTurnAssumption DEF LaneKept, Job
    <3> QED
      BY <2>8, <3>2, <3>3 DEF EndJob, Cleanup
  <2> QED
    BY <1>10, <2>1, <2>2, <2>3, <2>4, <2>5, <2>6, <2>7, <2>8 DEF JobStep
<1>11. ASSUME CloseDialog PROVE LaneKept
  BY <1>11 DEF CloseDialog, LaneKept, work
<1>12. ASSUME ScreenEncoded PROVE LaneKept
  BY <1>12 DEF ScreenEncoded, LaneKept, work
<1>13. ASSUME ScreenFailed PROVE LaneKept
  BY <1>13 DEF ScreenFailed, LaneKept, work
<1>14. ASSUME EndEncoder PROVE LaneKept
  BY <1>14 DEF EndEncoder, LaneKept, work
<1>15. ASSUME SpeechStarts PROVE LaneKept
  BY <1>15 DEF SpeechStarts, LaneKept, work
<1>16. ASSUME SpeechEnds PROVE LaneKept
  BY <1>16 DEF SpeechEnds, LaneKept, work
<1>17. ASSUME AskFromPhone PROVE LaneKept
  BY <1>17, NewJob DEF AskFromPhone, LaneKept
<1>18. ASSUME UNCHANGED vars PROVE LaneKept
  BY <1>18 DEF vars, work, LaneKept
<1>19. ASSUME Close PROVE LaneKept
  BY <1>19, ChatTurnAssumption DEF Close, LaneKept, ThreadsOK, Job
<1>20. ASSUME HearLate PROVE LaneKept
  BY <1>20 DEF HearLate, LaneKept
<1> QED
  BY <1>1, <1>2, <1>3, <1>4, <1>5, <1>6, <1>7, <1>8, <1>9, <1>10, <1>11, <1>12,
     <1>13, <1>14, <1>15, <1>16, <1>17, <1>18,
     <1>19, <1>20 DEF Next, Step, PressReturn, ClickSend

-----------------------------------------------------------------------------
LEMMA NextInv == IInv /\ [Next]_vars => IInv'
<1> SUFFICES ASSUME IInv, [Next]_vars PROVE IInv'
  OBVIOUS
<1>1. /\ FlagsOK /\ ThreadsOK /\ BubbleOK /\ closing \in BOOLEAN
      /\ FollowupEncodes /\ EventHasJob /\ LaneRuns
  BY Parts DEF IInv
<1>2. FlagsOK' /\ ThreadsOK' /\ BubbleOK'
  BY <1>1, NextFlags, NextThreads, NextBubble
<1>3. closing' \in BOOLEAN
  BY <1>1 DEF Next, Close, HearLate, vars
<1>4. TypeOK'
  BY <1>2, <1>3 DEF TypeOK, FlagsOK, ThreadsOK, BubbleOK, JobState
<1>5. FollowupEncodes' /\ EventHasJob' /\ LaneRuns'
  BY <1>1, NextFollowup, NextEvent, NextLane
<1> QED
  BY <1>4, <1>5 DEF IInv

LEMMA AlwaysInv == Spec => []IInv
BY InitInv, NextInv, PTL DEF Spec

(* The window's state has its types, and the queue of replies its bound. *)
THEOREM TypesCorrect == Spec => []TypeOK
<1>1. IInv => TypeOK
  BY DEF IInv
<1> QED
  BY <1>1, AlwaysInv, PTL

(* Whenever cleanups are put off for a screenshot, an encoder is at work on it. *)
THEOREM FollowupsEncode == Spec => []FollowupEncodes
<1>1. IInv => FollowupEncodes
  BY DEF IInv
<1> QED
  BY <1>1, AlwaysInv, PTL

(* No handler leaves a proactive event behind that no job answers. *)
THEOREM EventsHaveJobs == Spec => []EventHasJob
<1>1. IInv => EventHasJob
  BY DEF IInv
<1> QED
  BY <1>1, AlwaysInv, PTL

(* worker_thread never names a thread that has ended. *)
THEOREM LanesRun == Spec => []LaneRuns
<1>1. IInv => LaneRuns
  BY DEF IInv
<1> QED
  BY <1>1, AlwaysInv, PTL

(* worker_thread is emptied by the end of the job it names and by no other. *)
THEOREM LanesKept == Spec => LaneKeptByItsJob
<1>1. IInv /\ [Next]_vars => LaneKept
  <2> SUFFICES ASSUME IInv, [Next]_vars PROVE LaneKept
    OBVIOUS
  <2>1. ThreadsOK
    BY Parts DEF IInv
  <2> QED
    BY <2>1, NextLaneKept
<1>2. IInv /\ [Next]_vars => [lane # 0 /\ lane' = 0 => jobs'[lane] = Free]_vars
  BY <1>1 DEF LaneKept
<1> QED
  BY <1>2, AlwaysInv, PTL DEF Spec, LaneKeptByItsJob
=============================================================================
