# Sakura: models, checks and proofs

Sakura is a desktop character with a local task assistant. Tasks live in one
SQLite file, `tasks.sqlite3`. The character's process creates and changes them
and shows reminders in a bubble; a short-lived worker, started by the Windows
Task Scheduler every ten minutes, sends reminders by e-mail; another one drafts
a summary of the week on Sunday evening. A summary that the user confirms is
pushed to a private Git repository, and tasks that a published summary covers
may be deleted. These processes share nothing but the database, two directories
and a Git work tree. That sharing is the first subject of this directory.

The second is the window the character lives in. One UI thread takes turns
between the user, the agent's jobs, screenshots, proactive events, due reminders
and a phone, and shows each reply segment by segment while another thread
synthesizes its speech. There nearly everything that can go wrong is the order in
which handlers run.

## 1. Inventory

| Component | Code | State | Operations | Talks to |
|---|---|---|---|---|
| Tasks | `app/tasks/service.py`, `repository.py` | `tasks`, `task_events` | create, update, complete, cancel, reopen; each one `BEGIN IMMEDIATE` transaction | reminder tables, in the same transaction; archive rows, which an update deletes |
| Reminder scheduling | `app/tasks/scheduler.py`, `repository.py` | `reminder_rules`, `reminder_occurrences`, `notification_deliveries` | `claim_due`: generate, recover leases, expire, merge, claim; `mark_delivery_sent/failed` | executors, by claim token |
| Executors | `app/notifications/dispatcher.py`, `qq_mail.py`, `app/ui/task_reminder_bridge.py`, `app/workers/reminder_worker.py` | a batch of claimed deliveries, in memory | claim, send, write back | SMTP; the bubble |
| One-time reminders | `app/agent/task_tools.py` | a rule with its single occurrence | create, cancel | the same tables |
| Weekly summary | `app/summaries/*.py`, `app/workers/weekly_summary_worker.py` | `weekly_summary_runs`, `task_summary_archives`, `<week>.json`, `<week>.md` | generate, regenerate, publish, cleanup | tasks (reads, deletes), the publisher |
| Git publisher | `app/integrations/git_publisher.py` | index, local branch, remote branch | add, commit, push, verify | `git` |
| Database access | `app/tasks/database.py` | the database file and its log, write lock, barrier file, init lock file | connect, initialize, transaction, barrier | everything above |
| Backup | `app/tasks/backup.py` | backup directory, daily lock, `maintenance_state` | create, rotate, restore | database access |
| Legacy migration | `app/tasks/migration.py` | a row of `schema_migrations`, source copies | run | database access, tasks, reminders |
| Work query | `app/tasks/today_query.py` | none | query | tasks |
| Turn taking | `app/ui/pet_window.py` | the interaction, `worker_thread`, `active_event`, pending action and follow-up, the encoder's thread | send, confirm, look, speak of an event, remind, answer the phone, fail | agent jobs, by signals; the bubble; the desktop bridge |
| Qt workers | `app/core/resource_manager.py` | the owner's thread attributes | spawn, finalize | whoever owns a job |
| Bubble | `app/ui/subtitle_controller.py` | current segment, pending segments, queued replies, timers | show, type, advance, cancel | voice, turn taking |
| Voice | `app/voice/playback_controller.py`, `tts_synthesis.py`, `tts_playback.py`, `tts.py` | prepared handle; request queue, running request; play list, player | speak, prepare, discard, cancel, close; synthesize; play, finish | bubble, by callbacks; the synthesis thread, by signals; an external server |

What is hard, and which properties are about it:

* **Several processes work on one delivery.** Claims are leases; sending happens
  outside any transaction; a process can die between the answer of the mail
  server and its own bookkeeping, or outlive its lease, and the server may take a
  mail without the sender learning of it. A delivery must not go out twice but
  for these two reasons (`AtMostOnce`) and not without limit (`BoundedCopies`),
  no mail may be recorded as sent that was not (`SentWentOut`), only the present
  holder may write a result (`WrittenByHolder`), all of it together must look
  like an outbox whose notices are in one hand at most (`IsOutbox`), attempts are
  limited (`BoundedAttempts`), and a reminder must not be stuck (`DueIsResolved`).
* **Tasks change under reminders that are waiting or being sent.** What waits
  must be true of the task as it is now (`CurrentReminders`), history must not
  be rewritten (`FinalIsFinal`), and a delivery must not be left where no claim
  finds it (`NoOrphan`).
* **Two channels share an occurrence, and several checkpoints are merged into
  one reminder.** See `CompletedMeansSent`, `MergedIntoLater`,
  `OneReminderPerTask`, `NeverAfterGrace`.
* **A summary is a chain of transactions, files and git commands** that runs
  while tasks change, may fail anywhere, and is followed by deletion. Its two
  files and its row must belong together (`FilesMatchRun`), nothing unconfirmed
  may be on the remote (`OnlyConfirmedIsRemote`), and nothing may be deleted
  that no published summary holds (`ArchivedIsPublished`, `CleanedWasPublished`).

* **Connections, initialization, backups and restore share one file.** The
  operation barrier is tested but not kept by those who connect, lock files
  outlive the processes that made them, and a process may die between two
  renames. From outside it must look as if nothing mixed (`IsVault`; when two
  things go wrong, `IsVaultButForLog`), a backup
  that is returned must be there (`ReturnedBackupExists`), rotation must not take
  the last one (`LastSnapshotStays`), and nobody may wait for ever
  (`EveryCallReturns`).
* **An agent job answers first and ends later**, and between the two a screenshot
  may be encoded for its successor. The flags that lock everybody else out must
  have somebody who will clear them (`FollowupEncodes`, `EventHasJob`,
  `LaneRuns`, `LaneKeptByItsJob`), and the waiting dots must end
  (`WaitingEnds`).
* **Speech is made ahead and arrives late.** The voice must not run ahead of the
  bubble or lag behind it (`VoiceIsCurrent`), no audio file may be forgotten
  (`NoAudioLeaks`), and a reply must go on whatever happens to its speech
  (`ReplyGoesOn`).

`PROJECT.json` lists every hazard at its line with the properties that are about
it, and for those without a property why there is none yet.

## 2. Modules

| Module | What it is |
|---|---|
| `ReminderStore` | the reminder tables and every SQL statement on them, as operators from tables to tables |
| `TaskReminders` | the state machine of tasks, one-time and weekly rules and executors; its transactions compose the operators of `ReminderStore`; its properties |
| `Outbox` | the abstract specification of delivery: notices, who holds them, what went out and what is decided of it; that `TaskReminders` implements it is `IsOutbox` |
| `MCTaskReminders` | constants and symmetry for TLC |
| `TaskReminders_proofs` | type correctness, proved |
| `TaskReminders_once` | final rows stay, no double sending, the refinement of `Outbox`, results by the holder alone, grace and the limit of attempts, proved |
| `TaskReminders_current` | what waits to be sent is current and within reach, merging, and what completed means, proved |
| `WeeklySummary` | the state machine of generation, publication, archive rows and cleanup; its properties |
| `MCWeeklySummary` | symmetry for TLC |
| `WeeklySummary_proofs` | type correctness, one generation per week, and what may be on the remote, proved |
| `WeeklySummary_published` | what is published, archived and deleted, proved for one or two publishers |
| `TaskVault` | the abstract specification of the storage: one present database, snapshots, and what may take its place |
| `TaskStorage` | the state machine of connections, transactions, initialization, import, backups, rotation and restore; that it implements `TaskVault`, and its other properties |
| `MCTaskStorage` | the module TLC runs |
| `TaskStorage_proofs` | type correctness, the refinement, and the two properties of backups, proved |
| `ChatTurn` | the state machine of the pet window's turn taking; its properties |
| `ChatTurn_proofs` | its invariants and `LaneKeptByItsJob`, proved |
| `ReplySpeech` | the state machine of bubble, voice, synthesis thread and player; its properties |
| `ReplySpeech_proofs` | its types, whose turn the voice has, and who answers for an audio file, proved |

`TaskReminders` and `WeeklySummary` take a transaction as one step; `TaskStorage`
shows what that step is made of, and that a restore or an initialization does not
come between. `ChatTurn` shows `TaskReminders` what a bubble is: `ShowReminder`
is the `Send` of the desktop executor. `ReplySpeech` is what `ChatTurn`
abbreviates to `SpeechStarts` and `SpeechEnds`.

Operators named `Bug_X` are X with a plausible defect. Nothing refers to them.
Put in the place of X they show that a property can fail.

### How the models read the code

**`TaskReminders`.** Every action but `Send`, `Crash` and `Tick` is one
immediate transaction, which SQLite serialises; so interleaving happens between
transactions and around sending, as it does in the program.

* `task`, `occ`, `dlv` and `enabled` are the tables. A row that is not there has
  status `absent`. Rules and occurrences are named by what makes them unique
  (task, generation and offset; day; one-time name), not by uuid. `gen` counts
  how often a task was given default rules, which is what the uuids distinguish.
* `CreateTask`, `UpdateDue`, `CompleteTask`, `CancelTask`, `ReopenTask` are the
  operations of `TaskService`. All that may change when or whether a task is due
  first withdraw (`CancelTaskOccs`, `CancelDlvs`), then disable the rules, then,
  for a pending task that is due in the future, create two rules and an
  occurrence for each checkpoint ahead (`WriteTask`). Titles and priorities do
  not matter to delivery, so an update of those is a stuttering step.
* `ClaimDue(e)` is all of `claim_due`, in the order of its calls. `Earliest`
  lets the result be any of the sets that `ORDER BY scheduled_at LIMIT n` can
  return.
* `Send(e)` is the SMTP call or the bubble; its result is ok, a temporary or a
  permanent failure. What went out and what is reported are two things: `QQMailer`
  makes a temporary failure of every `SMTPException` and `OSError`, also of one that
  comes after the server took the mail (its answer to DATA is lost, QUIT is not
  answered with 221; `qq_mail.py:62-76`), and the window may raise after it queued
  the bubble. For the window, going out means that the bubble has the text: it may
  still drop it (`reminder_unshown`). `Mark(e)` writes the result under the claim token. The token is the
  attempt number, which is as unique on a row as the uuid.
* `Crash(e)` loses a batch. `Tick` advances the clock and ends an executor that
  has worked `RunLimit` since its claim, the execution limit PT5M in
  `app/platforms/reminder_task.py`.
* `Box` is `Outbox` with the rows' statuses for the fate of a notice (`pending` and
  `sending` are both open), the batches of the executors for what is in hand, and
  `sends` and `lost` for its accounts. Leases, tokens, attempts and the clock are
  what the outbox does not have.
* `sends` and `lost` are history: how often a delivery really went out, and how
  often no sender could record that it did, because it died before writing the
  result or was told of a failure.

**`WeeklySummary`.** A call of `generate` or `publish` works through a `pc`. Each
step is one transaction, one file written atomically or one git command; between
any two of them others may run and the call may fail (`FailGenerate`,
`FailPublish`: an exception that is not caught, or the end of the process; the
code reacts to neither, so they are one action).

* A task's `version` stands for `updated_at`, which every write changes, and
  for the content of the row. A snapshot, a draft and a file in Git are the set
  of (task, version) pairs listed in them; `NoFile` is no file.
* `events` is the set of weeks in which a task was written, which is all that
  the query by time range tells a generator.
* A generator reads the events, then each task on its own, then the pending
  tasks (`ReadEvents`, `ReadRow`, `ReadPending`), and inserts its run, which the
  unique index on the week may refuse.
* The worker takes the week that has ended last and does nothing when it has a
  run; `weekly_summary_regenerate` takes the current week and does not look.
* `Commit` commits the whole index, as `git commit` does. `Compare` may take the
  file out of the index again.
* `PickFirst` and `Archive` split `_mark_archived_tasks` where its lock begins:
  the transaction is deferred and tasks are read on other connections, so the
  write lock is held only from the first insert on.
* Nothing in `app/` calls `cleanup`, and `create_task_storage_services` builds
  the service without a publisher; tests call both. The model is of the service
  as written, with a publisher and somebody who calls `cleanup`.

**`TaskStorage`.** A process is idle or in one call; its `pc` names the next
statement that others can see.

* `Vault` is `TaskVault` with `present`, `held`, `used` and `taken` for its
  variables; the locks, the log, the backups and the steps of the calls are what
  the abstract vault does not have.
* A database file is a number, `present` the one at the database's path, `held`
  what each holds with its log included, and `log` the rows that only the log has,
  because the log is found by the path and not by the file. `taken` is history:
  what `source.backup` copied.
* A transaction is `Begin` (the write lock) and `Commit`; what it writes is one
  new row. `archive` is the transaction of `_mark_archived_tasks`, which opens a
  connection while it holds the write lock (`NestedConnect`). `check` and
  `import` are the legacy migration. `Leave` is what the `with` blocks do on
  every way out: rollback, close, unlock, unlink.
* `PassBarrier` and `Open` are two steps, since `connect` tests the barrier and
  lets it go. `Acquire` keeps it; a thread passes its own barrier.
* `LookUp` may find the lock file of a dead process (`left`) old enough to be
  removed or not; the ten minutes are a choice. All backups are made on one day.
* `Copy` reserves the final name with an empty file, as the code does;
  `Rotated` is the loop of `_prune_valid_backups` as a choice of the longest
  suffix it stops at. The user restores any backup.
* `GiveUp` is the end of any wait after five seconds. `Crash` is the end of a
  process: the kernel frees its SQLite and operation locks, its lock files stay.
  `FailInit`, `FailPublish`, `FailRestore` are the error paths that undo;
  `FailUndo` is a restore whose undoing fails as well (`RestoreRollbackError`) and
  takes two failures. `MaxTrouble` counts deaths and failures.
* `CanRenameOpen` says whether the platform renames a file that somebody has open.
  The program is written for Windows, where it does not.

**`ChatTurn`.** A handler of the UI thread is an action. A job tells its result
(`Hear...`) and ends later (`EndJob`), and both are signals in the UI thread's
queue; so is the encoder's result and its end.

* `lane` is `worker_thread`: the job the window knows of. A job that was replaced
  there still runs. `turn` is the interaction, `busy` the disabled buttons.
* A reply is the kind of its origin and counts as one segment. The wording,
  history, portraits and the stages that are logged are left out.
* A modal error box is open between `HearError` and `CloseDialog`, and the other
  handlers run meanwhile.
* The follow-up of an event does not occur, because an event that may look
  carries its screenshots already. `submit_mobile_chat` tests twice; the first
  test only refuses earlier. `_handle_event_error` would answer the error of a due
  reminder with a reply, but due reminders no longer come as events.
* `Close` is `close_external_tools`: threads are cancelled and waited for in that one
  handler, after which the event loop ends. `HearLate` is what the loop may still
  deliver, the cancellation of an encoder among it: every handler then returns
  early. A window that closes may stop anywhere, so `chat_turn` does not check for
  deadlock, and `FollowupEncodes` and `EventHasJob` speak of an open window.

**`ReplySpeech`.** The UI thread's objects are one record and a handler is a
function of it, because handlers call back into the controllers while they run
(`speak_segment` may run both callbacks before it returns). The synthesis thread
takes four steps for a request, with the last look at `request.cancelled` and
the signal in one of them; its signals queue in `events`.

* A segment is a number in the order shown, so a token or a sequence id that the
  code compares is the segment it was made for.
* An audio that cannot be played ends at once (`AudioEnds`); whether it begins
  or ends at all is up to the device, and the fallback timer is up to the clock.
* Whether an interaction is to be completed belongs to `ChatTurn`; here it is
  any Boolean. After a provider was replaced, speech is off: its successor
  starts with empty queues.
* A file counts until its deletion is scheduled, not until it is gone. `stray` are
  the files whose path nobody has: `EngineRaises` leaves one when the temporary
  file of the GPT-SoVITS engine cannot be written or closed
  (`tts_synthesis.py:268-275`). The Genie engine deletes what it could not write.

## 3. What TLC checks

All runs but `chat_turn`, where the window may close, check for deadlock. Passing runs:

| Run | Module | Properties | What it exercises |
|---|---|---|---|
| `task_lifecycle` | `MCTaskReminders` | `TypeOK`, `CurrentReminders`, `NoOrphan`, `FinalIsFinal` | one task, two due dates, two generations of rules, a worker that may crash, one retry |
| `deadline_channels` | `MCTaskReminders` | `CompletedMeansSent`, `OneReminderPerTask`, `MergedIntoLater` | two checkpoints on two channels, worker and window |
| `executors` | `MCTaskReminders` | `AtMostOnce`, `SentWentOut`, `IsOutbox` | two workers, batches of two, a retry, crashes, `RunLimit = Lease` |
| `weekly_holders` | `MCTaskReminders` | `NeverAfterGrace`, `WrittenByHolder`, `DueIsResolved` | the weekly rule on two days, two workers that outlive their leases, a retry, a crash, a recovered lease, a grace period that ends while a worker is sending |
| `reminders_live` | `MCTaskReminders` | `BoundedAttempts`, `BoundedCopies`, `DueIsResolved` | attempts, copies and liveness of a task's reminders, with a crash, a retry and merging |
| `summary_publish` | `MCWeeklySummary` | `TypeOK`, `FilesMatchRun`, `PublishedIsRemote`, `OnlyConfirmedIsRemote` | two generators and two publishers, on one week or on two, failing anywhere |
| `summary_cleanup` | `MCWeeklySummary` | `ArchivedIsPublished`, `CleanedWasPublished` | two tasks that change, close and reopen during generation, two publications and cleanup |
| `task_storage` | `MCTaskStorage` | `TypeOK`, `ReturnedBackupExists`, `IsVaultButForLog`, `LastSnapshotStays`, `EveryCallReturns` | two processes in any two calls, two deaths or failures at any steps (a restore that dies twice, or whose undoing fails too), files that cannot be renamed while they are open |
| `chat_turn` | `ChatTurn` | `TypeOK`, `FollowupEncodes`, `EventHasJob`, `LaneRuns`, `LaneKeptByItsJob`, `WaitingEnds` | two jobs and the encoder, a queued reply, everything the user, timers and the phone can do, the window closed at any step |
| `reply_speech` | `ReplySpeech` | `TypeOK`, `VoiceIsCurrent`, `NoAudioLeaks`, `ReplyGoesOn` | three segments in one to three replies, interruptions, failing and skipped synthesis, a closed provider, a device that stalls |

### Disagreements

Each of these runs checks one statement of the repository, which TLC refutes.
`PROJECT.json` quotes the statement.

| Run | Property | What happens |
|---|---|---|
| `reminder_unshown` | `QueuedReminderIsShown` | A due reminder that finds a reply in the bubble is queued and confirmed as sent at once; the next message clears the queue. The code says `never report an unshown bubble as sent`. |
| `speech_outlives` | `InterruptionSilences` | The synthesis thread has handed its audio to the UI thread's event queue when the reply is cancelled; the slot tests only whether the provider is closed, and the audio is spoken after the cancellation. |

Other divergences and surprises came to light while modelling and have no run:

* A worker without the scheduled task's execution limit can outlive its lease,
  and the next one sends what it is still sending. `AtMostOnce` is checked, and
  proved, with `RunLimit <= Lease`: the registration of the task keeps it, not
  the code.
* A mail that the server took, but whose acceptance the sender did not learn of, is
  sent again at the retry, and nothing in the mail tells the two apart. The design
  grants the window between SMTP's answer and the record and asks for a stable
  notification id (`docs/superpowers/specs/2026-07-25-task-reminder-work-query-design.md:624`),
  which the mail does not carry; the roadmap wants no reminder repeated that went
  out (`docs/plans/2026-07-23-sakura-personal-assistant-roadmap.md:56`). `AtMostOnce`
  says that this and a dead sender are the only causes, `BoundedCopies` how many
  copies there can be.
* Setting a due date again, or completing and reopening a task, announces
  checkpoints that were already announced.
* A weekly delivery that is recovered after its occurrence expired is pending for
  ever and never claimed (`repository.py:683`). `DueIsResolved` excepts exactly the
  state it comes from, sending under a skipped occurrence, which `weekly_holders`
  reaches; without the exception that run fails.
* A generation that fails leaves its run `generating` (`summaries/service.py:47`):
  no retry, no regeneration and no publication of that week.
* With three publishers at once, one may commit another's file instead of its own
  and be published all the same (`git_publisher.py:41`). `summary_publish` shows
  that two do no harm, on one week or on two, and section 5 proves it.
* An occurrence with a channel that failed for good, and none merged away, stays
  `pending` and is counted as still to be sent (`_settle_terminal_occurrence`,
  `repository.py:1200`; the docstring is at `repository.py:602`).
* A publisher that checked the status early sets a published run back to
  `publishing` (`summaries/service.py:76`), which stops the cleanup of its tasks.
* Regenerating a week that has a run is always refused by the unique index
  (`summaries/service.py:130`), where the design has it replace the draft.
* The first task archived may change between the comparison of its version and
  the insertion of its row (`summaries/service.py:138`). Cleanup compares again,
  so nothing is lost: that is what `CleanedWasPublished` checks.
* A backup whose process dies between reserving its name and publishing it
  (`backup.py:263`) leaves an empty file. SQLite opens that as a sound database,
  so it is listed as valid and may be restored.
* A process that dies with the initialization lock (`database.py:358`) makes every
  later initialization fail after five seconds; the daily lock is reclaimed, this
  one is not. After a death in the middle of a restore, the next initialization
  makes an empty database.
* With two deaths or failures the log can be separated from its database: a
  process dies and leaves a log, and a restore dies after it moved the database
  and before it moved the log; or the undoing of a failed restore fails too and
  moves only one of them back. Then `IsVault` fails; it holds for one. What is
  left is `IsVaultButForLog`: the rows of that log are all that can be lost.
* When writing or closing the temporary file of an audio fails
  (`tts_synthesis.py:268`), its path is lost with the exception and the file stays
  while the program runs on; the start-up purge takes such files for those of a crash
  or a forced exit (`tts.py:76`). `NoAudioLeaks` excepts that file and no other.
* While a screenshot for a follow-up is encoded, `worker_thread` is empty and
  Return sends (`pet_window.py:2901`; the buttons are disabled). The window then
  has two agent jobs, where `pet_window.py:4627` speaks of a single lane.
* A reminder that comes up clears an action that waits for consent
  (`_consume_agent_result`, `pet_window.py:3737`).
* Switching the character while a reply is spoken leaves the interaction open,
  which keeps the screen observation away until the next message.

### Bounds, and why they are enough

* `MaxTime` ends the clock. It is chosen so that a reminder falls due, is
  claimed, its lease expires, and it is claimed again (`executors`,
  `weekly_holders`), or its retry passes (`reminders_live`); in
  `summary_publish`, so that there are two weeks. Only the order of instants
  matters, so leases, retry delays, grace and retention are one or two units.
  In `summary_cleanup` the clock stands still and `Retention` is 0: every task
  that ended may be deleted at once, which allows more than any retention does.
* `MaxGen` bounds how often a task gets default rules: two generations are
  enough for an old rule to meet a new one. `MaxCrashes` bounds executors that
  die: in `executors` two, so that both workers may leave a batch behind. `MaxVersion` bounds the writes
  of a task: two for a snapshot to be out of date, three to close and reopen.
* One task suffices for deadline reminders, because no statement relates two
  tasks but `LIMIT`; `executors` therefore uses two one-time reminders for a
  batch. `weekly_holders` has two days, so that a reminder of one expires while the
  next is due. Cleanup is checked with two tasks, since the first archived one is
  special.
* In `task_storage` two processes meet in every pair of calls. Each of the
  hazards is about two: who waits for whom, who moves what another has open. One
  row suffices to tell a database from its past, two files are one restore or one
  initialization, two backups are one more than rotation leaves. `MaxMade` counts
  the backup that is there at the start: 2 is one backup begun. So that a backup
  finds the one of today, or rotates over the empty file of another, is left to
  `ReturnedIsThere` and `SnapshotStays`, which hold for any number of backups.
  `MaxTrouble` is two: `FailUndo` takes two, and one failure shows nothing that
  two do not. The proofs allow any number.
* In `chat_turn` two jobs are enough for one to take the other's place, and one
  queued reply for a reminder to wait. `MaxJobs` is a bound on jobs that run at
  the same time, not on all.
* In `reply_speech` three segments give one that is over, one that is spoken and
  one that is prepared, and a queued reply next to two of them. `Guards` lets the
  language guard keep the middle one silent.
* Symmetry is used for executors, one-time reminders, tasks and publishers, and only in
  runs without liveness properties.

### Fairness

`FairSpec` assumes that the clock advances and that each executor that can claim,
send or write back eventually does: the worker is started every ten minutes and
the window polls every 30 s, SMTP has a time-out, and the bubble returns. It
assumes nothing of crashes, which `MaxCrashes` bounds, and nothing of the user.
`DueIsResolved` speaks only of channels that have an executor: with e-mail
disabled nobody claims that channel and its rows stay pending for ever; and it
excepts the weekly delivery of section 3. The
summary has no liveness property: a run that fails stays where it is.

`TaskStorage` assumes of each process that it goes on while it can, time-outs
included: every wait of the code has a deadline. It does not assume that a lock
is ever obtained. Calls are bounded, not repeated for ever, so
`EveryCallReturns` says that no set of calls keeps each other waiting.

`ChatTurn` assumes, while the window is open, what Qt and the workers' `finally`
blocks give: a job signals
a result and its thread ends, the encoder answers, a zero timer fires, a box that
is shown is closed some day, a reply in the bubble starts. `WaitingEnds` excepts a
user who sends for ever and an agent that asks to look for ever: nothing in the
code limits the latter.

`ReplySpeech` assumes that timers fire, signals are handled and the synthesis
thread goes on (its requests have time-outs). It assumes nothing of the audio
device: `ReplyGoesOn` rests on the fallback timers. A user who restarts the text
again and again is excepted.

## 4. What is only model-checked

Liveness, which TLAPS does not treat under fairness: `DueIsResolved`,
`EveryCallReturns`, `WaitingEnds`, `ReplyGoesOn`. Every invariant and every action
property of the passing runs has a theorem, `IsVault` in the form that holds for any
number of failures (`IsVaultButForLog`); the lemma `VaultKept` has `IsVault` itself for
one. That a publication goes right with two publishers is proved; that three break
it was found by TLC with three.

## 5. What is proved

For all values of the constants that satisfy `StoreAssumption` and
`ExecAssumption`, i.e. any number of tasks, executors, offsets and any batch
size, lease and retry policy:

* **`TypeCorrect`** (`TaskReminders_proofs`): `Spec => []TypeOK`.
* **`FinalRowsStay`** (`TaskReminders_once`): `Spec => FinalIsFinal`. Each table
  operator keeps final rows (`StagesKeep`, `WithdrawInsertKeeps`, ...), and a
  claimed or marked row is not final.
* **`SentAtMostOnce`** (`TaskReminders_once`): if `RunLimit <= Lease`, then
  `Spec => []AtMostOnce`: a notice goes out once more than it did without a sender
  that learned of it and lived to record it (`lost`: the sender died, or the server
  took the mail and the answer was lost). `AtMostOnce` is not inductive: it says
  nothing about who may send next. `OnceInv` adds that a claim in an executor's hands
  is the row's present claim or the row has left it (`ClaimsCurrent`, which needs
  `RunLimit <= Lease`: a lease cannot be recovered under a living executor), that no
  two executors hold the same delivery (`ClaimsDisjoint`), and that every send
  is accounted for by the row being `sent`, by `lost`, or by a result in some
  executor's hands (`SendsAccounted`).
* **`RemindersAreOutbox`** (`TaskReminders_once`): if `RunLimit <= Lease`, then
  `Spec => IsOutbox`, the refinement of `Outbox`, one lemma for each kind of step:
  what the tables do on their own and all of `claim_due` is `Arrange`, `Send` is `GoOut`
  whatever it reports, `Mark` is `Record`, and the end of executors is `Die`. By
  `OnceInv` nobody else holds what is taken, and who writes a result finds its row as
  it claimed it or withdrawn.
* **`SentIsAccounted`** (`TaskReminders_once`): under the same condition
  `Spec => []SentWentOut`, for e-mail. The outbox by itself keeps `BoxInv`
  (`OutboxAccounts`): a notice has gone out as often as nobody could record it, and
  once more if its sender was told so and has yet to record it, or has recorded it.
* **`CopiesBounded`** (`TaskReminders_once`): under the same condition
  `Spec => []BoundedCopies`. `CopiesInv` says that a delivery went out no more often
  than it was claimed, and that a claim which was not tried yet is one attempt more;
  `AttemptsBounded` bounds the attempts.
* **`RemindersAreCurrent`** and **`NothingOutOfReach`** (`TaskReminders_current`):
  `Spec => []CurrentReminders` and `Spec => []NoOrphan`. The two are proved from
  one invariant, `CurrentInv`: deliveries exist only for occurrences that do,
  an active delivery has a pending occurrence (`Paired`), and an enabled rule
  is of the task's present due date (`RulesCurrent`). The proof has
  one lemma for each stage of `claim_due` and one for each operation on a task.
* **`ResultsAreHolders`** and **`WeeklyInGrace`** (`TaskReminders_once`):
  `Spec => WrittenByHolder` and `Spec => NeverAfterGrace`. Every statement but
  the claim and the two results only lowers a row (`Lowered`: it waits or is
  skipped, with no attempt more), so the first is about `Mark` and the second
  about the order of expiry and claim within `claim_due`.
* **`AttemptsBounded`** (`TaskReminders_once`): if `RunLimit <= Lease`, then
  `Spec => []BoundedAttempts`. `AttemptsInv` tells rows that someone holds from
  rows whose holder died: the latter have used an attempt that `crashes`
  accounts for, and by `OnceInv` only they can be recovered. A retry is granted
  on the claim's token, which equals the row's attempts as long as it is sent.
* **`OneReminder`** and **`MergeKeepsLater`** (`TaskReminders_current`):
  `Spec => []OneReminderPerTask` and `Spec => MergedIntoLater`. Two checkpoints
  that both survive the merge are due at one instant, so have one offset, and
  by `LatestRules` (enabled rules are of the last generation) are one rule. The
  latest of the due checkpoints exists by well-foundedness, whatever their number.
* **`CompletedWasSent`** (`TaskReminders_current`): `Spec => []CompletedMeansSent`.
  What could break it is a channel inserted after the occurrence settled;
  `Paired`, and its counterpart for the weekly rule (`WeeklyPaired`), leave
  nothing to insert.

For all values that satisfy `SummaryAssumption`, i.e. any number of tasks,
generators, publishers and weeks:

* **`SummaryTypeCorrect`** and **`OneGeneration`** (`WeeklySummary_proofs`):
  `Spec => []TypeOK` and `Spec => []FilesMatchRun`, from one invariant, since a
  publisher's items have their type only when the snapshot it reads is there.
  `DraftInv` adds that a generator past `InsertRun` has its week's row in
  `generating` (`RunOwned`) and the week to itself (`OneWriter`), that the files
  it wrote hold its items (`FilesWritten`), and that publishers work on finished
  runs (`PublisherReady`).
* **`RemoteIsConfirmed`** (`WeeklySummary_proofs`): `Spec => []OnlyConfirmedIsRemote`
  for any number of publishers. `RepoInv` says it of the index and the local head
  too, which is what makes a commit of the whole index harmless; the lemma
  `SteadyNext` shows that a confirmed run stays so with its hash.
* **`PublishedOnRemote`**, **`ArchivedOnRemote`**, **`DeletedOnlyPublished`**
  (`WeeklySummary_published`): for one or two publishers (`AtMostTwo`), on one week or
  on several, `[]PublishedIsRemote`, `[]ArchivedIsPublished` and
  `CleanedWasPublished`. `PublishInv` follows a file from the index to the
  remote (`StagedFor`) and adds that nothing pushed is missing locally (`Kept`). When
  two publishers passed the check of the status for one week, each may commit what
  the other staged; `Paired` says that nothing but that week's file is staged while
  both are at the index, so whichever commits, commits it. Of three, the third may
  stage another week's file in between, and the first theorem is false.

For all values that satisfy `StorageAssumption`, i.e. any number of processes,
files, rows and backups, any limits of rotation and, where nothing else is said,
any number of deaths on either kind of platform (`TaskStorage_proofs`):

* **`TypesCorrect`**: `Spec => []TypeOK`. The types alone are not inductive:
  `DoingInv` says which operation goes with which step and that whoever works
  behind the barrier has it; `RoomInv` that a call finds the room it was let in
  with.
* **`StorageIsVault`**: if `~CanRenameOpen`, then `Spec => IsVaultButForLog`, the
  refinement of `TaskVault`, for any number of failures; where `MaxTrouble <= 1` it is
  `IsVault` itself (the lemma `VaultKept`). `VaultInv` adds that every
  connection is on the present file (`AttachedInv`, the heart of the argument: a
  file that is open is not moved away), that a file is blank before it is used
  (`FilesInv`), that whatever is in a backup, or on its way in or out, is a
  snapshot (`DataInv`), and that a log has its database as long as at most one thing
  went wrong (`LogInv`; later, `LogLost` is what may become of it). On a platform that renames open files `AttachedInv` is
  false, and so is the refinement: a transaction that began before a restore
  writes to the database that was put aside.
* **`ReturnedIsThere`** and **`SnapshotStays`**: `Spec => []ReturnedBackupExists` and
  `Spec => LastSnapshotStays`. `BackupInv` adds that there is always a snapshot
  among the backups, that the one in the making is the newest and leaves another
  behind it (`KeptInv`), that names grow (`OrderInv`), and that the backup a
  database records for today is a snapshot as long as it is there (`TodayInv`).

For all values that satisfy `ChatTurnAssumption`, i.e. any number of jobs and of
queued replies (`ChatTurn_proofs`):

* **`TypesCorrect`**, **`FollowupsEncode`**, **`EventsHaveJobs`**, **`LanesRun`**: the
  conjunction of the four is inductive (`IInv`); closing the window leaves the state
  typed and the lane as it is, and ends what the second and third are about.
* **`LanesKept`**: `Spec => LaneKeptByItsJob`, from `LaneRuns`.

For all values that satisfy `ReplySpeechAssumption`, i.e. any number of segments
in any number of replies, and any guard (`ReplySpeech_proofs`):

* **`TypesCorrect`**, **`VoiceOnTurn`**, **`AudioAccounted`**: `Spec => []TypeOK`,
  `Spec => []VoiceIsCurrent` and `Spec => []NoAudioLeaks` (every file but those
  of `stray`), from one invariant `IInv`. `VoiceIsCurrent` speaks of what plays now and says nothing of what is
  on its way to the player; and a result that was signalled twice would be spoken
  again when its turn is over. So `IInv` adds
  - that a segment's speech is at one place only, of queue, thread, signals,
    handle, play list and player (`Places`), and has one result, of the kind that
    was asked for (`Results`);
  - that the segments that wait for their turn are different ones (`Order`) and
    nothing was asked for them (`Fresh`), except for the next one, by the handle
    (`HandleNext`, `NextFresh`);
  - that a handle that is not cancelled is the one the controller holds until it
    is asked to be played (`Handles`);
  - and, the heart of the argument, that whatever is going to be spoken (`Bound`)
    is the segment in the bubble, which waits for its end, or is stale (`Turn`).

  Handlers are functions of the UI thread's record that call each other, so the
  invariant is stated of any record and any queue of signals, and each function
  has lemmas that say what it keeps. The next segment cannot be shown while a
  bound one is not stale, because `ttsDone` is set only when its work is over.

Every inductive invariant was first checked by TLC on the small instances.

`AtMostOnce` without `RunLimit <= Lease` is false (section 3), so the assumption
is needed. It holds for the registered scheduled task, whose limit and whose
lease are both five minutes.

## 6. What is not modelled

* The work query, and the count of merged reminders: planned, section 7.
* The content of the schema migrations, the copying and parsing of the old JSON
  files, the prose of summaries and messages, tool parameters, settings,
  credentials.
* What the agent computes, its memory and its MCP tools: `ChatTurn` takes their
  outcomes. Animation, layout, dialogs, plugins, renderers and vendored code keep
  no state that the modelled parts read.
* What the shutdown of the window does in other modules, beyond `Close` and
  `HearLate`; the server that synthesizes speech and its
  supervisor, and providers that speak otherwise than `tts_synthesis.py` does.
* Time is a counter that does not advance within a transaction. The code reads
  the clock before it waits for the write lock, so a stamp can be up to five
  seconds older than its commit; the models do not see this. Names of backups
  carry the time, and `TaskStorage` assumes that they grow.

Most lines of the repository are of these kinds: widgets, settings, a vendored
UI-automation library, prompt text. The models cover the parts whose correctness
depends on order, failure and concurrency.

## 7. Plan

1. Cleanup's deletion composed with `TaskReminders`: a delivery whose task is
   deleted while it is sent.
2. The work query and the merged count as operators against reference
   definitions.
3. The supervisor of the speech server, and what closing the window does to the
   jobs and the speech that are still running.
