---------------------------- MODULE WeeklySummary ----------------------------
(***************************************************************************)
(* Weekly summaries: the snapshot of a week's tasks and its draft, the     *)
(* confirmed publication through the Git work tree of the summary          *)
(* repository, the archive rows that tell which version of a task a        *)
(* published summary holds, and the cleanup that deletes what they cover.  *)
(*                                                                         *)
(* A generator or a publisher is one call of SummaryService.generate or    *)
(* publish.  It works through its pc: each of its steps is one SQLite      *)
(* transaction, one file written or one git command, and it may fail       *)
(* before any of them.                                                     *)
(*                                                                         *)
(* An operator Bug_X stands before X and is X with a plausible defect; no  *)
(* specification uses it.                                                  *)
(***************************************************************************)
EXTENDS Integers, FiniteSets

CONSTANTS
    Tasks,         \* task ids
    Workers,       \* weekly_summary_worker processes
    Regenerators,  \* calls of the tool weekly_summary_regenerate
    Publishers,    \* confirmed calls of publish
    Dues,          \* due_at values
    WeekLength,    \* clock units of a week; the last one is Sunday from 20:00
    Retention,     \* clock units a task is kept after it ended
    MaxVersion,    \* BOUND: times a task is written
    MaxTime,       \* BOUND: last clock value
    NoFile         \* a file that does not exist

Nil == -1          \* SQL NULL
Time == 0..MaxTime
Week(t) == t \div WeekLength
Weeks == Nil..Week(MaxTime)     \* the first worker looks back at the week before the clock's first
Items == Tasks \X (1..MaxVersion)
Files == (SUBSET Items) \cup {NoFile}
Gens == Workers \cup Regenerators

ASSUME SummaryAssumption ==
    /\ Dues \subseteq Time
    /\ WeekLength \in Nat \ {0}
    /\ Retention \in Nat
    /\ MaxVersion \in Nat
    /\ MaxTime \in Nat
    /\ \A f \in SUBSET Items : NoFile # f

VARIABLES
    now,       \* the clock
    task,      \* tasks; version stands for updated_at and the content it belongs to
    events,    \* task_events: the weeks in which a task was written
    archive,   \* task_summary_archives
    run,       \* weekly_summary_runs, one row for each week
    snapshot,  \* <week>.json, the archive_items of the week's snapshot
    draft,     \* <week>.md, its list of archived tasks
    index,     \* the summary repository: index,
    head,      \* last local commit
    remote,    \* and the branch on the remote, as the files they hold
    gen,       \* generators
    pub        \* publishers

tables == <<task, events, archive, run>>
files == <<snapshot, draft>>
git == <<index, head, remote>>
vars == <<now, task, events, archive, run, snapshot, draft, index, head, remote, gen, pub>>

TaskStatus == {"absent", "pending", "completed", "cancelled", "deleted"}
RunStatus == {"absent", "generating", "awaiting_approval", "publishing", "published"}
GenPC == {"idle", "events", "rows", "insert", "snapshot", "draft", "finish", "refused"}
PubPC == {"idle", "approve", "clean", "add", "compare", "commit", "push", "verify", "read",
          "archive", "publish"}

ArchiveRow == [task : Tasks, week : Weeks, version : 1..MaxVersion]
Generator == [pc : GenPC, week : Weeks, todo : SUBSET Tasks, items : SUBSET Items]
Publisher == [pc : PubPC, week : Weeks, todo : SUBSET Items, held : SUBSET Items]

IdleGen == [pc |-> "idle", week |-> Nil, todo |-> {}, items |-> {}]
IdlePub == [pc |-> "idle", week |-> Nil, todo |-> {}, held |-> {}]
NoFiles == [w \in Weeks |-> NoFile]

TypeOK ==
    /\ now \in Time
    /\ task \in [Tasks -> [status : TaskStatus, version : 0..MaxVersion,
                           due : Dues \cup {Nil}, closed : Time \cup {Nil}]]
    /\ events \subseteq Tasks \X Weeks
    /\ archive \subseteq ArchiveRow
    /\ run \in [Weeks -> [status : RunStatus, sha : Files]]
    /\ snapshot \in [Weeks -> Files] /\ draft \in [Weeks -> Files]
    /\ index \in [Weeks -> Files] /\ head \in [Weeks -> Files] /\ remote \in [Weeks -> Files]
    /\ gen \in [Gens -> Generator]
    /\ pub \in [Publishers -> Publisher]

Init ==
    /\ now = 0
    /\ task = [t \in Tasks |-> [status |-> "absent", version |-> 0, due |-> Nil, closed |-> Nil]]
    /\ events = {}
    /\ archive = {}
    /\ run = [w \in Weeks |-> [status |-> "absent", sha |-> NoFile]]
    /\ snapshot = NoFiles /\ draft = NoFiles
    /\ index = NoFiles /\ head = NoFiles /\ remote = NoFiles
    /\ gen = [g \in Gens |-> IdleGen]
    /\ pub = [p \in Publishers |-> IdlePub]

Exists(t) == task[t].status \notin {"absent", "deleted"}
Current(x) == Exists(x[1]) /\ task[x[1]].version = x[2]

-----------------------------------------------------------------------------
(* Tasks.  TaskRepository.insert and update: the row, its event, and no archive row *)
(* of the version that was replaced.                                                *)

WriteTask(t, status, due, closed) ==
    /\ task[t].version < MaxVersion
    /\ task' = [task EXCEPT ![t] = [status |-> status, version |-> task[t].version + 1,
                                    due |-> due, closed |-> closed]]
    /\ events' = events \cup {<<t, Week(now)>>}
    /\ archive' = {a \in archive : a.task # t}
    /\ UNCHANGED <<now, run, files, git, gen, pub>>

CreateTask(t) ==
    /\ task[t].status = "absent"
    /\ \E due \in Dues \cup {Nil} : WriteTask(t, "pending", due, Nil)

UpdateTask(t) ==
    /\ Exists(t)
    /\ \E due \in Dues \cup {Nil} : WriteTask(t, task[t].status, due, task[t].closed)

CloseTask(t) ==
    /\ task[t].status = "pending"
    /\ \E status \in {"completed", "cancelled"} : WriteTask(t, status, task[t].due, now)

ReopenTask(t) ==
    /\ task[t].status \in {"completed", "cancelled"}
    /\ WriteTask(t, "pending", task[t].due, Nil)

\* task_updated_at of the archive row is not compared.
Bug_Cleanable(t) ==
    /\ \E a \in archive : a.task = t /\ run[a.week].status = "published"
    /\ \/ task[t].status \in {"completed", "cancelled"} /\ task[t].closed + Retention <= now
       \/ task[t].status = "pending" /\ task[t].due # Nil /\ task[t].due + Retention <= now

Cleanable(t) ==
    /\ \E a \in archive : /\ a.task = t
                          /\ a.version = task[t].version
                          /\ run[a.week].status = "published"
    /\ \/ task[t].status \in {"completed", "cancelled"} /\ task[t].closed + Retention <= now
       \/ task[t].status = "pending" /\ task[t].due # Nil /\ task[t].due + Retention <= now

\* One BEGIN IMMEDIATE transaction; rows that hang on a task are deleted with it.
Cleanup ==
    LET gone == {t \in Tasks : Cleanable(t)}
    IN /\ gone # {}
       /\ task' = [t \in Tasks |-> IF t \in gone THEN [task[t] EXCEPT !.status = "deleted"]
                                                 ELSE task[t]]
       /\ events' = {e \in events : e[1] \notin gone}
       /\ archive' = {a \in archive : a.task \notin gone}
       /\ UNCHANGED <<now, run, files, git, gen, pub>>

-----------------------------------------------------------------------------
(* Generation *)

\* The worker takes the week that ended last.
Target == IF now % WeekLength = WeekLength - 1 THEN Week(now) ELSE Week(now) - 1

Begin(g, w) ==
    /\ gen' = [gen EXCEPT ![g] = [IdleGen EXCEPT !.pc = "events", !.week = w]]
    /\ UNCHANGED <<now, tables, files, git, pub>>

\* It returns the run of that week, whatever its status, when there is one.
StartWorker(g) ==
    /\ gen[g].pc \in {"idle", "refused"}
    /\ IF run[Target].status = "absent" THEN Begin(g, Target) ELSE UNCHANGED vars

Bug_StartRegenerate(g) ==      \* the week after
    /\ gen[g].pc \in {"idle", "refused"}
    /\ Begin(g, Week(now) + 1)

StartRegenerate(g) ==
    /\ gen[g].pc \in {"idle", "refused"}
    /\ Begin(g, Week(now))

GenStep(g, pc, next) ==
    /\ gen[g].pc = pc
    /\ gen' = [gen EXCEPT ![g] = next]
    /\ UNCHANGED <<now, task, events, archive, git, pub>>

Read(g, pc, next) == GenStep(g, pc, next) /\ UNCHANGED <<run, files>>

ReadEvents(g) ==
    Read(g, "events", [gen[g] EXCEPT !.pc = "rows",
                                     !.todo = {t \in Tasks : <<t, gen[g].week>> \in events}])

\* TaskRepository.get reads on a connection of its own, for one task after the other.
ReadRow(g) ==
    \E t \in gen[g].todo :
        LET row == IF Exists(t) THEN {<<t, task[t].version>>} ELSE {}
        IN Read(g, "rows", [gen[g] EXCEPT !.todo = @ \ {t}, !.items = @ \cup row])

\* list_pending; what it returns takes the place of what was read before.
ReadPending(g) ==
    LET pending == {t \in Tasks : task[t].status = "pending"}
        rest == {x \in gen[g].items : x[1] \notin pending}
    IN /\ gen[g].todo = {}
       /\ Read(g, "rows", [gen[g] EXCEPT !.pc = "insert",
                                !.items = rest \cup {<<t, task[t].version>> : t \in pending}])

Bug_InsertRun(g) ==      \* no UNIQUE(iso_year, iso_week): the row is replaced
    /\ run' = [run EXCEPT ![gen[g].week] = [status |-> "generating", sha |-> NoFile]]
    /\ GenStep(g, "insert", [gen[g] EXCEPT !.pc = "snapshot"])
    /\ UNCHANGED files

InsertRun(g) ==
    LET free == run[gen[g].week].status = "absent"
    IN /\ run' = IF free THEN [run EXCEPT ![gen[g].week].status = "generating"] ELSE run
       /\ GenStep(g, "insert", [gen[g] EXCEPT !.pc = IF free THEN "snapshot" ELSE "refused"])
       /\ UNCHANGED files

WriteSnapshot(g) ==
    /\ snapshot' = [snapshot EXCEPT ![gen[g].week] = gen[g].items]
    /\ GenStep(g, "snapshot", [gen[g] EXCEPT !.pc = "draft"])
    /\ UNCHANGED <<run, draft>>

WriteDraft(g) ==
    /\ draft' = [draft EXCEPT ![gen[g].week] = gen[g].items]
    /\ GenStep(g, "draft", [gen[g] EXCEPT !.pc = "finish"])
    /\ UNCHANGED <<run, snapshot>>

FinishRun(g) ==
    /\ run' = [run EXCEPT ![gen[g].week] = [status |-> "awaiting_approval", sha |-> gen[g].items]]
    /\ GenStep(g, "finish", IdleGen)
    /\ UNCHANGED files

\* An exception that generate does not catch, or the end of the process.
FailGenerate(g) ==
    /\ gen[g].pc \notin {"idle", "refused"}
    /\ gen' = [gen EXCEPT ![g] = IdleGen]
    /\ UNCHANGED <<now, tables, files, git, pub>>

-----------------------------------------------------------------------------
(* Publication *)

PubStep(p, pc, next) ==
    /\ pub[p].pc = pc
    /\ pub' = [pub EXCEPT ![p] = next]
    /\ UNCHANGED <<now, task, events, files, gen>>

Check(p, pc, next) == PubStep(p, pc, next) /\ UNCHANGED <<archive, run, git>>
At(p, pc) == [pub[p] EXCEPT !.pc = pc]
Staged == {w \in Weeks : index[w] # head[w]}

\* The run is read and its status checked in a transaction of its own.
StartPublish(p) ==
    \E w \in Weeks :
        /\ run[w].status = "awaiting_approval"
        /\ Check(p, "idle", [IdlePub EXCEPT !.pc = "approve", !.week = w])

Bug_Approve(p) ==          \* the final status is written first
    /\ run' = [run EXCEPT ![pub[p].week].status = "published"]
    /\ PubStep(p, "approve", At(p, "clean"))
    /\ UNCHANGED <<archive, git>>

Bug_Approve_Later(p) ==    \* the status is written only when the push is verified
    PubStep(p, "approve", At(p, "clean")) /\ UNCHANGED <<archive, run, git>>

Approve(p) ==
    /\ run' = [run EXCEPT ![pub[p].week].status = "publishing"]
    /\ PubStep(p, "approve", At(p, "clean"))
    /\ UNCHANGED <<archive, git>>

\* git diff --cached --quiet
CheckIndex(p) == Check(p, "clean", IF Staged = {} THEN At(p, "add") ELSE IdlePub)

\* The draft is copied into the work tree, and git add.
Add(p) ==
    /\ index' = [index EXCEPT ![pub[p].week] = draft[pub[p].week]]
    /\ PubStep(p, "add", At(p, "compare"))
    /\ UNCHANGED <<archive, run, head, remote>>

\* git diff --cached --name-only must name the summary alone, else git reset.
Compare(p) ==
    LET alone == Staged = {pub[p].week}
    IN /\ index' = IF alone THEN index
                   ELSE [index EXCEPT ![pub[p].week] = head[pub[p].week]]
       /\ PubStep(p, "compare", IF alone THEN At(p, "commit") ELSE IdlePub)
       /\ UNCHANGED <<archive, run, head, remote>>

\* git commit takes the whole index, and fails when nothing is staged.
Commit(p) ==
    /\ head' = index
    /\ PubStep(p, "commit", IF Staged = {} THEN IdlePub ELSE At(p, "push"))
    /\ UNCHANGED <<archive, run, index, remote>>

Push(p) ==
    /\ remote' = head
    /\ PubStep(p, "push", At(p, "verify"))
    /\ UNCHANGED <<archive, run, index, head>>

\* git rev-parse HEAD against git ls-remote; then the snapshot is read back.
Verify(p) ==
    Check(p, "verify", IF remote = head
                       THEN [At(p, "read") EXCEPT !.todo = snapshot[pub[p].week]]
                       ELSE IdlePub)

\* _mark_archived_tasks.  Its transaction is deferred and tasks.get reads on another
\* connection, so nothing is locked until the first row is inserted: an item that is
\* out of date is passed over, and the first that is not is `held'.
PickFirst(p) ==
    \E x \in pub[p].todo :
        Check(p, "read", IF Current(x)
                         THEN [At(p, "archive") EXCEPT !.held = {x}, !.todo = @ \ {x}]
                         ELSE [pub[p] EXCEPT !.todo = @ \ {x}])

NothingToArchive(p) == pub[p].todo = {} /\ Check(p, "read", At(p, "publish"))

Bug_Matching(p) ==      \* the versions are not compared
    {<<x[1], task[x[1]].version>> : x \in {y \in pub[p].todo \cup pub[p].held : Exists(y[1])}}
Matching(p) == pub[p].held \cup {x \in pub[p].todo : Current(x)}

\* INSERT OR REPLACE of the held item, which takes the write lock, and of the others
\* that match from there on.  A held task that has been deleted breaks the foreign key.
Archive(p) ==
    LET rows == Matching(p)
        new == {[task |-> x[1], week |-> pub[p].week, version |-> x[2]] : x \in rows}
        kept == {a \in archive : \A x \in rows : x[1] # a.task}
        valid == \A x \in rows : Exists(x[1])
    IN /\ archive' = IF valid THEN kept \cup new ELSE archive
       /\ PubStep(p, "archive", IF valid THEN At(p, "publish") ELSE IdlePub)
       /\ UNCHANGED <<run, git>>

Publish(p) ==
    /\ run' = [run EXCEPT ![pub[p].week].status = "published"]
    /\ PubStep(p, "publish", IdlePub)
    /\ UNCHANGED <<archive, git>>

\* A PublicationError, another exception, or the end of the process.
FailPublish(p) ==
    /\ pub[p].pc # "idle"
    /\ pub' = [pub EXCEPT ![p] = IdlePub]
    /\ UNCHANGED <<now, tables, files, git, gen>>

-----------------------------------------------------------------------------
Tick ==
    /\ now < MaxTime
    /\ now' = now + 1
    /\ UNCHANGED <<tables, files, git, gen, pub>>

Next ==
    \/ Tick
    \/ Cleanup
    \/ \E t \in Tasks : CreateTask(t) \/ UpdateTask(t) \/ CloseTask(t) \/ ReopenTask(t)
    \/ \E g \in Workers : StartWorker(g)
    \/ \E g \in Regenerators : StartRegenerate(g)
    \/ \E g \in Gens :
          \/ ReadEvents(g) \/ ReadRow(g) \/ ReadPending(g) \/ InsertRun(g)
          \/ WriteSnapshot(g) \/ WriteDraft(g) \/ FinishRun(g) \/ FailGenerate(g)
    \/ \E p \in Publishers :
          \/ StartPublish(p) \/ Approve(p) \/ CheckIndex(p) \/ Add(p) \/ Compare(p)
          \/ Commit(p) \/ Push(p) \/ Verify(p) \/ PickFirst(p) \/ NothingToArchive(p)
          \/ Archive(p) \/ Publish(p) \/ FailPublish(p)

Spec == Init /\ [][Next]_vars

-----------------------------------------------------------------------------
(* Properties *)

\* The snapshot, the draft and the hash of a run past generation are those of one and
\* the same generation, though several generators may work on the same week
\* (SummaryService.generate, UNIQUE(iso_year, iso_week)).
FilesMatchRun ==
    \A w \in Weeks : run[w].status \in {"awaiting_approval", "publishing", "published"} =>
        snapshot[w] = run[w].sha /\ draft[w] = run[w].sha

\* A run that is published has its summary on the remote (SummaryService.publish,
\* GitPublisher.publish), whatever a second publisher does to the same work tree.  Of
\* three, one may commit another's week after the third took its own from the index.
PublishedIsRemote ==
    \A w \in Weeks : run[w].status = "published" => remote[w] = run[w].sha

\* Nothing is on the remote but drafts somebody confirmed, as they were confirmed,
\* though a commit takes the whole index (SummaryService.publish, GitPublisher.publish).
OnlyConfirmedIsRemote ==
    \A w \in Weeks : remote[w] # NoFile =>
        run[w].status \in {"publishing", "published"} /\ remote[w] = run[w].sha

\* The version of a task an archive row names is in the summary of the week it names,
\* on the remote, though tasks change while a summary is published
\* (SummaryService._mark_archived_tasks).
ArchivedIsPublished ==
    \A a \in archive : remote[a.week] # NoFile /\ <<a.task, a.version>> \in remote[a.week]

\* Cleanup never deletes a task whose last version is not in a published summary on the
\* remote (SummaryService.cleanup), even through an archive row of an older version.
CleanedWasPublished ==
    [][\A t \in Tasks : task[t].status # "deleted" /\ task'[t].status = "deleted" =>
          \E w \in Weeks : /\ run[w].status = "published"
                           /\ remote[w] # NoFile
                           /\ <<t, task[t].version>> \in remote[w]]_vars
=============================================================================
