------------------------- MODULE WeeklySummary_proofs -------------------------
(***************************************************************************)
(* Proofs about WeeklySummary, for any tasks, generators, publishers and   *)
(* bounds.                                                                 *)
(***************************************************************************)
EXTENDS WeeklySummary, TLAPS

\* A task that was ever written has a version.
Versioned == \A t \in Tasks : task[t].status # "absent" => task[t].version # 0
TypeInv == TypeOK /\ Versioned

Done == {"awaiting_approval", "publishing", "published"}
Writing == {"snapshot", "draft", "finish"}

\* A generator past InsertRun has the row of its week to itself, and the files it has
\* written hold its items.
RunOwned ==
    \A g \in Gens : gen[g].pc \in Writing => run[gen[g].week].status = "generating"
OneWriter ==
    \A g, h \in Gens :
        gen[g].pc \in Writing /\ gen[h].pc \in Writing /\ gen[g].week = gen[h].week => g = h
FilesWritten ==
    \A g \in Gens :
        /\ gen[g].pc \in {"draft", "finish"} => snapshot[gen[g].week] = gen[g].items
        /\ gen[g].pc = "finish" => draft[gen[g].week] = gen[g].items

\* A run past generation has a hash, and publishers work only on such runs.
Hashed == \A w \in Weeks : run[w].status \in Done => run[w].sha # NoFile
PublisherReady == \A p \in Publishers : pub[p].pc # "idle" => run[pub[p].week].status \in Done

DraftInv ==
    /\ RunOwned /\ OneWriter /\ FilesWritten
    /\ Hashed /\ PublisherReady
    /\ FilesMatchRun

-----------------------------------------------------------------------------
(* Type correctness *)

\* Integer division is monotonic.
LEMMA DivMonotonic ==
    ASSUME NEW L \in Nat \ {0}, NEW a \in Nat, NEW b \in Nat, a <= b
    PROVE  a \div L \in Nat /\ a \div L <= b \div L
<1> DEFINE x == a \div L
           y == b \div L
<1>1. a = L * x + (a % L) /\ (a % L) \in 0..(L-1) /\ x \in Nat
  OBVIOUS
<1>2. b = L * y + (b % L) /\ (b % L) \in 0..(L-1) /\ y \in Nat
  OBVIOUS
<1>3. SUFFICES ASSUME x > y PROVE FALSE
  BY <1>1, <1>2
<1>4. x >= y + 1
  BY <1>1, <1>2, <1>3
<1>5. L * x >= L * (y + 1) /\ L * (y + 1) = L * y + L
  BY <1>1, <1>2, <1>4
<1>6. QED
  BY <1>1, <1>2, <1>5

\* The weeks a generator begins with are weeks of the model.
LEMMA WeekType ==
    ASSUME NEW t \in Time
    PROVE  Week(t) \in Weeks /\ Week(t) - 1 \in Weeks /\ Nil \in Weeks
<1>1. Week(t) \in Nat /\ Week(MaxTime) \in Nat /\ Week(t) <= Week(MaxTime)
  BY DivMonotonic, SummaryAssumption DEF Week, Time
<1>2. QED
  BY <1>1 DEF Weeks, Nil

\* NULL is no instant, and an item is a task with a version.
LEMMA Kinds ==
    /\ Nil \notin Nat
    /\ Time \subseteq Nat
    /\ {} \in SUBSET Items
    /\ SUBSET Items \subseteq Files /\ NoFile \in Files
    /\ \A x \in Items : x[1] \in Tasks /\ x[2] \in 1..MaxVersion /\ x = <<x[1], x[2]>>
  BY SummaryAssumption DEF Nil, Time, Items, Files

\* Every value the initial tables hold has its type.
LEMMA TypeInit == Init => TypeOK
<1> SUFFICES ASSUME Init PROVE TypeOK
  OBVIOUS
<1>1. Nil \in Weeks /\ 0 \in Time
  <2>1. 0 \in Time
    BY SummaryAssumption DEF Time
  <2>2. QED
    BY <2>1, WeekType
<1>2. gen \in [Gens -> Generator] /\ pub \in [Publishers -> Publisher]
  BY <1>1, Kinds DEF Init, Generator, Publisher, IdleGen, IdlePub, GenPC, PubPC
<1>3. NoFiles \in [Weeks -> Files]
  BY Kinds DEF NoFiles
<1>4. QED
  BY <1>1, <1>2, <1>3, Kinds, SummaryAssumption
     DEF Init, TypeOK, TaskStatus, RunStatus

\* Writing a task's row (TaskRepository.insert and update).
LEMMA TypeWriteTask ==
    ASSUME TypeInv, NEW t \in Tasks, NEW status \in TaskStatus, NEW due \in Dues \cup {Nil},
           NEW closed \in Time \cup {Nil}, WriteTask(t, status, due, closed)
    PROVE  TypeInv'
<1>1. Week(now) \in Weeks
  BY WeekType DEF TypeInv, TypeOK
<1>2. task[t].version + 1 \in 0..MaxVersion /\ task[t].version + 1 # 0
  BY SummaryAssumption DEF WriteTask, TypeInv, TypeOK
<1>3. TypeOK'
  BY <1>1, <1>2 DEF WriteTask, TypeInv, TypeOK, files, git
<1>4. Versioned'
  BY <1>2 DEF WriteTask, TypeInv, TypeOK, Versioned
<1>5. QED
  BY <1>3, <1>4 DEF TypeInv

\* A transaction on tasks (TaskService, SummaryService.cleanup).
LEMMA TypeTask ==
    ASSUME TypeInv,
           \/ \E t \in Tasks : CreateTask(t) \/ UpdateTask(t) \/ CloseTask(t) \/ ReopenTask(t)
           \/ Cleanup
    PROVE  TypeInv'
<1>1. ASSUME NEW t \in Tasks, CreateTask(t) PROVE TypeInv'
  BY <1>1, TypeWriteTask DEF CreateTask, TaskStatus
<1>2. ASSUME NEW t \in Tasks, UpdateTask(t) PROVE TypeInv'
  BY <1>2, TypeWriteTask DEF UpdateTask, TypeInv, TypeOK
<1>3. ASSUME NEW t \in Tasks, CloseTask(t) PROVE TypeInv'
  <2>1. now \in Time \cup {Nil} /\ task[t].due \in Dues \cup {Nil}
    BY DEF TypeInv, TypeOK
  <2>2. QED
    BY <1>3, <2>1, TypeWriteTask DEF CloseTask, TaskStatus
<1>4. ASSUME NEW t \in Tasks, ReopenTask(t) PROVE TypeInv'
  BY <1>4, TypeWriteTask DEF ReopenTask, TypeInv, TypeOK, TaskStatus
<1>5. ASSUME Cleanup PROVE TypeInv'
  <2>1. \A t \in Tasks : Cleanable(t) => task[t].status # "absent"
    BY DEF Cleanable
  <2>2. TypeOK'
    BY <1>5 DEF Cleanup, TypeInv, TypeOK, TaskStatus, files, git
  <2>3. Versioned'
    BY <1>5, <2>1 DEF Cleanup, TypeInv, TypeOK, Versioned
  <2>4. QED
    BY <2>2, <2>3 DEF TypeInv
<1>6. QED
  BY <1>1, <1>2, <1>3, <1>4, <1>5

\* What a step that leaves the tasks alone must show for TypeInv.
LEMMA TypeRest ==
    ASSUME TypeInv, UNCHANGED task, now' \in Time, events' = events, archive' \subseteq ArchiveRow,
           run' \in [Weeks -> [status : RunStatus, sha : Files]],
           snapshot' \in [Weeks -> Files], draft' \in [Weeks -> Files],
           index' \in [Weeks -> Files], head' \in [Weeks -> Files], remote' \in [Weeks -> Files],
           gen' \in [Gens -> Generator], pub' \in [Publishers -> Publisher]
    PROVE  TypeInv'
<1>1. TypeOK'
  BY DEF TypeInv, TypeOK
<1>2. QED
  BY <1>1 DEF TypeInv, Versioned

\* A step of a generator (SummaryService.generate, SummarySnapshotService.build).
LEMMA TypeGen ==
    ASSUME TypeInv, NEW g \in Gens,
           \/ g \in Workers /\ StartWorker(g)
           \/ g \in Regenerators /\ StartRegenerate(g)
           \/ ReadEvents(g) \/ ReadRow(g) \/ ReadPending(g) \/ InsertRun(g)
           \/ WriteSnapshot(g) \/ WriteDraft(g) \/ FinishRun(g) \/ FailGenerate(g)
    PROVE  TypeInv'
<1> USE DEF TypeInv
<1>1. Nil \in Weeks /\ Week(now) \in Weeks /\ Target \in Weeks
  BY WeekType DEF TypeOK, Target
<1>2. gen[g] \in Generator
  BY DEF TypeOK
<1>3. IdleGen \in Generator
  BY <1>1, Kinds DEF IdleGen, Generator, GenPC
<1>4. ASSUME NEW w \in Weeks, Begin(g, w) PROVE TypeInv'
  <2>1. [IdleGen EXCEPT !.pc = "events", !.week = w] \in Generator
    BY <1>3 DEF Generator, GenPC
  <2>2. QED
    BY <1>4, <2>1, TypeRest DEF Begin, TypeOK, tables, files, git
<1>5. ASSUME StartWorker(g) PROVE TypeInv'
  <2>1. CASE run[Target].status = "absent"
    BY <1>1, <1>4, <1>5, <2>1 DEF StartWorker
  <2>2. CASE run[Target].status # "absent"
    BY <1>5, <2>2, TypeRest DEF StartWorker, TypeOK, vars
  <2>3. QED
    BY <2>1, <2>2
<1>6. ASSUME StartRegenerate(g) PROVE TypeInv'
  BY <1>1, <1>4, <1>6 DEF StartRegenerate
<1>7. ASSUME NEW pc, NEW next \in Generator, GenStep(g, pc, next),
             run' \in [Weeks -> [status : RunStatus, sha : Files]],
             snapshot' \in [Weeks -> Files], draft' \in [Weeks -> Files]
      PROVE  TypeInv'
  BY <1>7, TypeRest DEF GenStep, TypeOK, git
<1>8. ASSUME NEW pc, NEW next \in Generator, Read(g, pc, next) PROVE TypeInv'
  BY <1>7, <1>8 DEF Read, TypeOK, files
<1>9. CASE ReadEvents(g)
  <2>1. [gen[g] EXCEPT !.pc = "rows", !.todo = {t \in Tasks : <<t, gen[g].week>> \in events}]
          \in Generator
    BY <1>2 DEF Generator, GenPC
  <2>2. QED
    BY <1>8, <1>9, <2>1 DEF ReadEvents
<1>10. ASSUME NEW t \in Tasks, task[t].status # "absent" PROVE <<t, task[t].version>> \in Items
  <2>1. task[t].version \in 1..MaxVersion
    BY <1>10, SummaryAssumption DEF TypeOK, Versioned
  <2>2. QED
    BY <2>1 DEF Items
<1>11. CASE ReadRow(g)
  <2>1. PICK t \in gen[g].todo :
            LET row == IF Exists(t) THEN {<<t, task[t].version>>} ELSE {}
            IN Read(g, "rows", [gen[g] EXCEPT !.todo = @ \ {t}, !.items = @ \cup row])
    BY <1>11 DEF ReadRow
  <2> DEFINE row == IF Exists(t) THEN {<<t, task[t].version>>} ELSE {}
  <2>2. t \in Tasks
    BY <1>2 DEF Generator
  <2>3. row \in SUBSET Items
    BY <1>10, <2>2 DEF Exists
  <2>4. [gen[g] EXCEPT !.todo = @ \ {t}, !.items = @ \cup row] \in Generator
    BY <1>2, <2>3 DEF Generator
  <2>5. QED
    BY <1>8, <2>1, <2>4
<1>12. CASE ReadPending(g)
  <2> DEFINE pending == {t \in Tasks : task[t].status = "pending"}
             rest == {x \in gen[g].items : x[1] \notin pending}
             new == {<<t, task[t].version>> : t \in pending}
  <2>1. new \in SUBSET Items
    BY <1>10
  <2>2. rest \in SUBSET Items
    BY <1>2 DEF Generator
  <2>3. rest \cup new \in SUBSET Items
    BY <2>1, <2>2
  <2>4. [gen[g] EXCEPT !.pc = "insert", !.items = rest \cup new] \in Generator
    <3> HIDE DEF rest, new
    <3> QED BY <1>2, <2>3 DEF Generator, GenPC
  <2>5. Read(g, "rows", [gen[g] EXCEPT !.pc = "insert", !.items = rest \cup new])
    BY <1>12 DEF ReadPending
  <2>6. QED
    BY <1>8, <2>4, <2>5
<1>13. CASE InsertRun(g)
  <2>1. [gen[g] EXCEPT !.pc = "snapshot"] \in Generator
        /\ [gen[g] EXCEPT !.pc = "refused"] \in Generator
    BY <1>2 DEF Generator, GenPC
  <2>2. run' \in [Weeks -> [status : RunStatus, sha : Files]]
    BY <1>13 DEF InsertRun, TypeOK, RunStatus
  <2>3. QED
    BY <1>7, <1>13, <2>1, <2>2 DEF InsertRun, TypeOK, files
<1>14. gen[g].items \in Files /\ gen[g].week \in Weeks
  BY <1>2, Kinds DEF Generator
<1>15. CASE WriteSnapshot(g)
  <2>1. [gen[g] EXCEPT !.pc = "draft"] \in Generator
    BY <1>2 DEF Generator, GenPC
  <2>2. QED
    BY <1>7, <1>14, <1>15, <2>1 DEF WriteSnapshot, TypeOK
<1>16. CASE WriteDraft(g)
  <2>1. [gen[g] EXCEPT !.pc = "finish"] \in Generator
    BY <1>2 DEF Generator, GenPC
  <2>2. QED
    BY <1>7, <1>14, <1>16, <2>1 DEF WriteDraft, TypeOK
<1>17. CASE FinishRun(g)
  <2>1. run' \in [Weeks -> [status : RunStatus, sha : Files]]
    BY <1>14, <1>17 DEF FinishRun, TypeOK, RunStatus
  <2>2. QED
    BY <1>3, <1>7, <1>17, <2>1 DEF FinishRun, TypeOK, files
<1>18. CASE FailGenerate(g)
  BY <1>3, <1>18, TypeRest DEF FailGenerate, TypeOK, tables, files, git
<1>19. QED
  BY <1>5, <1>6, <1>9, <1>11, <1>12, <1>13, <1>15, <1>16, <1>17, <1>18

\* A step of a publisher (SummaryService.publish, GitPublisher.publish).  The snapshot it
\* reads back is there.
LEMMA TypePub ==
    ASSUME TypeInv, DraftInv, NEW p \in Publishers,
           \/ StartPublish(p) \/ Approve(p) \/ CheckIndex(p) \/ Add(p) \/ Compare(p)
           \/ Commit(p) \/ Push(p) \/ Verify(p) \/ PickFirst(p) \/ NothingToArchive(p)
           \/ Archive(p) \/ Publish(p) \/ FailPublish(p)
    PROVE  TypeInv'
<1> USE DEF TypeInv
<1>1. Nil \in Weeks
  BY WeekType DEF TypeOK
<1>2. pub[p] \in Publisher /\ pub[p].week \in Weeks
  BY DEF TypeOK, Publisher
<1>3. IdlePub \in Publisher
  BY <1>1, Kinds DEF IdlePub, Publisher, PubPC
<1>4. ASSUME NEW pc \in PubPC PROVE At(p, pc) \in Publisher
  BY <1>2, <1>4 DEF At, Publisher
<1>5. ASSUME NEW pc, NEW next \in Publisher, PubStep(p, pc, next), archive' \subseteq ArchiveRow,
             run' \in [Weeks -> [status : RunStatus, sha : Files]],
             index' \in [Weeks -> Files], head' \in [Weeks -> Files], remote' \in [Weeks -> Files]
      PROVE  TypeInv'
  BY <1>5, TypeRest DEF PubStep, TypeOK, files
<1>6. ASSUME NEW pc, NEW next \in Publisher, Check(p, pc, next) PROVE TypeInv'
  BY <1>5, <1>6 DEF Check, TypeOK, git
<1>7. CASE StartPublish(p)
  <2>1. PICK w \in Weeks : Check(p, "idle", [IdlePub EXCEPT !.pc = "approve", !.week = w])
    BY <1>7 DEF StartPublish
  <2>2. [IdlePub EXCEPT !.pc = "approve", !.week = w] \in Publisher
    BY <1>3 DEF Publisher, PubPC
  <2>3. QED
    BY <1>6, <2>1, <2>2
<1>8. CASE Approve(p)
  <2>1. run' \in [Weeks -> [status : RunStatus, sha : Files]]
    BY <1>2, <1>8 DEF Approve, TypeOK, RunStatus
  <2>2. At(p, "clean") \in Publisher
    BY <1>4 DEF PubPC
  <2>3. QED
    BY <1>5, <1>8, <2>1, <2>2 DEF Approve, TypeOK, git
<1>9. CASE CheckIndex(p)
  <2>1. At(p, "add") \in Publisher
    BY <1>4 DEF PubPC
  <2>2. QED
    BY <1>3, <1>6, <1>9, <2>1 DEF CheckIndex
<1>10. CASE Add(p)
  <2>1. At(p, "compare") \in Publisher
    BY <1>4 DEF PubPC
  <2>2. index' \in [Weeks -> Files]
    BY <1>2, <1>10 DEF Add, TypeOK
  <2>3. QED
    BY <1>5, <1>10, <2>1, <2>2 DEF Add, TypeOK
<1>11. CASE Compare(p)
  <2>1. At(p, "commit") \in Publisher
    BY <1>4 DEF PubPC
  <2>2. index' \in [Weeks -> Files]
    BY <1>2, <1>11 DEF Compare, TypeOK
  <2>3. PubStep(p, "compare", At(p, "commit")) \/ PubStep(p, "compare", IdlePub)
    BY <1>11 DEF Compare
  <2>4. QED
    BY <1>3, <1>5, <1>11, <2>1, <2>2, <2>3 DEF Compare, TypeOK
<1>12. CASE Commit(p)
  <2>1. At(p, "push") \in Publisher
    BY <1>4 DEF PubPC
  <2>2. PubStep(p, "commit", At(p, "push")) \/ PubStep(p, "commit", IdlePub)
    BY <1>12 DEF Commit
  <2>3. QED
    BY <1>3, <1>5, <1>12, <2>1, <2>2 DEF Commit, TypeOK
<1>13. CASE Push(p)
  <2>1. At(p, "verify") \in Publisher
    BY <1>4 DEF PubPC
  <2>2. QED
    BY <1>5, <1>13, <2>1 DEF Push, TypeOK
<1>14. CASE Verify(p)
  <2>1. snapshot[pub[p].week] \in SUBSET Items
    <3>1. pub[p].pc # "idle"
      BY <1>14 DEF Verify, Check, PubStep
    <3>2. snapshot[pub[p].week] # NoFile
      BY <1>2, <3>1 DEF DraftInv, PublisherReady, Hashed, FilesMatchRun, Done
    <3>3. QED
      BY <1>2, <3>2 DEF TypeOK, Files
  <2>2. At(p, "read") \in Publisher
    BY <1>4 DEF PubPC
  <2>3. [At(p, "read") EXCEPT !.todo = snapshot[pub[p].week]] \in Publisher
    BY <2>1, <2>2 DEF Publisher
  <2>4. Check(p, "verify", IdlePub)
        \/ Check(p, "verify", [At(p, "read") EXCEPT !.todo = snapshot[pub[p].week]])
    BY <1>14 DEF Verify
  <2>5. QED
    BY <1>3, <1>6, <2>3, <2>4
<1>15. CASE PickFirst(p)
  <2>1. PICK x \in pub[p].todo :
            \/ Check(p, "read", [At(p, "archive") EXCEPT !.held = {x}, !.todo = @ \ {x}])
            \/ Check(p, "read", [pub[p] EXCEPT !.todo = @ \ {x}])
    BY <1>15 DEF PickFirst
  <2>2. At(p, "archive") \in Publisher
    BY <1>4 DEF PubPC
  <2>3. x \in Items
    BY <1>2 DEF Publisher
  <2>4. [At(p, "archive") EXCEPT !.held = {x}, !.todo = @ \ {x}] \in Publisher
    BY <2>2, <2>3 DEF Publisher
  <2>5. [pub[p] EXCEPT !.todo = @ \ {x}] \in Publisher
    BY <1>2 DEF Publisher
  <2>6. QED
    BY <1>6, <2>1, <2>4, <2>5
<1>16. CASE NothingToArchive(p)
  <2>1. At(p, "publish") \in Publisher
    BY <1>4 DEF PubPC
  <2>2. QED
    BY <1>6, <1>16, <2>1 DEF NothingToArchive
<1>17. CASE Archive(p)
  <2>1. At(p, "publish") \in Publisher
    BY <1>4 DEF PubPC
  <2>2. Matching(p) \in SUBSET Items
    BY <1>2 DEF Matching, Publisher
  <2>3. ASSUME NEW x \in Matching(p)
        PROVE  [task |-> x[1], week |-> pub[p].week, version |-> x[2]] \in ArchiveRow
    BY <1>2, <2>2, <2>3, Kinds DEF ArchiveRow
  <2>4. archive' \subseteq ArchiveRow
    BY <1>17, <2>3 DEF Archive, TypeOK
  <2>5. PubStep(p, "archive", At(p, "publish")) \/ PubStep(p, "archive", IdlePub)
    BY <1>17 DEF Archive
  <2>6. QED
    BY <1>3, <1>5, <1>17, <2>1, <2>4, <2>5 DEF Archive, TypeOK, git
<1>18. CASE Publish(p)
  <2>1. run' \in [Weeks -> [status : RunStatus, sha : Files]]
    BY <1>2, <1>18 DEF Publish, TypeOK, RunStatus
  <2>2. QED
    BY <1>3, <1>5, <1>18, <2>1 DEF Publish, TypeOK, git
<1>19. CASE FailPublish(p)
  BY <1>3, <1>19, TypeRest DEF FailPublish, TypeOK, tables, files, git
<1>20. QED
  BY <1>7, <1>8, <1>9, <1>10, <1>11, <1>12, <1>13, <1>14, <1>15, <1>16, <1>17, <1>18, <1>19

-----------------------------------------------------------------------------
(* One generation writes a week's files *)

LEMMA DraftInit == Init => DraftInv
<1> SUFFICES ASSUME Init PROVE DraftInv
  OBVIOUS
<1>1. \A w \in Weeks : run[w].status \notin Done
  BY DEF Init, Done
<1>2. \A g \in Gens : gen[g].pc \notin Writing /\ gen[g].pc \notin {"draft", "finish"}
  BY DEF Init, IdleGen, Writing
<1>3. \A p \in Publishers : pub[p].pc = "idle"
  BY DEF Init, IdlePub
<1>4. QED
  BY <1>1, <1>2, <1>3
     DEF DraftInv, RunOwned, OneWriter, FilesWritten, Hashed, PublisherReady, FilesMatchRun, Done

\* A step of a generator that writes neither the run nor a file.
LEMMA DraftIdleGen ==
    ASSUME TypeInv, DraftInv, NEW g \in Gens, NEW next, next.pc \notin Writing,
           gen' = [gen EXCEPT ![g] = next], UNCHANGED <<run, snapshot, draft, pub>>
    PROVE  DraftInv'
<1>1. \A h \in Gens : gen'[h].pc \in Writing => h # g /\ gen'[h] = gen[h]
  BY DEF TypeInv, TypeOK
<1>2. RunOwned' /\ OneWriter'
  BY <1>1 DEF DraftInv, RunOwned, OneWriter
<1>3. FilesWritten'
  BY <1>1 DEF DraftInv, FilesWritten, Writing
<1>4. QED
  BY <1>2, <1>3 DEF DraftInv, Hashed, PublisherReady, FilesMatchRun

\* The week of a generator that writes is no other writer's, and no publisher's.
LEMMA WriterAlone ==
    ASSUME TypeInv, DraftInv, NEW g \in Gens, gen[g].pc \in Writing
    PROVE  /\ gen[g].week \in Weeks /\ gen[g].items \in SUBSET Items
           /\ run[gen[g].week].status = "generating"
           /\ \A h \in Gens : h # g /\ gen[h].pc \in Writing => gen[h].week # gen[g].week
           /\ \A p \in Publishers : pub[p].pc # "idle" => pub[p].week # gen[g].week
<1>1. gen[g] \in Generator
  BY DEF TypeInv, TypeOK
<1>2. "generating" \notin Done
  BY DEF Done
<1>3. QED
  BY <1>1, <1>2 DEF Generator, DraftInv, RunOwned, OneWriter, PublisherReady

LEMMA DraftInsertRun ==
    ASSUME TypeInv, DraftInv, NEW g \in Gens, InsertRun(g)
    PROVE  DraftInv'
<1> DEFINE w == gen[g].week
<1>1. gen[g] \in Generator /\ w \in Weeks
  BY DEF TypeInv, TypeOK, Generator
<1>2. CASE run[w].status # "absent"
  <2>1. gen' = [gen EXCEPT ![g] = [gen[g] EXCEPT !.pc = "refused"]]
        /\ UNCHANGED <<run, snapshot, draft, pub>>
    BY <1>2 DEF InsertRun, GenStep, files
  <2>2. [gen[g] EXCEPT !.pc = "refused"].pc \notin Writing
    BY <1>1 DEF Generator, Writing
  <2>3. QED
    BY <2>1, <2>2, DraftIdleGen
<1>3. CASE run[w].status = "absent"
  <2>1. /\ run' = [run EXCEPT ![w].status = "generating"]
        /\ gen' = [gen EXCEPT ![g] = [gen[g] EXCEPT !.pc = "snapshot"]]
        /\ UNCHANGED <<snapshot, draft, pub>>
    BY <1>3 DEF InsertRun, GenStep, files
  <2>2. run'[w].status = "generating" /\ \A v \in Weeks : v # w => run'[v] = run[v]
    BY <1>1, <2>1 DEF TypeInv, TypeOK
  <2>3. gen'[g].pc = "snapshot" /\ gen'[g].week = w
        /\ \A h \in Gens : h # g => gen'[h] = gen[h]
    BY <1>1, <2>1 DEF TypeInv, TypeOK, Generator
  <2>4. \A h \in Gens : gen[h].pc \in Writing => gen[h].week # w
    BY <1>3 DEF DraftInv, RunOwned
  <2>5. \A h \in Gens : gen[h].week \in Weeks
    BY DEF TypeInv, TypeOK, Generator
  <2>6. RunOwned'
    BY <2>2, <2>3, <2>4, <2>5 DEF DraftInv, RunOwned
  <2>7. OneWriter'
    BY <2>3, <2>4 DEF DraftInv, OneWriter
  <2>8. FilesWritten'
    BY <2>1, <2>3 DEF DraftInv, FilesWritten
  <2>9. Hashed' /\ FilesMatchRun'
    BY <2>1, <2>2 DEF DraftInv, Hashed, FilesMatchRun, Done
  <2>10. PublisherReady'
    <3>1. \A p \in Publishers : pub[p].week \in Weeks
      BY DEF TypeInv, TypeOK, Publisher
    <3>2. \A p \in Publishers : pub[p].pc # "idle" => pub[p].week # w
      BY <1>3 DEF DraftInv, PublisherReady, Done
    <3>3. QED
      BY <2>1, <2>2, <3>1, <3>2 DEF DraftInv, PublisherReady
  <2>11. QED
    BY <2>6, <2>7, <2>8, <2>9, <2>10 DEF DraftInv
<1>4. QED
  BY <1>2, <1>3

\* The other steps of a generator.
LEMMA DraftGen ==
    ASSUME TypeInv, DraftInv, NEW g \in Gens,
           \/ g \in Workers /\ StartWorker(g)
           \/ g \in Regenerators /\ StartRegenerate(g)
           \/ ReadEvents(g) \/ ReadRow(g) \/ ReadPending(g) \/ InsertRun(g)
           \/ WriteSnapshot(g) \/ WriteDraft(g) \/ FinishRun(g) \/ FailGenerate(g)
    PROVE  DraftInv'
<1> DEFINE w == gen[g].week
<1>1. gen[g] \in Generator
  BY DEF TypeInv, TypeOK
<1>2. IdleGen.pc \notin Writing
  BY DEF IdleGen, Writing
<1>3. ASSUME NEW v, Begin(g, v) PROVE DraftInv'
  <2>1. [IdleGen EXCEPT !.pc = "events", !.week = v].pc \notin Writing
    BY DEF IdleGen, Writing
  <2>2. QED
    BY <1>3, <2>1, DraftIdleGen DEF Begin, tables, files
<1>4. ASSUME NEW pc, NEW next, Read(g, pc, next), next.pc \notin Writing PROVE DraftInv'
  BY <1>4, DraftIdleGen DEF Read, GenStep, files
<1>5. ASSUME StartWorker(g) PROVE DraftInv'
  <2>1. CASE run[Target].status = "absent"
    BY <1>3, <1>5, <2>1 DEF StartWorker
  <2>2. CASE run[Target].status # "absent"
    BY <1>5, <2>2
       DEF StartWorker, vars, DraftInv, RunOwned, OneWriter, FilesWritten, Hashed,
           PublisherReady, FilesMatchRun
  <2>3. QED
    BY <2>1, <2>2
<1>6. ASSUME StartRegenerate(g) PROVE DraftInv'
  BY <1>3, <1>6 DEF StartRegenerate
<1>7. CASE ReadEvents(g)
  <2>1. \A s : [gen[g] EXCEPT !.pc = "rows", !.todo = s].pc \notin Writing
    BY <1>1 DEF Generator, Writing
  <2>2. QED
    BY <1>4, <1>7, <2>1 DEF ReadEvents
<1>8. CASE ReadRow(g)
  <2>1. PICK todo, items : Read(g, "rows", [gen[g] EXCEPT !.todo = todo, !.items = items])
    BY <1>8 DEF ReadRow
  <2>2. gen[g].pc = "rows"
    BY <2>1 DEF Read, GenStep
  <2>3. [gen[g] EXCEPT !.todo = todo, !.items = items].pc \notin Writing
    BY <1>1, <2>2 DEF Generator, Writing
  <2>4. QED
    BY <1>4, <2>1, <2>3
<1>9. CASE ReadPending(g)
  <2>1. PICK items : Read(g, "rows", [gen[g] EXCEPT !.pc = "insert", !.items = items])
    BY <1>9 DEF ReadPending
  <2>2. [gen[g] EXCEPT !.pc = "insert", !.items = items].pc \notin Writing
    BY <1>1 DEF Generator, Writing
  <2>3. QED
    BY <1>4, <2>1, <2>2
<1>10. CASE InsertRun(g)
  BY <1>10, DraftInsertRun
<1>11. CASE WriteSnapshot(g)
  <2>1. gen[g].pc = "snapshot" /\ gen[g].pc \in Writing
    BY <1>11 DEF WriteSnapshot, GenStep, Writing
  <2>2. gen'[g].pc = "draft" /\ gen'[g].week = w /\ gen'[g].items = gen[g].items
        /\ \A h \in Gens : h # g => gen'[h] = gen[h]
    BY <1>1, <1>11 DEF WriteSnapshot, GenStep, TypeInv, TypeOK, Generator
  <2>3. snapshot'[w] = gen[g].items /\ \A v \in Weeks : v # w => snapshot'[v] = snapshot[v]
    BY <1>11, <2>1, WriterAlone DEF WriteSnapshot, TypeInv, TypeOK
  <2>4. UNCHANGED <<run, draft, pub>>
    BY <1>11 DEF WriteSnapshot, GenStep
  <2>5. \A h \in Gens : gen[h].week \in Weeks
    BY DEF TypeInv, TypeOK, Generator
  <2>6. RunOwned' /\ OneWriter'
    BY <2>1, <2>2, <2>4, WriterAlone DEF DraftInv, RunOwned, OneWriter
  <2>7. FilesWritten'
    BY <2>1, <2>2, <2>3, <2>4, <2>5, WriterAlone DEF DraftInv, FilesWritten, Writing
  <2>8. FilesMatchRun'
    BY <2>1, <2>3, <2>4, WriterAlone DEF DraftInv, FilesMatchRun
  <2>9. QED
    BY <2>4, <2>6, <2>7, <2>8 DEF DraftInv, Hashed, PublisherReady
<1>12. CASE WriteDraft(g)
  <2>1. gen[g].pc = "draft" /\ gen[g].pc \in Writing
    BY <1>12 DEF WriteDraft, GenStep, Writing
  <2>2. gen'[g].pc = "finish" /\ gen'[g].week = w /\ gen'[g].items = gen[g].items
        /\ \A h \in Gens : h # g => gen'[h] = gen[h]
    BY <1>1, <1>12 DEF WriteDraft, GenStep, TypeInv, TypeOK, Generator
  <2>3. draft'[w] = gen[g].items /\ \A v \in Weeks : v # w => draft'[v] = draft[v]
    BY <1>12, <2>1, WriterAlone DEF WriteDraft, TypeInv, TypeOK
  <2>4. UNCHANGED <<run, snapshot, pub>>
    BY <1>12 DEF WriteDraft, GenStep
  <2>5. \A h \in Gens : gen[h].week \in Weeks
    BY DEF TypeInv, TypeOK, Generator
  <2>6. RunOwned' /\ OneWriter'
    BY <2>1, <2>2, <2>4, WriterAlone DEF DraftInv, RunOwned, OneWriter
  <2>7. FilesWritten'
    BY <2>1, <2>2, <2>3, <2>4, <2>5, WriterAlone DEF DraftInv, FilesWritten, Writing
  <2>8. FilesMatchRun'
    BY <2>1, <2>3, <2>4, WriterAlone DEF DraftInv, FilesMatchRun
  <2>9. QED
    BY <2>4, <2>6, <2>7, <2>8 DEF DraftInv, Hashed, PublisherReady
<1>13. CASE FinishRun(g)
  <2>1. gen[g].pc = "finish" /\ gen[g].pc \in Writing
    BY <1>13 DEF FinishRun, GenStep, Writing
  <2>2. gen'[g] = IdleGen /\ \A h \in Gens : h # g => gen'[h] = gen[h]
    BY <1>13 DEF FinishRun, GenStep, TypeInv, TypeOK
  <2>3. /\ run'[w] = [status |-> "awaiting_approval", sha |-> gen[g].items]
        /\ \A v \in Weeks : v # w => run'[v] = run[v]
    BY <1>13, <2>1, WriterAlone DEF FinishRun, TypeInv, TypeOK
  <2>4. UNCHANGED <<snapshot, draft, pub>>
    BY <1>13 DEF FinishRun, GenStep, files
  <2>5. \A h \in Gens : gen[h].week \in Weeks
    BY DEF TypeInv, TypeOK, Generator
  <2>6. gen'[g].pc \notin Writing /\ gen'[g].pc \notin {"draft", "finish"}
    BY <1>2, <2>2 DEF Writing
  <2>7. RunOwned' /\ OneWriter'
    BY <2>1, <2>2, <2>3, <2>5, <2>6, WriterAlone DEF DraftInv, RunOwned, OneWriter
  <2>8. FilesWritten'
    BY <2>2, <2>4, <2>6 DEF DraftInv, FilesWritten
  <2>9. snapshot[w] = gen[g].items /\ draft[w] = gen[g].items /\ gen[g].items # NoFile
    BY <2>1, WriterAlone, SummaryAssumption DEF DraftInv, FilesWritten
  <2>10. FilesMatchRun' /\ Hashed'
    BY <2>3, <2>4, <2>9 DEF DraftInv, FilesMatchRun, Hashed
  <2>11. PublisherReady'
    <3>1. \A p \in Publishers : pub[p].week \in Weeks
      BY DEF TypeInv, TypeOK, Publisher
    <3>2. QED
      BY <2>1, <2>3, <2>4, <3>1, WriterAlone DEF DraftInv, PublisherReady
  <2>12. QED
    BY <2>7, <2>8, <2>10, <2>11 DEF DraftInv
<1>14. CASE FailGenerate(g)
  BY <1>2, <1>14, DraftIdleGen DEF FailGenerate, tables, files
<1>15. QED
  BY <1>5, <1>6, <1>7, <1>8, <1>9, <1>10, <1>11, <1>12, <1>13, <1>14

\* A publisher that leaves the runs alone and goes on with its week, or gives it up.
LEMMA DraftSamePub ==
    ASSUME TypeInv, DraftInv, NEW p \in Publishers, NEW next,
           \/ next.pc = "idle"
           \/ pub[p].pc # "idle" /\ next.week = pub[p].week
           \/ run[next.week].status \in Done,
           pub' = [pub EXCEPT ![p] = next], UNCHANGED <<run, files, gen>>
    PROVE  DraftInv'
<1>1. PublisherReady'
  BY DEF DraftInv, PublisherReady, TypeInv, TypeOK
<1>2. QED
  BY <1>1 DEF files, DraftInv, RunOwned, OneWriter, FilesWritten, Hashed, FilesMatchRun

\* Writing the status of the run a publisher works on.
LEMMA DraftStatus ==
    ASSUME TypeInv, DraftInv, NEW p \in Publishers, NEW status \in Done, NEW next,
           pub[p].pc # "idle", next.pc = "idle" \/ next.week = pub[p].week,
           pub' = [pub EXCEPT ![p] = next],
           run' = [run EXCEPT ![pub[p].week].status = status], UNCHANGED <<files, gen>>
    PROVE  DraftInv'
<1> DEFINE w == pub[p].week
<1>1. w \in Weeks /\ run[w].status \in Done
  BY DEF TypeInv, TypeOK, Publisher, DraftInv, PublisherReady
<1>2. run'[w].status = status /\ run'[w].sha = run[w].sha
      /\ \A v \in Weeks : v # w => run'[v] = run[v]
  BY <1>1 DEF TypeInv, TypeOK
<1>3. \A h \in Gens : gen[h].week \in Weeks
  BY DEF TypeInv, TypeOK, Generator
<1>4. RunOwned'
  BY <1>1, <1>2, <1>3 DEF DraftInv, RunOwned, Done
<1>5. Hashed' /\ FilesMatchRun'
  BY <1>1, <1>2 DEF DraftInv, Hashed, FilesMatchRun, Done, files
<1>6. PublisherReady'
  <2>1. \A q \in Publishers : pub[q].week \in Weeks
    BY DEF TypeInv, TypeOK, Publisher
  <2>2. \A q \in Publishers : q # p => pub'[q] = pub[q]
    BY DEF TypeInv, TypeOK
  <2>3. pub'[p] = next
    BY DEF TypeInv, TypeOK
  <2>4. \A q \in Publishers : q # p /\ pub[q].pc # "idle" => run'[pub[q].week].status \in Done
    BY <1>2, <2>1 DEF DraftInv, PublisherReady
  <2>5. QED
    BY <1>2, <2>2, <2>3, <2>4 DEF PublisherReady
<1>7. QED
  BY <1>4, <1>5, <1>6 DEF files, DraftInv, OneWriter, FilesWritten

\* The steps of a publisher.
LEMMA DraftPub ==
    ASSUME TypeInv, DraftInv, NEW p \in Publishers,
           \/ StartPublish(p) \/ Approve(p) \/ CheckIndex(p) \/ Add(p) \/ Compare(p)
           \/ Commit(p) \/ Push(p) \/ Verify(p) \/ PickFirst(p) \/ NothingToArchive(p)
           \/ Archive(p) \/ Publish(p) \/ FailPublish(p)
    PROVE  DraftInv'
<1>1. pub[p] \in Publisher
  BY DEF TypeInv, TypeOK
<1>2. IdlePub.pc = "idle" /\ \A pc : At(p, pc).week = pub[p].week
  BY <1>1 DEF IdlePub, At, Publisher
<1>3. ASSUME NEW pc, NEW next, pc # "idle", PubStep(p, pc, next), UNCHANGED run,
             next.pc = "idle" \/ next.week = pub[p].week
      PROVE  DraftInv'
  BY <1>3, DraftSamePub DEF PubStep
<1>4. ASSUME NEW pc, NEW next, pc # "idle", Check(p, pc, next),
             next.pc = "idle" \/ next.week = pub[p].week
      PROVE  DraftInv'
  BY <1>3, <1>4 DEF Check
<1>5. CASE StartPublish(p)
  <2>1. PICK w \in Weeks :
            /\ run[w].status = "awaiting_approval"
            /\ Check(p, "idle", [IdlePub EXCEPT !.pc = "approve", !.week = w])
    BY <1>5 DEF StartPublish
  <2> DEFINE next == [IdlePub EXCEPT !.pc = "approve", !.week = w]
  <2>2. run[next.week].status \in Done
    BY <2>1 DEF IdlePub, Done
  <2>3. pub' = [pub EXCEPT ![p] = next] /\ UNCHANGED <<run, files, gen>>
    BY <2>1 DEF Check, PubStep
  <2>4. QED
    BY <2>2, <2>3, DraftSamePub
<1>6. CASE Approve(p)
  <2>1. "publishing" \in Done
    BY DEF Done
  <2>2. QED
    BY <1>2, <1>6, <2>1, DraftStatus DEF Approve, PubStep
<1>7. CASE CheckIndex(p) \/ Add(p) \/ Compare(p) \/ Commit(p) \/ Push(p) \/ NothingToArchive(p)
  BY <1>2, <1>3, <1>4, <1>7 DEF CheckIndex, Add, Compare, Commit, Push, NothingToArchive
<1>8. CASE Verify(p)
  <2>1. \A s : [At(p, "read") EXCEPT !.todo = s].week = pub[p].week
    BY <1>1 DEF At, Publisher
  <2>2. QED
    BY <1>2, <1>4, <1>8, <2>1 DEF Verify
<1>9. CASE PickFirst(p)
  <2>1. PICK todo, held :
            \/ Check(p, "read", [At(p, "archive") EXCEPT !.held = held, !.todo = todo])
            \/ Check(p, "read", [pub[p] EXCEPT !.todo = todo])
    BY <1>9 DEF PickFirst
  <2>2. /\ [At(p, "archive") EXCEPT !.held = held, !.todo = todo].week = pub[p].week
        /\ [pub[p] EXCEPT !.todo = todo].week = pub[p].week
    BY <1>1 DEF At, Publisher
  <2>3. QED
    BY <1>4, <2>1, <2>2
<1>10. CASE Archive(p)
  BY <1>2, <1>3, <1>10 DEF Archive
<1>11. CASE Publish(p)
  <2>1. "published" \in Done
    BY DEF Done
  <2>2. QED
    BY <1>2, <1>11, <2>1, DraftStatus DEF Publish, PubStep
<1>12. CASE FailPublish(p)
  BY <1>2, <1>12, DraftSamePub DEF FailPublish, tables
<1>13. QED
  BY <1>5, <1>6, <1>7, <1>8, <1>9, <1>10, <1>11, <1>12

\* A transaction on tasks, the clock and stuttering.
LEMMA DraftQuiet ==
    ASSUME DraftInv, UNCHANGED <<run, files, gen, pub>>
    PROVE  DraftInv'
  BY DEF files, DraftInv, RunOwned, OneWriter, FilesWritten, Hashed, PublisherReady, FilesMatchRun

\* Every step keeps both invariants.
LEMMA DraftNext ==
    ASSUME TypeInv, DraftInv, [Next]_vars
    PROVE  TypeInv' /\ DraftInv'
<1>1. CASE \/ \E t \in Tasks : CreateTask(t) \/ UpdateTask(t) \/ CloseTask(t) \/ ReopenTask(t)
           \/ Cleanup
  <2>1. UNCHANGED <<run, files, gen, pub>>
    BY <1>1 DEF CreateTask, UpdateTask, CloseTask, ReopenTask, WriteTask, Cleanup
  <2>2. QED
    BY <1>1, <2>1, TypeTask, DraftQuiet
<1>2. CASE Tick
  <2>1. now' \in Time
    BY <1>2, SummaryAssumption DEF Tick, TypeInv, TypeOK, Time
  <2>2. TypeInv'
    BY <1>2, <2>1, TypeRest DEF Tick, TypeInv, TypeOK, tables, files, git
  <2>3. QED
    BY <1>2, <2>2, DraftQuiet DEF Tick, tables
<1>3. CASE UNCHANGED vars
  <2>1. TypeInv'
    BY <1>3, TypeRest DEF vars, TypeInv, TypeOK
  <2>2. QED
    BY <1>3, <2>1, DraftQuiet DEF vars, files
<1>4. CASE \/ \E g \in Workers : StartWorker(g)
           \/ \E g \in Regenerators : StartRegenerate(g)
           \/ \E g \in Gens :
                \/ ReadEvents(g) \/ ReadRow(g) \/ ReadPending(g) \/ InsertRun(g)
                \/ WriteSnapshot(g) \/ WriteDraft(g) \/ FinishRun(g) \/ FailGenerate(g)
  BY <1>4, TypeGen, DraftGen DEF Gens
<1>5. CASE \E p \in Publishers :
             \/ StartPublish(p) \/ Approve(p) \/ CheckIndex(p) \/ Add(p) \/ Compare(p)
             \/ Commit(p) \/ Push(p) \/ Verify(p) \/ PickFirst(p) \/ NothingToArchive(p)
             \/ Archive(p) \/ Publish(p) \/ FailPublish(p)
  BY <1>5, TypePub, DraftPub
<1>6. QED
  BY <1>1, <1>2, <1>3, <1>4, <1>5 DEF Next

LEMMA DraftBegins == Init => TypeInv /\ DraftInv
<1>1. Init => Versioned
  BY DEF Init, Versioned
<1>2. QED
  BY <1>1, TypeInit, DraftInit DEF TypeInv

LEMMA DraftAlways == Spec => [](TypeInv /\ DraftInv)
<1>1. TypeInv /\ DraftInv /\ [Next]_vars => (TypeInv /\ DraftInv)'
  BY DraftNext
<1>2. QED
  BY <1>1, DraftBegins, PTL DEF Spec

\* The tables, files and processes have their types at all times: no snapshot that a
\* publisher reads back is missing.
THEOREM SummaryTypeCorrect == Spec => []TypeOK
<1>1. TypeInv /\ DraftInv => TypeOK
  BY DEF TypeInv
<1>2. QED
  BY <1>1, DraftAlways, PTL

\* A run past generation, its snapshot and its draft are of one generation, whatever
\* generators work on the week (SummaryService.generate, UNIQUE(iso_year, iso_week)).
THEOREM OneGeneration == Spec => []FilesMatchRun
<1>1. TypeInv /\ DraftInv => FilesMatchRun
  BY DEF DraftInv
<1>2. QED
  BY <1>1, DraftAlways, PTL

-----------------------------------------------------------------------------
(* Only what was confirmed is on the remote *)

Confirmed == {"publishing", "published"}

\* A file of the summary repository is the draft of a confirmed run.
Holds(repo) ==
    \A w \in Weeks : repo[w] # NoFile => run[w].status \in Confirmed /\ repo[w] = run[w].sha

\* A publisher past its first transaction works on a confirmed run.
PublisherConfirmed ==
    \A p \in Publishers :
        pub[p].pc \notin {"idle", "approve"} => run[pub[p].week].status \in Confirmed

RepoInv == Holds(index) /\ Holds(head) /\ Holds(remote) /\ PublisherConfirmed

\* What is confirmed stays so, with the same hash.
Steady ==
    \A w \in Weeks : run[w].status \in Confirmed =>
        run'[w].status \in Confirmed /\ run'[w].sha = run[w].sha

LEMMA SteadyNext ==
    ASSUME TypeInv, DraftInv, [Next]_vars
    PROVE  Steady
<1>1. ASSUME UNCHANGED run PROVE Steady
  BY <1>1 DEF Steady
<1>2. ASSUME NEW g \in Gens, InsertRun(g) PROVE Steady
  <2>1. gen[g].week \in Weeks
    BY DEF TypeInv, TypeOK, Generator
  <2>2. QED
    BY <1>2, <2>1 DEF InsertRun, Steady, Confirmed, TypeInv, TypeOK
<1>3. ASSUME NEW g \in Gens, FinishRun(g) PROVE Steady
  <2>1. gen[g].pc \in Writing
    BY <1>3 DEF FinishRun, GenStep, Writing
  <2>2. gen[g].week \in Weeks /\ run[gen[g].week].status = "generating"
    BY <2>1, WriterAlone
  <2>3. QED
    BY <1>3, <2>2 DEF FinishRun, Steady, Confirmed, TypeInv, TypeOK
<1>4. ASSUME NEW p \in Publishers, Approve(p) \/ Publish(p) PROVE Steady
  <2>1. pub[p].week \in Weeks
    BY DEF TypeInv, TypeOK, Publisher
  <2>2. QED
    BY <1>4, <2>1 DEF Approve, Publish, Steady, Confirmed, TypeInv, TypeOK
<1>5. CASE \/ \E t \in Tasks : CreateTask(t) \/ UpdateTask(t) \/ CloseTask(t) \/ ReopenTask(t)
           \/ Cleanup \/ Tick \/ UNCHANGED vars
  BY <1>1, <1>5
     DEF CreateTask, UpdateTask, CloseTask, ReopenTask, WriteTask, Cleanup, Tick, tables, vars
<1>6. CASE \/ \E g \in Workers : StartWorker(g)
           \/ \E g \in Regenerators : StartRegenerate(g)
           \/ \E g \in Gens :
                \/ ReadEvents(g) \/ ReadRow(g) \/ ReadPending(g)
                \/ WriteSnapshot(g) \/ WriteDraft(g) \/ FailGenerate(g)
  BY <1>1, <1>6
     DEF StartWorker, StartRegenerate, Begin, ReadEvents, ReadRow, ReadPending, Read,
         WriteSnapshot, WriteDraft, FailGenerate, tables, vars
<1>7. CASE \E p \in Publishers :
             \/ StartPublish(p) \/ CheckIndex(p) \/ Add(p) \/ Compare(p)
             \/ Commit(p) \/ Push(p) \/ Verify(p) \/ PickFirst(p) \/ NothingToArchive(p)
             \/ Archive(p) \/ FailPublish(p)
  BY <1>1, <1>7
     DEF StartPublish, CheckIndex, Add, Compare, Commit, Push, Verify, PickFirst,
         NothingToArchive, Archive, FailPublish, Check, tables
<1>8. QED
  BY <1>2, <1>3, <1>4, <1>5, <1>6, <1>7 DEF Next

\* A step that leaves the repository alone, and publishers at most in the same place.
LEMMA RepoQuiet ==
    ASSUME TypeInv, RepoInv, Steady, UNCHANGED git,
           \A p \in Publishers :
               \/ pub'[p].pc \in {"idle", "approve"}
               \/ pub[p].pc \notin {"idle", "approve"} /\ pub'[p].week = pub[p].week
    PROVE  RepoInv'
<1>1. \A p \in Publishers : pub[p].week \in Weeks
  BY DEF TypeInv, TypeOK, Publisher
<1>2. PublisherConfirmed'
  BY <1>1 DEF RepoInv, PublisherConfirmed, Steady
<1>3. Holds(index)' /\ Holds(head)' /\ Holds(remote)'
  BY DEF RepoInv, Holds, Steady, git
<1>4. QED
  BY <1>2, <1>3 DEF RepoInv

LEMMA RepoPub ==
    ASSUME TypeInv, DraftInv, RepoInv, Steady, NEW p \in Publishers,
           \/ StartPublish(p) \/ Approve(p) \/ CheckIndex(p) \/ Add(p) \/ Compare(p)
           \/ Commit(p) \/ Push(p) \/ Verify(p) \/ PickFirst(p) \/ NothingToArchive(p)
           \/ Archive(p) \/ Publish(p) \/ FailPublish(p)
    PROVE  RepoInv'
<1>1. pub[p] \in Publisher /\ pub[p].week \in Weeks
  BY DEF TypeInv, TypeOK, Publisher
<1>2. IdlePub.pc = "idle" /\ \A pc : At(p, pc).week = pub[p].week
  BY <1>1 DEF IdlePub, At, Publisher
<1>3. ASSUME NEW pc, pc \notin {"idle", "approve"}, NEW next, PubStep(p, pc, next),
             next.pc = "idle" \/ next.week = pub[p].week
      PROVE  \A q \in Publishers :
               \/ pub'[q].pc \in {"idle", "approve"}
               \/ pub[q].pc \notin {"idle", "approve"} /\ pub'[q].week = pub[q].week
  <2>1. pub'[p] = next /\ \A q \in Publishers : q # p => pub'[q] = pub[q]
    BY <1>3 DEF PubStep, TypeInv, TypeOK
  <2>2. QED
    BY <1>3, <2>1 DEF PubStep
<1>4. ASSUME NEW pc, pc \notin {"idle", "approve"}, NEW next, PubStep(p, pc, next),
             next.pc = "idle" \/ next.week = pub[p].week
      PROVE  PublisherConfirmed'
  <2>1. \A q \in Publishers : pub[q].week \in Weeks
    BY DEF TypeInv, TypeOK, Publisher
  <2>2. QED
    BY <1>3, <1>4, <2>1 DEF RepoInv, PublisherConfirmed, Steady
<1>5. CASE StartPublish(p)
  <2>1. PICK w \in Weeks : Check(p, "idle", [IdlePub EXCEPT !.pc = "approve", !.week = w])
    BY <1>5 DEF StartPublish
  <2>2. pub'[p].pc = "approve" /\ \A q \in Publishers : q # p => pub'[q] = pub[q]
    BY <2>1 DEF Check, PubStep, IdlePub, TypeInv, TypeOK
  <2>3. UNCHANGED git
    BY <2>1 DEF Check
  <2>4. QED
    BY <2>2, <2>3, RepoQuiet
<1>6. CASE Approve(p)
  <2>1. run'[pub[p].week].status = "publishing"
    BY <1>1, <1>6 DEF Approve, TypeInv, TypeOK
  <2>2. pub'[p].week = pub[p].week /\ \A q \in Publishers : q # p => pub'[q] = pub[q]
    BY <1>2, <1>6 DEF Approve, PubStep, TypeInv, TypeOK
  <2>3. \A q \in Publishers : pub[q].week \in Weeks
    BY DEF TypeInv, TypeOK, Publisher
  <2>4. PublisherConfirmed'
    BY <2>1, <2>2, <2>3 DEF RepoInv, PublisherConfirmed, Steady, Confirmed
  <2>5. Holds(index)' /\ Holds(head)' /\ Holds(remote)'
    BY <1>6 DEF Approve, git, RepoInv, Holds, Steady
  <2>6. QED
    BY <2>4, <2>5 DEF RepoInv
<1>7. CASE CheckIndex(p)
  BY <1>2, <1>3, <1>7, RepoQuiet DEF CheckIndex, Check
<1>8. CASE Add(p)
  <2>1. PubStep(p, "add", At(p, "compare"))
    BY <1>8 DEF Add
  <2>2. pub[p].pc = "add"
    BY <2>1 DEF PubStep
  <2>3. run[pub[p].week].status \in Confirmed /\ draft[pub[p].week] = run[pub[p].week].sha
    BY <1>1, <2>2 DEF RepoInv, PublisherConfirmed, DraftInv, FilesMatchRun, Confirmed
  <2>4. Holds(index)'
    BY <1>1, <1>8, <2>3 DEF Add, RepoInv, Holds, Steady, TypeInv, TypeOK
  <2>5. Holds(head)' /\ Holds(remote)'
    BY <1>8 DEF Add, RepoInv, Holds, Steady
  <2>6. QED
    BY <1>2, <1>4, <2>1, <2>4, <2>5 DEF RepoInv
<1>9. CASE Compare(p)
  <2>1. PubStep(p, "compare", At(p, "commit")) \/ PubStep(p, "compare", IdlePub)
    BY <1>9 DEF Compare
  <2>2. \A w \in Weeks : index'[w] = index[w] \/ index'[w] = head[w]
    BY <1>1, <1>9 DEF Compare, TypeInv, TypeOK
  <2>3. Holds(index)'
    BY <2>2 DEF RepoInv, Holds, Steady
  <2>4. Holds(head)' /\ Holds(remote)'
    BY <1>9 DEF Compare, RepoInv, Holds, Steady
  <2>5. QED
    BY <1>2, <1>4, <2>1, <2>3, <2>4 DEF RepoInv
<1>10. CASE Commit(p)
  <2>1. PubStep(p, "commit", At(p, "push")) \/ PubStep(p, "commit", IdlePub)
    BY <1>10 DEF Commit
  <2>2. Holds(index)' /\ Holds(head)' /\ Holds(remote)'
    BY <1>10 DEF Commit, RepoInv, Holds, Steady
  <2>3. QED
    BY <1>2, <1>4, <2>1, <2>2 DEF RepoInv
<1>11. CASE Push(p)
  <2>1. PubStep(p, "push", At(p, "verify"))
    BY <1>11 DEF Push
  <2>2. Holds(index)' /\ Holds(head)' /\ Holds(remote)'
    BY <1>11 DEF Push, RepoInv, Holds, Steady
  <2>3. QED
    BY <1>2, <1>4, <2>1, <2>2 DEF RepoInv
<1>12. CASE Verify(p)
  <2>1. \A s : [At(p, "read") EXCEPT !.todo = s].week = pub[p].week
    BY <1>1 DEF At, Publisher
  <2>2. QED
    BY <1>2, <1>3, <1>12, <2>1, RepoQuiet DEF Verify, Check
<1>13. CASE PickFirst(p)
  <2>1. PICK todo, held :
            \/ Check(p, "read", [At(p, "archive") EXCEPT !.held = held, !.todo = todo])
            \/ Check(p, "read", [pub[p] EXCEPT !.todo = todo])
    BY <1>13 DEF PickFirst
  <2>2. /\ [At(p, "archive") EXCEPT !.held = held, !.todo = todo].week = pub[p].week
        /\ [pub[p] EXCEPT !.todo = todo].week = pub[p].week
    BY <1>1 DEF At, Publisher
  <2>3. QED
    BY <1>3, <2>1, <2>2, RepoQuiet DEF Check
<1>14. CASE NothingToArchive(p)
  BY <1>2, <1>3, <1>14, RepoQuiet DEF NothingToArchive, Check
<1>15. CASE Archive(p)
  <2>1. PubStep(p, "archive", At(p, "publish")) \/ PubStep(p, "archive", IdlePub)
    BY <1>15 DEF Archive
  <2>2. UNCHANGED git
    BY <1>15 DEF Archive
  <2>3. QED
    BY <1>2, <1>3, <2>1, <2>2, RepoQuiet
<1>16. CASE Publish(p)
  BY <1>2, <1>3, <1>16, RepoQuiet DEF Publish
<1>17. CASE FailPublish(p)
  <2>1. pub'[p].pc = "idle" /\ \A q \in Publishers : q # p => pub'[q] = pub[q]
    BY <1>2, <1>17 DEF FailPublish, TypeInv, TypeOK
  <2>2. QED
    BY <1>17, <2>1, RepoQuiet DEF FailPublish
<1>18. QED
  BY <1>5, <1>6, <1>7, <1>8, <1>9, <1>10, <1>11, <1>12, <1>13, <1>14, <1>15, <1>16, <1>17

LEMMA RepoNext ==
    ASSUME TypeInv, DraftInv, RepoInv, [Next]_vars
    PROVE  RepoInv'
<1>1. Steady
  BY SteadyNext
<1>2. ASSUME UNCHANGED <<git, pub>> PROVE RepoInv'
  BY <1>1, <1>2, RepoQuiet
<1>3. CASE \/ \E t \in Tasks : CreateTask(t) \/ UpdateTask(t) \/ CloseTask(t) \/ ReopenTask(t)
           \/ Cleanup \/ Tick \/ UNCHANGED vars
  BY <1>2, <1>3
     DEF CreateTask, UpdateTask, CloseTask, ReopenTask, WriteTask, Cleanup, Tick, git, vars
<1>4. CASE \/ \E g \in Workers : StartWorker(g)
           \/ \E g \in Regenerators : StartRegenerate(g)
           \/ \E g \in Gens :
                \/ ReadEvents(g) \/ ReadRow(g) \/ ReadPending(g) \/ InsertRun(g)
                \/ WriteSnapshot(g) \/ WriteDraft(g) \/ FinishRun(g) \/ FailGenerate(g)
  <2>1. ASSUME NEW g, NEW pc, NEW next, GenStep(g, pc, next) PROVE UNCHANGED <<git, pub>>
    BY <2>1 DEF GenStep
  <2>2. QED
    BY <1>2, <1>4, <2>1
       DEF StartWorker, StartRegenerate, Begin, ReadEvents, ReadRow, ReadPending, Read,
           InsertRun, WriteSnapshot, WriteDraft, FinishRun, FailGenerate, git, vars
<1>5. CASE \E p \in Publishers :
             \/ StartPublish(p) \/ Approve(p) \/ CheckIndex(p) \/ Add(p) \/ Compare(p)
             \/ Commit(p) \/ Push(p) \/ Verify(p) \/ PickFirst(p) \/ NothingToArchive(p)
             \/ Archive(p) \/ Publish(p) \/ FailPublish(p)
  BY <1>1, <1>5, RepoPub
<1>6. QED
  BY <1>3, <1>4, <1>5 DEF Next

LEMMA RepoBegins == Init => RepoInv
<1> SUFFICES ASSUME Init PROVE RepoInv
  OBVIOUS
<1>1. \A p \in Publishers : pub[p].pc = "idle"
  BY DEF Init, IdlePub
<1>2. QED
  BY <1>1 DEF Init, NoFiles, RepoInv, Holds, PublisherConfirmed

LEMMA RepoAlways == Spec => []RepoInv
<1>1. TypeInv /\ DraftInv /\ RepoInv /\ [Next]_vars => RepoInv'
  BY RepoNext
<1>2. QED
  BY <1>1, RepoBegins, DraftAlways, PTL DEF Spec

\* For any number of publishers in one work tree, each of which may stop anywhere and
\* commits whatever is staged, the remote holds confirmed drafts only, as they were
\* confirmed (GitPublisher.publish).
THEOREM RemoteIsConfirmed == Spec => []OnlyConfirmedIsRemote
<1>1. RepoInv => OnlyConfirmedIsRemote
  BY DEF RepoInv, Holds, OnlyConfirmedIsRemote, Confirmed
<1>2. QED
  BY <1>1, RepoAlways, PTL
=============================================================================
