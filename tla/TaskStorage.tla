----------------------------- MODULE TaskStorage -----------------------------
(***************************************************************************)
(* The file tasks.sqlite3 as several processes use it: connections that    *)
(* wait for the operation barrier, transactions, initialization, the       *)
(* import of the old JSON files, backups, rotation and restore, with       *)
(* time-outs, failing renames and processes that die between any two       *)
(* steps.  A transaction of the other modules is Begin and Commit here.    *)
(***************************************************************************)
EXTENDS Naturals, Sequences, FiniteSets, SequencesExt

CONSTANTS Procs,          \* threads and processes
          Nobody,         \* no process
          MaxRows,        \* bound: rows that transactions insert
          MaxFiles,       \* bound: database files that restore and initialize make
          MaxMade,        \* bound: backups that are begun
          MaxBackups,     \* DatabaseBackupService.max_backups
          MaxBytes,       \* DatabaseBackupService.max_total_bytes
          MaxTrouble,     \* bound: processes that die, renames and statements that fail
          CanRenameOpen   \* may a file be renamed that a process has open (POSIX)

ASSUME StorageAssumption ==
    /\ IsFiniteSet(Procs) /\ Nobody \notin Procs
    /\ MaxRows \in Nat /\ MaxFiles \in Nat \ {0} /\ MaxMade \in Nat \ {0}
    /\ MaxBackups \in Nat \ {0} /\ MaxBytes \in Nat \ {0}
    /\ MaxTrouble \in Nat
    /\ CanRenameOpen \in BOOLEAN

Ids == 1 .. MaxFiles
Rows == 0 .. MaxRows
Legacy == 0           \* the rows of the old JSON files and the mark that they are in

\* A database: has it its tables, the rows in it, and the backup that
\* maintenance_state records for today (0: none).
Contents == [tables : BOOLEAN, rows : SUBSET Rows, today : 0 .. MaxMade]
Blank == [tables |-> FALSE, rows |-> {}, today |-> 0]

VARIABLES
    present,    \* the file at the database's path, 0 when there is none
    held,       \* what each file holds, its log included
    used,       \* the files that were made
    log,        \* rows of the log (-wal) at the database's path
    writer,     \* who has the write lock of each file
    barrier,    \* who has the operation lock
    initLock,   \* the initialization lock file: none, held, left by a dead process
    dailyLock,  \* the daily lock file: likewise
    backups,    \* the files in the backup directory, oldest name first
    proc,       \* what each process is doing
    last, made, trouble,    \* rows inserted, backups begun, deaths and failures so far
    taken       \* history: what source.backup copied

vars == <<present, held, used, log, writer, barrier, initLock, dailyLock,
          backups, proc, last, made, trouble, taken>>
files == <<present, held, used, log>>
locks == <<writer, barrier, initLock, dailyLock>>
counts == <<last, made, trouble, taken>>

\* conn: the file its connection is on; data: a snapshot in a temporary file;
\* id: the backup it makes or returns; aside, asideLog: what it moved away;
\* fresh: it created the file it initializes.
Idle == [op |-> "none", pc |-> "idle", conn |-> 0, data |-> Blank, id |-> 0, aside |-> 0,
         asideLog |-> {}, fresh |-> FALSE]

Behind == {"init", "manual", "daily", "restore"}     \* work under the barrier
Inserting == {"write", "archive"}                    \* insert rows
Operations == Behind \cup {"write", "archive", "check"}

\* An installation that was used before, with one backup.
Empty == [tables |-> TRUE, rows |-> {}, today |-> 0]
Init == /\ present = 1 /\ used = {1} /\ log = {}
        /\ held = [i \in Ids |-> IF i = 1 THEN Empty ELSE Blank]
        /\ writer = [i \in Ids |-> Nobody]
        /\ barrier = Nobody /\ initLock = "none" /\ dailyLock = "none"
        /\ backups = <<[id |-> 1, data |-> Empty]>> /\ made = 1 /\ taken = {Empty}
        /\ proc = [p \in Procs |-> Idle]
        /\ last = 0 /\ trouble = 0

-----------------------------------------------------------------------------
At(p, pc) == proc[p].pc = pc
Op(p) == proc[p].op
Conn(p) == proc[p].conn
Goto(p, pc) == proc' = [proc EXCEPT ![p].pc = pc]
Users(f) == {q \in Procs : proc[q].conn = f}
Gate(p) == barrier \in {Nobody, p}                   \* _wait_for_operation_barrier passes
Unlocked(p, f) == writer[f] \in {Nobody, p}
Writing(p, rec) == held' = [held EXCEPT ![present] = rec]

\* What leaving does, normally or by an exception: rollback, close, the
\* locks.  The last connection to close on a file merges its log.
Leave(p) ==
    /\ proc' = [proc EXCEPT ![p] = Idle]
    /\ writer' = [f \in Ids |-> IF writer[f] = p THEN Nobody ELSE writer[f]]
    /\ barrier' = IF barrier = p THEN Nobody ELSE barrier
    /\ initLock' = IF Op(p) = "init" /\ barrier = p /\ ~At(p, "initLock") THEN "none" ELSE initLock
    /\ dailyLock' = IF Op(p) = "daily" /\ barrier = p /\ ~At(p, "dailyLock") THEN "none" ELSE dailyLock
    /\ log' = IF Conn(p) = present /\ present # 0 /\ Users(present) = {p} THEN {} ELSE log

-----------------------------------------------------------------------------
\* connect and transaction

\* The bounds: an operation starts only when there is room to finish it.
Busy(ops) == Cardinality({p \in Procs : Op(p) \in ops})
Room(op) ==
    /\ op \in Inserting => last + Busy(Inserting) < MaxRows
    /\ op \in {"init", "restore"} => Cardinality(used) + Busy({"init", "restore"}) < MaxFiles
    /\ op \in {"manual", "daily"} => made + Busy({"manual", "daily"}) < MaxMade

Start(p, op) ==
    /\ At(p, "idle") /\ Room(op)
    /\ proc' = [proc EXCEPT ![p].op = op, ![p].pc = IF op \in Behind THEN "acquire" ELSE "connect"]
    /\ UNCHANGED <<files, locks, backups, counts>>

PassBarrier(p) ==
    /\ At(p, "connect") /\ Gate(p)
    /\ Goto(p, "open")
    /\ UNCHANGED <<files, locks, backups, counts>>

\* mode=rw does not create the file; without tables the first statement fails.
Open(p) ==
    /\ At(p, "open") /\ UNCHANGED <<held, used, backups, present, counts>>
    /\ IF present = 0 \/ ~held[present].tables
       THEN Leave(p)
       ELSE /\ proc' = [proc EXCEPT ![p].conn = present,
                                    ![p].pc = IF Op(p) = "check" THEN "check" ELSE "begin"]
            /\ UNCHANGED <<log, locks>>

\* The write lock: BEGIN IMMEDIATE, or the first insert of a deferred one.
Begin(p) ==
    /\ At(p, "begin") /\ Unlocked(p, Conn(p))
    /\ writer' = [writer EXCEPT ![Conn(p)] = p]
    /\ Goto(p, IF Op(p) = "archive" THEN "nested" ELSE "commit")
    /\ UNCHANGED <<files, barrier, initLock, dailyLock, backups, counts>>

\* _mark_archived_tasks reads a task on a connection of its own.
NestedConnect(p) ==
    /\ At(p, "nested") /\ Gate(p)
    /\ IF present = 0 THEN Leave(p) ELSE Goto(p, "commit") /\ UNCHANGED <<log, locks>>
    /\ UNCHANGED <<present, held, used, backups, counts>>

Bug_Commit(p) ==
    /\ At(p, "commit")
    /\ last' = last + 1
    /\ held' = [held EXCEPT ![Conn(p)].rows = @ \cup {last'}]
    /\ writer' = [writer EXCEPT ![Conn(p)] = Nobody]
    /\ Goto(p, "close")
    /\ UNCHANGED <<present, used, log, barrier, initLock, dailyLock, backups, made, trouble, taken>>

\* The import looks for its mark again inside the transaction.
Commit(p) ==
    LET f == Conn(p)
        row == IF Op(p) = "import" THEN Legacy ELSE last + 1
    IN /\ At(p, "commit")
       /\ last' = IF row = Legacy THEN last ELSE row
       /\ held' = [held EXCEPT ![f].rows = @ \cup {row}]
       /\ log' = IF f = present /\ row \notin held[f].rows THEN log \cup {row} ELSE log
       /\ writer' = [writer EXCEPT ![f] = Nobody]
       /\ Goto(p, "close")
       /\ UNCHANGED <<present, used, barrier, initLock, dailyLock, backups, made, trouble, taken>>

Close(p) ==
    /\ At(p, "close") /\ Leave(p)
    /\ UNCHANGED <<present, held, used, backups, counts>>

\* LegacyJsonMigrator.run: it is done, or the sources cannot be read, or it
\* imports them on another connection.
CheckImported(p) ==
    /\ At(p, "check")
    /\ \/ Leave(p)
       \/ /\ Legacy \notin held[Conn(p)].rows
          /\ proc' = [proc EXCEPT ![p] = [Idle EXCEPT !.op = "import", !.pc = "connect"]]
          /\ log' = IF Conn(p) = present /\ Users(present) = {p} THEN {} ELSE log
          /\ UNCHANGED locks
    /\ UNCHANGED <<present, held, used, backups, counts>>

-----------------------------------------------------------------------------
\* initialize

Acquire(p) ==
    /\ At(p, "acquire") /\ barrier = Nobody
    /\ barrier' = p
    /\ Goto(p, CASE Op(p) = "init" -> "initLock" [] Op(p) = "daily" -> "dailyLock"
                 [] Op(p) = "manual" -> "copy" [] Op(p) = "restore" -> "aside")
    /\ UNCHANGED <<files, writer, initLock, dailyLock, backups, counts>>

TakeInitLock(p) ==
    /\ At(p, "initLock") /\ initLock = "none"
    /\ initLock' = "held"
    /\ Goto(p, "create")
    /\ UNCHANGED <<files, writer, barrier, dailyLock, backups, counts>>

\* An empty file is made when there is none; opening it removes a log that
\* was left at its path, with what only the log held.
Create(p) ==
    /\ At(p, "create")
    /\ IF present # 0
       THEN /\ proc' = [proc EXCEPT ![p].pc = "schema", ![p].conn = present]
            /\ UNCHANGED files
       ELSE \E f \in Ids \ used :
              /\ \A g \in Ids \ used : f <= g
              /\ present' = f /\ used' = used \cup {f}
              /\ held' = [g \in Ids |-> [held[g] EXCEPT !.rows = @ \ log]]
              /\ log' = {}
              /\ proc' = [proc EXCEPT ![p].pc = "schema", ![p].conn = f, ![p].fresh = TRUE]
    /\ UNCHANGED <<locks, backups, counts>>

Schema(p) ==
    /\ At(p, "schema") /\ Unlocked(p, Conn(p))
    /\ held' = [held EXCEPT ![Conn(p)].tables = TRUE]
    /\ Goto(p, "close")
    /\ UNCHANGED <<present, used, log, locks, backups, counts>>

-----------------------------------------------------------------------------
\* create_backup

Valid(id) == \E i \in DOMAIN backups : backups[i].id = id

\* _create_daily: take the lock (the lock file of a dead process is removed
\* if it is ten minutes old), and look for the backup recorded for today.
LookUp(p) ==
    /\ At(p, "dailyLock") /\ dailyLock # "held"
    /\ IF present = 0 \/ ~held[present].tables
       THEN proc' = [proc EXCEPT ![p] = Idle] /\ barrier' = Nobody /\ dailyLock' = "none"
       ELSE LET id == held[present].today IN
            /\ proc' = IF Valid(id) THEN [proc EXCEPT ![p].id = id, ![p].pc = "return"]
                                    ELSE [proc EXCEPT ![p].pc = "copy"]
            /\ dailyLock' = "held" /\ UNCHANGED barrier
    /\ UNCHANGED <<files, writer, initLock, backups, counts>>

\* The database file without its log.
Bug_Copy(p) ==
    LET file == [held[present] EXCEPT !.rows = @ \ log]
    IN /\ At(p, "copy") /\ UNCHANGED <<present, held, used, last, trouble>>
       /\ IF present = 0
          THEN Leave(p) /\ UNCHANGED <<backups, made, taken>>
          ELSE /\ made' = made + 1
               /\ backups' = Append(backups, [id |-> made', data |-> Blank])
               /\ taken' = taken \cup {file}
               /\ proc' = [proc EXCEPT ![p].conn = present, ![p].id = made',
                                       ![p].data = file, ![p].pc = "publish"]
               /\ UNCHANGED <<log, locks>>

\* _create_snapshot: connect, reserve the final name with an empty file, copy.
Copy(p) ==
    /\ At(p, "copy") /\ UNCHANGED <<present, held, used, last, trouble>>
    /\ IF present = 0
       THEN Leave(p) /\ UNCHANGED <<backups, made, taken>>
       ELSE /\ made' = made + 1
            /\ backups' = Append(backups, [id |-> made', data |-> Blank])
            /\ taken' = taken \cup {held[present]}
            /\ proc' = [proc EXCEPT ![p].conn = present, ![p].id = made',
                                    ![p].data = held[present], ![p].pc = "publish"]
            /\ UNCHANGED <<log, locks>>

Publish(p) ==
    /\ At(p, "publish")
    /\ backups' = [i \in DOMAIN backups |->
           IF backups[i].id = proc[p].id THEN [backups[i] EXCEPT !.data = proc[p].data] ELSE backups[i]]
    /\ proc' = [proc EXCEPT ![p].conn = 0, ![p].data = Blank, ![p].pc = IF Op(p) = "daily" THEN "record" ELSE "prune"]
    /\ log' = IF Users(present) = {p} THEN {} ELSE log
    /\ UNCHANGED <<present, held, used, locks, counts>>

Record(p) ==
    /\ At(p, "record")
    /\ IF present = 0 THEN Leave(p) /\ UNCHANGED held
       ELSE /\ Unlocked(p, present)
            /\ held' = [held EXCEPT ![present].today = proc[p].id]
            /\ Goto(p, "prune")
            /\ UNCHANGED <<log, locks>>
    /\ UNCHANGED <<present, used, backups, counts>>

\* The size of a file: none for an empty one, else a page and its rows.
Size(data) == IF data.tables THEN 1 + Cardinality(data.rows) ELSE 0
Bytes(b) == FoldLeft(LAMBDA sum, e : sum + Size(e.data), 0, b)
TooMuch(b) == Len(b) > MaxBackups \/ Bytes(b) > MaxBytes

Bug_Rotated(b) == IF TooMuch(b) THEN SubSeq(b, 1, MaxBackups) ELSE b

\* The oldest go, one by one, while there are too many and more than one.
Rotated(b) ==
    LET Rest(k) == SubSeq(b, k, Len(b))
        enough == {k \in DOMAIN b : k = Len(b) \/ ~TooMuch(Rest(k))}
    IN Rest(CHOOSE k \in enough : \A j \in enough : k <= j)

Prune(p) ==
    /\ At(p, "prune")
    /\ backups' = Rotated(backups)
    /\ Goto(p, "return")
    /\ UNCHANGED <<files, locks, counts>>

Return(p) ==
    /\ At(p, "return") /\ Leave(p)
    /\ UNCHANGED <<present, held, used, backups, counts>>

-----------------------------------------------------------------------------
\* restore

\* The user's choice among the valid backups is copied to a temporary file
\* and the database is moved away, unless it is open and must not be.
MoveAside(p) ==
    /\ At(p, "aside") /\ UNCHANGED <<held, used, backups, counts>>
    /\ \/ /\ \/ backups = <<>>
             \/ ~CanRenameOpen /\ present # 0 /\ Users(present) # {}
          /\ Leave(p) /\ UNCHANGED present
       \/ /\ CanRenameOpen \/ present = 0 \/ Users(present) = {}
          /\ present' = 0
          /\ \E i \in DOMAIN backups :
               proc' = [proc EXCEPT ![p].data = backups[i].data,
                                    ![p].aside = present, ![p].pc = "asideLog"]
          /\ UNCHANGED <<log, locks>>

\* A log that is moved without its database is lost.
MoveLogAside(p) ==
    /\ At(p, "asideLog")
    /\ log' = {}
    /\ held' = IF proc[p].aside # 0 THEN held
               ELSE [f \in Ids |-> [held[f] EXCEPT !.rows = @ \ log]]
    /\ proc' = [proc EXCEPT ![p].asideLog = log, ![p].pc = "replace"]
    /\ UNCHANGED <<present, used, locks, backups, counts>>

Replace(p) ==
    /\ At(p, "replace")
    /\ \E f \in Ids \ used :
         /\ \A g \in Ids \ used : f <= g
         /\ present' = f /\ used' = used \cup {f}
         /\ held' = [held EXCEPT ![f] = proc[p].data]
    /\ proc' = [proc EXCEPT ![p] = Idle] /\ barrier' = Nobody
    /\ UNCHANGED <<log, writer, initLock, dailyLock, backups, counts>>

-----------------------------------------------------------------------------
\* What can go wrong

Bug_Awaits(p) == \/ proc[p].pc \in {"connect", "nested"} /\ ~Gate(p)
                 \/ At(p, "acquire") /\ barrier # Nobody
                 \/ At(p, "begin") /\ ~Unlocked(p, Conn(p))

\* A wait has a time-out of five seconds.
Awaits(p) == \/ At(p, "connect") /\ ~Gate(p)
             \/ At(p, "nested") /\ ~Gate(p)
             \/ At(p, "acquire") /\ barrier # Nobody
             \/ At(p, "begin") /\ ~Unlocked(p, Conn(p))
             \/ At(p, "schema") /\ ~Unlocked(p, Conn(p))
             \/ At(p, "record") /\ present # 0 /\ ~Unlocked(p, present)
             \/ At(p, "initLock") /\ initLock # "none"
             \/ At(p, "dailyLock") /\ dailyLock # "none"

GiveUp(p) ==
    /\ Awaits(p) /\ Leave(p)
    /\ UNCHANGED <<present, held, used, backups, counts>>

Fail == /\ trouble < MaxTrouble /\ trouble' = trouble + 1
        /\ UNCHANGED <<last, made, taken>>

\* A database file that initialize made and could not finish is removed.
FailInit(p) ==
    /\ At(p, "schema") /\ Fail /\ Leave(p)
    /\ present' = IF proc[p].fresh THEN 0 ELSE present
    /\ UNCHANGED <<held, used, backups>>

Bug_FailPublish(p) ==
    /\ At(p, "publish") /\ Fail /\ Leave(p)
    /\ backups' = Tail(backups)
    /\ UNCHANGED <<present, held, used>>

\* The name it reserved is the newest.
FailPublish(p) ==
    /\ At(p, "publish") /\ Fail /\ Leave(p)
    /\ backups' = Front(backups)
    /\ UNCHANGED <<present, held, used>>

\* A rename of restore fails: what was moved aside is moved back.
FailRestore(p) ==
    /\ proc[p].pc \in {"asideLog", "replace"} /\ Fail
    /\ proc' = [proc EXCEPT ![p] = Idle]
    /\ barrier' = Nobody
    /\ present' = proc[p].aside
    /\ log' = log \cup proc[p].asideLog
    /\ UNCHANGED <<held, used, writer, initLock, dailyLock, backups>>

\* A rename back fails as well (RestoreRollbackError): the database, its log or
\* both stay where they were moved; without its log the database lacks its rows.
FailUndo(p) ==
    /\ proc[p].pc \in {"asideLog", "replace"}
    /\ trouble + 2 <= MaxTrouble /\ trouble' = trouble + 2
    /\ \E back \in {0, proc[p].aside}, rows \in {{}, proc[p].asideLog} :
         /\ present' = back
         /\ log' = log \cup rows
         /\ held' = [f \in Ids |-> IF f = back
                       THEN [held[f] EXCEPT !.rows = @ \ (proc[p].asideLog \ rows)]
                       ELSE held[f]]
    /\ proc' = [proc EXCEPT ![p] = Idle]
    /\ barrier' = Nobody
    /\ UNCHANGED <<used, writer, initLock, dailyLock, backups, last, made, taken>>

\* The process ends: the kernel closes its files, its lock files stay.
Crash(p) ==
    /\ ~At(p, "idle") /\ Fail
    /\ proc' = [proc EXCEPT ![p] = Idle]
    /\ writer' = [f \in Ids |-> IF writer[f] = p THEN Nobody ELSE writer[f]]
    /\ barrier' = IF barrier = p THEN Nobody ELSE barrier
    /\ initLock' = IF initLock = "held" /\ barrier = p THEN "left" ELSE initLock
    /\ dailyLock' = IF dailyLock = "held" /\ barrier = p THEN "left" ELSE dailyLock
    /\ UNCHANGED <<files, backups>>

-----------------------------------------------------------------------------
Step(p) == \/ PassBarrier(p) \/ Open(p) \/ Begin(p) \/ NestedConnect(p) \/ Commit(p)
           \/ Close(p) \/ CheckImported(p)
           \/ Acquire(p) \/ TakeInitLock(p) \/ Create(p) \/ Schema(p)
           \/ LookUp(p) \/ Copy(p) \/ Publish(p)
           \/ Record(p) \/ Prune(p) \/ Return(p)
           \/ MoveAside(p) \/ MoveLogAside(p) \/ Replace(p)
           \/ GiveUp(p)

Trouble(p) == FailInit(p) \/ FailPublish(p) \/ FailRestore(p) \/ FailUndo(p) \/ Crash(p)

Next == \E p \in Procs : \/ \E op \in Operations : Start(p, op)
                         \/ Step(p) \/ Trouble(p)

Spec == Init /\ [][Next]_vars

\* Every process that can go on does, and a wait ends at its time-out.
FairSpec == Spec /\ \A p \in Procs : WF_vars(Step(p))

-----------------------------------------------------------------------------
Pcs == {"idle", "connect", "open", "begin", "nested", "commit", "close", "check",
        "acquire", "initLock", "create", "schema", "dailyLock",
        "copy", "publish", "record", "prune", "return", "aside", "asideLog", "replace"}

\* The state has its type.
TypeOK ==
    /\ present \in 0 .. MaxFiles /\ used \subseteq Ids /\ log \subseteq Rows
    /\ held \in [Ids -> Contents]
    /\ writer \in [Ids -> Procs \cup {Nobody}] /\ barrier \in Procs \cup {Nobody}
    /\ initLock \in {"none", "held", "left"} /\ dailyLock \in {"none", "held", "left"}
    /\ backups \in Seq([id : 1 .. MaxMade, data : Contents])
    /\ proc \in [Procs -> [op : Operations \cup {"none", "import"}, pc : Pcs, conn : 0 .. MaxFiles,
                          data : Contents, id : 0 .. MaxMade, aside : 0 .. MaxFiles,
                          asideLog : SUBSET Rows, fresh : BOOLEAN]]
    /\ last \in 0 .. MaxRows /\ made \in 0 .. MaxMade
    /\ trouble \in 0 .. MaxTrouble
    /\ taken \subseteq Contents

Vault == INSTANCE TaskVault WITH
    present <- present, held <- held, used <- used, taken <- taken

\* Where an open file cannot be renamed, the files are the vault that
\* TaskVault describes: restore, initialize and transactions do not mix.
IsVault == Vault!Spec

LogLost ==
    /\ trouble' > 1 /\ present = 0
    /\ used' = used \cup ({present'} \ {0}) /\ taken' = taken
    /\ \E rows \in {log} \cup {proc[p].asideLog : p \in Procs} : \A f \in Ids :
          held'[f] \in {held[f], [held[f] EXCEPT !.rows = @ \ rows]}

\* However much goes wrong, the vault loses no more than the rows of a log that
\* was parted from its database, and that only when two things have gone wrong
\* and while there is no database: backup, restore and initialize do no worse.
IsVaultButForLog == Vault!Init /\ [][Vault!Next \/ LogLost]_(Vault!vars)

\* create_backup returns the path of a file that is there and that holds a
\* snapshot, whatever rotation removed meanwhile.
ReturnedBackupExists ==
    \A p \in Procs : At(p, "return") /\ Op(p) \in {"manual", "daily"} =>
        \E i \in DOMAIN backups : backups[i].id = proc[p].id /\ backups[i].data \in taken

\* Rotation never removes the last snapshot, not even when a backup that was
\* begun comes to nothing.
LastSnapshotStays ==
    [][(\E i \in DOMAIN backups : backups[i].data \in taken)
         => (\E i \in DOMAIN backups' : backups'[i].data \in taken')]_vars

\* Every call returns or fails: processes that wait for each other, as a
\* publisher that archives and the daily backup do, come to an end.
EveryCallReturns == \A p \in Procs : []<>(Op(p) = "none")
=============================================================================
