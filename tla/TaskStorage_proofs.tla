-------------------------- MODULE TaskStorage_proofs --------------------------
(***************************************************************************)
(* Proofs about TaskStorage, for any processes, files, backups and limits: *)
(* its types, and that its files are the vault that TaskVault describes.   *)
(***************************************************************************)
EXTENDS TaskStorage, FiniteSetTheorems, SequenceTheorems, WellFoundedInduction, TLAPS

BehindPcs == {"initLock", "create", "schema", "dailyLock", "copy", "publish", "record", "prune",
              "return", "aside", "asideLog", "replace"}

(* What a process may be doing: which operation goes with which step, and who
   has the barrier. *)
Doing(p) ==
  /\ proc[p].pc \in BehindPcs => barrier = p
  /\ At(p, "acquire") => Op(p) \in Behind
  /\ proc[p].pc \in {"connect", "open"} => Op(p) \in Inserting \cup {"check", "import"}
  /\ proc[p].pc \in {"begin", "nested", "commit"} => Op(p) \in Inserting \cup {"import"}
  /\ proc[p].pc \in {"dailyLock", "copy"} => Op(p) \in {"manual", "daily"}
  /\ proc[p].pc \in {"begin", "nested", "commit", "check", "schema"} => Conn(p) # 0
  /\ proc[p].pc \in {"publish", "record", "prune"} => backups # <<>>
DoingInv == \A p \in Procs : Doing(p)

(* An open file is not moved away, so every connection is on the present file. *)
Attached(p) ==
  /\ Conn(p) \in {0, present}
  /\ Conn(p) # 0 =>
       proc[p].pc \in {"begin", "nested", "commit", "close", "check", "schema", "publish"}
  /\ proc[p].fresh => proc[p].pc \in {"schema", "close"}
  /\ (At(p, "schema") /\ proc[p].fresh) => ~held[present].tables /\ Users(present) = {p}
  /\ proc[p].pc \in {"asideLog", "replace"} => present = 0 /\ proc[p].aside \in used \cup {0}
AttachedInv == \A p \in Procs : Attached(p)

(* A file is used before it is present, and blank before it is used. *)
FilesInv ==
  /\ present \in used \cup {0}
  /\ \A f \in Ids \ used : held[f] = Blank

(* What is in a backup or on its way into one, or out of one, is a snapshot. *)
Snapshots == taken \cup {Blank}
DataInv ==
  /\ \A p \in Procs : proc[p].data \in Snapshots
  /\ backups \in Seq([id : 1 .. MaxMade, data : Snapshots])

(* Before the first failure a log has its database and somebody who is on it;
   after one, a log without database is with the process that moves both.
   After a second one nothing is said of the log. *)
LogInv ==
  /\ (trouble = 0 /\ log # {}) => present # 0 /\ Users(present) # {}
  /\ (trouble <= 1 /\ log # {} /\ present = 0) =>
       \E p \in Procs : At(p, "asideLog") /\ proc[p].aside # 0
  /\ trouble = 0 => \A p \in Procs : proc[p].asideLog = {}

(* The bounds leave room for the operations that were let in. *)
Writers == {p \in Procs : /\ Op(p) \in Inserting
                          /\ proc[p].pc \in {"connect", "open", "begin", "nested", "commit"}}
Makers == {p \in Procs : /\ Op(p) \in {"manual", "daily"}
                         /\ proc[p].pc \in {"acquire", "dailyLock", "copy"}}
RoomInv ==
  /\ last + Cardinality(Writers) <= MaxRows
  /\ made + Cardinality(Makers) <= MaxMade

-----------------------------------------------------------------------------
ProcState == [op : Operations \cup {"none", "import"}, pc : Pcs, conn : 0 .. MaxFiles,
              data : Contents, id : 0 .. MaxMade, aside : 0 .. MaxFiles,
              asideLog : SUBSET Rows, fresh : BOOLEAN]

ProcsOK == proc \in [Procs -> ProcState]

RestOK ==
  /\ present \in 0 .. MaxFiles /\ used \subseteq Ids /\ log \subseteq Rows
  /\ held \in [Ids -> Contents]
  /\ writer \in [Ids -> Procs \cup {Nobody}] /\ barrier \in Procs \cup {Nobody}
  /\ initLock \in {"none", "held", "left"} /\ dailyLock \in {"none", "held", "left"}
  /\ backups \in Seq([id : 1 .. MaxMade, data : Contents])
  /\ last \in 0 .. MaxRows /\ made \in 0 .. MaxMade
  /\ trouble \in 0 .. MaxTrouble
  /\ taken \subseteq Contents

LEMMA Parts == TypeOK <=> ProcsOK /\ RestOK
BY DEF TypeOK, ProcsOK, RestOK, ProcState

LEMMA PcNames ==
  /\ "idle" \in Pcs /\ "connect" \in Pcs /\ "open" \in Pcs /\ "begin" \in Pcs
  /\ "nested" \in Pcs /\ "commit" \in Pcs /\ "close" \in Pcs /\ "check" \in Pcs
  /\ "acquire" \in Pcs /\ "initLock" \in Pcs /\ "create" \in Pcs /\ "schema" \in Pcs
  /\ "dailyLock" \in Pcs /\ "copy" \in Pcs /\ "publish" \in Pcs /\ "record" \in Pcs
  /\ "prune" \in Pcs /\ "return" \in Pcs /\ "aside" \in Pcs /\ "asideLog" \in Pcs
  /\ "replace" \in Pcs
BY DEF Pcs

(* One field of a process changes. *)
LEMMA Fields ==
  ASSUME NEW r \in ProcState
  PROVE  /\ \A c \in Pcs : [r EXCEPT !.pc = c] \in ProcState
         /\ \A o \in Operations \cup {"import"} : [r EXCEPT !.op = o] \in ProcState
         /\ \A f \in 0 .. MaxFiles : [r EXCEPT !.conn = f] \in ProcState
         /\ \A f \in 0 .. MaxFiles : [r EXCEPT !.aside = f] \in ProcState
         /\ \A i \in 0 .. MaxMade : [r EXCEPT !.id = i] \in ProcState
         /\ \A c \in Contents : [r EXCEPT !.data = c] \in ProcState
         /\ \A l \in SUBSET Rows : [r EXCEPT !.asideLog = l] \in ProcState
         /\ [r EXCEPT !.fresh = TRUE] \in ProcState
BY DEF ProcState

(* One field of a database changes. *)
LEMMA ContentFields ==
  ASSUME NEW c \in Contents
  PROVE  /\ [c EXCEPT !.tables = TRUE] \in Contents
         /\ \A R \in SUBSET Rows : [c EXCEPT !.rows = R] \in Contents
         /\ \A i \in 0 .. MaxMade : [c EXCEPT !.today = i] \in Contents
         /\ c.rows \in SUBSET Rows
BY DEF Contents

LEMMA BlankIdle == Blank \in Contents /\ Idle \in ProcState
BY StorageAssumption DEF Idle, ProcState, Pcs, Contents, Blank

(* Rotation leaves a part of the backups, the newest among them. *)
LEMMA RotatedPart ==
  ASSUME NEW S, NEW b \in Seq(S), b # <<>>
  PROVE  /\ Rotated(b) \in Seq(S)
         /\ \E k \in 1 .. Len(b) : Rotated(b) = SubSeq(b, k, Len(b))
         /\ Rotated(b) # <<>>
<1> DEFINE Rest(k) == SubSeq(b, k, Len(b))
           enough == {k \in DOMAIN b : k = Len(b) \/ ~TooMuch(Rest(k))}
<1>1. Len(b) \in Nat \ {0} /\ DOMAIN b = 1 .. Len(b)
  BY EmptySeq, LenProperties
<1>2. enough \subseteq Nat /\ Len(b) \in enough
  BY <1>1
<1>3. PICK m \in enough : \A j \in enough : <<j, m>> \notin OpToRel(<, Nat)
  <2> HIDE DEF enough
  <2> QED
    BY <1>2, NatLessThanWellFounded, WFMin
<1>4. \A j \in enough : m <= j
  <2> SUFFICES ASSUME NEW j \in enough PROVE m <= j
    OBVIOUS
  <2>1. ~(j < m)
    BY <1>2, <1>3 DEF OpToRel
  <2> QED
    BY <1>2, <2>1
<1>5. (CHOOSE i \in enough : \A j \in enough : i <= j) \in enough
  <2> HIDE DEF enough
  <2> QED
    BY <1>4
<1>6. Rotated(b) = Rest(CHOOSE i \in enough : \A j \in enough : i <= j)
  BY DEF Rotated
<1>7. \A i \in enough : Rest(i) \in Seq(S)
  <2> SUFFICES ASSUME NEW i \in enough PROVE Rest(i) \in Seq(S)
    OBVIOUS
  <2>1. i \in 1 .. Len(b)
    BY <1>1
  <2>2. \A n \in i .. Len(b) : b[n] \in S
    BY <1>1, <2>1, ElementOfSeq
  <2> QED
    BY <1>1, <2>1, <2>2, SubSeqProperties
<1>8. PICK k \in 1 .. Len(b) : k \in enough /\ Rotated(b) = SubSeq(b, k, Len(b))
  <2> HIDE DEF enough
  <2>1. enough \subseteq 1 .. Len(b)
    BY <1>1 DEF enough
  <2> QED
    BY <1>5, <1>6, <2>1
<1>9. Rotated(b) \in Seq(S)
  <2> HIDE DEF enough
  <2> QED
    BY <1>7, <1>8
<1>10. Len(SubSeq(b, k, Len(b))) = Len(b) - k + 1
  <2> HIDE DEF enough, Rest
  <2>1. \A n \in k .. Len(b) : b[n] \in S
    BY <1>1, ElementOfSeq
  <2> QED
    BY <1>1, <2>1, SubSeqProperties
<1>11. Len(Rotated(b)) # 0
  BY <1>1, <1>8, <1>10
<1> QED
  BY <1>8, <1>9, <1>11, EmptySeq

(* A backup that failed is taken off the end. *)
LEMMA FrontType ==
  ASSUME NEW S, NEW b \in Seq(S), b # <<>>
  PROVE  Front(b) \in Seq(S)
<1>1. Len(b) \in Nat \ {0} /\ \A i \in 1 .. Len(b) - 1 : b[i] \in S
  BY EmptySeq, LenProperties, ElementOfSeq
<1> QED
  BY <1>1, SubSeqProperties DEF Front

(* A backup file that is replaced by a snapshot: the rest stay. *)
LEMMA PublishedBackups ==
  ASSUME NEW D, NEW p \in Procs, Publish(p), proc[p].data \in D,
         backups \in Seq([id : 1 .. MaxMade, data : D])
  PROVE  backups' \in Seq([id : 1 .. MaxMade, data : D])
<1> DEFINE Entry == [id : 1 .. MaxMade, data : D]
           e(i) == IF backups[i].id = proc[p].id
                   THEN [backups[i] EXCEPT !.data = proc[p].data] ELSE backups[i]
<1>1. \A i \in 1 .. Len(backups) : backups[i] \in Entry
  BY ElementOfSeq
<1>2. \A i \in 1 .. Len(backups) : e(i) \in Entry
  BY <1>1
<1>3. backups' = [i \in 1 .. Len(backups) |-> e(i)] /\ Len(backups) \in Nat
  BY LenProperties DEF Publish
<1> HIDE DEF e, Entry
<1>4. [i \in 1 .. Len(backups) |-> e(i)] \in Seq(Entry)
  BY <1>2, <1>3, IsASeq
<1> QED
  BY <1>3, <1>4 DEF Entry

(* What leaving does to the types. *)
LEMMA LeaveTypes ==
  ASSUME ProcsOK, RestOK, NEW p \in Procs, Leave(p)
  PROVE  /\ ProcsOK'
         /\ writer' \in [Ids -> Procs \cup {Nobody}] /\ barrier' \in Procs \cup {Nobody}
         /\ initLock' \in {"none", "held", "left"} /\ dailyLock' \in {"none", "held", "left"}
         /\ log' \subseteq Rows
BY BlankIdle DEF Leave, ProcsOK, RestOK

(* A writer that was let in finds room for its row, a backup for its name. *)
LEMMA RoomLeft ==
  ASSUME RestOK, RoomInv, NEW p \in Procs
  PROVE  /\ p \in Writers => last < MaxRows
         /\ p \in Makers => made < MaxMade
<1>1. IsFiniteSet(Writers) /\ IsFiniteSet(Makers)
  BY StorageAssumption, FS_Subset DEF Writers, Makers
<1>2. /\ Cardinality(Writers) \in Nat /\ Cardinality(Makers) \in Nat
      /\ Writers # {} => Cardinality(Writers) # 0
      /\ Makers # {} => Cardinality(Makers) # 0
  BY <1>1, FS_CardinalityType, FS_EmptySet
<1> QED
  BY <1>2, StorageAssumption DEF RoomInv, RestOK

-----------------------------------------------------------------------------
(* Types *)

(* Processes keep their types. *)
LEMMA NextProcs ==
  ASSUME ProcsOK, RestOK, DoingInv, RoomInv, [Next]_vars
  PROVE  ProcsOK'
<1>1. CASE UNCHANGED vars
  BY <1>1 DEF vars, ProcsOK
<1>2. ASSUME NEW p \in Procs, (\E op \in Operations : Start(p, op)) \/ Step(p) \/ Trouble(p)
      PROVE  ProcsOK'
  <2>1. ASSUME NEW op \in Operations, Start(p, op) PROVE ProcsOK'
    BY <2>1, Fields, PcNames DEF Start, ProcsOK, Goto
  <2>2. ASSUME PassBarrier(p) PROVE ProcsOK'
    BY <2>2, Fields, PcNames DEF PassBarrier, ProcsOK, Goto
  <2>3. ASSUME Open(p) PROVE ProcsOK'
    <3>1. CASE Leave(p)
      BY <3>1, LeaveTypes
    <3>2. CASE ~Leave(p)
      <4>1. PICK c \in Pcs : proc' = [proc EXCEPT ![p].conn = present, ![p].pc = c]
        BY <2>3, <3>2, PcNames DEF Open
      <4> QED
        BY <4>1, Fields DEF ProcsOK, RestOK
    <3> QED
      BY <3>1, <3>2
  <2>4. ASSUME Begin(p) PROVE ProcsOK'
    BY <2>4, Fields, PcNames DEF Begin, ProcsOK, Goto
  <2>5. ASSUME NestedConnect(p) PROVE ProcsOK'
    <3>1. CASE Leave(p)
      BY <3>1, LeaveTypes
    <3>2. CASE Goto(p, "commit")
      BY <3>2, Fields, PcNames DEF ProcsOK, Goto
    <3> QED
      BY <2>5, <3>1, <3>2 DEF NestedConnect
  <2>6. ASSUME Commit(p) PROVE ProcsOK'
    BY <2>6, Fields, PcNames DEF Commit, ProcsOK, Goto
  <2>7. ASSUME Close(p) PROVE ProcsOK'
    BY <2>7, LeaveTypes DEF Close
  <2>8. ASSUME CheckImported(p) PROVE ProcsOK'
    <3>1. CASE Leave(p)
      BY <3>1, LeaveTypes
    <3>2. CASE ~Leave(p)
      <4>1. [Idle EXCEPT !.op = "import", !.pc = "connect"] \in ProcState
        BY BlankIdle, Fields, PcNames
      <4> QED
        BY <2>8, <3>2, <4>1 DEF CheckImported, ProcsOK
    <3> QED
      BY <3>1, <3>2
  <2>9. ASSUME Acquire(p) PROVE ProcsOK'
    <3>1. Op(p) \in Behind
      BY <2>9 DEF Acquire, DoingInv, Doing
    <3>2. PICK c \in Pcs : proc' = [proc EXCEPT ![p].pc = c]
      BY <2>9, <3>1, PcNames DEF Acquire, Goto, Behind
    <3> QED
      BY <3>2, Fields DEF ProcsOK
  <2>10. ASSUME TakeInitLock(p) PROVE ProcsOK'
    BY <2>10, Fields, PcNames DEF TakeInitLock, ProcsOK, Goto
  <2>11. ASSUME Create(p) PROVE ProcsOK'
    <3>1. CASE present # 0
      <4>1. proc' = [proc EXCEPT ![p].pc = "schema", ![p].conn = present]
        BY <2>11, <3>1 DEF Create
      <4> QED
        BY <4>1, Fields, PcNames DEF ProcsOK, RestOK
    <3>2. CASE present = 0
      <4>1. PICK f \in Ids \ used :
              proc' = [proc EXCEPT ![p].pc = "schema", ![p].conn = f, ![p].fresh = TRUE]
        BY <2>11, <3>2 DEF Create
      <4>2. f \in 0 .. MaxFiles
        BY StorageAssumption DEF Ids
      <4> QED
        BY <4>1, <4>2, Fields, PcNames DEF ProcsOK
    <3> QED
      BY <3>1, <3>2
  <2>12. ASSUME Schema(p) PROVE ProcsOK'
    BY <2>12, Fields, PcNames DEF Schema, ProcsOK, Goto
  <2>13. ASSUME LookUp(p) PROVE ProcsOK'
    <3>1. CASE present = 0 \/ ~held[present].tables
      BY <2>13, <3>1, BlankIdle DEF LookUp, ProcsOK
    <3>2. CASE ~(present = 0 \/ ~held[present].tables)
      <4>1. held[present].today \in 0 .. MaxMade
        BY <3>2 DEF RestOK, Contents, Ids
      <4>2. \/ proc' = [proc EXCEPT ![p].id = held[present].today, ![p].pc = "return"]
            \/ proc' = [proc EXCEPT ![p].pc = "copy"]
        BY <2>13, <3>2 DEF LookUp
      <4>3. CASE proc' = [proc EXCEPT ![p].pc = "copy"]
        BY <4>3, Fields, PcNames DEF ProcsOK
      <4>4. CASE proc' = [proc EXCEPT ![p].id = held[present].today, ![p].pc = "return"]
        <5> DEFINE today == held[present].today
        <5> HIDE DEF today
        <5>1. today \in 0 .. MaxMade
          BY <4>1 DEF today
        <5>2. proc' = [proc EXCEPT ![p].id = today, ![p].pc = "return"]
          BY <4>4 DEF today
        <5> QED
          BY <5>1, <5>2, Fields, PcNames DEF ProcsOK
      <4> QED
        BY <4>2, <4>3, <4>4
    <3> QED
      BY <3>1, <3>2
  <2>14. ASSUME Copy(p) PROVE ProcsOK'
    <3>1. CASE present = 0
      BY <2>14, <3>1, LeaveTypes DEF Copy
    <3>2. CASE present # 0
      <4>1. made < MaxMade
        BY <2>14, RoomLeft DEF Copy, DoingInv, Doing, At, Makers, Op
      <4>2. made' \in 0 .. MaxMade /\ held[present] \in Contents
        BY <2>14, <3>2, <4>1, StorageAssumption DEF Copy, RestOK, Ids
      <4>3. proc' = [proc EXCEPT ![p].conn = present, ![p].id = made', ![p].data = held[present],
                                 ![p].pc = "publish"]
        BY <2>14, <3>2 DEF Copy
      <4> QED
        BY <4>2, <4>3, Fields, PcNames DEF ProcsOK, RestOK
    <3> QED
      BY <3>1, <3>2
  <2>15. ASSUME Publish(p) PROVE ProcsOK'
    <3>1. PICK c \in Pcs : proc' = [proc EXCEPT ![p].conn = 0, ![p].data = Blank, ![p].pc = c]
      BY <2>15, PcNames DEF Publish
    <3>2. 0 \in 0 .. MaxFiles
      BY StorageAssumption
    <3> QED
      BY <3>1, <3>2, BlankIdle, Fields DEF ProcsOK
  <2>16. ASSUME Record(p) PROVE ProcsOK'
    <3>1. CASE Leave(p)
      BY <3>1, LeaveTypes
    <3>2. CASE Goto(p, "prune")
      BY <3>2, Fields, PcNames DEF ProcsOK, Goto
    <3> QED
      BY <2>16, <3>1, <3>2 DEF Record
  <2>17. ASSUME Prune(p) PROVE ProcsOK'
    BY <2>17, Fields, PcNames DEF Prune, ProcsOK, Goto
  <2>18. ASSUME Return(p) PROVE ProcsOK'
    BY <2>18, LeaveTypes DEF Return
  <2>19. ASSUME MoveAside(p) PROVE ProcsOK'
    <3>1. CASE Leave(p)
      BY <3>1, LeaveTypes
    <3>2. CASE ~Leave(p)
      <4>1. PICK i \in DOMAIN backups :
              proc' = [proc EXCEPT ![p].data = backups[i].data, ![p].aside = present,
                                   ![p].pc = "asideLog"]
        BY <2>19, <3>2 DEF MoveAside
      <4>2. backups[i] \in [id : 1 .. MaxMade, data : Contents]
        BY <4>1, LenProperties, ElementOfSeq DEF RestOK
      <4> QED
        BY <4>1, <4>2, Fields, PcNames DEF ProcsOK, RestOK
    <3> QED
      BY <3>1, <3>2
  <2>20. ASSUME MoveLogAside(p) PROVE ProcsOK'
    BY <2>20, Fields, PcNames DEF MoveLogAside, ProcsOK, RestOK
  <2>21. ASSUME Replace(p) PROVE ProcsOK'
    BY <2>21, BlankIdle DEF Replace, ProcsOK
  <2>22. ASSUME GiveUp(p) PROVE ProcsOK'
    BY <2>22, LeaveTypes DEF GiveUp
  <2>23. ASSUME FailInit(p) PROVE ProcsOK'
    BY <2>23, LeaveTypes DEF FailInit
  <2>24. ASSUME FailPublish(p) PROVE ProcsOK'
    BY <2>24, LeaveTypes DEF FailPublish
  <2>25. ASSUME FailRestore(p) PROVE ProcsOK'
    BY <2>25, BlankIdle DEF FailRestore, ProcsOK
  <2>26. ASSUME Crash(p) PROVE ProcsOK'
    BY <2>26, BlankIdle DEF Crash, ProcsOK
  <2>27. ASSUME FailUndo(p) PROVE ProcsOK'
    BY <2>27, BlankIdle DEF FailUndo, ProcsOK
  <2> QED
    BY <1>2, <2>1, <2>2, <2>3, <2>4, <2>5, <2>6, <2>7, <2>8, <2>9, <2>10, <2>11, <2>12,
       <2>13, <2>14, <2>15, <2>16, <2>17, <2>18, <2>19, <2>20, <2>21, <2>22, <2>23, <2>24,
       <2>25, <2>26, <2>27 DEF Step, Trouble
<1> QED
  BY <1>1, <1>2 DEF Next

(* Files, locks, backups and counters keep their types. *)
LEMMA NextRest ==
  ASSUME ProcsOK, RestOK, DoingInv, RoomInv, [Next]_vars
  PROVE  RestOK'
<1>1. CASE UNCHANGED vars
  BY <1>1 DEF vars, RestOK
<1>2. ASSUME NEW p \in Procs, (\E op \in Operations : Start(p, op)) \/ Step(p) \/ Trouble(p)
      PROVE  RestOK'
  <2>1. ASSUME NEW op \in Operations, Start(p, op) PROVE RestOK'
    BY <2>1 DEF Start, RestOK, files, locks, counts
  <2>2. ASSUME PassBarrier(p) PROVE RestOK'
    BY <2>2 DEF PassBarrier, RestOK, files, locks, counts
  <2>3. ASSUME Open(p) PROVE RestOK'
    <3>1. CASE Leave(p)
      BY <2>3, <3>1, LeaveTypes DEF Open, RestOK, counts
    <3>2. CASE ~Leave(p)
      BY <2>3, <3>2 DEF Open, RestOK, locks, counts
    <3> QED
      BY <3>1, <3>2
  <2>4. ASSUME Begin(p) PROVE RestOK'
    BY <2>4 DEF Begin, RestOK, files, locks, counts
  <2>5. ASSUME NestedConnect(p) PROVE RestOK'
    <3>1. CASE Leave(p)
      BY <2>5, <3>1, LeaveTypes DEF NestedConnect, RestOK, counts
    <3>2. CASE ~Leave(p)
      BY <2>5, <3>2 DEF NestedConnect, RestOK, locks, counts
    <3> QED
      BY <3>1, <3>2
  <2>6. ASSUME Commit(p) PROVE RestOK'
    <3> DEFINE row == IF Op(p) = "import" THEN Legacy ELSE last + 1
    <3>1. Conn(p) \in Ids
      BY <2>6, StorageAssumption DEF Commit, DoingInv, Doing, ProcsOK, ProcState, Ids, Conn, At
    <3>2. Op(p) # "import" => last < MaxRows
      BY <2>6, RoomLeft DEF Commit, DoingInv, Doing, At, Writers
    <3>3. row \in Rows /\ last' \in 0 .. MaxRows
      <4>1. CASE Op(p) = "import"
        BY <2>6, <4>1, StorageAssumption DEF Commit, RestOK, Rows, Legacy
      <4>2. CASE Op(p) # "import"
        BY <2>6, <4>2, <3>2, StorageAssumption DEF Commit, RestOK, Rows, Legacy
      <4> QED
        BY <4>1, <4>2
    <3> HIDE DEF row
    <3>4. held' = [held EXCEPT ![Conn(p)].rows = @ \cup {row}]
      BY <2>6 DEF Commit, row
    <3>5. held' \in [Ids -> Contents]
      BY <3>1, <3>3, <3>4, ContentFields DEF RestOK
    <3>6. log' = log \/ log' = log \cup {row}
      BY <2>6 DEF Commit, row
    <3> QED
      BY <2>6, <3>3, <3>5, <3>6 DEF Commit, RestOK
  <2>7. ASSUME Close(p) PROVE RestOK'
    BY <2>7, LeaveTypes DEF Close, RestOK, counts
  <2>8. ASSUME CheckImported(p) PROVE RestOK'
    <3>1. CASE Leave(p)
      BY <2>8, <3>1, LeaveTypes DEF CheckImported, RestOK, counts
    <3>2. CASE ~Leave(p)
      BY <2>8, <3>2 DEF CheckImported, RestOK, locks, counts
    <3> QED
      BY <3>1, <3>2
  <2>9. ASSUME Acquire(p) PROVE RestOK'
    BY <2>9 DEF Acquire, RestOK, files, locks, counts
  <2>10. ASSUME TakeInitLock(p) PROVE RestOK'
    BY <2>10 DEF TakeInitLock, RestOK, files, locks, counts
  <2>11. ASSUME Create(p) PROVE RestOK'
    <3>1. CASE present # 0
      BY <2>11, <3>1 DEF Create, RestOK, files, locks, counts
    <3>2. CASE present = 0
      <4>1. PICK f \in Ids \ used :
              /\ present' = f /\ used' = used \cup {f}
              /\ held' = [g \in Ids |-> [held[g] EXCEPT !.rows = @ \ log]]
              /\ log' = {}
        BY <2>11, <3>2 DEF Create
      <4>2. held' \in [Ids -> Contents]
        BY <4>1, ContentFields DEF RestOK
      <4>3. present' \in 0 .. MaxFiles
        BY <4>1, StorageAssumption DEF Ids
      <4> QED
        BY <2>11, <4>1, <4>2, <4>3 DEF Create, RestOK, locks, counts
    <3> QED
      BY <3>1, <3>2
  <2>12. ASSUME Schema(p) PROVE RestOK'
    <3>1. held' \in [Ids -> Contents]
      BY <2>12, ContentFields DEF Schema, RestOK
    <3> QED
      BY <2>12, <3>1 DEF Schema, RestOK, locks, counts
  <2>13. ASSUME LookUp(p) PROVE RestOK'
    BY <2>13 DEF LookUp, RestOK, files, locks, counts
  <2>14. ASSUME Copy(p) PROVE RestOK'
    <3>1. CASE present = 0
      BY <2>14, <3>1, LeaveTypes DEF Copy, RestOK
    <3>2. CASE present # 0
      <4>1. made < MaxMade
        BY <2>14, RoomLeft DEF Copy, DoingInv, Doing, At, Makers, Op
      <4>2. made' \in 1 .. MaxMade /\ held[present] \in Contents
        BY <2>14, <3>2, <4>1, StorageAssumption DEF Copy, RestOK, Ids
      <4>3. backups' = Append(backups, [id |-> made', data |-> Blank])
        BY <2>14, <3>2 DEF Copy
      <4>4. backups' \in Seq([id : 1 .. MaxMade, data : Contents])
        <5>1. [id |-> made', data |-> Blank] \in [id : 1 .. MaxMade, data : Contents]
          BY <4>2, BlankIdle
        <5> QED
          BY <4>3, <5>1 DEF RestOK
      <4> QED
        BY <2>14, <3>2, <4>2, <4>4 DEF Copy, RestOK, locks
    <3> QED
      BY <3>1, <3>2
  <2>15. ASSUME Publish(p) PROVE RestOK'
    <3>1. backups' \in Seq([id : 1 .. MaxMade, data : Contents])
      BY <2>15, PublishedBackups DEF RestOK, ProcsOK, ProcState
    <3> QED
      BY <2>15, <3>1 DEF Publish, RestOK, locks, counts
  <2>16. ASSUME Record(p) PROVE RestOK'
    <3>1. CASE present = 0
      BY <2>16, <3>1, LeaveTypes DEF Record, RestOK, counts
    <3>2. CASE present # 0
      <4>1. proc[p].id \in 0 .. MaxMade
        BY DEF ProcsOK, ProcState
      <4>2. held' = [held EXCEPT ![present].today = proc[p].id]
        BY <2>16, <3>2 DEF Record
      <4>3. held' \in [Ids -> Contents]
        BY <3>2, <4>1, <4>2, ContentFields DEF RestOK, Ids
      <4> QED
        BY <2>16, <3>2, <4>3 DEF Record, RestOK, locks, counts
    <3> QED
      BY <3>1, <3>2
  <2>17. ASSUME Prune(p) PROVE RestOK'
    <3>1. backups # <<>>
      BY <2>17 DEF Prune, DoingInv, Doing, At
    <3>2. backups' \in Seq([id : 1 .. MaxMade, data : Contents])
      BY <2>17, <3>1, RotatedPart DEF Prune, RestOK
    <3> QED
      BY <2>17, <3>2 DEF Prune, RestOK, files, locks, counts
  <2>18. ASSUME Return(p) PROVE RestOK'
    BY <2>18, LeaveTypes DEF Return, RestOK, counts
  <2>19. ASSUME MoveAside(p) PROVE RestOK'
    <3>1. UNCHANGED <<held, used, backups, counts>>
      BY <2>19 DEF MoveAside
    <3>2. CASE Leave(p) /\ UNCHANGED present
      BY <3>1, <3>2, LeaveTypes DEF RestOK, counts
    <3>3. CASE present' = 0 /\ UNCHANGED <<log, locks>>
      BY <3>1, <3>3, StorageAssumption DEF RestOK, locks, counts
    <3> QED
      BY <2>19, <3>2, <3>3 DEF MoveAside
  <2>20. ASSUME MoveLogAside(p) PROVE RestOK'
    <3>1. held' \in [Ids -> Contents]
      BY <2>20, ContentFields DEF MoveLogAside, RestOK
    <3> QED
      BY <2>20, <3>1 DEF MoveLogAside, RestOK, locks, counts
  <2>21. ASSUME Replace(p) PROVE RestOK'
    <3>1. held' \in [Ids -> Contents] /\ present' \in 0 .. MaxFiles /\ used' \subseteq Ids
      BY <2>21, StorageAssumption DEF Replace, RestOK, ProcsOK, ProcState, Ids
    <3> QED
      BY <2>21, <3>1 DEF Replace, RestOK, counts
  <2>22. ASSUME GiveUp(p) PROVE RestOK'
    BY <2>22, LeaveTypes DEF GiveUp, RestOK, counts
  <2>23. ASSUME FailInit(p) PROVE RestOK'
    BY <2>23, LeaveTypes, StorageAssumption DEF FailInit, Fail, RestOK
  <2>24. ASSUME FailPublish(p) PROVE RestOK'
    <3>1. backups # <<>>
      BY <2>24 DEF FailPublish, DoingInv, Doing, At
    <3>2. backups' \in Seq([id : 1 .. MaxMade, data : Contents])
      BY <2>24, <3>1, FrontType DEF FailPublish, RestOK
    <3> QED
      BY <2>24, <3>2, LeaveTypes, StorageAssumption DEF FailPublish, Fail, RestOK
  <2>25. ASSUME FailRestore(p) PROVE RestOK'
    BY <2>25, StorageAssumption DEF FailRestore, Fail, RestOK, ProcsOK, ProcState, files
  <2>26. ASSUME Crash(p) PROVE RestOK'
    BY <2>26, StorageAssumption DEF Crash, Fail, RestOK, ProcsOK, ProcState, files
  <2>27. ASSUME FailUndo(p) PROVE RestOK'
    <3>1. PICK back \in {0, proc[p].aside}, rows \in {{}, proc[p].asideLog} :
            /\ present' = back
            /\ log' = log \cup rows
            /\ held' = [f \in Ids |-> IF f = back
                          THEN [held[f] EXCEPT !.rows = @ \ (proc[p].asideLog \ rows)]
                          ELSE held[f]]
      BY <2>27 DEF FailUndo
    <3>2. held' \in [Ids -> Contents]
      BY <3>1 DEF RestOK, Contents
    <3>3. present' \in 0 .. MaxFiles /\ log' \subseteq Rows
      BY <3>1, StorageAssumption DEF RestOK, ProcsOK, ProcState
    <3>4. trouble' \in 0 .. MaxTrouble
      BY <2>27, StorageAssumption DEF FailUndo, RestOK
    <3> QED
      BY <2>27, <3>2, <3>3, <3>4 DEF FailUndo, RestOK
  <2> QED
    BY <1>2, <2>1, <2>2, <2>3, <2>4, <2>5, <2>6, <2>7, <2>8, <2>9, <2>10, <2>11, <2>12,
       <2>13, <2>14, <2>15, <2>16, <2>17, <2>18, <2>19, <2>20, <2>21, <2>22, <2>23, <2>24,
       <2>25, <2>26, <2>27 DEF Step, Trouble
<1> QED
  BY <1>1, <1>2 DEF Next

-----------------------------------------------------------------------------
(* What a step does to the record of its process *)

(* It goes on. *)
LEMMA Goes ==
  ASSUME ProcsOK, NEW p \in Procs, NEW c,
         proc' = [proc EXCEPT ![p].pc = c]
  PROVE  /\ \A q \in Procs \ {p} : proc'[q] = proc[q]
         /\ proc'[p].op = proc[p].op /\ proc'[p].pc = c
         /\ proc'[p].conn = proc[p].conn /\ proc'[p].data = proc[p].data
         /\ proc'[p].id = proc[p].id /\ proc'[p].aside = proc[p].aside
         /\ proc'[p].asideLog = proc[p].asideLog /\ proc'[p].fresh = proc[p].fresh
<1>1. proc'[p] = [proc[p] EXCEPT !.pc = c] /\ \A q \in Procs \ {p} : proc'[q] = proc[q]
  BY DEF ProcsOK
<1>2. proc[p] \in ProcState
  BY DEF ProcsOK
<1>3. ASSUME NEW r \in ProcState, NEW s, s = [r EXCEPT !.pc = c]
      PROVE  /\ s.op = r.op /\ s.pc = c /\ s.conn = r.conn /\ s.data = r.data
             /\ s.id = r.id /\ s.aside = r.aside /\ s.asideLog = r.asideLog
             /\ s.fresh = r.fresh
  BY <1>3 DEF ProcState
<1> QED
  BY <1>1, <1>2, <1>3

(* It opens a file. *)
LEMMA Opens ==
  ASSUME ProcsOK, NEW p \in Procs, NEW f, NEW c,
         proc' = [proc EXCEPT ![p].conn = f, ![p].pc = c]
  PROVE  /\ \A q \in Procs \ {p} : proc'[q] = proc[q]
         /\ proc'[p].op = proc[p].op /\ proc'[p].pc = c
         /\ proc'[p].conn = f /\ proc'[p].data = proc[p].data
         /\ proc'[p].id = proc[p].id /\ proc'[p].aside = proc[p].aside
         /\ proc'[p].asideLog = proc[p].asideLog /\ proc'[p].fresh = proc[p].fresh
<1>1. /\ proc'[p] = [proc[p] EXCEPT !.conn = f, !.pc = c]
      /\ \A q \in Procs \ {p} : proc'[q] = proc[q]
  BY DEF ProcsOK
<1>2. proc[p] \in ProcState
  BY DEF ProcsOK
<1>3. ASSUME NEW r \in ProcState, NEW s, s = [r EXCEPT !.conn = f, !.pc = c]
      PROVE  /\ s.op = r.op /\ s.pc = c /\ s.conn = f /\ s.data = r.data
             /\ s.id = r.id /\ s.aside = r.aside /\ s.asideLog = r.asideLog
             /\ s.fresh = r.fresh
  BY <1>3 DEF ProcState
<1> QED
  BY <1>1, <1>2, <1>3

(* It finds a backup. *)
LEMMA Finds ==
  ASSUME ProcsOK, NEW p \in Procs, NEW i,
         proc' = [proc EXCEPT ![p].id = i, ![p].pc = "return"]
  PROVE  /\ \A q \in Procs \ {p} : proc'[q] = proc[q]
         /\ proc'[p].op = proc[p].op /\ proc'[p].pc = "return"
         /\ proc'[p].conn = proc[p].conn /\ proc'[p].data = proc[p].data
         /\ proc'[p].id = i /\ proc'[p].aside = proc[p].aside
         /\ proc'[p].asideLog = proc[p].asideLog /\ proc'[p].fresh = proc[p].fresh
<1>1. /\ proc'[p] = [proc[p] EXCEPT !.id = i, !.pc = "return"]
      /\ \A q \in Procs \ {p} : proc'[q] = proc[q]
  BY DEF ProcsOK
<1>2. proc[p] \in ProcState
  BY DEF ProcsOK
<1>3. ASSUME NEW r \in ProcState, NEW s, s = [r EXCEPT !.id = i, !.pc = "return"]
      PROVE  /\ s.op = r.op /\ s.pc = "return" /\ s.conn = r.conn /\ s.data = r.data
             /\ s.id = i /\ s.aside = r.aside /\ s.asideLog = r.asideLog /\ s.fresh = r.fresh
  BY <1>3 DEF ProcState
<1> QED
  BY <1>1, <1>2, <1>3

(* It lets go of its copy. *)
LEMMA Publishes ==
  ASSUME ProcsOK, NEW p \in Procs, NEW c,
         proc' = [proc EXCEPT ![p].conn = 0, ![p].data = Blank, ![p].pc = c]
  PROVE  /\ \A q \in Procs \ {p} : proc'[q] = proc[q]
         /\ proc'[p].op = proc[p].op /\ proc'[p].pc = c
         /\ proc'[p].conn = 0 /\ proc'[p].data = Blank
         /\ proc'[p].id = proc[p].id /\ proc'[p].aside = proc[p].aside
         /\ proc'[p].asideLog = proc[p].asideLog /\ proc'[p].fresh = proc[p].fresh
<1>1. /\ proc'[p] = [proc[p] EXCEPT !.conn = 0, !.data = Blank, !.pc = c]
      /\ \A q \in Procs \ {p} : proc'[q] = proc[q]
  BY DEF ProcsOK
<1>2. proc[p] \in ProcState
  BY DEF ProcsOK
<1>3. ASSUME NEW r \in ProcState, NEW s, s = [r EXCEPT !.conn = 0, !.data = Blank, !.pc = c]
      PROVE  /\ s.op = r.op /\ s.pc = c /\ s.conn = 0 /\ s.data = Blank
             /\ s.id = r.id /\ s.aside = r.aside /\ s.asideLog = r.asideLog
             /\ s.fresh = r.fresh
  BY <1>3 DEF ProcState
<1> QED
  BY <1>1, <1>2, <1>3

(* It starts. *)
LEMMA StartDoes ==
  ASSUME ProcsOK, NEW p \in Procs, NEW op, Start(p, op)
  PROVE  /\ \A q \in Procs \ {p} : proc'[q] = proc[q]
         /\ proc'[p].op = op /\ proc'[p].pc = IF op \in Behind THEN "acquire" ELSE "connect"
         /\ proc'[p].conn = proc[p].conn /\ proc'[p].data = proc[p].data
         /\ proc'[p].id = proc[p].id /\ proc'[p].aside = proc[p].aside
         /\ proc'[p].asideLog = proc[p].asideLog /\ proc'[p].fresh = proc[p].fresh
<1> DEFINE first == IF op \in Behind THEN "acquire" ELSE "connect"
<1>1. proc' = [proc EXCEPT ![p].op = op, ![p].pc = first]
  BY DEF Start
<1> HIDE DEF first
<1>2. /\ proc'[p] = [proc[p] EXCEPT !.op = op, !.pc = first]
      /\ \A q \in Procs \ {p} : proc'[q] = proc[q]
  BY <1>1 DEF ProcsOK
<1>3. proc[p] \in ProcState
  BY DEF ProcsOK
<1>4. ASSUME NEW r \in ProcState, NEW s, s = [r EXCEPT !.op = op, !.pc = first]
      PROVE  /\ s.op = op /\ s.pc = first /\ s.conn = r.conn /\ s.data = r.data
             /\ s.id = r.id /\ s.aside = r.aside /\ s.asideLog = r.asideLog
             /\ s.fresh = r.fresh
  BY <1>4 DEF ProcState
<1>5. /\ proc'[p].op = op /\ proc'[p].pc = first /\ proc'[p].conn = proc[p].conn
      /\ proc'[p].data = proc[p].data /\ proc'[p].id = proc[p].id
      /\ proc'[p].aside = proc[p].aside
      /\ proc'[p].asideLog = proc[p].asideLog /\ proc'[p].fresh = proc[p].fresh
  BY <1>2, <1>3, <1>4
<1> QED
  BY <1>2, <1>5 DEF first

(* It copies the database. *)
LEMMA CopyDoes ==
  ASSUME ProcsOK, NEW p \in Procs, Copy(p), present # 0
  PROVE  /\ \A q \in Procs \ {p} : proc'[q] = proc[q]
         /\ proc'[p].op = proc[p].op /\ proc'[p].pc = "publish"
         /\ proc'[p].conn = present /\ proc'[p].data = held[present]
         /\ proc'[p].id = made' /\ proc'[p].aside = proc[p].aside
         /\ proc'[p].asideLog = proc[p].asideLog /\ proc'[p].fresh = proc[p].fresh
<1>1. proc' = [proc EXCEPT ![p].conn = present, ![p].id = made', ![p].data = held[present], ![p].pc = "publish"]
  BY DEF Copy
<1>2. /\ proc'[p] = [proc[p] EXCEPT !.conn = present, !.id = made', !.data = held[present], !.pc = "publish"]
      /\ \A q \in Procs \ {p} : proc'[q] = proc[q]
  BY <1>1 DEF ProcsOK
<1>3. proc[p] \in ProcState
  BY DEF ProcsOK
<1>4. ASSUME NEW r \in ProcState, NEW s,
             s = [r EXCEPT !.conn = present, !.id = made', !.data = held[present], !.pc = "publish"]
      PROVE  /\ s.op = r.op /\ s.pc = "publish" /\ s.conn = present /\ s.data = held[present]
             /\ s.id = made' /\ s.aside = r.aside /\ s.asideLog = r.asideLog
             /\ s.fresh = r.fresh
  BY <1>4 DEF ProcState
<1> QED
  BY <1>2, <1>3, <1>4

(* It moves the log away. *)
LEMMA MoveLogAsideDoes ==
  ASSUME ProcsOK, NEW p \in Procs, MoveLogAside(p)
  PROVE  /\ \A q \in Procs \ {p} : proc'[q] = proc[q]
         /\ proc'[p].op = proc[p].op /\ proc'[p].pc = "replace"
         /\ proc'[p].conn = proc[p].conn /\ proc'[p].data = proc[p].data
         /\ proc'[p].id = proc[p].id /\ proc'[p].aside = proc[p].aside
         /\ proc'[p].asideLog = log /\ proc'[p].fresh = proc[p].fresh
<1>1. proc' = [proc EXCEPT ![p].asideLog = log, ![p].pc = "replace"]
  BY DEF MoveLogAside
<1>2. /\ proc'[p] = [proc[p] EXCEPT !.asideLog = log, !.pc = "replace"]
      /\ \A q \in Procs \ {p} : proc'[q] = proc[q]
  BY <1>1 DEF ProcsOK
<1>3. proc[p] \in ProcState
  BY DEF ProcsOK
<1>4. ASSUME NEW r \in ProcState, NEW s, s = [r EXCEPT !.asideLog = log, !.pc = "replace"]
      PROVE  /\ s.op = r.op /\ s.pc = "replace" /\ s.conn = r.conn /\ s.data = r.data
             /\ s.id = r.id /\ s.aside = r.aside /\ s.asideLog = log /\ s.fresh = r.fresh
  BY <1>4 DEF ProcState
<1> QED
  BY <1>2, <1>3, <1>4

(* It opens the file that is there. *)
LEMMA CreateHereDoes ==
  ASSUME ProcsOK, NEW p \in Procs, Create(p), present # 0
  PROVE  /\ \A q \in Procs \ {p} : proc'[q] = proc[q]
         /\ proc'[p].op = proc[p].op /\ proc'[p].pc = "schema"
         /\ proc'[p].conn = present /\ proc'[p].data = proc[p].data
         /\ proc'[p].id = proc[p].id /\ proc'[p].aside = proc[p].aside
         /\ proc'[p].asideLog = proc[p].asideLog /\ proc'[p].fresh = proc[p].fresh
<1>1. proc' = [proc EXCEPT ![p].pc = "schema", ![p].conn = present]
  BY DEF Create
<1>2. /\ proc'[p] = [proc[p] EXCEPT !.pc = "schema", !.conn = present]
      /\ \A q \in Procs \ {p} : proc'[q] = proc[q]
  BY <1>1 DEF ProcsOK
<1>3. proc[p] \in ProcState
  BY DEF ProcsOK
<1>4. ASSUME NEW r \in ProcState, NEW s, s = [r EXCEPT !.pc = "schema", !.conn = present]
      PROVE  /\ s.op = r.op /\ s.pc = "schema" /\ s.conn = present /\ s.data = r.data
             /\ s.id = r.id /\ s.aside = r.aside /\ s.asideLog = r.asideLog
             /\ s.fresh = r.fresh
  BY <1>4 DEF ProcState
<1> QED
  BY <1>2, <1>3, <1>4

(* It creates a file. *)
LEMMA CreateDoes ==
  ASSUME ProcsOK, NEW p \in Procs, Create(p), present = 0
  PROVE  /\ \A q \in Procs \ {p} : proc'[q] = proc[q]
         /\ proc'[p].op = proc[p].op /\ proc'[p].pc = "schema"
         /\ proc'[p].conn = present' /\ proc'[p].data = proc[p].data
         /\ proc'[p].id = proc[p].id /\ proc'[p].aside = proc[p].aside
         /\ proc'[p].asideLog = proc[p].asideLog /\ proc'[p].fresh = TRUE
<1>1. proc' = [proc EXCEPT ![p].pc = "schema", ![p].conn = present', ![p].fresh = TRUE]
  BY DEF Create
<1>2. /\ proc'[p] = [proc[p] EXCEPT !.pc = "schema", !.conn = present', !.fresh = TRUE]
      /\ \A q \in Procs \ {p} : proc'[q] = proc[q]
  BY <1>1 DEF ProcsOK
<1>3. proc[p] \in ProcState
  BY DEF ProcsOK
<1>4. ASSUME NEW r \in ProcState, NEW s,
             s = [r EXCEPT !.pc = "schema", !.conn = present', !.fresh = TRUE]
      PROVE  /\ s.op = r.op /\ s.pc = "schema" /\ s.conn = present' /\ s.data = r.data
             /\ s.id = r.id /\ s.aside = r.aside /\ s.asideLog = r.asideLog /\ s.fresh = TRUE
  BY <1>4 DEF ProcState
<1> QED
  BY <1>2, <1>3, <1>4

(* It moves the database away. *)
LEMMA MoveAsideDoes ==
  ASSUME ProcsOK, NEW p \in Procs, MoveAside(p), ~Leave(p)
  PROVE  /\ \A q \in Procs \ {p} : proc'[q] = proc[q]
         /\ proc'[p].op = proc[p].op /\ proc'[p].pc = "asideLog"
         /\ proc'[p].conn = proc[p].conn
         /\ \E i \in DOMAIN backups : proc'[p].data = backups[i].data
         /\ proc'[p].id = proc[p].id /\ proc'[p].aside = present
         /\ proc'[p].asideLog = proc[p].asideLog /\ proc'[p].fresh = proc[p].fresh
<1>1. PICK i \in DOMAIN backups :
        proc' = [proc EXCEPT ![p].data = backups[i].data, ![p].aside = present, ![p].pc = "asideLog"]
  BY DEF MoveAside
<1>2. /\ proc'[p] = [proc[p] EXCEPT !.data = backups[i].data, !.aside = present, !.pc = "asideLog"]
      /\ \A q \in Procs \ {p} : proc'[q] = proc[q]
  BY <1>1 DEF ProcsOK
<1>3. proc[p] \in ProcState
  BY DEF ProcsOK
<1>4. ASSUME NEW r \in ProcState, NEW s,
             s = [r EXCEPT !.data = backups[i].data, !.aside = present, !.pc = "asideLog"]
      PROVE  /\ s.op = r.op /\ s.pc = "asideLog" /\ s.conn = r.conn /\ s.data = backups[i].data
             /\ s.id = r.id /\ s.aside = present /\ s.asideLog = r.asideLog
             /\ s.fresh = r.fresh
  BY <1>4 DEF ProcState
<1>5. /\ proc'[p].op = proc[p].op /\ proc'[p].pc = "asideLog" /\ proc'[p].conn = proc[p].conn
      /\ proc'[p].data = backups[i].data /\ proc'[p].id = proc[p].id
      /\ proc'[p].aside = present
      /\ proc'[p].asideLog = proc[p].asideLog /\ proc'[p].fresh = proc[p].fresh
  BY <1>2, <1>3, <1>4
<1> QED
  BY <1>2, <1>5

(* It is done, or it turns to the import. *)
LEMMA Leaves ==
  ASSUME ProcsOK, NEW p \in Procs, NEW r, proc' = [proc EXCEPT ![p] = r]
  PROVE  proc'[p] = r /\ \A q \in Procs \ {p} : proc'[q] = proc[q]
BY DEF ProcsOK

Importing == [Idle EXCEPT !.op = "import", !.pc = "connect"]

LEMMA ImportingIs ==
  /\ Importing.op = "import" /\ Importing.pc = "connect" /\ Importing.conn = 0
  /\ Importing.data = Blank /\ Importing.aside = 0 /\ Importing.asideLog = {}
  /\ Importing.fresh = FALSE /\ Idle.op = "none" /\ Idle.pc = "idle" /\ Idle.conn = 0
  /\ Idle.data = Blank /\ Idle.aside = 0 /\ Idle.asideLog = {} /\ Idle.fresh = FALSE
BY DEF Importing, Idle

-----------------------------------------------------------------------------
(* Room *)

(* A step after which no more writers and makers wait than before. *)
LEMMA RoomKept ==
  ASSUME RestOK, RoomInv, Writers' \subseteq Writers, Makers' \subseteq Makers,
         last' = last, made' = made
  PROVE  RoomInv'
<1>1. IsFiniteSet(Writers) /\ IsFiniteSet(Makers)
  BY StorageAssumption, FS_Subset DEF Writers, Makers
<1>2. /\ Cardinality(Writers') \in Nat /\ Cardinality(Writers') <= Cardinality(Writers)
      /\ Cardinality(Makers') \in Nat /\ Cardinality(Makers') <= Cardinality(Makers)
      /\ Cardinality(Writers) \in Nat /\ Cardinality(Makers) \in Nat
  BY <1>1, FS_Subset, FS_CardinalityType
<1> QED
  BY <1>2, StorageAssumption DEF RoomInv, RestOK

(* One that waits becomes one that does not. *)
LEMMA OneLess ==
  ASSUME NEW S \in SUBSET Procs, NEW p \in S, NEW T, T \subseteq S \ {p}
  PROVE  /\ Cardinality(S) \in Nat /\ Cardinality(T) \in Nat
         /\ Cardinality(T) + 1 <= Cardinality(S)
<1>1. IsFiniteSet(S) /\ IsFiniteSet(S \ {p}) /\ Cardinality(S \ {p}) = Cardinality(S) - 1
  BY StorageAssumption, FS_Subset, FS_RemoveElement
<1> QED
  BY <1>1, FS_Subset, FS_CardinalityType

-----------------------------------------------------------------------------
(* Room *)

(* What is part of a set of processes is no larger, with one more at most one
   larger. *)
LEMMA Smaller ==
  ASSUME NEW S \in SUBSET Procs, NEW T, T \subseteq S
  PROVE  Cardinality(T) \in Nat /\ Cardinality(S) \in Nat /\ Cardinality(T) <= Cardinality(S)
BY StorageAssumption, FS_Subset, FS_CardinalityType

LEMMA OneMore ==
  ASSUME NEW S \in SUBSET Procs, NEW p, NEW T, T \subseteq S \cup {p}
  PROVE  Cardinality(T) \in Nat /\ Cardinality(S) \in Nat /\ Cardinality(T) <= Cardinality(S) + 1
<1>1. IsFiniteSet(S) /\ IsFiniteSet(S \cup {p}) /\ Cardinality(S) \in Nat
      /\ Cardinality(S \cup {p}) \in {Cardinality(S), Cardinality(S) + 1}
  BY StorageAssumption, FS_Subset, FS_AddElement, FS_CardinalityType
<1>2. Cardinality(T) \in Nat /\ Cardinality(T) <= Cardinality(S \cup {p})
  BY <1>1, FS_Subset, FS_CardinalityType
<1> QED
  BY <1>1, <1>2

(* The room that was promised is kept. *)
LEMMA NextRoom ==
  ASSUME ProcsOK, RestOK, DoingInv, RoomInv, [Next]_vars
  PROVE  RoomInv'
<1>1. CASE UNCHANGED vars
  <2>1. Writers' = Writers /\ Makers' = Makers
  BY <1>1 DEF vars, Writers, Makers, Op
<2> QED
  BY <1>1, <2>1, RoomKept DEF vars
<1>2. ASSUME NEW p \in Procs, (\E op \in Operations : Start(p, op)) \/ Step(p) \/ Trouble(p)
      PROVE  RoomInv'
  <2>1. ASSUME NEW op \in Operations, Start(p, op) PROVE RoomInv'
    <3>1. proc[p].pc = "idle" /\ Room(op)
      BY <2>1 DEF Start, At
    <3>2. proc'[p].op = op /\ \A q \in Procs \ {p} : proc'[q] = proc[q]
      BY <2>1, StartDoes
    <3>3. last' = last /\ made' = made
      BY <2>1 DEF Start, counts
    <3> DEFINE I == {q \in Procs : Op(q) \in Inserting}
               M == {q \in Procs : Op(q) \in {"manual", "daily"}}
    <3>4. Writers' \subseteq I \cup {p} /\ Makers' \subseteq M \cup {p}
      BY <3>2 DEF Writers, Makers, Op
    <3>5. CASE op \in Inserting
      <4>1. last + Cardinality(I) < MaxRows
        BY <3>1, <3>5 DEF Room, Busy
      <4>2. Cardinality(Writers') \in Nat /\ Cardinality(I) \in Nat /\ Cardinality(Writers') <= Cardinality(I) + 1
        BY <3>4, OneMore
      <4> HIDE DEF I, M
      <4>3. Makers' \subseteq Makers
        BY <3>2, <3>5 DEF Makers, Op, Inserting
      <4>4. /\ Cardinality(Makers') \in Nat /\ Cardinality(Makers) \in Nat
            /\ Cardinality(Makers') <= Cardinality(Makers)
        BY <4>3, Smaller DEF Makers
      <4> QED
        BY <3>3, <4>1, <4>2, <4>4, StorageAssumption DEF RoomInv, RestOK
    <3>6. CASE op \in {"manual", "daily"}
      <4>1. made + Cardinality(M) < MaxMade
        BY <3>1, <3>6 DEF Room, Busy
      <4>2. Cardinality(Makers') \in Nat /\ Cardinality(M) \in Nat /\ Cardinality(Makers') <= Cardinality(M) + 1
        BY <3>4, OneMore
      <4> HIDE DEF I, M
      <4>3. Writers' \subseteq Writers
        BY <3>2, <3>6 DEF Writers, Op, Inserting
      <4>4. /\ Cardinality(Writers') \in Nat /\ Cardinality(Writers) \in Nat
            /\ Cardinality(Writers') <= Cardinality(Writers)
        BY <4>3, Smaller DEF Writers
      <4> QED
        BY <3>3, <4>1, <4>2, <4>4, StorageAssumption DEF RoomInv, RestOK
    <3>7. CASE op \notin Inserting /\ op \notin {"manual", "daily"}
      <4> HIDE DEF I, M
      <4>1. Writers' \subseteq Writers /\ Makers' \subseteq Makers
        BY <3>2, <3>7 DEF Writers, Makers, Op
      <4> QED
        BY <3>3, <4>1, RoomKept
    <3> QED
      BY <3>5, <3>6, <3>7
  <2>2. ASSUME PassBarrier(p) PROVE RoomInv'
    <3>1. /\ \A q \in Procs \ {p} : proc'[q] = proc[q]
          /\ proc'[p].op = proc[p].op /\ proc'[p].pc = "open" /\ proc[p].pc = "connect"
      BY <2>2, Goes DEF PassBarrier, Goto, At
    <3>2. Writers' \subseteq Writers /\ Makers' \subseteq Makers
      BY <3>1 DEF Writers, Makers, Op, Inserting
    <3> QED
      BY <2>2, <3>2, RoomKept DEF PassBarrier, counts
  <2>3. ASSUME Open(p) PROVE RoomInv'
    <3>1. CASE Leave(p)
      <4>1. /\ \A q \in Procs \ {p} : proc'[q] = proc[q]
            /\ proc'[p].pc = "idle"
        BY <3>1, Leaves, ImportingIs DEF Leave
      <4>2. Writers' \subseteq Writers /\ Makers' \subseteq Makers
        BY <4>1 DEF Writers, Makers, Op
      <4> QED
        BY <2>3, <4>2, RoomKept DEF Open, counts, Fail
    <3>2. CASE ~Leave(p)
      <4>1. /\ \A q \in Procs \ {p} : proc'[q] = proc[q]
            /\ proc'[p].op = proc[p].op /\ proc'[p].pc \in {"check", "begin"}
            /\ proc[p].pc = "open"
        BY <2>3, <3>2, Opens DEF Open, Op, At
      <4>2. Writers' \subseteq Writers /\ Makers' \subseteq Makers
        BY <4>1 DEF Writers, Makers, Op, Inserting
      <4> QED
        BY <2>3, <3>2, <4>2, RoomKept DEF Open, counts
    <3> QED
      BY <3>1, <3>2
  <2>4. ASSUME Begin(p) PROVE RoomInv'
    <3>1. /\ \A q \in Procs \ {p} : proc'[q] = proc[q]
          /\ proc'[p].op = proc[p].op /\ proc'[p].pc \in {"nested", "commit"}
          /\ proc[p].pc = "begin"
      BY <2>4, Goes DEF Begin, Goto, At
    <3>2. Writers' \subseteq Writers /\ Makers' \subseteq Makers
      BY <3>1 DEF Writers, Makers, Op, Inserting
    <3> QED
      BY <2>4, <3>2, RoomKept DEF Begin, counts
  <2>5. ASSUME NestedConnect(p) PROVE RoomInv'
    <3>1. CASE Leave(p)
      <4>1. /\ \A q \in Procs \ {p} : proc'[q] = proc[q]
            /\ proc'[p].pc = "idle"
        BY <3>1, Leaves, ImportingIs DEF Leave
      <4>2. Writers' \subseteq Writers /\ Makers' \subseteq Makers
        BY <4>1 DEF Writers, Makers, Op
      <4> QED
        BY <2>5, <4>2, RoomKept DEF NestedConnect, counts, Fail
    <3>2. CASE ~Leave(p)
      <4>1. /\ \A q \in Procs \ {p} : proc'[q] = proc[q]
            /\ proc'[p].op = proc[p].op /\ proc'[p].pc = "commit" /\ proc[p].pc = "nested"
        BY <2>5, <3>2, Goes DEF NestedConnect, Goto, At
      <4>2. Writers' \subseteq Writers /\ Makers' \subseteq Makers
        BY <4>1 DEF Writers, Makers, Op, Inserting
      <4> QED
        BY <2>5, <3>2, <4>2, RoomKept DEF NestedConnect, counts
    <3> QED
      BY <3>1, <3>2
  <2>6. ASSUME Commit(p) PROVE RoomInv'
    <3>1. /\ \A q \in Procs \ {p} : proc'[q] = proc[q]
          /\ proc'[p].op = proc[p].op /\ proc'[p].pc = "close" /\ proc[p].pc = "commit"
          /\ Op(p) \in Inserting \cup {"import"}
      BY <2>6, Goes DEF Commit, Goto, DoingInv, Doing, At
    <3>2. Writers' \subseteq Writers \ {p} /\ Makers' \subseteq Makers /\ made' = made
      BY <2>6, <3>1 DEF Commit, Writers, Makers, Op
    <3>3. CASE Op(p) = "import"
      BY <2>6, <3>2, <3>3, RoomKept DEF Commit, RestOK
    <3>4. CASE Op(p) # "import"
      <4>1. p \in Writers
        BY <3>1, <3>4 DEF Writers
      <4>2. last' = last + 1
        BY <2>6, <3>4, StorageAssumption DEF Commit, RestOK, Legacy
      <4>3. /\ Cardinality(Writers') \in Nat /\ Cardinality(Writers) \in Nat
            /\ Cardinality(Writers') + 1 <= Cardinality(Writers)
        BY <3>2, <4>1, OneLess DEF Writers
      <4>4. /\ Cardinality(Makers') \in Nat /\ Cardinality(Makers) \in Nat
            /\ Cardinality(Makers') <= Cardinality(Makers)
        BY <3>2, Smaller DEF Makers
      <4> QED
        BY <3>2, <4>2, <4>3, <4>4, StorageAssumption DEF RoomInv, RestOK
    <3> QED
      BY <3>3, <3>4
  <2>7. ASSUME Close(p) PROVE RoomInv'
    <3>1. /\ \A q \in Procs \ {p} : proc'[q] = proc[q]
          /\ proc'[p].pc = "idle"
      BY <2>7, Leaves, ImportingIs DEF Close, Leave
    <3>2. Writers' \subseteq Writers /\ Makers' \subseteq Makers
      BY <3>1 DEF Writers, Makers, Op
    <3> QED
      BY <2>7, <3>2, RoomKept DEF Close, counts, Fail
  <2>8. ASSUME CheckImported(p) PROVE RoomInv'
    <3>1. CASE Leave(p)
      <4>1. /\ \A q \in Procs \ {p} : proc'[q] = proc[q]
            /\ proc'[p].pc = "idle"
        BY <3>1, Leaves, ImportingIs DEF Leave
      <4>2. Writers' \subseteq Writers /\ Makers' \subseteq Makers
        BY <4>1 DEF Writers, Makers, Op
      <4> QED
        BY <2>8, <4>2, RoomKept DEF CheckImported, counts, Fail
    <3>2. CASE ~Leave(p)
      <4>1. /\ \A q \in Procs \ {p} : proc'[q] = proc[q]
            /\ proc'[p].op = "import" /\ proc'[p].pc = "connect" /\ proc[p].pc = "check"
        BY <2>8, <3>2, Leaves, ImportingIs DEF CheckImported, Importing, At
      <4>2. Writers' \subseteq Writers /\ Makers' \subseteq Makers
        BY <4>1 DEF Writers, Makers, Op, Inserting
      <4> QED
        BY <2>8, <3>2, <4>2, RoomKept DEF CheckImported, counts
    <3> QED
      BY <3>1, <3>2
  <2>9. ASSUME Acquire(p) PROVE RoomInv'
    <3>1. Op(p) \in Behind /\ proc[p].pc = "acquire"
      BY <2>9 DEF Acquire, DoingInv, Doing, At
    <3>2. PICK c : proc' = [proc EXCEPT ![p].pc = c] /\ c \in {"initLock", "dailyLock", "copy", "aside"}
      BY <2>9, <3>1 DEF Acquire, Goto, Behind
    <3>3. /\ proc'[p].op = proc[p].op
          /\ proc'[p].pc = c
          /\ \A q \in Procs \ {p} : proc'[q] = proc[q]
      BY <3>2, Goes
    <3>4. Writers' \subseteq Writers /\ Makers' \subseteq Makers
      BY <3>1, <3>2, <3>3 DEF Writers, Makers, Op
    <3> QED
      BY <2>9, <3>4, RoomKept DEF Acquire, counts
  <2>10. ASSUME TakeInitLock(p) PROVE RoomInv'
    <3>1. /\ \A q \in Procs \ {p} : proc'[q] = proc[q]
          /\ proc'[p].op = proc[p].op /\ proc'[p].pc = "create" /\ proc[p].pc = "initLock"
      BY <2>10, Goes DEF TakeInitLock, Goto, At
    <3>2. Writers' \subseteq Writers /\ Makers' \subseteq Makers
      BY <3>1 DEF Writers, Makers, Op, Inserting
    <3> QED
      BY <2>10, <3>2, RoomKept DEF TakeInitLock, counts
  <2>11. ASSUME Create(p) PROVE RoomInv'
    <3>1. /\ \A q \in Procs \ {p} : proc'[q] = proc[q]
          /\ proc'[p].op = proc[p].op /\ proc'[p].pc = "schema"
      BY <2>11, CreateHereDoes, CreateDoes
    <3>2. proc[p].pc = "create"
      BY <2>11 DEF Create, At
    <3>3. Writers' \subseteq Writers /\ Makers' \subseteq Makers
      BY <3>1, <3>2 DEF Writers, Makers, Op
    <3> QED
      BY <2>11, <3>3, RoomKept DEF Create, counts
  <2>12. ASSUME Schema(p) PROVE RoomInv'
    <3>1. /\ \A q \in Procs \ {p} : proc'[q] = proc[q]
          /\ proc'[p].op = proc[p].op /\ proc'[p].pc = "close" /\ proc[p].pc = "schema"
      BY <2>12, Goes DEF Schema, Goto, At
    <3>2. Writers' \subseteq Writers /\ Makers' \subseteq Makers
      BY <3>1 DEF Writers, Makers, Op, Inserting
    <3> QED
      BY <2>12, <3>2, RoomKept DEF Schema, counts
  <2>13. ASSUME LookUp(p) PROVE RoomInv'
    <3>1. CASE proc' = [proc EXCEPT ![p] = Idle]
      <4>1. /\ \A q \in Procs \ {p} : proc'[q] = proc[q]
            /\ proc'[p].pc = "idle"
        BY <3>1, Leaves, ImportingIs DEF Leave
      <4>2. Writers' \subseteq Writers /\ Makers' \subseteq Makers
        BY <4>1 DEF Writers, Makers, Op
      <4> QED
        BY <2>13, <4>2, RoomKept DEF LookUp, counts, Fail
    <3>2. CASE proc' # [proc EXCEPT ![p] = Idle]
      <4> DEFINE today == held[present].today
      <4>1. \/ proc' = [proc EXCEPT ![p].id = today, ![p].pc = "return"]
            \/ proc' = [proc EXCEPT ![p].pc = "copy"]
        BY <2>13, <3>2 DEF LookUp
      <4> HIDE DEF today
      <4>2. /\ \A q \in Procs \ {p} : proc'[q] = proc[q]
            /\ proc'[p].op = proc[p].op /\ proc'[p].pc \in {"return", "copy"}
            /\ proc[p].pc = "dailyLock"
        BY <2>13, <4>1, Goes, Finds DEF LookUp, At
      <4>3. Writers' \subseteq Writers /\ Makers' \subseteq Makers
        BY <4>2 DEF Writers, Makers, Op
      <4> QED
        BY <2>13, <4>3, RoomKept DEF LookUp, counts
    <3> QED
      BY <3>1, <3>2
  <2>14. ASSUME Copy(p) PROVE RoomInv'
    <3>1. CASE present = 0
      <4>1. /\ \A q \in Procs \ {p} : proc'[q] = proc[q]
            /\ proc'[p].pc = "idle"
        BY <2>14, <3>1, Leaves, ImportingIs DEF Copy, Leave
      <4>2. Writers' \subseteq Writers /\ Makers' \subseteq Makers
        BY <4>1 DEF Writers, Makers, Op
      <4> QED
        BY <2>14, <3>1, <4>2, RoomKept DEF Copy, counts, Fail
    <3>2. CASE present # 0
      <4>2. proc[p].pc = "copy" /\ Op(p) \in {"manual", "daily"}
        BY <2>14 DEF Copy, DoingInv, Doing, At
      <4>3. /\ \A q \in Procs \ {p} : proc'[q] = proc[q]
            /\ proc'[p].op = proc[p].op /\ proc'[p].pc = "publish"
        BY <2>14, <3>2, CopyDoes
      <4>4. Writers' \subseteq Writers /\ Makers' \subseteq Makers \ {p} /\ p \in Makers
        BY <4>2, <4>3 DEF Writers, Makers, Op
      <4>5. /\ Cardinality(Makers') \in Nat /\ Cardinality(Makers) \in Nat
            /\ Cardinality(Makers') + 1 <= Cardinality(Makers)
        BY <4>4, OneLess DEF Makers
      <4>6. /\ Cardinality(Writers') \in Nat /\ Cardinality(Writers) \in Nat
            /\ Cardinality(Writers') <= Cardinality(Writers)
        BY <4>4, Smaller DEF Writers
      <4>7. last' = last /\ made' = made + 1
        BY <2>14, <3>2 DEF Copy
      <4> QED
        BY <4>5, <4>6, <4>7, StorageAssumption DEF RoomInv, RestOK
    <3> QED
      BY <3>1, <3>2
  <2>15. ASSUME Publish(p) PROVE RoomInv'
    <3>1. /\ \A q \in Procs \ {p} : proc'[q] = proc[q]
          /\ proc'[p].op = proc[p].op /\ proc'[p].pc \in {"record", "prune"}
          /\ proc[p].pc = "publish"
      BY <2>15, Publishes DEF Publish, Goto, At
    <3>2. Writers' \subseteq Writers /\ Makers' \subseteq Makers
      BY <3>1 DEF Writers, Makers, Op, Inserting
    <3> QED
      BY <2>15, <3>2, RoomKept DEF Publish, counts
  <2>16. ASSUME Record(p) PROVE RoomInv'
    <3>1. CASE Leave(p)
      <4>1. /\ \A q \in Procs \ {p} : proc'[q] = proc[q]
            /\ proc'[p].pc = "idle"
        BY <3>1, Leaves, ImportingIs DEF Leave
      <4>2. Writers' \subseteq Writers /\ Makers' \subseteq Makers
        BY <4>1 DEF Writers, Makers, Op
      <4> QED
        BY <2>16, <4>2, RoomKept DEF Record, counts, Fail
    <3>2. CASE ~Leave(p)
      <4>1. /\ \A q \in Procs \ {p} : proc'[q] = proc[q]
            /\ proc'[p].op = proc[p].op /\ proc'[p].pc = "prune" /\ proc[p].pc = "record"
        BY <2>16, <3>2, Goes DEF Record, Goto, At
      <4>2. Writers' \subseteq Writers /\ Makers' \subseteq Makers
        BY <4>1 DEF Writers, Makers, Op, Inserting
      <4> QED
        BY <2>16, <3>2, <4>2, RoomKept DEF Record, counts
    <3> QED
      BY <3>1, <3>2
  <2>17. ASSUME Prune(p) PROVE RoomInv'
    <3>1. /\ \A q \in Procs \ {p} : proc'[q] = proc[q]
          /\ proc'[p].op = proc[p].op /\ proc'[p].pc = "return" /\ proc[p].pc = "prune"
      BY <2>17, Goes DEF Prune, Goto, At
    <3>2. Writers' \subseteq Writers /\ Makers' \subseteq Makers
      BY <3>1 DEF Writers, Makers, Op, Inserting
    <3> QED
      BY <2>17, <3>2, RoomKept DEF Prune, counts
  <2>18. ASSUME Return(p) PROVE RoomInv'
    <3>1. /\ \A q \in Procs \ {p} : proc'[q] = proc[q]
          /\ proc'[p].pc = "idle"
      BY <2>18, Leaves, ImportingIs DEF Return, Leave
    <3>2. Writers' \subseteq Writers /\ Makers' \subseteq Makers
      BY <3>1 DEF Writers, Makers, Op
    <3> QED
      BY <2>18, <3>2, RoomKept DEF Return, counts, Fail
  <2>19. ASSUME MoveAside(p) PROVE RoomInv'
    <3>1. CASE Leave(p)
      <4>1. /\ \A q \in Procs \ {p} : proc'[q] = proc[q]
            /\ proc'[p].pc = "idle"
        BY <3>1, Leaves, ImportingIs DEF Leave
      <4>2. Writers' \subseteq Writers /\ Makers' \subseteq Makers
        BY <4>1 DEF Writers, Makers, Op
      <4> QED
        BY <2>19, <4>2, RoomKept DEF MoveAside, counts, Fail
    <3>2. CASE ~Leave(p)
      <4>1. /\ \A q \in Procs \ {p} : proc'[q] = proc[q]
            /\ proc'[p].op = proc[p].op /\ proc'[p].pc = "asideLog"
        BY <2>19, <3>2, MoveAsideDoes
      <4>2. proc[p].pc = "aside"
        BY <2>19, <3>2 DEF MoveAside, At
      <4>3. Writers' \subseteq Writers /\ Makers' \subseteq Makers
        BY <4>1, <4>2 DEF Writers, Makers, Op
      <4> QED
        BY <2>19, <3>2, <4>3, RoomKept DEF MoveAside, counts
    <3> QED
      BY <3>1, <3>2
  <2>20. ASSUME MoveLogAside(p) PROVE RoomInv'
    <3>1. /\ \A q \in Procs \ {p} : proc'[q] = proc[q]
          /\ proc'[p].op = proc[p].op /\ proc'[p].pc = "replace"
      BY <2>20, MoveLogAsideDoes
    <3>2. proc[p].pc = "asideLog"
      BY <2>20 DEF MoveLogAside, At
    <3>3. Writers' \subseteq Writers /\ Makers' \subseteq Makers
      BY <3>1, <3>2 DEF Writers, Makers, Op
    <3> QED
      BY <2>20, <3>3, RoomKept DEF MoveLogAside, counts
  <2>21. ASSUME Replace(p) PROVE RoomInv'
    <3>1. /\ \A q \in Procs \ {p} : proc'[q] = proc[q]
          /\ proc'[p].pc = "idle"
      BY <2>21, Leaves, ImportingIs DEF Replace
    <3>2. Writers' \subseteq Writers /\ Makers' \subseteq Makers
      BY <3>1 DEF Writers, Makers, Op
    <3> QED
      BY <2>21, <3>2, RoomKept DEF Replace, counts, Fail
  <2>22. ASSUME GiveUp(p) PROVE RoomInv'
    <3>1. /\ \A q \in Procs \ {p} : proc'[q] = proc[q]
          /\ proc'[p].pc = "idle"
      BY <2>22, Leaves, ImportingIs DEF GiveUp, Leave
    <3>2. Writers' \subseteq Writers /\ Makers' \subseteq Makers
      BY <3>1 DEF Writers, Makers, Op
    <3> QED
      BY <2>22, <3>2, RoomKept DEF GiveUp, counts, Fail
  <2>23. ASSUME FailInit(p) PROVE RoomInv'
    <3>1. /\ \A q \in Procs \ {p} : proc'[q] = proc[q]
          /\ proc'[p].pc = "idle"
      BY <2>23, Leaves, ImportingIs DEF FailInit, Leave
    <3>2. Writers' \subseteq Writers /\ Makers' \subseteq Makers
      BY <3>1 DEF Writers, Makers, Op
    <3> QED
      BY <2>23, <3>2, RoomKept DEF FailInit, counts, Fail
  <2>24. ASSUME FailPublish(p) PROVE RoomInv'
    <3>1. /\ \A q \in Procs \ {p} : proc'[q] = proc[q]
          /\ proc'[p].pc = "idle"
      BY <2>24, Leaves, ImportingIs DEF FailPublish, Leave
    <3>2. Writers' \subseteq Writers /\ Makers' \subseteq Makers
      BY <3>1 DEF Writers, Makers, Op
    <3> QED
      BY <2>24, <3>2, RoomKept DEF FailPublish, counts, Fail
  <2>25. ASSUME FailRestore(p) PROVE RoomInv'
    <3>1. /\ \A q \in Procs \ {p} : proc'[q] = proc[q]
          /\ proc'[p].pc = "idle"
      BY <2>25, Leaves, ImportingIs DEF FailRestore
    <3>2. Writers' \subseteq Writers /\ Makers' \subseteq Makers
      BY <3>1 DEF Writers, Makers, Op
    <3> QED
      BY <2>25, <3>2, RoomKept DEF FailRestore, counts, Fail
  <2>26. ASSUME Crash(p) PROVE RoomInv'
    <3>1. /\ \A q \in Procs \ {p} : proc'[q] = proc[q]
          /\ proc'[p].pc = "idle"
      BY <2>26, Leaves, ImportingIs DEF Crash
    <3>2. Writers' \subseteq Writers /\ Makers' \subseteq Makers
      BY <3>1 DEF Writers, Makers, Op
    <3> QED
      BY <2>26, <3>2, RoomKept DEF Crash, counts, Fail
  <2>27. ASSUME FailUndo(p) PROVE RoomInv'
    <3>1. /\ \A q \in Procs \ {p} : proc'[q] = proc[q]
          /\ proc'[p].pc = "idle"
      BY <2>27, Leaves, ImportingIs DEF FailUndo
    <3>2. Writers' \subseteq Writers /\ Makers' \subseteq Makers
      BY <3>1 DEF Writers, Makers, Op
    <3> QED
      BY <2>27, <3>2, RoomKept DEF FailUndo
  <2> QED
    BY <1>2, <2>1, <2>2, <2>3, <2>4, <2>5, <2>6, <2>7, <2>8, <2>9, <2>10, <2>11, <2>12,
       <2>13, <2>14, <2>15, <2>16, <2>17, <2>18, <2>19, <2>20, <2>21, <2>22, <2>23, <2>24,
       <2>25, <2>26, <2>27 DEF Step, Trouble
<1> QED
  BY <1>1, <1>2 DEF Next

-----------------------------------------------------------------------------
(* What a process is doing *)

(* The others go on as before: nobody takes the barrier from its owner, nor the
   backups away. *)
LEMMA OthersDo ==
  ASSUME DoingInv, NEW p \in Procs, \A q \in Procs \ {p} : proc'[q] = proc[q],
         \A q \in Procs \ {p} : barrier = q => barrier' = q /\ (backups # <<>> => backups' # <<>>),
         Doing(p)'
  PROVE  DoingInv'
<1>1. ASSUME NEW q \in Procs, q # p PROVE Doing(q)'
  BY <1>1 DEF DoingInv, Doing, At, Op, Conn, BehindPcs
<1> QED
  BY <1>1 DEF DoingInv

(* One that is idle does nothing. *)
LEMMA IdleDo ==
  ASSUME NEW p \in Procs, proc'[p].pc = "idle"
  PROVE  Doing(p)'
BY DEF Doing, At, BehindPcs

(* Leaving gives the barrier back. *)
LEMMA LeavesDo ==
  ASSUME ProcsOK, RestOK, DoingInv, NEW p \in Procs, Leave(p) \/ proc' = [proc EXCEPT ![p] = Idle],
         barrier' = barrier \/ barrier \in {p, Nobody} \/ Leave(p),
         \A q \in Procs \ {p} : barrier = q => (backups # <<>> => backups' # <<>>)
  PROVE  DoingInv'
<1>1. proc'[p].pc = "idle" /\ \A q \in Procs \ {p} : proc'[q] = proc[q]
  BY Leaves, ImportingIs DEF Leave
<1>2. \A q \in Procs \ {p} : barrier = q => barrier' = q
  BY StorageAssumption DEF Leave
<1> QED
  BY <1>1, <1>2, IdleDo, OthersDo

(* A file that is made is on the disk. *)
LEMMA NewFile ==
  ASSUME NEW p, Create(p), present = 0
  PROVE  present' # 0 /\ present' \in Ids \ used /\ used' = used \cup {present'} /\ log' = {}
         /\ held' = [g \in Ids |-> [held[g] EXCEPT !.rows = @ \ log]]
<1>1. PICK f \in Ids \ used :
        /\ present' = f /\ used' = used \cup {f} /\ log' = {}
        /\ held' = [g \in Ids |-> [held[g] EXCEPT !.rows = @ \ log]]
  BY DEF Create
<1>2. f # 0
  BY StorageAssumption DEF Ids
<1> QED
  BY <1>1, <1>2

(* Every step leaves processes that do one thing after another. *)
LEMMA NextDoing ==
  ASSUME ProcsOK, RestOK, DoingInv, [Next]_vars
  PROVE  DoingInv'
<1>1. CASE UNCHANGED vars
  BY <1>1 DEF vars, DoingInv, Doing, At, Op, Conn
<1>2. ASSUME NEW p \in Procs, (\E op \in Operations : Start(p, op)) \/ Step(p) \/ Trouble(p)
      PROVE  DoingInv'
  <2>1. ASSUME NEW op \in Operations, Start(p, op) PROVE DoingInv'
    <3>1. barrier' = barrier /\ backups' = backups
      BY <2>1 DEF Start, locks
    <3>2. /\ proc'[p].op = op
          /\ proc'[p].pc = (IF op \in Behind THEN "acquire" ELSE "connect")
          /\ \A q \in Procs \ {p} : proc'[q] = proc[q]
      BY <2>1, StartDoes
    <3>3. CASE op \in Behind
      <4>1. Doing(p)'
        BY <3>2, <3>3 DEF Doing, At, Op, BehindPcs
      <4> QED
        BY <3>1, <3>2, <4>1, OthersDo
    <3>4. CASE op \notin Behind
      <4>1. op \in Inserting \cup {"check"}
        BY <3>4 DEF Operations, Inserting
      <4>2. Doing(p)'
        BY <3>2, <3>4, <4>1 DEF Doing, At, Op, BehindPcs
      <4> QED
        BY <3>1, <3>2, <4>2, OthersDo
    <3> QED
      BY <3>3, <3>4
  <2>2. ASSUME PassBarrier(p) PROVE DoingInv'
    <3>1. /\ proc'[p].op = proc[p].op /\ proc'[p].pc = "open" /\ proc'[p].conn = proc[p].conn
          /\ \A q \in Procs \ {p} : proc'[q] = proc[q]
      BY <2>2, Goes DEF PassBarrier, Goto
    <3>2. \A q \in Procs \ {p} : barrier = q => barrier' = q /\ (backups # <<>> => backups' # <<>>)
      BY <2>2 DEF PassBarrier, locks, counts
    <3>3. Doing(p)'
      BY <2>2, <3>1 DEF PassBarrier, Doing, DoingInv, At, Op, Conn, BehindPcs, locks, Behind
    <3> QED
      BY <3>1, <3>2, <3>3, OthersDo
  <2>3. ASSUME Open(p) PROVE DoingInv'
    <3>1. CASE Leave(p)
      <4>1. backups' = backups
        BY <2>3 DEF Open
      <4> QED
        BY <3>1, <4>1, LeavesDo
    <3>2. CASE ~Leave(p)
      <4>1. /\ proc'[p].op = proc[p].op /\ proc'[p].conn = present /\ present # 0
            /\ proc'[p].pc = (IF Op(p) = "check" THEN "check" ELSE "begin")
            /\ \A q \in Procs \ {p} : proc'[q] = proc[q]
        BY <2>3, <3>2, Opens DEF Open
      <4>2. \A q \in Procs \ {p} : barrier = q => barrier' = q /\ (backups # <<>> => backups' # <<>>)
        BY <2>3, <3>2 DEF Open, locks, counts
      <4>3. Doing(p)'
        BY <2>3, <3>2, <4>1 DEF Open, Doing, DoingInv, At, Op, Conn, BehindPcs, locks, Behind
      <4> QED
        BY <4>1, <4>2, <4>3, OthersDo
    <3> QED
      BY <3>1, <3>2
  <2>4. ASSUME Begin(p) PROVE DoingInv'
    <3>1. /\ proc'[p].op = proc[p].op /\ proc'[p].pc \in {"nested", "commit"}
          /\ proc'[p].conn = proc[p].conn
          /\ \A q \in Procs \ {p} : proc'[q] = proc[q]
      BY <2>4, Goes DEF Begin, Goto
    <3>2. \A q \in Procs \ {p} : barrier = q => barrier' = q /\ (backups # <<>> => backups' # <<>>)
      BY <2>4 DEF Begin, locks, counts
    <3>3. Doing(p)'
      BY <2>4, <3>1 DEF Begin, Doing, DoingInv, At, Op, Conn, BehindPcs, locks, Behind
    <3> QED
      BY <3>1, <3>2, <3>3, OthersDo
  <2>5. ASSUME NestedConnect(p) PROVE DoingInv'
    <3>1. CASE Leave(p)
      <4>1. backups' = backups
        BY <2>5 DEF NestedConnect
      <4> QED
        BY <3>1, <4>1, LeavesDo
    <3>2. CASE ~Leave(p)
      <4>1. /\ proc'[p].op = proc[p].op /\ proc'[p].pc = "commit"
            /\ proc'[p].conn = proc[p].conn
            /\ \A q \in Procs \ {p} : proc'[q] = proc[q]
        BY <2>5, <3>2, Goes DEF NestedConnect, Goto
      <4>2. \A q \in Procs \ {p} : barrier = q => barrier' = q /\ (backups # <<>> => backups' # <<>>)
        BY <2>5, <3>2 DEF NestedConnect, locks, counts
      <4>3. Doing(p)'
        BY <2>5, <3>2, <4>1 DEF NestedConnect, Doing, DoingInv, At, Op, Conn, BehindPcs,
           locks, Behind
      <4> QED
        BY <4>1, <4>2, <4>3, OthersDo
    <3> QED
      BY <3>1, <3>2
  <2>6. ASSUME Commit(p) PROVE DoingInv'
    <3>1. /\ proc'[p].op = proc[p].op /\ proc'[p].pc = "close" /\ proc'[p].conn = proc[p].conn
          /\ \A q \in Procs \ {p} : proc'[q] = proc[q]
      BY <2>6, Goes DEF Commit, Goto
    <3>2. \A q \in Procs \ {p} : barrier = q => barrier' = q /\ (backups # <<>> => backups' # <<>>)
      BY <2>6 DEF Commit, locks, counts
    <3>3. Doing(p)'
      BY <2>6, <3>1 DEF Commit, Doing, DoingInv, At, Op, Conn, BehindPcs, locks, Behind
    <3> QED
      BY <3>1, <3>2, <3>3, OthersDo
  <2>7. ASSUME Close(p) PROVE DoingInv'
    <3>1. backups' = backups
      BY <2>7 DEF Close
    <3> QED
      BY <2>7, <3>1, LeavesDo DEF Close
  <2>8. ASSUME CheckImported(p) PROVE DoingInv'
    <3>1. CASE Leave(p)
      <4>1. backups' = backups
        BY <2>8 DEF CheckImported
      <4> QED
        BY <3>1, <4>1, LeavesDo
    <3>2. CASE ~Leave(p)
      <4>1. /\ proc'[p].op = "import" /\ proc'[p].pc = "connect"
            /\ \A q \in Procs \ {p} : proc'[q] = proc[q]
        BY <2>8, <3>2, Leaves, ImportingIs DEF CheckImported, Importing
      <4>2. \A q \in Procs \ {p} : barrier = q => barrier' = q /\ (backups # <<>> => backups' # <<>>)
        BY <2>8, <3>2 DEF CheckImported, locks, counts
      <4>3. Doing(p)'
        BY <2>8, <3>2, <4>1 DEF CheckImported, Doing, DoingInv, At, Op, Conn, BehindPcs,
           locks, Behind
      <4> QED
        BY <4>1, <4>2, <4>3, OthersDo
    <3> QED
      BY <3>1, <3>2
  <2>9. ASSUME Acquire(p) PROVE DoingInv'
    <3>1. Op(p) \in Behind /\ proc[p].pc = "acquire"
      BY <2>9 DEF Acquire, DoingInv, Doing, At
    <3> DEFINE c == CASE Op(p) = "init" -> "initLock" [] Op(p) = "daily" -> "dailyLock"
                      [] Op(p) = "manual" -> "copy" [] Op(p) = "restore" -> "aside"
    <3>2. /\ c \in {"initLock", "dailyLock", "copy", "aside"}
          /\ c = "dailyLock" => Op(p) = "daily"
          /\ c = "copy" => Op(p) = "manual"
      BY <3>1 DEF Behind
    <3>7. proc' = [proc EXCEPT ![p].pc = c]
      BY <2>9 DEF Acquire, Goto
    <3> HIDE DEF c
    <3>3. /\ proc'[p].op = proc[p].op
          /\ proc'[p].pc = c
          /\ \A q \in Procs \ {p} : proc'[q] = proc[q]
      BY <3>7, Goes
    <3>4. barrier = Nobody /\ barrier' = p /\ backups' = backups
      BY <2>9 DEF Acquire
    <3>5. Doing(p)'
      <4>1. CASE c \in {"initLock", "aside"}
        BY <3>3, <3>4, <4>1 DEF Doing, At, BehindPcs
      <4>2. CASE c \in {"dailyLock", "copy"}
        <5>1. proc[p].op \in {"manual", "daily"}
          BY <3>2, <4>2 DEF Op
        <5> QED
          BY <3>3, <3>4, <4>2, <5>1 DEF Doing, At, Op, BehindPcs
      <4> QED
        BY <3>2, <4>1, <4>2
    <3>6. \A q \in Procs \ {p} : barrier # q
      BY <3>4, StorageAssumption
    <3> QED
      BY <3>3, <3>5, <3>6, OthersDo
  <2>10. ASSUME TakeInitLock(p) PROVE DoingInv'
    <3>1. /\ proc'[p].op = proc[p].op /\ proc'[p].pc = "create" /\ proc'[p].conn = proc[p].conn
          /\ \A q \in Procs \ {p} : proc'[q] = proc[q]
      BY <2>10, Goes DEF TakeInitLock, Goto
    <3>2. \A q \in Procs \ {p} : barrier = q => barrier' = q /\ (backups # <<>> => backups' # <<>>)
      BY <2>10 DEF TakeInitLock, locks, counts
    <3>3. Doing(p)'
      BY <2>10, <3>1 DEF TakeInitLock, Doing, DoingInv, At, Op, Conn, BehindPcs, locks, Behind
    <3> QED
      BY <3>1, <3>2, <3>3, OthersDo
  <2>11. ASSUME Create(p) PROVE DoingInv'
    <3>1. /\ proc'[p].op = proc[p].op /\ proc'[p].pc = "schema" /\ proc'[p].conn # 0
          /\ \A q \in Procs \ {p} : proc'[q] = proc[q]
      BY <2>11, CreateHereDoes, CreateDoes, NewFile
    <3>2. \A q \in Procs \ {p} : barrier = q => barrier' = q /\ (backups # <<>> => backups' # <<>>)
      BY <2>11 DEF Create, locks, counts
    <3>3. Doing(p)'
      BY <2>11, <3>1 DEF Create, Doing, DoingInv, At, Op, Conn, BehindPcs, locks, Behind
    <3> QED
      BY <3>1, <3>2, <3>3, OthersDo
  <2>12. ASSUME Schema(p) PROVE DoingInv'
    <3>1. /\ proc'[p].op = proc[p].op /\ proc'[p].pc = "close" /\ proc'[p].conn = proc[p].conn
          /\ \A q \in Procs \ {p} : proc'[q] = proc[q]
      BY <2>12, Goes DEF Schema, Goto
    <3>2. \A q \in Procs \ {p} : barrier = q => barrier' = q /\ (backups # <<>> => backups' # <<>>)
      BY <2>12 DEF Schema, locks, counts
    <3>3. Doing(p)'
      BY <2>12, <3>1 DEF Schema, Doing, DoingInv, At, Op, Conn, BehindPcs, locks, Behind
    <3> QED
      BY <3>1, <3>2, <3>3, OthersDo
  <2>13. ASSUME LookUp(p) PROVE DoingInv'
    <3>1. barrier = p /\ Op(p) \in {"manual", "daily"}
      BY <2>13 DEF LookUp, DoingInv, Doing, At, BehindPcs
    <3>2. CASE proc' = [proc EXCEPT ![p] = Idle]
      BY <2>13, <3>1, <3>2, LeavesDo DEF LookUp
    <3>3. CASE proc' # [proc EXCEPT ![p] = Idle]
      <4> DEFINE today == held[present].today
      <4>1. \/ proc' = [proc EXCEPT ![p].id = today, ![p].pc = "return"]
            \/ proc' = [proc EXCEPT ![p].pc = "copy"]
        BY <2>13, <3>3 DEF LookUp
      <4> HIDE DEF today
      <4>2. /\ \A q \in Procs \ {p} : proc'[q] = proc[q]
            /\ proc'[p].op = proc[p].op /\ proc'[p].pc \in {"return", "copy"}
        BY <4>1, Goes, Finds
      <4>3. barrier' = barrier /\ backups' = backups
        BY <2>13, <3>3 DEF LookUp
      <4>4. Doing(p)'
        BY <3>1, <4>2, <4>3 DEF Doing, At, Op, BehindPcs
      <4> QED
        BY <4>2, <4>3, <4>4, OthersDo
    <3> QED
      BY <3>2, <3>3
  <2>14. ASSUME Copy(p) PROVE DoingInv'
    <3>1. CASE present = 0
      BY <2>14, <3>1, LeavesDo DEF Copy
    <3>2. CASE present # 0
      <4>1. \A q \in Procs \ {p} : proc'[q] = proc[q]
        BY <2>14, <3>2, CopyDoes
      <4>2. proc'[p].op = proc[p].op /\ proc'[p].pc = "publish"
        BY <2>14, <3>2, CopyDoes
      <4>3. backups' # <<>>
        BY <2>14, <3>2 DEF Copy, RestOK
      <4>4. barrier = p /\ barrier' = barrier
        BY <2>14, <3>2 DEF Copy, DoingInv, Doing, At, BehindPcs, locks
      <4>5. Doing(p)'
        BY <4>2, <4>3, <4>4 DEF Doing, At, Op, BehindPcs
      <4> QED
        BY <4>1, <4>3, <4>4, <4>5, OthersDo
    <3> QED
      BY <3>1, <3>2
  <2>15. ASSUME Publish(p) PROVE DoingInv'
    <3>1. /\ proc'[p].op = proc[p].op /\ proc'[p].pc \in {"record", "prune"}
          /\ \A q \in Procs \ {p} : proc'[q] = proc[q]
      BY <2>15, Publishes DEF Publish
    <3>2. barrier = p /\ barrier' = barrier /\ backups # <<>>
      BY <2>15 DEF Publish, DoingInv, Doing, At, BehindPcs, locks
    <3>3. backups' # <<>>
      BY <2>15, <3>2, EmptySeq, LenProperties DEF Publish, RestOK
    <3>4. Doing(p)'
      BY <3>1, <3>2, <3>3 DEF Doing, At, Op, BehindPcs
    <3> QED
      BY <3>1, <3>2, <3>3, <3>4, OthersDo
  <2>16. ASSUME Record(p) PROVE DoingInv'
    <3>1. CASE Leave(p)
      <4>1. backups' = backups
        BY <2>16 DEF Record
      <4> QED
        BY <3>1, <4>1, LeavesDo
    <3>2. CASE ~Leave(p)
      <4>1. /\ proc'[p].op = proc[p].op /\ proc'[p].pc = "prune"
            /\ proc'[p].conn = proc[p].conn
            /\ \A q \in Procs \ {p} : proc'[q] = proc[q]
        BY <2>16, <3>2, Goes DEF Record, Goto
      <4>2. \A q \in Procs \ {p} : barrier = q => barrier' = q /\ (backups # <<>> => backups' # <<>>)
        BY <2>16, <3>2 DEF Record, locks, counts
      <4>3. Doing(p)'
        BY <2>16, <3>2, <4>1 DEF Record, Doing, DoingInv, At, Op, Conn, BehindPcs, locks,
           Behind
      <4> QED
        BY <4>1, <4>2, <4>3, OthersDo
    <3> QED
      BY <3>1, <3>2
  <2>17. ASSUME Prune(p) PROVE DoingInv'
    <3>1. /\ proc'[p].op = proc[p].op /\ proc'[p].pc = "return"
          /\ \A q \in Procs \ {p} : proc'[q] = proc[q]
      BY <2>17, Goes DEF Prune, Goto
    <3>2. barrier = p /\ barrier' = barrier /\ backups # <<>>
      BY <2>17 DEF Prune, DoingInv, Doing, At, BehindPcs, locks
    <3>3. backups' # <<>>
      BY <2>17, <3>2, RotatedPart DEF Prune, RestOK
    <3>4. Doing(p)'
      BY <3>1, <3>2, <3>3 DEF Doing, At, Op, BehindPcs
    <3> QED
      BY <3>1, <3>2, <3>3, <3>4, OthersDo
  <2>18. ASSUME Return(p) PROVE DoingInv'
    <3>1. backups' = backups
      BY <2>18 DEF Return
    <3> QED
      BY <2>18, <3>1, LeavesDo DEF Return
  <2>19. ASSUME MoveAside(p) PROVE DoingInv'
    <3>1. CASE Leave(p)
      <4>1. backups' = backups
        BY <2>19 DEF MoveAside
      <4> QED
        BY <3>1, <4>1, LeavesDo
    <3>2. CASE ~Leave(p)
      <4>1. /\ proc'[p].op = proc[p].op /\ proc'[p].pc = "asideLog"
            /\ \A q \in Procs \ {p} : proc'[q] = proc[q]
        BY <2>19, <3>2, MoveAsideDoes
      <4>2. \A q \in Procs \ {p} : barrier = q => barrier' = q /\ (backups # <<>> => backups' # <<>>)
        BY <2>19, <3>2 DEF MoveAside, locks, counts
      <4>3. Doing(p)'
        BY <2>19, <3>2, <4>1 DEF MoveAside, Doing, DoingInv, At, Op, Conn, BehindPcs,
           locks, Behind
      <4> QED
        BY <4>1, <4>2, <4>3, OthersDo
    <3> QED
      BY <3>1, <3>2
  <2>20. ASSUME MoveLogAside(p) PROVE DoingInv'
    <3>1. /\ proc'[p].op = proc[p].op /\ proc'[p].pc = "replace"
          /\ \A q \in Procs \ {p} : proc'[q] = proc[q]
      BY <2>20, MoveLogAsideDoes
    <3>2. \A q \in Procs \ {p} : barrier = q => barrier' = q /\ (backups # <<>> => backups' # <<>>)
      BY <2>20 DEF MoveLogAside, locks, counts
    <3>3. Doing(p)'
      BY <2>20, <3>1 DEF MoveLogAside, Doing, DoingInv, At, Op, Conn, BehindPcs, locks, Behind
    <3> QED
      BY <3>1, <3>2, <3>3, OthersDo
  <2>21. ASSUME Replace(p) PROVE DoingInv'
    <3>1. barrier = p
      BY <2>21 DEF Replace, DoingInv, Doing, At, BehindPcs
    <3> QED
      BY <2>21, <3>1, LeavesDo DEF Replace, counts
  <2>22. ASSUME GiveUp(p) PROVE DoingInv'
    <3>1. backups' = backups
      BY <2>22 DEF GiveUp
    <3> QED
      BY <2>22, <3>1, LeavesDo DEF GiveUp
  <2>23. ASSUME FailInit(p) PROVE DoingInv'
    <3>1. backups' = backups
      BY <2>23 DEF FailInit
    <3> QED
      BY <2>23, <3>1, LeavesDo DEF FailInit
  <2>24. ASSUME FailPublish(p) PROVE DoingInv'
    <3>1. barrier = p
      BY <2>24 DEF FailPublish, DoingInv, Doing, At, BehindPcs
    <3> QED
      BY <2>24, <3>1, LeavesDo DEF FailPublish
  <2>25. ASSUME FailRestore(p) PROVE DoingInv'
    <3>1. barrier = p
      BY <2>25 DEF FailRestore, DoingInv, Doing, At, BehindPcs
    <3> QED
      BY <2>25, <3>1, LeavesDo DEF FailRestore
  <2>26. ASSUME Crash(p) PROVE DoingInv'
    <3>1. barrier' = barrier \/ barrier = p
      BY <2>26 DEF Crash
    <3> QED
      BY <2>26, <3>1, LeavesDo DEF Crash, files
  <2>27. ASSUME FailUndo(p) PROVE DoingInv'
    <3>1. barrier = p
      BY <2>27 DEF FailUndo, DoingInv, Doing, At, BehindPcs
    <3> QED
      BY <2>27, <3>1, LeavesDo DEF FailUndo
  <2> QED
    BY <1>2, <2>1, <2>2, <2>3, <2>4, <2>5, <2>6, <2>7, <2>8, <2>9, <2>10, <2>11, <2>12,
       <2>13, <2>14, <2>15, <2>16, <2>17, <2>18, <2>19, <2>20, <2>21, <2>22, <2>23, <2>24,
       <2>25, <2>26, <2>27 DEF Step, Trouble
<1> QED
  BY <1>1, <1>2 DEF Next

(* What a process does, and the room that is kept for it, keep the types. *)
TypesInv == ProcsOK /\ RestOK /\ DoingInv /\ RoomInv

LEMMA InitTypes == Init => TypesInv
<1> SUFFICES ASSUME Init PROVE TypesInv
  OBVIOUS
<1>1. Empty \in Contents /\ Blank \in Contents
  BY StorageAssumption DEF Empty, Contents, Blank
<1>2. ProcsOK
  BY BlankIdle DEF Init, ProcsOK
<1>3. RestOK
  <2>1. backups \in Seq([id : 1 .. MaxMade, data : Contents])
    BY <1>1, StorageAssumption DEF Init
  <2> QED
    BY <1>1, <2>1, StorageAssumption DEF Init, RestOK, Ids
<1>4. \A p \in Procs : proc[p].pc = "idle"
  BY ImportingIs DEF Init
<1>5. DoingInv
  BY <1>4 DEF DoingInv, Doing, At, BehindPcs
<1>6. Writers = {} /\ Makers = {}
  BY <1>4 DEF Writers, Makers
<1>7. RoomInv
  BY <1>6, FS_EmptySet, StorageAssumption DEF Init, RoomInv
<1> QED
  BY <1>2, <1>3, <1>5, <1>7 DEF TypesInv

LEMMA NextTypes == TypesInv /\ [Next]_vars => TypesInv'
BY NextProcs, NextRest, NextDoing, NextRoom DEF TypesInv

LEMMA TypesKept == Spec => []TypesInv
<1> QED
  BY InitTypes, NextTypes, PTL DEF Spec

(* The state has its type: rows, files and backups stay within the bounds, and
   the processes do what their operation has them do. *)
THEOREM TypesCorrect == Spec => []TypeOK
<1>1. TypesInv => TypeOK
  BY Parts DEF TypesInv
<1> QED
  BY <1>1, TypesKept, PTL

-----------------------------------------------------------------------------
(* Where no open file is moved: connections *)

(* A process that keeps or closes its connection and leaves the files in their
   places changes nothing for the others. *)
LEMMA StayAttached ==
  ASSUME TypesInv, AttachedInv, NEW p \in Procs, \A q \in Procs \ {p} : proc'[q] = proc[q],
         present' = present, used' = used,
         \A q \in Procs \ {p} : At(q, "schema") => held'[present].tables = held[present].tables,
         \/ proc'[p].conn = 0
         \/ proc'[p].conn = proc[p].conn /\ proc'[p].pc \in {"begin", "nested", "commit", "close"},
         proc'[p].fresh => proc[p].fresh /\ proc'[p].pc = "close",
         proc'[p].pc \notin {"schema", "asideLog", "replace"}
  PROVE  AttachedInv'
<1>1. Attached(p)'
  BY DEF AttachedInv, Attached, At, Conn
<1>2. ASSUME NEW q \in Procs, q # p PROVE Attached(q)'
  <2>1. Attached(q) /\ proc'[q] = proc[q]
    BY <1>2 DEF AttachedInv
  <2>2. ASSUME At(q, "schema"), proc[q].fresh
        PROVE  ~held'[present].tables /\ Users(present)' = {q}
    <3>1. ~held[present].tables /\ Users(present) = {q} /\ present # 0
      BY <2>1, <2>2 DEF Attached, TypesInv, DoingInv, Doing, At
    <3>2. Users(present)' = {q}
      BY <1>2, <2>1, <3>1 DEF Users
    <3> QED
      BY <1>2, <2>2, <3>1, <3>2
  <2> QED
    BY <2>1, <2>2 DEF Attached, At, Conn
<1> QED
  BY <1>1, <1>2 DEF AttachedInv

(* Behind the barrier one process can move the file that no other has open. *)
LEMMA MoveAttached ==
  ASSUME TypesInv, AttachedInv, NEW p \in Procs, \A q \in Procs \ {p} : proc'[q] = proc[q],
         barrier = p, \A q \in Procs \ {p} : Conn(q) \in {0, present'}, Attached(p)'
  PROVE  AttachedInv'
<1>1. ASSUME NEW q \in Procs, q # p PROVE Attached(q)'
  <2>1. Attached(q) /\ proc'[q] = proc[q] /\ proc[q].pc \notin BehindPcs
    BY <1>1 DEF AttachedInv, TypesInv, DoingInv, Doing
  <2> QED
    BY <1>1, <2>1 DEF Attached, At, Conn, BehindPcs
<1> QED
  BY <1>1 DEF AttachedInv

(* Who leaves has closed its connection. *)
LEMMA LeaveAttached ==
  ASSUME TypesInv, AttachedInv, NEW p \in Procs, Leave(p) \/ proc' = [proc EXCEPT ![p] = Idle],
         present' = present, used' = used, held' = held
  PROVE  AttachedInv'
<1>1. /\ proc'[p].conn = 0 /\ proc'[p].fresh = FALSE /\ proc'[p].pc = "idle"
      /\ \A q \in Procs \ {p} : proc'[q] = proc[q]
  BY Leaves, ImportingIs DEF Leave, TypesInv
<1> QED
  BY <1>1, StayAttached

(* Behind the barrier nobody else is at work on the file. *)
LEMMA Alone ==
  ASSUME TypesInv, NEW p \in Procs, proc[p].pc \in BehindPcs
  PROVE  barrier = p /\ \A q \in Procs \ {p} : proc[q].pc \notin BehindPcs
BY DEF TypesInv, DoingInv, Doing

(* The step of restore that does something. *)
MovesAside(p) ==
  /\ CanRenameOpen \/ present = 0 \/ Users(present) = {}
  /\ present' = 0
  /\ \E i \in DOMAIN backups :
       proc' = [proc EXCEPT ![p].data = backups[i].data, ![p].aside = present, ![p].pc = "asideLog"]
  /\ UNCHANGED <<log, locks>>

LEMMA MoveAsideCases ==
  ASSUME NEW p \in Procs, MoveAside(p)
  PROVE  MovesAside(p) \/ (Leave(p) /\ UNCHANGED present)
BY DEF MoveAside, MovesAside

(* It moves the database away. *)
LEMMA MovesAsideDoes ==
  ASSUME ProcsOK, NEW p \in Procs, MovesAside(p)
  PROVE  /\ \A q \in Procs \ {p} : proc'[q] = proc[q]
         /\ proc'[p].op = proc[p].op /\ proc'[p].pc = "asideLog"
         /\ proc'[p].conn = proc[p].conn
         /\ \E i \in DOMAIN backups : proc'[p].data = backups[i].data
         /\ proc'[p].id = proc[p].id /\ proc'[p].aside = present
         /\ proc'[p].asideLog = proc[p].asideLog /\ proc'[p].fresh = proc[p].fresh
<1>1. PICK i \in DOMAIN backups :
        proc' = [proc EXCEPT ![p].data = backups[i].data, ![p].aside = present, ![p].pc = "asideLog"]
  BY DEF MovesAside
<1>2. /\ proc'[p] = [proc[p] EXCEPT !.data = backups[i].data, !.aside = present, !.pc = "asideLog"]
      /\ \A q \in Procs \ {p} : proc'[q] = proc[q]
  BY <1>1 DEF ProcsOK
<1>3. proc[p] \in ProcState
  BY DEF ProcsOK
<1>4. ASSUME NEW r \in ProcState, NEW s,
             s = [r EXCEPT !.data = backups[i].data, !.aside = present, !.pc = "asideLog"]
      PROVE  /\ s.op = r.op /\ s.pc = "asideLog" /\ s.conn = r.conn /\ s.data = backups[i].data
             /\ s.id = r.id /\ s.aside = present /\ s.asideLog = r.asideLog
             /\ s.fresh = r.fresh
  BY <1>4 DEF ProcState
<1>5. /\ proc'[p].op = proc[p].op /\ proc'[p].pc = "asideLog" /\ proc'[p].conn = proc[p].conn
      /\ proc'[p].data = backups[i].data /\ proc'[p].id = proc[p].id
      /\ proc'[p].aside = present
      /\ proc'[p].asideLog = proc[p].asideLog /\ proc'[p].fresh = proc[p].fresh
  BY <1>2, <1>3, <1>4
<1> QED
  BY <1>2, <1>5

(* The barrier is taken. *)
LEMMA AcquireDoes ==
  ASSUME TypesInv, NEW p \in Procs, Acquire(p)
  PROVE  /\ proc'[p].pc \in {"initLock", "dailyLock", "copy", "aside"}
         /\ proc'[p].conn = proc[p].conn /\ proc'[p].fresh = proc[p].fresh
         /\ proc'[p].data = proc[p].data /\ proc'[p].asideLog = proc[p].asideLog
         /\ proc'[p].aside = proc[p].aside /\ proc'[p].op = proc[p].op
         /\ proc'[p].id = proc[p].id
         /\ \A q \in Procs \ {p} : proc'[q] = proc[q]
<1>1. Op(p) \in Behind
  BY DEF Acquire, TypesInv, DoingInv, Doing
<1> DEFINE c == CASE Op(p) = "init" -> "initLock" [] Op(p) = "daily" -> "dailyLock"
                  [] Op(p) = "manual" -> "copy" [] Op(p) = "restore" -> "aside"
<1>2. c \in {"initLock", "dailyLock", "copy", "aside"}
  BY <1>1 DEF Behind
<1>3. proc' = [proc EXCEPT ![p].pc = c]
  BY DEF Acquire, Goto
<1> HIDE DEF c
<1> QED
  BY <1>2, <1>3, Goes DEF TypesInv

(* Nobody gets a connection to a file that is not the present one. *)
LEMMA NextAttached ==
  ASSUME TypesInv, ~CanRenameOpen, AttachedInv, FilesInv, [Next]_vars
  PROVE  AttachedInv'
<1>1. CASE UNCHANGED vars
  BY <1>1 DEF vars, AttachedInv, Attached, At, Conn, Users
<1>2. ASSUME NEW p \in Procs, (\E op \in Operations : Start(p, op)) \/ Step(p) \/ Trouble(p)
      PROVE  AttachedInv'
  <2>1. ASSUME NEW op \in Operations, Start(p, op) PROVE AttachedInv'
    <3>1. /\ proc'[p].pc \in {"acquire", "connect"} /\ proc'[p].conn = proc[p].conn
          /\ proc'[p].fresh = proc[p].fresh
          /\ \A q \in Procs \ {p} : proc'[q] = proc[q]
      BY <2>1, StartDoes DEF TypesInv
    <3>2. present' = present /\ used' = used /\ held' = held
      BY <2>1 DEF Start, files
    <3>3. Attached(p) /\ proc[p].pc = "idle"
      BY <2>1 DEF Start, AttachedInv, At
    <3> QED
      BY <3>1, <3>2, <3>3, StayAttached DEF Attached, Conn
  <2>2. ASSUME PassBarrier(p) PROVE AttachedInv'
    <3>1. /\ proc'[p].pc = "open" /\ proc'[p].conn = proc[p].conn
          /\ proc'[p].fresh = proc[p].fresh
          /\ \A q \in Procs \ {p} : proc'[q] = proc[q]
      BY <2>2, Goes DEF PassBarrier, Goto, TypesInv
    <3>2. present' = present /\ used' = used /\ held' = held
      BY <2>2 DEF PassBarrier, files
    <3>3. Attached(p) /\ proc[p].pc = "connect"
      BY <2>2 DEF PassBarrier, AttachedInv, At
    <3> QED
      BY <3>1, <3>2, <3>3, StayAttached DEF Attached, Conn
  <2>3. ASSUME Open(p) PROVE AttachedInv'
    <3>1. CASE Leave(p)
      BY <2>3, <3>1, LeaveAttached DEF Open
    <3>2. CASE ~Leave(p)
      <4>1. /\ proc'[p].pc \in {"begin", "check"} /\ proc'[p].conn = present
            /\ proc'[p].fresh = proc[p].fresh
            /\ \A q \in Procs \ {p} : proc'[q] = proc[q]
        BY <2>3, <3>2, Opens DEF Open, TypesInv
      <4>2. present' = present /\ used' = used /\ held' = held /\ held[present].tables
        BY <2>3, <3>2 DEF Open
      <4>3. Attached(p) /\ proc[p].pc = "open"
        BY <2>3, <3>2 DEF Open, AttachedInv, At
      <4>4. Attached(p)'
        BY <4>1, <4>2, <4>3 DEF Attached, At, Conn
      <4>5. ASSUME NEW q \in Procs, q # p PROVE Attached(q)'
        BY <4>1, <4>2, <4>5 DEF AttachedInv, Attached, At, Conn
      <4> QED
        BY <4>4, <4>5 DEF AttachedInv
    <3> QED
      BY <3>1, <3>2
  <2>4. ASSUME Begin(p) PROVE AttachedInv'
    <3>1. /\ proc'[p].pc \in {"nested", "commit"} /\ proc'[p].conn = proc[p].conn
          /\ proc'[p].fresh = proc[p].fresh
          /\ \A q \in Procs \ {p} : proc'[q] = proc[q]
      BY <2>4, Goes DEF Begin, Goto, TypesInv
    <3>2. present' = present /\ used' = used /\ held' = held
      BY <2>4 DEF Begin, files
    <3>3. Attached(p) /\ proc[p].pc = "begin"
      BY <2>4 DEF Begin, AttachedInv, At
    <3> QED
      BY <3>1, <3>2, <3>3, StayAttached DEF Attached, Conn
  <2>5. ASSUME NestedConnect(p) PROVE AttachedInv'
    <3>1. CASE Leave(p)
      BY <2>5, <3>1, LeaveAttached DEF NestedConnect
    <3>2. CASE ~Leave(p)
      <4>1. /\ proc'[p].pc = "commit" /\ proc'[p].conn = proc[p].conn
            /\ proc'[p].fresh = proc[p].fresh
            /\ \A q \in Procs \ {p} : proc'[q] = proc[q]
        BY <2>5, <3>2, Goes DEF NestedConnect, Goto, TypesInv
      <4>2. present' = present /\ used' = used /\ held' = held
        BY <2>5, <3>2 DEF NestedConnect, files
      <4>3. Attached(p) /\ proc[p].pc = "nested"
        BY <2>5, <3>2 DEF NestedConnect, AttachedInv, At
      <4> QED
        BY <4>1, <4>2, <4>3, StayAttached DEF Attached, Conn
    <3> QED
      BY <3>1, <3>2
  <2>6. ASSUME Commit(p) PROVE AttachedInv'
    <3>1. /\ proc'[p].pc = "close" /\ proc'[p].conn = proc[p].conn
          /\ proc'[p].fresh = proc[p].fresh
          /\ \A q \in Procs \ {p} : proc'[q] = proc[q]
      BY <2>6, Goes DEF Commit, Goto, TypesInv
    <3>2. present' = present /\ used' = used
      BY <2>6 DEF Commit
    <3>3. Attached(p) /\ proc[p].pc = "commit"
      BY <2>6 DEF Commit, AttachedInv, At
    <3>4. PICK R : held' = [held EXCEPT ![Conn(p)].rows = R]
      BY <2>6 DEF Commit
    <3>5. ASSUME NEW q \in Procs, At(q, "schema") PROVE held'[present].tables = held[present].tables
      <4>1. present \in Ids /\ held \in [Ids -> Contents]
        BY <3>5, StorageAssumption DEF AttachedInv, Attached, TypesInv, DoingInv, Doing,
           At, RestOK, Ids
      <4>2. ASSUME NEW c \in Contents PROVE [c EXCEPT !.rows = R].tables = c.tables
        BY DEF Contents
      <4> QED
        BY <3>4, <4>1, <4>2
    <3> QED
      BY <3>1, <3>2, <3>3, <3>5, StayAttached DEF Attached, Conn
  <2>7. ASSUME Close(p) PROVE AttachedInv'
    BY <2>7, LeaveAttached DEF Close
  <2>8. ASSUME CheckImported(p) PROVE AttachedInv'
    <3>1. CASE Leave(p)
      BY <2>8, <3>1, LeaveAttached DEF CheckImported
    <3>2. CASE ~Leave(p)
      <4>1. /\ proc'[p].pc = "connect" /\ proc'[p].conn = 0 /\ proc'[p].fresh = FALSE
            /\ \A q \in Procs \ {p} : proc'[q] = proc[q]
        BY <2>8, <3>2, Leaves, ImportingIs DEF CheckImported, Importing, TypesInv
      <4>2. present' = present /\ used' = used /\ held' = held
        BY <2>8, <3>2 DEF CheckImported, files
      <4>3. Attached(p) /\ proc[p].pc = "check"
        BY <2>8, <3>2 DEF CheckImported, AttachedInv, At
      <4> QED
        BY <4>1, <4>2, <4>3, StayAttached DEF Attached, Conn
    <3> QED
      BY <3>1, <3>2
  <2>9. ASSUME Acquire(p) PROVE AttachedInv'
    <3>1. /\ proc'[p].pc \in {"initLock", "dailyLock", "copy", "aside"}
          /\ proc'[p].conn = proc[p].conn /\ proc'[p].fresh = proc[p].fresh
          /\ \A q \in Procs \ {p} : proc'[q] = proc[q]
      BY <2>9, AcquireDoes
    <3>2. present' = present /\ used' = used /\ held' = held
      BY <2>9 DEF Acquire, files
    <3>3. Attached(p) /\ proc[p].pc = "acquire"
      BY <2>9 DEF Acquire, AttachedInv, At
    <3> QED
      BY <3>1, <3>2, <3>3, StayAttached DEF Attached, Conn
  <2>10. ASSUME TakeInitLock(p) PROVE AttachedInv'
    <3>1. /\ proc'[p].pc = "create" /\ proc'[p].conn = proc[p].conn
          /\ proc'[p].fresh = proc[p].fresh
          /\ \A q \in Procs \ {p} : proc'[q] = proc[q]
      BY <2>10, Goes DEF TakeInitLock, Goto, TypesInv
    <3>2. present' = present /\ used' = used /\ held' = held
      BY <2>10 DEF TakeInitLock, files
    <3>3. Attached(p) /\ proc[p].pc = "initLock"
      BY <2>10 DEF TakeInitLock, AttachedInv, At
    <3> QED
      BY <3>1, <3>2, <3>3, StayAttached DEF Attached, Conn
  <2>11. ASSUME Create(p) PROVE AttachedInv'
    <3>1. Attached(p) /\ proc[p].pc = "create" /\ barrier = p
      BY <2>11, Alone DEF Create, AttachedInv, At, BehindPcs
    <3>2. \A q \in Procs : Conn(q) \in {0, present} /\ (q # p => proc[q].pc \notin BehindPcs)
      BY <3>1, Alone DEF AttachedInv, Attached, BehindPcs
    <3>3. CASE present # 0
      <4>1. /\ proc'[p].pc = "schema" /\ proc'[p].conn = present
            /\ proc'[p].fresh = proc[p].fresh
            /\ \A q \in Procs \ {p} : proc'[q] = proc[q]
        BY <2>11, <3>3, CreateHereDoes DEF TypesInv
      <4>2. present' = present
        BY <2>11, <3>3 DEF Create, files
      <4>3. Attached(p)'
        BY <3>1, <4>1, <4>2 DEF Attached, At, Conn
      <4> QED
        BY <3>1, <3>2, <4>1, <4>2, <4>3, MoveAttached
    <3>4. CASE present = 0
      <4>1. /\ proc'[p].pc = "schema" /\ proc'[p].conn = present' /\ proc'[p].fresh = TRUE
            /\ \A q \in Procs \ {p} : proc'[q] = proc[q]
        BY <2>11, <3>4, CreateDoes DEF TypesInv
      <4>2. /\ present' # 0 /\ present' \in Ids \ used
            /\ held' = [g \in Ids |-> [held[g] EXCEPT !.rows = @ \ log]]
        BY <2>11, <3>4, NewFile
      <4>3. ~held'[present'].tables
        BY <4>2 DEF FilesInv, Blank
      <4>4. Users(present)' = {p}
        BY <3>2, <3>4, <4>1, <4>2 DEF Users, Conn
      <4>5. Attached(p)'
        BY <4>1, <4>3, <4>4 DEF Attached, At, Conn
      <4> QED
        BY <3>1, <3>2, <3>4, <4>1, <4>5, MoveAttached
    <3> QED
      BY <3>3, <3>4
  <2>12. ASSUME Schema(p) PROVE AttachedInv'
    <3>1. /\ proc'[p].pc = "close" /\ proc'[p].conn = proc[p].conn
          /\ proc'[p].fresh = proc[p].fresh
          /\ \A q \in Procs \ {p} : proc'[q] = proc[q]
      BY <2>12, Goes DEF Schema, Goto, TypesInv
    <3>2. present' = present /\ used' = used
      BY <2>12 DEF Schema
    <3>3. Attached(p) /\ proc[p].pc = "schema"
      BY <2>12 DEF Schema, AttachedInv, At
    <3>4. \A q \in Procs \ {p} : ~At(q, "schema")
      BY <3>3, Alone DEF At, BehindPcs
    <3> QED
      BY <3>1, <3>2, <3>3, <3>4, StayAttached DEF Attached, Conn
  <2>13. ASSUME LookUp(p) PROVE AttachedInv'
    <3>1. CASE proc' = [proc EXCEPT ![p] = Idle]
      BY <2>13, <3>1, LeaveAttached DEF LookUp, files
    <3>2. CASE proc' # [proc EXCEPT ![p] = Idle]
      <4> DEFINE today == held[present].today
      <4>1. \/ proc' = [proc EXCEPT ![p].id = today, ![p].pc = "return"]
            \/ proc' = [proc EXCEPT ![p].pc = "copy"]
        BY <2>13, <3>2 DEF LookUp
      <4> HIDE DEF today
      <4>6. /\ proc'[p].pc \in {"return", "copy"} /\ proc'[p].conn = proc[p].conn
            /\ proc'[p].fresh = proc[p].fresh
            /\ \A q \in Procs \ {p} : proc'[q] = proc[q]
        BY <4>1, Goes, Finds DEF TypesInv
      <4>8. present' = present /\ used' = used /\ held' = held
        BY <2>13 DEF LookUp, files
      <4>7. Attached(p) /\ proc[p].pc = "dailyLock"
        BY <2>13 DEF LookUp, AttachedInv, At
      <4> QED
        BY <4>6, <4>8, <4>7, StayAttached DEF Attached, Conn
    <3> QED
      BY <3>1, <3>2
  <2>14. ASSUME Copy(p) PROVE AttachedInv'
    <3>1. CASE present = 0
      BY <2>14, <3>1, LeaveAttached DEF Copy
    <3>2. CASE present # 0
      <4>1. /\ proc'[p].pc = "publish" /\ proc'[p].conn = present
            /\ proc'[p].fresh = proc[p].fresh
            /\ \A q \in Procs \ {p} : proc'[q] = proc[q]
        BY <2>14, <3>2, CopyDoes DEF TypesInv
      <4>2. present' = present
        BY <2>14 DEF Copy
      <4>3. Attached(p) /\ proc[p].pc = "copy" /\ barrier = p
        BY <2>14, Alone DEF Copy, AttachedInv, At, BehindPcs
      <4>4. Attached(p)'
        BY <4>1, <4>2, <4>3 DEF Attached, At, Conn
      <4>5. \A q \in Procs \ {p} : Conn(q) \in {0, present'}
        BY <4>2 DEF AttachedInv, Attached
      <4> QED
        BY <4>1, <4>3, <4>4, <4>5, MoveAttached
    <3> QED
      BY <3>1, <3>2
  <2>15. ASSUME Publish(p) PROVE AttachedInv'
    <3>1. /\ proc'[p].pc \in {"record", "prune"} /\ proc'[p].conn = 0
          /\ proc'[p].fresh = proc[p].fresh
          /\ \A q \in Procs \ {p} : proc'[q] = proc[q]
      BY <2>15, Publishes DEF Publish, TypesInv
    <3>2. present' = present /\ used' = used /\ held' = held
      BY <2>15 DEF Publish, files
    <3>3. Attached(p) /\ proc[p].pc = "publish"
      BY <2>15 DEF Publish, AttachedInv, At
    <3> QED
      BY <3>1, <3>2, <3>3, StayAttached DEF Attached, Conn
  <2>16. ASSUME Record(p) PROVE AttachedInv'
    <3>1. CASE present = 0
      BY <2>16, <3>1, LeaveAttached DEF Record
    <3>2. CASE present # 0
      <4>1. /\ proc'[p].pc = "prune" /\ proc'[p].conn = proc[p].conn
            /\ proc'[p].fresh = proc[p].fresh
            /\ \A q \in Procs \ {p} : proc'[q] = proc[q]
        BY <2>16, <3>2, Goes DEF Record, Goto, TypesInv
      <4>2. present' = present /\ used' = used
        BY <2>16 DEF Record
      <4>3. Attached(p) /\ proc[p].pc = "record"
        BY <2>16 DEF Record, AttachedInv, At
      <4>4. \A q \in Procs \ {p} : ~At(q, "schema")
        BY <4>3, Alone DEF At, BehindPcs
      <4> QED
        BY <4>1, <4>2, <4>3, <4>4, StayAttached DEF Attached, Conn
    <3> QED
      BY <3>1, <3>2
  <2>17. ASSUME Prune(p) PROVE AttachedInv'
    <3>1. /\ proc'[p].pc = "return" /\ proc'[p].conn = proc[p].conn
          /\ proc'[p].fresh = proc[p].fresh
          /\ \A q \in Procs \ {p} : proc'[q] = proc[q]
      BY <2>17, Goes DEF Prune, Goto, TypesInv
    <3>2. present' = present /\ used' = used /\ held' = held
      BY <2>17 DEF Prune, files
    <3>3. Attached(p) /\ proc[p].pc = "prune"
      BY <2>17 DEF Prune, AttachedInv, At
    <3> QED
      BY <3>1, <3>2, <3>3, StayAttached DEF Attached, Conn
  <2>18. ASSUME Return(p) PROVE AttachedInv'
    BY <2>18, LeaveAttached DEF Return
  <2>19. ASSUME MoveAside(p) PROVE AttachedInv'
    <3>1. CASE Leave(p) /\ UNCHANGED present
      BY <2>19, <3>1, LeaveAttached DEF MoveAside
    <3>2. CASE MovesAside(p)
      <4>1. /\ proc'[p].pc = "asideLog" /\ proc'[p].conn = proc[p].conn
            /\ proc'[p].fresh = proc[p].fresh
            /\ proc'[p].aside = present
            /\ \A q \in Procs \ {p} : proc'[q] = proc[q]
        BY <3>2, MovesAsideDoes DEF TypesInv
      <4>2. Attached(p) /\ proc[p].pc = "aside" /\ barrier = p
        BY <2>19, Alone DEF MoveAside, AttachedInv, At, BehindPcs
      <4>3. present' = 0 /\ used' = used /\ (present = 0 \/ Users(present) = {})
        BY <2>19, <3>2 DEF MoveAside, MovesAside
      <4>4. \A q \in Procs : Conn(q) = 0
        BY <4>3 DEF AttachedInv, Attached, Users, Conn
      <4>5. Attached(p)'
        BY <4>1, <4>2, <4>3, <4>4 DEF Attached, At, Conn, FilesInv
      <4> QED
        BY <4>1, <4>2, <4>4, <4>5, MoveAttached
    <3> QED
      BY <2>19, <3>1, <3>2, MoveAsideCases
  <2>20. ASSUME MoveLogAside(p) PROVE AttachedInv'
    <3>1. /\ proc'[p].pc = "replace" /\ proc'[p].conn = proc[p].conn
          /\ proc'[p].fresh = proc[p].fresh
          /\ proc'[p].aside = proc[p].aside
          /\ \A q \in Procs \ {p} : proc'[q] = proc[q]
      BY <2>20, MoveLogAsideDoes DEF TypesInv
    <3>2. Attached(p) /\ proc[p].pc = "asideLog" /\ barrier = p
      BY <2>20, Alone DEF MoveLogAside, AttachedInv, At, BehindPcs
    <3>3. present' = present /\ used' = used
      BY <2>20 DEF MoveLogAside
    <3>4. Attached(p)'
      BY <3>1, <3>2, <3>3 DEF Attached, At, Conn
    <3>5. \A q \in Procs \ {p} : Conn(q) \in {0, present'}
      BY <3>3 DEF AttachedInv, Attached
    <3> QED
      BY <3>1, <3>2, <3>4, <3>5, MoveAttached
  <2>21. ASSUME Replace(p) PROVE AttachedInv'
    <3>1. Attached(p) /\ proc[p].pc \in {"replace"} /\ barrier = p
      BY <2>21, Alone DEF Replace, AttachedInv, At, BehindPcs
    <3>2. /\ proc'[p].conn = 0 /\ proc'[p].fresh = FALSE /\ proc'[p].pc = "idle"
          /\ \A q \in Procs \ {p} : proc'[q] = proc[q]
      BY <2>21, Leaves, ImportingIs DEF Replace, Leave, TypesInv
    <3>3. \A q \in Procs \ {p} : Conn(q) \in {0, present'}
      BY <3>1 DEF AttachedInv, Attached
    <3>4. Attached(p)'
      BY <3>2 DEF Attached, At, Conn
    <3> QED
      BY <3>1, <3>2, <3>3, <3>4, MoveAttached
  <2>22. ASSUME GiveUp(p) PROVE AttachedInv'
    BY <2>22, LeaveAttached DEF GiveUp
  <2>23. ASSUME FailInit(p) PROVE AttachedInv'
    <3>1. Attached(p) /\ proc[p].pc \in {"schema"} /\ barrier = p
      BY <2>23, Alone DEF FailInit, AttachedInv, At, BehindPcs
    <3>2. /\ proc'[p].conn = 0 /\ proc'[p].fresh = FALSE /\ proc'[p].pc = "idle"
          /\ \A q \in Procs \ {p} : proc'[q] = proc[q]
      BY <2>23, Leaves, ImportingIs DEF FailInit, Leave, TypesInv
    <3>3. \A q \in Procs \ {p} : Conn(q) \in {0, present'}
      BY <2>23, <3>1 DEF FailInit, AttachedInv, Attached, At, Users, Conn
    <3>4. Attached(p)'
      BY <3>2 DEF Attached, At, Conn
    <3> QED
      BY <3>1, <3>2, <3>3, <3>4, MoveAttached
  <2>24. ASSUME FailPublish(p) PROVE AttachedInv'
    BY <2>24, LeaveAttached DEF FailPublish
  <2>25. ASSUME FailRestore(p) PROVE AttachedInv'
    <3>1. Attached(p) /\ proc[p].pc \in {"asideLog", "replace"} /\ barrier = p
      BY <2>25, Alone DEF FailRestore, AttachedInv, At, BehindPcs
    <3>2. /\ proc'[p].conn = 0 /\ proc'[p].fresh = FALSE /\ proc'[p].pc = "idle"
          /\ \A q \in Procs \ {p} : proc'[q] = proc[q]
      BY <2>25, Leaves, ImportingIs DEF FailRestore, Leave, TypesInv
    <3>3. \A q \in Procs \ {p} : Conn(q) \in {0, present'}
      BY <3>1 DEF AttachedInv, Attached
    <3>4. Attached(p)'
      BY <3>2 DEF Attached, At, Conn
    <3> QED
      BY <3>1, <3>2, <3>3, <3>4, MoveAttached
  <2>26. ASSUME Crash(p) PROVE AttachedInv'
    BY <2>26, LeaveAttached DEF Crash, files
  <2>27. ASSUME FailUndo(p) PROVE AttachedInv'
    <3>1. Attached(p) /\ proc[p].pc \in {"asideLog", "replace"} /\ barrier = p
      BY <2>27, Alone DEF FailUndo, AttachedInv, At, BehindPcs
    <3>2. /\ proc'[p].conn = 0 /\ proc'[p].fresh = FALSE /\ proc'[p].pc = "idle"
          /\ \A q \in Procs \ {p} : proc'[q] = proc[q]
      BY <2>27, Leaves, ImportingIs DEF FailUndo, Leave, TypesInv
    <3>3. \A q \in Procs \ {p} : Conn(q) \in {0, present'}
      BY <3>1 DEF AttachedInv, Attached
    <3>4. Attached(p)'
      BY <3>2 DEF Attached, At, Conn
    <3> QED
      BY <3>1, <3>2, <3>3, <3>4, MoveAttached
  <2> QED
    BY <1>2, <2>1, <2>2, <2>3, <2>4, <2>5, <2>6, <2>7, <2>8, <2>9, <2>10, <2>11, <2>12,
       <2>13, <2>14, <2>15, <2>16, <2>17, <2>18, <2>19, <2>20, <2>21, <2>22, <2>23, <2>24,
       <2>25, <2>26, <2>27 DEF Step, Trouble
<1> QED
  BY <1>1, <1>2 DEF Next

-----------------------------------------------------------------------------
(* Where no open file is moved: files, snapshots and logs *)

(* There is no log without a database but the one that restore moves with its
   database: what is moved or opened alone loses nothing. *)
LEMMA NoStrayLog ==
  ASSUME TypesInv, LogInv, trouble <= 1, NEW p \in Procs, proc[p].pc \in BehindPcs, present = 0,
         ~(At(p, "asideLog") /\ proc[p].aside # 0)
  PROVE  log = {}
<1>1. \A q \in Procs \ {p} : proc[q].pc \notin BehindPcs
  BY Alone
<1> QED
  BY <1>1 DEF LogInv, At, BehindPcs

LEMMA KeptHeld ==
  ASSUME TypesInv, LogInv, trouble <= 1, AttachedInv, NEW p \in Procs
  PROVE  /\ MoveLogAside(p) => held' = held
         /\ Create(p) /\ present = 0 => held' = held
<1>1. ASSUME log = {} PROVE [g \in Ids |-> [held[g] EXCEPT !.rows = @ \ log]] = held
  <2>1. \A c \in Contents : [c EXCEPT !.rows = @ \ log] = c
    BY <1>1 DEF Contents
  <2> QED
    BY <2>1 DEF TypesInv, RestOK
<1>2. ASSUME MoveLogAside(p), proc[p].aside = 0 PROVE log = {}
  <2>1. proc[p].pc = "asideLog" /\ present = 0
    BY <1>2 DEF MoveLogAside, At, AttachedInv, Attached
  <2> QED
    BY <1>2, <2>1, NoStrayLog DEF BehindPcs
<1>3. ASSUME Create(p), present = 0 PROVE log = {}
  BY <1>3, NoStrayLog DEF Create, At, BehindPcs
<1>4. MoveLogAside(p) => held' = held
  BY <1>1, <1>2 DEF MoveLogAside
<1>5. Create(p) /\ present = 0 => held' = held
  BY <1>1, <1>3, NewFile
<1> QED
  BY <1>4, <1>5

(* A file is used before it is present. *)
LEMMA NextFiles ==
  ASSUME TypesInv, ~CanRenameOpen, AttachedInv, FilesInv, DataInv, [Next]_vars
  PROVE  FilesInv'
<1>1. CASE UNCHANGED vars
  BY <1>1 DEF vars, FilesInv
<1>2. ASSUME NEW p \in Procs, (\E op \in Operations : Start(p, op)) \/ Step(p) \/ Trouble(p)
      PROVE  FilesInv'
  <2>1. ASSUME NEW op \in Operations, Start(p, op) PROVE FilesInv'
    BY <2>1 DEF Start, files, FilesInv
  <2>2. ASSUME PassBarrier(p) PROVE FilesInv'
    BY <2>2 DEF PassBarrier, files, FilesInv
  <2>3. ASSUME Open(p) PROVE FilesInv'
    BY <2>3 DEF Open, files, FilesInv
  <2>4. ASSUME Begin(p) PROVE FilesInv'
    BY <2>4 DEF Begin, files, FilesInv
  <2>5. ASSUME NestedConnect(p) PROVE FilesInv'
    BY <2>5 DEF NestedConnect, files, FilesInv
  <2>6. ASSUME Commit(p) PROVE FilesInv'
    <3>1. Conn(p) = present /\ present # 0 /\ present \in used
      BY <2>6 DEF Commit, TypesInv, DoingInv, Doing, At, AttachedInv, Attached, FilesInv
    <3>2. PICK R : held' = [held EXCEPT ![Conn(p)].rows = R]
      BY <2>6 DEF Commit
    <3>3. present' = present /\ used' = used
      BY <2>6 DEF Commit
    <3>4. \A f \in Ids \ used : held'[f] = held[f]
      BY <3>1, <3>2 DEF TypesInv, RestOK
    <3> QED
      BY <3>3, <3>4 DEF FilesInv
  <2>7. ASSUME Close(p) PROVE FilesInv'
    BY <2>7 DEF Close, files, FilesInv
  <2>8. ASSUME CheckImported(p) PROVE FilesInv'
    BY <2>8 DEF CheckImported, files, FilesInv
  <2>9. ASSUME Acquire(p) PROVE FilesInv'
    BY <2>9 DEF Acquire, files, FilesInv
  <2>10. ASSUME TakeInitLock(p) PROVE FilesInv'
    BY <2>10 DEF TakeInitLock, files, FilesInv
  <2>11. ASSUME Create(p) PROVE FilesInv'
    <3>1. CASE present # 0
      BY <2>11, <3>1 DEF Create, files, FilesInv
    <3>2. CASE present = 0
      <4>1. /\ present' \in Ids \ used /\ used' = used \cup {present'}
            /\ held' = [g \in Ids |-> [held[g] EXCEPT !.rows = @ \ log]]
        BY <2>11, <3>2, NewFile
      <4>2. [Blank EXCEPT !.rows = @ \ log] = Blank
        BY DEF Blank
      <4>3. \A f \in Ids \ used' : held'[f] = Blank
        BY <4>1, <4>2 DEF FilesInv
      <4> QED
        BY <4>1, <4>3 DEF FilesInv
    <3> QED
      BY <3>1, <3>2
  <2>12. ASSUME Schema(p) PROVE FilesInv'
    <3>1. Conn(p) = present /\ present # 0 /\ present \in used
      BY <2>12 DEF Schema, TypesInv, DoingInv, Doing, At, AttachedInv, Attached, FilesInv
    <3>2. held' = [held EXCEPT ![Conn(p)].tables = TRUE]
      BY <2>12 DEF Schema
    <3>3. present' = present /\ used' = used
      BY <2>12 DEF Schema
    <3>4. \A f \in Ids \ used : held'[f] = held[f]
      BY <3>1, <3>2 DEF TypesInv, RestOK
    <3> QED
      BY <3>3, <3>4 DEF FilesInv
  <2>13. ASSUME LookUp(p) PROVE FilesInv'
    BY <2>13 DEF LookUp, files, FilesInv
  <2>14. ASSUME Copy(p) PROVE FilesInv'
    BY <2>14 DEF Copy, files, FilesInv
  <2>15. ASSUME Publish(p) PROVE FilesInv'
    BY <2>15 DEF Publish, files, FilesInv
  <2>16. ASSUME Record(p) PROVE FilesInv'
    <3>1. present' = present /\ used' = used
      BY <2>16 DEF Record
    <3>2. CASE present = 0
      BY <2>16, <3>1, <3>2 DEF Record, FilesInv
    <3>3. CASE present # 0
      <4>1. held' = [held EXCEPT ![present].today = proc[p].id] /\ present \in used
        BY <2>16, <3>3 DEF Record, FilesInv
      <4>2. \A f \in Ids \ used : held'[f] = held[f]
        BY <4>1 DEF TypesInv, RestOK
      <4> QED
        BY <3>1, <4>2 DEF FilesInv
    <3> QED
      BY <3>2, <3>3
  <2>17. ASSUME Prune(p) PROVE FilesInv'
    BY <2>17 DEF Prune, files, FilesInv
  <2>18. ASSUME Return(p) PROVE FilesInv'
    BY <2>18 DEF Return, files, FilesInv
  <2>19. ASSUME MoveAside(p) PROVE FilesInv'
    <3>1. (present' = present \/ present' = 0) /\ used' = used /\ held' = held
      BY <2>19 DEF MoveAside
    <3> QED
      BY <3>1 DEF FilesInv
  <2>20. ASSUME MoveLogAside(p) PROVE FilesInv'
    <3>1. /\ present' = present /\ used' = used
          /\ held' \in {held, [f \in Ids |-> [held[f] EXCEPT !.rows = @ \ log]]}
      BY <2>20 DEF MoveLogAside
    <3>2. [Blank EXCEPT !.rows = @ \ log] = Blank
      BY DEF Blank
    <3>3. \A f \in Ids \ used' : held'[f] = Blank
      BY <3>1, <3>2 DEF FilesInv
    <3> QED
      BY <3>1, <3>3 DEF FilesInv
  <2>21. ASSUME Replace(p) PROVE FilesInv'
    <3>1. PICK f \in Ids \ used : present' = f /\ used' = used \cup {f}
                                   /\ held' = [held EXCEPT ![f] = proc[p].data]
      BY <2>21 DEF Replace
    <3>2. \A g \in Ids \ used' : held'[g] = held[g]
      BY <3>1 DEF TypesInv, RestOK
    <3> QED
      BY <3>1, <3>2 DEF FilesInv
  <2>22. ASSUME GiveUp(p) PROVE FilesInv'
    BY <2>22 DEF GiveUp, files, FilesInv
  <2>23. ASSUME FailInit(p) PROVE FilesInv'
    <3>1. (present' = present \/ present' = 0) /\ used' = used /\ held' = held
      BY <2>23 DEF FailInit
    <3> QED
      BY <3>1 DEF FilesInv
  <2>24. ASSUME FailPublish(p) PROVE FilesInv'
    BY <2>24 DEF FailPublish, files, FilesInv
  <2>25. ASSUME FailRestore(p) PROVE FilesInv'
    <3>1. present' = proc[p].aside /\ used' = used /\ held' = held
      BY <2>25 DEF FailRestore
    <3>2. proc[p].aside \in used \cup {0}
      BY <2>25 DEF FailRestore, AttachedInv, Attached
    <3> QED
      BY <3>1, <3>2 DEF FilesInv
  <2>26. ASSUME Crash(p) PROVE FilesInv'
    BY <2>26 DEF Crash, files, FilesInv
  <2>27. ASSUME FailUndo(p) PROVE FilesInv'
    <3>1. /\ present' \in {0, proc[p].aside} /\ used' = used
          /\ \A f \in Ids : f # present' => held'[f] = held[f]
      BY <2>27 DEF FailUndo
    <3>2. proc[p].aside \in used \cup {0}
      BY <2>27 DEF FailUndo, AttachedInv, Attached
    <3>3. \A f \in Ids \ used : f # present'
      BY <3>1, <3>2, StorageAssumption DEF Ids
    <3> QED
      BY <3>1, <3>2, <3>3 DEF FilesInv
  <2> QED
    BY <1>2, <2>1, <2>2, <2>3, <2>4, <2>5, <2>6, <2>7, <2>8, <2>9, <2>10, <2>11, <2>12,
       <2>13, <2>14, <2>15, <2>16, <2>17, <2>18, <2>19, <2>20, <2>21, <2>22, <2>23, <2>24,
       <2>25, <2>26, <2>27 DEF Step, Trouble
<1> QED
  BY <1>1, <1>2 DEF Next

(* Snapshots only become more, and what moves about are snapshots. *)
LEMMA KeepsData ==
  ASSUME TypesInv, DataInv, NEW p \in Procs, \A q \in Procs \ {p} : proc'[q] = proc[q],
         proc'[p].data \in Snapshots', taken \subseteq taken',
         backups' \in Seq([id : 1 .. MaxMade, data : Snapshots'])
  PROVE  DataInv'
<1>1. \A q \in Procs \ {p} : proc'[q].data \in Snapshots'
  BY DEF DataInv, Snapshots
<1> QED
  BY <1>1 DEF DataInv

LEMMA LeaveData ==
  ASSUME TypesInv, DataInv, NEW p \in Procs, Leave(p) \/ proc' = [proc EXCEPT ![p] = Idle],
         taken' = taken, backups' \in Seq([id : 1 .. MaxMade, data : Snapshots])
  PROVE  DataInv'
<1>1. proc'[p].data = Blank /\ \A q \in Procs \ {p} : proc'[q] = proc[q]
  BY Leaves, ImportingIs DEF Leave, TypesInv
<1>2. Snapshots' = Snapshots /\ Blank \in Snapshots
  BY DEF Snapshots
<1> QED
  BY <1>1, <1>2, KeepsData

(* What is in a backup, or goes into one or comes from one, is a snapshot. *)
LEMMA NextData ==
  ASSUME TypesInv, DataInv, [Next]_vars
  PROVE  DataInv'
<1>1. CASE UNCHANGED vars
  BY <1>1 DEF vars, DataInv, Snapshots
<1>2. ASSUME NEW p \in Procs, (\E op \in Operations : Start(p, op)) \/ Step(p) \/ Trouble(p)
      PROVE  DataInv'
  <2>1. ASSUME NEW op \in Operations, Start(p, op) PROVE DataInv'
    <3>1. proc'[p].data = proc[p].data /\ \A q \in Procs \ {p} : proc'[q] = proc[q]
      BY <2>1, StartDoes DEF TypesInv
    <3>2. taken' = taken /\ backups' = backups
      BY <2>1 DEF Start, counts
    <3>3. Snapshots' = Snapshots /\ proc'[p].data \in Snapshots
      BY <3>1, <3>2 DEF Snapshots, DataInv
    <3> QED
      BY <3>1, <3>2, <3>3, KeepsData DEF DataInv
  <2>2. ASSUME PassBarrier(p) PROVE DataInv'
    <3>1. proc'[p].data = proc[p].data /\ \A q \in Procs \ {p} : proc'[q] = proc[q]
      BY <2>2, Goes DEF PassBarrier, Goto, TypesInv
    <3>2. taken' = taken /\ backups' = backups
      BY <2>2 DEF PassBarrier, counts
    <3>3. Snapshots' = Snapshots /\ proc'[p].data \in Snapshots
      BY <3>1, <3>2 DEF Snapshots, DataInv
    <3> QED
      BY <3>1, <3>2, <3>3, KeepsData DEF DataInv
  <2>3. ASSUME Open(p) PROVE DataInv'
    <3>1. CASE Leave(p)
      <4>1. taken' = taken /\ backups' = backups
        BY <2>3 DEF Open, counts
      <4> QED
        BY <3>1, <4>1, LeaveData DEF DataInv
    <3>2. CASE ~Leave(p)
      <4>1. proc'[p].data = proc[p].data /\ \A q \in Procs \ {p} : proc'[q] = proc[q]
        BY <2>3, <3>2, Opens DEF Open, TypesInv
      <4>2. taken' = taken /\ backups' = backups
        BY <2>3, <3>2 DEF Open, counts
      <4>3. Snapshots' = Snapshots /\ proc'[p].data \in Snapshots
        BY <4>1, <4>2 DEF Snapshots, DataInv
      <4> QED
        BY <4>1, <4>2, <4>3, KeepsData DEF DataInv
    <3> QED
      BY <3>1, <3>2
  <2>4. ASSUME Begin(p) PROVE DataInv'
    <3>1. proc'[p].data = proc[p].data /\ \A q \in Procs \ {p} : proc'[q] = proc[q]
      BY <2>4, Goes DEF Begin, Goto, TypesInv
    <3>2. taken' = taken /\ backups' = backups
      BY <2>4 DEF Begin, counts
    <3>3. Snapshots' = Snapshots /\ proc'[p].data \in Snapshots
      BY <3>1, <3>2 DEF Snapshots, DataInv
    <3> QED
      BY <3>1, <3>2, <3>3, KeepsData DEF DataInv
  <2>5. ASSUME NestedConnect(p) PROVE DataInv'
    <3>1. CASE Leave(p)
      <4>1. taken' = taken /\ backups' = backups
        BY <2>5 DEF NestedConnect, counts
      <4> QED
        BY <3>1, <4>1, LeaveData DEF DataInv
    <3>2. CASE ~Leave(p)
      <4>1. proc'[p].data = proc[p].data /\ \A q \in Procs \ {p} : proc'[q] = proc[q]
        BY <2>5, <3>2, Goes DEF NestedConnect, Goto, TypesInv
      <4>2. taken' = taken /\ backups' = backups
        BY <2>5, <3>2 DEF NestedConnect, counts
      <4>3. Snapshots' = Snapshots /\ proc'[p].data \in Snapshots
        BY <4>1, <4>2 DEF Snapshots, DataInv
      <4> QED
        BY <4>1, <4>2, <4>3, KeepsData DEF DataInv
    <3> QED
      BY <3>1, <3>2
  <2>6. ASSUME Commit(p) PROVE DataInv'
    <3>1. proc'[p].data = proc[p].data /\ \A q \in Procs \ {p} : proc'[q] = proc[q]
      BY <2>6, Goes DEF Commit, Goto, TypesInv
    <3>2. taken' = taken /\ backups' = backups
      BY <2>6 DEF Commit, counts
    <3>3. Snapshots' = Snapshots /\ proc'[p].data \in Snapshots
      BY <3>1, <3>2 DEF Snapshots, DataInv
    <3> QED
      BY <3>1, <3>2, <3>3, KeepsData DEF DataInv
  <2>7. ASSUME Close(p) PROVE DataInv'
    <3>1. taken' = taken /\ backups' = backups
      BY <2>7 DEF Close, counts, Fail, files
    <3> QED
      BY <2>7, <3>1, LeaveData DEF Close, DataInv
  <2>8. ASSUME CheckImported(p) PROVE DataInv'
    <3>1. CASE Leave(p)
      <4>1. taken' = taken /\ backups' = backups
        BY <2>8 DEF CheckImported, counts
      <4> QED
        BY <3>1, <4>1, LeaveData DEF DataInv
    <3>2. CASE ~Leave(p)
      <4>1. proc'[p].data = Blank /\ \A q \in Procs \ {p} : proc'[q] = proc[q]
        BY <2>8, <3>2, Leaves, ImportingIs DEF CheckImported, Importing, TypesInv
      <4>2. taken' = taken /\ backups' = backups
        BY <2>8, <3>2 DEF CheckImported, counts
      <4>3. Snapshots' = Snapshots /\ proc'[p].data \in Snapshots
        BY <4>1, <4>2 DEF Snapshots, DataInv
      <4> QED
        BY <4>1, <4>2, <4>3, KeepsData DEF DataInv
    <3> QED
      BY <3>1, <3>2
  <2>9. ASSUME Acquire(p) PROVE DataInv'
    <3>1. proc'[p].data = proc[p].data /\ \A q \in Procs \ {p} : proc'[q] = proc[q]
      BY <2>9, AcquireDoes
    <3>2. taken' = taken /\ backups' = backups
      BY <2>9 DEF Acquire, counts
    <3>3. Snapshots' = Snapshots /\ proc'[p].data \in Snapshots
      BY <3>1, <3>2 DEF Snapshots, DataInv
    <3> QED
      BY <3>1, <3>2, <3>3, KeepsData DEF DataInv
  <2>10. ASSUME TakeInitLock(p) PROVE DataInv'
    <3>1. proc'[p].data = proc[p].data /\ \A q \in Procs \ {p} : proc'[q] = proc[q]
      BY <2>10, Goes DEF TakeInitLock, Goto, TypesInv
    <3>2. taken' = taken /\ backups' = backups
      BY <2>10 DEF TakeInitLock, counts
    <3>3. Snapshots' = Snapshots /\ proc'[p].data \in Snapshots
      BY <3>1, <3>2 DEF Snapshots, DataInv
    <3> QED
      BY <3>1, <3>2, <3>3, KeepsData DEF DataInv
  <2>11. ASSUME Create(p) PROVE DataInv'
    <3>1. proc'[p].data = proc[p].data /\ \A q \in Procs \ {p} : proc'[q] = proc[q]
      BY <2>11, CreateHereDoes, CreateDoes DEF TypesInv
    <3>2. taken' = taken /\ backups' = backups
      BY <2>11 DEF Create, counts
    <3>3. Snapshots' = Snapshots /\ proc'[p].data \in Snapshots
      BY <3>1, <3>2 DEF Snapshots, DataInv
    <3> QED
      BY <3>1, <3>2, <3>3, KeepsData DEF DataInv
  <2>12. ASSUME Schema(p) PROVE DataInv'
    <3>1. proc'[p].data = proc[p].data /\ \A q \in Procs \ {p} : proc'[q] = proc[q]
      BY <2>12, Goes DEF Schema, Goto, TypesInv
    <3>2. taken' = taken /\ backups' = backups
      BY <2>12 DEF Schema, counts
    <3>3. Snapshots' = Snapshots /\ proc'[p].data \in Snapshots
      BY <3>1, <3>2 DEF Snapshots, DataInv
    <3> QED
      BY <3>1, <3>2, <3>3, KeepsData DEF DataInv
  <2>13. ASSUME LookUp(p) PROVE DataInv'
    <3>1. taken' = taken /\ backups' = backups
      BY <2>13 DEF LookUp, counts
    <3>2. CASE proc' = [proc EXCEPT ![p] = Idle]
      BY <3>1, <3>2, LeaveData DEF DataInv
    <3>3. CASE proc' # [proc EXCEPT ![p] = Idle]
      <4> DEFINE today == held[present].today
      <4>1. \/ proc' = [proc EXCEPT ![p].id = today, ![p].pc = "return"]
            \/ proc' = [proc EXCEPT ![p].pc = "copy"]
        BY <2>13, <3>3 DEF LookUp
      <4> HIDE DEF today
      <4>2. proc'[p].data = proc[p].data /\ \A q \in Procs \ {p} : proc'[q] = proc[q]
        BY <4>1, Goes, Finds DEF TypesInv
      <4>3. Snapshots' = Snapshots /\ proc'[p].data \in Snapshots
        BY <3>1, <4>2 DEF Snapshots, DataInv
      <4> QED
        BY <3>1, <4>2, <4>3, KeepsData DEF DataInv
    <3> QED
      BY <3>2, <3>3
  <2>14. ASSUME Copy(p) PROVE DataInv'
    <3>1. CASE present = 0
      <4>1. taken' = taken /\ backups' = backups
        BY <2>14, <3>1 DEF Copy
      <4> QED
        BY <2>14, <3>1, <4>1, LeaveData DEF Copy, DataInv
    <3>2. CASE present # 0
      <4>1. proc'[p].data = held[present] /\ \A q \in Procs \ {p} : proc'[q] = proc[q]
        BY <2>14, <3>2, CopyDoes DEF TypesInv
      <4>2. taken' = taken \cup {held[present]} /\ made' \in 1 .. MaxMade
        <5>1. RestOK'
          BY <2>14, NextTypes DEF Next, Step, TypesInv
        <5> QED
          BY <2>14, <3>2, <5>1 DEF Copy, RestOK, TypesInv
      <4>3. proc'[p].data \in Snapshots' /\ Snapshots \subseteq Snapshots'
        BY <4>1, <4>2 DEF Snapshots
      <4> DEFINE Old == [id : 1 .. MaxMade, data : Snapshots]
                 New == [id : 1 .. MaxMade, data : Snapshots']
      <4>4. Old \subseteq New /\ [id |-> made', data |-> Blank] \in New
        BY <4>2, <4>3 DEF Snapshots
      <4>5. backups \in Seq(Old)
        BY DEF DataInv
      <4>6. backups' = Append(backups, [id |-> made', data |-> Blank])
        BY <2>14, <3>2 DEF Copy
      <4> HIDE DEF Old, New
      <4>7. backups \in Seq(New)
        BY <4>4, <4>5, ElementOfSeq, SeqDef, LenProperties
      <4>8. backups' \in Seq(New)
        BY <4>4, <4>6, <4>7
      <4> QED
        BY <4>1, <4>2, <4>3, <4>8, KeepsData DEF New
    <3> QED
      BY <3>1, <3>2
  <2>15. ASSUME Publish(p) PROVE DataInv'
    <3>1. proc'[p].data = Blank /\ \A q \in Procs \ {p} : proc'[q] = proc[q]
      BY <2>15, Publishes DEF Publish, TypesInv
    <3>2. taken' = taken
      BY <2>15 DEF Publish, counts
    <3>3. Snapshots' = Snapshots /\ Blank \in Snapshots
      BY <3>2 DEF Snapshots
    <3>4. backups' \in Seq([id : 1 .. MaxMade, data : Snapshots])
      BY <2>15, PublishedBackups DEF DataInv
    <3> QED
      BY <3>1, <3>2, <3>3, <3>4, KeepsData
  <2>16. ASSUME Record(p) PROVE DataInv'
    <3>1. CASE Leave(p)
      <4>1. taken' = taken /\ backups' = backups
        BY <2>16 DEF Record, counts
      <4> QED
        BY <3>1, <4>1, LeaveData DEF DataInv
    <3>2. CASE ~Leave(p)
      <4>1. proc'[p].data = proc[p].data /\ \A q \in Procs \ {p} : proc'[q] = proc[q]
        BY <2>16, <3>2, Goes DEF Record, Goto, TypesInv
      <4>2. taken' = taken /\ backups' = backups
        BY <2>16, <3>2 DEF Record, counts
      <4>3. Snapshots' = Snapshots /\ proc'[p].data \in Snapshots
        BY <4>1, <4>2 DEF Snapshots, DataInv
      <4> QED
        BY <4>1, <4>2, <4>3, KeepsData DEF DataInv
    <3> QED
      BY <3>1, <3>2
  <2>17. ASSUME Prune(p) PROVE DataInv'
    <3>1. proc'[p].data = proc[p].data /\ \A q \in Procs \ {p} : proc'[q] = proc[q]
      BY <2>17, Goes DEF Prune, Goto, TypesInv
    <3>2. taken' = taken /\ backups # <<>>
      BY <2>17 DEF Prune, counts, TypesInv, DoingInv, Doing, At
    <3>3. Snapshots' = Snapshots /\ proc'[p].data \in Snapshots
      BY <3>1, <3>2 DEF Snapshots, DataInv
    <3>4. backups' \in Seq([id : 1 .. MaxMade, data : Snapshots])
      BY <2>17, <3>2, RotatedPart DEF DataInv, Prune
    <3> QED
      BY <3>1, <3>2, <3>3, <3>4, KeepsData
  <2>18. ASSUME Return(p) PROVE DataInv'
    <3>1. taken' = taken /\ backups' = backups
      BY <2>18 DEF Return, counts, Fail, files
    <3> QED
      BY <2>18, <3>1, LeaveData DEF Return, DataInv
  <2>19. ASSUME MoveAside(p) PROVE DataInv'
    <3>1. taken' = taken /\ backups' = backups
      BY <2>19 DEF MoveAside, counts
    <3>2. CASE Leave(p)
      BY <3>1, <3>2, LeaveData DEF DataInv
    <3>3. CASE MovesAside(p)
      <4>1. PICK i \in DOMAIN backups : proc'[p].data = backups[i].data
        BY <3>3, MovesAsideDoes DEF TypesInv
      <4>2. \A q \in Procs \ {p} : proc'[q] = proc[q]
        BY <3>3, MovesAsideDoes DEF TypesInv
      <4>3. backups[i] \in [id : 1 .. MaxMade, data : Snapshots]
        BY <4>1, ElementOfSeq, LenProperties DEF DataInv
      <4>4. Snapshots' = Snapshots
        BY <3>1 DEF Snapshots
      <4> QED
        BY <3>1, <4>1, <4>2, <4>3, <4>4, KeepsData DEF DataInv
    <3> QED
      BY <2>19, <3>2, <3>3, MoveAsideCases
  <2>20. ASSUME MoveLogAside(p) PROVE DataInv'
    <3>1. proc'[p].data = proc[p].data /\ \A q \in Procs \ {p} : proc'[q] = proc[q]
      BY <2>20, MoveLogAsideDoes DEF TypesInv
    <3>2. taken' = taken /\ backups' = backups
      BY <2>20 DEF MoveLogAside, counts
    <3>3. Snapshots' = Snapshots /\ proc'[p].data \in Snapshots
      BY <3>1, <3>2 DEF Snapshots, DataInv
    <3> QED
      BY <3>1, <3>2, <3>3, KeepsData DEF DataInv
  <2>21. ASSUME Replace(p) PROVE DataInv'
    <3>1. taken' = taken /\ backups' = backups
      BY <2>21 DEF Replace, counts, Fail, files
    <3> QED
      BY <2>21, <3>1, LeaveData DEF Replace, DataInv
  <2>22. ASSUME GiveUp(p) PROVE DataInv'
    <3>1. taken' = taken /\ backups' = backups
      BY <2>22 DEF GiveUp, counts, Fail, files
    <3> QED
      BY <2>22, <3>1, LeaveData DEF GiveUp, DataInv
  <2>23. ASSUME FailInit(p) PROVE DataInv'
    <3>1. taken' = taken /\ backups' = backups
      BY <2>23 DEF FailInit, counts, Fail, files
    <3> QED
      BY <2>23, <3>1, LeaveData DEF FailInit, DataInv
  <2>24. ASSUME FailPublish(p) PROVE DataInv'
    <3>1. taken' = taken /\ backups # <<>>
      BY <2>24 DEF FailPublish, Fail, TypesInv, DoingInv, Doing, At
    <3>2. backups' \in Seq([id : 1 .. MaxMade, data : Snapshots])
      BY <2>24, <3>1, FrontType DEF DataInv, FailPublish
    <3> QED
      BY <2>24, <3>1, <3>2, LeaveData DEF FailPublish
  <2>25. ASSUME FailRestore(p) PROVE DataInv'
    <3>1. taken' = taken /\ backups' = backups
      BY <2>25 DEF FailRestore, counts, Fail, files
    <3> QED
      BY <2>25, <3>1, LeaveData DEF FailRestore, DataInv
  <2>26. ASSUME Crash(p) PROVE DataInv'
    <3>1. taken' = taken /\ backups' = backups
      BY <2>26 DEF Crash, counts, Fail, files
    <3> QED
      BY <2>26, <3>1, LeaveData DEF Crash, DataInv
  <2>27. ASSUME FailUndo(p) PROVE DataInv'
    <3>1. taken' = taken /\ backups' = backups
      BY <2>27 DEF FailUndo
    <3> QED
      BY <2>27, <3>1, LeaveData DEF FailUndo, DataInv
  <2> QED
    BY <1>2, <2>1, <2>2, <2>3, <2>4, <2>5, <2>6, <2>7, <2>8, <2>9, <2>10, <2>11, <2>12,
       <2>13, <2>14, <2>15, <2>16, <2>17, <2>18, <2>19, <2>20, <2>21, <2>22, <2>23, <2>24,
       <2>25, <2>26, <2>27 DEF Step, Trouble
<1> QED
  BY <1>1, <1>2 DEF Next

(* A log that is left alone stays with its database and its users. *)
LEMMA StayLog ==
  ASSUME TypesInv, LogInv, NEW p \in Procs, \A q \in Procs \ {p} : proc'[q] = proc[q],
         log' = log, present' = present, trouble' = trouble,
         proc'[p].conn = proc[p].conn \/ proc[p].conn = 0,
         proc'[p].asideLog \in {proc[p].asideLog, {}}, proc[p].pc # "asideLog"
  PROVE  LogInv'
<1>1. ASSUME trouble' = 0, log' # {} PROVE present' # 0 /\ Users(present)' # {}
  <2>1. present # 0
    BY <1>1 DEF LogInv
  <2>2. PICK q \in Procs : proc[q].conn = present
    BY <1>1 DEF LogInv, Users
  <2>3. proc'[q].conn = present'
    BY <2>1, <2>2
  <2> QED
    BY <2>1, <2>3 DEF Users
<1>2. ASSUME trouble' <= 1, log' # {}, present' = 0
      PROVE  \E q \in Procs : At(q, "asideLog")' /\ proc'[q].aside # 0
  BY <1>2 DEF LogInv, At
<1>3. ASSUME trouble' = 0 PROVE \A q \in Procs : proc'[q].asideLog = {}
  BY <1>3 DEF LogInv
<1> QED
  BY <1>1, <1>2, <1>3 DEF LogInv

(* The last to close takes the log away. *)
LEMMA LastCloses ==
  ASSUME TypesInv, LogInv, NEW p \in Procs, \A q \in Procs \ {p} : proc'[q] = proc[q],
         present' = present, trouble' = trouble \/ trouble' = trouble + 1,
         log' = {} \/ (log' = log /\ ~(present # 0 /\ Users(present) = {p})),
         proc'[p].asideLog \in {proc[p].asideLog, {}}, proc[p].pc # "asideLog"
  PROVE  LogInv'
<1>4. trouble \in Nat
  BY StorageAssumption DEF TypesInv, RestOK
<1>1. ASSUME trouble' = 0, log' # {} PROVE present' # 0 /\ Users(present)' # {}
  <2>1. present # 0 /\ Users(present) # {} /\ Users(present) # {p}
    BY <1>1, <1>4 DEF LogInv
  <2>2. PICK q \in Procs \ {p} : proc[q].conn = present
    BY <2>1 DEF Users
  <2> QED
    BY <2>1, <2>2 DEF Users
<1>2. ASSUME trouble' <= 1, log' # {}, present' = 0
      PROVE  \E q \in Procs : At(q, "asideLog")' /\ proc'[q].aside # 0
  BY <1>2, <1>4 DEF LogInv, At
<1>3. ASSUME trouble' = 0 PROVE \A q \in Procs : proc'[q].asideLog = {}
  BY <1>3, <1>4 DEF LogInv
<1> QED
  BY <1>1, <1>2, <1>3 DEF LogInv

LEMMA LeaveLog ==
  ASSUME TypesInv, AttachedInv, LogInv, NEW p \in Procs, Leave(p),
         present' = present, trouble' = trouble \/ trouble' = trouble + 1, proc[p].pc # "asideLog"
  PROVE  LogInv'
<1>1. proc'[p].asideLog = {} /\ \A q \in Procs \ {p} : proc'[q] = proc[q]
  BY Leaves, ImportingIs DEF Leave, TypesInv
<1>2. log' = {} \/ (log' = log /\ ~(Conn(p) = present /\ present # 0 /\ Users(present) = {p}))
  BY DEF Leave
<1>3. Users(present) = {p} => Conn(p) = present
  BY DEF Users, Conn
<1> QED
  BY <1>1, <1>2, <1>3, LastCloses

(* Until two things have gone wrong, a log and its database are not parted. *)
LEMMA NextLog ==
  ASSUME TypesInv, ~CanRenameOpen, AttachedInv, LogInv, [Next]_vars
  PROVE  LogInv'
<1>1. CASE UNCHANGED vars
  BY <1>1 DEF vars, LogInv, Users, At
<1>2. ASSUME NEW p \in Procs, (\E op \in Operations : Start(p, op)) \/ Step(p) \/ Trouble(p)
      PROVE  LogInv'
  <2>1. ASSUME NEW op \in Operations, Start(p, op) PROVE LogInv'
    <3>1. /\ proc'[p].asideLog = proc[p].asideLog
          /\ \A q \in Procs \ {p} : proc'[q] = proc[q]
      BY <2>1, StartDoes DEF TypesInv
    <3>2. log' = log /\ present' = present /\ trouble' = trouble
      BY <2>1 DEF Start, files, counts
    <3>3. Attached(p) /\ proc[p].pc = "idle"
      BY <2>1 DEF Start, AttachedInv, At
    <3> QED
      BY <3>1, <3>2, <3>3, StayLog DEF Attached, Conn
  <2>2. ASSUME PassBarrier(p) PROVE LogInv'
    <3>1. /\ proc'[p].conn = proc[p].conn /\ proc'[p].asideLog = proc[p].asideLog
          /\ \A q \in Procs \ {p} : proc'[q] = proc[q]
      BY <2>2, Goes DEF PassBarrier, Goto, TypesInv
    <3>2. log' = log /\ present' = present /\ trouble' = trouble
      BY <2>2 DEF PassBarrier, files, counts
    <3>3. Attached(p) /\ proc[p].pc = "connect"
      BY <2>2 DEF PassBarrier, AttachedInv, At
    <3> QED
      BY <3>1, <3>2, <3>3, StayLog DEF Attached, Conn
  <2>3. ASSUME Open(p) PROVE LogInv'
    <3>1. CASE Leave(p)
      BY <2>3, <3>1, LeaveLog DEF Open, counts, At
    <3>2. CASE ~Leave(p)
      <4>1. /\ proc'[p].asideLog = proc[p].asideLog
            /\ \A q \in Procs \ {p} : proc'[q] = proc[q]
        BY <2>3, <3>2, Opens DEF Open, TypesInv
      <4>2. log' = log /\ present' = present /\ trouble' = trouble
        BY <2>3, <3>2 DEF Open, files, counts
      <4>3. Attached(p) /\ proc[p].pc = "open"
        BY <2>3, <3>2 DEF Open, AttachedInv, At
      <4> QED
        BY <4>1, <4>2, <4>3, StayLog DEF Attached, Conn
    <3> QED
      BY <3>1, <3>2
  <2>4. ASSUME Begin(p) PROVE LogInv'
    <3>1. /\ proc'[p].conn = proc[p].conn /\ proc'[p].asideLog = proc[p].asideLog
          /\ \A q \in Procs \ {p} : proc'[q] = proc[q]
      BY <2>4, Goes DEF Begin, Goto, TypesInv
    <3>2. log' = log /\ present' = present /\ trouble' = trouble
      BY <2>4 DEF Begin, files, counts
    <3>3. Attached(p) /\ proc[p].pc = "begin"
      BY <2>4 DEF Begin, AttachedInv, At
    <3> QED
      BY <3>1, <3>2, <3>3, StayLog DEF Attached, Conn
  <2>5. ASSUME NestedConnect(p) PROVE LogInv'
    <3>1. CASE Leave(p)
      BY <2>5, <3>1, LeaveLog DEF NestedConnect, counts, At
    <3>2. CASE ~Leave(p)
      <4>1. /\ proc'[p].conn = proc[p].conn /\ proc'[p].asideLog = proc[p].asideLog
            /\ \A q \in Procs \ {p} : proc'[q] = proc[q]
        BY <2>5, <3>2, Goes DEF NestedConnect, Goto, TypesInv
      <4>2. log' = log /\ present' = present /\ trouble' = trouble
        BY <2>5, <3>2 DEF NestedConnect, files, counts
      <4>3. Attached(p) /\ proc[p].pc = "nested"
        BY <2>5, <3>2 DEF NestedConnect, AttachedInv, At
      <4> QED
        BY <4>1, <4>2, <4>3, StayLog DEF Attached, Conn
    <3> QED
      BY <3>1, <3>2
  <2>6. ASSUME Commit(p) PROVE LogInv'
    <3>1. /\ proc'[p].conn = proc[p].conn /\ proc'[p].asideLog = proc[p].asideLog
          /\ \A q \in Procs \ {p} : proc'[q] = proc[q]
      BY <2>6, Goes DEF Commit, Goto, TypesInv
    <3>2. present' = present /\ trouble' = trouble
      BY <2>6 DEF Commit
    <3>3. Conn(p) = present /\ present # 0
      BY <2>6 DEF Commit, TypesInv, DoingInv, Doing, At, AttachedInv, Attached
    <3>4. p \in Users(present)'
      BY <3>1, <3>2, <3>3 DEF Users, Conn
    <3>5. trouble' = 0 => \A q \in Procs : proc'[q].asideLog = {}
      BY <3>1, <3>2 DEF LogInv
    <3> QED
      BY <3>2, <3>3, <3>4, <3>5 DEF LogInv
  <2>7. ASSUME Close(p) PROVE LogInv'
    BY <2>7, LeaveLog DEF Close, counts, At
  <2>8. ASSUME CheckImported(p) PROVE LogInv'
    <3>1. CASE Leave(p)
      BY <2>8, <3>1, LeaveLog DEF CheckImported, counts, At
    <3>2. CASE ~Leave(p)
      <4>1. proc'[p].asideLog = {} /\ \A q \in Procs \ {p} : proc'[q] = proc[q]
        BY <2>8, <3>2, Leaves, ImportingIs DEF CheckImported, Importing, TypesInv
      <4>2. /\ present' = present /\ trouble' = trouble /\ proc[p].pc # "asideLog"
            /\ log' = IF Conn(p) = present /\ Users(present) = {p} THEN {} ELSE log
        BY <2>8, <3>2 DEF CheckImported, At, counts
      <4>3. Users(present) = {p} => Conn(p) = present
        BY DEF Users, Conn
      <4> QED
        BY <4>1, <4>2, <4>3, LastCloses
    <3> QED
      BY <3>1, <3>2
  <2>9. ASSUME Acquire(p) PROVE LogInv'
    <3>1. /\ proc'[p].asideLog = proc[p].asideLog
          /\ \A q \in Procs \ {p} : proc'[q] = proc[q]
      BY <2>9, AcquireDoes
    <3>2. log' = log /\ present' = present /\ trouble' = trouble
      BY <2>9 DEF Acquire, files, counts
    <3>3. Attached(p) /\ proc[p].pc = "acquire"
      BY <2>9 DEF Acquire, AttachedInv, At
    <3> QED
      BY <3>1, <3>2, <3>3, StayLog DEF Attached, Conn
  <2>10. ASSUME TakeInitLock(p) PROVE LogInv'
    <3>1. /\ proc'[p].conn = proc[p].conn /\ proc'[p].asideLog = proc[p].asideLog
          /\ \A q \in Procs \ {p} : proc'[q] = proc[q]
      BY <2>10, Goes DEF TakeInitLock, Goto, TypesInv
    <3>2. log' = log /\ present' = present /\ trouble' = trouble
      BY <2>10 DEF TakeInitLock, files, counts
    <3>3. Attached(p) /\ proc[p].pc = "initLock"
      BY <2>10 DEF TakeInitLock, AttachedInv, At
    <3> QED
      BY <3>1, <3>2, <3>3, StayLog DEF Attached, Conn
  <2>11. ASSUME Create(p) PROVE LogInv'
    <3>1. /\ proc'[p].asideLog = proc[p].asideLog
          /\ \A q \in Procs \ {p} : proc'[q] = proc[q]
      BY <2>11, CreateHereDoes, CreateDoes DEF TypesInv
    <3>2. trouble' = trouble /\ proc[p].pc # "asideLog"
      BY <2>11 DEF Create, counts, At
    <3>3. CASE present # 0
      <4>1. log' = log /\ present' = present
        BY <2>11, <3>3 DEF Create, files
      <4>2. proc[p].conn = 0
        BY <2>11 DEF Create, At, AttachedInv, Attached, Conn
      <4> QED
        BY <3>1, <3>2, <4>1, <4>2, StayLog
    <3>4. CASE present = 0
      <4>1. log' = {}
        BY <2>11, <3>4, NewFile
      <4>2. trouble' = 0 => \A q \in Procs : proc'[q].asideLog = {}
        BY <3>1, <3>2 DEF LogInv
      <4> QED
        BY <4>1, <4>2 DEF LogInv
    <3> QED
      BY <3>3, <3>4
  <2>12. ASSUME Schema(p) PROVE LogInv'
    <3>1. /\ proc'[p].conn = proc[p].conn /\ proc'[p].asideLog = proc[p].asideLog
          /\ \A q \in Procs \ {p} : proc'[q] = proc[q]
      BY <2>12, Goes DEF Schema, Goto, TypesInv
    <3>2. log' = log /\ present' = present /\ trouble' = trouble
      BY <2>12 DEF Schema, files, counts
    <3>3. Attached(p) /\ proc[p].pc = "schema"
      BY <2>12 DEF Schema, AttachedInv, At
    <3> QED
      BY <3>1, <3>2, <3>3, StayLog DEF Attached, Conn
  <2>13. ASSUME LookUp(p) PROVE LogInv'
    <3>1. present' = present /\ log' = log /\ trouble' = trouble
      BY <2>13 DEF LookUp, files, counts
    <3>2. proc[p].conn = 0 /\ proc[p].pc # "asideLog"
      BY <2>13 DEF LookUp, At, AttachedInv, Attached, Conn
    <3>3. CASE proc' = [proc EXCEPT ![p] = Idle]
      BY <3>1, <3>2, <3>3, StayLog, Leaves, ImportingIs DEF TypesInv
    <3>4. CASE proc' # [proc EXCEPT ![p] = Idle]
      <4> DEFINE today == held[present].today
      <4>1. \/ proc' = [proc EXCEPT ![p].id = today, ![p].pc = "return"]
            \/ proc' = [proc EXCEPT ![p].pc = "copy"]
        BY <2>13, <3>4 DEF LookUp
      <4> HIDE DEF today
      <4>2. /\ proc'[p].asideLog = proc[p].asideLog
            /\ \A q \in Procs \ {p} : proc'[q] = proc[q]
        BY <4>1, Goes, Finds DEF TypesInv
      <4> QED
        BY <3>1, <3>2, <4>2, StayLog
    <3> QED
      BY <3>3, <3>4
  <2>14. ASSUME Copy(p) PROVE LogInv'
    <3>1. CASE present = 0
      BY <2>14, <3>1, LeaveLog DEF Copy, At
    <3>2. CASE present # 0
      <4>1. /\ proc'[p].asideLog = proc[p].asideLog
            /\ \A q \in Procs \ {p} : proc'[q] = proc[q]
        BY <2>14, <3>2, CopyDoes DEF TypesInv
      <4>2. log' = log /\ present' = present /\ trouble' = trouble
        BY <2>14, <3>2 DEF Copy, files, counts
      <4>3. Attached(p) /\ proc[p].pc = "copy"
        BY <2>14, <3>2 DEF Copy, AttachedInv, At
      <4> QED
        BY <4>1, <4>2, <4>3, StayLog DEF Attached, Conn
    <3> QED
      BY <3>1, <3>2
  <2>15. ASSUME Publish(p) PROVE LogInv'
    <3>1. /\ proc'[p].asideLog = proc[p].asideLog
          /\ \A q \in Procs \ {p} : proc'[q] = proc[q]
      BY <2>15, Publishes DEF Publish, TypesInv
    <3>2. /\ present' = present /\ trouble' = trouble /\ proc[p].pc # "asideLog"
          /\ log' = IF Users(present) = {p} THEN {} ELSE log
      BY <2>15 DEF Publish, At, counts
    <3> QED
      BY <3>1, <3>2, LastCloses
  <2>16. ASSUME Record(p) PROVE LogInv'
    <3>1. CASE Leave(p)
      BY <2>16, <3>1, LeaveLog DEF Record, counts, At
    <3>2. CASE ~Leave(p)
      <4>1. /\ proc'[p].conn = proc[p].conn /\ proc'[p].asideLog = proc[p].asideLog
            /\ \A q \in Procs \ {p} : proc'[q] = proc[q]
        BY <2>16, <3>2, Goes DEF Record, Goto, TypesInv
      <4>2. log' = log /\ present' = present /\ trouble' = trouble
        BY <2>16, <3>2 DEF Record, files, counts
      <4>3. Attached(p) /\ proc[p].pc = "record"
        BY <2>16, <3>2 DEF Record, AttachedInv, At
      <4> QED
        BY <4>1, <4>2, <4>3, StayLog DEF Attached, Conn
    <3> QED
      BY <3>1, <3>2
  <2>17. ASSUME Prune(p) PROVE LogInv'
    <3>1. /\ proc'[p].conn = proc[p].conn /\ proc'[p].asideLog = proc[p].asideLog
          /\ \A q \in Procs \ {p} : proc'[q] = proc[q]
      BY <2>17, Goes DEF Prune, Goto, TypesInv
    <3>2. log' = log /\ present' = present /\ trouble' = trouble
      BY <2>17 DEF Prune, files, counts
    <3>3. Attached(p) /\ proc[p].pc = "prune"
      BY <2>17 DEF Prune, AttachedInv, At
    <3> QED
      BY <3>1, <3>2, <3>3, StayLog DEF Attached, Conn
  <2>18. ASSUME Return(p) PROVE LogInv'
    BY <2>18, LeaveLog DEF Return, counts, At
  <2>19. ASSUME MoveAside(p) PROVE LogInv'
    <3>1. CASE Leave(p) /\ UNCHANGED present
      BY <2>19, <3>1, LeaveLog DEF MoveAside, counts, At
    <3>2. CASE MovesAside(p)
      <4>1. /\ proc'[p].asideLog = proc[p].asideLog /\ proc'[p].pc = "asideLog"
            /\ proc'[p].aside = present
            /\ \A q \in Procs \ {p} : proc'[q] = proc[q]
        BY <3>2, MovesAsideDoes DEF TypesInv
      <4>2. trouble' = trouble /\ proc[p].pc = "aside"
        BY <2>19 DEF MoveAside, counts, At
      <4>3. log' = log /\ (present = 0 \/ Users(present) = {})
        BY <3>2 DEF MovesAside
      <4>4. trouble' = 0 => log' = {}
        BY <4>2, <4>3 DEF LogInv
      <4>5. (trouble' <= 1 /\ log' # {}) => present # 0
        BY <4>2, <4>3, NoStrayLog DEF BehindPcs, At
      <4>6. (trouble' <= 1 /\ log' # {}) => At(p, "asideLog")' /\ proc'[p].aside # 0
        BY <4>1, <4>5 DEF At
      <4>7. trouble' = 0 => \A q \in Procs : proc'[q].asideLog = {}
        BY <4>1, <4>2 DEF LogInv
      <4> QED
        BY <4>4, <4>6, <4>7 DEF LogInv
    <3> QED
      BY <2>19, <3>1, <3>2, MoveAsideCases
  <2>20. ASSUME MoveLogAside(p) PROVE LogInv'
    <3>1. proc'[p].asideLog = log /\ \A q \in Procs \ {p} : proc'[q] = proc[q]
      BY <2>20, MoveLogAsideDoes DEF TypesInv
    <3>2. log' = {} /\ trouble' = trouble
      BY <2>20 DEF MoveLogAside, counts
    <3>3. present = 0
      BY <2>20 DEF MoveLogAside, At, AttachedInv, Attached
    <3>4. trouble' = 0 => \A q \in Procs : proc'[q].asideLog = {}
      BY <3>1, <3>2, <3>3 DEF LogInv
    <3> QED
      BY <3>2, <3>4 DEF LogInv
  <2>21. ASSUME Replace(p) PROVE LogInv'
    <3>1. proc'[p].asideLog = {} /\ \A q \in Procs \ {p} : proc'[q] = proc[q]
      BY <2>21, Leaves, ImportingIs DEF Replace, TypesInv
    <3>2. log' = log /\ trouble' = trouble /\ present' \in Ids
      BY <2>21 DEF Replace, counts
    <3>3. present = 0
      BY <2>21 DEF Replace, At, AttachedInv, Attached
    <3>4. trouble' = 0 => log' = {}
      BY <3>2, <3>3 DEF LogInv
    <3>5. trouble' = 0 => \A q \in Procs : proc'[q].asideLog = {}
      BY <3>1, <3>2 DEF LogInv
    <3>6. present' # 0
      BY <3>2 DEF Ids
    <3> QED
      BY <3>4, <3>5, <3>6 DEF LogInv
  <2>22. ASSUME GiveUp(p) PROVE LogInv'
    <3>1. proc[p].pc # "asideLog"
      BY <2>22 DEF GiveUp, Awaits, At
    <3> QED
      BY <2>22, <3>1, LeaveLog DEF GiveUp, counts
  <2>23. ASSUME FailInit(p) PROVE LogInv'
    <3>1. trouble' = trouble + 1 /\ trouble' # 0 /\ proc[p].pc = "schema"
      BY <2>23, StorageAssumption DEF FailInit, Fail, TypesInv, RestOK, At
    <3>2. CASE ~proc[p].fresh
      BY <2>23, <3>1, <3>2, LeaveLog DEF FailInit
    <3>3. CASE proc[p].fresh
      <4>1. Users(present) = {p} /\ Conn(p) = present /\ present # 0
        BY <2>23, <3>1, <3>3 DEF TypesInv, DoingInv, Doing, AttachedInv, Attached, At
      <4>2. log' = {}
        BY <2>23, <4>1 DEF FailInit, Leave
      <4> QED
        BY <3>1, <4>2 DEF LogInv
    <3> QED
      BY <3>2, <3>3
  <2>24. ASSUME FailPublish(p) PROVE LogInv'
    <3>1. trouble' = trouble + 1
      BY <2>24, StorageAssumption DEF FailPublish, Fail, TypesInv, RestOK
    <3> QED
      BY <2>24, <3>1, LeaveLog DEF FailPublish, At
  <2>25. ASSUME FailRestore(p) PROVE LogInv'
    <3>1. trouble' # 0 /\ (trouble' <= 1 => trouble = 0)
      BY <2>25, StorageAssumption DEF FailRestore, Fail, TypesInv, RestOK
    <3>2. present = 0
      BY <2>25 DEF FailRestore, AttachedInv, Attached
    <3>3. trouble' <= 1 => log' = {}
      BY <2>25, <3>1, <3>2 DEF FailRestore, LogInv
    <3> QED
      BY <3>1, <3>3 DEF LogInv
  <2>26. ASSUME Crash(p) PROVE LogInv'
    <3>1. trouble' # 0 /\ (trouble' <= 1 => trouble = 0)
      BY <2>26, StorageAssumption DEF Crash, Fail, TypesInv, RestOK
    <3>2. log' = log /\ present' = present
      BY <2>26 DEF Crash, files
    <3>3. trouble' <= 1 /\ log' # {} => present' # 0
      BY <3>1, <3>2 DEF LogInv
    <3> QED
      BY <3>1, <3>3 DEF LogInv
  <2>27. ASSUME FailUndo(p) PROVE LogInv'
    <3>1. trouble' # 0 /\ ~(trouble' <= 1)
      BY <2>27, StorageAssumption DEF FailUndo, TypesInv, RestOK
    <3> QED
      BY <3>1 DEF LogInv
  <2> QED
    BY <1>2, <2>1, <2>2, <2>3, <2>4, <2>5, <2>6, <2>7, <2>8, <2>9, <2>10, <2>11, <2>12,
       <2>13, <2>14, <2>15, <2>16, <2>17, <2>18, <2>19, <2>20, <2>21, <2>22, <2>23, <2>24,
       <2>25, <2>26, <2>27 DEF Step, Trouble
<1> QED
  BY <1>1, <1>2 DEF Next

-----------------------------------------------------------------------------
(* The vault *)

VaultInv == TypesInv /\ AttachedInv /\ FilesInv /\ DataInv /\ LogInv

LEMMA InitVault == Init => VaultInv /\ Vault!Init
<1> SUFFICES ASSUME Init PROVE VaultInv /\ Vault!Init
  OBVIOUS
<1>1. TypesInv
  BY InitTypes
<1>2. \A p \in Procs : /\ proc[p].pc = "idle" /\ proc[p].conn = 0 /\ proc[p].data = Blank
                       /\ proc[p].asideLog = {} /\ proc[p].fresh = FALSE
  BY ImportingIs DEF Init
<1>3. present = 1 /\ used = {1} /\ log = {} /\ held = [i \in Ids |-> IF i = 1 THEN Empty ELSE Blank]
      /\ taken = {Empty} /\ backups = <<[id |-> 1, data |-> Empty]>> /\ 1 \in Ids
  BY StorageAssumption DEF Init, Ids
<1>4. AttachedInv
  BY <1>2 DEF AttachedInv, Attached, At, Conn
<1>5. FilesInv
  BY <1>3 DEF FilesInv
<1>6. DataInv
  BY <1>2, <1>3, StorageAssumption DEF DataInv, Snapshots
<1>7. LogInv
  BY <1>2, <1>3 DEF LogInv
<1>8. Vault!Init
  BY <1>1, <1>3 DEF Vault!Init, TypesInv, RestOK
<1> QED
  BY <1>1, <1>4, <1>5, <1>6, <1>7, <1>8 DEF VaultInv

VaultStep == Vault!Next \/ LogLost \/ UNCHANGED <<present, held, used, taken>>

(* When two things have gone wrong a log may be lost. *)
LEMMA Lost ==
  ASSUME TypesInv, present = 0, ~(trouble <= 1), trouble' = trouble,
         used' = used \cup ({present'} \ {0}), taken' = taken,
         held' = [f \in Ids |-> [held[f] EXCEPT !.rows = @ \ log]]
  PROVE  VaultStep
<1>1. trouble' > 1
  BY StorageAssumption DEF TypesInv, RestOK
<1> QED
  BY <1>1 DEF VaultStep, LogLost

(* Every step is a step of the vault, or loses a log that was parted from its
   database, or the vault does not see it. *)
LEMMA NextVault ==
  ASSUME VaultInv, [Next]_vars
  PROVE  VaultStep
<1>1. CASE UNCHANGED vars
  BY <1>1 DEF vars, VaultStep
<1>2. ASSUME NEW p \in Procs, (\E op \in Operations : Start(p, op)) \/ Step(p) \/ Trouble(p)
      PROVE  VaultStep
  <2>1. ASSUME NEW op \in Operations, Start(p, op) PROVE VaultStep
    BY <2>1 DEF VaultStep, Start, files, counts, Fail
  <2>2. ASSUME PassBarrier(p) PROVE VaultStep
    BY <2>2 DEF VaultStep, PassBarrier, files, counts, Fail
  <2>3. ASSUME Open(p) PROVE VaultStep
    BY <2>3 DEF VaultStep, Open, files, counts, Fail
  <2>4. ASSUME Begin(p) PROVE VaultStep
    BY <2>4 DEF VaultStep, Begin, files, counts, Fail
  <2>5. ASSUME NestedConnect(p) PROVE VaultStep
    BY <2>5 DEF VaultStep, NestedConnect, files, counts, Fail
  <2>6. ASSUME Commit(p) PROVE VaultStep
    <3>1. Conn(p) = present /\ present # 0 /\ present \in Ids
      BY <2>6 DEF Commit, VaultInv, TypesInv, RestOK, Ids, DoingInv, Doing, At,
         AttachedInv, Attached
    <3>2. held \in [Ids -> Contents] /\ held' \in [Ids -> Contents]
      BY <2>6, NextTypes DEF VaultInv, TypesInv, RestOK, Next, Step
    <3>3. PICK c : held' = [held EXCEPT ![Conn(p)] = c]
      BY <2>6 DEF Commit
    <3>4. c \in Contents
      BY <3>1, <3>2, <3>3
    <3>5. UNCHANGED <<present, used, taken>>
      BY <2>6 DEF Commit, counts
    <3> QED
      BY <3>1, <3>3, <3>4, <3>5 DEF VaultStep, Vault!Next, Vault!Change
  <2>7. ASSUME Close(p) PROVE VaultStep
    BY <2>7 DEF VaultStep, Close, files, counts, Fail
  <2>8. ASSUME CheckImported(p) PROVE VaultStep
    BY <2>8 DEF VaultStep, CheckImported, files, counts, Fail
  <2>9. ASSUME Acquire(p) PROVE VaultStep
    BY <2>9 DEF VaultStep, Acquire, files, counts, Fail
  <2>10. ASSUME TakeInitLock(p) PROVE VaultStep
    BY <2>10 DEF VaultStep, TakeInitLock, files, counts, Fail
  <2>11. ASSUME Create(p) PROVE VaultStep
    <3>1. CASE present # 0
      BY <2>11, <3>1 DEF VaultStep, Create, files, counts
    <3>2. CASE present = 0 /\ trouble <= 1
      <4>1. /\ present' \in Ids \ used /\ used' = used \cup {present'}
            /\ held' = held /\ taken' = taken
        BY <2>11, <3>2, NewFile, KeptHeld DEF Create, counts, VaultInv
      <4>2. held' = [held EXCEPT ![present'] = Blank]
        BY <4>1 DEF VaultInv, TypesInv, RestOK, FilesInv
      <4> QED
        BY <3>2, <4>1, <4>2 DEF VaultStep, Vault!Next, Vault!Install
    <3>3. CASE present = 0 /\ ~(trouble <= 1)
      <4>1. /\ present' # 0 /\ used' = used \cup {present'} /\ taken' = taken
            /\ trouble' = trouble
            /\ held' = [f \in Ids |-> [held[f] EXCEPT !.rows = @ \ log]]
        BY <2>11, <3>3, NewFile DEF Create, counts
      <4> QED
        BY <3>3, <4>1, Lost DEF VaultInv
    <3> QED
      BY <3>1, <3>2, <3>3
  <2>12. ASSUME Schema(p) PROVE VaultStep
    <3>1. Conn(p) = present /\ present # 0 /\ present \in Ids
      BY <2>12 DEF Schema, VaultInv, TypesInv, RestOK, Ids, DoingInv, Doing, At,
         AttachedInv, Attached
    <3>2. held \in [Ids -> Contents] /\ held' \in [Ids -> Contents]
      BY <2>12, NextTypes DEF VaultInv, TypesInv, RestOK, Next, Step
    <3>3. PICK c : held' = [held EXCEPT ![Conn(p)] = c]
      BY <2>12 DEF Schema
    <3>4. c \in Contents
      BY <3>1, <3>2, <3>3
    <3>5. UNCHANGED <<present, used, taken>>
      BY <2>12 DEF Schema, counts
    <3> QED
      BY <3>1, <3>3, <3>4, <3>5 DEF VaultStep, Vault!Next, Vault!Change
  <2>13. ASSUME LookUp(p) PROVE VaultStep
    BY <2>13 DEF VaultStep, LookUp, files, counts, Fail
  <2>14. ASSUME Copy(p) PROVE VaultStep
    <3>1. CASE present = 0
      BY <2>14, <3>1 DEF VaultStep, Copy
    <3>2. CASE present # 0
      BY <2>14, <3>2 DEF VaultStep, Copy, Vault!Next, Vault!Snapshot
    <3> QED
      BY <3>1, <3>2
  <2>15. ASSUME Publish(p) PROVE VaultStep
    BY <2>15 DEF VaultStep, Publish, files, counts, Fail
  <2>16. ASSUME Record(p) PROVE VaultStep
    <3>1. CASE present = 0
      BY <2>16, <3>1 DEF VaultStep, Record, counts
    <3>2. CASE present # 0
      <4>1. present \in Ids
        BY <3>2 DEF VaultInv, TypesInv, RestOK, Ids
      <4>2. held \in [Ids -> Contents] /\ held' \in [Ids -> Contents]
        BY <2>16, NextTypes DEF VaultInv, TypesInv, RestOK, Next, Step
      <4>3. PICK c : held' = [held EXCEPT ![present] = c]
        BY <2>16, <3>2 DEF Record
      <4>4. c \in Contents
        BY <4>1, <4>2, <4>3
      <4>5. UNCHANGED <<present, used, taken>>
        BY <2>16 DEF Record, counts
      <4> QED
        BY <3>2, <4>3, <4>4, <4>5 DEF VaultStep, Vault!Next, Vault!Change
    <3> QED
      BY <3>1, <3>2
  <2>17. ASSUME Prune(p) PROVE VaultStep
    BY <2>17 DEF VaultStep, Prune, files, counts, Fail
  <2>18. ASSUME Return(p) PROVE VaultStep
    BY <2>18 DEF VaultStep, Return, files, counts, Fail
  <2>19. ASSUME MoveAside(p) PROVE VaultStep
    <3>1. (present' = present \/ present' = 0) /\ used' = used /\ held' = held /\ taken' = taken
      BY <2>19 DEF MoveAside, counts, Fail
    <3> QED
      BY <3>1 DEF VaultStep, Vault!Next, Vault!PutAside
  <2>20. ASSUME MoveLogAside(p) PROVE VaultStep
    <3>1. present = 0 /\ UNCHANGED <<present, used, taken, trouble>>
      BY <2>20 DEF MoveLogAside, At, counts, VaultInv, AttachedInv, Attached
    <3>2. CASE trouble <= 1
      BY <2>20, <3>1, <3>2, KeptHeld DEF VaultInv, VaultStep
    <3>3. CASE held' = held
      BY <3>1, <3>3 DEF VaultStep
    <3>4. CASE ~(trouble <= 1) /\ held' # held
      <4>1. held' = [f \in Ids |-> [held[f] EXCEPT !.rows = @ \ log]]
        BY <2>20, <3>4 DEF MoveLogAside
      <4>2. used' = used \cup ({present'} \ {0})
        BY <3>1
      <4> QED
        BY <3>1, <3>4, <4>1, <4>2, Lost DEF VaultInv
    <3> QED
      BY <3>2, <3>3, <3>4
  <2>21. ASSUME Replace(p) PROVE VaultStep
    <3>1. PICK f \in Ids \ used : present' = f /\ used' = used \cup {f}
                                   /\ held' = [held EXCEPT ![f] = proc[p].data]
      BY <2>21 DEF Replace
    <3>2. present = 0 /\ proc[p].data \in taken \cup {Blank} /\ taken' = taken
      BY <2>21 DEF Replace, At, counts, VaultInv, AttachedInv, Attached, DataInv, Snapshots
    <3> QED
      BY <3>1, <3>2 DEF VaultStep, Vault!Next, Vault!Install
  <2>22. ASSUME GiveUp(p) PROVE VaultStep
    BY <2>22 DEF VaultStep, GiveUp, files, counts, Fail
  <2>23. ASSUME FailInit(p) PROVE VaultStep
    <3>1. (present' = present \/ present' = 0) /\ used' = used /\ held' = held /\ taken' = taken
      BY <2>23 DEF FailInit, counts, Fail
    <3> QED
      BY <3>1 DEF VaultStep, Vault!Next, Vault!PutAside
  <2>24. ASSUME FailPublish(p) PROVE VaultStep
    BY <2>24 DEF VaultStep, FailPublish, files, counts, Fail
  <2>25. ASSUME FailRestore(p) PROVE VaultStep
    <3>1. /\ present = 0 /\ present' \in used \cup {0}
          /\ used' = used /\ held' = held /\ taken' = taken
      BY <2>25 DEF FailRestore, Fail, VaultInv, AttachedInv, Attached
    <3> QED
      BY <3>1 DEF VaultStep, Vault!Next, Vault!Return
  <2>26. ASSUME Crash(p) PROVE VaultStep
    BY <2>26 DEF VaultStep, Crash, files, counts, Fail
  <2>27. ASSUME FailUndo(p) PROVE VaultStep
    <3>1. PICK back \in {0, proc[p].aside}, rows \in {{}, proc[p].asideLog} :
            /\ present' = back
            /\ held' = [f \in Ids |-> IF f = back
                          THEN [held[f] EXCEPT !.rows = @ \ (proc[p].asideLog \ rows)]
                          ELSE held[f]]
      BY <2>27 DEF FailUndo
    <3>2. present = 0 /\ proc[p].aside \in used \cup {0}
      BY <2>27 DEF FailUndo, VaultInv, AttachedInv, Attached
    <3>3. used' = used \cup ({present'} \ {0}) /\ taken' = taken
      BY <2>27, <3>1, <3>2 DEF FailUndo
    <3>4. trouble' > 1
      BY <2>27, StorageAssumption DEF FailUndo, VaultInv, TypesInv, RestOK
    <3>5. \A f \in Ids : held'[f] \in {held[f], [held[f] EXCEPT !.rows = @ \ proc[p].asideLog]}
      <4>1. \A c \in Contents : [c EXCEPT !.rows = @ \ {}] = c
        BY DEF Contents
      <4>2. \A f \in Ids : held[f] \in Contents
        BY DEF VaultInv, TypesInv, RestOK
      <4>3. proc[p].asideLog \ rows \in {{}, proc[p].asideLog}
        BY <3>1
      <4> QED
        BY <3>1, <4>1, <4>2, <4>3
    <3> QED
      BY <3>2, <3>3, <3>4, <3>5 DEF LogLost, VaultStep
  <2> QED
    BY <1>2, <2>1, <2>2, <2>3, <2>4, <2>5, <2>6, <2>7, <2>8, <2>9, <2>10, <2>11, <2>12,
       <2>13, <2>14, <2>15, <2>16, <2>17, <2>18, <2>19, <2>20, <2>21, <2>22, <2>23, <2>24,
       <2>25, <2>26, <2>27 DEF Step, Trouble
<1> QED
  BY <1>1, <1>2 DEF Next

LEMMA VaultAlways ==
  ASSUME ~CanRenameOpen
  PROVE  Spec => []VaultInv
<1>1. VaultInv /\ [Next]_vars => VaultInv'
  BY NextTypes, NextAttached, NextFiles, NextData, NextLog DEF VaultInv
<1> QED
  BY <1>1, InitVault, PTL DEF Spec

(* Where a file that is open cannot be renamed, and whatever goes wrong, how often
   and where: no transaction, backup, initialization or restore changes or loses a
   database it should not, but for rows of a log that two failures have parted
   from its database while there was none at the path. *)
THEOREM StorageIsVault ==
  ASSUME ~CanRenameOpen
  PROVE  Spec => IsVaultButForLog
<1>1. VaultInv /\ [Next]_vars => [Vault!Next \/ LogLost]_(Vault!vars)
  BY NextVault DEF Vault!vars, VaultStep
<1> QED
  BY <1>1, InitVault, VaultAlways, PTL DEF Spec, IsVaultButForLog

(* One failure alone parts nothing. *)
LEMMA VaultKept ==
  ASSUME ~CanRenameOpen, MaxTrouble <= 1
  PROVE  Spec => IsVault
<1>1. VaultInv /\ VaultInv' /\ [Next]_vars => [Vault!Next]_(Vault!vars)
  <2> SUFFICES ASSUME VaultInv, VaultInv', [Next]_vars PROVE [Vault!Next]_(Vault!vars)
    OBVIOUS
  <2>1. ~(trouble' > 1)
    BY StorageAssumption DEF VaultInv, TypesInv, RestOK
  <2> QED
    BY <2>1, NextVault DEF Vault!vars, VaultStep, LogLost
<1> QED
  BY <1>1, InitVault, VaultAlways, PTL DEF Spec, IsVault, Vault!Spec

-----------------------------------------------------------------------------
(* The backups *)

Newest == backups[Len(backups)]

(* There is a snapshot besides the name that a backup has only reserved, and a
   backup that was published is the newest until it is pruned. *)
KeptInv ==
  /\ \E i \in DOMAIN backups : backups[i].data \in taken
  /\ \A p \in Procs : At(p, "publish") =>
       /\ proc[p].data \in taken /\ Newest.id = proc[p].id
       /\ \E i \in 1 .. Len(backups) - 1 : backups[i].data \in taken
  /\ \A p \in Procs : proc[p].pc \in {"record", "prune"} =>
       Newest.data \in taken /\ Newest.id = proc[p].id

OrderInv ==
  /\ \A i, j \in DOMAIN backups : i < j => backups[i].id < backups[j].id
  /\ \A i \in DOMAIN backups : backups[i].id <= made

(* The backup that a database records for a day is a snapshot while it is there. *)
Sound(c) ==
  /\ c.today <= made
  /\ \A i \in DOMAIN backups : backups[i].id = c.today => backups[i].data \in taken
SoundAfter(c) ==
  /\ c.today <= made'
  /\ \A i \in DOMAIN backups' : backups'[i].id = c.today => backups'[i].data \in taken'
TodayInv ==
  /\ \A f \in Ids : Sound(held[f])
  /\ \A p \in Procs : Sound(proc[p].data)
  /\ \A i \in DOMAIN backups : Sound(backups[i].data)

BackupInv == KeptInv /\ OrderInv /\ TodayInv /\ ReturnedBackupExists

(* What a list of backups is. *)
LEMMA Entries ==
  ASSUME TypesInv
  PROVE  /\ Len(backups) \in Nat /\ DOMAIN backups = 1 .. Len(backups)
         /\ \A i \in 1 .. Len(backups) : /\ backups[i] \in [id : 1 .. MaxMade, data : Contents]
                                         /\ backups[i].id \in Nat \ {0}
<1> DEFINE Entry == [id : 1 .. MaxMade, data : Contents]
<1>1. backups \in Seq(Entry)
  BY DEF TypesInv, RestOK
<1>2. \A e \in Entry : e.id \in Nat /\ e.id # 0
  BY StorageAssumption
<1> HIDE DEF Entry
<1>3. /\ Len(backups) \in Nat /\ DOMAIN backups = 1 .. Len(backups)
      /\ \A i \in 1 .. Len(backups) : backups[i] \in Entry
  BY <1>1, ElementOfSeq, LenProperties
<1> QED
  BY <1>2, <1>3 DEF Entry

(* A step that leaves the backups alone, and nothing between two steps of one. *)
LEMMA StayBackups ==
  ASSUME BackupInv, NEW p \in Procs, \A q \in Procs \ {p} : proc'[q] = proc[q],
         backups' = backups, taken' = taken, made' = made,
         \A f \in Ids : Sound(held'[f]), Sound(proc'[p].data),
         proc'[p].pc \notin {"publish", "record", "prune", "return"}
  PROVE  BackupInv'
<1>1. KeptInv'
  BY DEF BackupInv, KeptInv, Newest, At
<1>2. OrderInv'
  BY DEF BackupInv, OrderInv
<1>3. TodayInv'
  <2>1. /\ \A f \in Ids : Sound(held'[f])
        /\ \A q \in Procs : Sound(proc'[q].data)
        /\ \A i \in DOMAIN backups : Sound(backups'[i].data)
    BY DEF BackupInv, TodayInv
  <2> QED
    BY <2>1 DEF TodayInv, Sound
<1>4. ReturnedBackupExists'
  BY DEF BackupInv, ReturnedBackupExists, At, Op
<1> QED
  BY <1>1, <1>2, <1>3, <1>4 DEF BackupInv

(* No backup is recorded in a blank database. *)
LEMMA BlankSound == ASSUME TypesInv PROVE Sound(Blank)
<1>1. \A i \in DOMAIN backups : backups[i].id # 0
  BY Entries
<1>2. made \in Nat
  BY DEF TypesInv, RestOK
<1> QED
  BY <1>1, <1>2 DEF Sound, Blank

(* Rows and tables do not matter to what is recorded. *)
LEMMA SameToday ==
  ASSUME NEW c \in Contents
  PROVE  /\ \A R : [c EXCEPT !.rows = R].today = c.today
         /\ [c EXCEPT !.tables = TRUE].today = c.today
         /\ \A i : [c EXCEPT !.today = i].today = i
BY DEF Contents

LEMMA LeaveBackups ==
  ASSUME TypesInv, BackupInv, NEW p \in Procs, Leave(p) \/ proc' = [proc EXCEPT ![p] = Idle],
         backups' = backups, taken' = taken, made' = made, \A f \in Ids : Sound(held'[f])
  PROVE  BackupInv'
<1>1. /\ proc'[p].data = Blank
      /\ proc'[p].pc = "idle"
      /\ \A q \in Procs \ {p} : proc'[q] = proc[q]
  BY Leaves, ImportingIs DEF Leave, TypesInv
<1> QED
  BY <1>1, BlankSound, StayBackups

(* While one process works at a backup no other does. *)
LEMMA AloneAtBackups ==
  ASSUME TypesInv, NEW p \in Procs, proc[p].pc \in BehindPcs,
         \A q \in Procs \ {p} : proc'[q] = proc[q]
  PROVE  \A q \in Procs \ {p} : proc'[q].pc \notin {"publish", "record", "prune", "return"}
BY Alone DEF BehindPcs

(* What the other processes hold stays sound. *)
LEMMA TodayKept ==
  ASSUME BackupInv, NEW p \in Procs, \A q \in Procs \ {p} : proc'[q] = proc[q],
         \A f \in Ids : SoundAfter(held'[f]), SoundAfter(proc'[p].data),
         \A q \in Procs \ {p} : SoundAfter(proc[q].data),
         \A i \in DOMAIN backups' : SoundAfter(backups'[i].data)
  PROVE  TodayInv'
BY DEF TodayInv, Sound, SoundAfter

(* There is always a snapshot, and a backup that is returned is one. *)
LEMMA NextBackups ==
  ASSUME TypesInv, BackupInv, [Next]_vars
  PROVE  BackupInv'
<1>1. CASE UNCHANGED vars
  <2>1. UNCHANGED <<backups, taken, made, held, proc>>
  BY <1>1 DEF vars
<2> QED
  BY <2>1 DEF BackupInv, KeptInv, OrderInv, TodayInv, ReturnedBackupExists, Sound, Newest,
     At, Op
<1>2. ASSUME NEW p \in Procs, (\E op \in Operations : Start(p, op)) \/ Step(p) \/ Trouble(p)
      PROVE  BackupInv'
  <2>1. ASSUME NEW op \in Operations, Start(p, op) PROVE BackupInv'
    <3>1. /\ proc'[p].data = proc[p].data
          /\ proc'[p].pc \in {"acquire", "connect"}
          /\ \A q \in Procs \ {p} : proc'[q] = proc[q]
      BY <2>1, StartDoes DEF TypesInv
    <3>2. backups' = backups /\ taken' = taken /\ made' = made /\ held' = held
      BY <2>1 DEF Start, counts, files
    <3>3. \A f \in Ids : Sound(held'[f])
      BY <3>2 DEF BackupInv, TodayInv
    <3>4. Sound(proc'[p].data)
      BY <3>1 DEF BackupInv, TodayInv
    <3> QED
      BY <3>1, <3>2, <3>3, <3>4, StayBackups
  <2>2. ASSUME PassBarrier(p) PROVE BackupInv'
    <3>1. /\ proc'[p].data = proc[p].data
          /\ proc'[p].pc = "open"
          /\ \A q \in Procs \ {p} : proc'[q] = proc[q]
      BY <2>2, Goes DEF PassBarrier, Goto, TypesInv
    <3>2. backups' = backups /\ taken' = taken /\ made' = made /\ held' = held
      BY <2>2 DEF PassBarrier, counts, files
    <3>3. \A f \in Ids : Sound(held'[f])
      BY <3>2 DEF BackupInv, TodayInv
    <3>4. Sound(proc'[p].data)
      BY <3>1 DEF BackupInv, TodayInv
    <3> QED
      BY <3>1, <3>2, <3>3, <3>4, StayBackups
  <2>3. ASSUME Open(p) PROVE BackupInv'
    <3>1. CASE Leave(p)
      <4>1. backups' = backups /\ taken' = taken /\ made' = made /\ held' = held
        BY <2>3 DEF Open, counts
      <4>2. \A f \in Ids : Sound(held'[f])
        BY <4>1 DEF BackupInv, TodayInv
      <4> QED
        BY <3>1, <4>1, <4>2, LeaveBackups
    <3>2. CASE ~Leave(p)
      <4>1. /\ proc'[p].data = proc[p].data
            /\ proc'[p].pc \in {"begin", "check"}
            /\ \A q \in Procs \ {p} : proc'[q] = proc[q]
        BY <2>3, <3>2, Opens DEF Open, TypesInv
      <4>2. backups' = backups /\ taken' = taken /\ made' = made /\ held' = held
        BY <2>3, <3>2 DEF Open, counts, files
      <4>3. \A f \in Ids : Sound(held'[f])
        BY <4>2 DEF BackupInv, TodayInv
      <4>4. Sound(proc'[p].data)
        BY <4>1 DEF BackupInv, TodayInv
      <4> QED
        BY <4>1, <4>2, <4>3, <4>4, StayBackups
    <3> QED
      BY <3>1, <3>2
  <2>4. ASSUME Begin(p) PROVE BackupInv'
    <3>1. /\ proc'[p].data = proc[p].data
          /\ proc'[p].pc \in {"nested", "commit"}
          /\ \A q \in Procs \ {p} : proc'[q] = proc[q]
      BY <2>4, Goes DEF Begin, Goto, TypesInv
    <3>2. backups' = backups /\ taken' = taken /\ made' = made /\ held' = held
      BY <2>4 DEF Begin, counts, files
    <3>3. \A f \in Ids : Sound(held'[f])
      BY <3>2 DEF BackupInv, TodayInv
    <3>4. Sound(proc'[p].data)
      BY <3>1 DEF BackupInv, TodayInv
    <3> QED
      BY <3>1, <3>2, <3>3, <3>4, StayBackups
  <2>5. ASSUME NestedConnect(p) PROVE BackupInv'
    <3>1. CASE Leave(p)
      <4>1. backups' = backups /\ taken' = taken /\ made' = made /\ held' = held
        BY <2>5 DEF NestedConnect, counts
      <4>2. \A f \in Ids : Sound(held'[f])
        BY <4>1 DEF BackupInv, TodayInv
      <4> QED
        BY <3>1, <4>1, <4>2, LeaveBackups
    <3>2. CASE ~Leave(p)
      <4>1. /\ proc'[p].data = proc[p].data
            /\ proc'[p].pc = "commit"
            /\ \A q \in Procs \ {p} : proc'[q] = proc[q]
        BY <2>5, <3>2, Goes DEF NestedConnect, Goto, TypesInv
      <4>2. backups' = backups /\ taken' = taken /\ made' = made /\ held' = held
        BY <2>5, <3>2 DEF NestedConnect, counts, files
      <4>3. \A f \in Ids : Sound(held'[f])
        BY <4>2 DEF BackupInv, TodayInv
      <4>4. Sound(proc'[p].data)
        BY <4>1 DEF BackupInv, TodayInv
      <4> QED
        BY <4>1, <4>2, <4>3, <4>4, StayBackups
    <3> QED
      BY <3>1, <3>2
  <2>6. ASSUME Commit(p) PROVE BackupInv'
    <3>1. /\ proc'[p].data = proc[p].data
          /\ proc'[p].pc = "close"
          /\ \A q \in Procs \ {p} : proc'[q] = proc[q]
      BY <2>6, Goes DEF Commit, Goto, TypesInv
    <3>2. backups' = backups /\ taken' = taken /\ made' = made
      BY <2>6 DEF Commit, counts, files
    <3>5. \A f \in Ids : held[f] \in Contents /\ Sound(held[f])
      BY DEF TypesInv, RestOK, BackupInv, TodayInv
    <3>6. \A f \in Ids : held'[f].today = held[f].today
      BY <2>6, <3>5, SameToday DEF Commit, TypesInv, RestOK
    <3>3. \A f \in Ids : Sound(held'[f])
      BY <3>5, <3>6 DEF Sound
    <3>4. Sound(proc'[p].data)
      BY <3>1 DEF BackupInv, TodayInv
    <3> QED
      BY <3>1, <3>2, <3>3, <3>4, StayBackups
  <2>7. ASSUME Close(p) PROVE BackupInv'
    <3>1. backups' = backups /\ taken' = taken /\ made' = made /\ held' = held
      BY <2>7 DEF Close, counts, files, Fail
    <3>2. \A f \in Ids : Sound(held'[f])
      BY <3>1 DEF BackupInv, TodayInv
    <3> QED
      BY <2>7, <3>1, <3>2, LeaveBackups DEF Close
  <2>8. ASSUME CheckImported(p) PROVE BackupInv'
    <3>1. CASE Leave(p)
      <4>1. backups' = backups /\ taken' = taken /\ made' = made /\ held' = held
        BY <2>8 DEF CheckImported, counts
      <4>2. \A f \in Ids : Sound(held'[f])
        BY <4>1 DEF BackupInv, TodayInv
      <4> QED
        BY <3>1, <4>1, <4>2, LeaveBackups
    <3>2. CASE ~Leave(p)
      <4>1. /\ proc'[p].data = Blank
            /\ proc'[p].pc = "connect"
            /\ \A q \in Procs \ {p} : proc'[q] = proc[q]
        BY <2>8, <3>2, Leaves, ImportingIs DEF CheckImported, Importing, TypesInv
      <4>2. backups' = backups /\ taken' = taken /\ made' = made /\ held' = held
        BY <2>8, <3>2 DEF CheckImported, counts, files
      <4>3. \A f \in Ids : Sound(held'[f])
        BY <4>2 DEF BackupInv, TodayInv
      <4>4. Sound(proc'[p].data)
        BY <4>1, BlankSound
      <4> QED
        BY <4>1, <4>2, <4>3, <4>4, StayBackups
    <3> QED
      BY <3>1, <3>2
  <2>9. ASSUME Acquire(p) PROVE BackupInv'
    <3>1. /\ proc'[p].data = proc[p].data
          /\ proc'[p].pc \in {"initLock", "dailyLock", "copy", "aside"}
          /\ \A q \in Procs \ {p} : proc'[q] = proc[q]
      BY <2>9, AcquireDoes
    <3>2. backups' = backups /\ taken' = taken /\ made' = made /\ held' = held
      BY <2>9 DEF Acquire, counts, files
    <3>3. \A f \in Ids : Sound(held'[f])
      BY <3>2 DEF BackupInv, TodayInv
    <3>4. Sound(proc'[p].data)
      BY <3>1 DEF BackupInv, TodayInv
    <3> QED
      BY <3>1, <3>2, <3>3, <3>4, StayBackups
  <2>10. ASSUME TakeInitLock(p) PROVE BackupInv'
    <3>1. /\ proc'[p].data = proc[p].data
          /\ proc'[p].pc = "create"
          /\ \A q \in Procs \ {p} : proc'[q] = proc[q]
      BY <2>10, Goes DEF TakeInitLock, Goto, TypesInv
    <3>2. backups' = backups /\ taken' = taken /\ made' = made /\ held' = held
      BY <2>10 DEF TakeInitLock, counts, files
    <3>3. \A f \in Ids : Sound(held'[f])
      BY <3>2 DEF BackupInv, TodayInv
    <3>4. Sound(proc'[p].data)
      BY <3>1 DEF BackupInv, TodayInv
    <3> QED
      BY <3>1, <3>2, <3>3, <3>4, StayBackups
  <2>11. ASSUME Create(p) PROVE BackupInv'
    <3>1. /\ proc'[p].data = proc[p].data
          /\ proc'[p].pc = "schema"
          /\ \A q \in Procs \ {p} : proc'[q] = proc[q]
      BY <2>11, CreateHereDoes, CreateDoes DEF TypesInv
    <3>2. backups' = backups /\ taken' = taken /\ made' = made
      BY <2>11 DEF Create, counts, files
    <3>5. \A f \in Ids : held[f] \in Contents /\ Sound(held[f])
      BY DEF TypesInv, RestOK, BackupInv, TodayInv
    <3>6. \A f \in Ids : held'[f].today = held[f].today
      <4>1. CASE present # 0
        BY <2>11, <4>1 DEF Create, files
      <4>2. CASE present = 0
        <5>1. held' = [g \in Ids |-> [held[g] EXCEPT !.rows = @ \ log]]
          BY <2>11, <4>2, NewFile
        <5> QED
          BY <3>5, <5>1, SameToday
      <4> QED
        BY <4>1, <4>2
    <3>3. \A f \in Ids : Sound(held'[f])
      BY <3>5, <3>6 DEF Sound
    <3>4. Sound(proc'[p].data)
      BY <3>1 DEF BackupInv, TodayInv
    <3> QED
      BY <3>1, <3>2, <3>3, <3>4, StayBackups
  <2>12. ASSUME Schema(p) PROVE BackupInv'
    <3>1. /\ proc'[p].data = proc[p].data
          /\ proc'[p].pc = "close"
          /\ \A q \in Procs \ {p} : proc'[q] = proc[q]
      BY <2>12, Goes DEF Schema, Goto, TypesInv
    <3>2. backups' = backups /\ taken' = taken /\ made' = made
      BY <2>12 DEF Schema, counts, files
    <3>5. \A f \in Ids : held[f] \in Contents /\ Sound(held[f])
      BY DEF TypesInv, RestOK, BackupInv, TodayInv
    <3>6. \A f \in Ids : held'[f].today = held[f].today
      BY <2>12, <3>5, SameToday DEF Schema, TypesInv, RestOK
    <3>3. \A f \in Ids : Sound(held'[f])
      BY <3>5, <3>6 DEF Sound
    <3>4. Sound(proc'[p].data)
      BY <3>1 DEF BackupInv, TodayInv
    <3> QED
      BY <3>1, <3>2, <3>3, <3>4, StayBackups
  <2>13. ASSUME LookUp(p) PROVE BackupInv'
    <3>1. backups' = backups /\ taken' = taken /\ made' = made /\ held' = held
      BY <2>13 DEF LookUp, counts, files
    <3>2. \A f \in Ids : Sound(held'[f])
      BY <3>1 DEF BackupInv, TodayInv
    <3>3. CASE proc' = [proc EXCEPT ![p] = Idle]
      BY <3>1, <3>2, <3>3, LeaveBackups
    <3>4. CASE proc' # [proc EXCEPT ![p] = Idle]
      <4> DEFINE today == held[present].today
      <4>1. \/ proc' = [proc EXCEPT ![p].id = today, ![p].pc = "return"] /\ Valid(today)
            \/ proc' = [proc EXCEPT ![p].pc = "copy"]
        BY <2>13, <3>4 DEF LookUp
      <4>2. present \in Ids
        BY <2>13, <3>4 DEF LookUp, TypesInv, RestOK, Ids
      <4>3. Valid(today) => \E i \in DOMAIN backups : backups[i].id = today /\ backups[i].data \in taken
        BY <4>2 DEF Valid, BackupInv, TodayInv, Sound, SoundAfter
      <4> HIDE DEF today
      <4>4. CASE proc' = [proc EXCEPT ![p].pc = "copy"]
        <5>1. /\ proc'[p].data = proc[p].data
              /\ proc'[p].pc = "copy"
              /\ \A q \in Procs \ {p} : proc'[q] = proc[q]
          BY <4>4, Goes DEF TypesInv
        <5>2. Sound(proc'[p].data)
          BY <5>1 DEF BackupInv, TodayInv
        <5> QED
          BY <3>1, <3>2, <5>1, <5>2, StayBackups
      <4>5. CASE proc' = [proc EXCEPT ![p].id = today, ![p].pc = "return"] /\ Valid(today)
        <5>1. proc'[p].data = proc[p].data /\ \A q \in Procs \ {p} : proc'[q] = proc[q]
          BY <4>5, Finds DEF TypesInv
        <5>2. proc'[p].pc = "return" /\ proc'[p].id = today
          BY <4>5, Finds DEF TypesInv
        <5>3. \A q \in Procs \ {p} : proc'[q].pc \notin {"publish", "record", "prune", "return"}
          BY <2>13, <5>1, AloneAtBackups DEF LookUp, At, BehindPcs
        <5>4. KeptInv'
          BY <3>1, <5>2, <5>3 DEF BackupInv, KeptInv, At
        <5>5. OrderInv'
          BY <3>1 DEF BackupInv, OrderInv
        <5>6. TodayInv'
          BY <3>1, <5>1 DEF BackupInv, TodayInv, Sound, SoundAfter
        <5>7. ReturnedBackupExists'
          BY <3>1, <4>3, <4>5, <5>2, <5>3 DEF ReturnedBackupExists, At
        <5> QED
          BY <5>4, <5>5, <5>6, <5>7 DEF BackupInv
      <4> QED
        BY <4>1, <4>4, <4>5
    <3> QED
      BY <3>3, <3>4
  <2>14. ASSUME Copy(p) PROVE BackupInv'
    <3>1. CASE present = 0
      <4>1. backups' = backups /\ taken' = taken /\ made' = made /\ held' = held
        BY <2>14, <3>1 DEF Copy
      <4>2. \A f \in Ids : Sound(held'[f])
        BY <4>1 DEF BackupInv, TodayInv
      <4> QED
        BY <2>14, <3>1, <4>1, <4>2, LeaveBackups DEF Copy
    <3>2. CASE present # 0
      <4>1. proc'[p].pc = "publish" /\ proc'[p].data = held[present] /\ proc'[p].id = made'
            /\ \A q \in Procs \ {p} : proc'[q] = proc[q]
        BY <2>14, <3>2, CopyDoes DEF TypesInv
      <4>2. \A q \in Procs \ {p} : proc'[q].pc \notin {"publish", "record", "prune", "return"}
        BY <2>14, <3>2, <4>1, AloneAtBackups DEF Copy, At, BehindPcs
      <4>3. /\ made' = made + 1 /\ backups' = Append(backups, [id |-> made', data |-> Blank])
            /\ taken' = taken \cup {held[present]} /\ held' = held
        BY <2>14, <3>2 DEF Copy
      <4>4. /\ made \in Nat /\ present \in Ids
            /\ \A i \in DOMAIN backups : backups[i] \in [id : 1 .. MaxMade, data : Contents]
        <5>1. made \in Nat /\ present \in Ids
          BY <2>14, <3>2 DEF TypesInv, RestOK, Ids
        <5> QED
          BY <5>1, Entries
      <4>5. /\ Len(backups) \in Nat /\ DOMAIN backups = 1 .. Len(backups)
            /\ DOMAIN backups' = 1 .. Len(backups) + 1 /\ Len(backups') = Len(backups) + 1
            /\ \A i \in 1 .. Len(backups) : backups'[i] = backups[i]
            /\ backups'[Len(backups) + 1] = [id |-> made', data |-> Blank]
        BY <4>3, LenProperties, AppendProperties DEF TypesInv, RestOK
      <4>6. \A c : c.today \in Nat /\ Sound(c) => SoundAfter(c)
        <5>1. SUFFICES ASSUME NEW c, c.today \in Nat, Sound(c) PROVE SoundAfter(c)
          OBVIOUS
        <5>2. c.today <= made' /\ c.today # made'
          BY <4>3, <4>4, <5>1 DEF Sound, SoundAfter
        <5>3. ASSUME NEW i \in 1 .. Len(backups) + 1, backups'[i].id = c.today PROVE backups'[i].data \in taken'
          BY <4>3, <4>5, <5>1, <5>2, <5>3 DEF Sound, SoundAfter
        <5> QED
          BY <4>5, <5>2, <5>3 DEF Sound, SoundAfter
      <4>7. \A c \in Contents : c.today \in Nat
        BY StorageAssumption DEF Contents
      <4>11. KeptInv'
        <5>1. PICK i \in 1 .. Len(backups) : backups[i].data \in taken
          BY <4>5 DEF BackupInv, KeptInv
        <5>2. backups'[i].data \in taken' /\ i \in 1 .. Len(backups') - 1 /\ i \in DOMAIN backups'
          BY <4>3, <4>5, <5>1
        <5>3. Newest'.id = proc'[p].id /\ proc'[p].data \in taken'
          BY <4>1, <4>3, <4>5 DEF Newest
        <5> QED
          BY <4>1, <4>2, <5>2, <5>3 DEF KeptInv, At
      <4>12. OrderInv'
        BY <4>3, <4>4, <4>5 DEF BackupInv, OrderInv
      <4>13. TodayInv'
        <5>1. /\ \A f \in Ids : held[f].today \in Nat /\ Sound(held[f])
              /\ \A q \in Procs : proc[q].data.today \in Nat /\ Sound(proc[q].data)
          BY <4>7 DEF TypesInv, RestOK, ProcsOK, ProcState, BackupInv, TodayInv
        <5>2. \A i \in 1 .. Len(backups) : backups[i].data.today \in Nat /\ Sound(backups[i].data)
          BY <4>4, <4>5, <4>7 DEF BackupInv, TodayInv
        <5>3. Blank.today \in Nat /\ Sound(Blank)
          BY BlankSound DEF Blank
        <5>4. /\ \A f \in Ids : SoundAfter(held'[f]) /\ SoundAfter(held[f])
              /\ \A q \in Procs : SoundAfter(proc[q].data)
          BY <4>3, <4>6, <5>1
        <5>5. SoundAfter(proc'[p].data)
          BY <4>1, <4>4, <5>4
        <5>6. \A i \in 1 .. Len(backups) + 1 : SoundAfter(backups'[i].data)
          BY <4>5, <4>6, <5>2, <5>3
        <5> QED
          BY <4>1, <4>5, <5>4, <5>5, <5>6, TodayKept
      <4>14. ReturnedBackupExists'
        BY <4>1, <4>2 DEF ReturnedBackupExists, At
      <4> QED
        BY <4>11, <4>12, <4>13, <4>14 DEF BackupInv
    <3> QED
      BY <3>1, <3>2
  <2>15. ASSUME Publish(p) PROVE BackupInv'
    <3>1. proc'[p].pc \in {"record", "prune"} /\ proc'[p].data = Blank /\ proc'[p].id = proc[p].id
          /\ \A q \in Procs \ {p} : proc'[q] = proc[q]
      BY <2>15, Publishes DEF Publish, TypesInv
    <3>2. \A q \in Procs \ {p} : proc'[q].pc \notin {"publish", "record", "prune", "return"}
      BY <2>15, <3>1, AloneAtBackups DEF Publish, At, BehindPcs
    <3>3. taken' = taken /\ made' = made /\ held' = held
      BY <2>15 DEF Publish, counts
    <3>4. /\ Len(backups) \in Nat /\ DOMAIN backups = 1 .. Len(backups)
          /\ \A i \in 1 .. Len(backups) : backups[i] \in [id : 1 .. MaxMade, data : Contents]
      BY Entries
    <3>5. backups' = [i \in 1 .. Len(backups) |->
               IF backups[i].id = proc[p].id THEN [backups[i] EXCEPT !.data = proc[p].data] ELSE backups[i]]
      BY <2>15, <3>4 DEF Publish
    <3>6. /\ proc[p].data \in taken /\ Newest.id = proc[p].id /\ Sound(proc[p].data)
          /\ \E i \in 1 .. Len(backups) - 1 : backups[i].data \in taken
      BY <2>15 DEF Publish, BackupInv, KeptInv, TodayInv
    <3>7. Len(backups) \in 1 .. Len(backups)
      BY <3>4, <3>6
    <3>8. /\ DOMAIN backups' = 1 .. Len(backups)
          /\ \A i \in 1 .. Len(backups) :
               /\ backups'[i].id = backups[i].id
               /\ backups[i].id = proc[p].id => backups'[i].data = proc[p].data
               /\ backups[i].id # proc[p].id => backups'[i].data = backups[i].data
      BY <3>4, <3>5
    <3>9. Len(backups') = Len(backups)
      <4>1. backups' \in Seq([id : 1 .. MaxMade, data : Contents])
        BY <2>15, PublishedBackups DEF TypesInv, RestOK, ProcsOK, ProcState
      <4> QED
        BY <3>4, <3>8, <4>1, LenProperties
    <3>10. \A c : Sound(c) => SoundAfter(c)
      BY <3>3, <3>4, <3>6, <3>8 DEF Sound, SoundAfter
    <3>11. KeptInv'
      <4>1. Newest'.data \in taken' /\ Newest'.id = proc'[p].id
        BY <3>1, <3>3, <3>6, <3>7, <3>8, <3>9 DEF Newest
      <4> QED
        BY <3>1, <3>2, <3>7, <3>8, <3>9, <4>1 DEF KeptInv, At, Newest
    <3>12. OrderInv'
      BY <3>3, <3>4, <3>8 DEF BackupInv, OrderInv
    <3>13. TodayInv'
      <4>1. \A f \in Ids : SoundAfter(held'[f])
        BY <3>3, <3>10 DEF BackupInv, TodayInv
      <4>2. \A q \in Procs : SoundAfter(proc[q].data)
        BY <3>10 DEF BackupInv, TodayInv
      <4>3. SoundAfter(proc'[p].data)
        BY <3>1, <3>10, BlankSound
      <4>4. \A i \in DOMAIN backups' : SoundAfter(backups'[i].data)
        BY <3>4, <3>6, <3>8, <3>10 DEF BackupInv, TodayInv
      <4> QED
        BY <3>1, <4>1, <4>2, <4>3, <4>4, TodayKept
    <3>14. ReturnedBackupExists'
      BY <3>1, <3>2 DEF ReturnedBackupExists, At
    <3> QED
      BY <3>11, <3>12, <3>13, <3>14 DEF BackupInv
  <2>16. ASSUME Record(p) PROVE BackupInv'
    <3>1. CASE present = 0
      <4>1. backups' = backups /\ taken' = taken /\ made' = made /\ held' = held
        BY <2>16, <3>1 DEF Record, counts
      <4>2. \A f \in Ids : Sound(held'[f])
        BY <4>1 DEF BackupInv, TodayInv
      <4> QED
        BY <2>16, <3>1, <4>1, <4>2, LeaveBackups DEF Record
    <3>2. CASE present # 0
      <4>1. proc'[p].pc = "prune" /\ proc'[p].data = proc[p].data /\ proc'[p].id = proc[p].id
            /\ \A q \in Procs \ {p} : proc'[q] = proc[q]
        BY <2>16, <3>2, Goes DEF Record, Goto, TypesInv
      <4>2. \A q \in Procs \ {p} : proc'[q].pc \notin {"publish", "record", "prune", "return"}
        BY <2>16, <3>2, <4>1, AloneAtBackups DEF Record, At, BehindPcs
      <4>3. taken' = taken /\ made' = made /\ backups' = backups
        BY <2>16, <3>2 DEF Record, counts
      <4>4. Newest.data \in taken /\ Newest.id = proc[p].id /\ backups # <<>>
        BY <2>16, <3>2 DEF Record, BackupInv, KeptInv, At, TypesInv, DoingInv, Doing
      <4>5. /\ Len(backups) \in Nat /\ DOMAIN backups = 1 .. Len(backups)
            /\ Len(backups) \in DOMAIN backups
            /\ \A i \in DOMAIN backups : backups[i].id \in Nat
        <5>1. Len(backups) # 0
          BY <4>4, EmptySeq DEF TypesInv, RestOK
        <5> QED
          BY <5>1, Entries
      <4>6. \A i \in DOMAIN backups : backups[i].id = proc[p].id => backups[i] = Newest
        BY <4>4, <4>5, StorageAssumption DEF BackupInv, OrderInv, Newest
      <4>7. \A f \in Ids : Sound(held'[f])
        <5>1. \A f \in Ids : held[f] \in Contents /\ Sound(held[f])
          BY DEF TypesInv, RestOK, BackupInv, TodayInv
        <5>2. held' = [held EXCEPT ![present].today = proc[p].id]
          BY <2>16, <3>2 DEF Record
        <5>3. \A f \in Ids : held'[f].today \in {held[f].today, proc[p].id}
          BY <5>1, <5>2, SameToday DEF TypesInv, RestOK
        <5>4. proc[p].id <= made
          BY <4>4, <4>5 DEF BackupInv, OrderInv, Newest
        <5> QED
          BY <4>4, <4>6, <5>1, <5>3, <5>4 DEF Sound, SoundAfter
      <4>11. KeptInv'
        BY <4>1, <4>2, <4>3, <4>4 DEF BackupInv, KeptInv, At, Newest
      <4>12. OrderInv'
        BY <4>3 DEF BackupInv, OrderInv
      <4>13. TodayInv'
        <5>1. \A c : Sound(c) => SoundAfter(c)
          BY <4>3 DEF Sound, SoundAfter
        <5> QED
          BY <4>1, <4>3, <4>7, <5>1, TodayKept DEF BackupInv, TodayInv
      <4>14. ReturnedBackupExists'
        BY <4>1, <4>2 DEF ReturnedBackupExists, At
      <4> QED
        BY <4>11, <4>12, <4>13, <4>14 DEF BackupInv
    <3> QED
      BY <3>1, <3>2
  <2>17. ASSUME Prune(p) PROVE BackupInv'
    <3>1. proc'[p].pc = "return" /\ proc'[p].data = proc[p].data /\ proc'[p].id = proc[p].id
          /\ \A q \in Procs \ {p} : proc'[q] = proc[q]
      BY <2>17, Goes DEF Prune, Goto, TypesInv
    <3>2. \A q \in Procs \ {p} : proc'[q].pc \notin {"publish", "record", "prune", "return"}
      BY <2>17, <3>1, AloneAtBackups DEF Prune, At, BehindPcs
    <3>3. taken' = taken /\ made' = made /\ held' = held /\ backups' = Rotated(backups)
      BY <2>17 DEF Prune, counts, files
    <3>4. Newest.data \in taken /\ Newest.id = proc[p].id /\ backups # <<>>
      BY <2>17 DEF Prune, BackupInv, KeptInv, At, TypesInv, DoingInv, Doing
    <3>5. PICK k \in 1 .. Len(backups) : backups' = SubSeq(backups, k, Len(backups))
      BY <3>3, <3>4, RotatedPart DEF TypesInv, RestOK
    <3>6. /\ Len(backups) \in Nat /\ DOMAIN backups = 1 .. Len(backups)
          /\ \A n \in k .. Len(backups) : backups[n] \in [id : 1 .. MaxMade, data : Contents]
      BY <3>5, Entries
    <3>7. /\ Len(backups') = Len(backups) - k + 1
          /\ DOMAIN backups' = 1 .. Len(backups) - k + 1
          /\ \A i \in 1 .. Len(backups) - k + 1 : backups'[i] = backups[k + i - 1]
      BY <3>5, <3>6, SubSeqProperties, LenProperties
    <3>8. \A i \in DOMAIN backups' : \E j \in DOMAIN backups : backups'[i] = backups[j]
      BY <3>5, <3>6, <3>7
    <3>9. Newest' = Newest /\ Len(backups') \in DOMAIN backups'
      BY <3>5, <3>6, <3>7 DEF Newest
    <3>10. \A c : Sound(c) => SoundAfter(c)
      BY <3>3, <3>8 DEF Sound, SoundAfter
    <3>11. KeptInv'
      BY <3>1, <3>2, <3>3, <3>4, <3>9 DEF KeptInv, At, Newest
    <3>12. OrderInv'
      <4>1. ASSUME NEW i \in DOMAIN backups', NEW j \in DOMAIN backups', i < j
            PROVE  backups'[i].id < backups'[j].id
        <5>1. k + i - 1 \in DOMAIN backups /\ k + j - 1 \in DOMAIN backups /\ k + i - 1 < k + j - 1
          BY <3>5, <3>6, <3>7, <4>1
        <5> QED
          BY <3>7, <4>1, <5>1 DEF BackupInv, OrderInv
      <4>2. \A i \in DOMAIN backups' : backups'[i].id <= made'
        BY <3>3, <3>8 DEF BackupInv, OrderInv
      <4> QED
        BY <4>1, <4>2 DEF OrderInv
    <3>13. TodayInv'
      BY <3>1, <3>3, <3>8, <3>10, TodayKept DEF BackupInv, TodayInv
    <3>14. ReturnedBackupExists'
      BY <3>1, <3>2, <3>3, <3>4, <3>9 DEF ReturnedBackupExists, At, Newest
    <3> QED
      BY <3>11, <3>12, <3>13, <3>14 DEF BackupInv
  <2>18. ASSUME Return(p) PROVE BackupInv'
    <3>1. backups' = backups /\ taken' = taken /\ made' = made /\ held' = held
      BY <2>18 DEF Return, counts, files, Fail
    <3>2. \A f \in Ids : Sound(held'[f])
      BY <3>1 DEF BackupInv, TodayInv
    <3> QED
      BY <2>18, <3>1, <3>2, LeaveBackups DEF Return
  <2>19. ASSUME MoveAside(p) PROVE BackupInv'
    <3>1. backups' = backups /\ taken' = taken /\ made' = made /\ held' = held
      BY <2>19 DEF MoveAside, counts
    <3>2. \A f \in Ids : Sound(held'[f])
      BY <3>1 DEF BackupInv, TodayInv
    <3>3. CASE Leave(p)
      BY <3>1, <3>2, <3>3, LeaveBackups
    <3>4. CASE MovesAside(p)
      <4>1. proc'[p].pc = "asideLog" /\ \A q \in Procs \ {p} : proc'[q] = proc[q]
        BY <3>4, MovesAsideDoes DEF TypesInv
      <4>2. \E i \in DOMAIN backups : proc'[p].data = backups[i].data
        BY <3>4, MovesAsideDoes DEF TypesInv
      <4>3. Sound(proc'[p].data)
        BY <4>2 DEF BackupInv, TodayInv
      <4> QED
        BY <3>1, <3>2, <4>1, <4>3, StayBackups
    <3> QED
      BY <2>19, <3>3, <3>4, MoveAsideCases
  <2>20. ASSUME MoveLogAside(p) PROVE BackupInv'
    <3>1. /\ proc'[p].data = proc[p].data
          /\ proc'[p].pc = "replace"
          /\ \A q \in Procs \ {p} : proc'[q] = proc[q]
      BY <2>20, MoveLogAsideDoes DEF TypesInv
    <3>2. backups' = backups /\ taken' = taken /\ made' = made
      BY <2>20 DEF MoveLogAside, counts, files
    <3>5. \A f \in Ids : held[f] \in Contents /\ Sound(held[f])
      BY DEF TypesInv, RestOK, BackupInv, TodayInv
    <3>6. \A f \in Ids : held'[f].today = held[f].today
      BY <2>20, <3>5, SameToday DEF MoveLogAside
    <3>3. \A f \in Ids : Sound(held'[f])
      BY <3>5, <3>6 DEF Sound
    <3>4. Sound(proc'[p].data)
      BY <3>1 DEF BackupInv, TodayInv
    <3> QED
      BY <3>1, <3>2, <3>3, <3>4, StayBackups
  <2>21. ASSUME Replace(p) PROVE BackupInv'
    <3>1. backups' = backups /\ taken' = taken /\ made' = made
      BY <2>21 DEF Replace, counts
    <3>2. PICK f \in Ids : held' = [held EXCEPT ![f] = proc[p].data]
      BY <2>21 DEF Replace
    <3>3. \A g \in Ids : held'[g] \in {held[g], proc[p].data}
      BY <3>2 DEF TypesInv, RestOK
    <3>4. \A g \in Ids : Sound(held'[g])
      BY <3>3 DEF BackupInv, TodayInv
    <3> QED
      BY <2>21, <3>1, <3>4, LeaveBackups DEF Replace
  <2>22. ASSUME GiveUp(p) PROVE BackupInv'
    <3>1. backups' = backups /\ taken' = taken /\ made' = made /\ held' = held
      BY <2>22 DEF GiveUp, counts, files, Fail
    <3>2. \A f \in Ids : Sound(held'[f])
      BY <3>1 DEF BackupInv, TodayInv
    <3> QED
      BY <2>22, <3>1, <3>2, LeaveBackups DEF GiveUp
  <2>23. ASSUME FailInit(p) PROVE BackupInv'
    <3>1. backups' = backups /\ taken' = taken /\ made' = made /\ held' = held
      BY <2>23 DEF FailInit, counts, files, Fail
    <3>2. \A f \in Ids : Sound(held'[f])
      BY <3>1 DEF BackupInv, TodayInv
    <3> QED
      BY <2>23, <3>1, <3>2, LeaveBackups DEF FailInit
  <2>24. ASSUME FailPublish(p) PROVE BackupInv'
    <3>1. /\ proc'[p].pc = "idle"
          /\ proc'[p].data = Blank
          /\ \A q \in Procs \ {p} : proc'[q] = proc[q]
      BY <2>24, Leaves, ImportingIs DEF FailPublish, Leave, TypesInv
    <3>2. \A q \in Procs \ {p} : proc'[q].pc \notin {"publish", "record", "prune", "return"}
      BY <2>24, <3>1, AloneAtBackups DEF FailPublish, At, BehindPcs
    <3>3. taken' = taken /\ made' = made /\ held' = held /\ backups' = SubSeq(backups, 1, Len(backups) - 1)
      BY <2>24 DEF FailPublish, Fail, Front
    <3>4. \E i \in 1 .. Len(backups) - 1 : backups[i].data \in taken
      BY <2>24 DEF FailPublish, BackupInv, KeptInv
    <3>5. /\ Len(backups) \in Nat /\ DOMAIN backups = 1 .. Len(backups)
          /\ \A n \in 1 .. Len(backups) : backups[n] \in [id : 1 .. MaxMade, data : Contents]
      BY ElementOfSeq, LenProperties DEF TypesInv, RestOK
    <3>6. /\ DOMAIN backups' = 1 .. Len(backups) - 1
          /\ \A i \in 1 .. Len(backups) - 1 : backups'[i] = backups[i]
      BY <3>3, <3>4, <3>5, SubSeqProperties, LenProperties
    <3>7. \A i \in DOMAIN backups' : \E j \in DOMAIN backups : backups'[i] = backups[j]
      BY <3>5, <3>6
    <3>10. \A c : Sound(c) => SoundAfter(c)
      BY <3>3, <3>7 DEF Sound, SoundAfter
    <3>11. KeptInv'
      BY <3>1, <3>2, <3>3, <3>4, <3>6 DEF KeptInv, At
    <3>12. OrderInv'
      BY <3>3, <3>5, <3>6 DEF BackupInv, OrderInv
    <3>13. TodayInv'
      BY <3>1, <3>3, <3>7, <3>10, BlankSound, TodayKept DEF BackupInv, TodayInv
    <3>14. ReturnedBackupExists'
      BY <3>1, <3>2 DEF ReturnedBackupExists, At
    <3> QED
      BY <3>11, <3>12, <3>13, <3>14 DEF BackupInv
  <2>25. ASSUME FailRestore(p) PROVE BackupInv'
    <3>1. backups' = backups /\ taken' = taken /\ made' = made /\ held' = held
      BY <2>25 DEF FailRestore, counts, files, Fail
    <3>2. \A f \in Ids : Sound(held'[f])
      BY <3>1 DEF BackupInv, TodayInv
    <3> QED
      BY <2>25, <3>1, <3>2, LeaveBackups DEF FailRestore
  <2>26. ASSUME Crash(p) PROVE BackupInv'
    <3>1. backups' = backups /\ taken' = taken /\ made' = made /\ held' = held
      BY <2>26 DEF Crash, counts, files, Fail
    <3>2. \A f \in Ids : Sound(held'[f])
      BY <3>1 DEF BackupInv, TodayInv
    <3> QED
      BY <2>26, <3>1, <3>2, LeaveBackups DEF Crash
  <2>27. ASSUME FailUndo(p) PROVE BackupInv'
    <3>1. backups' = backups /\ taken' = taken /\ made' = made
      BY <2>27 DEF FailUndo
    <3>2. PICK back \in {0, proc[p].aside}, rows \in {{}, proc[p].asideLog} :
            held' = [f \in Ids |-> IF f = back
                      THEN [held[f] EXCEPT !.rows = @ \ (proc[p].asideLog \ rows)]
                      ELSE held[f]]
      BY <2>27 DEF FailUndo
    <3>3. \A f \in Ids : held[f] \in Contents /\ Sound(held[f])
      BY DEF TypesInv, RestOK, BackupInv, TodayInv
    <3>4. \A f \in Ids : held'[f].today = held[f].today
      BY <3>2, <3>3, SameToday
    <3>5. \A f \in Ids : Sound(held'[f])
      BY <3>3, <3>4 DEF Sound
    <3> QED
      BY <2>27, <3>1, <3>5, LeaveBackups DEF FailUndo
  <2> QED
    BY <1>2, <2>1, <2>2, <2>3, <2>4, <2>5, <2>6, <2>7, <2>8, <2>9, <2>10, <2>11, <2>12,
       <2>13, <2>14, <2>15, <2>16, <2>17, <2>18, <2>19, <2>20, <2>21, <2>22, <2>23, <2>24,
       <2>25, <2>26, <2>27 DEF Step, Trouble
<1> QED
  BY <1>1, <1>2 DEF Next

LEMMA InitBackups == Init => BackupInv
<1> SUFFICES ASSUME Init PROVE BackupInv
  OBVIOUS
<1>1. \A p \in Procs : proc[p].pc = "idle" /\ proc[p].data = Blank
  BY ImportingIs DEF Init
<1>2. /\ taken = {Empty} /\ backups = <<[id |-> 1, data |-> Empty]>> /\ made = 1
      /\ \A f \in Ids : held[f] \in {Empty, Blank}
  BY DEF Init
<1>3. DOMAIN backups = {1} /\ backups[1] = [id |-> 1, data |-> Empty]
  BY <1>2
<1>4. Sound(Empty) /\ Sound(Blank)
  BY <1>2, <1>3 DEF Sound, Empty, Blank
<1>5. KeptInv /\ OrderInv /\ ReturnedBackupExists
  BY <1>1, <1>2, <1>3 DEF KeptInv, OrderInv, ReturnedBackupExists, At
<1>6. TodayInv
  BY <1>1, <1>2, <1>3, <1>4 DEF TodayInv
<1> QED
  BY <1>5, <1>6 DEF BackupInv

LEMMA BackupsKept == Spec => [](TypesInv /\ BackupInv)
<1> QED
  BY InitTypes, NextTypes, InitBackups, NextBackups, PTL DEF Spec

(* Whatever fails and whoever dies: create_backup returns a file that is there
   and holds a snapshot. *)
THEOREM ReturnedIsThere == Spec => []ReturnedBackupExists
<1>1. BackupInv => ReturnedBackupExists
  BY DEF BackupInv
<1> QED
  BY <1>1, BackupsKept, PTL

(* Rotation and failing backups leave a snapshot. *)
THEOREM SnapshotStays == Spec => LastSnapshotStays
<1>1. BackupInv' => ((\E i \in DOMAIN backups : backups[i].data \in taken)
                       => (\E i \in DOMAIN backups' : backups'[i].data \in taken'))
  BY DEF BackupInv, KeptInv
<1> QED
  BY <1>1, BackupsKept, PTL DEF Spec, LastSnapshotStays

=============================================================================
