------------------------ MODULE TaskReminders_proofs ------------------------
(***************************************************************************)
(* Proofs about TaskReminders, for any tasks, reminders, executors and     *)
(* bounds.                                                                 *)
(***************************************************************************)
EXTENDS TaskReminders, FiniteSetTheorems, TLAPS

-----------------------------------------------------------------------------
(* The statements of the store keep the tables well formed. *)

\* The occurrences of the three kinds of rule are occurrences.
LEMMA OccKinds ==
    /\ DeadlineRules \subseteq Occs
    /\ OneTimeRules \subseteq Occs
    /\ WeeklyOccs \subseteq Occs
    /\ \A o \in DeadlineRules : TaskOf(o) \in Tasks /\ o[4] \in Int /\ o[3] \in 1..MaxGen
    /\ \A o \in WeeklyOccs : o[2] \in Int
<1>1. DeadlineRules \subseteq Occs /\ OneTimeRules \subseteq Occs /\ WeeklyOccs \subseteq Occs
  BY DEF Occs
<1>2. ASSUME NEW o \in DeadlineRules
      PROVE  TaskOf(o) \in Tasks /\ o[4] \in Int /\ o[3] \in 1..MaxGen
  <2>1. Offsets \subseteq Int
    BY StoreAssumption
  <2>2. PICK k \in {"deadline"}, t \in Tasks, g \in 1..MaxGen, off \in Offsets :
            o = <<k, t, g, off>>
    BY DEF DeadlineRules
  <2>3. QED
    BY <2>1, <2>2 DEF TaskOf
<1>3. ASSUME NEW o \in WeeklyOccs PROVE o[2] \in Int
  BY DEF WeeklyOccs
<1>4. QED
  BY <1>1, <1>2, <1>3

\* Due dates and instants are integers, and NULL is none of them.
LEMMA Instants == /\ Dues \subseteq Int /\ Time \subseteq Nat
                  /\ Nil \in Int /\ Nil \notin Nat
<1>1. Time \subseteq Nat
  BY StoreAssumption DEF Time
<1>2. Nil \in Int /\ Nil \notin Nat
  BY DEF Nil
<1>3. QED
  BY <1>1, <1>2, ExecAssumption

\* Inserting occurrences (_ensure_occurrence) keeps the table's type.
LEMMA EnsureOccsType ==
    ASSUME NEW oc \in OccTable, NEW S, NEW at \in [S -> Int]
    PROVE  EnsureOccs(oc, S, at) \in OccTable
  BY DEF EnsureOccs, OccTable, OccStatus

\* Inserting deliveries (_ensure_deliveries) keeps the table's type.
LEMMA EnsureDlvsType ==
    ASSUME NEW dl \in DlvTable, NEW D
    PROVE  EnsureDlvs(dl, D) \in DlvTable
  BY DEF EnsureDlvs, DlvTable, NewDlv, AbsentDlv, DlvStatus, ErrorCode, Time

\* A released row is a row.
LEMMA ReleasedType ==
    ASSUME NEW dl \in DlvTable, NEW d \in Dlvs, NEW status \in DlvStatus,
           NEW next \in Time \cup {Nil}, NEW code \in ErrorCode
    PROVE  Released(dl[d], status, next, code) \in
               [status : DlvStatus, attempts : Nat, token : Nat \cup {Nil},
                claimedAt : Time \cup {Nil}, nextAt : Time \cup {Nil}, error : ErrorCode]
  BY DEF Released, DlvTable

\* cancel_pending_for_task keeps the type of both tables.
LEMMA CancelType ==
    /\ \A oc \in OccTable : \A t : CancelTaskOccs(oc, t) \in OccTable
    /\ \A dl \in DlvTable : \A S : CancelDlvs(dl, S) \in DlvTable
<1>1. ASSUME NEW oc \in OccTable, NEW t PROVE CancelTaskOccs(oc, t) \in OccTable
  BY DEF CancelTaskOccs, OccTable, OccStatus
<1>2. ASSUME NEW dl \in DlvTable, NEW S PROVE CancelDlvs(dl, S) \in DlvTable
  <2>1. "skipped" \in DlvStatus /\ "cancelled" \in ErrorCode
    BY DEF DlvStatus, ErrorCode
  <2>2. QED
    BY <2>1, ReleasedType DEF CancelDlvs, DlvTable
<1>3. QED
  BY <1>1, <1>2

\* recover_expired_delivery_leases keeps the table's type.
LEMMA RecoverType ==
    ASSUME NEW dl \in DlvTable, NEW t
    PROVE  RecoverLeases(dl, t) \in DlvTable
  BY DEF RecoverLeases, DlvTable, DlvStatus

\* Skipping occurrences and deliveries (expire, coalesce) keeps the tables' type.
LEMMA SkipType ==
    /\ \A oc \in OccTable : \A S : SkipOccs(oc, S) \in OccTable
    /\ \A dl \in DlvTable : \A D : \A code \in ErrorCode : SkipDlvs(dl, D, code) \in DlvTable
<1>1. ASSUME NEW oc \in OccTable, NEW S PROVE SkipOccs(oc, S) \in OccTable
  BY DEF SkipOccs, OccTable, OccStatus
<1>2. ASSUME NEW dl \in DlvTable, NEW D, NEW code \in ErrorCode
      PROVE  SkipDlvs(dl, D, code) \in DlvTable
  <2>1. "skipped" \in DlvStatus
    BY DEF DlvStatus
  <2>2. QED
    BY <2>1, ReleasedType DEF SkipDlvs, DlvTable
<1>3. QED
  BY <1>1, <1>2

\* Claiming (_claim_due_deliveries) keeps the table's type.
LEMMA ClaimType ==
    ASSUME NEW dl \in DlvTable, NEW B, NEW t \in Time
    PROVE  ClaimDlvs(dl, B, t) \in DlvTable
<1>1. ASSUME NEW d \in Dlvs PROVE dl[d].attempts + 1 \in Nat
  BY DEF DlvTable
<1>2. QED
  BY <1>1 DEF ClaimDlvs, DlvTable, DlvStatus

\* _retry_time answers an instant within the horizon, or none.
LEMMA RetryAtType ==
    ASSUME NEW result, NEW attempt, NEW t \in Time
    PROVE  RetryAt(result, attempt, t) \in Time \cup {Nil}
  BY StoreAssumption DEF RetryAt, Time

\* The row a result leaves is final or waits for its retry.
LEMMA ResultType ==
    ASSUME NEW dl \in DlvTable, NEW d \in Dlvs, NEW result, NEW attempt, NEW t \in Time
    PROVE  [dl EXCEPT ![d] = Result(dl[d], result, attempt, t)] \in DlvTable
<1>1. {"sent", "failed", "pending"} \subseteq DlvStatus /\ {"none", "error"} \subseteq ErrorCode
  BY DEF DlvStatus, ErrorCode
<1>2. RetryAt(result, attempt, t) \in Time \cup {Nil}
  BY RetryAtType
<1>3. Result(dl[d], result, attempt, t) \in
          [status : DlvStatus, attempts : Nat, token : Nat \cup {Nil},
           claimedAt : Time \cup {Nil}, nextAt : Time \cup {Nil}, error : ErrorCode]
  BY <1>1, <1>2, ReleasedType DEF Result
<1>4. QED
  BY <1>3 DEF DlvTable

\* _settle_terminal_occurrence keeps the table's type.
LEMMA SettleType ==
    ASSUME NEW oc \in OccTable, NEW dl, NEW o \in Occs
    PROVE  Settle(oc, dl, o) \in OccTable
  BY DEF Settle, OccTable, OccStatus

-----------------------------------------------------------------------------
(* Type correctness *)

\* claim_due computes an instant for each occurrence it asks for.
LEMMA CheckpointType ==
    ASSUME TypeOK
    PROVE  [o \in WantedNow |-> Checkpoint(task, o)] \in [WantedNow -> Int]
<1> SUFFICES ASSUME NEW o \in WantedNow PROVE Checkpoint(task, o) \in Int
  OBVIOUS
<1>1. CASE o \in WeeklyOccs
  <2>1. o[2] \in Int /\ DayLength \in Int /\ WeeklyAt \in Int
    BY <1>1, OccKinds, StoreAssumption
  <2>2. QED
    BY <1>1, <2>1 DEF Checkpoint
<1>2. CASE o \in DeadlineRules /\ o \notin WeeklyOccs
  <2>1. TaskOf(o) \in Tasks /\ o[4] \in Int
    BY <1>2, OccKinds
  <2>2. task[TaskOf(o)].due \in Int
    <3>1. task[TaskOf(o)].due \in Dues \cup {Nil}
      BY <2>1 DEF TypeOK
    <3>2. QED
      BY <3>1, Instants
  <2>3. QED
    BY <1>2, <2>1, <2>2 DEF Checkpoint
<1>3. QED
  BY <1>1, <1>2 DEF WantedNow, Wanted

\* What claim_due selects from are tables, at every stage of the transaction.
LEMMA StagesType ==
    ASSUME TypeOK
    PROVE  /\ GenOccs \in OccTable /\ LiveOccs \in OccTable
           /\ GenDlvs \in DlvTable /\ LiveDlvs \in DlvTable
           /\ \A c : MergedOccs(c) \in OccTable /\ MergedDlvs(c) \in DlvTable
<1>2. GenOccs \in OccTable
  BY CheckpointType, EnsureOccsType DEF GenOccs, TypeOK
<1>3. EnsureDlvs(dlv, WantedNow \X Channels) \in DlvTable
  BY EnsureDlvsType DEF TypeOK
<1>4. GenDlvs \in DlvTable
  BY <1>3, RecoverType DEF GenDlvs
<1>5. {"expired", "coalesced"} \subseteq ErrorCode
  BY DEF ErrorCode
<1>6. LiveOccs \in OccTable /\ LiveDlvs \in DlvTable
  BY <1>2, <1>4, <1>5, SkipType DEF LiveOccs, LiveDlvs
<1>7. ASSUME NEW c PROVE MergedOccs(c) \in OccTable /\ MergedDlvs(c) \in DlvTable
  BY <1>5, <1>6, SkipType DEF MergedOccs, MergedDlvs
<1>8. QED
  BY <1>2, <1>4, <1>6, <1>7

\* Writing a task and its reminders keeps every table's type.
LEMMA WriteTaskType ==
    ASSUME TypeOK, NEW t \in Tasks,
           NEW row \in [status : TaskStatus, due : Dues \cup {Nil}], NEW remind \in BOOLEAN,
           NEW oc \in OccTable, NEW dl \in DlvTable, NEW en \in SUBSET Rules,
           WriteTask(t, row, remind, oc, dl, en)
    PROVE  TypeOK'
<1> DEFINE make == remind /\ row.status = "pending" /\ row.due # Nil /\ row.due > now
           new == IF make THEN {r \in RulesOf(t) : r[3] = gen[t] + 1} ELSE {}
           ahead == {o \in new : row.due + o[4] > now}
<1>1. new \subseteq DeadlineRules
  BY DEF RulesOf
<1>2. [o \in ahead |-> row.due + o[4]] \in [ahead -> Int]
  <2>1. \A o \in ahead : o[4] \in Int
    BY <1>1, OccKinds
  <2>2. row.due \in Int
    <3>1. row.due \in Dues \cup {Nil}
      OBVIOUS
    <3>2. QED
      BY <3>1, Instants
  <2>3. QED
    BY <2>1, <2>2
<1>3. occ' \in OccTable
  BY <1>2, EnsureOccsType DEF WriteTask
<1>4. dlv' \in DlvTable
  BY EnsureDlvsType DEF WriteTask
<1>5. enabled' \subseteq Rules
  <2>1. enabled' = en \cup new
    BY DEF WriteTask
  <2>2. QED
    BY <1>1, <2>1 DEF Rules
<1>6. task' \in [Tasks -> [status : TaskStatus, due : Dues \cup {Nil}]]
  BY DEF WriteTask, TypeOK
<1>7. gen' \in [Tasks -> 0..MaxGen]
  <2>1. gen' = IF make THEN [gen EXCEPT ![t] = gen[t] + 1] ELSE gen
    BY DEF WriteTask
  <2>2. make => gen[t] < MaxGen
    BY DEF WriteTask
  <2>3. gen[t] \in 0..MaxGen /\ MaxGen \in Nat
    BY StoreAssumption DEF TypeOK
  <2>4. QED
    BY <2>1, <2>2, <2>3 DEF TypeOK
<1>8. QED
  BY <1>3, <1>4, <1>5, <1>6, <1>7 DEF WriteTask, TypeOK

\* Killing executors keeps the types of what it writes.
LEMMA KillType ==
    ASSUME TypeOK, NEW K \in SUBSET Execs, Kill(K)
    PROVE  /\ crashes' \in 0..MaxCrashes
           /\ exec' \in [Execs -> Run]
           /\ lost' \in [Dlvs -> Nat]
<1>1. Cardinality(K) \in Nat
  BY ExecAssumption, FS_Subset, FS_CardinalityType
<1>2. crashes' \in 0..MaxCrashes
  BY <1>1, ExecAssumption DEF Kill, TypeOK
<1>3. Idle \in Run
  BY DEF Idle, Run, SendResult
<1>4. QED
  BY <1>2, <1>3 DEF Kill, TypeOK

\* Claiming due deliveries keeps every type.
LEMMA ClaimDueType ==
    ASSUME TypeOK, NEW e \in Execs, ClaimDue(e)
    PROVE  TypeOK'
<1> DEFINE c == ChannelOf(e)
           dl == MergedDlvs(c)
<1>1. MergedOccs(c) \in OccTable /\ dl \in DlvTable
  BY StagesType
<1>2. PICK B \in Earliest(Claimable(MergedOccs(c), dl, c, now), MergedOccs(c), LimitOf(e)) :
          /\ dlv' = ClaimDlvs(dl, B, now)
          /\ exec' = [exec EXCEPT ![e] =
                 IF B = {} THEN Idle
                 ELSE [started |-> now, inflight |-> {}, result |-> "ok",
                       batch |-> {[id |-> d, token |-> dl[d].attempts + 1] : d \in B}]]
  BY DEF ClaimDue
<1>3. B \subseteq Dlvs
  BY DEF Earliest, Claimable
<1>4. \A d \in B : dl[d].attempts + 1 \in Nat
  <2>1. \A d \in B : dl[d].attempts \in Nat
    BY <1>1, <1>3 DEF DlvTable
  <2>2. QED
    BY <2>1
<1>5. {[id |-> d, token |-> dl[d].attempts + 1] : d \in B} \subseteq Claim
  BY <1>3, <1>4 DEF Claim
<1>6. now \in Time
  BY DEF TypeOK
<1>7. [started |-> now, inflight |-> {}, result |-> "ok",
       batch |-> {[id |-> d, token |-> dl[d].attempts + 1] : d \in B}] \in Run
  BY <1>5, <1>6 DEF Run, SendResult
<1>8. Idle \in Run
  BY DEF Idle, Run, SendResult
<1>9. exec' \in [Execs -> Run]
  BY <1>2, <1>7, <1>8 DEF TypeOK
<1>10. dlv' \in DlvTable
  BY <1>1, <1>2, <1>6, ClaimType
<1>11. occ' \in OccTable
  BY <1>1 DEF ClaimDue
<1>12. QED
  BY <1>9, <1>10, <1>11 DEF ClaimDue, TypeOK

\* Sending keeps every type.
LEMMA SendType ==
    ASSUME TypeOK, NEW e \in Execs, Send(e)
    PROVE  TypeOK'
<1>1. PICK c \in exec[e].batch, result \in SendResult, out \in BOOLEAN :
          /\ result = "ok" => out
          /\ exec' = [exec EXCEPT ![e].inflight = {c}, ![e].result = result]
          /\ sends' = IF out THEN [sends EXCEPT ![c.id] = sends[c.id] + 1] ELSE sends
          /\ lost' = IF out /\ result # "ok" THEN [lost EXCEPT ![c.id] = lost[c.id] + 1]
                                            ELSE lost
  BY DEF Send
<1>2. c \in Claim /\ c.id \in Dlvs
  BY DEF TypeOK, Run, Claim
<1>3. exec' \in [Execs -> Run]
  BY <1>1, <1>2 DEF TypeOK, Run
<1>4. sends' \in [Dlvs -> Nat] /\ lost' \in [Dlvs -> Nat]
  BY <1>1, <1>2 DEF TypeOK
<1>5. QED
  BY <1>3, <1>4 DEF Send, tables, TypeOK

\* Recording a result keeps every type.
LEMMA MarkType ==
    ASSUME TypeOK, NEW e \in Execs, Mark(e)
    PROVE  TypeOK'
<1>1. PICK c \in exec[e].inflight :
       LET holds == Holds(dlv[c.id], c)
           row == Result(dlv[c.id], exec[e].result, c.token, now)
           rest == exec[e].batch \ {c}
       IN /\ dlv' = IF holds THEN [dlv EXCEPT ![c.id] = row] ELSE dlv
          /\ occ' = IF holds /\ row.status \in Final THEN Settle(occ, dlv', c.id[1]) ELSE occ
          /\ exec' = [exec EXCEPT ![e] =
                 IF rest = {} THEN Idle
                 ELSE [exec[e] EXCEPT !.batch = rest, !.inflight = {}, !.result = "ok"]]
          /\ UNCHANGED <<now, task, gen, enabled, sends, lost, crashes>>
  BY DEF Mark
<1>2. c \in Claim /\ c.id \in Dlvs /\ c.id[1] \in Occs
  BY DEF TypeOK, Run, Claim, Dlvs
<1>3. now \in Time /\ occ \in OccTable /\ dlv \in DlvTable /\ exec[e] \in Run
  BY DEF TypeOK
<1>4. dlv' \in DlvTable
  BY <1>1, <1>2, <1>3, ResultType
<1>5. occ' \in OccTable
  BY <1>1, <1>2, <1>3, SettleType
<1>6. exec' \in [Execs -> Run]
  <2>1. Idle \in Run
    BY DEF Idle, Run, SendResult
  <2>2. [exec[e] EXCEPT !.batch = exec[e].batch \ {c}, !.inflight = {}, !.result = "ok"] \in Run
    BY <1>3 DEF Run, SendResult
  <2>3. QED
    BY <1>1, <2>1, <2>2 DEF TypeOK
<1>7. QED
  BY <1>1, <1>4, <1>5, <1>6 DEF TypeOK

\* Withdrawing and rewriting a task's reminders keeps every type.
LEMMA ReplaceType ==
    ASSUME TypeOK, NEW t \in Tasks,
           NEW row \in [status : TaskStatus, due : Dues \cup {Nil}], NEW remind \in BOOLEAN,
           Replace(t, row, remind)
    PROVE  TypeOK'
<1>1. CancelTaskOccs(occ, t) \in OccTable /\ CancelDlvs(dlv, RulesOf(t)) \in DlvTable
  BY CancelType DEF TypeOK
<1>2. enabled \ RulesOf(t) \in SUBSET Rules
  BY DEF TypeOK
<1>3. QED
  BY <1>1, <1>2, WriteTaskType DEF Replace

\* Every step of TaskService keeps every type.
LEMMA TaskStepType ==
    ASSUME TypeOK, NEW t \in Tasks,
           CreateTask(t) \/ UpdateDue(t) \/ CompleteTask(t) \/ CancelTask(t) \/ ReopenTask(t)
    PROVE  TypeOK'
<1> DEFINE TaskRow == [status : TaskStatus, due : Dues \cup {Nil}]
<1>1. task[t] \in TaskRow
  BY DEF TypeOK
<1>2. CASE CreateTask(t)
  <2>1. PICK due \in Dues \cup {Nil} :
            WriteTask(t, [status |-> "pending", due |-> due], TRUE, occ, dlv, enabled)
    BY <1>2 DEF CreateTask
  <2>2. [status |-> "pending", due |-> due] \in TaskRow
    BY DEF TaskStatus
  <2>3. occ \in OccTable /\ dlv \in DlvTable /\ enabled \in SUBSET Rules
    BY DEF TypeOK
  <2>4. QED
    BY <2>1, <2>2, <2>3, WriteTaskType
<1>3. CASE UpdateDue(t)
  <2>1. PICK due \in Dues \cup {Nil} : Replace(t, [task[t] EXCEPT !.due = due], TRUE)
    BY <1>3 DEF UpdateDue
  <2>2. [task[t] EXCEPT !.due = due] \in TaskRow
    BY <1>1
  <2>3. QED
    BY <2>1, <2>2, ReplaceType
<1>4. \A status \in TaskStatus : [task[t] EXCEPT !.status = status] \in TaskRow
  BY <1>1
<1>5. {"pending", "completed", "cancelled"} \subseteq TaskStatus
  BY DEF TaskStatus
<1>6. CASE CompleteTask(t)
  BY <1>4, <1>5, <1>6, ReplaceType DEF CompleteTask
<1>7. CASE CancelTask(t)
  BY <1>4, <1>5, <1>7, ReplaceType DEF CancelTask
<1>8. CASE ReopenTask(t)
  BY <1>4, <1>5, <1>8, ReplaceType DEF ReopenTask
<1>9. QED
  BY <1>2, <1>3, <1>6, <1>7, <1>8

\* The steps of the one-time adapter and of the weekly rule keep every type.
LEMMA RuleStepType ==
    ASSUME TypeOK, OneTimeStep \/ EnsureStockRule
    PROVE  TypeOK'
<1>1. ASSUME NEW r \in OneTimeRules, CreateOneTime(r) PROVE TypeOK'
  <2>1. PICK at \in Time, cs \in (SUBSET Channels) \ {{}} :
            /\ occ' = EnsureOccs(occ, {r}, [o \in {r} |-> at])
            /\ dlv' = EnsureDlvs(dlv, {r} \X cs)
    BY <1>1 DEF CreateOneTime
  <2>2. [o \in {r} |-> at] \in [{r} -> Int]
    BY Instants
  <2>3. occ' \in OccTable
    BY <2>1, <2>2, EnsureOccsType DEF TypeOK
  <2>4. dlv' \in DlvTable
    BY <2>1, EnsureDlvsType DEF TypeOK
  <2>5. enabled' \subseteq Rules
    BY <1>1 DEF CreateOneTime, TypeOK, Rules
  <2>6. QED
    BY <1>1, <2>3, <2>4, <2>5 DEF CreateOneTime, TypeOK
<1>2. ASSUME NEW r \in OneTimeRules, CancelOneTime(r) PROVE TypeOK'
  <2>1. r \in Occs
    BY OccKinds
  <2>2. occ' \in OccTable
    BY <1>2, <2>1 DEF CancelOneTime, TypeOK, OccTable, OccStatus
  <2>3. dlv' \in DlvTable
    BY <1>2, CancelType DEF CancelOneTime, TypeOK
  <2>4. QED
    BY <1>2, <2>2, <2>3 DEF CancelOneTime, TypeOK
<1>3. CASE EnsureStockRule
  BY <1>3 DEF EnsureStockRule, TypeOK, Rules
<1>4. QED
  BY <1>1, <1>2, <1>3 DEF OneTimeStep

\* Every table, batch and history keeps the type it is declared with.
THEOREM TypeCorrect == Spec => []TypeOK
<1>1. Init => TypeOK
  <2> SUFFICES ASSUME Init PROVE TypeOK
    OBVIOUS
  <2>1. now \in Time /\ crashes \in 0..MaxCrashes
    BY StoreAssumption, ExecAssumption DEF Init, Time
  <2>2. gen \in [Tasks -> 0..MaxGen]
    BY StoreAssumption DEF Init
  <2>3. task \in [Tasks -> [status : TaskStatus, due : Dues \cup {Nil}]]
    BY DEF Init, TaskStatus
  <2>4. occ \in OccTable /\ dlv \in DlvTable
    BY DEF Init, OccTable, DlvTable, AbsentOcc, AbsentDlv, OccStatus, DlvStatus, ErrorCode
  <2>5. exec \in [Execs -> Run]
    BY DEF Init, Idle, Run, SendResult
  <2>6. QED
    BY <2>1, <2>2, <2>3, <2>4, <2>5 DEF Init, TypeOK
<1>2. TypeOK /\ [Next]_vars => TypeOK'
  <2> SUFFICES ASSUME TypeOK, [Next]_vars PROVE TypeOK'
    OBVIOUS
  <2>1. CASE TaskStep
    BY <2>1, TaskStepType DEF TaskStep
  <2>2. CASE OneTimeStep \/ EnsureStockRule
    BY <2>2, RuleStepType
  <2>3. ASSUME NEW e \in Execs, ClaimDue(e) \/ Send(e) \/ Mark(e) PROVE TypeOK'
    BY <2>3, ClaimDueType, SendType, MarkType
  <2>4. ASSUME NEW e \in Execs, Crash(e) PROVE TypeOK'
    BY <2>4, KillType DEF Crash, tables, TypeOK
  <2>5. CASE Tick
    <3>1. now' \in Time
      BY <2>5, StoreAssumption DEF Tick, TypeOK, Time
    <3>2. Expiring \in SUBSET Execs
      BY DEF Expiring
    <3>3. QED
      BY <2>5, <3>1, <3>2, KillType DEF Tick, tables, TypeOK
  <2>6. CASE UNCHANGED vars
    BY <2>6 DEF vars, TypeOK
  <2>7. QED
    BY <2>1, <2>2, <2>3, <2>4, <2>5, <2>6 DEF Next, ExecStep
<1>3. QED
  BY <1>1, <1>2, PTL DEF Spec
=============================================================================
