------------------------ MODULE TaskReminders_current ------------------------
(***************************************************************************)
(* What waits to be sent is true of its task, nothing that waits is out of *)
(* reach, merging keeps the latest reminder of a task and only that, and   *)
(* what is completed was sent, for any tasks, reminders, executors and     *)
(* bounds.                                                                 *)
(***************************************************************************)
EXTENDS TaskReminders_once, WellFoundedInduction

-----------------------------------------------------------------------------
(* The inductive invariant *)

\* Occurrences and deliveries agree: of any but the weekly rule, an occurrence with a
\* channel still to send is pending, and one that does not exist has no deliveries; a
\* deadline occurrence has them on both channels.
Paired(oc, dl) ==
    /\ \A o \in Occs \ WeeklyOccs : \A c \in Channels :
          /\ dl[<<o, c>>].status \in Active => oc[o].status = "pending"
          /\ oc[o].status = "absent" => dl[<<o, c>>].status = "absent"
    /\ \A o \in DeadlineRules : \A c \in Channels :
          oc[o].status # "absent" => dl[<<o, c>>].status # "absent"

\* The default rules and their occurrences agree with the tasks: a generation that was
\* not given has left no trace, an enabled rule belongs to a pending task with a due_at
\* and its occurrence lies at its offset, and only enabled rules have one pending.
RulesCurrent(tk, gn, en, oc) ==
    \A o \in DeadlineRules :
        /\ o[3] > gn[TaskOf(o)] => o \notin en /\ oc[o].status = "absent"
        /\ o \in en => /\ tk[TaskOf(o)].status = "pending"
                       /\ tk[TaskOf(o)].due # Nil
                       /\ oc[o].status # "absent" => oc[o].at = tk[TaskOf(o)].due + o[4]
        /\ oc[o].status = "pending" => o \in en

CurrentInv == Paired(occ, dlv) /\ RulesCurrent(task, gen, enabled, occ)

-----------------------------------------------------------------------------
(* Names *)

\* The three kinds of occurrence have different names, and a delivery is named by its
\* occurrence and its channel.
LEMMA KindsDiffer ==
    /\ DeadlineRules \cap WeeklyOccs = {}
    /\ OneTimeRules \cap WeeklyOccs = {}
    /\ DeadlineRules \cap OneTimeRules = {}
    /\ WeeklyRule \notin DeadlineRules
<1>1. \A o \in DeadlineRules : o[1] = "deadline"
  BY DEF DeadlineRules
<1>2. \A o \in OneTimeRules : o[1] = "one_time"
  BY DEF OneTimeRules
<1>3. \A o \in WeeklyOccs : o[1] = "weekly"
  BY DEF WeeklyOccs
<1>4. WeeklyRule[1] = "weekly"
  BY DEF WeeklyRule
<1>5. QED
  BY <1>1, <1>2, <1>3, <1>4

\* A channel of an occurrence is a delivery.
LEMMA DlvNames ==
    ASSUME NEW o \in Occs, NEW c \in Channels
    PROVE  /\ <<o, c>> \in Dlvs /\ <<o, c>>[1] = o /\ <<o, c>>[2] = c
           /\ \A S : <<o, c>> \in S \X Channels <=> o \in S
  BY DEF Dlvs

-----------------------------------------------------------------------------
(* The statements of the store keep occurrences and deliveries paired *)

\* Inserting an occurrence with all its channels.
LEMMA EnsurePaired ==
    ASSUME NEW oc \in OccTable, NEW dl \in DlvTable, Paired(oc, dl),
           NEW S \in SUBSET (DeadlineRules \cup WeeklyOccs), NEW at \in [S -> Int]
    PROVE  Paired(EnsureOccs(oc, S, at), EnsureDlvs(dl, S \X Channels))
<1> DEFINE oc1 == EnsureOccs(oc, S, at)
           dl1 == EnsureDlvs(dl, S \X Channels)
<1>1. ASSUME NEW o \in Occs, NEW c \in Channels
      PROVE  /\ o \notin S => oc1[o] = oc[o] /\ dl1[<<o, c>>] = dl[<<o, c>>]
             /\ oc[o].status # "absent" => oc1[o] = oc[o]
             /\ dl[<<o, c>>].status # "absent" => dl1[<<o, c>>] = dl[<<o, c>>]
             /\ o \in S /\ oc[o].status = "absent" => oc1[o].status = "pending"
             /\ o \in S /\ dl[<<o, c>>].status = "absent" => dl1[<<o, c>>].status = "pending"
  <2>1. dl1[<<o, c>>] = IF o \in S /\ dl[<<o, c>>].status = "absent" THEN NewDlv
                                                                    ELSE dl[<<o, c>>]
    BY DlvNames DEF EnsureDlvs
  <2>2. NewDlv.status = "pending"
    BY DEF NewDlv, AbsentDlv
  <2>3. QED
    BY <2>1, <2>2 DEF EnsureOccs
<1> HIDE DEF oc1, dl1
<1>2. ASSUME NEW o \in Occs \ WeeklyOccs, NEW c \in Channels
      PROVE  \/ oc1[o] = oc[o] /\ dl1[<<o, c>>] = dl[<<o, c>>]
             \/ oc1[o].status = "pending" /\ dl1[<<o, c>>].status = "pending"
  <2>1. CASE o \notin S
    BY <1>1, <2>1
  <2>2. CASE o \in S
    <3>1. o \in DeadlineRules
      BY <2>2
    <3>2. oc[o].status = "absent" <=> dl[<<o, c>>].status = "absent"
      BY <3>1 DEF Paired
    <3>3. QED
      BY <1>1, <2>2, <3>2
  <2>3. QED
    BY <2>1, <2>2
<1>3. DeadlineRules \subseteq Occs \ WeeklyOccs
  BY OccKinds, KindsDiffer
<1>4. ASSUME NEW o \in Occs \ WeeklyOccs, NEW c \in Channels
      PROVE  /\ dl1[<<o, c>>].status \in Active => oc1[o].status = "pending"
             /\ oc1[o].status = "absent" => dl1[<<o, c>>].status = "absent"
  BY <1>2 DEF Paired
<1>5. ASSUME NEW o \in DeadlineRules, NEW c \in Channels, oc1[o].status # "absent"
      PROVE  dl1[<<o, c>>].status # "absent"
  BY <1>2, <1>3, <1>5 DEF Paired
<1>6. Paired(oc1, dl1)
  BY <1>4, <1>5 DEF Paired
<1>7. QED
  BY <1>6 DEF oc1, dl1

\* A statement that changes deliveries alone keeps the pairing when it makes no delivery
\* appear or vanish, and activates none.
LEMMA DlvsPaired ==
    ASSUME NEW oc, NEW dl, NEW dl1, Paired(oc, dl),
           \A d \in Dlvs : /\ dl1[d].status = "absent" <=> dl[d].status = "absent"
                           /\ dl1[d].status \in Active => dl[d].status \in Active
    PROVE  Paired(oc, dl1)
<1>1. \A o \in Occs : \A c \in Channels : <<o, c>> \in Dlvs
  BY DlvNames
<1>2. QED
  BY <1>1, OccKinds DEF Paired

\* A statement that ends pending occurrences keeps it when nothing of them is active.
LEMMA OccsPaired ==
    ASSUME NEW oc, NEW dl, NEW oc1, Paired(oc, dl),
           \A o \in Occs : \/ oc1[o] = oc[o]
                           \/ o \in WeeklyOccs
                           \/ /\ oc[o].status # "absent" /\ oc1[o].status # "absent"
                              /\ \A c \in Channels : dl[<<o, c>>].status \notin Active
    PROVE  Paired(oc1, dl)
<1>1. DeadlineRules \subseteq Occs /\ \A o \in DeadlineRules : o \notin WeeklyOccs
  BY OccKinds, KindsDiffer
<1>2. QED
  BY <1>1 DEF Paired

\* Recovering leases, skipping, claiming: the rows they touch exist and stay.
LEMMA RowStatements ==
    ASSUME NEW dl \in DlvTable, NEW d \in Dlvs
    PROVE  /\ \A t : LET row == RecoverLeases(dl, t)[d]
                     IN /\ row.status = "absent" <=> dl[d].status = "absent"
                        /\ row.status \in Active => dl[d].status \in Active
           /\ \A D, code : LET row == SkipDlvs(dl, D, code)[d]
                           IN /\ row.status = "absent" <=> dl[d].status = "absent"
                              /\ row.status \in Active => dl[d].status \in Active
           /\ \A B, t : (\A b \in B : dl[b].status = "pending")
                  => LET row == ClaimDlvs(dl, B, t)[d]
                     IN /\ row.status = "absent" <=> dl[d].status = "absent"
                        /\ row.status \in Active => dl[d].status \in Active
           /\ \A S : LET row == CancelDlvs(dl, S)[d]
                     IN /\ row.status = "absent" <=> dl[d].status = "absent"
                        /\ row.status \in Active => dl[d].status \in Active /\ d[1] \notin S
<1>1. ASSUME NEW t
      PROVE  LET row == RecoverLeases(dl, t)[d]
             IN /\ row.status = "absent" <=> dl[d].status = "absent"
                /\ row.status \in Active => dl[d].status \in Active
  BY DEF RecoverLeases, DlvTable, Active
<1>2. ASSUME NEW D, NEW code
      PROVE  LET row == SkipDlvs(dl, D, code)[d]
             IN /\ row.status = "absent" <=> dl[d].status = "absent"
                /\ row.status \in Active => dl[d].status \in Active
  BY DEF SkipDlvs, Released, DlvTable, Active
<1>3. ASSUME NEW B, NEW t, \A b \in B : dl[b].status = "pending"
      PROVE  LET row == ClaimDlvs(dl, B, t)[d]
             IN /\ row.status = "absent" <=> dl[d].status = "absent"
                /\ row.status \in Active => dl[d].status \in Active
  BY <1>3 DEF ClaimDlvs, DlvTable, Active
<1>4. ASSUME NEW S
      PROVE  LET row == CancelDlvs(dl, S)[d]
             IN /\ row.status = "absent" <=> dl[d].status = "absent"
                /\ row.status \in Active => dl[d].status \in Active /\ d[1] \notin S
  BY DEF CancelDlvs, Released, DlvTable, Active
<1>5. QED
  BY <1>1, <1>2, <1>3, <1>4

-----------------------------------------------------------------------------
(* claim_due *)

\* The transaction leaves occurrences and deliveries paired.
LEMMA StagesPaired ==
    ASSUME TypeOK, Paired(occ, dlv), NEW c
    PROVE  Paired(MergedOccs(c), MergedDlvs(c))
<1> DEFINE dl1 == EnsureDlvs(dlv, WantedNow \X Channels)
           at == [o \in WantedNow |-> Checkpoint(task, o)]
<1>1. /\ occ \in OccTable /\ GenOccs \in OccTable /\ LiveOccs \in OccTable
      /\ dlv \in DlvTable /\ dl1 \in DlvTable
      /\ GenDlvs \in DlvTable /\ LiveDlvs \in DlvTable /\ MergedDlvs(c) \in DlvTable
  BY StagesType, EnsureDlvsType DEF TypeOK
<1>2. WantedNow \in SUBSET (DeadlineRules \cup WeeklyOccs)
  BY DEF WantedNow, Wanted
<1>3. Paired(GenOccs, dl1)
  BY <1>1, <1>2, CheckpointType, EnsurePaired DEF GenOccs
<1>4. Paired(GenOccs, GenDlvs)
  BY <1>1, <1>3, RowStatements, DlvsPaired DEF GenDlvs
<1>5. Overdue(GenOccs, now) \subseteq WeeklyOccs
  BY DEF Overdue
<1>6. Paired(LiveOccs, GenDlvs)
  BY <1>1, <1>4, <1>5, SkippedOcc, OccsPaired DEF LiveOccs
<1>7. Paired(LiveOccs, LiveDlvs)
  BY <1>1, <1>6, RowStatements, DlvsPaired DEF LiveDlvs
<1>8. Paired(LiveOccs, MergedDlvs(c))
  BY <1>1, <1>7, RowStatements, DlvsPaired DEF MergedDlvs
<1>9. ASSUME NEW o \in Occs
      PROVE  \/ MergedOccs(c)[o] = LiveOccs[o]
             \/ /\ LiveOccs[o].status # "absent" /\ MergedOccs(c)[o].status # "absent"
                /\ \A ch \in Channels : MergedDlvs(c)[<<o, ch>>].status \notin Active
  BY <1>1, SkippedOcc DEF MergedOccs, Drained
<1>10. QED
  BY <1>8, <1>9, OccsPaired

\* It generates occurrences where the rules say, and otherwise only ends them.
LEMMA StagesCurrent ==
    ASSUME TypeOK, RulesCurrent(task, gen, enabled, occ), NEW c
    PROVE  RulesCurrent(task, gen, enabled, MergedOccs(c))
<1>1. occ \in OccTable /\ GenOccs \in OccTable /\ LiveOccs \in OccTable
  BY StagesType DEF TypeOK
<1> SUFFICES ASSUME NEW o \in DeadlineRules
             PROVE  LET oc == MergedOccs(c)
                    IN /\ o[3] > gen[TaskOf(o)] => o \notin enabled /\ oc[o].status = "absent"
                       /\ o \in enabled => /\ task[TaskOf(o)].status = "pending"
                                           /\ task[TaskOf(o)].due # Nil
                                           /\ oc[o].status # "absent"
                                                => oc[o].at = task[TaskOf(o)].due + o[4]
                       /\ oc[o].status = "pending" => o \in enabled
  BY DEF RulesCurrent
<1>2. o \in Occs /\ o \notin WeeklyOccs
  BY OccKinds, KindsDiffer
<1>3. o \in WantedNow => o \in enabled
  BY <1>2 DEF WantedNow, Wanted
<1>4. GenOccs[o] = IF o \in WantedNow /\ occ[o].status = "absent"
                   THEN [status |-> "pending", at |-> task[TaskOf(o)].due + o[4]] ELSE occ[o]
  BY <1>2 DEF GenOccs, EnsureOccs, Checkpoint
<1>5. \/ LiveOccs[o] = GenOccs[o]
      \/ /\ GenOccs[o].status = "pending" /\ LiveOccs[o].status = "skipped"
         /\ LiveOccs[o].at = GenOccs[o].at
  BY <1>1, <1>2, SkippedOcc DEF LiveOccs
<1>6. \/ MergedOccs(c)[o] = LiveOccs[o]
      \/ /\ LiveOccs[o].status = "pending" /\ MergedOccs(c)[o].status = "skipped"
         /\ MergedOccs(c)[o].at = LiveOccs[o].at
  BY <1>1, <1>2, SkippedOcc DEF MergedOccs
<1>7. QED
  BY <1>3, <1>4, <1>5, <1>6 DEF RulesCurrent

\* So does the whole of claim_due, which ends by claiming pending rows.
LEMMA CurrentClaim ==
    ASSUME TypeOK, CurrentInv, NEW e \in Execs, ClaimDue(e)
    PROVE  CurrentInv'
<1> DEFINE c == ChannelOf(e)
<1>1. PICK B \in Earliest(Claimable(MergedOccs(c), MergedDlvs(c), c, now),
                          MergedOccs(c), LimitOf(e)) :
          dlv' = ClaimDlvs(MergedDlvs(c), B, now)
  BY DEF ClaimDue
<1>2. occ' = MergedOccs(c) /\ UNCHANGED <<task, gen, enabled>>
  BY DEF ClaimDue
<1>3. \A b \in B : MergedDlvs(c)[b].status = "pending"
  BY DEF Earliest, Claimable
<1>4. MergedDlvs(c) \in DlvTable
  BY StagesType
<1>5. Paired(occ', dlv')
  BY <1>1, <1>2, <1>3, <1>4, StagesPaired, RowStatements, DlvsPaired DEF CurrentInv
<1>6. RulesCurrent(task', gen', enabled', occ')
  BY <1>2, StagesCurrent DEF CurrentInv
<1>7. QED
  BY <1>5, <1>6 DEF CurrentInv

-----------------------------------------------------------------------------
(* TaskService *)

\* Task t has nothing waiting and no enabled rule in the tables oc, dl and en, which
\* agree with the present ones on every other occurrence.
Withdrawn(t, oc, dl, en) ==
    /\ Paired(oc, dl)
    /\ \A o \in DeadlineRules :
          IF TaskOf(o) = t
          THEN /\ o \notin en
               /\ oc[o].status # "pending"
               /\ o[3] > gen[t] => oc[o].status = "absent"
          ELSE oc[o] = occ[o] /\ (o \in en <=> o \in enabled)

\* Writing a task that was withdrawn, with its new generation of reminders.
LEMMA WriteCurrent ==
    ASSUME TypeOK, CurrentInv, NEW t \in Tasks,
           NEW row \in [status : TaskStatus, due : Dues \cup {Nil}], NEW remind \in BOOLEAN,
           NEW oc \in OccTable, NEW dl \in DlvTable, NEW en,
           Withdrawn(t, oc, dl, en), WriteTask(t, row, remind, oc, dl, en)
    PROVE  CurrentInv'
<1> DEFINE make == remind /\ row.status = "pending" /\ row.due # Nil /\ row.due > now
           new == IF make THEN {r \in RulesOf(t) : r[3] = gen[t] + 1} ELSE {}
           ahead == {o \in new : row.due + o[4] > now}
           at == [o \in ahead |-> row.due + o[4]]
<1>1. /\ task' = [task EXCEPT ![t] = row]
      /\ gen' = IF make THEN [gen EXCEPT ![t] = gen[t] + 1] ELSE gen
      /\ enabled' = en \cup new
      /\ occ' = EnsureOccs(oc, ahead, at)
      /\ dlv' = EnsureDlvs(dl, ahead \X Channels)
  BY DEF WriteTask
<1>2. \A o \in new : make /\ o \in DeadlineRules /\ TaskOf(o) = t /\ o[3] = gen[t] + 1
  BY DEF RulesOf
<1>3. gen[t] \in Nat /\ gen \in [Tasks -> 0..MaxGen] /\ row.due \in Int
      /\ task \in [Tasks -> [status : TaskStatus, due : Dues \cup {Nil}]]
  <2>1. row.due \in Dues \cup {Nil}
    OBVIOUS
  <2>2. row.due \in Int
    BY <2>1, Instants
  <2>3. gen[t] \in 0..MaxGen
    BY DEF TypeOK
  <2>4. gen[t] \in Nat
    BY <2>3, StoreAssumption
  <2>5. QED
    BY <2>2, <2>4 DEF TypeOK
<1>4. Paired(occ', dlv')
  <2>1. at \in [ahead -> Int]
    <3>1. \A o \in ahead : o[4] \in Int
      BY <1>2, OccKinds
    <3>2. QED
      BY <1>3, <3>1
  <2>2. ahead \in SUBSET (DeadlineRules \cup WeeklyOccs)
    BY <1>2
  <2>3. QED
    BY <1>1, <2>1, <2>2, EnsurePaired DEF Withdrawn
<1>5. RulesCurrent(task', gen', enabled', occ')
  <2> SUFFICES ASSUME NEW o \in DeadlineRules
               PROVE  /\ o[3] > gen'[TaskOf(o)] => o \notin enabled' /\ occ'[o].status = "absent"
                      /\ o \in enabled' => /\ task'[TaskOf(o)].status = "pending"
                                           /\ task'[TaskOf(o)].due # Nil
                                           /\ occ'[o].status # "absent"
                                                => occ'[o].at = task'[TaskOf(o)].due + o[4]
                      /\ occ'[o].status = "pending" => o \in enabled'
    BY DEF RulesCurrent
  <2>1. o \in Occs /\ TaskOf(o) \in Tasks /\ o[3] \in Nat
    <3>1. o \in Occs /\ TaskOf(o) \in Tasks /\ o[3] \in 1..MaxGen
      BY OccKinds
    <3>2. QED
      BY <3>1, StoreAssumption
  <2>2. occ'[o] = IF o \in ahead /\ oc[o].status = "absent"
                  THEN [status |-> "pending", at |-> row.due + o[4]] ELSE oc[o]
    BY <1>1, <2>1 DEF EnsureOccs
  <2>3. CASE TaskOf(o) # t
    <3>1. gen'[TaskOf(o)] = gen[TaskOf(o)] /\ task'[TaskOf(o)] = task[TaskOf(o)]
      BY <1>1, <1>3, <2>1, <2>3
    <3>2. o \notin new
      BY <1>2, <2>3
    <3>3. occ'[o] = occ[o] /\ (o \in enabled' <=> o \in enabled)
      BY <1>1, <2>2, <2>3, <3>2 DEF Withdrawn
    <3>4. QED
      BY <3>1, <3>3 DEF CurrentInv, RulesCurrent
  <2>4. CASE TaskOf(o) = t
    <3>1. task'[TaskOf(o)] = row
      BY <1>1, <1>3, <2>4
    <3>2. gen'[TaskOf(o)] = IF make THEN gen[t] + 1 ELSE gen[t]
      BY <1>1, <1>3, <2>4
    <3>3. /\ o \notin en /\ oc[o].status # "pending"
          /\ o[3] > gen[t] => oc[o].status = "absent"
      BY <2>4 DEF Withdrawn
    <3>4. CASE o \in new
      <4>1. make /\ o[3] = gen[t] + 1 /\ oc[o].status = "absent"
        BY <1>2, <1>3, <3>3, <3>4
      <4>2. QED
        BY <1>1, <1>3, <2>2, <3>1, <3>2, <3>4, <4>1
    <3>5. CASE o \notin new
      <4>1. occ'[o] = oc[o] /\ o \notin enabled'
        BY <1>1, <2>2, <3>3, <3>5
      <4>2. o[3] > gen'[TaskOf(o)] => o[3] > gen[t]
        BY <1>3, <2>1, <3>2
      <4>3. QED
        BY <3>3, <4>1, <4>2
    <3>6. QED
      BY <3>4, <3>5
  <2>5. QED
    BY <2>3, <2>4
<1>6. QED
  BY <1>4, <1>5 DEF CurrentInv

\* cancel_pending_for_task and disable_deadline_rules_for_task withdraw a task.
LEMMA ReplaceCurrent ==
    ASSUME TypeOK, CurrentInv, NEW t \in Tasks,
           NEW row \in [status : TaskStatus, due : Dues \cup {Nil}], NEW remind \in BOOLEAN,
           Replace(t, row, remind)
    PROVE  CurrentInv'
<1> DEFINE oc == CancelTaskOccs(occ, t)
           dl == CancelDlvs(dlv, RulesOf(t))
<1>1. oc \in OccTable /\ dl \in DlvTable /\ occ \in OccTable /\ dlv \in DlvTable
  BY CancelType DEF TypeOK
<1>2. Paired(occ, dl)
  BY <1>1, RowStatements, DlvsPaired DEF CurrentInv
<1>3. ASSUME NEW o \in Occs
      PROVE  \/ oc[o] = occ[o] /\ ~(o \in RulesOf(t) /\ oc[o].status = "pending")
             \/ /\ o \in RulesOf(t) /\ occ[o].status = "pending"
                /\ oc[o].status = "cancelled"
  BY <1>1 DEF CancelTaskOccs, OccTable
<1>4. ASSUME NEW o \in RulesOf(t), NEW c \in Channels
      PROVE  dl[<<o, c>>].status \notin Active
  <2>1. <<o, c>> \in Dlvs /\ <<o, c>>[1] = o
    BY OccKinds, DlvNames DEF RulesOf
  <2>2. QED
    BY <1>1, <2>1, RowStatements
<1>5. Paired(oc, dl)
  BY <1>2, <1>3, <1>4, OccsPaired
<1>6. Withdrawn(t, oc, dl, enabled \ RulesOf(t))
  <2>1. ASSUME NEW o \in DeadlineRules, TaskOf(o) = t
        PROVE  /\ o \notin enabled \ RulesOf(t)
               /\ oc[o].status # "pending"
               /\ o[3] > gen[t] => oc[o].status = "absent"
    <3>1. o \in RulesOf(t) /\ o \in Occs
      BY <2>1, OccKinds DEF RulesOf
    <3>2. o[3] > gen[t] => occ[o].status = "absent"
      BY <2>1 DEF CurrentInv, RulesCurrent
    <3>3. QED
      BY <1>3, <3>1, <3>2
  <2>2. ASSUME NEW o \in DeadlineRules, TaskOf(o) # t
        PROVE  oc[o] = occ[o] /\ (o \in enabled \ RulesOf(t) <=> o \in enabled)
    <3>1. o \notin RulesOf(t) /\ o \in Occs
      BY <2>2, OccKinds DEF RulesOf
    <3>2. QED
      BY <1>3, <3>1
  <2>3. QED
    BY <1>5, <2>1, <2>2 DEF Withdrawn
<1>7. QED
  BY <1>1, <1>6, WriteCurrent DEF Replace

\* A task that does not exist has nothing to withdraw.
LEMMA CreateCurrent ==
    ASSUME TypeOK, CurrentInv, NEW t \in Tasks, CreateTask(t)
    PROVE  CurrentInv'
<1>1. PICK due \in Dues \cup {Nil} :
          WriteTask(t, [status |-> "pending", due |-> due], TRUE, occ, dlv, enabled)
  BY DEF CreateTask
<1>2. task[t].status = "absent"
  BY DEF CreateTask
<1>3. Withdrawn(t, occ, dlv, enabled)
  BY <1>2 DEF Withdrawn, CurrentInv, RulesCurrent
<1>4. [status |-> "pending", due |-> due] \in [status : TaskStatus, due : Dues \cup {Nil}]
  BY DEF TaskStatus
<1>5. occ \in OccTable /\ dlv \in DlvTable
  BY DEF TypeOK
<1>6. QED
  BY <1>1, <1>3, <1>4, <1>5, WriteCurrent

\* Every operation of TaskService.
LEMMA TaskStepCurrent ==
    ASSUME TypeOK, CurrentInv, TaskStep
    PROVE  CurrentInv'
<1> DEFINE TaskRow == [status : TaskStatus, due : Dues \cup {Nil}]
<1>1. PICK t \in Tasks : \/ CreateTask(t) \/ UpdateDue(t) \/ CompleteTask(t)
                         \/ CancelTask(t) \/ ReopenTask(t)
  BY DEF TaskStep
<1>2. task[t] \in TaskRow
  BY DEF TypeOK
<1>3. CASE CreateTask(t)
  BY <1>3, CreateCurrent
<1>4. CASE UpdateDue(t)
  <2>1. PICK due \in Dues \cup {Nil} : Replace(t, [task[t] EXCEPT !.due = due], TRUE)
    BY <1>4 DEF UpdateDue
  <2>2. [task[t] EXCEPT !.due = due] \in TaskRow
    BY <1>2
  <2>3. QED
    BY <2>1, <2>2, ReplaceCurrent
<1>5. \A status \in TaskStatus : [task[t] EXCEPT !.status = status] \in TaskRow
  BY <1>2
<1>6. {"pending", "completed", "cancelled"} \subseteq TaskStatus
  BY DEF TaskStatus
<1>7. CASE CompleteTask(t)
  BY <1>5, <1>6, <1>7, ReplaceCurrent DEF CompleteTask
<1>8. CASE CancelTask(t)
  BY <1>5, <1>6, <1>8, ReplaceCurrent DEF CancelTask
<1>9. CASE ReopenTask(t)
  BY <1>5, <1>6, <1>9, ReplaceCurrent DEF ReopenTask
<1>10. QED
  BY <1>1, <1>3, <1>4, <1>7, <1>8, <1>9

-----------------------------------------------------------------------------
(* One-time and weekly rules, and results *)

\* The rules of other kinds play no part in what is true of the tasks.
LEMMA OtherRules ==
    ASSUME RulesCurrent(task, gen, enabled, occ), UNCHANGED <<task, gen>>,
           \A o \in DeadlineRules : occ'[o] = occ[o] /\ (o \in enabled' <=> o \in enabled)
    PROVE  RulesCurrent(task', gen', enabled', occ')
  BY DEF RulesCurrent

\* A new one-time reminder starts with the channels it asks for.
LEMMA CreateOneTimeCurrent ==
    ASSUME TypeOK, CurrentInv, NEW r \in OneTimeRules, CreateOneTime(r)
    PROVE  CurrentInv'
<1>1. PICK at \in Time, cs \in (SUBSET Channels) \ {{}} :
          /\ occ' = EnsureOccs(occ, {r}, [o \in {r} |-> at])
          /\ dlv' = EnsureDlvs(dlv, {r} \X cs)
  BY DEF CreateOneTime
<1>2. r \in Occs \ WeeklyOccs /\ r \notin DeadlineRules /\ occ[r].status = "absent"
  BY OccKinds, KindsDiffer DEF CreateOneTime
<1>3. /\ occ'[r].status = "pending"
      /\ \A o \in Occs \ {r} : occ'[o] = occ[o]
  BY <1>1, <1>2 DEF EnsureOccs
<1>4. ASSUME NEW o \in Occs \ {r}, NEW c \in Channels PROVE dlv'[<<o, c>>] = dlv[<<o, c>>]
  BY <1>1, DlvNames DEF EnsureDlvs
<1>5. Paired(occ', dlv')
  <2>1. DeadlineRules \subseteq Occs \ {r}
    BY <1>2, OccKinds
  <2>2. QED
    BY <1>2, <1>3, <1>4, <2>1 DEF CurrentInv, Paired
<1>6. RulesCurrent(task', gen', enabled', occ')
  <2>1. enabled' = enabled \cup {r} /\ UNCHANGED <<task, gen>>
    BY DEF CreateOneTime
  <2>2. \A o \in DeadlineRules : occ'[o] = occ[o] /\ (o \in enabled' <=> o \in enabled)
    BY <1>2, <1>3, <2>1, OccKinds
  <2>3. QED
    BY <2>1, <2>2, OtherRules DEF CurrentInv
<1>7. QED
  BY <1>5, <1>6 DEF CurrentInv

\* Cancelling it withdraws what its channels have left.
LEMMA CancelOneTimeCurrent ==
    ASSUME TypeOK, CurrentInv, NEW r \in OneTimeRules, CancelOneTime(r)
    PROVE  CurrentInv'
<1>1. /\ occ' = [occ EXCEPT ![r].status = "cancelled"]
      /\ enabled' = enabled \ {r} /\ UNCHANGED <<task, gen>>
      /\ dlv' = CancelDlvs(dlv, {r})
      /\ occ[r].status = "pending"
  BY DEF CancelOneTime
<1>2. r \in Occs /\ r \notin DeadlineRules /\ occ \in OccTable /\ dlv \in DlvTable
  BY OccKinds, KindsDiffer DEF TypeOK
<1>3. Paired(occ, dlv')
  BY <1>1, <1>2, RowStatements, DlvsPaired DEF CurrentInv
<1>4. \A c \in Channels : dlv'[<<r, c>>].status \notin Active
  BY <1>1, <1>2, DlvNames, RowStatements
<1>5. occ'[r].status = "cancelled" /\ \A o \in Occs \ {r} : occ'[o] = occ[o]
  BY <1>1, <1>2 DEF OccTable
<1>6. Paired(occ', dlv')
  <2>1. ASSUME NEW o \in Occs
        PROVE  \/ occ'[o] = occ[o]
               \/ /\ occ[o].status # "absent" /\ occ'[o].status # "absent"
                  /\ \A c \in Channels : dlv'[<<o, c>>].status \notin Active
    <3>1. CASE o = r
      BY <1>1, <1>4, <1>5, <3>1
    <3>2. CASE o # r
      BY <1>5, <3>2
    <3>3. QED
      BY <3>1, <3>2
  <2>2. QED
    BY <1>3, <2>1, OccsPaired
<1>7. ASSUME NEW o \in DeadlineRules
      PROVE  occ'[o] = occ[o] /\ (o \in enabled' <=> o \in enabled)
  <2>1. o \in Occs \ {r}
    BY <1>2, OccKinds
  <2>2. QED
    BY <1>1, <1>5, <2>1
<1>8. QED
  BY <1>1, <1>6, <1>7, OtherRules DEF CurrentInv

\* Settling an occurrence ends it only when no channel is left.
LEMMA SettleEnds ==
    ASSUME NEW oc \in OccTable, NEW dl \in DlvTable, NEW o \in Occs, NEW p \in Occs
    PROVE  \/ Settle(oc, dl, o)[p] = oc[p]
           \/ /\ p = o /\ oc[p].status = "pending"
              /\ Settle(oc, dl, o)[p].status \in {"completed", "skipped"}
              /\ \A c \in Channels : dl[<<p, c>>].status \notin Active
<1> DEFINE rows == {dl[<<o, c>>] : c \in Channels} \ {AbsentDlv}
<1>1. CASE \E r \in rows : r.status \in Active
  BY <1>1 DEF Settle
<1>2. CASE ~\E r \in rows : r.status \in Active
  <2>1. \A c \in Channels : dl[<<o, c>>].status \notin Active
    <3>1. AbsentDlv.status \notin Active
      BY DEF AbsentDlv, Active
    <3>2. QED
      BY <1>2, <3>1
  <2>2. Settle(oc, dl, o) \in {oc, [oc EXCEPT ![o].status = "skipped"],
                                   [oc EXCEPT ![o].status = "completed"]}
        /\ (oc[o].status # "pending" => Settle(oc, dl, o) = oc)
    BY <1>2 DEF Settle
  <2>3. QED
    BY <2>1, <2>2 DEF OccTable
<1>3. QED
  BY <1>1, <1>2

\* Recording a result settles the occurrence in the same transaction.
LEMMA MarkCurrent ==
    ASSUME TypeOK, CurrentInv, NEW e \in Execs, Mark(e)
    PROVE  CurrentInv'
<1>1. PICK c \in exec[e].inflight :
       LET holds == Holds(dlv[c.id], c)
           row == Result(dlv[c.id], exec[e].result, c.token, now)
       IN /\ dlv' = IF holds THEN [dlv EXCEPT ![c.id] = row] ELSE dlv
          /\ occ' = IF holds /\ row.status \in Final THEN Settle(occ, dlv', c.id[1]) ELSE occ
          /\ UNCHANGED <<task, gen, enabled>>
  BY DEF Mark
<1>2. c \in Claim /\ c.id \in Dlvs /\ c.id[1] \in Occs
  BY DEF TypeOK, Run, Claim, Dlvs
<1>3. now \in Time /\ occ \in OccTable /\ dlv \in DlvTable
  BY DEF TypeOK
<1>4. dlv' \in DlvTable
  BY <1>1, <1>2, <1>3, ResultType
<1>5. Result(dlv[c.id], exec[e].result, c.token, now).status \in {"sent", "failed", "pending"}
  BY <1>2, <1>3 DEF Result, Released, DlvTable
<1>6. Paired(occ, dlv')
  <2>1. ASSUME NEW d \in Dlvs
        PROVE  /\ dlv'[d].status = "absent" <=> dlv[d].status = "absent"
               /\ dlv'[d].status \in Active => dlv[d].status \in Active
    <3>1. \/ dlv'[d] = dlv[d]
          \/ /\ dlv[d].status = "sending"
             /\ dlv'[d].status \in {"sent", "failed", "pending"}
      BY <1>1, <1>2, <1>3, <1>5 DEF Holds, DlvTable
    <3>2. QED
      BY <3>1 DEF Active
  <2>2. QED
    BY <2>1, DlvsPaired DEF CurrentInv
<1>7. ASSUME NEW p \in Occs
      PROVE  \/ occ'[p] = occ[p]
             \/ /\ occ[p].status = "pending" /\ occ'[p].status \in {"completed", "skipped"}
                /\ \A ch \in Channels : dlv'[<<p, ch>>].status \notin Active
  <2>1. occ' = occ \/ occ' = Settle(occ, dlv', c.id[1])
    BY <1>1
  <2>2. QED
    BY <1>2, <1>3, <1>4, <2>1, SettleEnds
<1>8. Paired(occ', dlv')
  <2>1. ASSUME NEW p \in Occs
        PROVE  \/ occ'[p] = occ[p]
               \/ /\ occ[p].status # "absent" /\ occ'[p].status # "absent"
                  /\ \A ch \in Channels : dlv'[<<p, ch>>].status \notin Active
    BY <1>7
  <2>2. QED
    BY <1>6, <2>1, OccsPaired
<1>9. RulesCurrent(task', gen', enabled', occ')
  <2>1. ASSUME NEW p \in Occs
        PROVE  occ'[p].at = occ[p].at
    BY <1>1, <1>2, <1>3 DEF Settle, OccTable
  <2>2. QED
    BY <1>1, <1>7, <2>1, OccKinds DEF CurrentInv, RulesCurrent
<1>10. QED
  BY <1>8, <1>9 DEF CurrentInv

-----------------------------------------------------------------------------
(* The theorems *)

\* The tables start empty.
LEMMA CurrentInit == Init => CurrentInv
<1> SUFFICES ASSUME Init PROVE CurrentInv
  OBVIOUS
<1>1. \A o \in Occs : occ[o].status = "absent"
  BY DEF Init, AbsentOcc
<1>2. \A d \in Dlvs : dlv[d].status = "absent"
  BY DEF Init, AbsentDlv
<1>3. Paired(occ, dlv)
  BY <1>1, <1>2, DlvNames, OccKinds DEF Paired, Active
<1>4. RulesCurrent(task, gen, enabled, occ)
  BY <1>1, OccKinds DEF RulesCurrent, Init
<1>5. QED
  BY <1>3, <1>4 DEF CurrentInv

\* Every step keeps them consistent.
LEMMA CurrentStep == TypeOK /\ CurrentInv /\ [Next]_vars => CurrentInv'
<1> SUFFICES ASSUME TypeOK, CurrentInv, [Next]_vars PROVE CurrentInv'
  OBVIOUS
<1>1. CASE TaskStep
  BY <1>1, TaskStepCurrent
<1>2. CASE OneTimeStep
  BY <1>2, CreateOneTimeCurrent, CancelOneTimeCurrent DEF OneTimeStep
<1>3. CASE EnsureStockRule
  <2>1. enabled' = enabled \cup {WeeklyRule} /\ UNCHANGED <<task, gen, occ, dlv>>
    BY <1>3 DEF EnsureStockRule
  <2>2. QED
    BY <2>1, KindsDiffer, OtherRules DEF CurrentInv
<1>4. ASSUME NEW e \in Execs, ClaimDue(e) \/ Mark(e) PROVE CurrentInv'
  BY <1>4, CurrentClaim, MarkCurrent
<1>5. ASSUME UNCHANGED tables PROVE CurrentInv'
  BY <1>5 DEF tables, CurrentInv
<1>6. ASSUME NEW e \in Execs, Send(e) \/ Crash(e) PROVE CurrentInv'
  BY <1>5, <1>6 DEF Send, Crash
<1>7. CASE Tick \/ UNCHANGED vars
  BY <1>5, <1>7 DEF Tick, vars, tables
<1>8. QED
  BY <1>1, <1>2, <1>3, <1>4, <1>6, <1>7 DEF Next, ExecStep

\* What waits to be sent for a task is true of the task as it is now: no operation, and no
\* executor at work meanwhile, leaves a reminder of an old due_at or of a finished task.
THEOREM RemindersAreCurrent == Spec => []CurrentReminders
<1>1. TypeOK /\ CurrentInv => CurrentReminders
  BY OccKinds, KindsDiffer DEF CurrentInv, Paired, RulesCurrent, CurrentReminders
<1>2. QED
  BY <1>1, CurrentInit, CurrentStep, TypeCorrect, PTL DEF Spec

\* A channel still to send has a pending occurrence, so that an executor will select it.
THEOREM NothingOutOfReach == Spec => []NoOrphan
<1>1. CurrentInv => NoOrphan
  <2> SUFFICES ASSUME CurrentInv, NEW d \in Dlvs,
                      dlv[d].status \in Active, d[1] \notin WeeklyOccs
               PROVE  occ[d[1]].status = "pending"
    BY DEF NoOrphan
  <2>1. PICK o \in Occs, c \in Channels : d = <<o, c>>
    BY DEF Dlvs
  <2>2. QED
    BY <2>1 DEF CurrentInv, Paired
<1>2. QED
  BY <1>1, CurrentInit, CurrentStep, TypeCorrect, PTL DEF Spec

-----------------------------------------------------------------------------
(* One reminder of a task at a time *)

\* The enabled default rules of a task are those of its last generation.
LatestRules == \A o \in DeadlineRules : o \in enabled => o[3] = gen[TaskOf(o)]

\* A task is written without the rules it had, and with those of its new generation.
LEMMA WriteLatest ==
    ASSUME TypeOK, LatestRules, NEW t \in Tasks, NEW row, NEW remind, NEW oc, NEW dl, NEW en,
           WriteTask(t, row, remind, oc, dl, en),
           \A o \in DeadlineRules : o \in en => o \in enabled /\ TaskOf(o) # t
    PROVE  LatestRules'
<1> DEFINE make == remind /\ row.status = "pending" /\ row.due # Nil /\ row.due > now
           new == IF make THEN {r \in RulesOf(t) : r[3] = gen[t] + 1} ELSE {}
<1>1. /\ gen' = IF make THEN [gen EXCEPT ![t] = gen[t] + 1] ELSE gen
      /\ enabled' = en \cup new
  BY DEF WriteTask
<1>2. gen \in [Tasks -> 0..MaxGen]
  BY DEF TypeOK
<1> SUFFICES ASSUME NEW o \in DeadlineRules, o \in enabled'
             PROVE  o[3] = gen'[TaskOf(o)]
  BY DEF LatestRules
<1>3. TaskOf(o) \in Tasks
  BY OccKinds
<1>4. CASE o \in en
  <2>1. o \in enabled /\ TaskOf(o) # t
    BY <1>4
  <2>2. gen'[TaskOf(o)] = gen[TaskOf(o)]
    BY <1>1, <1>2, <1>3, <2>1
  <2>3. QED
    BY <2>1, <2>2 DEF LatestRules
<1>5. CASE o \in new
  <2>1. make /\ TaskOf(o) = t /\ o[3] = gen[t] + 1
    BY <1>5 DEF RulesOf
  <2>2. QED
    BY <1>1, <1>2, <2>1
<1>6. QED
  BY <1>1, <1>4, <1>5

\* Every step keeps that; only the operations of a task touch its default rules.
LEMMA LatestStep ==
    ASSUME TypeOK, CurrentInv, LatestRules, [Next]_vars
    PROVE  LatestRules'
<1>1. ASSUME NEW t \in Tasks, NEW row, NEW remind, Replace(t, row, remind)
      PROVE  LatestRules'
  <2>1. \A o \in DeadlineRules : o \in enabled \ RulesOf(t) => o \in enabled /\ TaskOf(o) # t
    BY DEF RulesOf
  <2>2. QED
    BY <1>1, <2>1, WriteLatest DEF Replace
<1>2. ASSUME NEW t \in Tasks, CreateTask(t) PROVE LatestRules'
  <2>1. PICK due \in Dues \cup {Nil} :
            WriteTask(t, [status |-> "pending", due |-> due], TRUE, occ, dlv, enabled)
    BY <1>2 DEF CreateTask
  <2>2. \A o \in DeadlineRules : o \in enabled => TaskOf(o) # t
    BY <1>2 DEF CreateTask, CurrentInv, RulesCurrent
  <2>3. QED
    BY <2>1, <2>2, WriteLatest
<1>3. CASE TaskStep
  BY <1>1, <1>2, <1>3 DEF TaskStep, UpdateDue, CompleteTask, CancelTask, ReopenTask
<1>4. CASE OneTimeStep \/ EnsureStockRule
  <2>1. UNCHANGED gen /\ \A o \in DeadlineRules : o \in enabled' => o \in enabled
    BY <1>4, KindsDiffer DEF OneTimeStep, CreateOneTime, CancelOneTime, EnsureStockRule
  <2>2. QED
    BY <2>1 DEF LatestRules
<1>5. CASE ExecStep \/ Tick \/ UNCHANGED vars
  <2>1. UNCHANGED <<gen, enabled>>
    BY <1>5 DEF ExecStep, ClaimDue, Send, Mark, Crash, Tick, vars, tables
  <2>2. QED
    BY <2>1 DEF LatestRules
<1>6. QED
  BY <1>3, <1>4, <1>5 DEF Next

\* Two checkpoints of one task that are both claimed are one: merging left the latest, and
\* two checkpoints at one instant have the same offset and the same generation.
LEMMA ClaimedApart ==
    ASSUME TypeOK, CurrentInv, LatestRules, NEW ch,
           NEW b \in Claimable(MergedOccs(ch), MergedDlvs(ch), ch, now),
           NEW c \in Claimable(MergedOccs(ch), MergedDlvs(ch), ch, now),
           {b[1], c[1]} \subseteq DeadlineRules, TaskOf(b[1]) = TaskOf(c[1])
    PROVE  b = c
<1>1. RulesCurrent(task, gen, enabled, MergedOccs(ch))
  BY StagesCurrent DEF CurrentInv
<1>2. /\ LiveOccs \in OccTable /\ MergedOccs(ch) \in OccTable /\ LiveDlvs \in DlvTable
  BY StagesType
<1>3. ASSUME NEW x \in {b, c}
      PROVE  /\ x \in Dlvs /\ x[1] \in Occs /\ x[1] \in DeadlineRules
             /\ x \in Mergeable(LiveOccs, LiveDlvs, ch, now) /\ x \notin MergedNow(ch)
             /\ LiveOccs[x[1]].at = task[TaskOf(b[1])].due + x[1][4]
             /\ x[1][3] = gen[TaskOf(b[1])]
             /\ x[2] = ch
  <2>1. /\ x \in Dlvs /\ x[1] \in DeadlineRules /\ x[1] \in Occs /\ x[2] = ch
        /\ TaskOf(x[1]) = TaskOf(b[1])
    BY OccKinds DEF Claimable
  <2>2. /\ MergedDlvs(ch)[x].status = "pending" /\ MergedOccs(ch)[x[1]].status = "pending"
        /\ MergedOccs(ch)[x[1]].at <= now
    BY DEF Claimable
  <2>3. LiveOccs[x[1]] = MergedOccs(ch)[x[1]]
    BY <1>2, <2>1, <2>2, SkippedOcc DEF MergedOccs
  <2>4. LiveDlvs[x].status = "pending" /\ x \notin MergedNow(ch)
    BY <1>2, <2>1, <2>2 DEF MergedDlvs, SkipDlvs, Released, DlvTable
  <2>5. x[1] \in enabled
    BY <1>1, <2>1, <2>2 DEF RulesCurrent
  <2>6. MergedOccs(ch)[x[1]].at = task[TaskOf(x[1])].due + x[1][4]
    BY <1>1, <2>1, <2>2, <2>5 DEF RulesCurrent
  <2>7. QED
    BY <2>1, <2>2, <2>3, <2>4, <2>5, <2>6 DEF Mergeable, LatestRules
<1>4. b[1][4] = c[1][4] /\ b[1][3] = c[1][3]
  <2>1. /\ ~(LiveOccs[b[1]].at < LiveOccs[c[1]].at)
        /\ ~(LiveOccs[c[1]].at < LiveOccs[b[1]].at)
    BY <1>3 DEF MergedNow, Merged
  <2>2. LiveOccs[b[1]].at \in Int /\ LiveOccs[c[1]].at \in Int
    BY <1>2, <1>3 DEF OccTable
  <2>3. b[1][4] \in Int /\ c[1][4] \in Int /\ TaskOf(b[1]) \in Tasks
    BY OccKinds
  <2>4. task[TaskOf(b[1])].due \in Int
    BY <2>3, Instants DEF TypeOK
  <2>5. QED
    BY <1>3, <2>1, <2>2, <2>3, <2>4
<1>5. b[1] = c[1]
  <2>1. \A o \in DeadlineRules : o = <<"deadline", TaskOf(o), o[3], o[4]>>
    BY DEF DeadlineRules, TaskOf
  <2>2. QED
    BY <1>4, <2>1
<1>6. QED
  <2>1. \A d \in Dlvs : d = <<d[1], d[2]>>
    BY DEF Dlvs
  <2>2. QED
    BY <1>3, <1>5, <2>1

\* An executor never announces two checkpoints of one task in one batch.
THEOREM OneReminder == Spec => []OneReminderPerTask
<1>1. Init => CurrentInv /\ LatestRules /\ OneReminderPerTask
  <2> SUFFICES ASSUME Init PROVE LatestRules /\ OneReminderPerTask
    BY CurrentInit
  <2>1. LatestRules
    BY DEF Init, LatestRules
  <2>2. \A e \in Execs : exec[e].batch = {}
    BY DEF Init, Idle
  <2>3. QED
    BY <2>1, <2>2 DEF OneReminderPerTask
<1>2. TypeOK /\ CurrentInv /\ LatestRules /\ OneReminderPerTask /\ [Next]_vars
        => OneReminderPerTask'
  <2> SUFFICES ASSUME TypeOK, CurrentInv, LatestRules, OneReminderPerTask, [Next]_vars
               PROVE  OneReminderPerTask'
    OBVIOUS
  <2>1. ASSUME \A f \in Execs : exec'[f].batch \subseteq exec[f].batch
        PROVE  OneReminderPerTask'
    BY <2>1 DEF OneReminderPerTask
  <2>2. CASE TaskStep \/ OneTimeStep \/ EnsureStockRule
    BY <2>1, <2>2, TableStepKeeps
  <2>3. ASSUME NEW e \in Execs, ClaimDue(e) PROVE OneReminderPerTask'
    <3> DEFINE ch == ChannelOf(e)
               dl == MergedDlvs(ch)
    <3>1. PICK B \in SUBSET Claimable(MergedOccs(ch), dl, ch, now) :
              /\ exec'[e].batch = {[id |-> d, token |-> dl[d].attempts + 1] : d \in B}
              /\ \A f \in Execs \ {e} : exec'[f] = exec[f]
      BY <2>3, ClaimRows
    <3> SUFFICES ASSUME NEW f \in Execs, NEW b \in exec'[f].batch, NEW c \in exec'[f].batch,
                        {b.id[1], c.id[1]} \subseteq DeadlineRules,
                        TaskOf(b.id[1]) = TaskOf(c.id[1])
                 PROVE  b = c
      BY DEF OneReminderPerTask
    <3>2. CASE f # e
      BY <3>1, <3>2 DEF OneReminderPerTask
    <3>3. CASE f = e
      <4>1. PICK x \in B : b = [id |-> x, token |-> dl[x].attempts + 1]
        BY <3>1, <3>3
      <4>2. PICK y \in B : c = [id |-> y, token |-> dl[y].attempts + 1]
        BY <3>1, <3>3
      <4>3. x = y
        BY <3>1, <4>1, <4>2, ClaimedApart
      <4>4. QED
        BY <4>1, <4>2, <4>3
    <3>4. QED
      BY <3>2, <3>3
  <2>4. ASSUME NEW e \in Execs, Send(e) PROVE OneReminderPerTask'
    <3>1. PICK c, result : exec' = [exec EXCEPT ![e].inflight = {c}, ![e].result = result]
      BY <2>4 DEF Send
    <3>2. \A f \in Execs : exec'[f].batch \subseteq exec[f].batch
      BY <3>1 DEF TypeOK, Run
    <3>3. QED
      BY <2>1, <3>2
  <2>5. ASSUME NEW e \in Execs, Mark(e) PROVE OneReminderPerTask'
    <3>1. PICK c : exec' = [exec EXCEPT ![e] =
                      IF exec[e].batch \ {c} = {} THEN Idle
                      ELSE [exec[e] EXCEPT !.batch = exec[e].batch \ {c},
                                           !.inflight = {}, !.result = "ok"]]
      BY <2>5, MarkRow
    <3>2. \A f \in Execs : exec'[f].batch \subseteq exec[f].batch
      BY <3>1 DEF TypeOK, Run, Idle
    <3>3. QED
      BY <2>1, <3>2
  <2>6. ASSUME NEW K, Kill(K) PROVE OneReminderPerTask'
    <3>1. \A f \in Execs : exec'[f].batch \subseteq exec[f].batch
      BY <2>6 DEF Kill, Idle
    <3>2. QED
      BY <2>1, <3>1
  <2>7. CASE UNCHANGED vars
    BY <2>1, <2>7 DEF vars
  <2>8. QED
    BY <2>2, <2>3, <2>4, <2>5, <2>6, <2>7 DEF Next, ExecStep, Crash, Tick
<1>3. QED
  BY <1>1, <1>2, LatestStep, CurrentStep, TypeCorrect, PTL DEF Spec

-----------------------------------------------------------------------------
(* What a merged reminder gives way to *)

\* The statements before the merge write no "coalesced".
LEMMA OtherCodes ==
    ASSUME NEW dl \in DlvTable, NEW d \in Dlvs, dl[d].error # "coalesced"
    PROVE  /\ \A D : EnsureDlvs(dl, D)[d].error # "coalesced"
           /\ \A S : CancelDlvs(dl, S)[d].error # "coalesced"
           /\ \A t : RecoverLeases(dl, t)[d].error # "coalesced"
           /\ \A D : SkipDlvs(dl, D, "expired")[d].error # "coalesced"
           /\ \A result, attempt, t : Result(dl[d], result, attempt, t).error # "coalesced"
<1>1. ASSUME NEW status, NEW next, NEW code \in {"cancelled", "expired", "none", "error"}
      PROVE  Released(dl[d], status, next, code).error # "coalesced"
  BY DEF Released, DlvTable
<1>2. ASSUME NEW D PROVE EnsureDlvs(dl, D)[d].error # "coalesced"
  BY DEF EnsureDlvs, NewDlv, AbsentDlv
<1>3. ASSUME NEW S PROVE CancelDlvs(dl, S)[d].error # "coalesced"
  BY <1>1 DEF CancelDlvs
<1>4. ASSUME NEW t PROVE RecoverLeases(dl, t)[d].error # "coalesced"
  BY DEF RecoverLeases, DlvTable
<1>5. ASSUME NEW D PROVE SkipDlvs(dl, D, "expired")[d].error # "coalesced"
  BY <1>1 DEF SkipDlvs
<1>6. ASSUME NEW result, NEW attempt, NEW t
      PROVE  Result(dl[d], result, attempt, t).error # "coalesced"
  BY <1>1 DEF Result
<1>7. QED
  BY <1>2, <1>3, <1>4, <1>5, <1>6

\* Of the due checkpoints of a task one is the latest, and it is not merged away.
LEMMA LatestRemains ==
    ASSUME TypeOK, NEW ch, NEW d \in MergedNow(ch)
    PROVE  \E e \in Mergeable(LiveOccs, LiveDlvs, ch, now) \ MergedNow(ch) :
              /\ TaskOf(e[1]) = TaskOf(d[1])
              /\ LiveOccs[d[1]].at < LiveOccs[e[1]].at
<1> DEFINE M == Mergeable(LiveOccs, LiveDlvs, ch, now)
           At(x) == LiveOccs[x[1]].at
           waits == {n \in Nat : \E x \in M : TaskOf(x[1]) = TaskOf(d[1]) /\ n = now - At(x)}
<1>1. LiveOccs \in OccTable /\ now \in Int
  BY StagesType, Instants DEF TypeOK
<1>2. ASSUME NEW x \in M PROVE At(x) \in Int /\ now - At(x) \in Nat
  BY <1>1, OccKinds DEF Mergeable, OccTable
<1>3. d \in M /\ \E x \in M : TaskOf(x[1]) = TaskOf(d[1]) /\ At(d) < At(x)
  BY DEF MergedNow, Merged
<1>4. waits \subseteq Nat /\ waits # {}
  BY <1>2, <1>3
<1>5. PICK m \in waits : \A n \in waits : <<n, m>> \notin OpToRel(<, Nat)
  <2> HIDE DEF waits
  <2>1. QED
    BY <1>4, NatLessThanWellFounded, WFMin
<1>6. PICK e \in M : TaskOf(e[1]) = TaskOf(d[1]) /\ m = now - At(e)
  OBVIOUS
<1>7. ASSUME NEW x \in M, TaskOf(x[1]) = TaskOf(d[1])
      PROVE  At(x) <= At(e)
  <2>1. now - At(x) \in waits
    BY <1>2, <1>7
  <2>2. ~(now - At(x) < m)
    BY <1>4, <1>5, <2>1 DEF OpToRel
  <2>3. QED
    BY <1>1, <1>2, <1>6, <2>2
<1>8. At(d) < At(e)
  BY <1>2, <1>3, <1>7
<1>9. e \notin MergedNow(ch)
  BY <1>2, <1>6, <1>7 DEF MergedNow, Merged
<1>10. QED
  BY <1>6, <1>8, <1>9

\* A reminder is merged away only into a later checkpoint of its task and channel that is
\* still to be sent: merging never silences a task.
THEOREM MergeKeepsLater == Spec => MergedIntoLater
<1>1. TypeOK /\ [Next]_vars
        => [\A d \in Dlvs : (dlv[d].error # "coalesced" /\ dlv'[d].error = "coalesced")
              => \E e \in Dlvs : /\ e[1] \in RulesOf(TaskOf(d[1])) /\ e[2] = d[2]
                                 /\ occ'[d[1]].at < occ'[e[1]].at
                                 /\ dlv'[e].status \in Active]_vars
  <2> SUFFICES ASSUME TypeOK, [Next]_vars, NEW d \in Dlvs,
                      dlv[d].error # "coalesced", dlv'[d].error = "coalesced"
               PROVE  \E e \in Dlvs : /\ e[1] \in RulesOf(TaskOf(d[1])) /\ e[2] = d[2]
                                      /\ occ'[d[1]].at < occ'[e[1]].at
                                      /\ dlv'[e].status \in Active
    OBVIOUS
  <2>1. dlv \in DlvTable
    BY DEF TypeOK
  <2>2. ~(TaskStep \/ OneTimeStep \/ EnsureStockRule)
    <3>1. \A S : CancelDlvs(dlv, S) \in DlvTable
      BY <2>1, CancelType
    <3>2. \A S, D : /\ dlv' # EnsureDlvs(CancelDlvs(dlv, S), D)
                    /\ dlv' # EnsureDlvs(dlv, D) /\ dlv' # CancelDlvs(dlv, S)
      BY <2>1, <3>1, OtherCodes
    <3>3. ASSUME NEW t \in Tasks, NEW row, NEW remind PROVE ~Replace(t, row, remind)
      BY <3>2 DEF Replace, WriteTask
    <3>4. \A t \in Tasks : ~CreateTask(t)
      BY <3>2 DEF CreateTask, WriteTask
    <3>5. ~TaskStep
      BY <3>3, <3>4 DEF TaskStep, UpdateDue, CompleteTask, CancelTask, ReopenTask
    <3>6. ~OneTimeStep
      BY <3>2 DEF OneTimeStep, CreateOneTime, CancelOneTime
    <3>7. ~EnsureStockRule
      BY DEF EnsureStockRule
    <3>8. QED
      BY <3>5, <3>6, <3>7
  <2>3. ASSUME NEW x \in Execs, ClaimDue(x)
        PROVE  \E e \in Dlvs : /\ e[1] \in RulesOf(TaskOf(d[1])) /\ e[2] = d[2]
                               /\ occ'[d[1]].at < occ'[e[1]].at
                               /\ dlv'[e].status \in Active
    <3> DEFINE ch == ChannelOf(x)
               dl1 == EnsureDlvs(dlv, WantedNow \X Channels)
    <3>1. PICK B \in SUBSET Claimable(MergedOccs(ch), MergedDlvs(ch), ch, now) :
              dlv' = ClaimDlvs(MergedDlvs(ch), B, now) /\ occ' = MergedOccs(ch)
      BY <2>3, ClaimRows
    <3>2. /\ dl1 \in DlvTable /\ GenDlvs \in DlvTable /\ LiveDlvs \in DlvTable
          /\ MergedDlvs(ch) \in DlvTable /\ LiveOccs \in OccTable
      BY <2>1, EnsureDlvsType, StagesType
    <3>3. dl1[d].error # "coalesced"
      BY <2>1, OtherCodes
    <3>4. GenDlvs[d].error # "coalesced"
      BY <3>2, <3>3, OtherCodes DEF GenDlvs
    <3>5. LiveDlvs[d].error # "coalesced"
      BY <3>2, <3>4, OtherCodes DEF LiveDlvs
    <3>6. MergedDlvs(ch)[d].error = "coalesced"
      BY <3>1, <3>2, ClaimedRow
    <3>7. d \in MergedNow(ch)
      BY <3>5, <3>6 DEF MergedDlvs, SkipDlvs
    <3>8. PICK e \in Mergeable(LiveOccs, LiveDlvs, ch, now) \ MergedNow(ch) :
              /\ TaskOf(e[1]) = TaskOf(d[1])
              /\ LiveOccs[d[1]].at < LiveOccs[e[1]].at
      BY <3>7, LatestRemains
    <3>9. /\ e \in Dlvs /\ e[2] = ch /\ e[1] \in DeadlineRules /\ LiveDlvs[e].status = "pending"
          /\ d[2] = ch /\ d[1] \in DeadlineRules
      BY <3>7, <3>8 DEF MergedNow, Merged, Mergeable
    <3>10. dlv'[e].status \in Active
      <4>1. MergedDlvs(ch)[e].status = "pending"
        BY <3>8, <3>9 DEF MergedDlvs, SkipDlvs
      <4>2. QED
        BY <3>1, <3>2, <3>9, <4>1, ClaimedRow DEF Active
    <3>11. occ'[d[1]].at = LiveOccs[d[1]].at /\ occ'[e[1]].at = LiveOccs[e[1]].at
      BY <3>1, <3>2, <3>9, OccKinds, SkippedOcc DEF MergedOccs
    <3>12. QED
      BY <3>8, <3>9, <3>10, <3>11 DEF RulesOf
  <2>4. ASSUME NEW x \in Execs, Mark(x) PROVE FALSE
    <3>1. PICK c \in exec[x].inflight :
              /\ c.id \in Dlvs
              /\ IF Holds(dlv[c.id], c)
                 THEN dlv' = [dlv EXCEPT ![c.id] =
                                 Result(dlv[c.id], exec[x].result, c.token, now)]
                 ELSE dlv' = dlv
      BY <2>4, MarkRow
    <3>2. dlv'[d] \in {dlv[d], Result(dlv[d], exec[x].result, c.token, now)}
      BY <2>1, <3>1 DEF DlvTable
    <3>3. QED
      BY <2>1, <3>2, OtherCodes
  <2>5. ASSUME NEW x \in Execs, Send(x) \/ Crash(x) PROVE FALSE
    BY <2>5 DEF Send, Crash, tables
  <2>6. ~(Tick \/ UNCHANGED vars)
    BY DEF Tick, tables, vars
  <2>7. QED
    BY <2>2, <2>3, <2>4, <2>5, <2>6 DEF Next, ExecStep
<1>2. QED
  BY <1>1, TypeCorrect, PTL DEF Spec, MergedIntoLater

-----------------------------------------------------------------------------
(* What completed means *)

\* The weekly rule's occurrence is created with both its channels, and no row vanishes.
WeeklyPaired ==
    \A o \in WeeklyOccs : \A c \in Channels :
        occ[o].status # "absent" => dlv[<<o, c>>].status # "absent"

SentInv == CompletedMeansSent /\ WeeklyPaired

\* A step that settles nothing: no occurrence becomes completed, the rows of a completed
\* one stay, and no weekly occurrence appears without its channels.
Unsettling ==
    \A o \in Occs :
        /\ occ'[o].status = "completed" =>
              /\ occ[o].status = "completed"
              /\ \A c \in Channels : dlv[<<o, c>>].status \in {"sent", "absent"}
                    => dlv'[<<o, c>>].status = dlv[<<o, c>>].status
        /\ o \in WeeklyOccs /\ occ'[o].status # "absent" =>
              \A c \in Channels : \/ dlv'[<<o, c>>].status # "absent"
                                 \/ /\ occ[o].status # "absent"
                                    /\ dlv[<<o, c>>].status = "absent"

\* Such a step keeps the invariant.
LEMMA UnsettlingKeeps == ASSUME SentInv, Unsettling PROVE SentInv'
<1>1. CompletedMeansSent'
  BY DEF SentInv, CompletedMeansSent, Unsettling
<1>2. WeeklyPaired'
  BY OccKinds DEF SentInv, WeeklyPaired, Unsettling
<1>3. QED
  BY <1>1, <1>2 DEF SentInv

\* Inserting reminders of occurrences that did not exist, after withdrawing others.
LEMMA InsertUnsettling ==
    ASSUME TypeOK, NEW oc \in OccTable, NEW dl \in DlvTable, NEW S, NEW cs, NEW at,
           \A o \in Occs : /\ oc[o] = occ[o] \/ (o \notin WeeklyOccs /\ oc[o].status = "cancelled")
                           /\ o \in S => o \notin WeeklyOccs /\ occ[o].status = "absent",
           \A d \in Dlvs : dlv[d].status \in {"sent", "absent"} => dl[d] = dlv[d],
           \A d \in Dlvs : dl[d].status = "absent" => dlv[d].status = "absent",
           occ' = EnsureOccs(oc, S, at), dlv' = EnsureDlvs(dl, S \X cs)
    PROVE  Unsettling
<1> SUFFICES ASSUME NEW o \in Occs
             PROVE  /\ occ'[o].status = "completed" =>
                          /\ occ[o].status = "completed"
                          /\ \A c \in Channels : dlv[<<o, c>>].status \in {"sent", "absent"}
                                => dlv'[<<o, c>>].status = dlv[<<o, c>>].status
                    /\ o \in WeeklyOccs /\ occ'[o].status # "absent" =>
                          \A c \in Channels : \/ dlv'[<<o, c>>].status # "absent"
                                             \/ /\ occ[o].status # "absent"
                                                /\ dlv[<<o, c>>].status = "absent"
  BY DEF Unsettling
<1>1. occ'[o] = IF o \in S /\ oc[o].status = "absent"
                THEN [status |-> "pending", at |-> at[o]] ELSE oc[o]
  BY DEF EnsureOccs
<1>2. ASSUME NEW c \in Channels
      PROVE  /\ <<o, c>> \in Dlvs
             /\ o \notin S => dlv'[<<o, c>>] = dl[<<o, c>>]
             /\ dl[<<o, c>>].status # "absent" => dlv'[<<o, c>>].status # "absent"
  BY DlvNames DEF EnsureDlvs
<1>3. ASSUME occ'[o].status = "completed"
      PROVE  occ[o].status = "completed" /\ o \notin S
  BY <1>1, <1>3
<1>4. ASSUME occ'[o].status = "completed", NEW c \in Channels,
             dlv[<<o, c>>].status \in {"sent", "absent"}
      PROVE  dlv'[<<o, c>>].status = dlv[<<o, c>>].status
  BY <1>2, <1>3, <1>4
<1>5. ASSUME o \in WeeklyOccs, occ'[o].status # "absent", NEW c \in Channels
      PROVE  \/ dlv'[<<o, c>>].status # "absent"
             \/ occ[o].status # "absent" /\ dlv[<<o, c>>].status = "absent"
  BY <1>1, <1>2, <1>5
<1>6. QED
  BY <1>3, <1>4, <1>5

\* Every operation of a task: the reminders it inserts are of a new generation.
LEMMA WriteUnsettling ==
    ASSUME TypeOK, CurrentInv, NEW t \in Tasks, NEW row, NEW remind,
           NEW oc \in OccTable, NEW dl \in DlvTable, NEW en,
           WriteTask(t, row, remind, oc, dl, en),
           \A o \in Occs : oc[o] = occ[o] \/ (o \notin WeeklyOccs /\ oc[o].status = "cancelled"),
           \A d \in Dlvs : dlv[d].status \in {"sent", "absent"} => dl[d] = dlv[d],
           \A d \in Dlvs : dl[d].status = "absent" => dlv[d].status = "absent"
    PROVE  Unsettling
<1> DEFINE make == remind /\ row.status = "pending" /\ row.due # Nil /\ row.due > now
           new == IF make THEN {r \in RulesOf(t) : r[3] = gen[t] + 1} ELSE {}
           ahead == {o \in new : row.due + o[4] > now}
           at == [o \in ahead |-> row.due + o[4]]
<1>1. occ' = EnsureOccs(oc, ahead, at) /\ dlv' = EnsureDlvs(dl, ahead \X Channels)
  BY DEF WriteTask
<1>2. ASSUME NEW o \in ahead PROVE o \notin WeeklyOccs /\ occ[o].status = "absent"
  <2>1. o \in DeadlineRules /\ TaskOf(o) = t /\ o[3] = gen[t] + 1
    BY DEF RulesOf
  <2>2. gen[t] \in Int
    BY StoreAssumption DEF TypeOK
  <2>3. o[3] > gen[TaskOf(o)]
    BY <2>1, <2>2
  <2>4. QED
    BY <2>1, <2>3, KindsDiffer DEF CurrentInv, RulesCurrent
<1> HIDE DEF ahead, at
<1>3. QED
  BY <1>1, <1>2, InsertUnsettling

\* The steps of TaskService, of the one-time adapter and of the weekly rule.
LEMMA TableStepUnsettling ==
    ASSUME TypeOK, CurrentInv, TaskStep \/ OneTimeStep \/ EnsureStockRule
    PROVE  Unsettling
<1>1. occ \in OccTable /\ dlv \in DlvTable
  BY DEF TypeOK
<1>2. ASSUME NEW S, NEW d \in Dlvs
      PROVE  /\ CancelDlvs(dlv, S) \in DlvTable
             /\ dlv[d].status \in {"sent", "absent"} => CancelDlvs(dlv, S)[d] = dlv[d]
             /\ CancelDlvs(dlv, S)[d].status = "absent" => dlv[d].status = "absent"
  <2>1. dlv[d].status \in {"sent", "absent"} => CancelDlvs(dlv, S)[d] = dlv[d]
    BY DEF CancelDlvs, Active
  <2>2. QED
    BY <1>1, <2>1, CancelType, RowStatements
<1>3. ASSUME NEW t \in Tasks, NEW row, NEW remind, Replace(t, row, remind)
      PROVE  Unsettling
  <2>1. CancelTaskOccs(occ, t) \in OccTable /\ CancelDlvs(dlv, RulesOf(t)) \in DlvTable
    BY <1>1, CancelType
  <2>2. \A o \in Occs : \/ CancelTaskOccs(occ, t)[o] = occ[o]
                        \/ o \notin WeeklyOccs /\ CancelTaskOccs(occ, t)[o].status = "cancelled"
    BY <1>1, KindsDiffer DEF CancelTaskOccs, OccTable, RulesOf
  <2>3. QED
    BY <1>2, <1>3, <2>1, <2>2, WriteUnsettling DEF Replace
<1>4. ASSUME NEW t \in Tasks, CreateTask(t) PROVE Unsettling
  BY <1>1, <1>4, WriteUnsettling DEF CreateTask
<1>5. CASE TaskStep
  BY <1>3, <1>4, <1>5 DEF TaskStep, UpdateDue, CompleteTask, CancelTask, ReopenTask
<1>6. ASSUME NEW r \in OneTimeRules, CreateOneTime(r) PROVE Unsettling
  <2>1. PICK at, cs : /\ occ' = EnsureOccs(occ, {r}, at)
                      /\ dlv' = EnsureDlvs(dlv, {r} \X cs)
    BY <1>6 DEF CreateOneTime
  <2>2. r \notin WeeklyOccs /\ occ[r].status = "absent"
    BY <1>6, KindsDiffer DEF CreateOneTime
  <2>3. QED
    BY <1>1, <2>1, <2>2, InsertUnsettling
<1>7. ASSUME NEW r \in OneTimeRules, CancelOneTime(r) PROVE Unsettling
  <2>1. /\ occ' = [occ EXCEPT ![r].status = "cancelled"]
        /\ dlv' = CancelDlvs(dlv, {r}) /\ r \in Occs /\ r \notin WeeklyOccs
    BY <1>7, OccKinds, KindsDiffer DEF CancelOneTime
  <2>2. \A o \in Occs : occ'[o] = occ[o] \/ (o \notin WeeklyOccs /\ occ'[o].status = "cancelled")
    BY <1>1, <2>1 DEF OccTable
  <2>3. \A o \in Occs : \A c \in Channels : <<o, c>> \in Dlvs
    BY DlvNames
  <2>4. QED
    BY <1>2, <2>1, <2>2, <2>3 DEF Unsettling
<1>8. CASE EnsureStockRule
  BY <1>8 DEF EnsureStockRule, Unsettling
<1>9. QED
  BY <1>5, <1>6, <1>7, <1>8 DEF OneTimeStep

\* claim_due inserts no delivery of a completed occurrence, and completes none.
LEMMA ClaimUnsettling ==
    ASSUME TypeOK, CurrentInv, SentInv, NEW e \in Execs, ClaimDue(e)
    PROVE  Unsettling
<1> DEFINE ch == ChannelOf(e)
           dl1 == EnsureDlvs(dlv, WantedNow \X Channels)
<1>1. PICK B \in SUBSET Claimable(MergedOccs(ch), MergedDlvs(ch), ch, now) :
          dlv' = ClaimDlvs(MergedDlvs(ch), B, now) /\ occ' = MergedOccs(ch)
  BY ClaimRows
<1>2. /\ occ \in OccTable /\ GenOccs \in OccTable /\ LiveOccs \in OccTable
      /\ dlv \in DlvTable /\ dl1 \in DlvTable /\ GenDlvs \in DlvTable
      /\ LiveDlvs \in DlvTable /\ MergedDlvs(ch) \in DlvTable
  BY EnsureDlvsType, StagesType DEF TypeOK
<1>3. ASSUME NEW d \in Dlvs
      PROVE  dlv'[d].status = "absent" <=> dl1[d].status = "absent"
  <2>1. GenDlvs[d].status = "absent" <=> dl1[d].status = "absent"
    BY <1>2, RowStatements DEF GenDlvs
  <2>2. LiveDlvs[d].status = "absent" <=> GenDlvs[d].status = "absent"
    BY <1>2, RowStatements DEF LiveDlvs
  <2>3. MergedDlvs(ch)[d].status = "absent" <=> LiveDlvs[d].status = "absent"
    BY <1>2, RowStatements DEF MergedDlvs
  <2>4. dlv'[d].status = "absent" <=> MergedDlvs(ch)[d].status = "absent"
    <3>1. \A b \in B : MergedDlvs(ch)[b].status = "pending"
      BY DEF Claimable
    <3>2. QED
      BY <1>1, <1>2, <3>1, RowStatements
  <2>5. QED
    BY <2>1, <2>2, <2>3, <2>4
<1>4. ASSUME NEW d \in Dlvs, dlv[d].status = "sent"
      PROVE  dlv'[d] = dlv[d]
  <2>1. MergedDlvs(ch)[d] = dlv[d]
    BY <1>4, StagesKeep DEF Final
  <2>2. d \notin B
    BY <1>4, <2>1 DEF Claimable
  <2>3. QED
    BY <1>1, <1>2, <2>1, <2>2, ClaimedRow
<1>5. ASSUME NEW o \in Occs
      PROVE  /\ o \notin WantedNow => GenOccs[o] = occ[o]
             /\ GenOccs[o].status = "completed" => occ[o].status = "completed"
             /\ occ'[o].status = "completed" => GenOccs[o].status = "completed"
             /\ occ'[o].status # "absent" => GenOccs[o].status # "absent"
  <2>1. /\ o \notin WantedNow => GenOccs[o] = occ[o]
        /\ GenOccs[o].status = "completed" => occ[o].status = "completed"
    BY DEF GenOccs, EnsureOccs
  <2>2. \/ LiveOccs[o] = GenOccs[o]
        \/ GenOccs[o].status = "pending" /\ LiveOccs[o].status = "skipped"
    BY <1>2, SkippedOcc DEF LiveOccs
  <2>3. \/ occ'[o] = LiveOccs[o]
        \/ LiveOccs[o].status = "pending" /\ occ'[o].status = "skipped"
    BY <1>1, <1>2, SkippedOcc DEF MergedOccs
  <2>4. QED
    BY <2>1, <2>2, <2>3
<1>6. ASSUME NEW o \in Occs, occ[o].status = "completed", NEW c \in Channels,
             dlv[<<o, c>>].status = "absent"
      PROVE  o \notin WantedNow
  <2>1. o \notin WeeklyOccs
    BY <1>6 DEF SentInv, WeeklyPaired
  <2>2. o \notin DeadlineRules
    BY <1>6 DEF CurrentInv, Paired
  <2>3. QED
    BY <2>1, <2>2 DEF WantedNow, Wanted
<1>7. ASSUME NEW o \in Occs, NEW c \in Channels
      PROVE  /\ <<o, c>> \in Dlvs
             /\ o \notin WantedNow => dl1[<<o, c>>] = dlv[<<o, c>>]
             /\ o \in WantedNow => dl1[<<o, c>>].status # "absent"
             /\ dl1[<<o, c>>].status = "absent" => dlv[<<o, c>>].status = "absent"
  BY DlvNames DEF EnsureDlvs, NewDlv, AbsentDlv
<1> HIDE DEF dl1
<1>8. ASSUME NEW o \in Occs, occ'[o].status = "completed"
      PROVE  /\ occ[o].status = "completed"
             /\ \A c \in Channels : dlv[<<o, c>>].status \in {"sent", "absent"}
                    => dlv'[<<o, c>>].status = dlv[<<o, c>>].status
  <2>1. occ[o].status = "completed"
    BY <1>5, <1>8
  <2>2. ASSUME NEW c \in Channels, dlv[<<o, c>>].status = "absent"
        PROVE  dlv'[<<o, c>>].status = "absent"
    BY <1>3, <1>6, <1>7, <2>1, <2>2
  <2>3. QED
    BY <1>4, <1>7, <2>1, <2>2
<1>9. ASSUME NEW o \in WeeklyOccs, occ'[o].status # "absent", NEW c \in Channels
      PROVE  \/ dlv'[<<o, c>>].status # "absent"
             \/ occ[o].status # "absent" /\ dlv[<<o, c>>].status = "absent"
  <2>1. o \in Occs
    BY OccKinds
  <2>2. GenOccs[o].status # "absent"
    BY <1>5, <1>9, <2>1
  <2>3. CASE o \in WantedNow
    BY <1>3, <1>7, <2>1, <2>3
  <2>4. CASE o \notin WantedNow
    BY <1>3, <1>5, <1>7, <2>1, <2>2, <2>4
  <2>5. QED
    BY <2>3, <2>4
<1>10. QED
  BY <1>8, <1>9 DEF Unsettling

\* Settling completes an occurrence only when each of its rows was sent.
LEMMA SettleCompletes ==
    ASSUME NEW oc \in OccTable, NEW dl \in DlvTable, NEW o \in Occs, NEW p \in Occs,
           Settle(oc, dl, o)[p].status = "completed"
    PROVE  \/ oc[p].status = "completed"
           \/ \A c \in Channels : dl[<<p, c>>].status \in {"sent", "absent"}
<1> DEFINE rows == {dl[<<o, c>>] : c \in Channels} \ {AbsentDlv}
<1>1. CASE \/ p # o
           \/ Settle(oc, dl, o) \in {oc, [oc EXCEPT ![o].status = "skipped"]}
  BY <1>1 DEF Settle, OccTable
<1>2. CASE \A r \in rows : r.status = "sent"
  <2>1. AbsentDlv.status = "absent"
    BY DEF AbsentDlv
  <2>2. \A c \in Channels : dl[<<o, c>>].status \in {"sent", "absent"}
    BY <1>2, <2>1
  <2>3. QED
    BY <1>1, <2>2
<1>3. QED
  BY <1>1, <1>2 DEF Settle

\* Recording a result touches no row of a completed occurrence.
LEMMA MarkSent ==
    ASSUME TypeOK, TypeOK', SentInv, NEW e \in Execs, Mark(e)
    PROVE  SentInv'
<1>1. PICK c \in exec[e].inflight :
       LET holds == Holds(dlv[c.id], c)
           row == Result(dlv[c.id], exec[e].result, c.token, now)
       IN /\ dlv' = IF holds THEN [dlv EXCEPT ![c.id] = row] ELSE dlv
          /\ occ' = IF holds /\ row.status \in Final THEN Settle(occ, dlv', c.id[1]) ELSE occ
  BY DEF Mark
<1>2. c \in Claim /\ c.id \in Dlvs /\ c.id[1] \in Occs
  BY DEF TypeOK, Run, Claim, Dlvs
<1>3. /\ occ \in OccTable /\ dlv \in DlvTable /\ dlv' \in DlvTable
  BY DEF TypeOK
<1>4. Result(dlv[c.id], exec[e].result, c.token, now).status \in {"sent", "failed", "pending"}
  BY <1>2, <1>3 DEF Result, Released, DlvTable
<1>5. ASSUME NEW d \in Dlvs
      PROVE  \/ dlv'[d] = dlv[d]
             \/ /\ dlv[d].status = "sending"
                /\ dlv'[d].status \in {"sent", "failed", "pending"}
  BY <1>1, <1>2, <1>3, <1>4 DEF Holds, DlvTable
<1>6. \A o \in Occs : \A ch \in Channels : <<o, ch>> \in Dlvs
  BY DlvNames
<1>7. CompletedMeansSent'
  <2> SUFFICES ASSUME NEW p \in Occs, occ'[p].status = "completed", NEW ch \in Channels
               PROVE  dlv'[<<p, ch>>].status \in {"sent", "absent"}
    BY DEF CompletedMeansSent
  <2>1. \/ occ[p].status = "completed"
        \/ dlv'[<<p, ch>>].status \in {"sent", "absent"}
    BY <1>1, <1>2, <1>3, SettleCompletes
  <2>2. QED
    BY <1>5, <1>6, <2>1 DEF SentInv, CompletedMeansSent
<1>8. WeeklyPaired'
  <2>1. ASSUME NEW p \in Occs PROVE occ'[p].status # "absent" => occ[p].status # "absent"
    BY <1>1, <1>2, <1>3, SettleEnds
  <2>2. QED
    BY <1>5, <1>6, <2>1, OccKinds DEF SentInv, WeeklyPaired
<1>9. QED
  BY <1>7, <1>8 DEF SentInv

\* An occurrence that settled as completed went out on every channel it has, and stays so.
THEOREM CompletedWasSent == Spec => []CompletedMeansSent
<1>1. Init => SentInv
  <2>1. Init => \A o \in Occs : occ[o].status = "absent"
    BY DEF Init, AbsentOcc
  <2>2. QED
    BY <2>1, OccKinds DEF SentInv, CompletedMeansSent, WeeklyPaired
<1>2. TypeOK /\ TypeOK' /\ CurrentInv /\ SentInv /\ [Next]_vars => SentInv'
  <2> SUFFICES ASSUME TypeOK, TypeOK', CurrentInv, SentInv, [Next]_vars PROVE SentInv'
    OBVIOUS
  <2>1. CASE TaskStep \/ OneTimeStep \/ EnsureStockRule
    BY <2>1, TableStepUnsettling, UnsettlingKeeps
  <2>2. ASSUME NEW e \in Execs, ClaimDue(e) PROVE SentInv'
    BY <2>2, ClaimUnsettling, UnsettlingKeeps
  <2>3. ASSUME NEW e \in Execs, Mark(e) PROVE SentInv'
    BY <2>3, MarkSent
  <2>4. ASSUME UNCHANGED <<occ, dlv>> PROVE SentInv'
    BY <2>4 DEF SentInv, CompletedMeansSent, WeeklyPaired
  <2>5. CASE (\E e \in Execs : Send(e) \/ Crash(e)) \/ Tick \/ UNCHANGED vars
    BY <2>4, <2>5 DEF Send, Crash, Tick, vars, tables
  <2>6. QED
    BY <2>1, <2>2, <2>3, <2>5 DEF Next, ExecStep
<1>3. SentInv => CompletedMeansSent
  BY DEF SentInv
<1>4. QED
  BY <1>1, <1>2, <1>3, CurrentInit, CurrentStep, TypeCorrect, PTL DEF Spec
=============================================================================
