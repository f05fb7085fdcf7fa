-------------------------- MODULE TaskReminders_once --------------------------
(***************************************************************************)
(* What becomes of a delivery row, for any tasks, reminders, executors and *)
(* bounds: what was decided stays decided, nothing is sent twice, the      *)
(* whole implements the outbox, only the holder of a claim records its     *)
(* result, and claims come neither late nor without end.  That nothing is  *)
(* sent twice, the outbox and the limit of attempts need executors that    *)
(* die before their lease does: RunLimit <= Lease.                         *)
(***************************************************************************)
EXTENDS TaskReminders_proofs

-----------------------------------------------------------------------------
(* Rows that no statement of the store touches *)

\* A final row: no INSERT, UPDATE or claim of the repository changes it.
LEMMA FinalRowKept ==
    ASSUME NEW dl \in DlvTable, NEW d \in Dlvs, dl[d].status \in Final
    PROVE  /\ \A D : EnsureDlvs(dl, D)[d] = dl[d]
           /\ \A S : CancelDlvs(dl, S)[d] = dl[d]
           /\ \A t : RecoverLeases(dl, t)[d] = dl[d]
           /\ \A D, code : SkipDlvs(dl, D, code)[d] = dl[d]
           /\ \A B, t : d \notin B => ClaimDlvs(dl, B, t)[d] = dl[d]
  BY DEF EnsureDlvs, CancelDlvs, RecoverLeases, SkipDlvs, ClaimDlvs, Final, Active

\* A row that is being sent under a living lease: only a withdrawal changes it.
LEMMA SendingRowKept ==
    ASSUME NEW dl \in DlvTable, NEW d \in Dlvs, dl[d].status = "sending"
    PROVE  /\ \A D : EnsureDlvs(dl, D)[d] = dl[d]
           /\ \A S : CancelDlvs(dl, S)[d] = dl[d] \/ CancelDlvs(dl, S)[d].status = "skipped"
           /\ \A t : ~(dl[d].claimedAt <= t - Lease) => RecoverLeases(dl, t)[d] = dl[d]
           /\ \A D, code : SkipDlvs(dl, D, code)[d] = dl[d]
           /\ \A B, t : d \notin B => ClaimDlvs(dl, B, t)[d] = dl[d]
<1>1. ASSUME NEW S
      PROVE  CancelDlvs(dl, S)[d] = dl[d] \/ CancelDlvs(dl, S)[d].status = "skipped"
  <2>1. CancelDlvs(dl, S)[d] \in {dl[d], Released(dl[d], "skipped", Nil, "cancelled")}
    BY DEF CancelDlvs
  <2>2. Released(dl[d], "skipped", Nil, "cancelled").status = "skipped" \/ CancelDlvs(dl, S)[d] = dl[d]
    BY DEF Released, DlvTable
  <2>3. QED
    BY <2>1, <2>2
<1>2. QED
  BY <1>1 DEF EnsureDlvs, RecoverLeases, SkipDlvs, ClaimDlvs

\* The stages of claim_due leave both kinds of row alone.
LEMMA StagesKeep ==
    ASSUME TypeOK, NEW c, NEW d \in Dlvs,
           \/ dlv[d].status \in Final
           \/ dlv[d].status = "sending" /\ ~(dlv[d].claimedAt <= now - Lease)
    PROVE  MergedDlvs(c)[d] = dlv[d]
<1> DEFINE dl1 == EnsureDlvs(dlv, WantedNow \X Channels)
<1>1. dlv \in DlvTable /\ dl1 \in DlvTable /\ GenDlvs \in DlvTable /\ LiveDlvs \in DlvTable
  BY EnsureDlvsType, StagesType DEF TypeOK
<1>2. dl1[d] = dlv[d]
  BY <1>1, FinalRowKept, SendingRowKept
<1>3. GenDlvs[d] = dl1[d]
  BY <1>1, <1>2, FinalRowKept, SendingRowKept DEF GenDlvs
<1>4. LiveDlvs[d] = GenDlvs[d]
  BY <1>1, <1>2, <1>3, FinalRowKept, SendingRowKept DEF LiveDlvs
<1>5. MergedDlvs(c)[d] = LiveDlvs[d]
  BY <1>1, <1>2, <1>3, <1>4, FinalRowKept, SendingRowKept DEF MergedDlvs
<1>6. QED
  BY <1>2, <1>3, <1>4, <1>5

\* What claim_due hands to an executor was pending when the transaction claimed it.
LEMMA ClaimedWasPending ==
    ASSUME TypeOK, NEW c, NEW oc, NEW n,
           NEW B \in Earliest(Claimable(oc, MergedDlvs(c), c, now), oc, n)
    PROVE  B \subseteq Dlvs /\ \A d \in B : MergedDlvs(c)[d].status = "pending"
  BY DEF Earliest, Claimable

-----------------------------------------------------------------------------
(* Final rows are history *)

\* The tables a task operation writes, or a stutter, keep every final row and only
\* withdraw what is being sent.
KeepsRows ==
    \A d \in Dlvs : /\ dlv[d].status \in Final => dlv'[d] = dlv[d]
                    /\ dlv[d].status = "sending"
                          => dlv'[d] = dlv[d] \/ dlv'[d].status = "skipped"

\* Withdrawing, then inserting, keeps rows in that sense.
LEMMA WithdrawInsertKeeps ==
    ASSUME TypeOK, NEW S, NEW D, dlv' = EnsureDlvs(CancelDlvs(dlv, S), D)
    PROVE  KeepsRows
<1> SUFFICES ASSUME NEW d \in Dlvs
             PROVE  /\ dlv[d].status \in Final => dlv'[d] = dlv[d]
                    /\ dlv[d].status = "sending"
                          => dlv'[d] = dlv[d] \/ dlv'[d].status = "skipped"
  BY DEF KeepsRows
<1>1. dlv \in DlvTable /\ CancelDlvs(dlv, S) \in DlvTable
  BY CancelType DEF TypeOK
<1>2. CASE dlv[d].status \in Final
  <2>1. CancelDlvs(dlv, S)[d] = dlv[d]
    BY <1>1, <1>2, FinalRowKept
  <2>2. QED
    BY <1>1, <1>2, <2>1, FinalRowKept DEF Final
<1>3. CASE dlv[d].status = "sending"
  <2>1. CancelDlvs(dlv, S)[d] = dlv[d] \/ CancelDlvs(dlv, S)[d].status = "skipped"
    BY <1>1, <1>3, SendingRowKept
  <2>2. "skipped" \in Final
    BY DEF Final
  <2>3. QED
    BY <1>1, <1>3, <2>1, <2>2, FinalRowKept, SendingRowKept DEF Final
<1>4. QED
  BY <1>2, <1>3

\* So does inserting alone.
LEMMA InsertKeeps ==
    ASSUME TypeOK, NEW D, dlv' = EnsureDlvs(dlv, D)
    PROVE  KeepsRows
  BY FinalRowKept, SendingRowKept DEF TypeOK, KeepsRows

\* Every step of TaskService, of the one-time adapter and of the weekly rule.
LEMMA TableStepKeeps ==
    ASSUME TypeOK, TaskStep \/ OneTimeStep \/ EnsureStockRule
    PROVE  KeepsRows /\ UNCHANGED <<now, exec, sends, lost, crashes>>
<1>1. ASSUME NEW t \in Tasks, NEW row, NEW remind, Replace(t, row, remind)
      PROVE  KeepsRows /\ UNCHANGED <<now, exec, sends, lost, crashes>>
  BY <1>1, WithdrawInsertKeeps DEF Replace, WriteTask
<1>2. ASSUME NEW t \in Tasks, CreateTask(t)
      PROVE  KeepsRows /\ UNCHANGED <<now, exec, sends, lost, crashes>>
  BY <1>2, InsertKeeps DEF CreateTask, WriteTask
<1>3. CASE TaskStep
  BY <1>1, <1>2, <1>3 DEF TaskStep, UpdateDue, CompleteTask, CancelTask, ReopenTask
<1>4. ASSUME NEW r \in OneTimeRules, CreateOneTime(r)
      PROVE  KeepsRows /\ UNCHANGED <<now, exec, sends, lost, crashes>>
  BY <1>4, InsertKeeps DEF CreateOneTime
<1>5. ASSUME NEW r \in OneTimeRules, CancelOneTime(r)
      PROVE  KeepsRows /\ UNCHANGED <<now, exec, sends, lost, crashes>>
  BY <1>5, FinalRowKept, SendingRowKept DEF TypeOK, KeepsRows, CancelOneTime
<1>6. CASE EnsureStockRule
  BY <1>6 DEF EnsureStockRule, KeepsRows
<1>7. QED
  BY <1>3, <1>4, <1>5, <1>6 DEF OneTimeStep

\* The row a result is written to was being sent.
LEMMA MarkRow ==
    ASSUME TypeOK, NEW e \in Execs, Mark(e)
    PROVE  \E c \in exec[e].inflight :
              /\ c.id \in Dlvs
              /\ IF Holds(dlv[c.id], c)
                 THEN dlv' = [dlv EXCEPT ![c.id] =
                                 Result(dlv[c.id], exec[e].result, c.token, now)]
                 ELSE dlv' = dlv
              /\ exec' = [exec EXCEPT ![e] =
                     IF exec[e].batch \ {c} = {} THEN Idle
                     ELSE [exec[e] EXCEPT !.batch = exec[e].batch \ {c},
                                          !.inflight = {}, !.result = "ok"]]
              /\ UNCHANGED <<now, sends, lost>>
<1>1. PICK c \in exec[e].inflight :
       LET holds == Holds(dlv[c.id], c)
           row == Result(dlv[c.id], exec[e].result, c.token, now)
           rest == exec[e].batch \ {c}
       IN /\ dlv' = IF holds THEN [dlv EXCEPT ![c.id] = row] ELSE dlv
          /\ exec' = [exec EXCEPT ![e] =
                 IF rest = {} THEN Idle
                 ELSE [exec[e] EXCEPT !.batch = rest, !.inflight = {}, !.result = "ok"]]
          /\ UNCHANGED <<now, task, gen, enabled, sends, lost, crashes>>
  BY DEF Mark
<1>2. c.id \in Dlvs
  <2>1. exec[e].inflight \subseteq Claim
    BY DEF TypeOK, Run
  <2>2. QED
    BY <2>1 DEF Claim
<1>3. QED
  BY <1>1, <1>2

\* A delivery that was sent, failed or was skipped never changes again: no later
\* transaction of any actor reopens, resends or relabels it.
THEOREM FinalRowsStay == Spec => FinalIsFinal
<1>1. TypeOK /\ [Next]_vars
          => [\A d \in Dlvs : dlv[d].status \in Final => dlv'[d] = dlv[d]]_vars
  <2> SUFFICES ASSUME TypeOK, [Next]_vars, NEW d \in Dlvs, dlv[d].status \in Final
               PROVE  dlv'[d] = dlv[d]
    OBVIOUS
  <2>1. CASE TaskStep \/ OneTimeStep \/ EnsureStockRule
    BY <2>1, TableStepKeeps DEF KeepsRows
  <2>2. ASSUME NEW e \in Execs, ClaimDue(e) PROVE dlv'[d] = dlv[d]
    <3> DEFINE c == ChannelOf(e)
    <3>1. PICK B \in Earliest(Claimable(MergedOccs(c), MergedDlvs(c), c, now),
                              MergedOccs(c), LimitOf(e)) :
              dlv' = ClaimDlvs(MergedDlvs(c), B, now)
      BY <2>2 DEF ClaimDue
    <3>2. MergedDlvs(c)[d] = dlv[d]
      BY StagesKeep
    <3>3. d \notin B
      BY <3>2, ClaimedWasPending DEF Final
    <3>4. MergedDlvs(c) \in DlvTable
      BY StagesType
    <3>5. QED
      BY <3>1, <3>2, <3>3, <3>4, FinalRowKept
  <2>3. ASSUME NEW e \in Execs, Mark(e) PROVE dlv'[d] = dlv[d]
    <3>1. PICK c \in exec[e].inflight :
              /\ c.id \in Dlvs
              /\ IF Holds(dlv[c.id], c)
                 THEN dlv' = [dlv EXCEPT ![c.id] =
                                 Result(dlv[c.id], exec[e].result, c.token, now)]
                 ELSE dlv' = dlv
      BY <2>3, MarkRow
    <3>2. Holds(dlv[c.id], c) => c.id # d
      BY DEF Holds, Final
    <3>3. QED
      BY <3>1, <3>2 DEF TypeOK, DlvTable
  <2>4. ASSUME NEW e \in Execs, Send(e) \/ Crash(e) PROVE dlv'[d] = dlv[d]
    BY <2>4 DEF Send, Crash, tables
  <2>5. CASE Tick \/ UNCHANGED vars
    BY <2>5 DEF Tick, tables, vars
  <2>6. QED
    BY <2>1, <2>2, <2>3, <2>4, <2>5 DEF Next, ExecStep
<1>2. QED
  BY <1>1, TypeCorrect, PTL DEF Spec, FinalIsFinal

-----------------------------------------------------------------------------
(* Nothing is sent twice *)

\* Every claim an executor holds is young, and its row is still the one that was
\* claimed, or was withdrawn; at most one claim of a batch is being sent.
ClaimsCurrent ==
    \A e \in Execs :
        /\ exec[e].inflight \subseteq exec[e].batch
        /\ \A b, c \in exec[e].inflight : b = c
        /\ \A c \in exec[e].batch :
              /\ exec[e].started \in Time
              /\ exec[e].started <= now /\ now < exec[e].started + RunLimit
              /\ \/ /\ dlv[c.id].status = "sending"
                    /\ dlv[c.id].token = c.token
                    /\ dlv[c.id].claimedAt = exec[e].started
                 \/ dlv[c.id].status = "skipped"

\* Nobody else holds a claim on the same delivery.
ClaimsDisjoint ==
    \A e, f \in Execs : \A b \in exec[e].batch, c \in exec[f].batch :
        b.id = c.id => e = f /\ b = c

\* An executor has sent c and not yet written that back.
Sent(e, c) == c \in exec[e].inflight /\ exec[e].result = "ok"
Out(d) == \E e \in Execs : \E c \in exec[e].inflight : c.id = d /\ exec[e].result = "ok"

\* Where the count of a delivery's sends stands: at most the lost ones as long as its
\* row can still be claimed, or a claim on it is still to be sent.
SendsAccounted ==
    /\ \A d \in Dlvs : sends[d] <= 1 + lost[d]
    /\ \A d \in Dlvs : (dlv[d].status \notin {"sent", "skipped"} /\ ~Out(d))
                          => sends[d] <= lost[d]
    /\ \A e \in Execs : \A c \in exec[e].batch :
          ~Sent(e, c) => sends[c.id] <= lost[c.id]

OnceInv == ClaimsCurrent /\ ClaimsDisjoint /\ SendsAccounted

\* A claim names a delivery.
LEMMA ClaimIds ==
    ASSUME TypeOK, NEW e \in Execs
    PROVE  /\ exec[e] \in Run
           /\ \A c \in exec[e].batch \cup exec[e].inflight : c \in Claim /\ c.id \in Dlvs
<1>1. exec[e] \in Run
  BY DEF TypeOK
<1>2. exec[e].batch \subseteq Claim /\ exec[e].inflight \subseteq Claim
  BY <1>1 DEF Run
<1>3. QED
  BY <1>1, <1>2 DEF Claim

\* Initially nothing is claimed and nothing was sent.
LEMMA OnceInit == Init => OnceInv
<1> SUFFICES ASSUME Init PROVE OnceInv
  OBVIOUS
<1>1. \A e \in Execs : exec[e].batch = {} /\ exec[e].inflight = {}
  BY DEF Init, Idle
<1>2. ClaimsCurrent /\ ClaimsDisjoint
  BY <1>1 DEF ClaimsCurrent, ClaimsDisjoint
<1>3. SendsAccounted
  BY <1>1 DEF SendsAccounted, Init
<1>4. QED
  BY <1>2, <1>3 DEF OnceInv

\* A step that withdraws or inserts rows and leaves the executors alone.
LEMMA OnceQuiet ==
    ASSUME TypeOK, OnceInv, KeepsRows, UNCHANGED <<now, exec, sends, lost>>
    PROVE  OnceInv'
<1>1. ClaimsCurrent'
  <2>1. ASSUME NEW e \in Execs, NEW c \in exec[e].batch
        PROVE  dlv'[c.id] = dlv[c.id] \/ dlv'[c.id].status = "skipped"
    <3>1. c.id \in Dlvs
      BY ClaimIds
    <3>2. dlv[c.id].status = "sending" \/ dlv[c.id].status = "skipped"
      BY DEF OnceInv, ClaimsCurrent
    <3>3. QED
      BY <3>1, <3>2 DEF KeepsRows, Final
  <2>2. QED
    BY <2>1 DEF OnceInv, ClaimsCurrent
<1>2. ClaimsDisjoint'
  BY DEF OnceInv, ClaimsDisjoint
<1>3. SendsAccounted'
  <2>1. \A d \in Dlvs : dlv'[d].status \notin {"sent", "skipped"}
                            => dlv[d].status \notin {"sent", "skipped"}
    BY DEF KeepsRows, Final
  <2>3. QED
    BY <2>1 DEF OnceInv, SendsAccounted, Out, Sent
<1>4. QED
  BY <1>1, <1>2, <1>3 DEF OnceInv

\* With executors that die within their lease, claim_due takes only deliveries nobody
\* holds, and every claim that is held keeps its row.
LEMMA OnceClaim ==
    ASSUME TypeOK, OnceInv, RunLimit <= Lease, NEW e \in Execs, ClaimDue(e)
    PROVE  OnceInv'
<1> DEFINE ch == ChannelOf(e)
           dl == MergedDlvs(ch)
           New(B) == {[id |-> d, token |-> dl[d].attempts + 1] : d \in B}
<1>1. PICK B \in Earliest(Claimable(MergedOccs(ch), dl, ch, now), MergedOccs(ch), LimitOf(e)) :
          /\ dlv' = ClaimDlvs(dl, B, now)
          /\ exec' = [exec EXCEPT ![e] =
                 IF B = {} THEN Idle
                 ELSE [started |-> now, inflight |-> {}, result |-> "ok", batch |-> New(B)]]
          /\ UNCHANGED <<now, sends, lost>>
  BY DEF ClaimDue
<1>2. B \subseteq Dlvs /\ \A d \in B : dl[d].status = "pending"
  BY <1>1, ClaimedWasPending
<1>3. dl \in DlvTable /\ now \in Time /\ now \in Nat
  BY StagesType, Instants DEF TypeOK
<1>4. exec[e].batch = {} /\ exec[e].inflight = {}
  BY DEF ClaimDue, OnceInv, ClaimsCurrent
<1>5. ASSUME NEW f \in Execs \ {e}
      PROVE  exec'[f] = exec[f]
  BY <1>1 DEF TypeOK
<1>6. exec'[e].inflight = {} /\ exec'[e].batch = New(B)
  <2>1. exec'[e] = IF B = {} THEN Idle
                   ELSE [started |-> now, inflight |-> {}, result |-> "ok", batch |-> New(B)]
    BY <1>1 DEF TypeOK
  <2>2. B = {} => New(B) = {}
    OBVIOUS
  <2>3. QED
    BY <2>1, <2>2 DEF Idle
<1>7. B # {} => exec'[e].started = now
  BY <1>1 DEF TypeOK
<1>8. ASSUME NEW f \in Execs, NEW c \in exec[f].batch
      PROVE  c.id \in Dlvs /\ c.id \notin B /\ dlv'[c.id] = dlv[c.id]
  <2>1. c.id \in Dlvs
    BY ClaimIds
  <2>2. dl[c.id] = dlv[c.id] /\ dlv[c.id].status \in {"sending", "skipped"}
    <3>1. CASE dlv[c.id].status = "skipped"
      BY <2>1, <3>1, StagesKeep DEF Final
    <3>2. CASE dlv[c.id].status = "sending" /\ dlv[c.id].claimedAt = exec[f].started
      <4>1. exec[f].started \in Nat /\ now < exec[f].started + RunLimit
        BY Instants DEF OnceInv, ClaimsCurrent
      <4>2. ~(dlv[c.id].claimedAt <= now - Lease)
        BY <1>3, <3>2, <4>1, StoreAssumption, ExecAssumption
      <4>3. QED
        BY <2>1, <3>2, <4>2, StagesKeep
    <3>3. QED
      BY <3>1, <3>2 DEF OnceInv, ClaimsCurrent
  <2>3. c.id \notin B
    BY <1>2, <2>2
  <2>4. dlv'[c.id] = dl[c.id]
    BY <1>1, <2>1, <2>3 DEF ClaimDlvs
  <2>5. QED
    BY <2>1, <2>2, <2>3, <2>4
<1>9. ASSUME NEW d \in B
      PROVE  /\ dlv'[d].status = "sending" /\ dlv'[d].token = dl[d].attempts + 1
             /\ dlv'[d].claimedAt = now
  BY <1>1, <1>2, <1>3 DEF ClaimDlvs, DlvTable
<1>10. ASSUME NEW c \in New(B)
       PROVE  c.id \in B /\ c.token = dl[c.id].attempts + 1
  OBVIOUS
<1>11. ASSUME NEW b \in New(B), NEW c \in New(B), b.id = c.id
       PROVE  b = c
  BY <1>11
<1>12. ClaimsCurrent'
  <2>1. ASSUME NEW f \in Execs \ {e}, NEW c \in exec'[f].batch
        PROVE  /\ exec'[f].started \in Time
               /\ exec'[f].started <= now' /\ now' < exec'[f].started + RunLimit
               /\ \/ /\ dlv'[c.id].status = "sending"
                     /\ dlv'[c.id].token = c.token
                     /\ dlv'[c.id].claimedAt = exec'[f].started
                  \/ dlv'[c.id].status = "skipped"
    BY <1>1, <1>5, <1>8 DEF OnceInv, ClaimsCurrent
  <2>2. ASSUME NEW c \in exec'[e].batch
        PROVE  /\ exec'[e].started \in Time
               /\ exec'[e].started <= now' /\ now' < exec'[e].started + RunLimit
               /\ dlv'[c.id].status = "sending" /\ dlv'[c.id].token = c.token
               /\ dlv'[c.id].claimedAt = exec'[e].started
    <3>1. B # {} /\ c \in New(B)
      BY <1>6
    <3>2. now < now + RunLimit
      BY <1>3, ExecAssumption
    <3>3. QED
      BY <1>1, <1>3, <1>7, <1>9, <1>10, <3>1, <3>2
  <2>3. \A f \in Execs : /\ exec'[f].inflight \subseteq exec'[f].batch
                         /\ \A b, c \in exec'[f].inflight : b = c
    BY <1>5, <1>6 DEF OnceInv, ClaimsCurrent
  <2>4. QED
    BY <2>1, <2>2, <2>3 DEF ClaimsCurrent
<1>13. ClaimsDisjoint'
  <2> SUFFICES ASSUME NEW f \in Execs, NEW g \in Execs,
                      NEW b \in exec'[f].batch, NEW c \in exec'[g].batch, b.id = c.id
               PROVE  f = g /\ b = c
    BY DEF ClaimsDisjoint
  <2>1. CASE f # e /\ g # e
    BY <1>5, <2>1 DEF OnceInv, ClaimsDisjoint
  <2>2. CASE f = e /\ g = e
    BY <1>6, <1>11, <2>2
  <2>3. CASE (f = e /\ g # e) \/ (f # e /\ g = e)
    BY <1>5, <1>6, <1>8, <1>10, <2>3
  <2>4. QED
    BY <2>1, <2>2, <2>3
<1>14. \A d \in Dlvs : Out(d)' <=> Out(d)
  BY <1>4, <1>5, <1>6 DEF Out
<1>15. ASSUME NEW d \in Dlvs, dl[d].status \notin {"sent", "skipped"}
       PROVE  dlv[d].status \notin {"sent", "skipped"}
  BY <1>15, StagesKeep DEF Final
<1>16. ASSUME NEW d \in B
       PROVE  sends[d] <= lost[d]
  <2>1. ~Out(d)
    BY <1>8 DEF Out, OnceInv, ClaimsCurrent
  <2>2. dlv[d].status \notin {"sent", "skipped"}
    BY <1>2, <1>15
  <2>3. QED
    BY <1>2, <2>1, <2>2 DEF OnceInv, SendsAccounted
<1>17. SendsAccounted'
  <2>1. \A d \in Dlvs : sends'[d] <= 1 + lost'[d]
    BY <1>1 DEF OnceInv, SendsAccounted
  <2>2. ASSUME NEW d \in Dlvs, dlv'[d].status \notin {"sent", "skipped"}, ~Out(d)'
        PROVE  sends'[d] <= lost'[d]
    <3>1. CASE d \in B
      BY <1>1, <1>16, <3>1
    <3>2. CASE d \notin B
      <4>1. dlv'[d] = dl[d]
        BY <1>1, <3>2 DEF ClaimDlvs
      <4>2. QED
        BY <1>1, <1>14, <1>15, <2>2, <4>1 DEF OnceInv, SendsAccounted
    <3>3. QED
      BY <3>1, <3>2
  <2>3. ASSUME NEW f \in Execs, NEW c \in exec'[f].batch, ~Sent(f, c)'
        PROVE  sends'[c.id] <= lost'[c.id]
    <3>1. CASE f = e
      BY <1>1, <1>6, <1>10, <1>16, <3>1
    <3>2. CASE f # e
      BY <1>1, <1>5, <2>3, <3>2 DEF OnceInv, SendsAccounted, Sent
    <3>3. QED
      BY <3>1, <3>2
  <2>4. QED
    BY <2>1, <2>2, <2>3 DEF SendsAccounted
<1>18. QED
  BY <1>12, <1>13, <1>17 DEF OnceInv

\* Sending a claim counts one send, at most, of a delivery that had none unaccounted for;
\* one that is reported as a failure is accounted for at once.
LEMMA OnceSend ==
    ASSUME TypeOK, OnceInv, NEW e \in Execs, Send(e)
    PROVE  OnceInv'
<1>1. PICK c \in exec[e].batch, result \in SendResult, out \in BOOLEAN :
          /\ result = "ok" => out
          /\ exec' = [exec EXCEPT ![e].inflight = {c}, ![e].result = result]
          /\ sends' = IF out THEN [sends EXCEPT ![c.id] = sends[c.id] + 1] ELSE sends
          /\ lost' = IF out /\ result # "ok" THEN [lost EXCEPT ![c.id] = lost[c.id] + 1]
                                            ELSE lost
  BY DEF Send
<1>2. exec[e].inflight = {} /\ UNCHANGED <<now, dlv>>
  BY DEF Send, tables
<1>3. c.id \in Dlvs /\ exec[e] \in Run
  BY ClaimIds
<1>4. ASSUME NEW f \in Execs \ {e} PROVE exec'[f] = exec[f]
  BY <1>1 DEF TypeOK
<1>5. /\ exec'[e].batch = exec[e].batch /\ exec'[e].started = exec[e].started
      /\ exec'[e].inflight = {c} /\ exec'[e].result = result
  BY <1>1, <1>3 DEF TypeOK, Run
<1>6. ASSUME NEW f \in Execs PROVE exec'[f].batch = exec[f].batch
  BY <1>4, <1>5
<1>7. ClaimsCurrent'
  <2>1. ASSUME NEW f \in Execs
        PROVE  /\ exec'[f].inflight \subseteq exec'[f].batch
               /\ \A a, b \in exec'[f].inflight : a = b
    <3>1. CASE f = e
      <4>1. exec'[f].inflight = {c} /\ exec'[f].batch = exec[e].batch
        BY <1>5, <3>1
      <4>2. QED
        BY <4>1
    <3>2. CASE f # e
      BY <1>4, <3>2 DEF OnceInv, ClaimsCurrent
    <3>3. QED
      BY <3>1, <3>2
  <2>2. ASSUME NEW f \in Execs PROVE exec'[f].started = exec[f].started
    BY <1>4, <1>5
  <2>3. QED
    BY <1>2, <1>6, <2>1, <2>2 DEF OnceInv, ClaimsCurrent
<1>8. ClaimsDisjoint'
  BY <1>6 DEF OnceInv, ClaimsDisjoint
<1>9. sends[c.id] <= lost[c.id]    \* c is not in flight
  BY <1>2 DEF OnceInv, SendsAccounted, Sent
<1>10. /\ \A d \in Dlvs \ {c.id} : sends'[d] = sends[d] /\ lost'[d] = lost[d]
       /\ sends'[c.id] <= 1 + lost'[c.id]
       /\ result # "ok" => sends'[c.id] <= lost'[c.id]
  <2>1. sends[c.id] \in Nat /\ lost[c.id] \in Nat
    BY <1>3 DEF TypeOK
  <2>2. /\ sends'[c.id] = IF out THEN sends[c.id] + 1 ELSE sends[c.id]
        /\ lost'[c.id] = IF out /\ result # "ok" THEN lost[c.id] + 1 ELSE lost[c.id]
    BY <1>1, <1>3 DEF TypeOK
  <2>3. \A d \in Dlvs \ {c.id} : sends'[d] = sends[d] /\ lost'[d] = lost[d]
    BY <1>1, <1>3 DEF TypeOK
  <2>4. QED
    BY <1>9, <2>1, <2>2, <2>3
<1>11. SendsAccounted'
  <2>1. ASSUME NEW d \in Dlvs PROVE sends'[d] <= 1 + lost'[d]
    BY <1>10 DEF OnceInv, SendsAccounted
  <2>2. ASSUME NEW d \in Dlvs, dlv'[d].status \notin {"sent", "skipped"}, ~Out(d)'
        PROVE  sends'[d] <= lost'[d]
    <3>1. CASE d = c.id
      <4>1. result # "ok"
        BY <1>5, <2>2, <3>1 DEF Out
      <4>2. QED
        BY <1>10, <3>1, <4>1
    <3>2. CASE d # c.id
      <4>1. ~Out(d)
        BY <1>2, <1>4, <2>2 DEF Out
      <4>2. QED
        BY <1>2, <1>10, <2>2, <3>2, <4>1 DEF OnceInv, SendsAccounted
    <3>3. QED
      BY <3>1, <3>2
  <2>3. ASSUME NEW f \in Execs, NEW b \in exec'[f].batch, ~Sent(f, b)'
        PROVE  sends'[b.id] <= lost'[b.id]
    <3>1. b \in exec[f].batch /\ b.id \in Dlvs
      BY <1>6, ClaimIds
    <3>2. CASE b.id = c.id
      <4>1. f = e /\ b = c
        BY <3>1, <3>2 DEF OnceInv, ClaimsDisjoint
      <4>2. result # "ok"
        BY <1>5, <2>3, <4>1 DEF Sent
      <4>3. QED
        BY <1>10, <3>2, <4>2
    <3>3. CASE b.id # c.id
      <4>1. ~Sent(f, b)
        BY <1>2, <1>4, <2>3 DEF Sent
      <4>2. QED
        BY <1>10, <3>1, <3>3, <4>1 DEF OnceInv, SendsAccounted
    <3>4. QED
      BY <3>2, <3>3
  <2>4. QED
    BY <2>1, <2>2, <2>3 DEF SendsAccounted
<1>12. QED
  BY <1>7, <1>8, <1>11 DEF OnceInv

\* A written result is final when something was sent, and releases the row when not.
LEMMA ResultStatus ==
    ASSUME NEW dl \in DlvTable, NEW d \in Dlvs, NEW attempt, NEW t
    PROVE  Result(dl[d], "ok", attempt, t).status = "sent"
  BY DEF Result, Released, DlvTable

\* Writing a result back settles the account of the delivery that was sent.
LEMMA OnceMark ==
    ASSUME TypeOK, OnceInv, NEW e \in Execs, Mark(e)
    PROVE  OnceInv'
<1>1. PICK c \in exec[e].inflight :
          /\ c.id \in Dlvs
          /\ IF Holds(dlv[c.id], c)
             THEN dlv' = [dlv EXCEPT ![c.id] = Result(dlv[c.id], exec[e].result, c.token, now)]
             ELSE dlv' = dlv
          /\ exec' = [exec EXCEPT ![e] =
                 IF exec[e].batch \ {c} = {} THEN Idle
                 ELSE [exec[e] EXCEPT !.batch = exec[e].batch \ {c},
                                      !.inflight = {}, !.result = "ok"]]
          /\ UNCHANGED <<now, sends, lost>>
  BY MarkRow
<1>2. c \in exec[e].batch /\ exec[e].inflight = {c}
  BY DEF OnceInv, ClaimsCurrent
<1>3. exec[e] \in Run
  BY ClaimIds
<1>4. ASSUME NEW f \in Execs \ {e} PROVE exec'[f] = exec[f]
  BY <1>1 DEF TypeOK
<1>5. exec'[e].batch = exec[e].batch \ {c} /\ exec'[e].inflight = {}
  BY <1>1, <1>3 DEF TypeOK, Idle, Run
<1>6. exec'[e].batch # {} => exec'[e].started = exec[e].started
  BY <1>1, <1>3, <1>5 DEF TypeOK, Run
<1>7. ASSUME NEW f \in Execs, NEW b \in exec'[f].batch
      PROVE  /\ b \in exec[f].batch /\ b.id \in Dlvs /\ b.id # c.id
             /\ ~Sent(f, b)' => ~Sent(f, b)
  <2>1. b \in exec[f].batch
    BY <1>4, <1>5
  <2>2. b.id \in Dlvs
    BY <2>1, ClaimIds
  <2>3. b.id # c.id
    BY <1>2, <1>5, <2>1 DEF OnceInv, ClaimsDisjoint
  <2>4. ~Sent(f, b)' => ~Sent(f, b)
    BY <1>2, <1>4, <2>3 DEF Sent
  <2>5. QED
    BY <2>1, <2>2, <2>3, <2>4
<1>8. \A d \in Dlvs \ {c.id} : dlv'[d] = dlv[d]
  BY <1>1 DEF TypeOK, DlvTable
<1>9. ClaimsCurrent'
  <2>1. ASSUME NEW f \in Execs
        PROVE  /\ exec'[f].inflight \subseteq exec'[f].batch
               /\ \A a, b \in exec'[f].inflight : a = b
    BY <1>4, <1>5 DEF OnceInv, ClaimsCurrent
  <2>2. ASSUME NEW f \in Execs, NEW b \in exec'[f].batch
        PROVE  exec'[f].started = exec[f].started /\ dlv'[b.id] = dlv[b.id]
    BY <1>4, <1>6, <1>7, <1>8
  <2>3. QED
    BY <1>1, <1>7, <2>1, <2>2 DEF OnceInv, ClaimsCurrent
<1>10. ClaimsDisjoint'
  BY <1>7 DEF OnceInv, ClaimsDisjoint
<1>11. ASSUME exec[e].result = "ok" PROVE dlv'[c.id].status \in {"sent", "skipped"}
  <2>1. CASE Holds(dlv[c.id], c)
    <3>1. dlv'[c.id] = Result(dlv[c.id], "ok", c.token, now)
      BY <1>1, <1>11, <2>1 DEF TypeOK, DlvTable
    <3>2. QED
      <4>1. dlv \in DlvTable
        BY DEF TypeOK
      <4>2. Result(dlv[c.id], "ok", c.token, now).status = "sent"
        BY <1>1, <4>1, ResultStatus
      <4>3. QED
        BY <3>1, <4>2
  <2>2. CASE ~Holds(dlv[c.id], c)
    BY <1>1, <1>2, <2>2 DEF OnceInv, ClaimsCurrent, Holds
  <2>3. QED
    BY <2>1, <2>2
<1>12. SendsAccounted'
  <2>1. ASSUME NEW d \in Dlvs, dlv'[d].status \notin {"sent", "skipped"}, ~Out(d)'
        PROVE  sends[d] <= lost[d]
    <3>1. CASE d = c.id
      <4>1. ~Sent(e, c)
        BY <1>11, <2>1, <3>1 DEF Sent
      <4>2. QED
        BY <1>2, <3>1, <4>1 DEF OnceInv, SendsAccounted
    <3>2. CASE d # c.id
      <4>1. ~Out(d)
        BY <1>2, <1>4, <2>1, <3>2 DEF Out
      <4>2. QED
        BY <1>8, <2>1, <3>2, <4>1 DEF OnceInv, SendsAccounted
    <3>3. QED
      BY <3>1, <3>2
  <2>2. ASSUME NEW f \in Execs, NEW b \in exec'[f].batch, ~Sent(f, b)'
        PROVE  sends[b.id] <= lost[b.id]
    BY <1>7, <2>2 DEF OnceInv, SendsAccounted
  <2>3. QED
    BY <1>1, <2>1, <2>2 DEF OnceInv, SendsAccounted
<1>13. QED
  BY <1>9, <1>10, <1>12 DEF OnceInv

\* Executors that die take what they sent and did not record with them.
LEMMA OnceKill ==
    ASSUME TypeOK, OnceInv, NEW K \in SUBSET Execs, Kill(K), UNCHANGED <<dlv, sends>>,
           now' \in Time, now <= now',
           \A e \in Execs \ K : exec[e].batch # {} => now' < exec[e].started + RunLimit
    PROVE  OnceInv'
<1>1. ASSUME NEW e \in Execs \ K PROVE exec'[e] = exec[e]
  BY DEF Kill
<1>2. ASSUME NEW e \in K PROVE exec'[e].batch = {} /\ exec'[e].inflight = {}
  BY DEF Kill, Idle
<1>3. ASSUME NEW e \in Execs, NEW c \in exec'[e].batch
      PROVE  e \notin K /\ c \in exec[e].batch /\ c.id \in Dlvs
  BY <1>1, <1>2, ClaimIds
<1>4. \A d \in Dlvs : lost'[d] = IF d \in Unrecorded(K) THEN lost[d] + 1 ELSE lost[d]
  BY DEF Kill
<1>5. ASSUME NEW d \in Dlvs PROVE lost[d] \in Nat /\ sends[d] \in Nat
  BY DEF TypeOK
<1>6. ClaimsCurrent'
  <2>1. ASSUME NEW e \in Execs \ K, exec[e].batch # {}
        PROVE  exec[e].started <= now'
    <3>1. exec[e].started \in Nat /\ exec[e].started <= now
      BY <2>1, Instants DEF OnceInv, ClaimsCurrent
    <3>2. now \in Nat /\ now' \in Nat
      BY Instants DEF TypeOK
    <3>3. QED
      BY <3>1, <3>2
  <2>2. QED
    BY <1>1, <1>2, <1>3, <2>1 DEF OnceInv, ClaimsCurrent
<1>7. ClaimsDisjoint'
  BY <1>3 DEF OnceInv, ClaimsDisjoint
<1>8. SendsAccounted'
  <2>1. ASSUME NEW d \in Dlvs PROVE sends'[d] <= 1 + lost'[d]
    <3>1. sends[d] <= 1 + lost[d]
      BY DEF OnceInv, SendsAccounted
    <3>2. QED
      BY <1>4, <1>5, <3>1
  <2>2. ASSUME NEW d \in Dlvs, dlv'[d].status \notin {"sent", "skipped"}, ~Out(d)'
        PROVE  sends'[d] <= lost'[d]
    <3>1. CASE d \in Unrecorded(K)
      <4>1. sends[d] <= 1 + lost[d]
        BY DEF OnceInv, SendsAccounted
      <4>2. QED
        BY <1>4, <1>5, <3>1, <4>1
    <3>2. CASE d \notin Unrecorded(K)
      <4>1. ~Out(d)
        BY <1>1, <2>2, <3>2 DEF Out, Unrecorded
      <4>2. QED
        BY <1>4, <2>2, <3>2, <4>1 DEF OnceInv, SendsAccounted
    <3>3. QED
      BY <3>1, <3>2
  <2>3. ASSUME NEW e \in Execs, NEW c \in exec'[e].batch, ~Sent(e, c)'
        PROVE  sends'[c.id] <= lost'[c.id]
    <3>1. c.id \notin Unrecorded(K)
      BY <1>3 DEF Unrecorded, OnceInv, ClaimsDisjoint, ClaimsCurrent
    <3>2. ~Sent(e, c)
      BY <1>1, <1>3, <2>3 DEF Sent
    <3>3. QED
      BY <1>3, <1>4, <3>1, <3>2 DEF OnceInv, SendsAccounted
  <2>4. QED
    BY <2>1, <2>2, <2>3 DEF SendsAccounted
<1>9. QED
  BY <1>6, <1>7, <1>8 DEF OnceInv

\* Every step keeps the claims and the counts of sends in order.
LEMMA OnceAlways ==
    ASSUME RunLimit <= Lease
    PROVE  Spec => []OnceInv
<1>1. TypeOK /\ OnceInv /\ [Next]_vars /\ TypeOK' => OnceInv'
  <2> SUFFICES ASSUME TypeOK, OnceInv, [Next]_vars, TypeOK' PROVE OnceInv'
    OBVIOUS
  <2>1. CASE TaskStep \/ OneTimeStep \/ EnsureStockRule
    BY <2>1, TableStepKeeps, OnceQuiet
  <2>2. ASSUME NEW e \in Execs, ClaimDue(e) \/ Send(e) \/ Mark(e) PROVE OnceInv'
    BY <2>2, OnceClaim, OnceSend, OnceMark
  <2>3. now \in Time /\ now' \in Time /\ now \in Nat /\ now' \in Nat
    BY Instants DEF TypeOK
  <2>4. ASSUME NEW e \in Execs, Crash(e) PROVE OnceInv'
    <3>1. Kill({e}) /\ UNCHANGED <<now, dlv, sends>>
      BY <2>4 DEF Crash, tables
    <3>2. \A f \in Execs \ {e} : exec[f].batch # {} => now' < exec[f].started + RunLimit
      BY <3>1 DEF OnceInv, ClaimsCurrent
    <3>3. QED
      BY <2>3, <3>1, <3>2, OnceKill
  <2>5. CASE Tick
    <3>1. Kill(Expiring) /\ UNCHANGED <<dlv, sends>> /\ now' = now + 1
      BY <2>5 DEF Tick, tables
    <3>2. ASSUME NEW f \in Execs \ Expiring, exec[f].batch # {}
          PROVE  now' < exec[f].started + RunLimit
      <4>1. exec[f].started \in Nat
        BY <3>2, Instants DEF OnceInv, ClaimsCurrent
      <4>2. ~(now + 1 - exec[f].started >= RunLimit)
        BY <3>2 DEF Expiring
      <4>3. QED
        BY <2>3, <3>1, <4>1, <4>2, ExecAssumption
    <3>3. now <= now' /\ Expiring \in SUBSET Execs
      BY <2>3, <3>1 DEF Expiring
    <3>4. QED
      BY <2>3, <3>1, <3>2, <3>3, OnceKill
  <2>6. CASE UNCHANGED vars
    <3>1. KeepsRows /\ UNCHANGED <<now, exec, sends, lost>>
      BY <2>6 DEF vars, KeepsRows
    <3>2. QED
      BY <3>1, OnceQuiet
  <2>7. QED
    BY <2>1, <2>2, <2>4, <2>5, <2>6 DEF Next, ExecStep
<1>2. QED
  BY <1>1, OnceInit, TypeCorrect, PTL DEF Spec

\* Concurrent executors never send the same delivery, provided an executor is dead
\* before its lease can expire (PT5M against lease_seconds = 300): what goes out twice
\* went out the first time from a sender that died before it could record that, or that
\* was told it had failed (qq_mail.py makes a temporary failure of a lost answer).
THEOREM SentAtMostOnce ==
    ASSUME RunLimit <= Lease
    PROVE  Spec => []AtMostOnce
<1>1. OnceInv => AtMostOnce
  BY DEF OnceInv, SendsAccounted, AtMostOnce
<1>2. Spec => []OnceInv
  BY OnceAlways
<1>3. QED
  BY <1>1, <1>2, PTL

-----------------------------------------------------------------------------
(* The rows of one step *)

\* A row that no executor touched: inserted, recovered, withdrawn or skipped.
Lowered(old, new) ==
    \/ new = old
    \/ /\ new.status \in {"pending", "skipped"} /\ new.attempts <= old.attempts
       /\ old.status # "absent" => new.attempts = old.attempts

\* Every statement but the claim and the two results lowers rows.
LEMMA StatementLowers ==
    ASSUME NEW dl \in DlvTable, NEW d \in Dlvs
    PROVE  /\ dl[d].attempts \in Nat
           /\ \A D : Lowered(dl[d], EnsureDlvs(dl, D)[d])
           /\ \A S : Lowered(dl[d], CancelDlvs(dl, S)[d])
           /\ \A t : Lowered(dl[d], RecoverLeases(dl, t)[d])
           /\ \A D, code : Lowered(dl[d], SkipDlvs(dl, D, code)[d])
<1>1. dl[d].attempts \in Nat
  BY DEF DlvTable
<1>2. ASSUME NEW D PROVE Lowered(dl[d], EnsureDlvs(dl, D)[d])
  BY <1>1 DEF Lowered, EnsureDlvs, NewDlv, AbsentDlv
<1>3. ASSUME NEW status \in {"skipped"}, NEW code
      PROVE  Lowered(dl[d], Released(dl[d], status, Nil, code))
  BY <1>1 DEF Lowered, Released, DlvTable
<1>4. ASSUME NEW S PROVE Lowered(dl[d], CancelDlvs(dl, S)[d])
  BY <1>3 DEF CancelDlvs, Lowered
<1>5. ASSUME NEW t PROVE Lowered(dl[d], RecoverLeases(dl, t)[d])
  BY <1>1 DEF Lowered, RecoverLeases, DlvTable
<1>6. ASSUME NEW D, NEW code PROVE Lowered(dl[d], SkipDlvs(dl, D, code)[d])
  BY <1>3 DEF SkipDlvs, Lowered
<1>7. QED
  BY <1>1, <1>2, <1>4, <1>5, <1>6

\* Two statements in a row lower what they find.
LEMMA LoweredTwice ==
    ASSUME NEW a, NEW b, NEW c, Lowered(a, b), Lowered(b, c),
           a.attempts \in Nat, b.attempts \in Nat, c.attempts \in Nat
    PROVE  Lowered(a, c)
  BY DEF Lowered

\* So do the stages of claim_due before the claim.
LEMMA StagesLower ==
    ASSUME TypeOK, NEW c, NEW d \in Dlvs
    PROVE  Lowered(dlv[d], MergedDlvs(c)[d])
<1> DEFINE dl1 == EnsureDlvs(dlv, WantedNow \X Channels)
<1>1. /\ dlv \in DlvTable /\ dl1 \in DlvTable /\ GenDlvs \in DlvTable
      /\ LiveDlvs \in DlvTable /\ MergedDlvs(c) \in DlvTable
  BY EnsureDlvsType, StagesType DEF TypeOK
<1>2. Lowered(dlv[d], dl1[d])
  BY <1>1, StatementLowers
<1>3. Lowered(dl1[d], GenDlvs[d])
  BY <1>1, StatementLowers DEF GenDlvs
<1>4. Lowered(GenDlvs[d], LiveDlvs[d])
  BY <1>1, StatementLowers DEF LiveDlvs
<1>5. Lowered(LiveDlvs[d], MergedDlvs(c)[d])
  BY <1>1, StatementLowers DEF MergedDlvs
<1>6. \A dl \in DlvTable : dl[d].attempts \in Nat
  BY StatementLowers
<1>7. Lowered(dlv[d], GenDlvs[d])
  BY <1>1, <1>2, <1>3, <1>6, LoweredTwice
<1>8. Lowered(dlv[d], LiveDlvs[d])
  BY <1>1, <1>4, <1>6, <1>7, LoweredTwice
<1>9. QED
  BY <1>1, <1>5, <1>6, <1>8, LoweredTwice

\* The steps of TaskService, of the one-time adapter and of the weekly rule.
LEMMA TableStepLowers ==
    ASSUME TypeOK, TaskStep \/ OneTimeStep \/ EnsureStockRule, NEW d \in Dlvs
    PROVE  Lowered(dlv[d], dlv'[d])
<1>1. dlv \in DlvTable /\ \A S : CancelDlvs(dlv, S) \in DlvTable
  BY CancelType DEF TypeOK
<1>2. \A S, D : Lowered(dlv[d], EnsureDlvs(CancelDlvs(dlv, S), D)[d])
  <2> SUFFICES ASSUME NEW S, NEW D
               PROVE  Lowered(dlv[d], EnsureDlvs(CancelDlvs(dlv, S), D)[d])
    OBVIOUS
  <2>1. EnsureDlvs(CancelDlvs(dlv, S), D) \in DlvTable
    BY <1>1, EnsureDlvsType
  <2>2. /\ Lowered(dlv[d], CancelDlvs(dlv, S)[d])
        /\ Lowered(CancelDlvs(dlv, S)[d], EnsureDlvs(CancelDlvs(dlv, S), D)[d])
    BY <1>1, StatementLowers
  <2>3. /\ dlv[d].attempts \in Nat /\ CancelDlvs(dlv, S)[d].attempts \in Nat
        /\ EnsureDlvs(CancelDlvs(dlv, S), D)[d].attempts \in Nat
    BY <1>1, <2>1, StatementLowers
  <2>4. QED
    BY <2>2, <2>3, LoweredTwice
<1>3. ASSUME NEW t \in Tasks, NEW row, NEW remind, Replace(t, row, remind)
      PROVE  Lowered(dlv[d], dlv'[d])
  BY <1>2, <1>3 DEF Replace, WriteTask
<1>4. ASSUME NEW t \in Tasks, CreateTask(t)
      PROVE  Lowered(dlv[d], dlv'[d])
  BY <1>1, <1>4, StatementLowers DEF CreateTask, WriteTask
<1>5. CASE TaskStep
  BY <1>3, <1>4, <1>5 DEF TaskStep, UpdateDue, CompleteTask, CancelTask, ReopenTask
<1>6. ASSUME NEW r \in OneTimeRules, CreateOneTime(r)
      PROVE  Lowered(dlv[d], dlv'[d])
  BY <1>1, <1>6, StatementLowers DEF CreateOneTime
<1>7. ASSUME NEW r \in OneTimeRules, CancelOneTime(r)
      PROVE  Lowered(dlv[d], dlv'[d])
  BY <1>1, <1>7, StatementLowers DEF CancelOneTime
<1>8. CASE EnsureStockRule
  BY <1>8 DEF EnsureStockRule, Lowered
<1>9. QED
  BY <1>5, <1>6, <1>7, <1>8 DEF OneTimeStep

\* claim_due: the stages, then the claim of pending rows.
LEMMA ClaimRows ==
    ASSUME TypeOK, NEW e \in Execs, ClaimDue(e)
    PROVE  LET ch == ChannelOf(e) IN
           \E B \in SUBSET Claimable(MergedOccs(ch), MergedDlvs(ch), ch, now) :
              /\ dlv' = ClaimDlvs(MergedDlvs(ch), B, now)
              /\ B \subseteq Dlvs
              /\ exec'[e].batch =
                    {[id |-> d, token |-> MergedDlvs(ch)[d].attempts + 1] : d \in B}
              /\ \A f \in Execs \ {e} : exec'[f] = exec[f]
              /\ occ' = MergedOccs(ch)
              /\ UNCHANGED <<now, task, gen, enabled, crashes>>
<1> DEFINE ch == ChannelOf(e)
           dl == MergedDlvs(ch)
           New(B) == {[id |-> d, token |-> dl[d].attempts + 1] : d \in B}
<1>1. PICK B \in Earliest(Claimable(MergedOccs(ch), dl, ch, now), MergedOccs(ch), LimitOf(e)) :
          /\ dlv' = ClaimDlvs(dl, B, now)
          /\ exec' = [exec EXCEPT ![e] =
                 IF B = {} THEN Idle
                 ELSE [started |-> now, inflight |-> {}, result |-> "ok", batch |-> New(B)]]
          /\ occ' = MergedOccs(ch)
          /\ UNCHANGED <<now, task, gen, enabled, crashes>>
  BY DEF ClaimDue
<1>2. B \in SUBSET Claimable(MergedOccs(ch), dl, ch, now) /\ B \subseteq Dlvs
  BY <1>1 DEF Earliest, Claimable
<1>3. exec'[e].batch = New(B)
  <2>1. exec'[e] = IF B = {} THEN Idle
                   ELSE [started |-> now, inflight |-> {}, result |-> "ok", batch |-> New(B)]
    BY <1>1 DEF TypeOK
  <2>2. B = {} => New(B) = {}
    OBVIOUS
  <2>3. QED
    BY <2>1, <2>2 DEF Idle
<1>4. \A f \in Execs \ {e} : exec'[f] = exec[f]
  BY <1>1 DEF TypeOK
<1>5. QED
  BY <1>1, <1>2, <1>3, <1>4

\* A row that was claimed has one attempt more, which is its token.
LEMMA ClaimedRow ==
    ASSUME NEW dl \in DlvTable, NEW B, NEW t, NEW d \in Dlvs
    PROVE  /\ d \notin B => ClaimDlvs(dl, B, t)[d] = dl[d]
           /\ d \in B => /\ ClaimDlvs(dl, B, t)[d].status = "sending"
                         /\ ClaimDlvs(dl, B, t)[d].attempts = dl[d].attempts + 1
                         /\ ClaimDlvs(dl, B, t)[d].token = dl[d].attempts + 1
                         /\ ClaimDlvs(dl, B, t)[d].error = dl[d].error
  BY DEF ClaimDlvs, DlvTable

-----------------------------------------------------------------------------
(* The outbox *)

\* What is decided of the deliveries, as the outbox sees it
Fates == [d \in Dlvs |-> Fate(dlv[d])]

\* A row that no executor touched moves as a notice does without its sender.
LEMMA LoweredFate ==
    ASSUME NEW a, NEW b, a.status \in DlvStatus, Lowered(a, b),
           a.status \in Final => b = a
    PROVE  Fate(b) = Fate(a) \/ <<Fate(a), Fate(b)>> \in Box!Desk
  BY DEF Lowered, Fate, Active, Final, DlvStatus, Box!Desk

\* Rows that move so, and executors who take open notices that nobody holds
LEMMA ArrangeStep ==
    ASSUME \A d \in Dlvs : Fates'[d] = Fates[d] \/ <<Fates[d], Fates'[d]>> \in Box!Desk,
           InHand \subseteq InHand', Tried' = Tried, Told' = Told, UNCHANGED <<sends, lost>>,
           \A p \in InHand' \ InHand : Fates'[p[2]] = "open",
           ClaimsDisjoint'
    PROVE  Box!Arrange
<1>1. InHand' \subseteq Execs \X Dlvs
  BY DEF InHand
<1>2. ASSUME NEW p \in InHand', NEW q \in InHand', q[2] = p[2]
      PROVE  q = p
  <2>1. p[1] \in Execs /\ q[1] \in Execs /\ p = <<p[1], p[2]>> /\ q = <<q[1], q[2]>>
    BY <1>1
  <2>2. PICK b \in exec'[p[1]].batch : b.id = p[2]
    BY DEF InHand
  <2>3. PICK c \in exec'[q[1]].batch : c.id = q[2]
    BY DEF InHand
  <2>4. p[1] = q[1]
    BY <1>2, <2>1, <2>2, <2>3 DEF ClaimsDisjoint
  <2>5. QED
    BY <1>2, <2>1, <2>4
<1>3. Fates' = [d \in Dlvs |-> Fates'[d]]
  BY DEF Fates
<1>4. QED
  BY <1>1, <1>2, <1>3 DEF Box!Arrange, Fates

\* The steps of TaskService, of the one-time adapter and of the weekly rule
LEMMA TableStepArranges ==
    ASSUME TypeOK, OnceInv', TaskStep \/ OneTimeStep \/ EnsureStockRule
    PROVE  Box!Arrange
<1>1. KeepsRows /\ UNCHANGED <<now, exec, sends, lost, crashes>>
  BY TableStepKeeps
<1>2. ASSUME NEW d \in Dlvs
      PROVE  Fates'[d] = Fates[d] \/ <<Fates[d], Fates'[d]>> \in Box!Desk
  <2>1. dlv[d].status \in DlvStatus
    BY DEF TypeOK, DlvTable
  <2>2. Lowered(dlv[d], dlv'[d])
    BY TableStepLowers
  <2>3. dlv[d].status \in Final => dlv'[d] = dlv[d]
    BY <1>1 DEF KeepsRows
  <2>4. Fate(dlv'[d]) = Fate(dlv[d]) \/ <<Fate(dlv[d]), Fate(dlv'[d])>> \in Box!Desk
    BY <2>1, <2>2, <2>3, LoweredFate
  <2>5. QED
    BY <2>4 DEF Fates
<1>3. InHand' = InHand /\ Tried' = Tried /\ Told' = Told
  BY <1>1 DEF InHand, Tried, Told
<1>4. QED
  BY <1>1, <1>2, <1>3, ArrangeStep DEF OnceInv

\* claim_due, whatever it generates, recovers, expires and merges on the way
LEMMA ClaimArranges ==
    ASSUME TypeOK, OnceInv, OnceInv', NEW e \in Execs, ClaimDue(e)
    PROVE  Box!Arrange
<1> DEFINE ch == ChannelOf(e)
           dl == MergedDlvs(ch)
<1>1. PICK B \in SUBSET Claimable(MergedOccs(ch), dl, ch, now) :
          /\ dlv' = ClaimDlvs(dl, B, now)
          /\ B \subseteq Dlvs
          /\ exec'[e].batch = {[id |-> d, token |-> dl[d].attempts + 1] : d \in B}
          /\ \A f \in Execs \ {e} : exec'[f] = exec[f]
  BY ClaimRows
<1>2. UNCHANGED <<sends, lost>> /\ exec[e].batch = {}
  BY DEF ClaimDue
<1>3. exec[e].inflight = {} /\ exec'[e].inflight = {}
  <2>1. exec[e].inflight = {}
    BY <1>2 DEF OnceInv, ClaimsCurrent
  <2>2. \E C : exec' = [exec EXCEPT ![e] =
                   IF C = {} THEN Idle
                   ELSE [started |-> now, inflight |-> {}, result |-> "ok",
                         batch |-> {[id |-> d, token |-> dl[d].attempts + 1] : d \in C}]]
    BY DEF ClaimDue
  <2>3. QED
    BY <2>1, <2>2 DEF TypeOK, Idle
<1>4. dl \in DlvTable
  BY StagesType
<1>5. ASSUME NEW d \in Dlvs
      PROVE  Fates'[d] = Fate(dl[d])
  <2>1. CASE d \in B
    <3>1. dl[d].status = "pending"
      BY <1>1, <2>1 DEF Claimable
    <3>2. dlv'[d].status = "sending"
      BY <1>1, <1>4, <2>1, ClaimedRow
    <3>3. QED
      BY <3>1, <3>2 DEF Fates, Fate, Active
  <2>2. CASE d \notin B
    BY <1>1, <1>4, <2>2, ClaimedRow DEF Fates
  <2>3. QED
    BY <2>1, <2>2
<1>6. ASSUME NEW d \in Dlvs
      PROVE  Fates'[d] = Fates[d] \/ <<Fates[d], Fates'[d]>> \in Box!Desk
  <2>1. dlv[d].status \in DlvStatus
    BY DEF TypeOK, DlvTable
  <2>2. Lowered(dlv[d], dl[d])
    BY StagesLower
  <2>3. dlv[d].status \in Final => dl[d] = dlv[d]
    BY StagesKeep
  <2>4. Fate(dl[d]) = Fate(dlv[d]) \/ <<Fate(dlv[d]), Fate(dl[d])>> \in Box!Desk
    BY <2>1, <2>2, <2>3, LoweredFate
  <2>5. QED
    BY <1>5, <2>4 DEF Fates
<1>7. InHand \subseteq InHand'
  <2> SUFFICES ASSUME NEW p \in Execs \X Dlvs, NEW c \in exec[p[1]].batch, c.id = p[2]
               PROVE  p \in InHand'
    BY DEF InHand
  <2>1. p[1] # e /\ p[1] \in Execs
    BY <1>2
  <2>2. exec'[p[1]] = exec[p[1]]
    BY <1>1, <2>1
  <2>3. QED
    BY <2>2 DEF InHand
<1>8. ASSUME NEW p \in InHand', p \notin InHand
      PROVE  Fates'[p[2]] = "open"
  <2>1. PICK c \in exec'[p[1]].batch : c.id = p[2] /\ p \in Execs \X Dlvs
    BY <1>8 DEF InHand
  <2>2. p[1] = e
    BY <1>1, <1>8, <2>1 DEF InHand
  <2>3. p[2] \in B /\ p[2] \in Dlvs
    BY <1>1, <2>1, <2>2
  <2>4. dl[p[2]].status = "pending"
    BY <1>1, <2>3 DEF Claimable
  <2>5. QED
    BY <1>5, <2>3, <2>4 DEF Fate, Active
<1>9. Tried' = Tried /\ Told' = Told
  <2>1. ASSUME NEW p \in Execs \X Dlvs
        PROVE  /\ exec'[p[1]].inflight = exec[p[1]].inflight
               /\ exec[p[1]].inflight # {} => exec'[p[1]].result = exec[p[1]].result
    BY <1>1, <1>3
  <2>2. QED
    BY <2>1 DEF Tried, Told
<1>10. QED
  BY <1>2, <1>6, <1>7, <1>8, <1>9, ArrangeStep DEF OnceInv

\* Sending: what is tried was in hand and had not been tried.
LEMMA SendTries ==
    ASSUME TypeOK, OnceInv, NEW e \in Execs, Send(e)
    PROVE  Box!GoOut
<1>1. PICK c \in exec[e].batch, result \in SendResult, out \in BOOLEAN :
          /\ result = "ok" => out
          /\ exec' = [exec EXCEPT ![e].inflight = {c}, ![e].result = result]
          /\ sends' = IF out THEN [sends EXCEPT ![c.id] = sends[c.id] + 1] ELSE sends
          /\ lost' = IF out /\ result # "ok" THEN [lost EXCEPT ![c.id] = lost[c.id] + 1]
                                            ELSE lost
  BY DEF Send
<1>2. exec[e].inflight = {} /\ UNCHANGED dlv
  BY DEF Send, tables
<1>3. c.id \in Dlvs /\ exec[e] \in Run
  BY ClaimIds
<1>4. ASSUME NEW f \in Execs \ {e} PROVE exec'[f] = exec[f]
  BY <1>1 DEF TypeOK
<1>5. /\ exec'[e].batch = exec[e].batch
      /\ exec'[e].inflight = {c} /\ exec'[e].result = result
  BY <1>1, <1>3 DEF TypeOK, Run
<1>6. InHand' = InHand
  <2>1. ASSUME NEW p \in Execs \X Dlvs PROVE exec'[p[1]].batch = exec[p[1]].batch
    BY <1>4, <1>5
  <2>2. QED
    BY <2>1 DEF InHand
<1>7. Fates' = Fates
  BY <1>2 DEF Fates
<1> DEFINE p == <<e, c.id>>
<1>8. p \in InHand /\ p \notin Tried /\ p[2] = c.id
  BY <1>2, <1>3 DEF InHand, Tried
<1>9. Tried' = Tried \cup {p} /\ Told' = IF result = "ok" THEN Told \cup {p} ELSE Told
  <2>1. ASSUME NEW q \in Execs \X Dlvs, q[1] # e
        PROVE  (q \in Tried' <=> q \in Tried) /\ (q \in Told' <=> q \in Told)
    BY <1>4, <2>1 DEF Tried, Told
  <2>2. ASSUME NEW q \in Execs \X Dlvs, q[1] = e
        PROVE  /\ q \notin Tried /\ (q \in Tried' <=> q = p)
               /\ q \notin Told /\ (q \in Told' <=> result = "ok" /\ q = p)
    BY <1>2, <1>5, <2>2 DEF Tried, Told
  <2>3. /\ Tried \subseteq Execs \X Dlvs /\ Tried' \subseteq Execs \X Dlvs
        /\ Told \subseteq Execs \X Dlvs /\ Told' \subseteq Execs \X Dlvs
        /\ p \in Execs \X Dlvs
    BY <1>3 DEF Tried, Told
  <2>4. Tried' = Tried \cup {p}
    BY <2>1, <2>2, <2>3
  <2>5. CASE result = "ok"
    BY <2>1, <2>2, <2>3, <2>4, <2>5
  <2>6. CASE result # "ok"
    BY <2>1, <2>2, <2>3, <2>4, <2>6
  <2>7. QED
    BY <2>5, <2>6
<1>10. \/ /\ sends' = [sends EXCEPT ![p[2]] = sends[p[2]] + 1]
          /\ \/ Told' = Told \cup {p} /\ lost' = lost
             \/ Told' = Told /\ lost' = [lost EXCEPT ![p[2]] = lost[p[2]] + 1]
       \/ UNCHANGED <<Told, sends, lost>>
  <2>1. CASE result = "ok"
    BY <1>1, <1>8, <1>9, <2>1
  <2>2. CASE result # "ok"
    BY <1>1, <1>8, <1>9, <2>2
  <2>3. QED
    BY <2>1, <2>2
<1>11. QED
  BY <1>6, <1>7, <1>8, <1>9, <1>10 DEF Box!GoOut, Fates

\* Writing a result back: the notice leaves its sender's hands, and the row is what
\* the result makes it, or was withdrawn meanwhile.
LEMMA MarkRecords ==
    ASSUME TypeOK, OnceInv, NEW e \in Execs, Mark(e)
    PROVE  Box!Record
<1>1. PICK c \in exec[e].inflight :
          /\ c.id \in Dlvs
          /\ IF Holds(dlv[c.id], c)
             THEN dlv' = [dlv EXCEPT ![c.id] =
                             Result(dlv[c.id], exec[e].result, c.token, now)]
             ELSE dlv' = dlv
          /\ exec' = [exec EXCEPT ![e] =
                 IF exec[e].batch \ {c} = {} THEN Idle
                 ELSE [exec[e] EXCEPT !.batch = exec[e].batch \ {c},
                                      !.inflight = {}, !.result = "ok"]]
          /\ UNCHANGED <<now, sends, lost>>
  BY MarkRow
<1> DEFINE p == <<e, c.id>>
           row == Result(dlv[c.id], exec[e].result, c.token, now)
<1>2. c \in exec[e].batch /\ exec[e].inflight = {c} /\ exec[e] \in Run
  BY ClaimIds DEF OnceInv, ClaimsCurrent
<1>3. ASSUME NEW f \in Execs \ {e} PROVE exec'[f] = exec[f]
  BY <1>1 DEF TypeOK
<1>4. exec'[e].batch = exec[e].batch \ {c} /\ exec'[e].inflight = {}
  BY <1>1, <1>2 DEF TypeOK, Idle, Run
<1>5. \A b \in exec[e].batch : b.id = c.id => b = c
  BY <1>2 DEF OnceInv, ClaimsDisjoint
<1>6. p \in Tried
  BY <1>1, <1>2 DEF Tried
<1>7. InHand' = InHand \ {p}
  <2>1. ASSUME NEW q \in Execs \X Dlvs, q[1] # e
        PROVE  q # p /\ (q \in InHand' <=> q \in InHand)
    BY <1>3, <2>1 DEF InHand
  <2>2. ASSUME NEW q \in Execs \X Dlvs, q[1] = e
        PROVE  q \in InHand' <=> q \in InHand /\ q # p
    <3>1. q = p <=> q[2] = c.id
      BY <2>2
    <3>2. q \in InHand <=> \E b \in exec[e].batch : b.id = q[2]
      BY <2>2 DEF InHand
    <3>3. q \in InHand' <=> \E b \in exec[e].batch \ {c} : b.id = q[2]
      BY <1>4, <2>2 DEF InHand
    <3>4. QED
      BY <1>2, <1>5, <3>1, <3>2, <3>3
  <2>3. InHand \subseteq Execs \X Dlvs /\ InHand' \subseteq Execs \X Dlvs
    BY DEF InHand
  <2>4. QED
    BY <2>1, <2>2, <2>3
<1>8. p \in Told <=> exec[e].result = "ok"
  BY <1>1, <1>2 DEF Told
<1>9. Tried' = Tried \ {p} /\ Told' = Told \ {p}
  <2>1. ASSUME NEW q \in Execs \X Dlvs, q[1] # e
        PROVE  q # p /\ (q \in Tried' <=> q \in Tried) /\ (q \in Told' <=> q \in Told)
    BY <1>3, <2>1 DEF Tried, Told
  <2>2. ASSUME NEW q \in Execs \X Dlvs, q[1] = e
        PROVE  q \notin Tried' /\ q \notin Told' /\ (q \in Tried \cup Told => q = p)
    BY <1>2, <1>4, <2>2 DEF Tried, Told
  <2>3. /\ Tried \subseteq Execs \X Dlvs /\ Tried' \subseteq Execs \X Dlvs
        /\ Told \subseteq Execs \X Dlvs /\ Told' \subseteq Execs \X Dlvs
    BY DEF Tried, Told
  <2>4. QED
    BY <2>1, <2>2, <2>3
<1> DEFINE Allowed == IF Fates[c.id] = "skipped" THEN {"skipped"}
                      ELSE IF p \in Told THEN {"sent"} ELSE {"open", "failed"}
<1>10. /\ Fates[c.id] \in {"open", "skipped"}
       /\ \E f \in Allowed : Fates' = [Fates EXCEPT ![c.id] = f]
  <2>1. CASE dlv[c.id].status = "sending" /\ dlv[c.id].token = c.token
    <3>1. dlv' = [dlv EXCEPT ![c.id] = row]
      BY <1>1, <2>1 DEF Holds
    <3>2. Fates[c.id] = "open"
      BY <1>1, <2>1 DEF Fates, Fate, Active
    <3>3. Fate(row) \in Allowed
      <4>1. CASE exec[e].result = "ok"
        <5>1. row.status = "sent"
          BY <1>1, <4>1 DEF TypeOK, DlvTable, Result, Released
        <5>2. QED
          BY <1>8, <3>2, <4>1, <5>1 DEF Fate, Active
      <4>2. CASE exec[e].result # "ok"
        <5>1. row.status \in {"pending", "failed"}
          BY <1>1, <4>2 DEF TypeOK, DlvTable, Result, Released
        <5>2. QED
          BY <1>8, <3>2, <4>2, <5>1 DEF Fate, Active
      <4>3. QED
        BY <4>1, <4>2
    <3>4. Fates' = [Fates EXCEPT ![c.id] = Fate(row)]
      BY <1>1, <3>1 DEF Fates, TypeOK, DlvTable
    <3>5. QED
      BY <3>2, <3>3, <3>4
  <2>2. CASE dlv[c.id].status = "skipped"
    <3>1. dlv' = dlv
      BY <1>1, <2>2 DEF Holds
    <3>2. Fates[c.id] = "skipped"
      BY <1>1, <2>2 DEF Fates, Fate, Active
    <3>3. Fates' = [Fates EXCEPT ![c.id] = "skipped"]
      BY <1>1, <3>1, <3>2 DEF Fates
    <3>4. QED
      BY <3>2, <3>3
  <2>3. QED
    BY <1>2, <2>1, <2>2 DEF OnceInv, ClaimsCurrent
<1>11. p[2] = c.id
  OBVIOUS
<1>12. QED
  BY <1>1, <1>6, <1>7, <1>9, <1>10, <1>11 DEF Box!Record, Fates

\* Executors that die take what they hold with them.
LEMMA KillIsDeath ==
    ASSUME TypeOK, OnceInv, NEW K \in SUBSET Execs, Kill(K), UNCHANGED <<dlv, sends>>
    PROVE  Box!Die
<1>1. ASSUME NEW e \in Execs \ K PROVE exec'[e] = exec[e]
  BY DEF Kill
<1>2. ASSUME NEW e \in K PROVE exec'[e].batch = {} /\ exec'[e].inflight = {}
  BY DEF Kill, Idle
<1>3. ASSUME NEW p \in Execs \X Dlvs
      PROVE  /\ p \in InHand' <=> p \in InHand /\ p[1] \notin K
             /\ p \in Tried' <=> p \in Tried /\ p[1] \notin K
             /\ p \in Told' <=> p \in Told /\ p[1] \notin K
  <2>1. CASE p[1] \in K
    BY <1>2, <2>1 DEF InHand, Tried, Told
  <2>2. CASE p[1] \notin K
    BY <1>1, <2>2 DEF InHand, Tried, Told
  <2>3. QED
    BY <2>1, <2>2
<1>4. Told \subseteq InHand /\ Tried \subseteq InHand /\ InHand \subseteq Execs \X Dlvs
  BY DEF OnceInv, ClaimsCurrent, InHand, Tried, Told
<1>5. /\ InHand' \subseteq Execs \X Dlvs
      /\ Tried' \subseteq Execs \X Dlvs /\ Told' \subseteq Execs \X Dlvs
  BY DEF InHand, Tried, Told
<1>6. InHand' \subseteq InHand /\ Tried' = Tried \cap InHand' /\ Told' = Told \cap InHand'
  BY <1>3, <1>4, <1>5
<1>7. ASSUME NEW d \in Dlvs
      PROVE  d \in Unrecorded(K) <=> \E p \in Told \ InHand' : p[2] = d
  <2>1. ASSUME NEW e \in K, NEW c \in exec[e].inflight, exec[e].result = "ok", c.id = d
        PROVE  \E p \in Told \ InHand' : p[2] = d
    <3>1. <<e, d>> \in Told
      BY <2>1 DEF Told
    <3>2. <<e, d>> \notin InHand'
      BY <1>3, <1>4, <3>1
    <3>3. QED
      BY <3>1, <3>2
  <2>2. ASSUME NEW p \in Told \ InHand', p[2] = d
        PROVE  d \in Unrecorded(K)
    <3>1. p \in Execs \X Dlvs /\ p[1] \in K
      BY <1>3, <1>4
    <3>2. QED
      BY <2>2, <3>1 DEF Told, Unrecorded
  <2>3. QED
    BY <2>1, <2>2 DEF Unrecorded
<1>8. lost' = [d \in Dlvs |-> IF \E p \in Told \ InHand' : p[2] = d
                              THEN lost[d] + 1 ELSE lost[d]]
  BY <1>7 DEF Kill
<1>9. QED
  BY <1>6, <1>8 DEF Box!Die

\* Every step is a step of the outbox or is not seen there.
LEMMA StepOfBox ==
    ASSUME TypeOK, OnceInv, OnceInv', [Next]_vars
    PROVE  [Box!Next]_(Box!vars)
<1>1. CASE TaskStep \/ OneTimeStep \/ EnsureStockRule
  BY <1>1, TableStepArranges DEF Box!Next
<1>2. ASSUME NEW e \in Execs, ClaimDue(e) PROVE [Box!Next]_(Box!vars)
  BY <1>2, ClaimArranges DEF Box!Next
<1>3. ASSUME NEW e \in Execs, Send(e) PROVE [Box!Next]_(Box!vars)
  BY <1>3, SendTries DEF Box!Next
<1>4. ASSUME NEW e \in Execs, Mark(e) PROVE [Box!Next]_(Box!vars)
  BY <1>4, MarkRecords DEF Box!Next
<1>5. ASSUME NEW e \in Execs, Crash(e) PROVE [Box!Next]_(Box!vars)
  BY <1>5, KillIsDeath DEF Crash, tables, Box!Next
<1>6. CASE Tick
  <2>1. Expiring \in SUBSET Execs
    BY DEF Expiring
  <2>2. Kill(Expiring) /\ UNCHANGED <<dlv, sends>>
    BY <1>6 DEF Tick, tables
  <2>3. QED
    BY <2>1, <2>2, KillIsDeath DEF Box!Next
<1>7. CASE UNCHANGED vars
  BY <1>7 DEF vars, Box!vars, InHand, Tried, Told
<1>8. QED
  BY <1>1, <1>2, <1>3, <1>4, <1>5, <1>6, <1>7 DEF Next, ExecStep

\* Tables, leases, tokens and executors that die in time implement the outbox: a
\* notice is in one sender's hands at most, is tried once each time, goes out no more once
\* a sender heard that it did and lived to record it, and its fate is decided once, by
\* what the sender heard (claim_due, dispatch, QQMailer.send and mark_delivery_sent or
\* _failed, as one protocol).
THEOREM RemindersAreOutbox ==
    ASSUME RunLimit <= Lease
    PROVE  Spec => IsOutbox
<1>1. Init => Box!Init
  <2> SUFFICES ASSUME Init PROVE Box!Init
    OBVIOUS
  <2>1. \A e \in Execs : exec[e].batch = {} /\ exec[e].inflight = {}
    BY DEF Init, Idle
  <2>2. InHand = {} /\ Tried = {} /\ Told = {}
    BY <2>1 DEF InHand, Tried, Told
  <2>3. Fates = [d \in Dlvs |-> "absent"]
    BY DEF Init, AbsentDlv, Fates, Fate, Active
  <2>4. QED
    BY <2>2, <2>3 DEF Init, Box!Init, Fates
<1>2. TypeOK /\ OnceInv /\ OnceInv' /\ [Next]_vars => [Box!Next]_(Box!vars)
  BY StepOfBox
<1>3. Spec => []OnceInv
  BY OnceAlways
<1>4. QED
  BY <1>1, <1>2, <1>3, TypeCorrect, PTL DEF Spec, IsOutbox, Box!Spec

\* What the outbox keeps of its own: who holds what, and the account of every notice.
BoxInv ==
    /\ sends \in [Dlvs -> Nat] /\ lost \in [Dlvs -> Nat]
    /\ InHand \subseteq Execs \X Dlvs /\ Tried \subseteq InHand /\ Told \subseteq Tried
    /\ \A p, q \in InHand : p[2] = q[2] => p = q
    /\ \A p \in InHand : Fates[p[2]] \in {"open", "skipped"}
    /\ \A p \in Told : sends[p[2]] = 1 + lost[p[2]]
    /\ \A p \in InHand \ Told : sends[p[2]] = lost[p[2]]
    /\ \A d \in Dlvs : /\ sends[d] \in {lost[d], 1 + lost[d]}
                       /\ Fates[d] = "sent" => sends[d] = 1 + lost[d]
                       /\ /\ Fates[d] \in {"absent", "open", "failed"}
                          /\ \A p \in Told : p[2] # d
                          => sends[d] = lost[d]

LEMMA BoxArrange == BoxInv /\ Box!Arrange => BoxInv'
<1> SUFFICES ASSUME BoxInv, Box!Arrange PROVE BoxInv'
  OBVIOUS
<1>1. /\ \A d \in Dlvs : Fates'[d] = Fates[d] \/ <<Fates[d], Fates'[d]>> \in Box!Desk
      /\ InHand \subseteq InHand' /\ InHand' \subseteq Execs \X Dlvs
      /\ \A p \in InHand' \ InHand : /\ Fates'[p[2]] = "open"
                                     /\ \A q \in InHand' : q[2] = p[2] => q = p
      /\ UNCHANGED <<Tried, Told, sends, lost>>
  BY DEF Box!Arrange, Fates
<1>2. ASSUME NEW d \in Dlvs
      PROVE  /\ Fates'[d] = "sent" => Fates[d] = "sent"
             /\ Fates'[d] \in {"absent", "open", "failed"}
                   => Fates[d] \in {"absent", "open", "failed"}
             /\ Fates[d] \in {"open", "skipped"} => Fates'[d] \in {"open", "skipped"}
  BY <1>1 DEF Box!Desk
<1>3. ASSUME NEW p \in InHand'
      PROVE  /\ Fates'[p[2]] \in {"open", "skipped"}
             /\ p \notin Told => sends[p[2]] = lost[p[2]]
  <2>1. p[2] \in Dlvs
    BY <1>1
  <2>2. CASE p \in InHand
    BY <1>2, <2>1, <2>2 DEF BoxInv
  <2>3. CASE p \notin InHand
    <3>1. Fates'[p[2]] = "open" /\ \A q \in Told : q[2] # p[2]
      BY <1>1, <2>3 DEF BoxInv
    <3>2. QED
      BY <1>2, <2>1, <3>1 DEF BoxInv
  <2>4. QED
    BY <2>2, <2>3
<1>4. \A p, q \in InHand' : p[2] = q[2] => p = q
  BY <1>1 DEF BoxInv
<1>5. Tried \subseteq InHand' /\ Told \subseteq Tried
  BY <1>1 DEF BoxInv
<1>6. QED
  BY <1>1, <1>2, <1>3, <1>4, <1>5 DEF BoxInv

LEMMA BoxGoOut == BoxInv /\ Box!GoOut => BoxInv'
<1> SUFFICES ASSUME BoxInv, Box!GoOut PROVE BoxInv'
  OBVIOUS
<1>1. PICK p \in InHand \ Tried :
          /\ Tried' = Tried \cup {p}
          /\ \/ /\ sends' = [sends EXCEPT ![p[2]] = sends[p[2]] + 1]
                /\ \/ Told' = Told \cup {p} /\ lost' = lost
                   \/ Told' = Told /\ lost' = [lost EXCEPT ![p[2]] = lost[p[2]] + 1]
             \/ UNCHANGED <<Told, sends, lost>>
          /\ UNCHANGED <<Fates, InHand>>
  BY DEF Box!GoOut, Fates
<1>2. p[2] \in Dlvs /\ p \notin Told /\ sends[p[2]] = lost[p[2]]
      /\ Fates[p[2]] \in {"open", "skipped"}
  BY <1>1 DEF BoxInv
<1>3. /\ sends' \in [Dlvs -> Nat] /\ lost' \in [Dlvs -> Nat]
      /\ \A d \in Dlvs : d # p[2] => sends'[d] = sends[d] /\ lost'[d] = lost[d]
      /\ \/ Told' = Told \cup {p} /\ sends'[p[2]] = 1 + lost'[p[2]]
         \/ Told' = Told /\ sends'[p[2]] = lost'[p[2]]
  BY <1>1, <1>2 DEF BoxInv
<1>4. ASSUME NEW q \in InHand
      PROVE  /\ q \in Told' => sends'[q[2]] = 1 + lost'[q[2]]
             /\ q \notin Told' => sends'[q[2]] = lost'[q[2]]
  <2>1. CASE q = p
    BY <1>2, <1>3, <2>1
  <2>2. CASE q # p
    <3>1. q[2] # p[2] /\ q[2] \in Dlvs
      BY <1>1, <2>2 DEF BoxInv
    <3>2. /\ sends'[q[2]] = sends[q[2]] /\ lost'[q[2]] = lost[q[2]]
          /\ q \in Told' <=> q \in Told
      BY <1>3, <2>2, <3>1
    <3>3. QED
      BY <3>2 DEF BoxInv
  <2>3. QED
    BY <2>1, <2>2
<1>5. ASSUME NEW d \in Dlvs
      PROVE  /\ sends'[d] \in {lost'[d], 1 + lost'[d]}
             /\ Fates[d] = "sent" => sends'[d] = 1 + lost'[d]
             /\ /\ Fates[d] \in {"absent", "open", "failed"}
                /\ \A q \in Told' : q[2] # d
                => sends'[d] = lost'[d]
  <2>1. CASE d = p[2]
    BY <1>2, <1>3, <2>1
  <2>2. CASE d # p[2]
    <3>1. sends'[d] = sends[d] /\ lost'[d] = lost[d] /\ Told \subseteq Told'
      BY <1>3, <2>2
    <3>2. QED
      BY <3>1 DEF BoxInv
  <2>3. QED
    BY <2>1, <2>2
<1>6. Tried' \subseteq InHand /\ Told' \subseteq Tried'
  BY <1>1, <1>3 DEF BoxInv
<1>7. QED
  BY <1>1, <1>3, <1>4, <1>5, <1>6 DEF BoxInv

LEMMA BoxRecord == BoxInv /\ Box!Record => BoxInv'
<1> SUFFICES ASSUME BoxInv, Box!Record PROVE BoxInv'
  OBVIOUS
<1>1. PICK p \in Tried :
          /\ InHand' = InHand \ {p} /\ Tried' = Tried \ {p} /\ Told' = Told \ {p}
          /\ \E f \in IF Fates[p[2]] = "skipped" THEN {"skipped"}
                      ELSE IF p \in Told THEN {"sent"} ELSE {"open", "failed"} :
                Fates' = [Fates EXCEPT ![p[2]] = f]
          /\ UNCHANGED <<sends, lost>>
  BY DEF Box!Record, Fates
<1>2. p \in InHand /\ p[2] \in Dlvs
  BY <1>1 DEF BoxInv
<1>3. /\ Fates'[p[2]] \in {"skipped", "sent", "open", "failed"}
      /\ Fates'[p[2]] = "sent" => p \in Told
      /\ Fates'[p[2]] \in {"open", "failed"} => p \notin Told
      /\ \A d \in Dlvs : d # p[2] => Fates'[d] = Fates[d]
  <2>1. DOMAIN Fates = Dlvs
    BY DEF Fates
  <2>2. QED
    BY <1>1, <1>2, <2>1
<1>4. \A q \in InHand' : q \in InHand /\ q[2] # p[2] /\ q[2] \in Dlvs /\ (q \in Told' <=> q \in Told)
  BY <1>1, <1>2 DEF BoxInv
<1>5. ASSUME NEW d \in Dlvs
      PROVE  /\ Fates'[d] = "sent" => sends[d] = 1 + lost[d]
             /\ /\ Fates'[d] \in {"absent", "open", "failed"}
                /\ \A q \in Told' : q[2] # d
                => sends[d] = lost[d]
  <2>1. CASE d = p[2]
    BY <1>1, <1>2, <1>3, <2>1 DEF BoxInv
  <2>2. CASE d # p[2]
    BY <1>1, <1>3, <2>2 DEF BoxInv
  <2>3. QED
    BY <2>1, <2>2
<1>6. InHand' \subseteq Execs \X Dlvs /\ Tried' \subseteq InHand' /\ Told' \subseteq Tried'
  BY <1>1 DEF BoxInv
<1>7. \A q \in InHand' : Fates'[q[2]] \in {"open", "skipped"}
  BY <1>3, <1>4 DEF BoxInv
<1>8. QED
  BY <1>1, <1>4, <1>5, <1>6, <1>7 DEF BoxInv

LEMMA BoxDie == BoxInv /\ Box!Die => BoxInv'
<1> SUFFICES ASSUME BoxInv, Box!Die PROVE BoxInv'
  OBVIOUS
<1>1. /\ InHand' \subseteq InHand
      /\ Tried' = Tried \cap InHand' /\ Told' = Told \cap InHand'
      /\ lost' = [d \in Dlvs |-> IF \E p \in Told \ InHand' : p[2] = d
                                 THEN lost[d] + 1 ELSE lost[d]]
      /\ UNCHANGED <<Fates, sends>>
  BY DEF Box!Die, Fates
<1>2. lost' \in [Dlvs -> Nat]
  BY <1>1 DEF BoxInv
<1>3. ASSUME NEW q \in InHand'
      PROVE  q[2] \in Dlvs /\ lost'[q[2]] = lost[q[2]] /\ (q \in Told' <=> q \in Told)
  <2>1. \A p \in Told \ InHand' : p[2] # q[2]
    BY <1>1 DEF BoxInv
  <2>2. QED
    BY <1>1, <2>1 DEF BoxInv
<1>4. ASSUME NEW d \in Dlvs
      PROVE  /\ sends[d] \in {lost'[d], 1 + lost'[d]}
             /\ Fates[d] = "sent" => sends[d] = 1 + lost'[d]
             /\ /\ Fates[d] \in {"absent", "open", "failed"}
                /\ \A q \in Told' : q[2] # d
                => sends[d] = lost'[d]
  <2>1. CASE \E p \in Told \ InHand' : p[2] = d
    <3>1. PICK p \in Told : p[2] = d
      BY <2>1
    <3>2. p \in InHand /\ sends[d] = 1 + lost[d] /\ Fates[d] \in {"open", "skipped"}
      BY <3>1 DEF BoxInv
    <3>3. lost'[d] = lost[d] + 1 /\ lost[d] \in Nat
      BY <1>1, <2>1 DEF BoxInv
    <3>4. QED
      BY <3>2, <3>3
  <2>2. CASE ~\E p \in Told \ InHand' : p[2] = d
    <3>1. lost'[d] = lost[d]
      BY <1>1, <2>2
    <3>2. (\A q \in Told' : q[2] # d) => \A q \in Told : q[2] # d
      BY <1>1, <2>2
    <3>3. QED
      BY <3>1, <3>2 DEF BoxInv
  <2>3. QED
    BY <2>1, <2>2
<1>5. InHand' \subseteq Execs \X Dlvs /\ Tried' \subseteq InHand' /\ Told' \subseteq Tried'
  BY <1>1 DEF BoxInv
<1>6. QED
  BY <1>1, <1>2, <1>3, <1>4, <1>5 DEF BoxInv

\* The outbox, by itself, keeps the accounts.
LEMMA OutboxAccounts == IsOutbox => []BoxInv
<1>1. Box!Init => BoxInv
  <2> SUFFICES ASSUME Box!Init PROVE BoxInv
    OBVIOUS
  <2>1. /\ \A d \in Dlvs : Fates[d] = "absent"
        /\ InHand = {} /\ Tried = {} /\ Told = {}
        /\ sends = [d \in Dlvs |-> 0] /\ lost = [d \in Dlvs |-> 0]
    BY DEF Box!Init, Fates
  <2>2. QED
    BY <2>1 DEF BoxInv
<1>2. BoxInv /\ [Box!Next]_(Box!vars) => BoxInv'
  <2>1. BoxInv /\ UNCHANGED (Box!vars) => BoxInv'
    BY DEF BoxInv, Box!vars, Fates
  <2>2. QED
    BY <2>1, BoxArrange, BoxGoOut, BoxRecord, BoxDie DEF Box!Next
<1>3. QED
  BY <1>1, <1>2, PTL DEF IsOutbox, Box!Spec

\* A mail that the table calls sent was accepted by the server, and exactly once more than
\* it was without a sender that could record it (mark_delivery_sent): it follows from the
\* refinement, by the abstract accounts.
THEOREM SentIsAccounted ==
    ASSUME RunLimit <= Lease
    PROVE  Spec => []SentWentOut
<1>1. BoxInv => SentWentOut
  BY DEF BoxInv, SentWentOut, Fates, Fate, Active
<1>2. QED
  BY <1>1, RemindersAreOutbox, OutboxAccounts, PTL

-----------------------------------------------------------------------------
(* Who writes a result *)

\* A result is recorded under the claim token the row carries: an executor whose lease has
\* expired, or whose delivery was withdrawn while it was sending, records nothing.
THEOREM ResultsAreHolders == Spec => WrittenByHolder
<1>1. TypeOK /\ [Next]_vars
        => [\A d \in Dlvs : (dlv'[d] # dlv[d] /\ dlv'[d].status \in {"sent", "failed"})
              => \E e \in Execs : \E c \in exec[e].inflight :
                    c.id = d /\ c.token = dlv[d].token]_vars
  <2> SUFFICES ASSUME TypeOK, [Next]_vars, NEW d \in Dlvs,
                      dlv'[d] # dlv[d], dlv'[d].status \in {"sent", "failed"}
               PROVE  \E e \in Execs : \E c \in exec[e].inflight :
                         c.id = d /\ c.token = dlv[d].token
    OBVIOUS
  <2>1. ~(TaskStep \/ OneTimeStep \/ EnsureStockRule)
    BY TableStepLowers DEF Lowered
  <2>2. ASSUME NEW e \in Execs, ClaimDue(e) PROVE FALSE
    <3> DEFINE ch == ChannelOf(e)
    <3>1. PICK B : dlv' = ClaimDlvs(MergedDlvs(ch), B, now)
      BY <2>2, ClaimRows
    <3>2. MergedDlvs(ch) \in DlvTable /\ Lowered(dlv[d], MergedDlvs(ch)[d])
      BY StagesType, StagesLower
    <3>3. QED
      BY <3>1, <3>2, ClaimedRow DEF Lowered
  <2>3. ASSUME NEW e \in Execs, Mark(e)
        PROVE  \E c \in exec[e].inflight : c.id = d /\ c.token = dlv[d].token
    <3>1. PICK c \in exec[e].inflight :
              /\ c.id \in Dlvs
              /\ IF Holds(dlv[c.id], c)
                 THEN dlv' = [dlv EXCEPT ![c.id] =
                                 Result(dlv[c.id], exec[e].result, c.token, now)]
                 ELSE dlv' = dlv
      BY <2>3, MarkRow
    <3>2. c.id = d /\ Holds(dlv[c.id], c)
      BY <3>1 DEF TypeOK, DlvTable
    <3>3. QED
      BY <3>2 DEF Holds
  <2>4. ASSUME NEW e \in Execs, Send(e) \/ Crash(e) PROVE FALSE
    BY <2>4 DEF Send, Crash, tables
  <2>5. ~(Tick \/ UNCHANGED vars)
    BY DEF Tick, tables, vars
  <2>6. QED
    BY <2>1, <2>2, <2>3, <2>4, <2>5 DEF Next, ExecStep
<1>2. QED
  BY <1>1, TypeCorrect, PTL DEF Spec, WrittenByHolder

-----------------------------------------------------------------------------
(* How late a weekly reminder is claimed *)

\* Skipping an occurrence ends a pending one and keeps its instant.
LEMMA SkippedOcc ==
    ASSUME NEW oc \in OccTable, NEW S, NEW o \in Occs
    PROVE  \/ SkipOccs(oc, S)[o] = oc[o]
           \/ /\ o \in S /\ oc[o].status = "pending"
              /\ SkipOccs(oc, S)[o].status = "skipped"
              /\ SkipOccs(oc, S)[o].at = oc[o].at
  BY DEF SkipOccs, OccTable

\* After the stages of claim_due a pending weekly occurrence is within its grace.
LEMMA PendingInGrace ==
    ASSUME TypeOK, NEW c, NEW o \in WeeklyOccs, MergedOccs(c)[o].status = "pending"
    PROVE  now <= MergedOccs(c)[o].at + Grace
<1>1. GenOccs \in OccTable /\ LiveOccs \in OccTable /\ o \in Occs
  BY StagesType, OccKinds
<1>2. MergedOccs(c)[o] = LiveOccs[o] /\ LiveOccs[o].status = "pending"
  BY <1>1, SkippedOcc DEF MergedOccs
<1>3. LiveOccs[o] = GenOccs[o] /\ o \notin Overdue(GenOccs, now)
  <2>1. LiveOccs[o] = GenOccs[o]
    BY <1>1, <1>2, SkippedOcc DEF LiveOccs
  <2>2. LiveOccs[o].status = "skipped" \/ o \notin Overdue(GenOccs, now)
    BY <1>1, <1>2, <2>1 DEF LiveOccs, SkipOccs, OccTable
  <2>3. QED
    BY <1>2, <2>1, <2>2
<1>4. GenOccs[o].at \in Int /\ now \in Int /\ Grace \in Int
  BY <1>1, Instants, StoreAssumption DEF OccTable, TypeOK
<1>5. ~(GenOccs[o].at + Grace < now)
  BY <1>2, <1>3 DEF Overdue
<1>6. QED
  BY <1>2, <1>3, <1>4, <1>5

\* A weekly reminder that was missed by more than its grace is expired by the transaction
\* that finds it, before it claims anything.
THEOREM WeeklyInGrace == Spec => NeverAfterGrace
<1>1. TypeOK /\ TypeOK' /\ [Next]_vars
        => [\A d \in Dlvs : (d[1] \in WeeklyOccs /\ dlv'[d].attempts > dlv[d].attempts)
              => now <= occ'[d[1]].at + Grace]_vars
  <2> SUFFICES ASSUME TypeOK, TypeOK', [Next]_vars, NEW d \in Dlvs, d[1] \in WeeklyOccs,
                      dlv'[d].attempts > dlv[d].attempts
               PROVE  now <= occ'[d[1]].at + Grace
    OBVIOUS
  <2>1. dlv \in DlvTable /\ dlv[d].attempts \in Nat /\ dlv'[d].attempts \in Nat
    BY StatementLowers DEF TypeOK
  <2>2. ~(TaskStep \/ OneTimeStep \/ EnsureStockRule)
    BY <2>1, TableStepLowers DEF Lowered
  <2>3. ASSUME NEW e \in Execs, ClaimDue(e) PROVE now <= occ'[d[1]].at + Grace
    <3> DEFINE ch == ChannelOf(e)
    <3>1. PICK B \in SUBSET Claimable(MergedOccs(ch), MergedDlvs(ch), ch, now) :
              dlv' = ClaimDlvs(MergedDlvs(ch), B, now) /\ occ' = MergedOccs(ch)
      BY <2>3, ClaimRows
    <3>2. /\ MergedDlvs(ch) \in DlvTable /\ Lowered(dlv[d], MergedDlvs(ch)[d])
          /\ MergedDlvs(ch)[d].attempts \in Nat
      BY StagesType, StagesLower, StatementLowers
    <3>3. d \in B
      BY <2>1, <3>1, <3>2, ClaimedRow DEF Lowered
    <3>4. MergedOccs(ch)[d[1]].status = "pending"
      BY <3>3 DEF Claimable
    <3>5. QED
      BY <3>1, <3>4, PendingInGrace
  <2>4. ASSUME NEW e \in Execs, Mark(e) PROVE FALSE
    <3>1. PICK c \in exec[e].inflight :
              /\ c.id \in Dlvs
              /\ IF Holds(dlv[c.id], c)
                 THEN dlv' = [dlv EXCEPT ![c.id] =
                                 Result(dlv[c.id], exec[e].result, c.token, now)]
                 ELSE dlv' = dlv
      BY <2>4, MarkRow
    <3>2. dlv'[d] \in {dlv[d], Result(dlv[d], exec[e].result, c.token, now)}
      BY <2>1, <3>1 DEF DlvTable
    <3>3. Result(dlv[d], exec[e].result, c.token, now).attempts = dlv[d].attempts
      BY <2>1 DEF Result, Released, DlvTable
    <3>4. QED
      BY <2>1, <3>2, <3>3
  <2>5. ASSUME NEW e \in Execs, Send(e) \/ Crash(e) PROVE FALSE
    BY <2>1, <2>5 DEF Send, Crash, tables
  <2>6. ~(Tick \/ UNCHANGED vars)
    BY <2>1 DEF Tick, tables, vars
  <2>7. QED
    BY <2>2, <2>3, <2>4, <2>5, <2>6 DEF Next, ExecStep
<1>2. QED
  BY <1>1, TypeCorrect, PTL DEF Spec, NeverAfterGrace

-----------------------------------------------------------------------------
(* How often a delivery is claimed *)

\* Some executor has d in its batch.
Held(d) == \E e \in Execs : \E c \in exec[e].batch : c.id = d

\* A claimed row carries its attempt as its token; a row that waits, or that its executor
\* died over, has used no more than the retries and the crashes account for.
AttemptsInv ==
    \A d \in Dlvs :
        /\ dlv[d].status = "sending" => dlv[d].token = dlv[d].attempts
        /\ dlv[d].attempts <= 1 + Retries + crashes
        /\ (dlv[d].status \in {"absent", "pending"} \/ (dlv[d].status = "sending" /\ ~Held(d)))
              => dlv[d].attempts <= Retries + crashes

\* The numbers of the invariant.
LEMMA AttemptNumbers ==
    ASSUME TypeOK, NEW d \in Dlvs
    PROVE  dlv[d].attempts \in Nat /\ Retries \in Nat /\ crashes \in Nat
<1>1. crashes \in Nat
  BY ExecAssumption DEF TypeOK
<1>2. QED
  BY <1>1, StoreAssumption, StatementLowers DEF TypeOK

\* A row the stages of claim_due recover has no living holder.
LEMMA StagesAttempts ==
    ASSUME TypeOK, OnceInv, AttemptsInv, RunLimit <= Lease, NEW ch, NEW d \in Dlvs
    PROVE  LET row == MergedDlvs(ch)[d]
           IN \/ row = dlv[d]
              \/ row.status \in {"pending", "skipped"} /\ row.attempts <= Retries + crashes
<1> DEFINE row == MergedDlvs(ch)[d]
<1>1. \/ row = dlv[d]
      \/ row.status \in {"pending", "skipped"} /\ row.attempts <= dlv[d].attempts
  BY StagesLower DEF Lowered
<1>2. CASE dlv[d].status = "sending" /\ Held(d)
  <2>1. PICK f \in Execs : \E c \in exec[f].batch : c.id = d
    BY <1>2 DEF Held
  <2>2. exec[f].started \in Time /\ now < exec[f].started + RunLimit
        /\ dlv[d].claimedAt = exec[f].started
    BY <1>2, <2>1 DEF OnceInv, ClaimsCurrent
  <2>3. exec[f].started \in Nat /\ now \in Nat
    BY <2>2, Instants DEF TypeOK
  <2>4. ~(dlv[d].claimedAt <= now - Lease)
    BY <2>2, <2>3, StoreAssumption, ExecAssumption
  <2>5. QED
    BY <1>2, <2>4, StagesKeep
<1>3. CASE dlv[d].status \in Final
  BY <1>3, StagesKeep
<1>4. CASE \/ dlv[d].status \in {"absent", "pending"}
           \/ dlv[d].status = "sending" /\ ~Held(d)
  <2>1. dlv[d].attempts <= Retries + crashes
    BY <1>4 DEF AttemptsInv
  <2>2. MergedDlvs(ch) \in DlvTable
    BY StagesType
  <2>3. row.attempts \in Nat
    BY <2>2, StatementLowers
  <2>4. QED
    BY <1>1, <2>1, <2>3, AttemptNumbers
<1>5. dlv[d].status \in DlvStatus
  BY DEF TypeOK, DlvTable
<1>6. QED
  BY <1>2, <1>3, <1>4, <1>5 DEF DlvStatus, Final

\* Claiming adds an attempt to a pending row and takes hold of it.
LEMMA ClaimAttempts ==
    ASSUME TypeOK, OnceInv, AttemptsInv, RunLimit <= Lease, NEW e \in Execs, ClaimDue(e)
    PROVE  AttemptsInv'
<1> DEFINE ch == ChannelOf(e)
           dl == MergedDlvs(ch)
<1>1. PICK B \in SUBSET Claimable(MergedOccs(ch), dl, ch, now) :
          /\ dlv' = ClaimDlvs(dl, B, now)
          /\ B \subseteq Dlvs
          /\ exec'[e].batch = {[id |-> d, token |-> dl[d].attempts + 1] : d \in B}
          /\ \A f \in Execs \ {e} : exec'[f] = exec[f]
          /\ UNCHANGED crashes
  BY ClaimRows
<1>2. dl \in DlvTable
  BY StagesType
<1>3. exec[e].batch = {}
  BY DEF ClaimDue
<1> SUFFICES ASSUME NEW d \in Dlvs
             PROVE  /\ dlv'[d].status = "sending" => dlv'[d].token = dlv'[d].attempts
                    /\ dlv'[d].attempts <= 1 + Retries + crashes'
                    /\ (\/ dlv'[d].status \in {"absent", "pending"}
                        \/ dlv'[d].status = "sending" /\ ~Held(d)')
                          => dlv'[d].attempts <= Retries + crashes'
  BY DEF AttemptsInv
<1>4. dl[d].attempts \in Nat /\ Retries \in Nat /\ crashes \in Nat
  BY <1>2, StatementLowers, AttemptNumbers
<1>5. \/ dl[d] = dlv[d]
      \/ dl[d].status \in {"pending", "skipped"} /\ dl[d].attempts <= Retries + crashes
  BY StagesAttempts
<1>6. CASE d \in B
  <2>1. dl[d].status = "pending"
    BY <1>6 DEF Claimable
  <2>2. dl[d].attempts <= Retries + crashes
    BY <1>5, <2>1 DEF AttemptsInv
  <2>3. /\ dlv'[d].status = "sending"
        /\ dlv'[d].attempts = dl[d].attempts + 1
        /\ dlv'[d].token = dl[d].attempts + 1
    BY <1>1, <1>2, <1>6, ClaimedRow
  <2>4. Held(d)'
    <3>1. [id |-> d, token |-> dl[d].attempts + 1] \in exec'[e].batch
      BY <1>1, <1>6
    <3>2. QED
      BY <3>1 DEF Held
  <2>5. QED
    BY <1>1, <1>4, <2>2, <2>3, <2>4
<1>7. CASE d \notin B
  <2>1. dlv'[d] = dl[d]
    BY <1>1, <1>2, <1>7, ClaimedRow
  <2>2. Held(d) => Held(d)'
    BY <1>1, <1>3 DEF Held
  <2>3. CASE dl[d] = dlv[d]
    BY <1>1, <2>1, <2>2, <2>3 DEF AttemptsInv
  <2>4. CASE dl[d].status \in {"pending", "skipped"} /\ dl[d].attempts <= Retries + crashes
    BY <1>1, <1>4, <2>1, <2>4
  <2>5. QED
    BY <1>5, <2>3, <2>4
<1>8. QED
  BY <1>6, <1>7

\* A result ends the delivery, or grants a retry that the policy still has.
LEMMA MarkAttempts ==
    ASSUME TypeOK, OnceInv, AttemptsInv, NEW e \in Execs, Mark(e)
    PROVE  AttemptsInv'
<1>1. PICK c \in exec[e].inflight :
          /\ c.id \in Dlvs
          /\ IF Holds(dlv[c.id], c)
             THEN dlv' = [dlv EXCEPT ![c.id] =
                             Result(dlv[c.id], exec[e].result, c.token, now)]
             ELSE dlv' = dlv
          /\ exec' = [exec EXCEPT ![e] =
                 IF exec[e].batch \ {c} = {} THEN Idle
                 ELSE [exec[e] EXCEPT !.batch = exec[e].batch \ {c},
                                      !.inflight = {}, !.result = "ok"]]
  BY MarkRow
<1>2. UNCHANGED crashes
  BY DEF Mark
<1>3. dlv \in DlvTable /\ exec[e] \in Run /\ exec \in [Execs -> Run]
  BY DEF TypeOK
<1>4. c \in exec[e].batch
  BY <1>1 DEF OnceInv, ClaimsCurrent
<1>5. exec'[e].batch = exec[e].batch \ {c} /\ \A f \in Execs \ {e} : exec'[f] = exec[f]
  BY <1>1, <1>3 DEF Run, Idle
<1> SUFFICES ASSUME NEW d \in Dlvs
             PROVE  /\ dlv'[d].status = "sending" => dlv'[d].token = dlv'[d].attempts
                    /\ dlv'[d].attempts <= 1 + Retries + crashes'
                    /\ (\/ dlv'[d].status \in {"absent", "pending"}
                        \/ dlv'[d].status = "sending" /\ ~Held(d)')
                          => dlv'[d].attempts <= Retries + crashes'
  BY DEF AttemptsInv
<1>6. dlv[d].attempts \in Nat /\ Retries \in Nat /\ crashes \in Nat
  BY AttemptNumbers
<1>7. CASE d # c.id
  <2>1. dlv'[d] = dlv[d]
    BY <1>1, <1>3, <1>7 DEF DlvTable
  <2>2. Held(d) => Held(d)'
    <3> SUFFICES ASSUME NEW f \in Execs, NEW b \in exec[f].batch, b.id = d
                 PROVE  b \in exec'[f].batch
      BY DEF Held
    <3>1. b # c
      BY <1>7
    <3>2. QED
      BY <1>5, <3>1
  <2>3. QED
    BY <1>2, <2>1, <2>2 DEF AttemptsInv
<1>8. CASE d = c.id /\ ~Holds(dlv[d], c)
  <2>1. dlv[d].status = "skipped"
    BY <1>4, <1>8 DEF OnceInv, ClaimsCurrent, Holds
  <2>2. dlv'[d] = dlv[d]
    BY <1>1, <1>8
  <2>3. QED
    BY <1>2, <2>1, <2>2 DEF AttemptsInv
<1>9. CASE d = c.id /\ Holds(dlv[d], c)
  <2> DEFINE row == Result(dlv[d], exec[e].result, c.token, now)
  <2>1. dlv'[d] = row
    BY <1>1, <1>3, <1>9 DEF DlvTable
  <2>2. c.token = dlv[d].attempts /\ dlv[d].attempts <= 1 + Retries + crashes
    BY <1>9 DEF AttemptsInv, Holds
  <2>3. row.attempts = dlv[d].attempts /\ row.status \in {"sent", "failed", "pending"}
    BY <1>3 DEF Result, Released, DlvTable
  <2>4. row.status = "pending" => c.token \in 1..Retries
    BY <1>3 DEF Result, Released, RetryAt, DlvTable
  <2>5. QED
    BY <1>2, <1>6, <2>1, <2>2, <2>3, <2>4
<1>10. QED
  BY <1>7, <1>8, <1>9

\* Every executor that dies is a crash more.
LEMMA KillAttempts ==
    ASSUME TypeOK, AttemptsInv, NEW K \in SUBSET Execs, Kill(K), UNCHANGED dlv
    PROVE  AttemptsInv'
<1>1. Cardinality(K) \in Nat /\ (Cardinality(K) = 0 => K = {})
  BY ExecAssumption, FS_Subset, FS_CardinalityType, FS_EmptySet
<1>2. crashes' = crashes + Cardinality(K)
      /\ exec' = [e \in Execs |-> IF e \in K THEN Idle ELSE exec[e]]
  BY DEF Kill
<1> SUFFICES ASSUME NEW d \in Dlvs
             PROVE  /\ dlv'[d].status = "sending" => dlv'[d].token = dlv'[d].attempts
                    /\ dlv'[d].attempts <= 1 + Retries + crashes'
                    /\ (\/ dlv'[d].status \in {"absent", "pending"}
                        \/ dlv'[d].status = "sending" /\ ~Held(d)')
                          => dlv'[d].attempts <= Retries + crashes'
  BY DEF AttemptsInv
<1>3. dlv[d].attempts \in Nat /\ Retries \in Nat /\ crashes \in Nat
  BY AttemptNumbers
<1>4. K = {} => (Held(d) => Held(d)')
  BY <1>2 DEF Held
<1>5. CASE K = {}
  <2>1. Cardinality(K) = 0
    BY <1>5, FS_EmptySet
  <2>2. crashes' = crashes
    BY <1>2, <1>3, <2>1
  <2>3. QED
    BY <1>4, <1>5, <2>2 DEF AttemptsInv
<1>6. CASE K # {}
  <2>1. crashes' >= crashes + 1 /\ crashes' \in Nat
    BY <1>1, <1>2, <1>3, <1>6
  <2>2. dlv[d].attempts <= 1 + Retries + crashes
    BY DEF AttemptsInv
  <2>3. dlv'[d].status = "sending" => dlv'[d].token = dlv'[d].attempts
    BY DEF AttemptsInv
  <2>4. QED
    BY <1>3, <2>1, <2>2, <2>3
<1>7. QED
  BY <1>5, <1>6

\* Every step keeps the attempts within that.
LEMMA AttemptsAlways ==
    ASSUME RunLimit <= Lease
    PROVE  Spec => []AttemptsInv
<1>1. Init => AttemptsInv
  <2> SUFFICES ASSUME Init PROVE AttemptsInv
    OBVIOUS
  <2>1. \A d \in Dlvs : dlv[d].status = "absent" /\ dlv[d].attempts = 0
    BY DEF Init, AbsentDlv
  <2>2. crashes = 0 /\ Retries \in Nat
    BY StoreAssumption DEF Init
  <2>3. QED
    BY <2>1, <2>2 DEF AttemptsInv
<1>2. TypeOK /\ TypeOK' /\ OnceInv /\ AttemptsInv /\ [Next]_vars => AttemptsInv'
  <2> SUFFICES ASSUME TypeOK, TypeOK', OnceInv, AttemptsInv, [Next]_vars PROVE AttemptsInv'
    OBVIOUS
  <2>1. CASE TaskStep \/ OneTimeStep \/ EnsureStockRule
    <3>1. UNCHANGED <<exec, crashes>> /\ KeepsRows
      BY <2>1, TableStepKeeps
    <3>2. ASSUME NEW d \in Dlvs PROVE Held(d)' <=> Held(d)
      BY <3>1 DEF Held
    <3>3. ASSUME NEW d \in Dlvs
          PROVE  \/ dlv'[d] = dlv[d]
                 \/ dlv'[d].status = "skipped" /\ dlv'[d].attempts <= dlv[d].attempts
                 \/ /\ dlv[d].status \in {"absent", "pending"}
                    /\ dlv'[d].status \in {"pending", "skipped"}
                    /\ dlv'[d].attempts <= dlv[d].attempts
      <4>1. Lowered(dlv[d], dlv'[d])
        BY <2>1, TableStepLowers
      <4>2. dlv[d].status \in DlvStatus
        BY DEF TypeOK, DlvTable
      <4>3. QED
        BY <3>1, <4>1, <4>2 DEF Lowered, KeepsRows, DlvStatus, Final
    <3>4. ASSUME NEW d \in Dlvs
          PROVE  /\ dlv[d].attempts \in Nat /\ dlv'[d].attempts \in Nat
                 /\ Retries \in Nat /\ crashes \in Nat
      BY AttemptNumbers, StatementLowers DEF TypeOK
    <3>5. ASSUME NEW d \in Dlvs
          PROVE  /\ dlv'[d].status = "sending" => dlv'[d].token = dlv'[d].attempts
                 /\ dlv'[d].attempts <= 1 + Retries + crashes'
                 /\ (\/ dlv'[d].status \in {"absent", "pending"}
                     \/ dlv'[d].status = "sending" /\ ~Held(d)')
                       => dlv'[d].attempts <= Retries + crashes'
      BY <3>1, <3>2, <3>3, <3>4 DEF AttemptsInv
    <3>6. QED
      BY <3>5 DEF AttemptsInv
  <2>2. ASSUME NEW e \in Execs, ClaimDue(e) \/ Mark(e) PROVE AttemptsInv'
    BY <2>2, ClaimAttempts, MarkAttempts
  <2>3. ASSUME NEW e \in Execs, Send(e) PROVE AttemptsInv'
    <3>1. PICK c, result : exec' = [exec EXCEPT ![e].inflight = {c}, ![e].result = result]
      BY <2>3 DEF Send
    <3>2. \A f \in Execs : exec'[f].batch = exec[f].batch
      BY <3>1 DEF TypeOK, Run
    <3>3. UNCHANGED <<dlv, crashes>>
      BY <2>3 DEF Send, tables
    <3>4. \A d \in Dlvs : Held(d)' <=> Held(d)
      BY <3>2 DEF Held
    <3>5. QED
      BY <3>3, <3>4 DEF AttemptsInv
  <2>4. ASSUME NEW e \in Execs, Crash(e) PROVE AttemptsInv'
    BY <2>4, KillAttempts DEF Crash, tables
  <2>5. CASE Tick
    BY <2>5, KillAttempts DEF Tick, tables, Expiring
  <2>6. CASE UNCHANGED vars
    BY <2>6 DEF vars, AttemptsInv, Held
  <2>7. QED
    BY <2>1, <2>2, <2>3, <2>4, <2>5, <2>6 DEF Next, ExecStep
<1>3. Spec => []OnceInv
  BY OnceAlways
<1>4. QED
  BY <1>1, <1>2, <1>3, TypeCorrect, PTL DEF Spec

\* A delivery is attempted once, once more for each retry of the policy, and once more for
\* each executor that died, provided an executor is dead before its lease can expire.
THEOREM AttemptsBounded ==
    ASSUME RunLimit <= Lease
    PROVE  Spec => []BoundedAttempts
<1>1. AttemptsInv => BoundedAttempts
  BY DEF AttemptsInv, BoundedAttempts
<1>2. QED
  BY <1>1, AttemptsAlways, PTL

-----------------------------------------------------------------------------
(* How often a delivery goes out *)

\* A claim that its executor has not tried to send yet
Untried(d) == \E e \in Execs : \E c \in exec[e].batch : c.id = d /\ c \notin exec[e].inflight

\* Every time a delivery went out is an attempt of its row, and an untried claim is one
\* attempt more.
CopiesInv ==
    \A d \in Dlvs : /\ dlv[d].status = "absent" => sends[d] = 0
                    /\ sends[d] <= dlv[d].attempts
                    /\ Untried(d) => sends[d] + 1 <= dlv[d].attempts

\* What a claim is held on has been inserted.
LEMMA UntriedRow ==
    ASSUME TypeOK, OnceInv, NEW d \in Dlvs, Untried(d)
    PROVE  dlv[d].status # "absent"
  BY DEF OnceInv, ClaimsCurrent, Untried

\* A row that no executor touched keeps the account.
LEMMA LoweredCopies ==
    ASSUME TypeOK, OnceInv, CopiesInv, NEW d \in Dlvs, NEW row, Lowered(dlv[d], row),
           row.attempts \in Nat
    PROVE  /\ row.status = "absent" => sends[d] = 0
           /\ sends[d] <= row.attempts
           /\ Untried(d) => sends[d] + 1 <= row.attempts
<1>1. CASE dlv[d].status = "absent"
  <2>1. sends[d] = 0 /\ ~Untried(d)
    BY <1>1, UntriedRow DEF CopiesInv
  <2>2. QED
    BY <2>1
<1>2. CASE dlv[d].status # "absent"
  BY <1>2 DEF CopiesInv, Lowered
<1>3. QED
  BY <1>1, <1>2

\* Claiming adds an attempt to each row it takes.
LEMMA ClaimCopies ==
    ASSUME TypeOK, OnceInv, CopiesInv, NEW e \in Execs, ClaimDue(e)
    PROVE  CopiesInv'
<1> DEFINE ch == ChannelOf(e)
           dl == MergedDlvs(ch)
<1>1. PICK B \in SUBSET Claimable(MergedOccs(ch), dl, ch, now) :
          /\ dlv' = ClaimDlvs(dl, B, now)
          /\ B \subseteq Dlvs
          /\ exec'[e].batch = {[id |-> d, token |-> dl[d].attempts + 1] : d \in B}
          /\ \A f \in Execs \ {e} : exec'[f] = exec[f]
  BY ClaimRows
<1>2. UNCHANGED sends /\ exec[e].batch = {}
  BY DEF ClaimDue
<1>3. dl \in DlvTable
  BY StagesType
<1> SUFFICES ASSUME NEW d \in Dlvs
             PROVE  /\ dlv'[d].status = "absent" => sends'[d] = 0
                    /\ sends'[d] <= dlv'[d].attempts
                    /\ Untried(d)' => sends'[d] + 1 <= dlv'[d].attempts
  BY DEF CopiesInv
<1>4. dl[d].attempts \in Nat /\ sends[d] \in Nat
  BY <1>3, StatementLowers DEF TypeOK
<1>5. /\ dl[d].status = "absent" => sends[d] = 0
      /\ sends[d] <= dl[d].attempts
      /\ Untried(d) => sends[d] + 1 <= dl[d].attempts
  BY <1>4, StagesLower, LoweredCopies
<1>6. CASE d \in B
  <2>1. dlv'[d].status = "sending" /\ dlv'[d].attempts = dl[d].attempts + 1
    BY <1>1, <1>3, <1>6, ClaimedRow
  <2>2. QED
    BY <1>2, <1>4, <1>5, <2>1
<1>7. CASE d \notin B
  <2>1. dlv'[d] = dl[d]
    BY <1>1, <1>3, <1>7, ClaimedRow
  <2>2. Untried(d)' => Untried(d)
    BY <1>1, <1>7 DEF Untried
  <2>3. QED
    BY <1>2, <1>5, <2>1, <2>2
<1>8. QED
  BY <1>6, <1>7

\* Trying a claim uses up its attempt.
LEMMA SendCopies ==
    ASSUME TypeOK, OnceInv, CopiesInv, NEW e \in Execs, Send(e)
    PROVE  CopiesInv'
<1>1. PICK c \in exec[e].batch, result \in SendResult, out \in BOOLEAN :
          /\ exec' = [exec EXCEPT ![e].inflight = {c}, ![e].result = result]
          /\ sends' = IF out THEN [sends EXCEPT ![c.id] = sends[c.id] + 1] ELSE sends
  BY DEF Send
<1>2. exec[e].inflight = {} /\ UNCHANGED dlv
  BY DEF Send, tables
<1>3. c.id \in Dlvs /\ exec[e] \in Run
  BY ClaimIds
<1>4. /\ exec'[e].batch = exec[e].batch /\ exec'[e].inflight = {c}
      /\ \A f \in Execs \ {e} : exec'[f] = exec[f]
  BY <1>1, <1>3 DEF TypeOK, Run
<1> SUFFICES ASSUME NEW d \in Dlvs
             PROVE  /\ dlv'[d].status = "absent" => sends'[d] = 0
                    /\ sends'[d] <= dlv'[d].attempts
                    /\ Untried(d)' => sends'[d] + 1 <= dlv'[d].attempts
  BY DEF CopiesInv
<1>5. sends[d] \in Nat /\ dlv[d].attempts \in Nat
  BY StatementLowers DEF TypeOK
<1>6. CASE d = c.id
  <2>1. Untried(d)
    BY <1>2, <1>6 DEF Untried
  <2>2. dlv[d].status # "absent" /\ sends[d] + 1 <= dlv[d].attempts
    BY <2>1, UntriedRow DEF CopiesInv
  <2>3. sends'[d] \in {sends[d], sends[d] + 1}
    BY <1>1, <1>3, <1>6 DEF TypeOK
  <2>4. ~Untried(d)'
    <3> SUFFICES ASSUME NEW f \in Execs, NEW b \in exec'[f].batch, b.id = d,
                        b \notin exec'[f].inflight
                 PROVE  FALSE
      BY DEF Untried
    <3>1. b \in exec[f].batch
      BY <1>4
    <3>2. f = e /\ b = c
      BY <1>6, <3>1 DEF OnceInv, ClaimsDisjoint
    <3>3. QED
      BY <1>4, <3>2
  <2>5. QED
    BY <1>2, <1>5, <2>2, <2>3, <2>4
<1>7. CASE d # c.id
  <2>1. sends'[d] = sends[d]
    BY <1>1, <1>3, <1>7 DEF TypeOK
  <2>2. Untried(d)' => Untried(d)
    <3> SUFFICES ASSUME NEW f \in Execs, NEW b \in exec'[f].batch, b.id = d,
                        b \notin exec'[f].inflight
                 PROVE  b \in exec[f].batch /\ b \notin exec[f].inflight
      BY DEF Untried
    <3>1. QED
      BY <1>2, <1>4
  <2>3. QED
    BY <1>2, <2>1, <2>2 DEF CopiesInv
<1>8. QED
  BY <1>6, <1>7

\* Writing a result changes no attempt.
LEMMA MarkCopies ==
    ASSUME TypeOK, OnceInv, CopiesInv, NEW e \in Execs, Mark(e)
    PROVE  CopiesInv'
<1>1. PICK c \in exec[e].inflight :
          /\ c.id \in Dlvs
          /\ IF Holds(dlv[c.id], c)
             THEN dlv' = [dlv EXCEPT ![c.id] =
                             Result(dlv[c.id], exec[e].result, c.token, now)]
             ELSE dlv' = dlv
          /\ exec' = [exec EXCEPT ![e] =
                 IF exec[e].batch \ {c} = {} THEN Idle
                 ELSE [exec[e] EXCEPT !.batch = exec[e].batch \ {c},
                                      !.inflight = {}, !.result = "ok"]]
          /\ UNCHANGED sends
  BY MarkRow
<1>2. exec[e].inflight = {c} /\ exec[e] \in Run
  BY <1>1, ClaimIds DEF OnceInv, ClaimsCurrent
<1>3. exec'[e].batch = exec[e].batch \ {c} /\ \A f \in Execs \ {e} : exec'[f] = exec[f]
  BY <1>1, <1>2 DEF TypeOK, Run, Idle
<1> SUFFICES ASSUME NEW d \in Dlvs
             PROVE  /\ dlv'[d].status = "absent" => sends'[d] = 0
                    /\ sends'[d] <= dlv'[d].attempts
                    /\ Untried(d)' => sends'[d] + 1 <= dlv'[d].attempts
  BY DEF CopiesInv
<1>4. Untried(d)' => Untried(d)
  <2> SUFFICES ASSUME NEW f \in Execs, NEW b \in exec'[f].batch, b.id = d,
                      b \notin exec'[f].inflight
               PROVE  b \in exec[f].batch /\ b \notin exec[f].inflight
    BY DEF Untried
  <2>1. QED
    BY <1>2, <1>3
<1>5. dlv'[d].attempts = dlv[d].attempts /\ (dlv'[d].status = "absent" => dlv[d].status = "absent")
  <2>1. dlv'[d] \in {dlv[d], Result(dlv[d], exec[e].result, c.token, now)}
    BY <1>1 DEF TypeOK, DlvTable
  <2>2. LET row == Result(dlv[d], exec[e].result, c.token, now)
        IN row.attempts = dlv[d].attempts /\ row.status # "absent"
    BY DEF TypeOK, DlvTable, Result, Released
  <2>3. QED
    BY <2>1, <2>2
<1>6. QED
  BY <1>1, <1>4, <1>5 DEF CopiesInv

\* However often a mail goes out and is reported as a failure, and whichever senders die,
\* the copies of a reminder are as limited as its attempts (_retry_time of the dispatcher,
\* claim_due), provided an executor is dead before its lease can expire.
THEOREM CopiesBounded ==
    ASSUME RunLimit <= Lease
    PROVE  Spec => []BoundedCopies
<1>1. Init => CopiesInv
  BY DEF Init, AbsentDlv, CopiesInv, Untried, Idle
<1>2. TypeOK /\ TypeOK' /\ OnceInv /\ CopiesInv /\ [Next]_vars => CopiesInv'
  <2> SUFFICES ASSUME TypeOK, TypeOK', OnceInv, CopiesInv, [Next]_vars PROVE CopiesInv'
    OBVIOUS
  <2>1. CASE TaskStep \/ OneTimeStep \/ EnsureStockRule
    <3>1. UNCHANGED <<exec, sends>>
      BY <2>1, TableStepKeeps
    <3>2. ASSUME NEW d \in Dlvs
          PROVE  /\ dlv'[d].status = "absent" => sends[d] = 0
                 /\ sends[d] <= dlv'[d].attempts
                 /\ Untried(d) => sends[d] + 1 <= dlv'[d].attempts
      <4>1. Lowered(dlv[d], dlv'[d]) /\ dlv'[d].attempts \in Nat
        BY <2>1, TableStepLowers, StatementLowers DEF TypeOK
      <4>2. QED
        BY <4>1, LoweredCopies
    <3>3. QED
      BY <3>1, <3>2 DEF CopiesInv, Untried
  <2>2. ASSUME NEW e \in Execs, ClaimDue(e) \/ Send(e) \/ Mark(e) PROVE CopiesInv'
    BY <2>2, ClaimCopies, SendCopies, MarkCopies
  <2>3. ASSUME NEW K \in SUBSET Execs, Kill(K), UNCHANGED <<dlv, sends>> PROVE CopiesInv'
    <3>1. \A d \in Dlvs : Untried(d)' => Untried(d)
      BY <2>3 DEF Kill, Untried, Idle
    <3>2. QED
      BY <2>3, <3>1 DEF CopiesInv
  <2>4. ASSUME NEW e \in Execs, Crash(e) PROVE CopiesInv'
    BY <2>3, <2>4 DEF Crash, tables
  <2>5. CASE Tick
    BY <2>3, <2>5 DEF Tick, tables, Expiring
  <2>6. CASE UNCHANGED vars
    BY <2>6 DEF vars, CopiesInv, Untried
  <2>7. QED
    BY <2>1, <2>2, <2>4, <2>5, <2>6 DEF Next, ExecStep
<1>3. TypeOK /\ CopiesInv /\ AttemptsInv => BoundedCopies
  <2> SUFFICES ASSUME TypeOK, CopiesInv, AttemptsInv, NEW d \in Dlvs
               PROVE  sends[d] <= 1 + Retries + crashes
    BY DEF BoundedCopies
  <2>1. sends[d] \in Nat
    BY DEF TypeOK
  <2>2. QED
    BY <2>1, AttemptNumbers DEF CopiesInv, AttemptsInv
<1>4. Spec => []OnceInv /\ []AttemptsInv
  BY OnceAlways, AttemptsAlways, PTL
<1>5. QED
  BY <1>1, <1>2, <1>3, <1>4, TypeCorrect, PTL DEF Spec
=============================================================================
