---------------------------- MODULE TaskReminders ----------------------------
(***************************************************************************)
(* Tasks and the delivery of their reminders: TaskService and the one-time *)
(* reminder adapter on one side, and on the other the executors, short     *)
(* lived e-mail workers and the pet window, that claim due deliveries in   *)
(* ReminderScheduler.claim_due, send them outside any transaction and      *)
(* write the result back under their claim token.                          *)
(*                                                                         *)
(* Every action but Send, Crash and Tick is one BEGIN IMMEDIATE            *)
(* transaction of the program.                                             *)
(***************************************************************************)
EXTENDS ReminderStore

CONSTANTS
    Workers,      \* e-mail worker processes (app/workers/reminder_worker.py)
    Apps,         \* processes that show desktop reminders (the pet window)
    Dues,         \* due_at values offered to create_task and update_task
    Limit,        \* dispatch_email's limit; TaskReminderBridge.poll claims 1
    RunLimit,     \* an executor is dead this long after it claimed its batch
    MaxCrashes    \* BOUND: executors that die before finishing their batch

Execs == Workers \cup Apps
ChannelOf(e) == IF e \in Apps THEN "desktop" ELSE "email"
LimitOf(e) == IF e \in Apps THEN 1 ELSE Limit

ASSUME ExecAssumption ==
    /\ Dues \subseteq Time
    /\ Limit \in Nat
    /\ RunLimit \in Nat \ {0}
    /\ MaxCrashes \in Nat
    /\ IsFiniteSet(Execs)

VARIABLES
    now,       \* the clock every process reads
    task,      \* tasks: status and due_at
    gen,       \* how many times a task was given default deadline rules
    enabled,   \* reminder_rules with enabled = 1
    occ,       \* reminder_occurrences
    dlv,       \* notification_deliveries
    exec,      \* what each executor has claimed and not yet written back
    sends,     \* HISTORY: times a delivery really went out: a mail that the server
               \* accepted, a bubble that was handed to the window's reply queue
    lost,      \* HISTORY: those that no sender could record, because it died first
               \* or was told of a failure
    crashes    \* executors that died so far, the counter MaxCrashes bounds

tables == <<task, gen, enabled, occ, dlv>>
vars == <<now, task, gen, enabled, occ, dlv, exec, sends, lost, crashes>>

\* A PreparedDelivery in an executor's hands.  Its attempt_count is the token.
Claim == [id : Dlvs, token : Nat]
SendResult == {"ok", "temporary", "permanent"}
Run == [started : Time \cup {Nil}, batch : SUBSET Claim, inflight : SUBSET Claim,
        result : SendResult]
Idle == [started |-> Nil, batch |-> {}, inflight |-> {}, result |-> "ok"]

TypeOK ==
    /\ now \in Time
    /\ task \in [Tasks -> [status : TaskStatus, due : Dues \cup {Nil}]]
    /\ gen \in [Tasks -> 0..MaxGen]
    /\ enabled \subseteq Rules
    /\ occ \in OccTable
    /\ dlv \in DlvTable
    /\ exec \in [Execs -> Run]
    /\ sends \in [Dlvs -> Nat]
    /\ lost \in [Dlvs -> Nat]
    /\ crashes \in 0..MaxCrashes

Init ==
    /\ now = 0
    /\ task = [t \in Tasks |-> [status |-> "absent", due |-> Nil]]
    /\ gen = [t \in Tasks |-> 0]
    /\ enabled = {}
    /\ occ = [o \in Occs |-> AbsentOcc]
    /\ dlv = [d \in Dlvs |-> AbsentDlv]
    /\ exec = [e \in Execs |-> Idle]
    /\ sends = [d \in Dlvs |-> 0]
    /\ lost = [d \in Dlvs |-> 0]
    /\ crashes = 0

-----------------------------------------------------------------------------
(* TaskService.  Titles, details, priorities and planned dates play no part in      *)
(* delivery, so an update that leaves due_at alone is a stuttering step here.       *)

\* Row t becomes `row', and _create_default_deadline_reminders runs on it if
\* `remind': two rules, and an occurrence for each checkpoint still ahead.
WriteTask(t, row, remind, oc, dl, en) ==
    LET make == remind /\ row.status = "pending" /\ row.due # Nil /\ row.due > now
        new == IF make THEN {r \in RulesOf(t) : r[3] = gen[t] + 1} ELSE {}
        ahead == {o \in new : row.due + o[4] > now}
    IN /\ make => gen[t] < MaxGen
       /\ task' = [task EXCEPT ![t] = row]
       /\ gen' = IF make THEN [gen EXCEPT ![t] = gen[t] + 1] ELSE gen
       /\ enabled' = en \cup new
       /\ occ' = EnsureOccs(oc, ahead, [o \in ahead |-> row.due + o[4]])
       /\ dlv' = EnsureDlvs(dl, ahead \X Channels)
       /\ UNCHANGED <<now, exec, sends, lost, crashes>>

\* cancel_pending_for_task and disable_deadline_rules_for_task come first in every
\* operation that may change when, or whether, the task is due.
Replace(t, row, remind) ==
    WriteTask(t, row, remind, CancelTaskOccs(occ, t), CancelDlvs(dlv, RulesOf(t)),
              enabled \ RulesOf(t))

\* A due_at in the past is accepted with allow_past_due.
CreateTask(t) ==
    /\ task[t].status = "absent"
    /\ \E due \in Dues \cup {Nil} :
          WriteTask(t, [status |-> "pending", due |-> due], TRUE, occ, dlv, enabled)

UpdateDue(t) ==
    /\ task[t].status # "absent"
    /\ \E due \in Dues \cup {Nil} : Replace(t, [task[t] EXCEPT !.due = due], TRUE)

CompleteTask(t) ==
    /\ task[t].status = "pending"
    /\ Replace(t, [task[t] EXCEPT !.status = "completed"], FALSE)

CancelTask(t) ==
    /\ task[t].status = "pending"
    /\ Replace(t, [task[t] EXCEPT !.status = "cancelled"], FALSE)

ReopenTask(t) ==
    /\ task[t].status \in {"completed", "cancelled"}
    /\ Replace(t, [task[t] EXCEPT !.status = "pending"], TRUE)

-----------------------------------------------------------------------------
(* One-time and weekly rules *)

\* add_reminder asks for the desktop alone; an imported reminder may have any
\* channels, and may be overdue.
CreateOneTime(r) ==
    /\ occ[r].status = "absent"
    /\ \E at \in Time, cs \in (SUBSET Channels) \ {{}} :
          /\ occ' = EnsureOccs(occ, {r}, [o \in {r} |-> at])
          /\ dlv' = EnsureDlvs(dlv, {r} \X cs)
    /\ enabled' = enabled \cup {r}
    /\ UNCHANGED <<now, task, gen, exec, sends, lost, crashes>>

CancelOneTime(r) ==
    /\ occ[r].status = "pending"
    /\ r \in enabled
    /\ occ' = [occ EXCEPT ![r].status = "cancelled"]
    /\ enabled' = enabled \ {r}
    /\ dlv' = CancelDlvs(dlv, {r})
    /\ UNCHANGED <<now, task, gen, exec, sends, lost, crashes>>

EnsureStockRule ==
    /\ WeeklyDays # {}         \* an instance without the weekly rule
    /\ enabled' = enabled \cup {WeeklyRule}
    /\ UNCHANGED <<now, task, gen, occ, dlv, exec, sends, lost, crashes>>

-----------------------------------------------------------------------------
(* Executors *)

\* The stages of claim_due, each from the tables as the transaction has left them:
\* generate and recover, expire, merge.
WantedNow == Wanted(task, enabled, now)
GenOccs == EnsureOccs(occ, WantedNow, [o \in WantedNow |-> Checkpoint(task, o)])
GenDlvs == RecoverLeases(EnsureDlvs(dlv, WantedNow \X Channels), now)
LiveOccs == SkipOccs(GenOccs, Overdue(GenOccs, now))
LiveDlvs == SkipDlvs(GenDlvs, Overdue(GenOccs, now) \X Channels, "expired")
MergedNow(c) == Merged(LiveOccs, LiveDlvs, c, now)
MergedDlvs(c) == SkipDlvs(LiveDlvs, MergedNow(c), "coalesced")
MergedOccs(c) == SkipOccs(LiveOccs, Drained(MergedDlvs(c), {d[1] : d \in MergedNow(c)}))

\* ... and claim, in one transaction.
ClaimDue(e) ==
    LET c == ChannelOf(e)
        dl == MergedDlvs(c)
    IN /\ exec[e].batch = {}
       /\ occ' = MergedOccs(c)
       /\ \E B \in Earliest(Claimable(MergedOccs(c), dl, c, now), MergedOccs(c), LimitOf(e)) :
             /\ dlv' = ClaimDlvs(dl, B, now)
             /\ exec' = [exec EXCEPT ![e] =
                    IF B = {} THEN Idle
                    ELSE [started |-> now, inflight |-> {}, result |-> "ok",
                          batch |-> {[id |-> d, token |-> dl[d].attempts + 1] : d \in B}]]
       /\ UNCHANGED <<now, task, gen, enabled, sends, lost, crashes>>

\* QQMailer.send, or the pet window's bubble: outside any transaction.  The window
\* knows only success and failure.  A batch is worked off in scheduled_at order.
\* What is reported as a failure may have gone out: QQMailer makes "temporary" of every
\* SMTPException and OSError, also of one that comes after the server took the mail (its
\* answer to DATA never arrives, QUIT is not answered with 221), and the window may
\* raise after it queued the bubble.  A login or an address is refused before the mail.
Send(e) ==
    /\ exec[e].inflight = {}
    /\ \E c \in exec[e].batch, result \in SendResult, out \in BOOLEAN :
          /\ \A b \in exec[e].batch : occ[c.id[1]].at <= occ[b.id[1]].at
          /\ result = "ok" => out
          /\ IF e \in Apps THEN result # "temporary" ELSE result = "permanent" => ~out
          /\ exec' = [exec EXCEPT ![e].inflight = {c}, ![e].result = result]
          /\ sends' = IF out THEN [sends EXCEPT ![c.id] = sends[c.id] + 1] ELSE sends
          /\ lost' = IF out /\ result # "ok" THEN [lost EXCEPT ![c.id] = lost[c.id] + 1]
                                            ELSE lost
    /\ UNCHANGED <<now, tables, crashes>>

\* The WHERE clause of the two UPDATEs.
Bug_Holds(row, c) == row.status = "sending"    \* forgets the token
Holds(row, c) == row.status = "sending" /\ row.token = c.token

\* mark_delivery_sent or mark_delivery_failed: a no-op unless the row still carries
\* the token.  The caller ignores the answer and goes on with its batch.
Mark(e) ==
    \E c \in exec[e].inflight :
       LET holds == Holds(dlv[c.id], c)
           row == Result(dlv[c.id], exec[e].result, c.token, now)
           rest == exec[e].batch \ {c}
       IN /\ dlv' = IF holds THEN [dlv EXCEPT ![c.id] = row] ELSE dlv
          /\ occ' = IF holds /\ row.status \in Final THEN Settle(occ, dlv', c.id[1]) ELSE occ
          /\ exec' = [exec EXCEPT ![e] =
                 IF rest = {} THEN Idle
                 ELSE [exec[e] EXCEPT !.batch = rest, !.inflight = {}, !.result = "ok"]]
          /\ UNCHANGED <<now, task, gen, enabled, sends, lost, crashes>>

\* The executors in K die: what they sent without recording it is lost.
Unrecorded(K) ==
    {d \in Dlvs : \E e \in K : /\ exec[e].result = "ok"
                               /\ \E c \in exec[e].inflight : c.id = d}
Kill(K) ==
    /\ crashes + Cardinality(K) <= MaxCrashes
    /\ crashes' = crashes + Cardinality(K)
    /\ exec' = [e \in Execs |-> IF e \in K THEN Idle ELSE exec[e]]
    /\ lost' = [d \in Dlvs |-> IF d \in Unrecorded(K) THEN lost[d] + 1 ELSE lost[d]]

\* A crash, or an exception that leaves dispatch_email before the batch is finished.
\* The clock bound leaves room for the lease to expire.
Crash(e) ==
    /\ exec[e].batch # {}
    /\ now + Lease <= MaxTime
    /\ Kill({e})
    /\ UNCHANGED <<now, tables, sends>>

\* Time passes.  The Task Scheduler ends a worker that reaches its execution time
\* limit (PT5M in app/platforms/reminder_task.py).
Expiring == {e \in Execs : exec[e].batch # {} /\ now + 1 - exec[e].started >= RunLimit}
Tick ==
    /\ now < MaxTime
    /\ now' = now + 1
    /\ Kill(Expiring)
    /\ UNCHANGED <<tables, sends>>

TaskStep == \E t \in Tasks : \/ CreateTask(t) \/ UpdateDue(t) \/ CompleteTask(t)
                             \/ CancelTask(t) \/ ReopenTask(t)
OneTimeStep == \E r \in OneTimeRules : CreateOneTime(r) \/ CancelOneTime(r)
ExecStep == \E e \in Execs : ClaimDue(e) \/ Send(e) \/ Mark(e) \/ Crash(e)

Next == TaskStep \/ OneTimeStep \/ EnsureStockRule \/ ExecStep \/ Tick

Spec == Init /\ [][Next]_vars

\* A worker keeps running when there is work (the scheduled task every 10 minutes, the
\* window's 30 s timer), an SMTP or bubble call returns, and the clock advances.
Fairness == /\ WF_vars(Tick)
            /\ \A e \in Execs : WF_vars(ClaimDue(e)) /\ WF_vars(Send(e)) /\ WF_vars(Mark(e))
FairSpec == Spec /\ Fairness

-----------------------------------------------------------------------------
(* Safety *)

\* What waits to be sent for a task is true of the task now: a deadline occurrence that
\* is pending, or has a channel still to send, comes from an enabled rule of a pending
\* task and lies at its offset from the present due_at (update, complete, cancel and
\* reopen withdraw the old reminders; claim_due generates and recovers).
CurrentReminders ==
    \A o \in DeadlineRules :
        (occ[o].status = "pending" \/ \E c \in Channels : dlv[<<o, c>>].status \in Active)
            => /\ o \in enabled
               /\ task[TaskOf(o)].status = "pending"
               /\ occ[o].at = task[TaskOf(o)].due + o[4]

\* A channel still to send has a pending occurrence, without which no claim_due would
\* ever select it again.  The weekly rule is excepted: its expiry leaves a channel alone
\* that is being sent, and a lease recovered later leaves it pending for good.
NoOrphan ==
    \A d \in Dlvs : (dlv[d].status \in Active /\ d[1] \notin WeeklyOccs)
                        => occ[d[1]].status = "pending"

\* An occurrence that settled as completed went out on every channel it has.
CompletedMeansSent ==
    \A o \in Occs : occ[o].status = "completed"
        => \A c \in Channels : dlv[<<o, c>>].status \in {"sent", "absent"}

\* No delivery goes out twice, unless the time before could not be recorded: its sender
\* died between the mail server's answer and its own bookkeeping, or the answer was lost
\* and a mail that went out was reported as a failure.  Concurrent executors never send
\* the same delivery.
AtMostOnce == \A d \in Dlvs : sends[d] <= 1 + lost[d]

\* However often the server's answer is lost, the copies of one reminder are limited: one,
\* one for each retry the policy grants, and one for each executor that died.
BoundedCopies == \A d \in Dlvs : sends[d] <= 1 + Retries + crashes

\* What delivering looks like from outside.  A row that waits, is being sent or was
\* taken from a dead executor is an open notice.
Fate(row) == IF row.status \in Active THEN "open" ELSE row.status
InHand == {p \in Execs \X Dlvs : \E c \in exec[p[1]].batch : c.id = p[2]}
Tried == {p \in Execs \X Dlvs : \E c \in exec[p[1]].inflight : c.id = p[2]}
Told == {p \in Execs \X Dlvs : \E c \in exec[p[1]].inflight :
            c.id = p[2] /\ exec[p[1]].result = "ok"}

Box == INSTANCE Outbox WITH
    Notices <- Dlvs,
    Senders <- Execs,
    fate <- [d \in Dlvs |-> Fate(dlv[d])],
    held <- InHand,
    tried <- Tried,
    told <- Told,
    copies <- sends,
    lost <- lost

\* Leases, tokens, recovery, expiry, merging and retries together implement the
\* outbox: no notice is in two hands, a sender tries it once each time it has it in hand
\* and it goes out no more once that was reported, and what was decided of it stays
\* decided.
IsOutbox == Box!Spec

\* An e-mail row that says sent is a mail that the server accepted, exactly once more than
\* it did without a sender that could record it: a retry, a recovered lease or a late
\* result never records what did not happen.  (A desktop row says only that the bubble
\* was handed over: it may wait in the reply queue and be thrown away there.)
SentWentOut ==
    \A d \in Dlvs : (d[2] = "email" /\ dlv[d].status = "sent") => sends[d] = 1 + lost[d]

\* An executor never announces two checkpoints of one task in one batch: claim_due
\* merges before it claims.
OneReminderPerTask ==
    \A e \in Execs : \A b, c \in exec[e].batch :
        (/\ {b.id[1], c.id[1]} \subseteq DeadlineRules
         /\ TaskOf(b.id[1]) = TaskOf(c.id[1])) => b = c

\* A delivery is claimed for a first attempt, for each retry the policy grants, and once
\* more for every executor that died; never beyond that.
BoundedAttempts ==
    \A d \in Dlvs : dlv[d].attempts <= 1 + Retries + crashes

\* What was sent, failed or skipped is history: no later transaction touches the row.
FinalIsFinal == [][\A d \in Dlvs : dlv[d].status \in Final => dlv'[d] = dlv[d]]_vars

\* A delivery is merged away only into a later checkpoint of the same task and channel
\* that is itself still to be sent after the step.
MergedIntoLater ==
    [][\A d \in Dlvs : (dlv[d].error # "coalesced" /\ dlv'[d].error = "coalesced")
          => \E e \in Dlvs : /\ e[1] \in RulesOf(TaskOf(d[1])) /\ e[2] = d[2]
                             /\ occ'[d[1]].at < occ'[e[1]].at
                             /\ dlv'[e].status \in Active]_vars

\* Only the executor whose claim is current records a result; a holder of an expired
\* lease, or of a delivery withdrawn meanwhile, changes nothing.
WrittenByHolder ==
    [][\A d \in Dlvs : (dlv'[d] # dlv[d] /\ dlv'[d].status \in {"sent", "failed"})
          => \E e \in Execs : \E c \in exec[e].inflight :
                c.id = d /\ c.token = dlv[d].token]_vars

\* A weekly reminder is never handed to an executor after its grace period.
NeverAfterGrace ==
    [][\A d \in Dlvs : (d[1] \in WeeklyOccs /\ dlv'[d].attempts > dlv[d].attempts)
          => now <= occ'[d[1]].at + Grace]_vars

-----------------------------------------------------------------------------
(* Liveness *)

\* A due reminder is eventually sent, given up or withdrawn on every channel that has an
\* executor: with e-mail disabled nobody claims that channel and its rows stay pending.
\* One end is excepted, that of NoOrphan: a weekly reminder that expires while a channel
\* is being sent, whose row stays pending for good when the lease is recovered.
DueIsResolved ==
    \A d \in Occs \X {ChannelOf(e) : e \in Execs} :
        (/\ dlv[d].status \in Active
         /\ occ[d[1]].status = "pending"
         /\ occ[d[1]].at <= now)
        ~> \/ dlv[d].status \in Final
           \/ /\ d[1] \in WeeklyOccs
              /\ occ[d[1]].status = "skipped" /\ dlv[d].status = "sending"

=============================================================================
