---------------------------- MODULE ReminderStore ----------------------------
(***************************************************************************)
(* The reminder tables of tasks.sqlite3 and the SQL statements of          *)
(* ReminderRepository, each as an operator from the tables a transaction   *)
(* reads to the table it writes.  A transaction of the program composes    *)
(* them (module TaskReminders); nothing here is a step.                    *)
(*                                                                         *)
(* An operator Bug_X stands before X and is X with a plausible defect; no  *)
(* module uses it.  It is there to be put in the place of X to see that a  *)
(* property notices.                                                       *)
(*                                                                         *)
(* A rule or an occurrence is named by what makes it unique, in place of   *)
(* its uuid: a default deadline rule by its task, the generation of rules  *)
(* it was created with and its offset; the weekly rule's occurrence by its *)
(* day; a one-time rule by its own name.  A deadline rule or a one-time    *)
(* rule has at most one occurrence, so the two share the name.             *)
(***************************************************************************)
EXTENDS Integers, FiniteSets

CONSTANTS
    Tasks,        \* task ids
    OneTimes,     \* one-time reminder rules that can be created
    Offsets,      \* _DEFAULT_DEADLINE_OFFSETS: distances before due_at, negative
    MaxGen,       \* BOUND: generations of default rules of one task
    WeeklyDays,   \* days the weekday mask of the weekly rule selects
    DayLength,    \* clock units of a local day
    WeeklyAt,     \* time_of_day of the weekly rule
    Grace,        \* grace_seconds of the weekly rule
    Lease,        \* lease_seconds
    Retries,      \* number of retries the policy grants
    RetryDelays,  \* _RETRY_DELAYS_SECONDS, a function on 1..Retries
    MaxTime       \* BOUND: last clock value

ASSUME StoreAssumption ==
    /\ MaxGen \in Nat
    /\ MaxTime \in Nat
    /\ Offsets \subseteq Int /\ IsFiniteSet(Offsets)
    /\ \A off \in Offsets : off < 0
    /\ WeeklyDays \subseteq Nat
    /\ DayLength \in Nat \ {0}
    /\ WeeklyAt \in Nat
    /\ Grace \in Nat
    /\ Lease \in Nat \ {0}
    /\ Retries \in Nat /\ RetryDelays \in [1..Retries -> Nat]

Nil == -1                   \* SQL NULL, for an instant or a token
Time == 0..MaxTime
Channels == {"desktop", "email"}

DeadlineRules == {"deadline"} \X Tasks \X (1..MaxGen) \X Offsets
OneTimeRules == {"one_time"} \X OneTimes
WeeklyRule == <<"weekly">>
Rules == DeadlineRules \cup OneTimeRules \cup {WeeklyRule}

Day(t) == t \div DayLength
WeeklyOccs == {"weekly"} \X (0..Day(MaxTime))
Occs == DeadlineRules \cup OneTimeRules \cup WeeklyOccs
Dlvs == Occs \X Channels    \* UNIQUE(occurrence_id, channel)

TaskOf(o) == o[2]           \* task_id, of a deadline occurrence
RulesOf(t) == {r \in DeadlineRules : TaskOf(r) = t}
RuleOf(o) == IF o \in WeeklyOccs THEN WeeklyRule ELSE o

\* Rows.  "absent" is a row that has not been inserted.
TaskStatus == {"absent", "pending", "completed", "cancelled"}
OccStatus == {"absent", "pending", "completed", "skipped", "cancelled"}
DlvStatus == {"absent", "pending", "sending", "sent", "failed", "skipped"}
ErrorCode == {"none", "error", "coalesced", "expired", "cancelled"}

Active == {"pending", "sending"}
Final == {"sent", "failed", "skipped"}

OccTable == [Occs -> [status : OccStatus, at : Int]]
DlvTable == [Dlvs -> [status : DlvStatus, attempts : Nat, token : Nat \cup {Nil},
                      claimedAt : Time \cup {Nil}, nextAt : Time \cup {Nil},
                      error : ErrorCode]]

AbsentOcc == [status |-> "absent", at |-> 0]
AbsentDlv == [status |-> "absent", attempts |-> 0, token |-> Nil,
              claimedAt |-> Nil, nextAt |-> Nil, error |-> "none"]
NewDlv == [AbsentDlv EXCEPT !.status = "pending"]

\* A delivery row that leaves the executors' hands: claim_token and claimed_at NULL.
Released(row, status, next, code) ==
    [row EXCEPT !.status = status, !.token = Nil, !.claimedAt = Nil,
                !.nextAt = next, !.error = code]

-----------------------------------------------------------------------------
(* Creation *)

\* _ensure_occurrence and _ensure_deliveries: ON CONFLICT DO NOTHING.
EnsureOccs(oc, S, at) ==
    [o \in Occs |-> IF o \in S /\ oc[o].status = "absent"
                    THEN [status |-> "pending", at |-> at[o]] ELSE oc[o]]
Bug_EnsureDlvs(dl, D) ==    \* ON CONFLICT DO UPDATE
    [d \in Dlvs |-> IF d \in D THEN NewDlv ELSE dl[d]]
EnsureDlvs(dl, D) ==
    [d \in Dlvs |-> IF d \in D /\ dl[d].status = "absent" THEN NewDlv ELSE dl[d]]

\* The occurrences _generate_occurrences asks for at instant t: the checkpoints of
\* the enabled rules of pending tasks, and today's occurrence of the weekly rule.
Wanted(tk, en, t) ==
    {o \in DeadlineRules : /\ o \in en
                           /\ tk[TaskOf(o)].status = "pending"
                           /\ tk[TaskOf(o)].due # Nil}
    \cup {o \in WeeklyOccs : /\ WeeklyRule \in en
                             /\ o[2] = Day(t)
                             /\ Day(t) \in WeeklyDays}

\* When each of them is due.
Checkpoint(tk, o) ==
    IF o \in WeeklyOccs THEN o[2] * DayLength + WeeklyAt
                        ELSE tk[TaskOf(o)].due + o[4]

-----------------------------------------------------------------------------
(* Withdrawal *)

CancelTaskOccs(oc, t) ==
    [o \in Occs |-> IF o \in RulesOf(t) /\ oc[o].status = "pending"
                    THEN [oc[o] EXCEPT !.status = "cancelled"] ELSE oc[o]]

Bug_CancelDlvs(dl, S) ==    \* leaves what is being sent
    [d \in Dlvs |-> IF d[1] \in S /\ dl[d].status = "pending"
                    THEN Released(dl[d], "skipped", Nil, "cancelled") ELSE dl[d]]
Bug_CancelDlvs_Status(dl, S) ==    \* the occurrence's status, which deliveries lack
    [d \in Dlvs |-> IF d[1] \in S /\ dl[d].status \in Active
                    THEN Released(dl[d], "cancelled", Nil, "cancelled") ELSE dl[d]]

\* The second statement of cancel_pending_for_task and of
\* cancel_one_time_occurrence: every active delivery of the occurrences in S.
CancelDlvs(dl, S) ==
    [d \in Dlvs |-> IF d[1] \in S /\ dl[d].status \in Active
                    THEN Released(dl[d], "skipped", Nil, "cancelled") ELSE dl[d]]

-----------------------------------------------------------------------------
(* The statements of claim_due, in its order *)

Bug_RecoverLeases(dl, t) ==    \* a unit early
    [d \in Dlvs |-> IF dl[d].status = "sending" /\ dl[d].claimedAt < t
                    THEN [dl[d] EXCEPT !.status = "pending", !.token = Nil,
                                       !.claimedAt = Nil]
                    ELSE dl[d]]
RecoverLeases(dl, t) ==
    [d \in Dlvs |-> IF dl[d].status = "sending" /\ dl[d].claimedAt <= t - Lease
                    THEN [dl[d] EXCEPT !.status = "pending", !.token = Nil,
                                       !.claimedAt = Nil]
                    ELSE dl[d]]

Bug_Overdue(oc, t) ==    \* a unit late
    {o \in WeeklyOccs : oc[o].status = "pending" /\ oc[o].at + Grace + 1 < t}
Overdue(oc, t) ==
    {o \in WeeklyOccs : oc[o].status = "pending" /\ oc[o].at + Grace < t}

SkipOccs(oc, S) == [o \in Occs |-> IF o \in S /\ oc[o].status = "pending"
                                   THEN [oc[o] EXCEPT !.status = "skipped"] ELSE oc[o]]

Bug_SkipDlvs(dl, D, code) ==    \* forgets those awaiting a retry
    [d \in Dlvs |-> IF d \in D /\ dl[d].status = "pending" /\ dl[d].nextAt = Nil
                    THEN Released(dl[d], "skipped", Nil, code) ELSE dl[d]]
\* Only the pending deliveries: a channel that is being sent keeps its row.
SkipDlvs(dl, D, code) ==
    [d \in Dlvs |-> IF d \in D /\ dl[d].status = "pending"
                    THEN Released(dl[d], "skipped", Nil, code) ELSE dl[d]]

Bug_Mergeable(oc, dl, c, t) ==    \* forgets those awaiting a retry
    {d \in Dlvs : /\ d[2] = c
                  /\ d[1] \in DeadlineRules
                  /\ dl[d].status = "pending" /\ dl[d].nextAt = Nil
                  /\ oc[d[1]].status = "pending"
                  /\ oc[d[1]].at <= t}
\* Due deadline deliveries of channel c, whether or not they await a retry.
Mergeable(oc, dl, c, t) ==
    {d \in Dlvs : /\ d[2] = c
                  /\ d[1] \in DeadlineRules
                  /\ dl[d].status = "pending"
                  /\ oc[d[1]].status = "pending"
                  /\ oc[d[1]].at <= t}

Bug_Merged(oc, dl, c, t) ==    \* all but the earliest
    LET M == Mergeable(oc, dl, c, t)
    IN {d \in M : \E e \in M : /\ TaskOf(e[1]) = TaskOf(d[1])
                               /\ oc[e[1]].at < oc[d[1]].at}
\* All but the latest of each task.  Two pending checkpoints of a task are never due
\* at the same instant (CurrentReminders in TaskReminders), so `at' orders them.
Merged(oc, dl, c, t) ==
    LET M == Mergeable(oc, dl, c, t)
    IN {d \in M : \E e \in M : /\ TaskOf(e[1]) = TaskOf(d[1])
                               /\ oc[d[1]].at < oc[e[1]].at}

Bug_Drained(dl, S) == S    \* whatever its other channel does
\* Occurrences of S none of whose channels remains to be sent.
Drained(dl, S) == {o \in S : \A c \in Channels : dl[<<o, c>>].status \notin Active}

Bug_Claimable(oc, dl, c, t) ==    \* never a retry
    {d \in Dlvs : /\ d[2] = c
                  /\ dl[d].status = "pending"
                  /\ dl[d].nextAt = Nil
                  /\ oc[d[1]].status = "pending"
                  /\ oc[d[1]].at <= t}
Claimable(oc, dl, c, t) ==
    {d \in Dlvs : /\ d[2] = c
                  /\ dl[d].status = "pending"
                  /\ dl[d].nextAt <= t
                  /\ oc[d[1]].status = "pending"
                  /\ oc[d[1]].at <= t}

\* ORDER BY scheduled_at LIMIT n: the sets of n earliest members of S.
Earliest(S, oc, n) ==
    {B \in SUBSET S :
        /\ Cardinality(B) = IF Cardinality(S) < n THEN Cardinality(S) ELSE n
        /\ \A b \in B, s \in S \ B : oc[b[1]].at <= oc[s[1]].at}

\* The new claim_token is a fresh uuid; the attempt number is as good, for it never
\* repeats on one row and a token is only compared together with the row's id.
ClaimDlvs(dl, B, t) ==
    [d \in Dlvs |-> IF d \in B
                    THEN [dl[d] EXCEPT !.status = "sending",
                                       !.attempts = dl[d].attempts + 1,
                                       !.token = dl[d].attempts + 1,
                                       !.claimedAt = t]
                    ELSE dl[d]]

-----------------------------------------------------------------------------
(* Results *)

Bug_RetryAt(result, attempt, t) ==    \* retries without end
    IF result = "temporary" THEN IF t = MaxTime THEN t ELSE t + 1 ELSE Nil
\* _retry_time; an instant past the model's horizon is folded onto the horizon.
RetryAt(result, attempt, t) ==
    IF result = "temporary" /\ attempt \in 1..Retries
    THEN LET next == t + RetryDelays[attempt]
         IN IF next > MaxTime THEN MaxTime ELSE next
    ELSE Nil

Bug_Result(row, result, attempt, t) ==    \* closes what is not worth a retry
    LET next == RetryAt(result, attempt, t)
    IN Released(row, IF next = Nil THEN "sent" ELSE "pending", next, "none")
\* The row mark_delivery_sent or mark_delivery_failed writes.
Result(row, result, attempt, t) ==
    IF result = "ok" THEN Released(row, "sent", Nil, "none")
    ELSE LET next == RetryAt(result, attempt, t)
         IN Released(row, IF next = Nil THEN "failed" ELSE "pending", next, "error")

Bug_Settle(oc, dl, o) ==    \* any final channels complete the occurrence
    IF \E c \in Channels : dl[<<o, c>>].status \in Active \/ oc[o].status # "pending"
    THEN oc ELSE [oc EXCEPT ![o].status = "completed"]

\* _settle_terminal_occurrence, after a delivery of occurrence o became final.
Settle(oc, dl, o) ==
    LET rows == {dl[<<o, c>>] : c \in Channels} \ {AbsentDlv}
        to(status) == IF oc[o].status = "pending"
                      THEN [oc EXCEPT ![o].status = status] ELSE oc
    IN IF \E r \in rows : r.status \in Active THEN oc
       ELSE IF \E r \in rows : r.error = "coalesced" THEN to("skipped")
       ELSE IF \A r \in rows : r.status = "sent" THEN to("completed")
       ELSE oc
=============================================================================
