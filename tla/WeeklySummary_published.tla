----------------------- MODULE WeeklySummary_published -----------------------
(***************************************************************************)
(* Proofs that what is published is on the remote, and that cleanup        *)
(* deletes nothing else, for one or two publishers in one Git work tree.   *)
(* Of three, one may take the file of another from the index and a third   *)
(* stage its own in its place, so the number is needed, and nothing else.  *)
(***************************************************************************)
EXTENDS WeeklySummary_proofs

AtMostTwo == \A p, q, r \in Publishers : p = q \/ q = r \/ p = r

AtIndex == {"add", "compare", "commit"}

\* When both publishers are at the index for one week, nothing else is staged.
Paired ==
    \A p, q \in Publishers :
        p # q /\ {pub[p].pc, pub[q].pc} \subseteq AtIndex /\ pub[p].week = pub[q].week
            => Staged \subseteq {pub[p].week}

\* A file that was pushed was committed, and one that was committed is in the index.
Kept ==
    \A w \in Weeks :
        /\ remote[w] # NoFile => head[w] # NoFile
        /\ head[w] # NoFile => index[w] # NoFile

Pushed == {"verify", "read", "archive", "publish"}
Unread == {"approve", "clean", "add", "compare", "commit", "push", "verify"}

\* How far the file of a publisher's week has come, and what it archives.
StagedFor(p) ==
    /\ pub[p].pc \in {"compare", "commit"} => index[pub[p].week] # NoFile
    /\ pub[p].pc = "push" => head[pub[p].week] # NoFile
    /\ pub[p].pc \in Pushed => remote[pub[p].week] # NoFile
    /\ pub[p].pc \in Unread => pub[p].held = {}
    /\ pub[p].pc \in {"read", "archive"} =>
          pub[p].todo \cup pub[p].held \subseteq run[pub[p].week].sha
Staging == \A p \in Publishers : StagedFor(p)

PublishInv == Kept /\ Paired /\ Staging /\ PublishedIsRemote /\ ArchivedIsPublished

\* A file once committed or pushed stays.
Grows ==
    \A w \in Weeks :
        /\ head[w] # NoFile => head'[w] # NoFile
        /\ remote[w] # NoFile => remote'[w] # NoFile

-----------------------------------------------------------------------------
(* Nothing is lost from the repository *)

LEMMA GitSteps ==
    ASSUME [Next]_vars
    PROVE  \/ UNCHANGED git
           \/ \E p \in Publishers : Add(p) \/ Compare(p) \/ Commit(p) \/ Push(p)
<1>1. CASE \/ \E t \in Tasks : CreateTask(t) \/ UpdateTask(t) \/ CloseTask(t) \/ ReopenTask(t)
           \/ Cleanup \/ Tick \/ UNCHANGED vars
  BY <1>1
     DEF CreateTask, UpdateTask, CloseTask, ReopenTask, WriteTask, Cleanup, Tick, git, vars
<1>2. CASE \/ \E g \in Workers : StartWorker(g)
           \/ \E g \in Regenerators : StartRegenerate(g)
           \/ \E g \in Gens :
                \/ ReadEvents(g) \/ ReadRow(g) \/ ReadPending(g) \/ InsertRun(g)
                \/ WriteSnapshot(g) \/ WriteDraft(g) \/ FinishRun(g) \/ FailGenerate(g)
  BY <1>2
     DEF StartWorker, StartRegenerate, Begin, ReadEvents, ReadRow, ReadPending, Read, GenStep,
         InsertRun, WriteSnapshot, WriteDraft, FinishRun, FailGenerate, git, vars
<1>3. CASE \E p \in Publishers :
             \/ StartPublish(p) \/ Approve(p) \/ CheckIndex(p) \/ Verify(p) \/ PickFirst(p)
             \/ NothingToArchive(p) \/ Archive(p) \/ Publish(p) \/ FailPublish(p)
  BY <1>3
     DEF StartPublish, Approve, CheckIndex, Verify, PickFirst, NothingToArchive, Archive,
         Publish, FailPublish, Check, git
<1>4. QED
  BY <1>1, <1>2, <1>3 DEF Next

\* The draft a publisher adds is there.
LEMMA DraftThere ==
    ASSUME TypeInv, DraftInv, NEW p \in Publishers, pub[p].pc # "idle"
    PROVE  /\ pub[p].week \in Weeks
           /\ draft[pub[p].week] # NoFile
           /\ snapshot[pub[p].week] = run[pub[p].week].sha
<1>1. pub[p].week \in Weeks
  BY DEF TypeInv, TypeOK, Publisher
<1>2. QED
  BY <1>1 DEF DraftInv, PublisherReady, Hashed, FilesMatchRun, Done

LEMMA KeptNext ==
    ASSUME TypeInv, DraftInv, Kept, [Next]_vars
    PROVE  Kept' /\ Grows
<1>1. CASE UNCHANGED git
  BY <1>1 DEF git, Kept, Grows
<1>2. ASSUME NEW p \in Publishers, Add(p) PROVE Kept' /\ Grows
  <2>1. pub[p].pc # "idle" /\ UNCHANGED <<head, remote>>
    BY <1>2 DEF Add, PubStep
  <2>2. index' = [index EXCEPT ![pub[p].week] = draft[pub[p].week]]
    BY <1>2 DEF Add
  <2>3. \A w \in Weeks : index[w] # NoFile => index'[w] # NoFile
    BY <2>1, <2>2, DraftThere DEF TypeInv, TypeOK
  <2>4. QED
    BY <2>1, <2>3 DEF Kept, Grows
<1>3. ASSUME NEW p \in Publishers, Compare(p) PROVE Kept' /\ Grows
  <2>1. UNCHANGED <<head, remote>>
    BY <1>3 DEF Compare
  <2>2. \A w \in Weeks : index'[w] = index[w] \/ index'[w] = head[w]
    BY <1>3 DEF Compare, TypeInv, TypeOK
  <2>3. QED
    BY <2>1, <2>2 DEF Kept, Grows
<1>4. ASSUME NEW p \in Publishers, Commit(p) PROVE Kept' /\ Grows
  BY <1>4 DEF Commit, Kept, Grows
<1>5. ASSUME NEW p \in Publishers, Push(p) PROVE Kept' /\ Grows
  BY <1>5 DEF Push, Kept, Grows
<1>6. QED
  BY <1>1, <1>2, <1>3, <1>4, <1>5, GitSteps

-----------------------------------------------------------------------------
(* Publishers *)

\* A publisher that does not move keeps its place, unless its file is taken from the index.
LEMMA StagedOther ==
    ASSUME TypeInv, RepoInv, Steady, Grows, NEW q \in Publishers, StagedFor(q), pub'[q] = pub[q],
           \/ pub[q].pc \notin {"compare", "commit"}
           \/ index'[pub[q].week] # NoFile
    PROVE  StagedFor(q)'
<1>1. pub[q].week \in Weeks
  BY DEF TypeInv, TypeOK, Publisher
<1>2. pub[q].pc \in {"read", "archive"} => run[pub[q].week].status \in Confirmed
  BY DEF RepoInv, PublisherConfirmed
<1>3. pub[q].pc \in {"read", "archive"} => run'[pub[q].week].sha = run[pub[q].week].sha
  BY <1>1, <1>2 DEF Steady
<1>4. QED
  BY <1>1, <1>3 DEF StagedFor, Grows

\* Going idle, or to a stage before the file is staged.
LEMMA StagedFree ==
    ASSUME NEW q \in Publishers,
           \/ pub'[q].pc = "idle"
           \/ pub'[q].pc \in {"approve", "clean", "add"} /\ pub'[q].held = {}
    PROVE  StagedFor(q)'
  BY DEF StagedFor, Pushed, Unread

LEMMA StagingPub ==
    ASSUME TypeInv, DraftInv, RepoInv, Kept, Paired, Staging, Steady, Grows,
           NEW p \in Publishers,
           \/ StartPublish(p) \/ Approve(p) \/ CheckIndex(p) \/ Add(p) \/ Compare(p)
           \/ Commit(p) \/ Push(p) \/ Verify(p) \/ PickFirst(p) \/ NothingToArchive(p)
           \/ Archive(p) \/ Publish(p) \/ FailPublish(p)
    PROVE  Staging'
<1> DEFINE w == pub[p].week
<1>1. pub[p] \in Publisher /\ w \in Weeks
  BY DEF TypeInv, TypeOK, Publisher
<1>2. IdlePub.pc = "idle"
  BY DEF IdlePub
<1>3. \A pc : /\ At(p, pc).pc = pc /\ At(p, pc).week = w
              /\ At(p, pc).todo = pub[p].todo /\ At(p, pc).held = pub[p].held
  BY <1>1 DEF At, Publisher
<1>4. \A pc, next : PubStep(p, pc, next) =>
          pub[p].pc = pc /\ pub'[p] = next /\ \A q \in Publishers : q # p => pub'[q] = pub[q]
  BY DEF PubStep, TypeInv, TypeOK
<1>5. StagedFor(p)
  BY DEF Staging
<1>6. ASSUME StagedFor(p)', \A q \in Publishers : q # p => pub'[q] = pub[q],
             \A v \in Weeks : index[v] # NoFile => index'[v] # NoFile
      PROVE  Staging'
  <2>1. ASSUME NEW q \in Publishers, q # p PROVE StagedFor(q)'
    <3>1. StagedFor(q) /\ pub[q].week \in Weeks
      BY DEF Staging, TypeInv, TypeOK, Publisher
    <3>2. pub[q].pc \notin {"compare", "commit"} \/ index'[pub[q].week] # NoFile
      BY <1>6, <3>1 DEF StagedFor
    <3>3. QED
      BY <1>6, <2>1, <3>1, <3>2, StagedOther
  <2>2. QED
    BY <1>6, <2>1 DEF Staging
<1>7. ASSUME NEW pc, NEW next, Check(p, pc, next), StagedFor(p)' PROVE Staging'
  BY <1>4, <1>6, <1>7 DEF Check, git
<1>8. ASSUME NEW pc, NEW next, Check(p, pc, next),
             \/ next.pc = "idle"
             \/ next.pc \in {"approve", "clean", "add"} /\ next.held = {}
      PROVE  Staging'
  <2>1. StagedFor(p)'
    BY <1>4, <1>8, StagedFree DEF Check
  <2>2. QED
    BY <1>7, <1>8, <2>1
<1>9. CASE StartPublish(p)
  <2>1. PICK v \in Weeks : Check(p, "idle", [IdlePub EXCEPT !.pc = "approve", !.week = v])
    BY <1>9 DEF StartPublish
  <2>2. [IdlePub EXCEPT !.pc = "approve", !.week = v].pc = "approve"
        /\ [IdlePub EXCEPT !.pc = "approve", !.week = v].held = {}
    BY DEF IdlePub
  <2>3. QED
    BY <1>8, <2>1, <2>2
<1>10. CASE Approve(p)
  <2>1. StagedFor(p)'
    BY <1>3, <1>4, <1>5, <1>10, StagedFree DEF Approve, StagedFor, Unread
  <2>2. QED
    BY <1>4, <1>6, <1>10, <2>1 DEF Approve, git
<1>11. CASE CheckIndex(p)
  <2>1. pub[p].pc = "clean"
    BY <1>11 DEF CheckIndex, Check, PubStep
  <2>2. pub[p].held = {}
    BY <1>5, <2>1 DEF StagedFor, Unread
  <2>3. QED
    BY <1>2, <1>3, <1>8, <1>11, <2>2 DEF CheckIndex
<1>12. CASE Add(p)
  <2>1. pub[p].pc = "add" /\ pub'[p] = At(p, "compare")
        /\ \A q \in Publishers : q # p => pub'[q] = pub[q]
    BY <1>4, <1>12 DEF Add
  <2>2. draft[w] # NoFile
    BY <2>1, DraftThere
  <2>3. index'[w] # NoFile /\ \A v \in Weeks : index[v] # NoFile => index'[v] # NoFile
    BY <1>1, <1>12, <2>2 DEF Add, TypeInv, TypeOK
  <2>4. StagedFor(p)'
    BY <1>3, <1>5, <2>1, <2>3 DEF StagedFor, Pushed, Unread
  <2>5. QED
    BY <1>6, <2>1, <2>3, <2>4
<1>13. CASE Compare(p)
  <2>1. /\ pub[p].pc = "compare"
        /\ (pub'[p] = At(p, "commit") /\ UNCHANGED index) \/ pub'[p] = IdlePub
        /\ \A q \in Publishers : q # p => pub'[q] = pub[q]
    BY <1>4, <1>13 DEF Compare
  <2>2. StagedFor(p)'
    <3>1. CASE pub'[p] = At(p, "commit") /\ UNCHANGED index
      BY <1>3, <1>5, <2>1, <3>1 DEF StagedFor, Pushed, Unread
    <3>2. CASE pub'[p] = IdlePub
      BY <1>2, <3>2, StagedFree
    <3>3. QED
      BY <2>1, <3>1, <3>2
  <2>3. \A v \in Weeks : v # w => index'[v] = index[v]
    BY <1>13 DEF Compare, TypeInv, TypeOK
  <2>4. ASSUME NEW q \in Publishers, q # p PROVE StagedFor(q)'
    <3>1. StagedFor(q) /\ pub[q].week \in Weeks
      BY DEF Staging, TypeInv, TypeOK, Publisher
    <3>2. ASSUME pub[q].pc \in {"compare", "commit"}, pub[q].week = w PROVE index' = index
      <4>1. Staged \subseteq {w}
        BY <2>1, <2>4, <3>2 DEF Paired, AtIndex
      <4>2. CASE Staged = {w}
        BY <1>13, <4>2 DEF Compare
      <4>3. CASE Staged = {}
        <5>1. index[w] = head[w]
          BY <1>1, <4>3 DEF Staged
        <5>2. QED
          BY <1>13, <4>3, <5>1 DEF Compare, TypeInv, TypeOK
      <4>4. QED
        BY <4>1, <4>2, <4>3
    <3>3. pub[q].pc \notin {"compare", "commit"} \/ index'[pub[q].week] # NoFile
      BY <2>3, <3>1, <3>2 DEF StagedFor
    <3>4. QED
      BY <2>1, <2>4, <3>1, <3>3, StagedOther
  <2>5. QED
    BY <2>2, <2>4 DEF Staging
<1>14. CASE Commit(p)
  <2>1. /\ pub[p].pc = "commit" /\ head' = index /\ UNCHANGED index
        /\ pub'[p] = At(p, "push") \/ pub'[p] = IdlePub
        /\ \A q \in Publishers : q # p => pub'[q] = pub[q]
    BY <1>4, <1>14 DEF Commit
  <2>2. StagedFor(p)'
    <3>1. CASE pub'[p] = At(p, "push")
      BY <1>3, <1>5, <2>1, <3>1 DEF StagedFor, Pushed, Unread
    <3>2. CASE pub'[p] = IdlePub
      BY <1>2, <3>2, StagedFree
    <3>3. QED
      BY <2>1, <3>1, <3>2
  <2>3. QED
    BY <1>6, <2>1, <2>2
<1>15. CASE Push(p)
  <2>1. /\ pub[p].pc = "push" /\ remote' = head /\ UNCHANGED index /\ pub'[p] = At(p, "verify")
        /\ \A q \in Publishers : q # p => pub'[q] = pub[q]
    BY <1>4, <1>15 DEF Push
  <2>2. StagedFor(p)'
    BY <1>3, <1>5, <2>1 DEF StagedFor, Pushed, Unread
  <2>3. QED
    BY <1>6, <2>1, <2>2
<1>16. CASE Verify(p)
  <2> DEFINE next == [At(p, "read") EXCEPT !.todo = snapshot[w]]
  <2>1. CASE Check(p, "verify", IdlePub)
    BY <1>2, <1>8, <2>1
  <2>2. CASE Check(p, "verify", next)
    <3>1. pub[p].pc = "verify" /\ pub'[p] = next /\ UNCHANGED <<run, git>>
      BY <1>4, <2>2 DEF Check
    <3>2. next.pc = "read" /\ next.week = w /\ next.todo = run[w].sha /\ next.held = pub[p].held
      BY <1>1, <3>1, DraftThere DEF At, Publisher
    <3>3. pub[p].held = {}
      BY <1>5, <3>1 DEF StagedFor, Unread
    <3>4. StagedFor(p)'
      BY <1>5, <3>1, <3>2, <3>3 DEF StagedFor, Pushed, Unread, git
    <3>5. QED
      BY <1>7, <2>2, <3>4
  <2>3. QED
    BY <1>16, <2>1, <2>2 DEF Verify
<1>17. CASE PickFirst(p)
  <2>1. PICK x \in pub[p].todo :
            \/ Check(p, "read", [At(p, "archive") EXCEPT !.held = {x}, !.todo = @ \ {x}])
            \/ Check(p, "read", [pub[p] EXCEPT !.todo = @ \ {x}])
    BY <1>17 DEF PickFirst
  <2>2. pub[p].pc = "read" /\ UNCHANGED <<run, git>>
    BY <1>4, <2>1 DEF Check
  <2> DEFINE picked == [At(p, "archive") EXCEPT !.held = {x}, !.todo = @ \ {x}]
             passed == [pub[p] EXCEPT !.todo = @ \ {x}]
  <2>3. /\ pub'[p].pc \in {"read", "archive"} /\ pub'[p].week = w
        /\ pub'[p].todo \subseteq pub[p].todo /\ pub'[p].held \subseteq pub[p].held \cup {x}
    <3>1. pub'[p] = picked \/ pub'[p] = passed
      BY <1>4, <2>1 DEF Check
    <3>2. picked.pc = "archive" /\ picked.week = w /\ picked.held = {x}
          /\ picked.todo = pub[p].todo \ {x}
      BY <1>1 DEF At, Publisher
    <3>3. passed.pc = "read" /\ passed.week = w /\ passed.held = pub[p].held
          /\ passed.todo = pub[p].todo \ {x}
      BY <1>1, <2>2 DEF Publisher
    <3> HIDE DEF picked, passed
    <3>4. QED
      BY <3>1, <3>2, <3>3
  <2>4. StagedFor(p)'
    BY <1>5, <2>1, <2>2, <2>3 DEF StagedFor, Pushed, Unread, git
  <2>5. QED
    BY <1>7, <2>1, <2>4
<1>18. CASE NothingToArchive(p)
  <2>1. Check(p, "read", At(p, "publish"))
    BY <1>18 DEF NothingToArchive
  <2>2. pub[p].pc = "read" /\ pub'[p] = At(p, "publish") /\ UNCHANGED git
    BY <1>4, <2>1 DEF Check
  <2>3. StagedFor(p)'
    BY <1>3, <1>5, <2>2 DEF StagedFor, Pushed, Unread, git
  <2>4. QED
    BY <1>7, <2>1, <2>3
<1>19. CASE Archive(p)
  <2>1. /\ pub[p].pc = "archive" /\ UNCHANGED git
        /\ pub'[p] = At(p, "publish") \/ pub'[p] = IdlePub
        /\ \A q \in Publishers : q # p => pub'[q] = pub[q]
    BY <1>4, <1>19 DEF Archive
  <2>2. StagedFor(p)'
    <3>1. CASE pub'[p] = At(p, "publish")
      BY <1>3, <1>5, <2>1, <3>1 DEF StagedFor, Pushed, Unread, git
    <3>2. CASE pub'[p] = IdlePub
      BY <1>2, <3>2, StagedFree
    <3>3. QED
      BY <2>1, <3>1, <3>2
  <2>3. QED
    BY <1>6, <2>1, <2>2 DEF git
<1>20. CASE Publish(p)
  <2>1. StagedFor(p)'
    BY <1>2, <1>4, <1>20, StagedFree DEF Publish
  <2>2. QED
    BY <1>4, <1>6, <1>20, <2>1 DEF Publish, git
<1>21. CASE FailPublish(p)
  <2>1. pub'[p] = IdlePub /\ \A q \in Publishers : q # p => pub'[q] = pub[q]
    BY <1>21 DEF FailPublish, TypeInv, TypeOK
  <2>2. StagedFor(p)'
    BY <1>2, <2>1, StagedFree
  <2>3. QED
    BY <1>6, <1>21, <2>1, <2>2 DEF FailPublish, git
<1>22. QED
  BY <1>9, <1>10, <1>11, <1>12, <1>13, <1>14, <1>15, <1>16, <1>17, <1>18, <1>19, <1>20, <1>21

\* A step of one of two that are at the index for one week stages no other.
LEMMA PairedPub ==
    ASSUME TypeInv, Paired, NEW p \in Publishers, NEW q \in Publishers, p # q,
           \/ StartPublish(p) \/ Approve(p) \/ CheckIndex(p) \/ Add(p) \/ Compare(p)
           \/ Commit(p) \/ Push(p) \/ Verify(p) \/ PickFirst(p) \/ NothingToArchive(p)
           \/ Archive(p) \/ Publish(p) \/ FailPublish(p),
           {pub'[p].pc, pub'[q].pc} \subseteq AtIndex, pub'[p].week = pub'[q].week
    PROVE  Staged' \subseteq {pub'[p].week}
<1> DEFINE w == pub[p].week
<1>1. pub[p] \in Publisher /\ w \in Weeks
  BY DEF TypeInv, TypeOK, Publisher
<1>2. IdlePub.pc = "idle"
  BY DEF IdlePub
<1>3. \A pc : At(p, pc).pc = pc /\ At(p, pc).week = w
  BY <1>1 DEF At, Publisher
<1>4. \A pc, next : PubStep(p, pc, next) => pub[p].pc = pc /\ pub'[p] = next /\ pub'[q] = pub[q]
  BY DEF PubStep, TypeInv, TypeOK
<1>5. ASSUME pub[p].pc \in AtIndex, pub'[p].week = w, pub'[q] = pub[q]
      PROVE  Staged \subseteq {w}
  BY <1>5 DEF Paired
<1>6. CASE CheckIndex(p)
  <2>1. Staged = {} /\ UNCHANGED git
    BY <1>2, <1>4, <1>6 DEF CheckIndex, Check, AtIndex
  <2>2. QED
    BY <2>1 DEF Staged, git
<1>7. CASE Add(p)
  <2>1. pub[p].pc = "add" /\ pub'[p].week = w /\ pub'[q] = pub[q]
    BY <1>3, <1>4, <1>7 DEF Add
  <2>2. Staged \subseteq {w}
    BY <1>5, <2>1 DEF AtIndex
  <2>3. head' = head /\ \A v \in Weeks : v # w => index'[v] = index[v]
    BY <1>7 DEF Add, TypeInv, TypeOK
  <2>4. QED
    BY <2>1, <2>2, <2>3 DEF Staged
<1>8. CASE Compare(p)
  <2>1. Staged = {w} /\ index' = index /\ head' = head /\ pub'[p].week = w
    BY <1>2, <1>3, <1>4, <1>8 DEF Compare, AtIndex
  <2>2. QED
    BY <2>1 DEF Staged
<1>9. ASSUME NEW pc, NEW next, PubStep(p, pc, next), next.pc \notin AtIndex PROVE FALSE
  BY <1>4, <1>9
<1>10. CASE Approve(p) \/ Commit(p) \/ Push(p) \/ NothingToArchive(p) \/ Archive(p) \/ Publish(p)
  BY <1>2, <1>3, <1>9, <1>10
     DEF Approve, Commit, Push, NothingToArchive, Archive, Publish, Check, AtIndex
<1>11. CASE StartPublish(p)
  BY <1>9, <1>11 DEF StartPublish, Check, IdlePub, AtIndex
<1>12. CASE Verify(p)
  <2>1. [At(p, "read") EXCEPT !.todo = snapshot[w]].pc = "read"
    BY <1>1 DEF At, Publisher
  <2>2. QED
    BY <1>2, <1>9, <1>12, <2>1 DEF Verify, Check, AtIndex
<1>13. CASE PickFirst(p)
  <2>1. PICK x \in pub[p].todo :
            \/ Check(p, "read", [At(p, "archive") EXCEPT !.held = {x}, !.todo = @ \ {x}])
            \/ Check(p, "read", [pub[p] EXCEPT !.todo = @ \ {x}])
    BY <1>13 DEF PickFirst
  <2>2. [At(p, "archive") EXCEPT !.held = {x}, !.todo = @ \ {x}].pc = "archive"
    BY <1>1 DEF At, Publisher
  <2>3. pub[p].pc = "read"
    BY <1>4, <2>1 DEF Check
  <2>4. [pub[p] EXCEPT !.todo = @ \ {x}].pc = "read"
    BY <1>1, <2>3 DEF Publisher
  <2>5. QED
    BY <1>9, <2>1, <2>2, <2>4 DEF Check, AtIndex
<1>14. CASE FailPublish(p)
  BY <1>2, <1>14 DEF FailPublish, TypeInv, TypeOK, AtIndex
<1>15. QED
  BY <1>6, <1>7, <1>8, <1>10, <1>11, <1>12, <1>13, <1>14

-----------------------------------------------------------------------------
(* Every step *)

LEMMA StagingNext ==
    ASSUME TypeInv, DraftInv, RepoInv, Kept, Paired, Staging, [Next]_vars
    PROVE  Staging'
<1>1. Steady /\ Grows
  BY SteadyNext, KeptNext
<1>2. ASSUME UNCHANGED <<git, pub>> PROVE Staging'
  <2>1. ASSUME NEW q \in Publishers PROVE StagedFor(q)'
    <3>1. StagedFor(q) /\ pub'[q] = pub[q]
      BY <1>2 DEF Staging
    <3>2. pub[q].pc \notin {"compare", "commit"} \/ index'[pub[q].week] # NoFile
      BY <1>2, <3>1 DEF StagedFor, git
    <3>3. QED
      BY <1>1, <3>1, <3>2, StagedOther
  <2>2. QED
    BY <2>1 DEF Staging
<1>3. CASE \/ \E t \in Tasks : CreateTask(t) \/ UpdateTask(t) \/ CloseTask(t) \/ ReopenTask(t)
           \/ Cleanup \/ Tick \/ UNCHANGED vars
  BY <1>2, <1>3
     DEF CreateTask, UpdateTask, CloseTask, ReopenTask, WriteTask, Cleanup, Tick, git, vars
<1>4. CASE \/ \E g \in Workers : StartWorker(g)
           \/ \E g \in Regenerators : StartRegenerate(g)
           \/ \E g \in Gens :
                \/ ReadEvents(g) \/ ReadRow(g) \/ ReadPending(g) \/ InsertRun(g)
                \/ WriteSnapshot(g) \/ WriteDraft(g) \/ FinishRun(g) \/ FailGenerate(g)
  <2>1. ASSUME NEW g, NEW pc, NEW next, GenStep(g, pc, next) PROVE UNCHANGED <<git, pub>>
    BY <2>1 DEF GenStep
  <2>2. QED
    BY <1>2, <1>4, <2>1
       DEF StartWorker, StartRegenerate, Begin, ReadEvents, ReadRow, ReadPending, Read,
           InsertRun, WriteSnapshot, WriteDraft, FinishRun, FailGenerate, git, vars
<1>5. CASE \E p \in Publishers :
             \/ StartPublish(p) \/ Approve(p) \/ CheckIndex(p) \/ Add(p) \/ Compare(p)
             \/ Commit(p) \/ Push(p) \/ Verify(p) \/ PickFirst(p) \/ NothingToArchive(p)
             \/ Archive(p) \/ Publish(p) \/ FailPublish(p)
  BY <1>1, <1>5, StagingPub
<1>6. QED
  BY <1>3, <1>4, <1>5 DEF Next

LEMMA PairedNext ==
    ASSUME AtMostTwo, TypeInv, Paired, [Next]_vars
    PROVE  Paired'
<1> SUFFICES ASSUME NEW p \in Publishers, NEW q \in Publishers, p # q,
                    {pub'[p].pc, pub'[q].pc} \subseteq AtIndex, pub'[p].week = pub'[q].week
             PROVE  Staged' \subseteq {pub'[p].week}
  BY DEF Paired
<1>1. CASE UNCHANGED <<git, pub>>
  BY <1>1 DEF Paired, Staged, git
<1>2. CASE \/ \E t \in Tasks : CreateTask(t) \/ UpdateTask(t) \/ CloseTask(t) \/ ReopenTask(t)
           \/ Cleanup \/ Tick \/ UNCHANGED vars
  BY <1>1, <1>2
     DEF CreateTask, UpdateTask, CloseTask, ReopenTask, WriteTask, Cleanup, Tick, git, vars
<1>3. CASE \/ \E g \in Workers : StartWorker(g)
           \/ \E g \in Regenerators : StartRegenerate(g)
           \/ \E g \in Gens :
                \/ ReadEvents(g) \/ ReadRow(g) \/ ReadPending(g) \/ InsertRun(g)
                \/ WriteSnapshot(g) \/ WriteDraft(g) \/ FinishRun(g) \/ FailGenerate(g)
  <2>1. ASSUME NEW g, NEW pc, NEW next, GenStep(g, pc, next) PROVE UNCHANGED <<git, pub>>
    BY <2>1 DEF GenStep
  <2>2. QED
    BY <1>1, <1>3, <2>1
       DEF StartWorker, StartRegenerate, Begin, ReadEvents, ReadRow, ReadPending, Read,
           InsertRun, WriteSnapshot, WriteDraft, FinishRun, FailGenerate, git, vars
<1>4. ASSUME NEW r \in Publishers,
             \/ StartPublish(r) \/ Approve(r) \/ CheckIndex(r) \/ Add(r) \/ Compare(r)
             \/ Commit(r) \/ Push(r) \/ Verify(r) \/ PickFirst(r) \/ NothingToArchive(r)
             \/ Archive(r) \/ Publish(r) \/ FailPublish(r)
      PROVE  Staged' \subseteq {pub'[p].week}
  <2>1. CASE r = p
    BY <1>4, <2>1, PairedPub
  <2>2. CASE r = q
    BY <1>4, <2>2, PairedPub
  <2>3. QED
    BY <2>1, <2>2 DEF AtMostTwo
<1>5. QED
  BY <1>2, <1>3, <1>4 DEF Next

\* Who writes a run's row, and who deletes a task.
LEMMA RunSteps ==
    ASSUME [Next]_vars, run' # run
    PROVE  \/ \E g \in Gens : InsertRun(g) \/ FinishRun(g)
           \/ \E p \in Publishers : Approve(p) \/ Publish(p)
  BY DEF Next, CreateTask, UpdateTask, CloseTask, ReopenTask, WriteTask, Cleanup, Tick, tables,
         vars, StartWorker, StartRegenerate, Begin, ReadEvents, ReadRow, ReadPending, Read,
         WriteSnapshot, WriteDraft, FailGenerate, StartPublish, CheckIndex, Add, Compare, Commit,
         Push, Verify, PickFirst, NothingToArchive, Archive, FailPublish, Check

LEMMA DeletionIsCleanup ==
    ASSUME TypeInv, [Next]_vars, NEW t \in Tasks,
           task[t].status # "deleted", task'[t].status = "deleted"
    PROVE  Cleanup
<1>1. ASSUME UNCHANGED task PROVE FALSE
  BY <1>1
<1>2. ASSUME NEW u \in Tasks, NEW status, NEW due, NEW closed, status # "deleted",
             WriteTask(u, status, due, closed)
      PROVE  FALSE
  BY <1>2 DEF WriteTask, TypeInv, TypeOK
<1>3. ASSUME NEW u \in Tasks, CreateTask(u) \/ CloseTask(u) \/ ReopenTask(u) PROVE FALSE
  BY <1>2, <1>3 DEF CreateTask, CloseTask, ReopenTask
<1>4. ASSUME NEW u \in Tasks, UpdateTask(u) PROVE FALSE
  BY <1>2, <1>4 DEF UpdateTask, Exists
<1>5. CASE Tick \/ UNCHANGED vars
  BY <1>1, <1>5 DEF Tick, tables, vars
<1>6. CASE \/ \E g \in Workers : StartWorker(g)
           \/ \E g \in Regenerators : StartRegenerate(g)
           \/ \E g \in Gens :
                \/ ReadEvents(g) \/ ReadRow(g) \/ ReadPending(g) \/ InsertRun(g)
                \/ WriteSnapshot(g) \/ WriteDraft(g) \/ FinishRun(g) \/ FailGenerate(g)
  <2>1. ASSUME NEW g, NEW pc, NEW next, GenStep(g, pc, next) PROVE UNCHANGED task
    BY <2>1 DEF GenStep
  <2>2. QED
    BY <1>1, <1>6, <2>1
       DEF StartWorker, StartRegenerate, Begin, ReadEvents, ReadRow, ReadPending, Read,
           InsertRun, WriteSnapshot, WriteDraft, FinishRun, FailGenerate, tables, vars
<1>7. CASE \E p \in Publishers :
             \/ StartPublish(p) \/ Approve(p) \/ CheckIndex(p) \/ Add(p) \/ Compare(p)
             \/ Commit(p) \/ Push(p) \/ Verify(p) \/ PickFirst(p) \/ NothingToArchive(p)
             \/ Archive(p) \/ Publish(p) \/ FailPublish(p)
  <2>1. ASSUME NEW p, NEW pc, NEW next, PubStep(p, pc, next) PROVE UNCHANGED task
    BY <2>1 DEF PubStep
  <2>2. ASSUME NEW p, NEW pc, NEW next, Check(p, pc, next) PROVE UNCHANGED task
    BY <2>1, <2>2 DEF Check
  <2>3. QED
    BY <1>1, <1>7, <2>1, <2>2
       DEF StartPublish, Approve, CheckIndex, Add, Compare, Commit, Push, Verify, PickFirst,
           NothingToArchive, Archive, Publish, FailPublish, tables
<1>8. QED
  BY <1>3, <1>4, <1>5, <1>6, <1>7 DEF Next

\* What is on the remote stays as it is.
LEMMA RemoteStays ==
    ASSUME TypeInv, DraftInv, RepoInv, Kept, [Next]_vars
    PROVE  \A w \in Weeks : remote[w] # NoFile => remote'[w] = remote[w]
<1>1. Steady /\ Grows /\ RepoInv'
  BY SteadyNext, KeptNext, RepoNext
<1>2. QED
  BY <1>1 DEF RepoInv, Holds, Steady, Grows

LEMMA PublishedNext ==
    ASSUME TypeInv, DraftInv, RepoInv, Kept, Staging, PublishedIsRemote, [Next]_vars
    PROVE  PublishedIsRemote'
<1>1. /\ RepoInv'
      /\ \A w \in Weeks : remote[w] # NoFile => remote'[w] = remote[w]
  BY RemoteStays, RepoNext
<1>2. SUFFICES ASSUME NEW w \in Weeks, run'[w].status = "published"
               PROVE  remote'[w] # NoFile
  BY <1>1 DEF PublishedIsRemote, RepoInv, Holds
<1>3. CASE run[w].status = "published"
  <2>1. run[w].sha # NoFile
    BY <1>3 DEF DraftInv, Hashed, Done
  <2>2. QED
    BY <1>1, <1>3, <2>1 DEF PublishedIsRemote
<1>4. CASE run[w].status # "published"
  <2>1. PICK p \in Publishers : Publish(p) /\ pub[p].week = w
    <3>1. run'[w] # run[w]
      BY <1>2, <1>4
    <3>2. \/ \E g \in Gens : InsertRun(g) \/ FinishRun(g)
          \/ \E p \in Publishers : Approve(p) \/ Publish(p)
      BY <3>1, RunSteps
    <3>3. ASSUME NEW g \in Gens, InsertRun(g) \/ FinishRun(g) PROVE FALSE
      BY <1>2, <1>4, <3>3 DEF InsertRun, FinishRun, TypeInv, TypeOK
    <3>4. ASSUME NEW p \in Publishers, Approve(p) PROVE FALSE
      BY <1>2, <1>4, <3>4 DEF Approve, TypeInv, TypeOK
    <3>5. ASSUME NEW p \in Publishers, Publish(p) PROVE pub[p].week = w
      BY <1>2, <1>4, <3>5 DEF Publish, TypeInv, TypeOK
    <3>6. QED
      BY <3>2, <3>3, <3>4, <3>5
  <2>2. pub[p].pc = "publish"
    BY <2>1 DEF Publish, PubStep
  <2>3. remote[w] # NoFile
    BY <2>1, <2>2 DEF Staging, StagedFor, Pushed
  <2>4. QED
    BY <1>1, <2>3
<1>5. QED
  BY <1>3, <1>4

LEMMA ArchivedNext ==
    ASSUME TypeInv, DraftInv, RepoInv, Kept, Staging, ArchivedIsPublished, [Next]_vars
    PROVE  ArchivedIsPublished'
<1>1. \A w \in Weeks : remote[w] # NoFile => remote'[w] = remote[w]
  BY RemoteStays
<1>2. \A a \in archive : a.week \in Weeks
  BY DEF TypeInv, TypeOK, ArchiveRow
<1>3. ASSUME archive' \subseteq archive PROVE ArchivedIsPublished'
  BY <1>1, <1>2, <1>3 DEF ArchivedIsPublished
<1>4. ASSUME NEW p \in Publishers, Archive(p) PROVE ArchivedIsPublished'
  <2> DEFINE w == pub[p].week
             new == {[task |-> x[1], week |-> w, version |-> x[2]] : x \in Matching(p)}
  <2>1. pub[p].pc = "archive" /\ w \in Weeks /\ pub[p] \in Publisher
    BY <1>4 DEF Archive, PubStep, TypeInv, TypeOK, Publisher
  <2>2. remote[w] # NoFile /\ remote[w] = run[w].sha
    BY <2>1 DEF Staging, StagedFor, Pushed, RepoInv, Holds
  <2>3. Matching(p) \subseteq run[w].sha /\ Matching(p) \subseteq Items
    BY <2>1 DEF Matching, Staging, StagedFor, Publisher
  <2>4. ASSUME NEW x \in Matching(p) PROVE <<x[1], x[2]>> \in remote'[w] /\ remote'[w] # NoFile
    BY <1>1, <2>1, <2>2, <2>3, Kinds
  <2>5. archive' \subseteq archive \cup new
    BY <1>4 DEF Archive
  <2>6. ASSUME NEW a \in new
        PROVE  remote'[a.week] # NoFile /\ <<a.task, a.version>> \in remote'[a.week]
    BY <2>4
  <2>7. ASSUME NEW a \in archive
        PROVE  remote'[a.week] # NoFile /\ <<a.task, a.version>> \in remote'[a.week]
    BY <1>1, <1>2 DEF ArchivedIsPublished
  <2> HIDE DEF new
  <2>8. QED
    BY <2>5, <2>6, <2>7 DEF ArchivedIsPublished
<1>5. CASE \/ \E t \in Tasks : CreateTask(t) \/ UpdateTask(t) \/ CloseTask(t) \/ ReopenTask(t)
           \/ Cleanup \/ Tick \/ UNCHANGED vars
  BY <1>3, <1>5
     DEF CreateTask, UpdateTask, CloseTask, ReopenTask, WriteTask, Cleanup, Tick, tables, vars
<1>6. CASE \/ \E g \in Workers : StartWorker(g)
           \/ \E g \in Regenerators : StartRegenerate(g)
           \/ \E g \in Gens :
                \/ ReadEvents(g) \/ ReadRow(g) \/ ReadPending(g) \/ InsertRun(g)
                \/ WriteSnapshot(g) \/ WriteDraft(g) \/ FinishRun(g) \/ FailGenerate(g)
  <2>1. ASSUME NEW g, NEW pc, NEW next, GenStep(g, pc, next) PROVE UNCHANGED archive
    BY <2>1 DEF GenStep
  <2>2. QED
    BY <1>3, <1>6, <2>1
       DEF StartWorker, StartRegenerate, Begin, ReadEvents, ReadRow, ReadPending, Read,
           InsertRun, WriteSnapshot, WriteDraft, FinishRun, FailGenerate, tables, vars
<1>7. CASE \E p \in Publishers :
             \/ StartPublish(p) \/ Approve(p) \/ CheckIndex(p) \/ Add(p) \/ Compare(p)
             \/ Commit(p) \/ Push(p) \/ Verify(p) \/ PickFirst(p) \/ NothingToArchive(p)
             \/ Publish(p) \/ FailPublish(p)
  BY <1>3, <1>7
     DEF StartPublish, Approve, CheckIndex, Add, Compare, Commit, Push, Verify, PickFirst,
         NothingToArchive, Publish, FailPublish, Check, tables
<1>8. QED
  BY <1>4, <1>5, <1>6, <1>7 DEF Next

-----------------------------------------------------------------------------
LEMMA PublishBegins == Init => PublishInv
<1> SUFFICES ASSUME Init PROVE PublishInv
  OBVIOUS
<1>1. Kept
  BY DEF Init, Kept, NoFiles
<1>2. Staging /\ Paired
  BY DEF Init, Staging, Paired, AtIndex, StagedFor, IdlePub, Pushed, Unread
<1>3. PublishedIsRemote /\ ArchivedIsPublished
  BY DEF Init, PublishedIsRemote, ArchivedIsPublished
<1>4. QED
  BY <1>1, <1>2, <1>3 DEF PublishInv

LEMMA PublishAlways ==
    ASSUME AtMostTwo
    PROVE  Spec => []PublishInv
<1>1. TypeInv /\ DraftInv /\ RepoInv /\ PublishInv /\ [Next]_vars => PublishInv'
  BY KeptNext, PairedNext, StagingNext, PublishedNext, ArchivedNext DEF PublishInv
<1>2. QED
  BY <1>1, PublishBegins, DraftAlways, RepoAlways, PTL DEF Spec

\* What is published is on the remote, whatever one or two publishers do to the Git work
\* tree, on one week or on two, failing anywhere (SummaryService.publish,
\* GitPublisher.publish).
THEOREM PublishedOnRemote ==
    ASSUME AtMostTwo
    PROVE  Spec => []PublishedIsRemote
<1>1. PublishInv => PublishedIsRemote
  BY DEF PublishInv
<1>2. QED
  BY <1>1, PublishAlways, PTL

\* Then every archive row names a version that its summary on the remote holds, however
\* tasks change while they are archived (SummaryService._mark_archived_tasks).
THEOREM ArchivedOnRemote ==
    ASSUME AtMostTwo
    PROVE  Spec => []ArchivedIsPublished
<1>1. PublishInv => ArchivedIsPublished
  BY DEF PublishInv
<1>2. QED
  BY <1>1, PublishAlways, PTL

\* And cleanup deletes a task only when its last version is in a published summary on
\* the remote (SummaryService.cleanup).
THEOREM DeletedOnlyPublished ==
    ASSUME AtMostTwo
    PROVE  Spec => CleanedWasPublished
<1>1. ASSUME TypeInv, PublishInv, [Next]_vars, NEW t \in Tasks,
             task[t].status # "deleted", task'[t].status = "deleted"
      PROVE  \E w \in Weeks : /\ run[w].status = "published"
                              /\ remote[w] # NoFile
                              /\ <<t, task[t].version>> \in remote[w]
  <2>1. Cleanable(t)
    <3>1. Cleanup
      BY <1>1, DeletionIsCleanup
    <3>2. QED
      BY <1>1, <3>1 DEF Cleanup, TypeInv, TypeOK
  <2>2. PICK a \in archive : /\ a.task = t
                             /\ a.version = task[t].version
                             /\ run[a.week].status = "published"
    BY <2>1 DEF Cleanable
  <2>3. a.week \in Weeks
    BY <1>1 DEF TypeInv, TypeOK, ArchiveRow
  <2>4. remote[a.week] # NoFile /\ <<a.task, a.version>> \in remote[a.week]
    BY <1>1 DEF PublishInv, ArchivedIsPublished
  <2>5. QED
    BY <2>2, <2>3, <2>4
<1>2. TypeInv /\ PublishInv /\ [Next]_vars =>
        [\A t \in Tasks : task[t].status # "deleted" /\ task'[t].status = "deleted" =>
            \E w \in Weeks : /\ run[w].status = "published"
                             /\ remote[w] # NoFile
                             /\ <<t, task[t].version>> \in remote[w]]_vars
  BY <1>1
<1>3. QED
  BY <1>2, DraftAlways, PublishAlways, PTL DEF Spec, CleanedWasPublished
=============================================================================
