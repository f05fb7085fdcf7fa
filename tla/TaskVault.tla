------------------------------ MODULE TaskVault ------------------------------
(***************************************************************************)
(* What the storage of the task assistant promises: at any time at most    *)
(* one database is the present one; only it changes; a database that was   *)
(* put aside stays as it was; and what takes its place is a snapshot of a  *)
(* present database, or a new one.                                         *)
(***************************************************************************)
EXTENDS Naturals

CONSTANTS Contents,  \* what a database may hold
          Blank,     \* a database without tables
          Ids        \* the files a database may live in

VARIABLES present,   \* the file at the database's path, 0 when there is none
          held,      \* what each file holds, Blank before it is used
          used,      \* the files that were used
          taken      \* snapshots of the present database

vars == <<present, held, used, taken>>

Init == /\ present \in Ids
        /\ used = {present}
        /\ held \in [Ids -> Contents]
        /\ taken \subseteq {held[present]}

\* A transaction, seen from outside, changes the present database only.
Change == /\ present # 0
          /\ \E c \in Contents : held' = [held EXCEPT ![present] = c]
          /\ UNCHANGED <<present, used, taken>>

Snapshot == /\ present # 0
            /\ taken' = taken \cup {held[present]}
            /\ UNCHANGED <<present, held, used>>

PutAside == present' = 0 /\ UNCHANGED <<held, used, taken>>

Return == /\ present = 0
          /\ present' \in used
          /\ UNCHANGED <<held, used, taken>>

Install == /\ present = 0
           /\ present' \in Ids \ used
           /\ used' = used \cup {present'}
           /\ \E c \in taken \cup {Blank} : held' = [held EXCEPT ![present'] = c]
           /\ UNCHANGED taken

Next == Change \/ Snapshot \/ PutAside \/ Return \/ Install

Spec == Init /\ [][Next]_vars
=============================================================================
