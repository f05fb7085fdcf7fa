-------------------------------- MODULE Outbox --------------------------------
(***************************************************************************)
(* What the delivery of reminders promises: a notice is in one sender's    *)
(* hands at most, who tries it once each time it has it in hand; it does   *)
(* not go out again once a sender has recorded that it went out, or as     *)
(* long as one has yet to record it; and its fate is decided once, as sent *)
(* by the sender alone that heard that it went out.                        *)
(***************************************************************************)
EXTENDS Naturals

CONSTANTS Notices,   \* what may be sent
          Senders

VARIABLES fate,      \* what is decided of each notice
          held,      \* who has which notice in hand
          tried,     \* those of them that the sender has tried to send
          told,      \* ... and knows to have gone out, but has not recorded yet
          copies,    \* how often each notice went out
          lost       \* how often its sender did not hear of it, or died before
                     \* recording it

vars == <<fate, held, tried, told, copies, lost>>

Init == /\ fate = [n \in Notices |-> "absent"]
        /\ held = {} /\ tried = {} /\ told = {}
        /\ copies = [n \in Notices |-> 0]
        /\ lost = [n \in Notices |-> 0]

\* What may become of a notice without its sender
Desk == {<<"absent", "open">>, <<"absent", "skipped">>, <<"open", "skipped">>}

\* Notices are posted and withdrawn, and open ones that nobody holds are taken
\* in hand.
Arrange == /\ fate' = [n \in Notices |-> fate'[n]]
           /\ \A n \in Notices : fate'[n] = fate[n] \/ <<fate[n], fate'[n]>> \in Desk
           /\ held \subseteq held' /\ held' \subseteq Senders \X Notices
           /\ \A p \in held' \ held : /\ fate'[p[2]] = "open"
                                      /\ \A q \in held' : q[2] = p[2] => q = p
           /\ UNCHANGED <<tried, told, copies, lost>>

\* A sender tries to send a notice.  It goes out or not, and may go out without the
\* sender hearing of it.
GoOut == \E p \in held \ tried :
            /\ tried' = tried \cup {p}
            /\ \/ /\ copies' = [copies EXCEPT ![p[2]] = @ + 1]
                  /\ \/ told' = told \cup {p} /\ lost' = lost
                     \/ told' = told /\ lost' = [lost EXCEPT ![p[2]] = @ + 1]
               \/ UNCHANGED <<told, copies, lost>>
            /\ UNCHANGED <<fate, held>>

\* A sender is done with a notice it tried: what it heard to have gone out is sent, what
\* it did not may wait for a retry, and what was withdrawn meanwhile stays so.
Record == \E p \in tried :
            /\ held' = held \ {p} /\ tried' = tried \ {p} /\ told' = told \ {p}
            /\ fate[p[2]] \in {"open", "skipped"}
            /\ \E f \in IF fate[p[2]] = "skipped" THEN {"skipped"}
                        ELSE IF p \in told THEN {"sent"} ELSE {"open", "failed"} :
                  fate' = [fate EXCEPT ![p[2]] = f]
            /\ UNCHANGED <<copies, lost>>

\* Senders die with what they hold.
Die == /\ held' \subseteq held
       /\ tried' = tried \cap held'
       /\ told' = told \cap held'
       /\ lost' = [n \in Notices |-> IF \E p \in told \ held' : p[2] = n
                                     THEN lost[n] + 1 ELSE lost[n]]
       /\ UNCHANGED <<fate, copies>>

Next == Arrange \/ GoOut \/ Record \/ Die

Spec == Init /\ [][Next]_vars
=============================================================================
