------------------------- MODULE TransactionalStore -------------------------
(***************************************************************************)
(* What the storage of an actor promises to the code that reads it: one    *)
(* content, a stack of marks of open transactions and savepoints, and at   *)
(* most one reader that goes through a list of what is stored.  Content    *)
(* only changes above a mark, a rollback brings back exactly the content   *)
(* of the mark, and a store that failed stays unusable until it is opened  *)
(* again, at its lowest mark.  There are no caches here.                   *)
(***************************************************************************)
EXTENDS Integers, Sequences

CONSTANTS Contents, Empty, Readers

VARIABLES content, marks, usable, reading

vars == <<content, marks, usable, reading>>

Init == content = Empty /\ marks = <<>> /\ usable = TRUE /\ reading = {}

Below(n) == SubSeq(marks, 1, n)
Durable  == IF marks = <<>> THEN content ELSE marks[1]

\* New marks on top, and any content above them.
Work ==
  /\ usable /\ UNCHANGED <<usable, reading>>
  /\ \E n \in 0..2 : marks' = marks \o [i \in 1..n |-> content]
  /\ content' \in Contents
  /\ content' # content => marks' # <<>>

\* Marks from the n-th on are given up; one may be opened in their place.
Commit ==
  /\ usable /\ UNCHANGED <<content, usable, reading>>
  /\ \E n \in 0..Len(marks) - 1 : marks' \in {Below(n), Append(Below(n), content)}

Undo ==
  /\ usable /\ UNCHANGED <<usable, reading>>
  /\ \E n \in 0..Len(marks) - 1 : content' = marks[n + 1] /\ marks' = Below(n)

\* A reader begins, and the one before it ends.
Read ==
  /\ usable /\ UNCHANGED <<content, marks, usable>>
  /\ \E r \in Readers : reading' = {r}

EndRead == reading' = {} /\ UNCHANGED <<content, marks, usable>>

Erase ==
  /\ usable /\ UNCHANGED usable
  /\ content' = Empty /\ marks' = <<>> /\ reading' = {}

Fail ==
  /\ usable /\ usable' = FALSE /\ UNCHANGED reading
  /\ content' = Durable /\ marks' = <<>>

Reopen ==
  /\ usable' = TRUE /\ reading' = {}
  /\ content' = Durable /\ marks' = <<>>

Next == Work \/ Commit \/ Undo \/ Read \/ EndRead \/ Erase \/ Fail \/ Reopen

Spec == Init /\ [][Next]_vars
=============================================================================
