--------------------------- MODULE RecentQueries ---------------------------
(***************************************************************************)
(* What the query log promises the web page: a page is a snapshot of the   *)
(* most recent logged queries, newest first, never more than the log keeps *)
(* or the page asked for; or it is empty.  The log may be lost, as a whole *)
(* only.                                                                   *)
(***************************************************************************)
EXTENDS Naturals, Sequences

CONSTANTS
  Entries,      \* what can be logged
  Kept,         \* how many queries the log keeps
  Asked         \* how many the page asks for

VARIABLES
  logged,       \* everything logged so far, oldest first
  page          \* what the last request got

AtMost(n, S) == CHOOSE k \in S \cup {n} : \A j \in S \cup {n} : k <= j

Newest(n) == [i \in 1 .. n |-> logged[Len(logged) + 1 - i]]

Init == logged = <<>> /\ page = <<>>

Log ==
  /\ \E e \in Entries : logged' = Append(logged, e)
  /\ UNCHANGED page

Show ==
  /\ page' \in {<<>>, Newest(AtMost(Len(logged), {Kept, Asked}))}
  /\ UNCHANGED logged

Forget ==
  /\ logged' = <<>>
  /\ UNCHANGED page

Spec == Init /\ [][Log \/ Show \/ Forget]_<<logged, page>>
=============================================================================
