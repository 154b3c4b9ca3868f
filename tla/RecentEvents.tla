---------------------------- MODULE RecentEvents ----------------------------
(***************************************************************************)
(* What a filter promises its client, with no buffer and no cursor.  There *)
(* is one log of everything that happened, and the position of the last    *)
(* poll in it.  A poll answers with what happened since the last poll,     *)
(* oldest first, or with the newest Capacity events if more happened; a    *)
(* request for all logs answers with the newest Capacity events.           *)
(***************************************************************************)
EXTENDS Integers, Sequences

CONSTANTS Event, Capacity, LogBound

VARIABLES log,       \* every event since the filter was created
          lastPoll,  \* length of the log at the last poll
          answer     \* what the last request returned

vars == <<log, lastPoll, answer>>

Lesser(a, b) == IF a <= b THEN a ELSE b

Newest(s, n) == SubSeq(s, Len(s) - n + 1, Len(s))

Init ==
  /\ log = <<>>
  /\ lastPoll = 0
  /\ answer = <<>>

Happen(e) ==
  /\ Len(log) < LogBound
  /\ log' = Append(log, e)
  /\ UNCHANGED <<lastPoll, answer>>

Poll ==
  /\ answer' = Newest(log, Lesser(Len(log) - lastPoll, Capacity))
  /\ lastPoll' = Len(log)
  /\ UNCHANGED log

GetAll ==
  /\ answer' = Newest(log, Lesser(Len(log), Capacity))
  /\ UNCHANGED <<log, lastPoll>>

Next ==
  \/ \E e \in Event : Happen(e)
  \/ Poll
  \/ GetAll

Spec == Init /\ [][Next]_vars

=============================================================================
