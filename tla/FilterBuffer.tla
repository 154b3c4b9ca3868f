---------------------------- MODULE FilterBuffer ----------------------------
(***************************************************************************)
(* The event buffer inside every JSON-RPC filter: class Filter of          *)
(* EthJsonRpcImpl.  A filter is a record whose `events` are the retained   *)
(* events, oldest first, and whose `pollStart` is how many of them         *)
(* eth_getFilterChanges has already returned.  Its four operations are     *)
(* synchronized methods, so each one is a single operator here; the        *)
(* modules that use a buffer decide who calls it and when.                 *)
(***************************************************************************)
EXTENDS Integers, Sequences

CONSTANT MaxEventCount      \* MAX_EVENT_COUNT: 1024 in the code

ASSUME MaxEventCountAssumption == MaxEventCount \in Nat \ {0}

EmptyBuffer == [events |-> <<>>, pollStart |-> 0]

\* Where the code reads events.get(i + pollStart) for every i it returns.
Unread(f) == SubSeq(f.events, f.pollStart + 1, Len(f.events))

\* Mutant of Polled: the number of events returned replaces the poll start.
PolledAbsolute(f) == [f EXCEPT !.pollStart = Len(Unread(f))]

\* Filter.poll(): returns Unread(f) and moves the start behind it.
Polled(f) == [f EXCEPT !.pollStart = @ + Len(Unread(f))]

\* Filter.getAll(): returns every retained event, read or not.
Retained(f) == f.events

\* Mutants of Added: the poll start stays where it was; a full buffer takes no
\* more events.
AddedKeepingStart(f, e) ==
  LET grown == Append(f.events, e)
  IN  [f EXCEPT !.events = IF Len(grown) > MaxEventCount THEN Tail(grown) ELSE grown]

AddedUntilFull(f, e) ==
  IF Len(f.events) = MaxEventCount THEN f ELSE [f EXCEPT !.events = Append(@, e)]

\* Filter.add(): append, and above the limit forget the oldest event.  An
\* event already returned by poll() takes the poll start back with it.
Added(f, e) ==
  LET grown == Append(f.events, e)
  IN  IF Len(grown) > MaxEventCount
      THEN [f EXCEPT !.events = Tail(grown),
                     !.pollStart = IF @ > 0 THEN @ - 1 ELSE @]
      ELSE [f EXCEPT !.events = grown]

=============================================================================
