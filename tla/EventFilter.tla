----------------------------- MODULE EventFilter -----------------------------
(***************************************************************************)
(* One installed filter between the listener thread, which adds events,    *)
(* and the RPC threads, which poll it (eth_getFilterChanges) or read it    *)
(* whole (eth_getFilterLogs).  All of its methods are synchronized, so     *)
(* every action is one call.                                               *)
(*                                                                         *)
(* `log` and `lastPoll` are history: the code keeps neither.  They let the *)
(* module say that the buffer and the cursor implement RecentEvents.       *)
(*                                                                         *)
(* No name here is also one of FilterRegistry: FilterRegistryProofs is     *)
(* about both modules.                                                     *)
(***************************************************************************)
EXTENDS FilterBuffer

CONSTANTS Reported,   \* what a filter can report
          LogBound    \* bound: events added to the filter

ASSUME LogBoundAssumption == LogBound \in Nat

VARIABLES filter,     \* the buffer, a record of FilterBuffer
          answer,     \* the array the last call returned
          log,        \* history: every event ever added
          lastPoll    \* history: length of log at the last poll

filterVars == <<filter, answer, log, lastPoll>>

FilterInit ==
  /\ filter = EmptyBuffer
  /\ answer = <<>>
  /\ log = <<>>
  /\ lastPoll = 0

add(e) ==
  /\ Len(log) < LogBound
  /\ filter' = Added(filter, e)
  /\ log' = Append(log, e)
  /\ UNCHANGED <<answer, lastPoll>>

\* eth_getFilterChanges of an installed filter.
poll ==
  /\ answer' = Unread(filter)
  /\ filter' = Polled(filter)
  /\ lastPoll' = Len(log)
  /\ UNCHANGED log

\* eth_getFilterLogs.
getAll ==
  /\ answer' = Retained(filter)
  /\ UNCHANGED <<filter, log, lastPoll>>

FilterNext ==
  \/ \E e \in Reported : add(e)
  \/ poll
  \/ getAll

FilterSpec == FilterInit /\ [][FilterNext]_filterVars

-----------------------------------------------------------------------------
Promise == INSTANCE RecentEvents WITH Capacity <- MaxEventCount, Event <- Reported

\* The buffer never holds more than MAX_EVENT_COUNT events ("prevent OOM when
\* Filers are forgotten", EthJsonRpcImpl:877) and its poll start is always
\* inside it, or poll() would allocate a negative-length array.
FilterTypeOK ==
  /\ filter \in [events : Seq(Reported), pollStart : Nat]
  /\ Len(filter.events) <= MaxEventCount
  /\ filter.pollStart <= Len(filter.events)
  /\ answer \in Seq(Reported)
  /\ log \in Seq(Reported)
  /\ lastPoll \in 0 .. Len(log)

\* The retained events are exactly the newest ones that were added, and the
\* unread ones among them exactly the newest of those added since the last
\* poll.  This is what ties the cursor, which moves with every dropped event,
\* to the history.
RetainsNewest ==
  filter.events = Promise!Newest(log, Promise!Lesser(Len(log), MaxEventCount))

CursorAtFirstUnread ==
  Len(filter.events) - filter.pollStart
    = Promise!Lesser(Len(log) - lastPoll, MaxEventCount)

\* A step of the filter is a step of RecentEvents: polls hand out every event
\* once, in order, and lose only what more than MAX_EVENT_COUNT newer ones
\* have pushed out since the last poll.
ImplementsRecentEvents == Promise!Spec

=============================================================================
