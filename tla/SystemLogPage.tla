--------------------------- MODULE SystemLogPage ----------------------------
(***************************************************************************)
(* The page of the system log (SystemLogCtrl).  The first line that comes  *)
(* is shown at once; those of the next 300 ms wait in pendingLogs.  The    *)
(* container of the lines, the filter and its input are variables of the   *)
(* script, shared by all visits of the page; pendingLogs, the timer and    *)
(* isAutoScroll belong to the scope of one visit.  The filter is a regular *)
(* expression: while it is not a valid one, every handler that would show  *)
(* a line throws.                                                          *)
(***************************************************************************)
EXTENDS Integers, Sequences, FiniteSets

CONSTANTS
  Filter,       \* texts that may be typed into the filter
  Matches,      \* valid filter -> the log lines it matches
  NoFilter,     \* the empty text
  LINES_LIMIT,  \* lines kept while the page scrolls
  LogCount,     \* bound: lines the node logs
  LogVisits,    \* bound: times the page is opened
  LogFetches    \* bound: answers with the last lines

LogLine == 1 .. LogCount
LogVisit == 1 .. LogVisits
Valid == DOMAIN Matches

VARIABLES
  logged,          \* lines the node has logged
  logVisit,        \* the visit on screen, 0 on another page
  logVisits,       \* visits so far
  fetches,         \* bound counter
  filterValue,     \* the filter that is applied
  query,           \* what the input shows
  lines,           \* children of logContainer
  pendingLogs,     \* per visit
  batchLogsTimer,  \* per visit: none, set, or dead (its callback threw)
  isAutoScroll,    \* per visit
  handed,          \* history: lines given to each visit
  thrown           \* history: visits one of whose handlers threw

logVars == <<logged, logVisit, logVisits, fetches, filterValue, query, lines,
             pendingLogs, batchLogsTimer, isAutoScroll, handed, thrown>>

\* A child of the container: the line, the scope that added it, and whether
\* it is displayed.
Child(log, v) == [log |-> log, by |-> v, display |-> log \in Matches[filterValue]]

Init ==
  /\ logged = 0 /\ logVisit = 0 /\ logVisits = 0 /\ fetches = 0
  /\ filterValue = NoFilter /\ query = NoFilter
  /\ lines = <<>>
  /\ pendingLogs = [v \in LogVisit |-> <<>>]
  /\ batchLogsTimer = [v \in LogVisit |-> "none"]
  /\ isAutoScroll = [v \in LogVisit |-> TRUE]
  /\ handed = [v \in LogVisit |-> <<>>]
  /\ thrown = {}

\* The controller starts: a new container and a new input, the old filter.
OpenLog ==
  /\ logVisit = 0 /\ logVisits < LogVisits
  /\ logVisits' = logVisits + 1 /\ logVisit' = logVisits'
  /\ lines' = <<>> /\ query' = NoFilter
  /\ UNCHANGED <<logged, fetches, filterValue, pendingLogs, batchLogsTimer,
                 isAutoScroll, handed, thrown>>

\* The timer of a visit is not cancelled.
LeaveLog ==
  /\ logVisit # 0
  /\ logVisit' = 0
  /\ UNCHANGED <<logged, logVisits, fetches, filterValue, query, lines, pendingLogs,
                 batchLogsTimer, isAutoScroll, handed, thrown>>

\* While the page scrolls, the oldest lines above the limit go.
postLogAction(v, children) ==
  IF isAutoScroll[v] /\ Len(children) > LINES_LIMIT
  THEN SubSeq(children, Len(children) - LINES_LIMIT + 1, Len(children))
  ELSE children

addLogLines(v, logs) == lines \o [i \in DOMAIN logs |-> Child(logs[i], v)]

\* Mutant of Show: lines that wait are shown after those that just came.
ShowNewFirst(v, more) ==
  /\ filterValue \in Valid
  /\ lines' = postLogAction(v, addLogLines(v, more \o pendingLogs[v]))
  /\ pendingLogs' = [pendingLogs EXCEPT ![v] = <<>>]
  /\ UNCHANGED thrown

\* Mutant of Show: pendingLogs is not emptied.
ShowKeeps(v, more) ==
  /\ filterValue \in Valid
  /\ lines' = postLogAction(v, addLogLines(v, pendingLogs[v] \o more))
  /\ UNCHANGED <<pendingLogs, thrown>>

\* pendingLogs and then more lines are shown, if the filter is valid.
Show(v, more) ==
  /\ filterValue \in Valid
  /\ lines' = postLogAction(v, addLogLines(v, pendingLogs[v] \o more))
  /\ pendingLogs' = [pendingLogs EXCEPT ![v] = <<>>]
  /\ UNCHANGED thrown

Throws(v) ==
  /\ filterValue \notin Valid
  /\ thrown' = thrown \union {v}
  /\ UNCHANGED <<lines, pendingLogs>>

Handed(more) == handed' = [handed EXCEPT ![logVisit] = @ \o more]

SetTimer(v, state) == batchLogsTimer' = [batchLogsTimer EXCEPT ![v] = state]

\* A new line arrives, handled by the visit on screen.
systemLogEvent ==
  LET v == logVisit
      log == logged + 1
  IN /\ logged < LogCount
     /\ logged' = log
     /\ IF v = 0 THEN UNCHANGED <<lines, pendingLogs, batchLogsTimer, handed, thrown>>
        ELSE /\ Handed(<<log>>)
             /\ \/ /\ batchLogsTimer[v] = "none"
                   /\ \/ Show(v, <<log>>) /\ SetTimer(v, "set")
                      \/ Throws(v) /\ UNCHANGED batchLogsTimer
                \/ /\ batchLogsTimer[v] # "none"
                   /\ pendingLogs' = [pendingLogs EXCEPT ![v] = Append(@, log)]
                   /\ UNCHANGED <<lines, batchLogsTimer, thrown>>
     /\ UNCHANGED <<logVisit, logVisits, fetches, filterValue, query, isAutoScroll>>

\* The answer with the last lines, at the start and after a reconnection.
currentSystemLogs ==
  LET v == logVisit
      items == [i \in 1 .. logged |-> i]
  IN /\ v # 0 /\ fetches < LogFetches /\ logged > 0
     /\ fetches' = fetches + 1
     /\ Handed(items)
     /\ Show(v, items) \/ (Throws(v))
     /\ UNCHANGED <<logged, logVisit, logVisits, filterValue, query, batchLogsTimer, isAutoScroll>>

\* The timer of a visit, be it on screen or not.  Its callback resets
\* batchLogsTimer last: if it throws, the timer is never reset.
BatchLogsTimer(v) ==
  /\ batchLogsTimer[v] = "set"
  /\ \/ Show(v, <<>>) /\ SetTimer(v, "none")
     \/ /\ pendingLogs[v] # <<>> /\ Throws(v) /\ SetTimer(v, "dead")
     \/ /\ filterValue \notin Valid /\ pendingLogs[v] = <<>>
        /\ lines' = postLogAction(v, lines)
        /\ SetTimer(v, "none") /\ UNCHANGED <<pendingLogs, thrown>>
  /\ UNCHANGED <<logged, logVisit, logVisits, fetches, filterValue, query,
                 isAutoScroll, handed>>

\* Every line of the container is shown or hidden anew.
filterLogs(text) ==
  [i \in DOMAIN lines |-> [lines[i] EXCEPT !.display = lines[i].log \in Matches[text]]]

\* A key in the filter's input; the escape key empties it.
KeyUp ==
  /\ logVisit # 0
  /\ \E text \in Filter \ {query} :
       /\ query' = text /\ filterValue' = text
       /\ \/ text \in Valid /\ lines' = filterLogs(text)
          \/ text \notin Valid /\ UNCHANGED lines
  /\ UNCHANGED <<logged, logVisit, logVisits, fetches, pendingLogs, batchLogsTimer,
                 isAutoScroll, handed, thrown>>

onAutoScrollChange ==
  /\ logVisit # 0
  /\ isAutoScroll' = [isAutoScroll EXCEPT ![logVisit] = ~@]
  /\ UNCHANGED <<logged, logVisit, logVisits, fetches, filterValue, query, lines,
                 pendingLogs, batchLogsTimer, handed, thrown>>

Next ==
  \/ OpenLog \/ LeaveLog \/ systemLogEvent \/ currentSystemLogs
  \/ KeyUp \/ onAutoScrollChange
  \/ \E v \in LogVisit : BatchLogsTimer(v)

\* Browsers fire timers.
Fairness == WF_logVars(\E v \in LogVisit : BatchLogsTimer(v))

Spec == Init /\ [][Next]_logVars /\ Fairness

-----------------------------------------------------------------------------
TypeOK ==
  /\ logged \in 0 .. LogCount /\ logVisit \in 0 .. LogVisits /\ logVisits \in 0 .. LogVisits
  /\ filterValue \in Filter /\ query \in Filter
  /\ \A i \in DOMAIN lines : lines[i].log \in LogLine /\ lines[i].by \in LogVisit
  /\ pendingLogs \in [LogVisit -> Seq(LogLine)]
  /\ batchLogsTimer \in [LogVisit -> {"none", "set", "dead"}]

\* A visit that was given some lines and holds back others shows the last of
\* those it does not hold back, each once and in their order.
ShowsRest(children, v, given, waiting) ==
  LET own == {i \in DOMAIN children : children[i].by = v}
      rest == Len(given) - Len(waiting)
  IN /\ rest >= 0 /\ \A k \in DOMAIN waiting : waiting[k] = given[rest + k]
     /\ \A i \in own :
          LET after == Cardinality({j \in own : j > i})
          IN after < rest /\ children[i].log = given[rest - after]

\* Batching neither loses nor reorders, unless a handler of the visit threw.
NoLineLost ==
  logVisit # 0 /\ logVisit \notin thrown =>
    ShowsRest(lines, logVisit, handed[logVisit], pendingLogs[logVisit])

\* Lines are shown or hidden as the filter that is applied says, those that
\* were there when it was typed and those that came later.
FilterApplied ==
  filterValue \in Valid /\ logVisit # 0 =>
    \A i \in DOMAIN lines : lines[i].display = (lines[i].log \in Matches[filterValue])

\* The container grows above the limit only for a visit that does not scroll,
\* and one batch that scrolls removes whatever has piled up meanwhile.
BoundedWhileScrolling ==
  [][lines' # lines /\ Len(lines') > LINES_LIMIT =>
       \/ \E v \in LogVisit : ~isAutoScroll[v]
       \/ UNCHANGED pendingLogs /\ Len(lines') = Len(lines)]_logVars

\* A line that is held back is shown, unless a handler threw or the page is left.
PendingShown ==
  \A v \in LogVisit : pendingLogs[v] # <<>> ~> pendingLogs[v] = <<>> \/ v \in thrown
=============================================================================
