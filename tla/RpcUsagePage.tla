---------------------------- MODULE RpcUsagePage ----------------------------
(***************************************************************************)
(* The page of the JSON-RPC statistics (RpcUsageCtrl).  The first update   *)
(* gives the items; later ones are copied into them, method by method,     *)
(* each 10 ms after it came.  A result that is no JSON text ends the       *)
(* update of the methods behind it.                                        *)
(***************************************************************************)
EXTENDS Naturals, Sequences

CONSTANTS
  Method,    \* the methods in the order the server sends them
  MaxCalls   \* bound: calls

VARIABLES
  stats,        \* server: per method its calls and whether the last result is JSON
  calls,        \* bound counter
  updates,      \* updates waiting for their 10 ms, oldest first
  rpcItems,     \* <<>> before the first update, else calls per method
  visible,      \* methods whose last result is unfolded
  lastUpdate    \* history: the update handled last, <<>> if none

usageVars == <<stats, calls, updates, rpcItems, visible, lastUpdate>>

Methods == DOMAIN Method

Init ==
  /\ stats = [i \in Methods |-> [count |-> 0, json |-> TRUE]]
  /\ calls = 0
  /\ updates = <<>> /\ rpcItems = <<>>
  /\ visible = {} /\ lastUpdate = <<>>

methodInvoked ==
  /\ calls < MaxCalls
  /\ calls' = calls + 1
  /\ \E i \in Methods, json \in BOOLEAN :
       stats' = [stats EXCEPT ![i] = [count |-> @.count + 1, json |-> json]]
  /\ UNCHANGED <<updates, rpcItems, visible, lastUpdate>>

rpcUsageListEvent ==
  /\ Len(updates) < 2
  /\ updates' = Append(updates, stats)
  /\ UNCHANGED <<stats, calls, rpcItems, visible, lastUpdate>>

\* Counts of the methods up to the first whose result does not parse.
synchronizeArrays(source, target) ==
  [i \in Methods |-> IF \E j \in 1 .. i - 1 : ~source[j].json THEN target[i] ELSE source[i].count]

UpdateTimer ==
  /\ updates # <<>>
  /\ updates' = Tail(updates)
  /\ LET source == Head(updates)
         first == [i \in Methods |-> source[i].count]
     IN rpcItems' = synchronizeArrays(source, IF rpcItems = <<>> THEN first ELSE rpcItems)
  /\ lastUpdate' = Head(updates)
  /\ UNCHANGED <<stats, calls, visible>>

showLastResult ==
  /\ rpcItems # <<>>
  /\ \E i \in Methods : visible' = IF i \in visible THEN visible \ {i} ELSE visible \union {i}
  /\ UNCHANGED <<stats, calls, updates, rpcItems, lastUpdate>>

Next == methodInvoked \/ rpcUsageListEvent \/ UpdateTimer \/ showLastResult

Spec == Init /\ [][Next]_usageVars

-----------------------------------------------------------------------------
\* A method's count is that of the update handled last, unless a method before
\* it has a result that is no JSON, and never more than the calls.
CountsShown ==
  lastUpdate # <<>> =>
    \A i \in Methods :
      /\ rpcItems[i] <= stats[i].count
      /\ (\A j \in 1 .. i - 1 : lastUpdate[j].json) => rpcItems[i] = lastUpdate[i].count
=============================================================================
