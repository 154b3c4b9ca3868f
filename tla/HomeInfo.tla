------------------------------ MODULE HomeInfo ------------------------------
(***************************************************************************)
(* The texts of the home page (HomeCtrl) about the node's synchronisation, *)
(* shown 10 ms after they came, and its test of the node's ports by a      *)
(* service, two requests that may be answered in any order or fail.        *)
(***************************************************************************)
EXTENDS Naturals, Sequences

CONSTANTS
  MaxNetworkInfos,    \* bound: infos
  MaxTests            \* bound: tests of the ports

Stage == {"PivotBlock", "StateNodes", "Headers", "BlockBodies", "Receipts",
          "Regular", "Complete", "Off"}
Port == {"ethPort", "rpcPort"}

VARIABLES
  homeStatus,    \* stages of the top and the bottom text
  homePending,   \* infos that wait for their 10 ms, oldest first
  networkInfos,  \* bound counter
  testing,       \* isPortCheckingProgress
  checks,        \* ports whose answer is awaited
  portResult,    \* port -> "", "?", "v", "x", "service issue"
  tests          \* bound counter

textVars == <<homeStatus, homePending, networkInfos>>
portVars == <<testing, checks, portResult, tests>>
homeVars == <<textVars, portVars>>

\* The stage, and whether all state nodes that are known are loaded.
Status == [stage : Stage, loaded : BOOLEAN]

Init ==
  /\ homeStatus = <<"", "">> /\ homePending = <<>> /\ networkInfos = 0
  /\ testing = FALSE /\ checks = {} /\ portResult = [p \in Port |-> ""] /\ tests = 0

networkInfoEvent ==
  /\ networkInfos < MaxNetworkInfos
  /\ networkInfos' = networkInfos + 1
  /\ \E s \in Status : homePending' = Append(homePending, s)
  /\ UNCHANGED <<homeStatus, portVars>>

syncStatusesMessageTop(s) ==
  IF s.stage \in {"PivotBlock", "StateNodes", "Regular"} THEN s.stage ELSE ""

syncStatusesMessageBottom(s) ==
  IF s.stage = "StateNodes" /\ s.loaded THEN "StateNodesBlocks" ELSE syncStatusesMessageTop(s)

HomeTimer ==
  /\ homePending # <<>>
  /\ LET s == Head(homePending) IN
     homeStatus' = <<syncStatusesMessageTop(s), syncStatusesMessageBottom(s)>>
  /\ homePending' = Tail(homePending)
  /\ UNCHANGED <<networkInfos, portVars>>

\* A click on "Test port": refused while a test is under way; ports that are
\* no numbers are not tested.
TestPorts ==
  /\ ~testing /\ tests < MaxTests
  /\ tests' = tests + 1 /\ testing' = TRUE
  /\ checks' \in SUBSET Port
  /\ portResult' = [p \in Port |-> IF p \in checks' THEN "?" ELSE portResult[p]]
  /\ UNCHANGED textVars

markResult(p) ==
  /\ p \in checks
  /\ checks' = checks \ {p}
  /\ \E r \in {"v", "x", "service issue"} : portResult' = [portResult EXCEPT ![p] = r]
  /\ UNCHANGED <<textVars, testing, tests>>

AllAnswered == checks = {}

\* $q.all: every request is answered, be it with an error.
TestDone ==
  /\ testing /\ AllAnswered
  /\ testing' = FALSE
  /\ UNCHANGED <<textVars, checks, portResult, tests>>

Next ==
  \/ networkInfoEvent \/ HomeTimer
  \/ TestPorts \/ TestDone \/ (\E p \in Port : markResult(p))

Spec == Init /\ [][Next]_homeVars

-----------------------------------------------------------------------------
\* A port whose test is over shows its result, and no other.
PortsAnswered == ~testing => \A p \in Port : portResult[p] # "?"
=============================================================================
