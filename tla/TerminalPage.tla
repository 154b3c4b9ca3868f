---------------------------- MODULE TerminalPage ----------------------------
(***************************************************************************)
(* The terminal page (TerminalCtrl).  The names of the methods are loaded  *)
(* once for all visits; until they are there each visit asks for them      *)
(* every 20 ms, even after it was left.  Each answer creates the terminal  *)
(* in the container that is on screen; the widget (jquery.terminal) gives  *)
(* back the terminal that a container has already.  A command in the URL   *)
(* (as the chart's blocks link to) is run when the names are there.        *)
(***************************************************************************)
EXTENDS Naturals, FiniteSets

CONSTANTS
  TermVisits,   \* bound: times the page is opened
  MaxLoads,     \* bound: requests for the names under way
  MaxCommands   \* bound: commands entered

TermVisit == 1 .. TermVisits

VARIABLES
  termVisit,     \* the visit on screen, 0 on another page
  termVisits,
  hash,          \* visits whose URL has a command
  featureRpc,    \* vm.data.featureRpc: known or not
  words,         \* terminalCompletionWords are loaded
  loads,         \* visit -> its requests under way
  polling,       \* visits with awaitConfigLoadRun scheduled
  container,     \* the container on screen: none, or its terminal: what the
                 \* completion offers and the visit whose scope it talks to
  awaiting,      \* visits whose URL command waits for the names
  executed,      \* history: visit -> times its URL command was run
  commands,      \* bound counter
  running,       \* the command whose answer is awaited, or "none"
  modal          \* the dialog for a private key: none, or the visit whose
                 \* scope has its data

termVars == <<termVisit, termVisits, hash, featureRpc, words, loads, polling, container,
              awaiting, executed, commands, running, modal>>

NoTerminal == [methods |-> FALSE, scope |-> 0]

Init ==
  /\ termVisit = 0 /\ termVisits = 0
  /\ hash \in SUBSET TermVisit
  /\ featureRpc \in BOOLEAN /\ words = FALSE
  /\ loads = [v \in TermVisit |-> 0]
  /\ polling = {}
  /\ container = NoTerminal
  /\ awaiting = {} /\ executed = [v \in TermVisit |-> 0]
  /\ commands = 0 /\ running = "none" /\ modal = 0

\* Mutant of createTerminal: without the names the URL's command is dropped.
createTerminalForgets(v, methods, known) ==
  IF termVisit' = 0 \/ (container.scope # 0 /\ termVisit' = termVisit)
  THEN UNCHANGED <<container, awaiting, executed>>
  ELSE /\ container' = [methods |-> methods, scope |-> v]
       /\ executed' = IF known /\ termVisit' \in hash THEN [executed EXCEPT ![termVisit'] = @ + 1] ELSE executed
       /\ UNCHANGED awaiting

\* createTerminal by a handler of visit v.  A new terminal looks at the URL
\* (onInitAddon); on another page there is no container and it throws.
createTerminal(v, methods, known) ==
  IF termVisit' = 0 \/ (container.scope # 0 /\ termVisit' = termVisit)
  THEN UNCHANGED <<container, awaiting, executed>>
  ELSE /\ container' = [methods |-> methods, scope |-> v]
       /\ IF termVisit' \in hash
          THEN IF known
               THEN executed' = [executed EXCEPT ![termVisit'] = @ + 1] /\ UNCHANGED awaiting
               ELSE awaiting' = awaiting \union {termVisit'} /\ UNCHANGED executed
          ELSE UNCHANGED <<awaiting, executed>>

\* loadCompletion of visit v, called n times.
Load(v, n) ==
  /\ loads[v] + n <= MaxLoads
  /\ loads' = [loads EXCEPT ![v] = @ + n]

\* With the names the terminal is created at once; without them the start
\* makes two requests if it may, and goes on polling.
OpenTerminal ==
  LET v == termVisits + 1 IN
  /\ termVisit = 0 /\ termVisits < TermVisits
  /\ termVisit' = v /\ termVisits' = v
  /\ IF words
     THEN createTerminal(v, TRUE, TRUE) /\ UNCHANGED <<loads, polling>>
     ELSE /\ polling' = polling \union {v}
          /\ IF featureRpc THEN Load(v, 2) ELSE UNCHANGED loads
          /\ UNCHANGED <<container, awaiting, executed>>
  /\ UNCHANGED <<hash, featureRpc, words, commands, running, modal>>

\* $destroy: the terminal is destroyed; timers and requests go on.
LeaveTerminal ==
  /\ termVisit # 0
  /\ termVisit' = 0
  /\ container' = NoTerminal
  /\ modal' = 0
  /\ UNCHANGED <<termVisits, hash, featureRpc, words, loads, polling, awaiting, executed,
                 commands, running>>

initialInfo ==
  /\ ~featureRpc /\ featureRpc' = TRUE
  /\ UNCHANGED <<termVisit, termVisits, hash, words, loads, polling, container, awaiting,
                 executed, commands, running, modal>>

\* awaitConfigLoadRun, every 20 ms: another request each time.
Poll(v) ==
  /\ v \in polling
  /\ IF words THEN polling' = polling \ {v} /\ UNCHANGED loads
     ELSE featureRpc /\ Load(v, 1) /\ UNCHANGED polling
  /\ UNCHANGED <<termVisit, termVisits, hash, featureRpc, words, container, awaiting,
                 executed, commands, running, modal>>

Answered(v) == loads[v] > 0 /\ loads' = [loads EXCEPT ![v] = @ - 1]

MethodsAnswered(v) ==
  /\ Answered(v)
  /\ words' = TRUE
  /\ UNCHANGED <<termVisit, termVisits, hash, featureRpc, polling, commands, running, modal>>
  /\ createTerminal(v, TRUE, TRUE)

\* A failure creates a terminal that completes nothing.
MethodsFailed(v) ==
  /\ Answered(v)
  /\ UNCHANGED <<termVisit, termVisits, hash, featureRpc, words, polling, commands, running, modal>>
  /\ createTerminal(v, FALSE, words)

\* awaitConfigLoadAndRun: the URL's command is run, if the terminal is there.
ExecTimer(v) ==
  /\ v \in awaiting /\ words
  /\ awaiting' = awaiting \ {v}
  /\ executed' = IF v = termVisit THEN [executed EXCEPT ![v] = @ + 1] ELSE executed
  /\ UNCHANGED <<termVisit, termVisits, hash, featureRpc, words, loads, polling, container,
                 commands, running, modal>>

\* A command of a known name is sent; others are refused.
onCommandEnter ==
  /\ container # NoTerminal /\ words /\ running = "none" /\ commands < MaxCommands
  /\ commands' = commands + 1
  /\ running' \in {"call", "send"}
  /\ UNCHANGED <<termVisit, termVisits, hash, featureRpc, words, loads, polling, container,
                 awaiting, executed, modal>>

\* Its answer: after a transaction was sent its receipt is asked for; if the
\* keystore does not have the key, the dialog opens with the data of the scope
\* that the terminal talks to.
CommandAnswered ==
  /\ running # "none"
  /\ \/ running = "send" /\ running' = "call" /\ UNCHANGED modal
     \/ running' = "none" /\ UNCHANGED modal
     \/ /\ running' = "none" /\ running = "send" /\ container # NoTerminal
        /\ modal' = container.scope
  /\ UNCHANGED <<termVisit, termVisits, hash, featureRpc, words, loads, polling, container,
                 awaiting, executed, commands>>

\* The key is entered: RlpBuilder signs and the raw transaction is sent; the
\* dialog closes only if that succeeds.
onSignAndSend ==
  /\ modal # 0
  /\ modal' \in {0, modal}
  /\ UNCHANGED <<termVisit, termVisits, hash, featureRpc, words, loads, polling, container,
                 awaiting, executed, commands, running>>

Next ==
  \/ OpenTerminal \/ LeaveTerminal \/ initialInfo
  \/ onCommandEnter \/ CommandAnswered \/ onSignAndSend
  \/ \E v \in TermVisit : Poll(v) \/ MethodsAnswered(v) \/ MethodsFailed(v) \/ ExecTimer(v)

\* Timers fire, requests are answered, and not always with a failure.
Fairness ==
  /\ WF_termVars(initialInfo)
  /\ WF_termVars(\E v \in TermVisit : ExecTimer(v))
  /\ \A v \in TermVisit :
       /\ WF_termVars(Poll(v))
       /\ WF_termVars(MethodsAnswered(v) \/ MethodsFailed(v))
       /\ SF_termVars(MethodsAnswered(v))

Spec == Init /\ [][Next]_termVars /\ Fairness

-----------------------------------------------------------------------------
TypeOK ==
  /\ termVisit \in 0 .. TermVisits /\ termVisits \in 0 .. TermVisits
  /\ loads \in [TermVisit -> 0 .. MaxLoads]
  /\ polling \subseteq TermVisit /\ awaiting \subseteq TermVisit
  /\ container.scope \in 0 .. TermVisits /\ modal \in 0 .. TermVisits
  /\ running \in {"none", "call", "send"}

\* However many requests for the names are answered, a command in the URL is
\* run at most once.
UrlCommandOnce == \A v \in TermVisit : executed[v] <= 1

\* A visit that lasts gets its terminal, and the command in its URL is run.
TerminalOpens ==
  \A v \in TermVisit :
    termVisit = v ~> \/ termVisit # v
                     \/ container # NoTerminal /\ (v \in hash => executed[v] = 1)
=============================================================================
