------------------------ MODULE FilterRegistryProofs ------------------------
(***************************************************************************)
(* ExactDelivery, AnswersInOrder and ReceiptsTracked for any clients,      *)
(* requests and limits.                                                    *)
(*                                                                         *)
(* None is inductive.  For ExactDelivery (IInv) the listener must be told  *)
(* of every block once and in order (EventsInOrder), a filter whose        *)
(* history is being added must belong to one thread and report nothing     *)
(* else (Histories), and a filter that is armed must be so for blocks      *)
(* whose turn has not come (Arming).  For AnswersInOrder (Answers, on top  *)
(* of IInv) a buffer must hold the newest of what the filter was ever told *)
(* (Retains), what it was told must be its history and then news (Told,    *)
(* Complete), and each call must have brought its own filter as far as it  *)
(* is itself (Progress) and know of its range, read step by step while the *)
(* chain grows, only what was there (Ranges).  For ReceiptsTracked         *)
(* (Receipts) the map must be known to hold no key twice, so that a key too*)
(* many means a transaction too many.                                      *)
(*                                                                         *)
(* The last part is about one filter alone (EventFilter): its buffer, its  *)
(* poll start, and that they implement RecentEvents.                       *)
(***************************************************************************)
EXTENDS FilterRegistry, EventFilter, FiniteSetTheorems, SequenceTheorems, TLAPS

Origin == [request : Request \union {None}, askedAt : Nat, first : Nat, last : Int,
           armedAt : Int]

Types ==
  /\ best \in 0 .. BlockBound
  /\ dispatched \in 0 .. best
  /\ queue \in Seq(ListenerEvent)
  /\ filters \in Seq(Object) /\ Len(filters) <= FilterBound
  /\ reported \in Seq(Seq(Event)) /\ Len(reported) = Len(filters)
  /\ origin \in Seq(Origin) /\ Len(origin) = Len(filters)
  /\ installed \subseteq Ids
  /\ walk \in Walk \union {None} /\ (Walking => walk.todo \subseteq Ids)
  /\ task \in [Client -> Task]

IsBlock(event) == event.type = "onBlock"

\* The listener walks the table for a block; it has yet to reach filter id.
OnBlock   == Walking /\ IsBlock(walk.event)
Ahead(id) == OnBlock /\ id \in walk.todo

\* The queue holds the blocks after the one dispatched last, each once and in
\* order.
EventsInOrder ==
  /\ \A i \in 1 .. Len(queue) : IsBlock(queue[i]) => queue[i].ref \in dispatched + 1 .. best
  /\ \A i, j \in 1 .. Len(queue) :
       i < j /\ IsBlock(queue[i]) /\ IsBlock(queue[j]) => queue[i].ref < queue[j].ref
  /\ \A n \in dispatched + 1 .. best :
       \E i \in 1 .. Len(queue) : IsBlock(queue[i]) /\ queue[i].ref = n
  /\ OnBlock => walk.event.ref = dispatched
  /\ \A id, n \in Nat : <<id, n>> \in cut => n <= dispatched /\ (OnBlock => n < dispatched)

\* A thread between the installation of its filter and its arming.
Building(c) == task[c].at \in {"resolveFrom", "resolveTo", "resolveBest", "history"}

\* A filter that is being built reports nothing but the history so far.
History(c) ==
  LET id == task[c].id
      o  == origin[id]
  IN  /\ id \in Ids
      /\ filters[id].kind = "log" /\ ~filters[id].onNewBlock /\ ~filters[id].onPendingTx
      /\ o.armedAt = -1 /\ o.request \in Request
      /\ task[c].at # "history" => reported[id] = <<>>
      /\ task[c].at = "resolveTo" => task[c].next \in -1 .. best
      /\ task[c].at = "resolveBest" => task[c].next \in 0 .. best
      /\ task[c].at = "history" =>
           /\ o.last <= best /\ o.first <= task[c].next
           /\ task[c].next > o.last => task[c].next = (IF o.last < o.first THEN o.first ELSE o.last + 1)
           /\ \A n \in Nat : Occurrences(id, BlockEvent(n)) =
                IF n \in o.first .. task[c].next - 1 THEN 1 ELSE 0

Histories ==
  /\ \A c \in Client : Building(c) => History(c)
  /\ \A c, d \in Client : Building(c) /\ Building(d) /\ task[c].id = task[d].id => c = d
  /\ \A c \in Client : task[c].at # "idle" => task[c].id \in Ids

\* A filter is armed for blocks that the listener has yet to bring to it.
Arming(id) ==
  /\ filters[id].onNewBlock => filters[id].kind = "log"
  /\ TakesBlocks(id) =>
       /\ origin[id].armedAt <= dispatched
       /\ Ahead(id) => origin[id].armedAt < dispatched

\* The listener has brought block n to filter id after the filter was armed.
News(id, n) == n > origin[id].armedAt /\ Handled(id, n) /\ <<id, n>> \notin cut

\* ExactDelivery, of the blocks to come too: those are reported as history only.
Delivered(id) ==
  TakesBlocks(id) =>
    \A n \in Nat :
      Occurrences(id, BlockEvent(n)) =
        (IF n \in origin[id].first .. origin[id].last THEN 1 ELSE 0) +
        (IF News(id, n) THEN 1 ELSE 0)

Deliveries == \A id \in Ids : Arming(id) /\ Delivered(id)

IInv == Types /\ EventsInOrder /\ Histories /\ Deliveries

-----------------------------------------------------------------------------
\* Data.

\* An event that is appended is one more of its kind.
LEMMA TimesAppend ==
  ASSUME NEW S, NEW s \in Seq(S), NEW e \in S, NEW x
  PROVE  /\ TimesIn(s, x) \in Nat
         /\ TimesIn(Append(s, e), x) = TimesIn(s, x) + (IF e = x THEN 1 ELSE 0)
<1> DEFINE old == {i \in DOMAIN s : s[i] = x}
           new == {i \in DOMAIN Append(s, e) : Append(s, e)[i] = x}
<1>1. Len(s) \in Nat /\ DOMAIN s = 1 .. Len(s)
  OBVIOUS
<1>2. /\ DOMAIN Append(s, e) = 1 .. Len(s) + 1 /\ Append(s, e)[Len(s) + 1] = e
      /\ \A i \in 1 .. Len(s) : Append(s, e)[i] = s[i]
  OBVIOUS
<1>3. new = IF e = x THEN old \union {Len(s) + 1} ELSE old
  BY <1>1, <1>2
<1>4. IsFiniteSet(old)
  <2>1. IsFiniteSet(1 .. Len(s))
    BY <1>1, FS_Interval
  <2> QED
    BY <1>1, <2>1, FS_Subset
<1>5. Len(s) + 1 \notin old
  BY <1>1
<1>6. Cardinality(old) \in Nat
  BY <1>4, FS_CardinalityType
<1>7. Cardinality(old \union {Len(s) + 1}) = Cardinality(old) + 1
  BY <1>4, <1>5, FS_AddElement
<1>8. TimesIn(s, x) = Cardinality(old) /\ TimesIn(Append(s, e), x) = Cardinality(new)
  BY DEF TimesIn
<1> HIDE DEF old, new
<1>9. CASE e = x
  BY <1>3, <1>6, <1>7, <1>8, <1>9
<1>10. CASE e # x
  BY <1>3, <1>6, <1>8, <1>10
<1> QED
  BY <1>9, <1>10

LEMMA TimesNone == \A x : TimesIn(<<>>, x) = 0
  BY FS_EmptySet DEF TimesIn

\* add() and poll() leave a filter a filter of the same kind.
Alike(f, g) == /\ f.kind = g.kind /\ f.onNewBlock = g.onNewBlock
               /\ f.onPendingTx = g.onPendingTx

LEMMA ObjectAdded ==
  ASSUME NEW f \in Object, NEW e \in Event
  PROVE  Added(f, e) \in Object /\ Alike(Added(f, e), f)
<1> DEFINE grown == Append(f.events, e)
<1>1. f.events \in Seq(Event) /\ f.pollStart \in Nat
  BY DEF Object
<1>2. grown \in Seq(Event) /\ grown # <<>> /\ Tail(grown) \in Seq(Event)
  <2>1. grown \in Seq(Event) /\ Len(grown) = Len(f.events) + 1 /\ Len(f.events) \in Nat
    BY <1>1, AppendProperties, LenProperties
  <2> HIDE DEF grown
  <2>2. grown # <<>>
    BY <2>1
  <2> QED
    BY <2>1, <2>2, HeadTailProperties
<1> HIDE DEF grown
<1>3. CASE Len(grown) > MaxEventCount
  <2>1. Added(f, e) = [events |-> Tail(grown),
                       pollStart |-> IF f.pollStart > 0 THEN f.pollStart - 1 ELSE f.pollStart,
                       kind |-> f.kind, onNewBlock |-> f.onNewBlock,
                       onPendingTx |-> f.onPendingTx]
    BY <1>3 DEF Added, grown, Object
  <2> QED
    BY <1>1, <1>2, <2>1 DEF Object, Alike
<1>4. CASE ~(Len(grown) > MaxEventCount)
  <2>1. Added(f, e) = [f EXCEPT !.events = grown]
    BY <1>4 DEF Added, grown
  <2> QED
    BY <1>2, <2>1 DEF Object, Alike
<1> QED
  BY <1>3, <1>4

LEMMA ObjectPolled ==
  ASSUME NEW f \in Object
  PROVE  Polled(f) \in Object /\ Alike(Polled(f), f) /\ Unread(f) \in Seq(Event)
<1>1. f.events \in Seq(Event) /\ f.pollStart \in Nat
  BY DEF Object
<1>2. Unread(f) \in Seq(Event) /\ Len(Unread(f)) \in Nat
  BY <1>1 DEF Unread
<1> QED
  BY <1>1, <1>2 DEF Polled, Object, Alike

-----------------------------------------------------------------------------
\* Types.

LEMMA Bounds ==
  /\ BlockBound \in Nat /\ FilterBound \in Nat
  BY RegistryAssumption

\* A block that is read from the chain is on it.
LEMMA ResolvedType ==
  ASSUME best \in Nat, NEW id \in BlockId \union {None}
  PROVE  NullableBlock(id) \in -1 .. best
  BY DEF NullableBlock, Resolve, BlockId

\* What a change of one element does to a sequence.
LEMMA SeqFacts ==
  ASSUME NEW S, NEW s \in Seq(S), NEW e \in S
  PROVE  /\ Len(s) \in Nat
         /\ Append(s, e) \in Seq(S) /\ Len(Append(s, e)) = Len(s) + 1
         /\ \A i \in 1 .. Len(s) : s[i] \in S /\ Append(s, e)[i] = s[i]
         /\ Append(s, e)[Len(s) + 1] = e
         /\ \A i \in 1 .. Len(s) :
              /\ [s EXCEPT ![i] = e] \in Seq(S) /\ Len([s EXCEPT ![i] = e]) = Len(s)
              /\ \A j \in 1 .. Len(s) : [s EXCEPT ![i] = e][j] = IF j = i THEN e ELSE s[j]
  BY ExceptSeq

\* A step that changes the walk at most by making it stale.
SameWalk ==
  /\ walk' \in Walk \union {None} /\ (Walking' <=> Walking)
  /\ Walking => walk'.event = walk.event /\ walk'.todo = walk.todo

LEMMA TableChangedFacts ==
  ASSUME Types, TableChanged
  PROVE  SameWalk
<1>1. CASE Walking
  <2>1. walk \in Walk
    BY <1>1 DEF Types, Walking
  <2>2. walk' = [walk EXCEPT !.fresh = FALSE]
    BY <1>1 DEF TableChanged
  <2>3. walk' \in Walk /\ walk'.event = walk.event /\ walk'.todo = walk.todo
    BY <2>1, <2>2 DEF Walk
  <2> QED
    BY <1>1, <2>3, RegistryAssumption DEF SameWalk, Walking
<1>2. CASE ~Walking
  BY <1>2 DEF TableChanged, SameWalk, Walking
<1> QED
  BY <1>1, <1>2

LEMMA WalkKept ==
  ASSUME Types, walk' = walk
  PROVE  SameWalk
  BY DEF SameWalk, Types, Walking

\* A filter that a step leaves as it is, polls of it apart.
Untouched(id) ==
  /\ Alike(filters'[id], filters[id])
  /\ origin'[id] = origin[id] /\ reported'[id] = reported[id]

\* A filter that a step leaves as it is.
Stands(id) ==
  filters'[id] = filters[id] /\ origin'[id] = origin[id] /\ reported'[id] = reported[id]

LEMMA ElementTypes ==
  ASSUME Types
  PROVE  /\ Len(filters) \in Nat /\ Ids = 1 .. Len(filters)
         /\ \A id \in Ids : /\ filters[id] \in Object /\ origin[id] \in Origin
                            /\ reported[id] \in Seq(Event)
         /\ Ids \subseteq 1 .. FilterBound
         /\ \A c \in Client : task[c] \in Task
  BY SeqFacts, Bounds DEF Types, Ids

\* put() of a new filter.
LEMMA InstallFacts ==
  ASSUME Types, NEW object \in Object, NEW o \in Origin, Install(object, o)
  PROVE  /\ Len(filters') = Len(filters) + 1 /\ Len(filters') <= FilterBound
         /\ filters' \in Seq(Object)
         /\ reported' \in Seq(Seq(Event)) /\ Len(reported') = Len(filters')
         /\ origin' \in Seq(Origin) /\ Len(origin') = Len(filters')
         /\ installed' = installed \union {Len(filters) + 1} /\ SameWalk
         /\ Ids' = Ids \union {Len(filters) + 1} /\ Len(filters) + 1 \notin Ids
         /\ filters'[Len(filters) + 1] = object /\ origin'[Len(filters) + 1] = o
         /\ reported'[Len(filters) + 1] = <<>>
         /\ \A id \in Ids : Untouched(id) /\ Stands(id)
         /\ UNCHANGED <<receipts, dispatched, cut, lastUpdate>>
<1>1. /\ filters' = Append(filters, object) /\ reported' = Append(reported, <<>>)
      /\ origin' = Append(origin, o) /\ Len(filters) < FilterBound
      /\ installed' = installed \union {Len(filters) + 1}
      /\ TableChanged /\ UNCHANGED <<receipts, dispatched, cut, lastUpdate>>
  BY DEF Install
<1>2. filters \in Seq(Object) /\ reported \in Seq(Seq(Event)) /\ origin \in Seq(Origin)
      /\ Len(reported) = Len(filters) /\ Len(origin) = Len(filters) /\ Len(filters) \in Nat
  BY ElementTypes DEF Types
<1>3. <<>> \in Seq(Event)
  OBVIOUS
<1>4. /\ filters' \in Seq(Object) /\ Len(filters') = Len(filters) + 1
      /\ filters'[Len(filters) + 1] = object
      /\ \A id \in Ids : filters'[id] = filters[id]
  BY <1>1, <1>2, SeqFacts DEF Ids
<1>5. /\ origin' \in Seq(Origin) /\ Len(origin') = Len(filters) + 1
      /\ origin'[Len(filters) + 1] = o
      /\ \A id \in Ids : origin'[id] = origin[id]
  BY <1>1, <1>2, SeqFacts DEF Ids
<1>6. /\ reported' \in Seq(Seq(Event)) /\ Len(reported') = Len(filters) + 1
      /\ reported'[Len(filters) + 1] = <<>>
      /\ \A id \in Ids : reported'[id] = reported[id]
  BY <1>1, <1>2, <1>3, SeqFacts DEF Ids
<1>7. Ids' = Ids \union {Len(filters) + 1} /\ Len(filters) + 1 \notin Ids
  BY <1>2, <1>4 DEF Ids
<1>8. Len(filters') <= FilterBound
  BY <1>1, <1>2, <1>4, Bounds
<1>9. SameWalk
  BY <1>1, TableChangedFacts
<1> QED
  BY <1>1, <1>4, <1>5, <1>6, <1>7, <1>8, <1>9 DEF Untouched, Alike, Stands

\* A filter's buffer or flags change.
LEMMA FilterFacts ==
  ASSUME Types, NEW id \in Ids, NEW f \in Object, filters' = [filters EXCEPT ![id] = f]
  PROVE  /\ filters' \in Seq(Object) /\ Len(filters') = Len(filters) /\ Ids' = Ids
         /\ filters'[id] = f /\ \A other \in Ids \ {id} : filters'[other] = filters[other]
  BY SeqFacts DEF Types, Ids

LEMMA OriginFacts ==
  ASSUME Types, NEW id \in Ids, NEW o \in Origin, origin' = [origin EXCEPT ![id] = o]
  PROVE  /\ origin' \in Seq(Origin) /\ Len(origin') = Len(origin)
         /\ origin'[id] = o /\ \A other \in Ids \ {id} : origin'[other] = origin[other]
  BY SeqFacts DEF Types, Ids

LEMMA ReportFacts ==
  ASSUME Types, NEW id \in Ids, NEW e \in Event,
         reported' = [reported EXCEPT ![id] = Append(@, e)]
  PROVE  /\ reported' \in Seq(Seq(Event)) /\ Len(reported') = Len(reported)
         /\ reported'[id] = Append(reported[id], e)
         /\ \A other \in Ids \ {id} : reported'[other] = reported[other]
<1>1. reported[id] \in Seq(Event) /\ Append(reported[id], e) \in Seq(Event)
  BY ElementTypes, SeqFacts
<1>2. reported \in Seq(Seq(Event)) /\ id \in 1 .. Len(reported)
  BY DEF Types, Ids
<1> QED
  BY <1>1, <1>2, SeqFacts DEF Types, Ids

-----------------------------------------------------------------------------
\* What the actions change.

LEMMA TakesBoolean ==
  ASSUME NEW f \in Object, NEW e
  PROVE  Takes(f, e) \in BOOLEAN
  BY DEF Takes, Object

LEMMA VisitFacts ==
  ASSUME Types, NEW id \in Ids, Visit(id)
  PROVE  /\ filters' \in Seq(Object) /\ Len(filters') = Len(filters) /\ Ids' = Ids
         /\ reported' \in Seq(Seq(Event)) /\ Len(reported') = Len(reported)
         /\ \A other \in Ids \ {id} : Untouched(other) /\ Stands(other)
         /\ Alike(filters'[id], filters[id]) /\ origin'[id] = origin[id]
         /\ Report(walk.event) \in Event
         /\ filters'[id] = IF Takes(filters[id], walk.event)
                           THEN Added(filters[id], Report(walk.event)) ELSE filters[id]
         /\ reported'[id] = IF Takes(filters[id], walk.event)
                            THEN Append(reported[id], Report(walk.event)) ELSE reported[id]
         /\ Walking /\ Walking' /\ walk' \in Walk /\ walk'.event = walk.event
         /\ id \in walk.todo /\ walk'.todo = walk.todo \ {id}
         /\ UNCHANGED <<chainVars, installed, origin, dispatched, cut, task>>
<1>1. Walking /\ id \in walk.todo /\ walk' = [walk EXCEPT !.todo = @ \ {id}]
      /\ UNCHANGED <<chainVars, installed, origin, dispatched, cut, task>>
  BY DEF Visit
<1>2. walk \in Walk
  BY <1>1 DEF Types, Walking
<1>3. walk' \in Walk /\ walk'.event = walk.event /\ walk'.todo = walk.todo \ {id}
  BY <1>1, <1>2 DEF Walk
<1>4. Walking'
  BY <1>3, RegistryAssumption DEF Walking
<1>5. Report(walk.event) \in Event
  BY <1>2, Bounds DEF Walk, Report, ListenerEvent, BlockEvent, PendingEvent, Event
<1>6. filters[id] \in Object /\ \A other \in Ids : filters[other] \in Object
  BY ElementTypes
<1>7. CASE Takes(filters[id], walk.event)
  <2>1. filters' = [filters EXCEPT ![id] = Added(filters[id], Report(walk.event))]
        /\ reported' = [reported EXCEPT ![id] = Append(@, Report(walk.event))]
    BY <1>7 DEF Visit, Types, Ids
  <2>2. Added(filters[id], Report(walk.event)) \in Object
        /\ Alike(Added(filters[id], Report(walk.event)), filters[id])
    BY <1>5, <1>6, ObjectAdded
  <2>3. /\ filters' \in Seq(Object) /\ Len(filters') = Len(filters) /\ Ids' = Ids
        /\ filters'[id] = Added(filters[id], Report(walk.event))
        /\ \A other \in Ids \ {id} : filters'[other] = filters[other]
    BY <2>1, <2>2, FilterFacts
  <2>4. /\ reported' \in Seq(Seq(Event)) /\ Len(reported') = Len(reported)
        /\ reported'[id] = Append(reported[id], Report(walk.event))
        /\ \A other \in Ids \ {id} : reported'[other] = reported[other]
    BY <1>5, <2>1, ReportFacts
  <2> QED
    BY <1>1, <1>3, <1>4, <1>5, <1>7, <2>2, <2>3, <2>4 DEF Untouched, Alike, Stands
<1>8. CASE ~Takes(filters[id], walk.event)
  <2>1. UNCHANGED <<filters, reported>>
    BY <1>8 DEF Visit
  <2> QED
    BY <1>1, <1>3, <1>4, <1>5, <1>8, <2>1 DEF Untouched, Alike, Stands, Types, Ids
<1> QED
  BY <1>6, <1>7, <1>8, TakesBoolean

LEMMA OriginRanged ==
  ASSUME NEW o \in Origin, NEW from \in Nat, NEW to \in Int
  PROVE  [o EXCEPT !.first = from, !.last = to] \in Origin
  BY DEF Origin

LEMMA TaskMoved ==
  ASSUME NEW t \in Task, NEW n \in Nat
  PROVE  LET moved == [t EXCEPT !.at = "history", !.next = n]
         IN  moved \in Task /\ moved.at = "history" /\ moved.next = n /\ moved.id = t.id
<1>1. ASSUME NEW P, NEW S, NEW B, NEW N, NEW A, NEW p \in P, NEW k \in N,
             NEW u \in [at : P, id : S, once : B, next : N, answer : A]
      PROVE  LET moved == [u EXCEPT !.at = p, !.next = k]
             IN  /\ moved \in [at : P, id : S, once : B, next : N, answer : A]
                 /\ moved.at = p /\ moved.next = k /\ moved.id = u.id
  OBVIOUS
<1> DEFINE places == {"idle", "resolveFrom", "resolveTo", "resolveBest", "history", "poll",
                      "uninstall"}
<1>2. "history" \in places /\ n \in Int
  OBVIOUS
<1>3. Task = [at : places, id : {0} \union Ids, once : BOOLEAN, next : Int, answer : Seq(Event)]
  BY DEF Task
<1> HIDE DEF places
<1> QED
  BY <1>1, <1>2, <1>3, Zenon

\* The thread's step ends its call or goes on with it.
TaskStep(c, next) == task' = [task EXCEPT ![c] = next]

\* A step that only reads the chain.
Reads(c, t) ==
  /\ TaskStep(c, t) /\ t \in Task /\ t.id = task[c].id /\ t.at \in {"resolveTo", "resolveBest"}
  /\ t.at = "resolveTo" => t.next \in -1 .. best
  /\ t.at = "resolveBest" => t.next \in 0 .. best
  /\ UNCHANGED <<chainVars, tableVars, walkVars>>

Resolves(c) == ResolveFrom(c) \/ ResolveTo(c) \/ ResolveBest(c)

LEMMA TaskRead ==
  ASSUME NEW t \in Task, NEW n \in Int
  PROVE  /\ LET read == [t EXCEPT !.at = "resolveTo", !.next = n]
            IN  read \in Task /\ read.at = "resolveTo" /\ read.next = n /\ read.id = t.id
         /\ LET read == [t EXCEPT !.at = "resolveBest"]
            IN  read \in Task /\ read.at = "resolveBest" /\ read.next = t.next /\ read.id = t.id
  BY DEF Task

\* The range is read in up to three steps, and each block of it that is found is
\* on the chain.
LEMMA ResolveSteps ==
  ASSUME Types, Histories, NEW c \in Client, Resolves(c)
  PROVE  /\ task[c].id \in Ids /\ Building(c) /\ task[c].at # "history"
         /\ \/ \E t : Reads(c, t)
            \/ \E n \in 0 .. best, m \in Int : m <= best /\ BeginHistory(c, n, m)
<1> DEFINE id == task[c].id
           r  == origin[id].request
<1>1. Building(c) /\ task[c].at # "history"
  BY DEF Resolves, ResolveFrom, ResolveTo, ResolveBest, Building
<1>2. id \in Ids /\ r \in Request /\ History(c)
  BY <1>1 DEF Histories, History
<1>3. best \in Nat /\ task[c] \in Task
  BY ElementTypes DEF Types
<1>4. {FromBlock(r), ToBlock(r), r.toBlock} \subseteq BlockId \union {None}
  BY <1>2, RegistryAssumption DEF FromBlock, ToBlock
<1>5. CASE ResolveFrom(c)
  <2> DEFINE n == NullableBlock(FromBlock(r))
             t == [task[c] EXCEPT !.at = "resolveTo", !.next = n]
  <2>1. n \in -1 .. best
    BY <1>3, <1>4, ResolvedType
  <2>2. task' = [task EXCEPT ![c].at = "resolveTo", ![c].next = n]
        /\ UNCHANGED <<chainVars, tableVars, walkVars>>
    BY <1>5 DEF ResolveFrom
  <2> HIDE DEF n
  <2>3. TaskStep(c, t)
    BY <2>2 DEF TaskStep, Types
  <2>4. t \in Task /\ t.at = "resolveTo" /\ t.next = n /\ t.id = id
    <3>1. n \in Int
      BY <1>3, <2>1
    <3> QED
      BY <1>3, <3>1, TaskRead, Zenon
  <2>5. Reads(c, t)
    BY <2>1, <2>2, <2>3, <2>4 DEF Reads
  <2> QED
    BY <1>1, <1>2, <2>5
<1>6. CASE ResolveTo(c)
  <2> DEFINE from == task[c].next
             to   == IF r.blockHash # None THEN from ELSE NullableBlock(r.toBlock)
  <2>1. from \in -1 .. best
    BY <1>1, <1>2, <1>6 DEF ResolveTo, History
  <2>2. to \in -1 .. best
    BY <1>3, <1>4, <2>1, ResolvedType
  <2>3. \/ from = -1 /\ BeginHistory(c, 0, -1)
        \/ from # -1 /\ to # -1 /\ BeginHistory(c, from, to)
        \/ /\ from # -1 /\ to = -1
           /\ task' = [task EXCEPT ![c].at = "resolveBest"]
           /\ UNCHANGED <<chainVars, tableVars, walkVars>>
    BY <1>6 DEF ResolveTo
  <2> HIDE DEF to
  <2>4. CASE from = -1 /\ BeginHistory(c, 0, -1)
    <3>1. 0 \in 0 .. best /\ -1 \in Int /\ -1 <= best
      BY <1>3
    <3> QED
      BY <1>1, <1>2, <2>4, <3>1
  <2>5. CASE from # -1 /\ to # -1 /\ BeginHistory(c, from, to)
    <3>1. from \in 0 .. best /\ to \in Int /\ to <= best
      BY <1>3, <2>1, <2>2, <2>5
    <3> QED
      BY <1>1, <1>2, <2>5, <3>1
  <2>6. CASE /\ from # -1 /\ to = -1
             /\ task' = [task EXCEPT ![c].at = "resolveBest"]
             /\ UNCHANGED <<chainVars, tableVars, walkVars>>
    <3> DEFINE t == [task[c] EXCEPT !.at = "resolveBest"]
    <3>1. TaskStep(c, t)
      BY <2>6 DEF TaskStep, Types
    <3>2. t \in Task /\ t.at = "resolveBest" /\ t.next = from /\ t.id = id
      <4>1. 0 \in Int
        OBVIOUS
      <4> QED
        BY <1>3, <4>1, TaskRead, Zenon
    <3>3. from \in 0 .. best
      BY <1>3, <2>1, <2>6
    <3>4. Reads(c, t)
      BY <2>6, <3>1, <3>2, <3>3 DEF Reads
    <3> QED
      BY <1>1, <1>2, <3>4
  <2> QED
    BY <2>3, <2>4, <2>5, <2>6
<1>7. CASE ResolveBest(c)
  <2>1. task[c].next \in 0 .. best /\ BeginHistory(c, task[c].next, best)
    BY <1>1, <1>2, <1>7 DEF ResolveBest, History
  <2>2. best \in Int /\ best <= best
    BY <1>3
  <2> QED
    BY <1>1, <1>2, <2>1, <2>2
<1> QED
  BY <1>5, <1>6, <1>7 DEF Resolves

\* What the beginning of the history changes.
Begun(c, n, m) ==
  LET id == task[c].id
  IN  /\ origin' \in Seq(Origin) /\ Len(origin') = Len(origin)
      /\ origin'[id] = [origin[id] EXCEPT !.first = n, !.last = m]
      /\ \A other \in Ids \ {id} : origin'[other] = origin[other]
      /\ TaskStep(c, [task[c] EXCEPT !.at = "history", !.next = n])
      /\ [task[c] EXCEPT !.at = "history", !.next = n] \in Task
      /\ UNCHANGED <<chainVars, filters, installed, reported, walkVars>>

LEMMA BeginFacts ==
  ASSUME Types, NEW c \in Client, task[c].id \in Ids,
         NEW n \in 0 .. best, NEW m \in Int, m <= best, BeginHistory(c, n, m)
  PROVE  Begun(c, n, m)
<1> DEFINE id == task[c].id
           o  == [origin[id] EXCEPT !.first = n, !.last = m]
           t  == [task[c] EXCEPT !.at = "history", !.next = n]
<1>1. n \in Nat
  BY DEF Types
<1>2. /\ origin' = [origin EXCEPT ![id].first = n, ![id].last = m]
      /\ task' = [task EXCEPT ![c].at = "history", ![c].next = n]
      /\ UNCHANGED <<chainVars, filters, installed, reported, walkVars>>
  BY DEF BeginHistory
<1>3. o \in Origin
  <2>1. origin[id] \in Origin
    BY ElementTypes
  <2> QED
    BY <1>1, <2>1, OriginRanged
<1>4. t \in Task
  <2>1. task[c] \in Task
    BY ElementTypes
  <2> QED
    BY <1>1, <2>1, TaskMoved
<1>5. origin' = [origin EXCEPT ![id] = o]
  BY <1>2 DEF Types, Ids
<1>6. TaskStep(c, t)
  BY <1>2 DEF TaskStep, Types
<1> QED
  BY <1>2, <1>3, <1>4, <1>5, <1>6, OriginFacts DEF Begun

LEMMA TaskAdvanced ==
  ASSUME NEW t \in Task
  PROVE  LET advanced == [t EXCEPT !.next = @ + 1]
         IN  /\ advanced \in Task /\ advanced.at = t.at /\ advanced.id = t.id
             /\ advanced.next = t.next + 1
  BY DEF Task

LEMMA AddHistoryFacts ==
  ASSUME Types, Histories, NEW c \in Client, AddHistory(c)
  PROVE  LET id    == task[c].id
             event == BlockEvent(task[c].next)
         IN  /\ id \in Ids /\ task[c].at = "history" /\ Building(c)
             /\ task[c].next \in Nat /\ task[c].next <= origin[id].last /\ event \in Event
             /\ filters' \in Seq(Object) /\ Len(filters') = Len(filters) /\ Ids' = Ids
             /\ reported' \in Seq(Seq(Event)) /\ Len(reported') = Len(reported)
             /\ \A other \in Ids \ {id} : Untouched(other) /\ Stands(other)
             /\ Alike(filters'[id], filters[id]) /\ origin'[id] = origin[id]
             /\ filters'[id] = Added(filters[id], event)
             /\ reported'[id] = Append(reported[id], event)
             /\ TaskStep(c, [task[c] EXCEPT !.next = @ + 1])
             /\ [task[c] EXCEPT !.next = @ + 1] \in Task
             /\ UNCHANGED <<chainVars, installed, origin, walkVars>>
<1> DEFINE id    == task[c].id
           event == BlockEvent(task[c].next)
<1>1. /\ task[c].at = "history" /\ Building(c) /\ task[c].next <= origin[id].last
      /\ filters' = [filters EXCEPT ![id] = Added(@, event)]
      /\ reported' = [reported EXCEPT ![id] = Append(@, event)]
      /\ task' = [task EXCEPT ![c].next = @ + 1]
      /\ UNCHANGED <<chainVars, installed, origin, walkVars>>
  BY DEF AddHistory, Building
<1>2. id \in Ids /\ origin[id].last <= best /\ origin[id].first <= task[c].next
  BY <1>1 DEF Histories, History
<1>3. /\ task[c] \in Task /\ filters[id] \in Object
      /\ origin[id].last \in Int /\ origin[id].first \in Nat
  BY <1>2, ElementTypes DEF Origin
<1>4. task[c].next \in Nat /\ [task[c] EXCEPT !.next = @ + 1] \in Task
  <2>1. task[c].next \in Nat
    BY <1>2, <1>3 DEF Task
  <2> QED
    BY <1>3, <2>1, TaskAdvanced
<1>5. event \in Event
  BY <1>1, <1>2, <1>3, <1>4, Bounds DEF BlockEvent, Event, Types
<1> HIDE DEF event
<1>6. filters' = [filters EXCEPT ![id] = Added(filters[id], event)]
  BY <1>1, <1>2 DEF Types, Ids
<1>7. Added(filters[id], event) \in Object /\ Alike(Added(filters[id], event), filters[id])
  BY <1>3, <1>5, ObjectAdded
<1>8. /\ filters' \in Seq(Object) /\ Len(filters') = Len(filters) /\ Ids' = Ids
      /\ filters'[id] = Added(filters[id], event)
      /\ \A other \in Ids \ {id} : filters'[other] = filters[other]
  BY <1>2, <1>6, <1>7, FilterFacts
<1>9. /\ reported' \in Seq(Seq(Event)) /\ Len(reported') = Len(reported)
      /\ reported'[id] = Append(reported[id], event)
      /\ \A other \in Ids \ {id} : reported'[other] = reported[other]
  BY <1>1, <1>2, <1>5, ReportFacts
<1>10. TaskStep(c, [task[c] EXCEPT !.next = @ + 1])
  BY <1>1 DEF TaskStep, Types
<1>11. /\ \A other \in Ids \ {id} : Untouched(other) /\ Stands(other)
       /\ Alike(filters'[id], filters[id]) /\ origin'[id] = origin[id]
  BY <1>1, <1>7, <1>8, <1>9 DEF Untouched, Alike, Stands
<1> QED
  BY <1>1, <1>2, <1>4, <1>5, <1>8, <1>9, <1>10, <1>11 DEF event

LEMMA ObjectArmed ==
  ASSUME NEW f \in Object, NEW r
  PROVE  /\ Armed(f, r) \in Object /\ Armed(f, r).kind = f.kind
         /\ Armed(f, r).onNewBlock = WantsNewBlocks(r)
<1>1. WantsPending(r) \in BOOLEAN /\ WantsNewBlocks(r) \in BOOLEAN
  BY DEF WantsPending, WantsNewBlocks, HasTag
<1>2. ASSUME NEW p \in BOOLEAN, NEW b \in BOOLEAN
      PROVE  LET g == [f EXCEPT !.onPendingTx = p, !.onNewBlock = b]
             IN  g \in Object /\ g.kind = f.kind /\ g.onNewBlock = b
  BY DEF Object
<1> QED
  BY <1>1, <1>2 DEF Armed

LEMMA OriginArmed ==
  ASSUME NEW o \in Origin, NEW n \in Int
  PROVE  /\ [o EXCEPT !.armedAt = n] \in Origin
         /\ [o EXCEPT !.armedAt = n].armedAt = n
         /\ [o EXCEPT !.armedAt = n].first = o.first /\ [o EXCEPT !.armedAt = n].last = o.last
         /\ [o EXCEPT !.armedAt = n].request = o.request
         /\ [o EXCEPT !.armedAt = n].askedAt = o.askedAt
  BY DEF Origin

LEMMA IdleType == IdleTask \in Task
  BY DEF IdleTask, Task

LEMMA TaskPlaced ==
  ASSUME NEW t \in Task, NEW place \in {"poll", "uninstall"}, NEW news \in Seq(Event)
  PROVE  /\ [t EXCEPT !.at = place] \in Task /\ [t EXCEPT !.at = place].id = t.id
         /\ [t EXCEPT !.at = place].at = place
         /\ [t EXCEPT !.at = place, !.answer = news] \in Task
         /\ [t EXCEPT !.at = place, !.answer = news].id = t.id
         /\ [t EXCEPT !.at = place, !.answer = news].at = place
  BY DEF Task

\* The thread is no longer building its filter.
Built(t, id) == t \in Task /\ (t.at = "idle" \/ (t.at \in {"poll", "uninstall"} /\ t.id = id))

LEMMA ArmFacts ==
  ASSUME Types, Histories, NEW c \in Client, Arm(c)
  PROVE  LET id == task[c].id
             r  == origin[id].request
         IN  /\ id \in Ids /\ task[c].at = "history" /\ Building(c)
             /\ task[c].next \in Nat /\ task[c].next > origin[id].last
             /\ filters' \in Seq(Object) /\ Len(filters') = Len(filters) /\ Ids' = Ids
             /\ origin' \in Seq(Origin) /\ Len(origin') = Len(origin)
             /\ \A other \in Ids \ {id} : Untouched(other) /\ Stands(other)
             /\ filters'[id] = Armed(filters[id], r) /\ filters'[id].kind = filters[id].kind
             /\ filters'[id].onNewBlock = WantsNewBlocks(r)
             /\ origin'[id].first = origin[id].first /\ origin'[id].last = origin[id].last
             /\ origin'[id].request = r /\ origin'[id].askedAt = origin[id].askedAt
             /\ origin'[id].armedAt = HandledBefore(id)
             /\ \E t : TaskStep(c, t) /\ Built(t, id)
             /\ TaskStep(c, IF task[c].once THEN [task[c] EXCEPT !.at = "poll"] ELSE IdleTask)
             /\ UNCHANGED <<chainVars, installed, reported, walkVars>>
<1> DEFINE id == task[c].id
           r  == origin[id].request
           f  == Armed(filters[id], r)
           o  == [origin[id] EXCEPT !.armedAt = HandledBefore(id)]
           t  == IF task[c].once THEN [task[c] EXCEPT !.at = "poll"] ELSE IdleTask
<1>1. /\ task[c].at = "history" /\ Building(c) /\ task[c].next > origin[id].last
      /\ filters' = [filters EXCEPT ![id] = Armed(@, origin[id].request)]
      /\ origin' = [origin EXCEPT ![id].armedAt = HandledBefore(id)]
      /\ task' = [task EXCEPT ![c] = IF task[c].once THEN [@ EXCEPT !.at = "poll"] ELSE IdleTask]
      /\ UNCHANGED <<chainVars, installed, reported, walkVars>>
  BY DEF Arm, HistoryDone, Building
<1>2. id \in Ids
  BY <1>1 DEF Histories, History
<1>3. task[c] \in Task /\ filters[id] \in Object /\ origin[id] \in Origin
  BY <1>2, ElementTypes
<1>4. HandledBefore(id) \in Int
  BY DEF Types, HandledBefore
<1>5. f \in Object /\ f.kind = filters[id].kind /\ f.onNewBlock = WantsNewBlocks(r)
  BY <1>3, ObjectArmed
<1>6. /\ o \in Origin /\ o.armedAt = HandledBefore(id)
      /\ o.first = origin[id].first /\ o.last = origin[id].last /\ o.request = r
      /\ o.askedAt = origin[id].askedAt
  BY <1>3, <1>4, OriginArmed
<1>7. Built(t, id)
  <2>1. CASE task[c].once
    <3>1. "poll" \in {"poll", "uninstall"} /\ <<>> \in Seq(Event)
      OBVIOUS
    <3> QED
      BY <1>3, <2>1, <3>1, TaskPlaced DEF Built
  <2>2. CASE ~task[c].once
    BY <2>2, IdleType DEF Built, IdleTask
  <2> QED
    BY <2>1, <2>2
<1>8. task[c].next \in Nat
  <2>1. origin[id].first <= task[c].next
    BY <1>1 DEF Histories, History
  <2>2. task[c].next \in Int /\ origin[id].first \in Nat
    BY <1>3 DEF Task, Origin
  <2> QED
    BY <2>1, <2>2
<1>9. filters' = [filters EXCEPT ![id] = f] /\ origin' = [origin EXCEPT ![id] = o] /\ TaskStep(c, t)
  BY <1>1, <1>2 DEF TaskStep, Types, Ids
<1> HIDE DEF f, o, t
<1>10. /\ filters' \in Seq(Object) /\ Len(filters') = Len(filters) /\ Ids' = Ids
       /\ filters'[id] = f /\ \A other \in Ids \ {id} : filters'[other] = filters[other]
  BY <1>2, <1>5, <1>9, FilterFacts
<1>11. /\ origin' \in Seq(Origin) /\ Len(origin') = Len(origin)
       /\ origin'[id] = o /\ \A other \in Ids \ {id} : origin'[other] = origin[other]
  BY <1>2, <1>6, <1>9, OriginFacts
<1>12. \A other \in Ids \ {id} : Untouched(other) /\ Stands(other)
  BY <1>1, <1>10, <1>11 DEF Untouched, Alike, Stands
<1> QED
  BY <1>1, <1>2, <1>5, <1>6, <1>7, <1>8, <1>9, <1>10, <1>11, <1>12 DEF f, t

\* A poll, by eth_getLogs or eth_getFilterChanges.
LEMMA PollFacts ==
  ASSUME Types, NEW id \in Ids, filters' = [filters EXCEPT ![id] = Polled(@)],
         UNCHANGED <<reported, origin>>
  PROVE  /\ filters' \in Seq(Object) /\ Len(filters') = Len(filters) /\ Ids' = Ids
         /\ \A other \in Ids : Untouched(other)
         /\ filters'[id] = Polled(filters[id]) /\ \A other \in Ids \ {id} : Stands(other)
<1>1. Polled(filters[id]) \in Object /\ Alike(Polled(filters[id]), filters[id])
  BY ElementTypes, ObjectPolled
<1>2. filters' = [filters EXCEPT ![id] = Polled(filters[id])]
  BY DEF Types, Ids
<1>3. /\ filters' \in Seq(Object) /\ Len(filters') = Len(filters) /\ Ids' = Ids
      /\ filters'[id] = Polled(filters[id])
      /\ \A other \in Ids \ {id} : filters'[other] = filters[other]
  BY <1>1, <1>2, FilterFacts
<1> QED
  BY <1>1, <1>3 DEF Untouched, Alike, Stands

LEMMA GetLogsPollFacts ==
  ASSUME Types, Histories, NEW c \in Client, GetLogsPoll(c)
  PROVE  /\ task[c].id \in Ids
         /\ filters' \in Seq(Object) /\ Len(filters') = Len(filters) /\ Ids' = Ids
         /\ \A id \in Ids : Untouched(id)
         /\ filters'[task[c].id] = Polled(filters[task[c].id])
         /\ \A id \in Ids \ {task[c].id} : Stands(id)
         /\ \E t : TaskStep(c, t) /\ Built(t, task[c].id)
         /\ TaskStep(c, [task[c] EXCEPT !.at = "uninstall", !.answer = Unread(filters[task[c].id])])
         /\ UNCHANGED <<chainVars, installed, reported, origin, walkVars>>
<1> DEFINE id == task[c].id
           t  == [task[c] EXCEPT !.at = "uninstall", !.answer = Unread(filters[id])]
<1>1. /\ task[c].at = "poll"
      /\ task' = [task EXCEPT ![c].at = "uninstall", ![c].answer = Unread(filters[id])]
      /\ filters' = [filters EXCEPT ![id] = Polled(@)]
      /\ UNCHANGED <<chainVars, installed, reported, origin, walkVars>>
  BY DEF GetLogsPoll
<1>2. id \in Ids
  BY <1>1 DEF Histories
<1>3. task[c] \in Task /\ Unread(filters[id]) \in Seq(Event)
  BY <1>2, ElementTypes, ObjectPolled
<1>4. Built(t, id)
  <2>1. "uninstall" \in {"poll", "uninstall"}
    OBVIOUS
  <2> QED
    BY <1>3, <2>1, TaskPlaced DEF Built
<1>5. TaskStep(c, t)
  BY <1>1 DEF TaskStep, Types
<1> QED
  BY <1>1, <1>2, <1>4, <1>5, PollFacts

LEMMA NewObjectType ==
  ASSUME NEW kind \in {"block", "pending", "log"}
  PROVE  NewObject(kind) \in Object
<1>1. <<>> \in Seq(Event)
  OBVIOUS
<1> QED
  BY <1>1 DEF NewObject, Object

LEMMA TaskTypes ==
  ASSUME Types, Ids \subseteq Ids'
  PROVE  /\ task \in [Client -> Task']
         /\ \A c \in Client, t \in Task : TaskStep(c, t) => task' \in [Client -> Task']
         /\ \A c \in Client, t \in Task' : TaskStep(c, t) => task' \in [Client -> Task']
<1>1. Task \subseteq Task'
  BY DEF Task
<1> QED
  BY <1>1 DEF Types, TaskStep

LEMMA NewTask ==
  ASSUME NEW S, 0 \in S, NEW n \in S, NEW b \in BOOLEAN
  PROVE  LET t == [IdleTask EXCEPT !.at = "resolveFrom", !.once = b, !.id = n]
         IN  /\ t \in [at : {"idle", "resolveFrom", "resolveTo", "resolveBest", "history",
                            "poll", "uninstall"},
                       id : S, once : BOOLEAN, next : Int, answer : Seq(Event)]
             /\ t.at = "resolveFrom" /\ t.id = n
<1> DEFINE place == {"idle", "resolveFrom", "resolveTo", "resolveBest", "history", "poll",
                     "uninstall"}
           T == [at : place, id : S, once : BOOLEAN, next : Int, answer : Seq(Event)]
<1>1. IdleTask \in T
  BY DEF IdleTask
<1>2. ASSUME NEW u \in T, NEW p \in place
      PROVE  LET t == [u EXCEPT !.at = p, !.once = b, !.id = n]
             IN  t \in T /\ t.at = p /\ t.id = n
  OBVIOUS
<1>3. "resolveFrom" \in place
  OBVIOUS
<1> HIDE DEF place
<1> QED
  BY <1>1, <1>2, <1>3 DEF place

\* The three calls that make a filter.
LEMMA NewFilterFacts ==
  ASSUME Types, NEW c \in Client
  PROVE  /\ eth_newBlockFilter(c) => \E o \in Origin :
              /\ Install(NewObject("block"), o) /\ NewObject("block") \in Object
              /\ o.first = 0 /\ o.last = -1 /\ o.armedAt = dispatched
              /\ UNCHANGED <<chainVars, task>>
         /\ eth_newPendingTransactionFilter(c) => \E o \in Origin :
              /\ Install(NewObject("pending"), o) /\ NewObject("pending") \in Object
              /\ o.first = 0 /\ o.last = -1
              /\ UNCHANGED <<chainVars, task>>
         /\ \A r \in Request, b \in BOOLEAN : eth_newFilter(c, r, b) => \E o, t :
              /\ o \in Origin
              /\ Install(NewObject("log"), o) /\ NewObject("log") \in Object
              /\ o.request = r /\ o.askedAt = best /\ o.armedAt = -1 /\ o.first = 0 /\ o.last = -1
              /\ TaskStep(c, t) /\ t.at = "resolveFrom" /\ t.id = Len(filters) + 1
              /\ (Len(filters) + 1 \in Ids' => t \in Task')
              /\ UNCHANGED chainVars
<1>1. ASSUME NEW x \in Request \union {None}, NEW k \in Nat, NEW n \in Int
      PROVE  [request |-> x, askedAt |-> k, first |-> 0, last |-> -1, armedAt |-> n] \in Origin
  BY DEF Origin
<1>2. /\ NewObject("block") \in Object /\ NewObject("pending") \in Object
      /\ NewObject("log") \in Object
  BY NewObjectType
<1>3. ASSUME NEW n \in Nat, eth_newBlockFilter(c), dispatched = n
      PROVE  \E o \in Origin :
              /\ Install(NewObject("block"), o) /\ NewObject("block") \in Object
              /\ o.first = 0 /\ o.last = -1 /\ o.armedAt = dispatched
              /\ UNCHANGED <<chainVars, task>>
  <2> DEFINE o == [request |-> None, askedAt |-> 0, first |-> 0, last |-> -1, armedAt |-> n]
  <2>1. o \in Origin /\ o.first = 0 /\ o.last = -1 /\ o.armedAt = dispatched
    BY <1>1, <1>3
  <2>2. Install(NewObject("block"), o) /\ UNCHANGED <<chainVars, task>>
    BY <1>3 DEF eth_newBlockFilter
  <2> QED
    BY <1>2, <2>1, <2>2
<1>4. ASSUME NEW n \in Nat, eth_newPendingTransactionFilter(c), dispatched = n
      PROVE  \E o \in Origin :
              /\ Install(NewObject("pending"), o) /\ NewObject("pending") \in Object
              /\ o.first = 0 /\ o.last = -1
              /\ UNCHANGED <<chainVars, task>>
  <2> DEFINE o == [request |-> None, askedAt |-> 0, first |-> 0, last |-> -1, armedAt |-> n]
  <2>1. o \in Origin /\ o.first = 0 /\ o.last = -1
    BY <1>1
  <2>2. Install(NewObject("pending"), o) /\ UNCHANGED <<chainVars, task>>
    BY <1>4 DEF eth_newPendingTransactionFilter
  <2> QED
    BY <1>2, <2>1, <2>2
<1>5. ASSUME NEW r \in Request, NEW b \in BOOLEAN, eth_newFilter(c, r, b)
      PROVE  \E o, t :
              /\ o \in Origin
              /\ Install(NewObject("log"), o) /\ NewObject("log") \in Object
              /\ o.request = r /\ o.askedAt = best /\ o.armedAt = -1 /\ o.first = 0 /\ o.last = -1
              /\ TaskStep(c, t) /\ t.at = "resolveFrom" /\ t.id = Len(filters) + 1
              /\ (Len(filters) + 1 \in Ids' => t \in Task')
              /\ UNCHANGED chainVars
  <2> DEFINE o == [request |-> r, askedAt |-> best, first |-> 0, last |-> -1, armedAt |-> -1]
             t == [IdleTask EXCEPT !.at = "resolveFrom", !.once = b, !.id = Len(filters) + 1]
  <2>1. o \in Origin /\ o.request = r /\ o.askedAt = best /\ o.armedAt = -1
        /\ o.first = 0 /\ o.last = -1
    BY <1>1 DEF Types
  <2>2. Install(NewObject("log"), o) /\ UNCHANGED chainVars /\ TaskStep(c, t)
    BY <1>5 DEF eth_newFilter, TaskStep
  <2>3. t.at = "resolveFrom" /\ t.id = Len(filters) + 1
    <3>1. Len(filters) + 1 \in {0, Len(filters) + 1} /\ 0 \in {0, Len(filters) + 1}
      OBVIOUS
    <3> QED
      BY <3>1, NewTask
  <2>4. Len(filters) + 1 \in Ids' => t \in Task'
    <3> SUFFICES ASSUME Len(filters) + 1 \in {0} \union Ids'
                 PROVE  t \in Task'
      OBVIOUS
    <3>1. 0 \in {0} \union Ids'
      OBVIOUS
    <3> QED
      BY <3>1, NewTask DEF Task
  <2> HIDE DEF t
  <2> QED
    BY <1>2, <2>1, <2>2, <2>3, <2>4
<1>6. dispatched \in Nat
  BY DEF Types
<1> QED
  BY <1>3, <1>4, <1>5, <1>6

LEMMA TypesStep == Types /\ EventsInOrder /\ Histories /\ [Next]_vars => Types'
<1> SUFFICES ASSUME Types, EventsInOrder, Histories, [Next]_vars PROVE Types'
  OBVIOUS
<1> USE DEF chainVars, tableVars, walkVars
<1>0. CASE UNCHANGED vars
  BY <1>0 DEF vars, Types, Ids, Task, Walking
<1>1. CASE ImportBlock
  <2>1. best' = best + 1 /\ best' \in 1 .. BlockBound
        /\ queue' = Append(queue, BlockArrived(best + 1))
        /\ UNCHANGED <<pendings, tableVars, walkVars, task>>
    BY <1>1, Bounds DEF ImportBlock, Types
  <2>2. BlockArrived(best + 1) \in ListenerEvent
    BY <2>1 DEF BlockArrived, ListenerEvent
  <2>3. queue' \in Seq(ListenerEvent)
    BY <2>1, <2>2, SeqFacts DEF Types
  <2> QED
    BY <2>1, <2>3, Bounds DEF Types, Ids, Task, Walking
<1>2. ASSUME NEW tx \in Tx, RaisePending(tx) PROVE Types'
  <2>1. \A st \in UpdateState : PendingUpdate(tx, st) \in ListenerEvent
    BY DEF PendingUpdate, ListenerEvent
  <2>2. PendingReceived(tx) \in ListenerEvent
    BY DEF PendingReceived, ListenerEvent
  <2>3. \E e \in ListenerEvent : queue' = Append(queue, e)
    BY <1>2, <2>1, <2>2 DEF RaisePending
  <2>4. queue' \in Seq(ListenerEvent)
    BY <2>3, SeqFacts DEF Types
  <2> QED
    BY <1>2, <2>4 DEF RaisePending, Types, Ids, Task, Walking
<1>3. CASE BeginWalk
  <2> DEFINE event == Head(queue)
  <2>1. queue # <<>> /\ queue \in Seq(ListenerEvent) /\ queue' = Tail(queue)
        /\ UNCHANGED <<best, tableVars, task>>
    BY <1>3 DEF BeginWalk, Types
  <2>2. event \in ListenerEvent /\ queue' \in Seq(ListenerEvent)
    BY <2>1, HeadTailProperties
  <2>3. \E S \in SUBSET installed : walk' = [event |-> event, fresh |-> TRUE, todo |-> S]
    BY <1>3 DEF BeginWalk
  <2>4. walk' \in Walk /\ walk'.todo \subseteq Ids
    BY <2>2, <2>3, ElementTypes DEF Walk, Types
  <2>5. dispatched' \in 0 .. best
    <3>1. 1 \in 1 .. Len(queue) /\ event = queue[1]
      BY <2>1
    <3>2. IsBlock(event) => event.ref \in dispatched + 1 .. best
      BY <3>1 DEF EventsInOrder
    <3>3. dispatched' = IF IsBlock(event) THEN event.ref ELSE dispatched
      BY <1>3 DEF BeginWalk, IsBlock
    <3> QED
      BY <3>2, <3>3 DEF Types
  <2> QED
    BY <2>1, <2>2, <2>4, <2>5 DEF Types, Ids, Task
<1>4. ASSUME NEW id \in Ids, Visit(id) PROVE Types'
  <2>1. walk' \in Walk /\ walk'.todo \subseteq walk.todo /\ Walking
    BY <1>4, VisitFacts
  <2> QED
    BY <1>4, <2>1, VisitFacts, TaskTypes DEF Types, Ids, Walking
<1>5. CASE EndWalk
  BY <1>5 DEF EndWalk, Types, Ids, Task, Walking
<1>6. ASSUME NEW c \in Client, StartCall(c) PROVE Types'
  <2>1. ASSUME NEW object \in Object, NEW o \in Origin, Install(object, o),
               UNCHANGED chainVars, task' \in [Client -> Task']
        PROVE  Types'
    <3>1. Ids' = 1 .. Len(filters') /\ installed' \subseteq Ids'
      BY <2>1, InstallFacts DEF Types, Ids
    <3>2. walk' \in Walk \union {None} /\ (Walking' => walk'.todo \subseteq Ids')
      BY <2>1, InstallFacts DEF Types, SameWalk
    <3> QED
      BY <2>1, <3>1, <3>2, InstallFacts DEF Types
  <2>2. ASSUME NEW object \in Object, NEW o \in Origin, Install(object, o)
        PROVE  Ids \subseteq Ids' /\ Len(filters) + 1 \in Ids'
    BY <2>2, InstallFacts
  <2>3. CASE eth_newBlockFilter(c)
    <3>1. PICK o \in Origin : Install(NewObject("block"), o) /\ NewObject("block") \in Object
                              /\ UNCHANGED <<chainVars, task>>
      BY <2>3, NewFilterFacts
    <3> QED
      BY <2>1, <2>2, <3>1, TaskTypes
  <2>4. CASE eth_newPendingTransactionFilter(c)
    <3>1. PICK o \in Origin : Install(NewObject("pending"), o) /\ NewObject("pending") \in Object
                              /\ UNCHANGED <<chainVars, task>>
      BY <2>4, NewFilterFacts
    <3> QED
      BY <2>1, <2>2, <3>1, TaskTypes
  <2>5. ASSUME NEW r \in Request, NEW b \in BOOLEAN, eth_newFilter(c, r, b)
        PROVE  Types'
    <3>1. PICK o, t : o \in Origin /\ Install(NewObject("log"), o) /\ NewObject("log") \in Object
                                /\ TaskStep(c, t) /\ (Len(filters) + 1 \in Ids' => t \in Task')
                                /\ UNCHANGED chainVars
      BY <2>5, NewFilterFacts
    <3> QED
      BY <2>1, <2>2, <3>1, TaskTypes
  <2>6. ASSUME NEW id \in Ids, eth_uninstallFilter(c, id)
        PROVE  Types'
    <3>1. SameWalk /\ installed' \subseteq installed
          /\ UNCHANGED <<chainVars, filters, reported, origin, dispatched, task>>
      BY <2>6, TableChangedFacts DEF eth_uninstallFilter
    <3> QED
      BY <3>1 DEF Types, Ids, Task, SameWalk
  <2>7. ASSUME NEW id \in Ids, eth_getFilterChanges(c, id)
        PROVE  Types'
    <3>1. UNCHANGED <<chainVars, installed, reported, origin, walkVars, task>>
          /\ (filters' = filters \/ filters' = [filters EXCEPT ![id] = Polled(@)])
      BY <2>7 DEF eth_getFilterChanges
    <3>2. filters' \in Seq(Object) /\ Len(filters') = Len(filters) /\ Ids' = Ids
      BY <3>1, PollFacts DEF Types, Ids
    <3> QED
      BY <3>1, <3>2 DEF Types, Task, Walking
  <2>8. ASSUME NEW tx \in Tx, ethj_getTransactionReceipt(c, tx)
        PROVE  Types'
    BY <2>8 DEF ethj_getTransactionReceipt, Types, Ids, Task, Walking
  <2> QED
    BY <1>6, <2>3, <2>4, <2>5, <2>6, <2>7, <2>8 DEF StartCall
<1>7. ASSUME NEW c \in Client, Call(c) PROVE Types'
  <2>1. CASE Resolves(c)
    <3>1. CASE \E t : Reads(c, t)
      BY <3>1, TaskTypes DEF Reads, Types, Ids, Walking
    <3>2. ASSUME NEW n \in 0 .. best, NEW m \in Int, m <= best, BeginHistory(c, n, m)
          PROVE  Types'
      BY <2>1, <3>2, ResolveSteps, BeginFacts, TaskTypes DEF Begun, Types, Ids, Walking
    <3> QED
      BY <2>1, <3>1, <3>2, ResolveSteps
  <2>2. CASE AddHistory(c)
    BY <2>2, AddHistoryFacts, TaskTypes DEF Types, Ids, Walking
  <2>3. CASE Arm(c)
    BY <2>3, ArmFacts, TaskTypes DEF Types, Ids, Walking, Built
  <2>4. CASE GetLogsPoll(c)
    BY <2>4, GetLogsPollFacts, TaskTypes DEF Types, Ids, Walking, Built
  <2>5. CASE GetLogsUninstall(c)
    <3>1. SameWalk /\ installed' \subseteq installed /\ TaskStep(c, IdleTask)
          /\ UNCHANGED <<chainVars, filters, reported, origin, dispatched>>
      BY <2>5, TableChangedFacts DEF GetLogsUninstall, TaskStep
    <3> QED
      BY <3>1, IdleType, TaskTypes DEF Types, Ids, SameWalk
  <2> QED
    BY <1>7, <2>1, <2>2, <2>3, <2>4, <2>5 DEF Call, Resolves
<1> QED
  BY <1>0, <1>1, <1>2, <1>3, <1>4, <1>5, <1>6, <1>7 DEF Next, Listener

-----------------------------------------------------------------------------
\* The listener's events.

LEMMA InitIInv == Init => IInv
<1> SUFFICES ASSUME Init PROVE IInv
  OBVIOUS
<1> USE DEF Init
<1>1. Types
  <2>1. filters \in Seq(Object) /\ Len(filters) = 0 /\ reported \in Seq(Seq(Event))
        /\ origin \in Seq(Origin) /\ queue \in Seq(ListenerEvent)
    OBVIOUS
  <2>2. task \in [Client -> Task]
    BY IdleType
  <2> QED
    BY <2>1, <2>2, Bounds DEF Types, Ids, Walking
<1>2. EventsInOrder
  BY DEF EventsInOrder, OnBlock, Walking
<1>3. Histories
  BY DEF Histories, Building, IdleTask
<1>4. Deliveries
  BY DEF Deliveries, Ids
<1> QED
  BY <1>1, <1>2, <1>3, <1>4 DEF IInv

\* The steps between two events of the listener.
Standing == /\ UNCHANGED <<best, queue, dispatched, cut>> /\ (Walking' <=> Walking)
            /\ Walking => walk'.event = walk.event

LEMMA ClientsStanding ==
  ASSUME Types, NEW c \in Client, Call(c) \/ StartCall(c)
  PROVE  Standing /\ SameWalk
<1> USE DEF chainVars, tableVars, walkVars
<1>1. ASSUME UNCHANGED chainVars, UNCHANGED <<dispatched, cut>>, TableChanged \/ UNCHANGED walk
      PROVE  Standing /\ SameWalk
  BY <1>1, TableChangedFacts, WalkKept DEF Standing, SameWalk
<1>2. CASE Call(c)
  BY <1>1, <1>2 DEF Call, ResolveFrom, ResolveTo, ResolveBest, BeginHistory, AddHistory, Arm,
       GetLogsPoll, GetLogsUninstall
<1>3. CASE StartCall(c)
  BY <1>1, <1>3 DEF StartCall, eth_newBlockFilter, eth_newPendingTransactionFilter,
       eth_newFilter, Install, eth_uninstallFilter, eth_getFilterChanges,
       ethj_getTransactionReceipt
<1> QED
  BY <1>2, <1>3

LEMMA NextBlock ==
  ASSUME Types, EventsInOrder, queue # <<>>, IsBlock(Head(queue))
  PROVE  Head(queue).ref = dispatched + 1
<1>1. queue \in Seq(ListenerEvent) /\ Len(queue) \in Nat /\ best \in Nat /\ dispatched \in Nat
  BY DEF Types
<1> DEFINE event == Head(queue)
<1>2. event = queue[1] /\ 1 \in 1 .. Len(queue) /\ IsBlock(event)
  BY <1>1
<1> HIDE DEF event
<1>3. event.ref \in dispatched + 1 .. best
  BY <1>2 DEF EventsInOrder
<1>4. \A i \in 2 .. Len(queue) : IsBlock(queue[i]) => event.ref < queue[i].ref
  BY <1>1, <1>2 DEF EventsInOrder
<1>5. PICK i \in 1 .. Len(queue) : IsBlock(queue[i]) /\ queue[i].ref = dispatched + 1
  BY <1>1, <1>3 DEF EventsInOrder
<1>6. i = 1 \/ i \in 2 .. Len(queue)
  BY <1>1
<1>7. event.ref = dispatched + 1
  BY <1>1, <1>2, <1>3, <1>4, <1>5, <1>6
<1> QED
  BY <1>7 DEF event

LEMMA EventsStep == Types /\ EventsInOrder /\ [Next]_vars => EventsInOrder'
<1> SUFFICES ASSUME Types, EventsInOrder, [Next]_vars PROVE EventsInOrder'
  OBVIOUS
<1> USE DEF chainVars, tableVars, walkVars
<1>q. queue \in Seq(ListenerEvent) /\ Len(queue) \in Nat /\ best \in Nat /\ dispatched \in Nat
      /\ dispatched <= best
  BY DEF Types
<1>s. ASSUME Standing PROVE EventsInOrder'
  BY <1>s DEF Standing, EventsInOrder, OnBlock
<1>0. CASE UNCHANGED vars
  BY <1>0, <1>s DEF vars, Standing, Walking
<1>1. CASE ImportBlock
  <2>1. best' = best + 1 /\ queue' = Append(queue, BlockArrived(best + 1))
        /\ UNCHANGED <<walk, dispatched, cut>>
    BY <1>1 DEF ImportBlock
  <2> DEFINE e == BlockArrived(best + 1)
  <2>2. IsBlock(e) /\ e.ref = best + 1
    BY DEF IsBlock, BlockArrived
  <2> HIDE DEF e
  <2>3. /\ Len(queue') = Len(queue) + 1 /\ queue'[Len(queue) + 1] = e
        /\ \A i \in 1 .. Len(queue) : queue'[i] = queue[i]
    BY <1>q, <2>1 DEF e
  <2>4. \A i \in 1 .. Len(queue') : IsBlock(queue'[i]) => queue'[i].ref \in dispatched + 1 .. best'
    BY <1>q, <2>1, <2>2, <2>3 DEF EventsInOrder
  <2>5. \A i, j \in 1 .. Len(queue') :
          i < j /\ IsBlock(queue'[i]) /\ IsBlock(queue'[j]) => queue'[i].ref < queue'[j].ref
    <3> SUFFICES ASSUME NEW i \in 1 .. Len(queue'), NEW j \in 1 .. Len(queue'), i < j,
                        IsBlock(queue'[i]), IsBlock(queue'[j])
                 PROVE  queue'[i].ref < queue'[j].ref
      OBVIOUS
    <3>1. i \in 1 .. Len(queue) /\ queue'[i] = queue[i]
      BY <1>q, <2>3
    <3>2. queue[i].ref \in dispatched + 1 .. best
      BY <3>1 DEF EventsInOrder
    <3>3. CASE j \in 1 .. Len(queue)
      BY <2>3, <3>1, <3>3 DEF EventsInOrder
    <3>4. CASE j \notin 1 .. Len(queue)
      <4>1. j = Len(queue) + 1
        BY <1>q, <2>3, <3>4
      <4>2. queue'[j].ref = best + 1
        BY <4>1, <2>2, <2>3
      <4>3. queue'[i].ref = queue[i].ref
        BY <3>1
      <4> QED
        BY <4>2, <4>3, <3>2, <1>q
    <3> QED
      BY <3>3, <3>4
  <2>6. \A n \in dispatched + 1 .. best' :
          \E i \in 1 .. Len(queue') : IsBlock(queue'[i]) /\ queue'[i].ref = n
    <3> SUFFICES ASSUME NEW n \in dispatched + 1 .. best'
                 PROVE  \E i \in 1 .. Len(queue') : IsBlock(queue'[i]) /\ queue'[i].ref = n
      OBVIOUS
    <3>1. CASE n = best + 1
      BY <1>q, <2>2, <2>3, <3>1
    <3>2. CASE n # best + 1
      <4>1. n \in dispatched + 1 .. best
        BY <1>q, <2>1, <3>2
      <4>2. PICK i \in 1 .. Len(queue) : IsBlock(queue[i]) /\ queue[i].ref = n
        BY <4>1 DEF EventsInOrder
      <4> QED
        BY <1>q, <2>3, <4>2
    <3> QED
      BY <3>1, <3>2
  <2>7. (OnBlock' <=> OnBlock) /\ walk' = walk
    BY <2>1 DEF OnBlock, Walking
  <2> QED
    BY <2>1, <2>4, <2>5, <2>6, <2>7 DEF EventsInOrder
<1>2. ASSUME NEW tx \in Tx, RaisePending(tx) PROVE EventsInOrder'
  <2>1. /\ UNCHANGED <<best, walk, dispatched, cut>>
        /\ \E x \in {PendingReceived(tx)} \union {PendingUpdate(tx, st) : st \in UpdateState} :
             queue' = Append(queue, x)
    BY <1>2 DEF RaisePending
  <2>2. PICK e : queue' = Append(queue, e) /\ ~IsBlock(e)
    BY <2>1 DEF IsBlock, PendingReceived, PendingUpdate
  <2>3. /\ Len(queue') = Len(queue) + 1 /\ queue'[Len(queue) + 1] = e
        /\ \A i \in 1 .. Len(queue) : queue'[i] = queue[i]
    BY <1>q, <2>2
  <2>4. \A i \in 1 .. Len(queue') : IsBlock(queue'[i]) => i \in 1 .. Len(queue) /\ queue'[i] = queue[i]
    BY <1>q, <2>2, <2>3
  <2>5. \A i \in 1 .. Len(queue) : i \in 1 .. Len(queue') /\ queue'[i] = queue[i]
    BY <1>q, <2>3
  <2>6. (OnBlock' <=> OnBlock) /\ walk' = walk
    BY <2>1 DEF OnBlock, Walking
  <2> QED
    BY <2>1, <2>4, <2>5, <2>6 DEF EventsInOrder
<1>3. CASE BeginWalk
  <2> DEFINE event == Head(queue)
  <2>1. /\ queue # <<>> /\ queue' = Tail(queue) /\ ~Walking /\ UNCHANGED <<best, cut>>
        /\ dispatched' = IF IsBlock(event) THEN event.ref ELSE dispatched
        /\ walk'.event = event
    BY <1>3 DEF BeginWalk, IsBlock
  <2>2. event = queue[1] /\ 1 \in 1 .. Len(queue) /\ Len(queue') = Len(queue) - 1
        /\ \A i \in 1 .. Len(queue') : queue'[i] = queue[i + 1] /\ i + 1 \in 1 .. Len(queue)
    BY <1>q, <2>1, HeadTailProperties
  <2>5. \A i, j \in 1 .. Len(queue') :
          i < j /\ IsBlock(queue'[i]) /\ IsBlock(queue'[j]) => queue'[i].ref < queue'[j].ref
    <3> SUFFICES ASSUME NEW i \in 1 .. Len(queue'), NEW j \in 1 .. Len(queue'), i < j,
                        IsBlock(queue'[i]), IsBlock(queue'[j])
                 PROVE  queue'[i].ref < queue'[j].ref
      OBVIOUS
    <3>1. /\ queue'[i] = queue[i + 1] /\ i + 1 \in 1 .. Len(queue)
          /\ queue'[j] = queue[j + 1] /\ j + 1 \in 1 .. Len(queue)
      BY <2>2
    <3>2. i + 1 < j + 1
      BY <1>q, <2>2
    <3> QED
      BY <3>1, <3>2 DEF EventsInOrder
  <2>6. \A id, n \in Nat : <<id, n>> \in cut' => n <= dispatched
    BY <2>1 DEF EventsInOrder
  <2> HIDE DEF event
  <2>3. CASE IsBlock(event)
    <3>3. event.ref = dispatched + 1
      BY <2>1, <2>3, NextBlock DEF event
    <3>4. dispatched' = dispatched + 1
      BY <2>1, <2>3, <3>3
    <3>5. \A i \in 1 .. Len(queue') : IsBlock(queue'[i]) => queue'[i].ref \in dispatched' + 1 .. best
      <4> SUFFICES ASSUME NEW i \in 1 .. Len(queue'), IsBlock(queue'[i])
                   PROVE  queue'[i].ref \in dispatched' + 1 .. best
        OBVIOUS
      <4>1. queue'[i] = queue[i + 1] /\ i + 1 \in 2 .. Len(queue)
        BY <1>q, <2>2
      <4>2. queue[i + 1].ref \in dispatched + 1 .. best /\ event.ref < queue[i + 1].ref
        BY <1>q, <2>2, <2>3, <4>1 DEF EventsInOrder
      <4> QED
        BY <1>q, <3>3, <3>4, <4>1, <4>2
    <3>6. \A n \in dispatched' + 1 .. best :
            \E i \in 1 .. Len(queue') : IsBlock(queue'[i]) /\ queue'[i].ref = n
      <4> SUFFICES ASSUME NEW n \in dispatched' + 1 .. best
                   PROVE  \E i \in 1 .. Len(queue') : IsBlock(queue'[i]) /\ queue'[i].ref = n
        OBVIOUS
      <4>1. n \in dispatched + 1 .. best /\ n # event.ref
        BY <1>q, <3>3, <3>4
      <4>2. PICK i \in 1 .. Len(queue) : IsBlock(queue[i]) /\ queue[i].ref = n
        BY <4>1 DEF EventsInOrder
      <4>3. i # 1
        BY <2>2, <4>1, <4>2
      <4>4. i - 1 \in 1 .. Len(queue') /\ queue'[i - 1] = queue[i]
        BY <1>q, <2>2, <4>3
      <4> QED
        BY <4>2, <4>4
    <3>8. \A id, n \in Nat : <<id, n>> \in cut' => n <= dispatched' /\ n < dispatched'
      BY <1>q, <2>6, <3>4
    <3>9. walk'.event.ref = dispatched'
      BY <2>1, <2>3
    <3> QED
      BY <2>1, <2>5, <3>5, <3>6, <3>8, <3>9 DEF EventsInOrder
  <2>4. CASE ~IsBlock(event)
    <3>1. dispatched' = dispatched /\ ~OnBlock'
      BY <2>1, <2>4 DEF OnBlock
    <3>2. \A n \in dispatched + 1 .. best :
            \E i \in 1 .. Len(queue') : IsBlock(queue'[i]) /\ queue'[i].ref = n
      <4> SUFFICES ASSUME NEW n \in dispatched + 1 .. best
                   PROVE  \E i \in 1 .. Len(queue') : IsBlock(queue'[i]) /\ queue'[i].ref = n
        OBVIOUS
      <4>2. PICK i \in 1 .. Len(queue) : IsBlock(queue[i]) /\ queue[i].ref = n
        BY DEF EventsInOrder
      <4>3. i # 1
        BY <2>2, <2>4, <4>2
      <4>4. i - 1 \in 1 .. Len(queue') /\ queue'[i - 1] = queue[i]
        BY <1>q, <2>2, <4>3
      <4> QED
        BY <4>2, <4>4
    <3>4. \A i \in 1 .. Len(queue') : IsBlock(queue'[i]) => queue'[i].ref \in dispatched + 1 .. best
      BY <2>2 DEF EventsInOrder
    <3> QED
      BY <2>1, <2>5, <2>6, <3>1, <3>2, <3>4 DEF EventsInOrder
  <2> QED
    BY <2>3, <2>4
<1>4. ASSUME NEW id \in Ids, Visit(id) PROVE EventsInOrder'
  BY <1>4, <1>s, VisitFacts DEF Standing
<1>5. CASE EndWalk
  <2>1. /\ UNCHANGED <<best, queue, dispatched>> /\ ~OnBlock'
        /\ cut' = IF OnBlock THEN cut \union {<<id, walk.event.ref>> : id \in walk.todo} ELSE cut
    BY <1>5 DEF EndWalk, OnBlock, Walking, IsBlock
  <2>2. \A id, n \in Nat : <<id, n>> \in cut' => n <= dispatched
    <3> SUFFICES ASSUME NEW id \in Nat, NEW n \in Nat, <<id, n>> \in cut' PROVE n <= dispatched
      OBVIOUS
    <3>1. CASE <<id, n>> \in cut
      BY <3>1 DEF EventsInOrder
    <3>2. CASE <<id, n>> \notin cut
      BY <1>q, <2>1, <3>2 DEF EventsInOrder
    <3> QED
      BY <3>1, <3>2
  <2> QED
    BY <2>1, <2>2 DEF EventsInOrder
<1>6. ASSUME NEW c \in Client, Call(c) \/ StartCall(c) PROVE EventsInOrder'
  BY <1>6, <1>s, ClientsStanding
<1> QED
  BY <1>0, <1>1, <1>2, <1>3, <1>4, <1>5, <1>6 DEF Next, Listener

-----------------------------------------------------------------------------
\* The filters being built.

LEMMA TaskFacts ==
  ASSUME Types, NEW c \in Client, NEW t, TaskStep(c, t)
  PROVE  task'[c] = t /\ \A d \in Client \ {c} : task'[d] = task[d]
  BY DEF Types, TaskStep

LEMMA AllUntouched ==
  ASSUME Types, UNCHANGED <<filters, reported, origin>>
  PROVE  Ids' = Ids /\ \A id \in Ids : Untouched(id)
  BY DEF Untouched, Alike, Ids

\* A thread goes on as before, ends its call, or is past the history, unless
\* its own filter still reports just the history.
LEMMA HistoriesKept ==
  ASSUME Types, Histories, Ids \subseteq Ids', best' \in Nat, best <= best',
         \A d \in Client :
           \/ task'[d] = task[d] /\ (Building(d) => Untouched(task[d].id))
           \/ task'[d].at = "idle"
           \/ /\ task[d].at # "idle" /\ task'[d].id = task[d].id
              /\ Building(d)' => Building(d) /\ History(d)'
  PROVE  Histories'
<1>1. ASSUME NEW d \in Client, Building(d)' PROVE History(d)' /\ Building(d)
                                                  /\ task'[d].id = task[d].id
  <2>1. CASE task'[d] = task[d] /\ (Building(d) => Untouched(task[d].id))
    <3>1. Building(d) /\ History(d) /\ Untouched(task[d].id)
      BY <1>1, <2>1 DEF Histories, Building
    <3>2. task[d].id \in Ids /\ origin[task[d].id].last \in Int /\ best \in Nat
      BY <3>1, ElementTypes DEF History, Origin, Types
    <3>3. History(d)'
      BY <2>1, <3>1, <3>2 DEF History, Untouched, Alike, Occurrences
    <3> QED
      BY <2>1, <3>1, <3>3
  <2>2. CASE task'[d].at = "idle"
    BY <1>1, <2>2 DEF Building
  <2>3. CASE /\ task[d].at # "idle" /\ task'[d].id = task[d].id
             /\ Building(d)' => Building(d) /\ History(d)'
    BY <1>1, <2>3
  <2> QED
    BY <2>1, <2>2, <2>3
<1>2. \A d \in Client : task'[d].at # "idle" => task'[d].id \in Ids'
  BY DEF Histories
<1>3. \A c, d \in Client : Building(c)' /\ Building(d)' /\ task'[c].id = task'[d].id => c = d
  BY <1>1 DEF Histories
<1> QED
  BY <1>1, <1>2, <1>3 DEF Histories

\* Nothing the listener brings is for a filter that is being built.
LEMMA BuildingTakesNothing ==
  ASSUME Types, Histories, NEW d \in Client, Building(d), NEW event
  PROVE  task[d].id \in Ids /\ ~Takes(filters[task[d].id], event)
  BY DEF Histories, History, Takes

\* Nothing is reported before the range is known.
LEMMA ReadsHistory ==
  ASSUME Types, Histories, NEW c \in Client, Resolves(c), NEW t, Reads(c, t)
  PROVE  History(c)' /\ task'[c].id = task[c].id
<1>1. task[c].id \in Ids /\ Building(c) /\ task[c].at # "history"
  BY ResolveSteps
<1>2. task'[c] = t /\ t.id = task[c].id /\ t.at # "history"
      /\ UNCHANGED <<best, filters, reported, origin>>
  BY TaskFacts DEF Reads, chainVars, tableVars
<1>3. History(c)
  BY <1>1 DEF Histories
<1>4. /\ task'[c].at = "resolveTo" => task'[c].next \in -1 .. best'
      /\ task'[c].at = "resolveBest" => task'[c].next \in 0 .. best'
  BY <1>2 DEF Reads
<1> QED
  BY <1>1, <1>2, <1>3, <1>4 DEF History, Ids

LEMMA BeginHistories ==
  ASSUME Types, Histories, NEW c \in Client, Resolves(c),
         NEW n \in 0 .. best, NEW m \in Int, m <= best, BeginHistory(c, n, m)
  PROVE  History(c)' /\ task'[c].id = task[c].id
<1> DEFINE id == task[c].id
<1>1. /\ id \in Ids /\ task[c].at # "history" /\ Building(c)
      /\ origin'[id] = [origin[id] EXCEPT !.first = n, !.last = m]
      /\ TaskStep(c, [task[c] EXCEPT !.at = "history", !.next = n])
      /\ UNCHANGED <<best, filters, reported>>
  <2>1. id \in Ids /\ task[c].at # "history" /\ Building(c)
    BY ResolveSteps
  <2>2. Begun(c, n, m)
    BY <2>1, BeginFacts
  <2> QED
    BY <2>1, <2>2 DEF Begun, chainVars
<1>2. task[c] \in Task /\ origin[id] \in Origin /\ best \in Nat
  BY <1>1, ElementTypes DEF Types
<1>3. /\ task'[c].at = "history" /\ task'[c].id = id /\ task'[c].next = n
  <2>1. task'[c] = [task[c] EXCEPT !.at = "history", !.next = n]
    BY <1>1, TaskFacts
  <2>2. n \in Nat
    BY <1>2
  <2> DEFINE moved == [task[c] EXCEPT !.at = "history", !.next = n]
  <2>3. moved.at = "history" /\ moved.next = n /\ moved.id = task[c].id
    BY <1>2, <2>2, TaskMoved
  <2> HIDE DEF moved
  <2> QED
    BY <2>1, <2>3 DEF moved
<1>4. /\ origin'[id].first = n /\ origin'[id].last = m
      /\ origin'[id].armedAt = origin[id].armedAt /\ origin'[id].request = origin[id].request
  BY <1>1, <1>2 DEF Origin
<1>5. History(c)
  BY <1>1 DEF Histories
<1>6. \A k \in Nat : TimesIn(reported'[id], BlockEvent(k)) = 0
  BY <1>1, <1>5, TimesNone DEF History
<1>7. id \in Ids'
  BY <1>1 DEF Ids
<1>8. \A k \in Nat : TimesIn(reported'[id], BlockEvent(k)) =
        IF k \in origin'[id].first .. task'[c].next - 1 THEN 1 ELSE 0
  BY <1>1, <1>2, <1>3, <1>4, <1>6
<1>9. /\ origin'[id].last <= best' /\ origin'[id].first <= task'[c].next
      /\ task'[c].next > origin'[id].last =>
           task'[c].next = IF origin'[id].last < origin'[id].first THEN origin'[id].first
                           ELSE origin'[id].last + 1
  BY <1>1, <1>2, <1>3, <1>4
<1> QED
  BY <1>1, <1>3, <1>4, <1>5, <1>7, <1>8, <1>9 DEF History, Occurrences

LEMMA AddedHistory ==
  ASSUME Types, Histories, NEW c \in Client, AddHistory(c)
  PROVE  History(c)' /\ task'[c].id = task[c].id
<1> DEFINE id    == task[c].id
           k     == task[c].next
           event == BlockEvent(k)
           o     == origin[id]
<1>1. /\ id \in Ids /\ task[c].at = "history" /\ Building(c) /\ Ids' = Ids
      /\ k \in Nat /\ k <= o.last /\ event \in Event
      /\ Alike(filters'[id], filters[id]) /\ origin'[id] = o
      /\ reported'[id] = Append(reported[id], event)
      /\ TaskStep(c, [task[c] EXCEPT !.next = @ + 1])
      /\ best' = best
  BY AddHistoryFacts DEF chainVars
<1>2. task[c] \in Task /\ o \in Origin /\ best \in Nat /\ reported[id] \in Seq(Event)
  BY <1>1, ElementTypes DEF Types
<1>3. /\ task'[c].at = "history" /\ task'[c].id = id /\ task'[c].next = k + 1
  <2>1. task'[c] = [task[c] EXCEPT !.next = @ + 1]
    BY <1>1, TaskFacts
  <2> QED
    BY <1>1, <1>2, <2>1, TaskAdvanced
<1>4. History(c)
  BY <1>1 DEF Histories
<1>5. o.first \in Nat /\ o.last \in Int /\ o.first <= k
  BY <1>1, <1>2, <1>4 DEF Origin, History
<1>6. ASSUME NEW n \in Nat
      PROVE  TimesIn(reported'[id], BlockEvent(n)) = IF n \in o.first .. k THEN 1 ELSE 0
  <2>1. TimesIn(reported[id], BlockEvent(n)) = IF n \in o.first .. k - 1 THEN 1 ELSE 0
    BY <1>1, <1>4 DEF History, Occurrences
  <2>2. event = BlockEvent(n) <=> n = k
    BY DEF BlockEvent
  <2> HIDE DEF event
  <2>3. TimesIn(reported'[id], BlockEvent(n)) =
          TimesIn(reported[id], BlockEvent(n)) + (IF event = BlockEvent(n) THEN 1 ELSE 0)
    BY <1>1, <1>2, TimesAppend
  <2> QED
    BY <1>1, <1>5, <2>1, <2>2, <2>3
<1>7. /\ id \in Ids' /\ filters'[id].kind = "log" /\ ~filters'[id].onNewBlock
      /\ ~filters'[id].onPendingTx /\ o.armedAt = -1 /\ o.request \in Request /\ o.last <= best
  BY <1>1, <1>4 DEF History, Alike
<1>8. k + 1 > o.last => k + 1 = (IF o.last < o.first THEN o.first ELSE o.last + 1)
  BY <1>1, <1>5
<1>9. k + 1 - 1 = k /\ o.first <= k + 1
  BY <1>1, <1>5
<1> HIDE DEF k, event
<1>10. \A n \in Nat : TimesIn(reported'[id], BlockEvent(n)) =
         IF n \in origin'[id].first .. task'[c].next - 1 THEN 1 ELSE 0
  BY <1>1, <1>3, <1>6, <1>9
<1> QED
  BY <1>1, <1>3, <1>7, <1>8, <1>9, <1>10 DEF History, Occurrences

LEMMA HistoriesStep == Types /\ Histories /\ [Next]_vars => Histories'
<1> SUFFICES ASSUME Types, Histories, [Next]_vars PROVE Histories'
  OBVIOUS
<1> USE DEF chainVars, tableVars, walkVars
<1>b. best \in Nat
  BY DEF Types
<1>h. \A d \in Client : Building(d) => task[d].id \in Ids
  BY DEF Histories, History
<1>n. \A c, d \in Client : Building(c) /\ Building(d) /\ c # d => task[c].id # task[d].id
  BY DEF Histories
\* The steps of the node and of the listener.
<1>s. ASSUME Ids \subseteq Ids', best' \in Nat, best <= best', task' = task,
             \A d \in Client : Building(d) => Untouched(task[d].id)
      PROVE  Histories'
  BY <1>s, HistoriesKept
\* A thread's step that leaves all filters as they are, or those of the others.
<1>t. ASSUME NEW c \in Client, NEW t,
             task[c].at # "idle", Ids' = Ids, best' = best, TaskStep(c, t),
             \A id \in Ids \ {task[c].id} : Untouched(id),
             \A d \in Client \ {c} : Building(d) /\ ~Building(c) => Untouched(task[d].id),
             \/ Built(t, task[c].id)
             \/ t.id = task[c].id /\ Building(c) /\ History(c)'
      PROVE  Histories'
  <2>1. task'[c] = t /\ \A d \in Client \ {c} : task'[d] = task[d]
    BY <1>t, TaskFacts
  <2>2. ASSUME NEW d \in Client \ {c}, Building(d) PROVE Untouched(task[d].id)
    BY <1>t, <1>h, <1>n, <2>2
  <2>3. Building(c)' => t.at # "idle" /\ ~Built(t, task[c].id)
    BY <2>1 DEF Building, Built
  <2>4. t.at = "idle" \/ (t.id = task[c].id /\ (Building(c)' => Building(c) /\ History(c)'))
    BY <1>t, <2>3 DEF Built
  <2>5. \A d \in Client :
          \/ task'[d] = task[d] /\ (Building(d) => Untouched(task[d].id))
          \/ task'[d].at = "idle"
          \/ /\ task[d].at # "idle" /\ task'[d].id = task[d].id
             /\ Building(d)' => Building(d) /\ History(d)'
    BY <1>t, <2>1, <2>2, <2>4
  <2> QED
    BY <1>b, <1>t, <2>5, HistoriesKept
<1>0. CASE UNCHANGED vars
  BY <1>0, <1>b, <1>h, <1>s, AllUntouched DEF vars
<1>1. CASE ImportBlock
  BY <1>1, <1>b, <1>h, <1>s, AllUntouched DEF ImportBlock
<1>2. ASSUME NEW tx \in Tx, RaisePending(tx) PROVE Histories'
  BY <1>2, <1>b, <1>h, <1>s, AllUntouched DEF RaisePending
<1>3. CASE BeginWalk
  BY <1>3, <1>b, <1>h, <1>s, AllUntouched DEF BeginWalk
<1>4. ASSUME NEW id \in Ids, Visit(id) PROVE Histories'
  <2>1. /\ Ids' = Ids /\ \A other \in Ids \ {id} : Untouched(other)
        /\ Alike(filters'[id], filters[id]) /\ origin'[id] = origin[id]
        /\ ~Takes(filters[id], walk.event) => reported'[id] = reported[id]
        /\ best' = best /\ task' = task
    BY <1>4, VisitFacts
  <2>2. ASSUME NEW d \in Client, Building(d) PROVE Untouched(task[d].id)
    <3>1. task[d].id \in Ids /\ ~Takes(filters[task[d].id], walk.event)
      BY <2>2, BuildingTakesNothing
    <3> QED
      BY <2>1, <3>1 DEF Untouched
  <2> QED
    BY <1>b, <1>s, <2>1, <2>2
<1>5. CASE EndWalk
  BY <1>5, <1>b, <1>h, <1>s, AllUntouched DEF EndWalk
<1>6. ASSUME NEW c \in Client, StartCall(c) PROVE Histories'
  <2>1. CASE eth_newBlockFilter(c) \/ eth_newPendingTransactionFilter(c)
    <3>1. \E object \in Object, o \in Origin :
            Install(object, o) /\ UNCHANGED <<chainVars, task>>
      BY <2>1, NewFilterFacts
    <3>2. Ids \subseteq Ids' /\ \A id \in Ids : Untouched(id)
      BY <3>1, InstallFacts
    <3> QED
      BY <1>b, <1>h, <1>s, <3>1, <3>2
  <2>2. ASSUME NEW r \in Request, NEW b \in BOOLEAN, eth_newFilter(c, r, b)
        PROVE  Histories'
    <3> DEFINE n == Len(filters) + 1
    <3>1. PICK o, t :
            /\ o \in Origin
            /\ Install(NewObject("log"), o) /\ NewObject("log") \in Object
            /\ o.request = r /\ o.armedAt = -1
            /\ TaskStep(c, t) /\ t.at = "resolveFrom" /\ t.id = n
            /\ UNCHANGED chainVars
      BY <2>2, NewFilterFacts
    <3>2. /\ Ids' = Ids \union {n} /\ n \notin Ids /\ \A id \in Ids : Untouched(id)
          /\ filters'[n] = NewObject("log") /\ origin'[n] = o /\ reported'[n] = <<>>
      BY <3>1, InstallFacts
    <3> HIDE DEF n
    <3>3. task'[c] = t /\ \A d \in Client \ {c} : task'[d] = task[d]
      BY <3>1, TaskFacts
    <3>4. NewObject("log").kind = "log" /\ ~NewObject("log").onNewBlock
          /\ ~NewObject("log").onPendingTx
      BY DEF NewObject
    <3>5. History(c)'
      BY <3>1, <3>2, <3>3, <3>4 DEF History
    <3>6. ASSUME NEW d \in Client \ {c}, Building(d)'
          PROVE  History(d)' /\ Building(d) /\ task'[d].id = task[d].id /\ task[d].id \in Ids
      <4>1. Building(d) /\ History(d) /\ task[d].id \in Ids /\ Untouched(task[d].id)
        BY <1>h, <3>2, <3>3, <3>6 DEF Building, Histories
      <4>2. best' = best /\ task'[d] = task[d]
        BY <3>1, <3>3
      <4>3. History(d)'
        BY <3>2, <4>1, <4>2 DEF History, Untouched, Alike, Occurrences
      <4> QED
        BY <4>1, <4>2, <4>3
    <3>7. \A d \in Client : task'[d].at # "idle" => task'[d].id \in Ids'
      BY <3>1, <3>2, <3>3 DEF Histories
    <3>8. \A d, e \in Client : Building(d)' /\ Building(e)' /\ task'[d].id = task'[e].id => d = e
      BY <1>n, <3>1, <3>2, <3>3, <3>6
    <3>9. \A d \in Client : Building(d)' => History(d)'
      BY <3>5, <3>6
    <3> QED
      BY <3>7, <3>8, <3>9 DEF Histories
  <2>3. ASSUME NEW id \in Ids, eth_uninstallFilter(c, id)
        PROVE  Histories'
    BY <2>3, <1>b, <1>h, <1>s, AllUntouched DEF eth_uninstallFilter
  <2>4. ASSUME NEW id \in Ids, eth_getFilterChanges(c, id)
        PROVE  Histories'
    <3>1. UNCHANGED <<chainVars, reported, origin, task>>
          /\ (filters' = filters \/ filters' = [filters EXCEPT ![id] = Polled(@)])
      BY <2>4 DEF eth_getFilterChanges
    <3>2. Ids' = Ids /\ \A other \in Ids : Untouched(other)
      BY <3>1, PollFacts, AllUntouched
    <3> QED
      BY <1>b, <1>h, <1>s, <3>1, <3>2
  <2>5. ASSUME NEW tx \in Tx, ethj_getTransactionReceipt(c, tx)
        PROVE  Histories'
    BY <2>5, <1>b, <1>h, <1>s, AllUntouched DEF ethj_getTransactionReceipt
  <2> QED
    BY <1>6, <2>1, <2>2, <2>3, <2>4, <2>5 DEF StartCall
<1>7. ASSUME NEW c \in Client, Call(c) PROVE Histories'
  <2>1. CASE Resolves(c)
    <3>1. task[c].id \in Ids /\ Building(c) /\ task[c].at # "idle"
      <4>1. task[c].id \in Ids /\ Building(c)
        BY <2>1, ResolveSteps
      <4> QED
        BY <4>1 DEF Building
    <3>2. ASSUME NEW t, Reads(c, t) PROVE Histories'
      <4>1. TaskStep(c, t) /\ t.id = task[c].id /\ best' = best
            /\ UNCHANGED <<filters, reported, origin>>
        BY <3>2 DEF Reads
      <4>2. Ids' = Ids /\ \A id \in Ids : Untouched(id)
        BY <4>1, AllUntouched
      <4>3. History(c)' /\ task'[c].id = task[c].id
        BY <2>1, <3>2, ReadsHistory
      <4> QED
        BY <1>h, <1>t, <3>1, <4>1, <4>2, <4>3
    <3>3. ASSUME NEW n \in 0 .. best, NEW m \in Int, m <= best, BeginHistory(c, n, m)
          PROVE  Histories'
      <4>1. /\ TaskStep(c, [task[c] EXCEPT !.at = "history", !.next = n])
            /\ best' = best /\ UNCHANGED <<filters, reported>>
            /\ \A id \in Ids \ {task[c].id} : origin'[id] = origin[id]
        BY <3>1, <3>3, BeginFacts DEF Begun
      <4>2. Ids' = Ids /\ \A id \in Ids \ {task[c].id} : Untouched(id)
        BY <4>1 DEF Ids, Untouched, Alike
      <4>3. History(c)' /\ task'[c].id = task[c].id
        BY <2>1, <3>3, BeginHistories
      <4>4. \E t : TaskStep(c, t) /\ t.id = task[c].id
        BY <4>1, <4>3, TaskFacts
      <4> QED
        BY <1>h, <1>t, <3>1, <4>1, <4>2, <4>3, <4>4
    <3> QED
      BY <2>1, <3>2, <3>3, ResolveSteps
  <2>2. CASE AddHistory(c)
    <3>1. /\ Building(c) /\ task[c].at = "history" /\ Ids' = Ids
          /\ TaskStep(c, [task[c] EXCEPT !.next = @ + 1]) /\ best' = best
          /\ \A id \in Ids \ {task[c].id} : Untouched(id)
      BY <2>2, AddHistoryFacts
    <3>2. History(c)' /\ task'[c].id = task[c].id
      BY <2>2, AddedHistory
    <3>3. \E t : TaskStep(c, t) /\ t.id = task[c].id
      BY <3>1, <3>2, TaskFacts
    <3> QED
      BY <1>h, <1>t, <3>1, <3>2, <3>3
  <2>3. CASE Arm(c)
    <3>1. /\ Building(c) /\ task[c].at = "history" /\ Ids' = Ids /\ best' = best
          /\ \A id \in Ids \ {task[c].id} : Untouched(id)
          /\ \E t : TaskStep(c, t) /\ Built(t, task[c].id)
      BY <2>3, ArmFacts
    <3> QED
      BY <1>h, <1>t, <3>1
  <2>4. CASE GetLogsPoll(c)
    <3>1. /\ Ids' = Ids /\ best' = best /\ \A id \in Ids : Untouched(id)
          /\ \E t : TaskStep(c, t) /\ Built(t, task[c].id)
      BY <2>4, GetLogsPollFacts
    <3>2. task[c].at = "poll"
      BY <2>4 DEF GetLogsPoll
    <3> QED
      BY <1>h, <1>t, <3>1, <3>2
  <2>5. CASE GetLogsUninstall(c)
    <3>1. /\ TaskStep(c, IdleTask) /\ UNCHANGED <<chainVars, filters, reported, origin>>
          /\ task[c].at = "uninstall"
      BY <2>5 DEF GetLogsUninstall, TaskStep
    <3>2. Ids' = Ids /\ \A id \in Ids : Untouched(id)
      BY <3>1, AllUntouched
    <3>3. Built(IdleTask, task[c].id)
      BY IdleType DEF Built, IdleTask
    <3> QED
      BY <1>h, <1>t, <3>1, <3>2, <3>3
  <2> QED
    BY <1>7, <2>1, <2>2, <2>3, <2>4, <2>5 DEF Call, Resolves
<1> QED
  BY <1>0, <1>1, <1>2, <1>3, <1>4, <1>5, <1>6, <1>7 DEF Next, Listener

-----------------------------------------------------------------------------
\* The filters that take blocks.

LEMMA BlockWalk ==
  ASSUME NEW event \in ListenerEvent, NEW n
  PROVE  event = BlockArrived(n) <=> IsBlock(event) /\ event.ref = n
<1>1. CASE IsBlock(event)
  BY <1>1 DEF ListenerEvent, BlockArrived, IsBlock
<1>2. CASE ~IsBlock(event)
  BY <1>2 DEF BlockArrived, IsBlock
<1> QED
  BY <1>1, <1>2

\* The listener has brought a filter the blocks up to the one at hand, which
\* counts once the filter was visited.
LEMMA HandledMeans ==
  ASSUME Types, EventsInOrder, NEW id \in Ids, NEW n \in Nat
  PROVE  Handled(id, n) <=> n <= dispatched /\ ~(Ahead(id) /\ n = dispatched)
<1>1. Walking => walk.event \in ListenerEvent
  BY DEF Types, Walk, Walking
<1>2. Walking => (walk.event = BlockArrived(n) <=> IsBlock(walk.event) /\ walk.event.ref = n)
  BY <1>1, BlockWalk
<1>3. OnBlock => walk.event.ref = dispatched
  BY DEF EventsInOrder
<1> QED
  BY <1>2, <1>3 DEF Handled, Ahead, OnBlock

LEMMA HandledMeansNext ==
  ASSUME Types', EventsInOrder', NEW id \in Ids', NEW n \in Nat
  PROVE  Handled(id, n)' <=> n <= dispatched' /\ ~(Ahead(id)' /\ n = dispatched')
<1>1. Walking' => walk'.event \in ListenerEvent
  BY DEF Types, Walk, Walking
<1>2. Walking' => (walk'.event = BlockArrived(n) <=> IsBlock(walk'.event) /\ walk'.event.ref = n)
  BY <1>1, BlockWalk
<1>3. OnBlock' => walk'.event.ref = dispatched'
  BY DEF EventsInOrder
<1> QED
  BY <1>2, <1>3 DEF Handled, Ahead, OnBlock

\* A step that neither touches a filter nor brings it a block.
LEMMA DeliveryKept ==
  ASSUME Types, NEW id \in Ids, Arming(id), Delivered(id), Untouched(id),
         installed' \cap {id} \subseteq installed, dispatched' = dispatched,
         Ahead(id)' => Ahead(id),
         \A n \in Nat : News(id, n)' <=> News(id, n)
  PROVE  Arming(id)' /\ Delivered(id)'
<1>1. TakesBlocks(id)' => TakesBlocks(id)
  BY DEF TakesBlocks, Untouched, Alike
<1>2. Arming(id)'
  BY <1>1 DEF Arming, Untouched, Alike
<1>3. Delivered(id)'
  BY <1>1 DEF Delivered, Untouched, Occurrences
<1> QED
  BY <1>2, <1>3

\* The steps between two events of the listener, for the filters they leave alone.
LEMMA StandingDelivery ==
  ASSUME Types, Deliveries, Standing, SameWalk, NEW id \in Ids, Untouched(id),
         installed' \cap {id} \subseteq installed
  PROVE  Arming(id)' /\ Delivered(id)'
<1>1. dispatched' = dispatched /\ cut' = cut /\ (Ahead(id)' <=> Ahead(id))
      /\ \A n \in Nat : Handled(id, n)' <=> Handled(id, n)
  BY DEF Standing, SameWalk, Ahead, OnBlock, Handled
<1>2. \A n \in Nat : News(id, n)' <=> News(id, n)
  BY <1>1 DEF News, Untouched
<1> QED
  BY <1>1, <1>2, DeliveryKept DEF Deliveries

\* A filter that does not take blocks yet.
LEMMA NoDelivery ==
  ASSUME NEW id, ~TakesBlocks(id)', (filters'[id].onNewBlock => filters'[id].kind = "log")
  PROVE  Arming(id)' /\ Delivered(id)'
  BY DEF Arming, Delivered

LEMMA VisitDelivery ==
  ASSUME Types, EventsInOrder, Deliveries, Types', EventsInOrder',
         NEW id \in Ids, Visit(id)
  PROVE  Arming(id)' /\ Delivered(id)'
<1> DEFINE event == walk.event
           e     == Report(event)
<1>1. /\ Ids' = Ids /\ Alike(filters'[id], filters[id]) /\ origin'[id] = origin[id]
      /\ Walking /\ Walking' /\ walk'.event = event /\ id \in walk.todo /\ id \notin walk'.todo
      /\ reported'[id] = IF Takes(filters[id], event) THEN Append(reported[id], e) ELSE reported[id]
      /\ e \in Event /\ UNCHANGED <<installed, dispatched, cut>>
  BY VisitFacts
<1>2. /\ reported[id] \in Seq(Event) /\ dispatched \in Nat /\ origin[id].armedAt \in Int
      /\ id \in Nat
  <2>1. reported[id] \in Seq(Event) /\ origin[id] \in Origin /\ id \in 1 .. Len(filters)
        /\ Len(filters) \in Nat
    BY ElementTypes
  <2>2. dispatched \in Nat
    BY Bounds DEF Types
  <2>3. origin[id].armedAt \in Int
    BY <2>1 DEF Origin
  <2> QED
    BY <2>1, <2>2, <2>3
<1>3. ~Ahead(id)' /\ (Ahead(id) <=> IsBlock(event))
  BY <1>1 DEF Ahead, OnBlock
<1>4. TakesBlocks(id)' => TakesBlocks(id)
  BY <1>1 DEF TakesBlocks, Alike
<1>5. Arming(id) /\ Delivered(id)
  BY DEF Deliveries
<1>6. Arming(id)'
  BY <1>1, <1>3, <1>4, <1>5 DEF Arming, Alike
<1>7. ASSUME TakesBlocks(id)', NEW n \in Nat
      PROVE  Occurrences(id, BlockEvent(n))' =
               (IF n \in origin'[id].first .. origin'[id].last THEN 1 ELSE 0) +
               (IF News(id, n)' THEN 1 ELSE 0)
  <2>1. /\ Handled(id, n) <=> n <= dispatched /\ ~(IsBlock(event) /\ n = dispatched)
        /\ Handled(id, n)' <=> n <= dispatched
    BY <1>1, <1>3, HandledMeans, HandledMeansNext
  <2>2. Occurrences(id, BlockEvent(n)) =
          (IF n \in origin[id].first .. origin[id].last THEN 1 ELSE 0) +
          (IF News(id, n) THEN 1 ELSE 0)
    BY <1>4, <1>5, <1>7 DEF Delivered
  <2>3. /\ TimesIn(reported[id], BlockEvent(n)) \in Nat
        /\ TimesIn(Append(reported[id], e), BlockEvent(n)) =
             TimesIn(reported[id], BlockEvent(n)) + (IF e = BlockEvent(n) THEN 1 ELSE 0)
    BY <1>1, <1>2, TimesAppend
  <2>4. CASE IsBlock(event)
    <3>1. Takes(filters[id], event)
      BY <1>4, <1>5, <1>7, <2>4 DEF Takes, IsBlock, TakesBlocks, Arming
    <3>2. event.ref = dispatched
      BY <1>1, <2>4 DEF EventsInOrder, OnBlock
    <3>3. e = BlockEvent(n) <=> n = dispatched
      BY <2>4, <3>2 DEF Report, BlockEvent, IsBlock
    <3>4. origin[id].armedAt < dispatched
      BY <1>3, <1>4, <1>5, <1>7, <2>4 DEF Arming
    <3>5. <<id, dispatched>> \notin cut
      BY <1>1, <1>2, <2>4 DEF EventsInOrder, OnBlock
    <3>6. News(id, n)' <=> News(id, n) \/ n = dispatched
      BY <1>1, <1>2, <2>1, <2>4, <3>4, <3>5 DEF News
    <3>7. n = dispatched => ~News(id, n)
      BY <2>1, <2>4 DEF News
    <3>8. Occurrences(id, BlockEvent(n))' =
            Occurrences(id, BlockEvent(n)) + (IF n = dispatched THEN 1 ELSE 0)
      BY <1>1, <2>3, <3>1, <3>3 DEF Occurrences
    <3> QED
      BY <1>1, <2>2, <3>6, <3>7, <3>8
  <2>5. CASE ~IsBlock(event)
    <3>1. e # BlockEvent(n)
      BY <2>5 DEF Report, BlockEvent, PendingEvent, IsBlock
    <3>2. Occurrences(id, BlockEvent(n))' = Occurrences(id, BlockEvent(n))
      BY <1>1, <2>3, <3>1 DEF Occurrences
    <3>3. News(id, n)' <=> News(id, n)
      BY <1>1, <2>1, <2>5 DEF News
    <3> QED
      BY <1>1, <2>2, <3>2, <3>3
  <2> QED
    BY <2>4, <2>5
<1>8. Delivered(id)'
  BY <1>7 DEF Delivered
<1> QED
  BY <1>6, <1>8

\* A block whose turn has come is nobody's news before the table is walked.
LEMMA BeginWalkDelivery ==
  ASSUME Types, EventsInOrder, Deliveries, Types', EventsInOrder',
         NEW id \in Ids, BeginWalk
  PROVE  Arming(id)' /\ Delivered(id)'
<1> DEFINE event == Head(queue)
<1>1. /\ ~Walking /\ queue # <<>> /\ walk'.event = event
      /\ dispatched' = IF IsBlock(event) THEN event.ref ELSE dispatched
      /\ IsBlock(event) => walk'.todo = installed
      /\ UNCHANGED <<filters, installed, reported, origin, cut>>
  BY DEF BeginWalk, tableVars, IsBlock
<1>2. Walking'
  <2>1. \E S : walk' = [event |-> event, fresh |-> TRUE, todo |-> S]
    BY DEF BeginWalk
  <2>2. event \in ListenerEvent
    BY <1>1, HeadTailProperties DEF Types
  <2>3. walk' # None
    <3> SUFFICES ASSUME walk' = None PROVE FALSE
      OBVIOUS
    <3>1. walk' = [event |-> event, fresh |-> TRUE,
                   todo |-> IF event.type = "onPendingTransactionUpdate" /\ event.state = "INCLUDED"
                            THEN {} ELSE installed]
      BY DEF BeginWalk
    <3>2. installed \subseteq 1 .. FilterBound
      BY ElementTypes DEF Types
    <3>3. walk' \in Walk
      BY <2>2, <3>1, <3>2 DEF Walk
    <3> QED
      BY <3>3, RegistryAssumption
  <2> QED
    BY <2>3 DEF Walking
<1>3. IsBlock(event) => dispatched' = dispatched + 1
  BY <1>1, NextBlock
<1>4. Ids' = Ids /\ Untouched(id) /\ dispatched \in Nat
  BY <1>1, AllUntouched DEF Types
<1> HIDE DEF event
<1>5. ~Ahead(id) /\ (Ahead(id)' <=> IsBlock(event) /\ id \in installed)
  BY <1>1, <1>2 DEF Ahead, OnBlock
<1>6. ASSUME id \in installed, NEW n \in Nat
      PROVE  News(id, n)' <=> News(id, n)
  <2>1. Handled(id, n) <=> n <= dispatched
    BY <1>5, HandledMeans
  <2>2. Handled(id, n)' <=> n <= dispatched' /\ ~(IsBlock(event) /\ n = dispatched')
    BY <1>4, <1>5, <1>6, HandledMeansNext
  <2>3. Handled(id, n)' <=> Handled(id, n)
    BY <1>1, <1>3, <1>4, <2>1, <2>2
  <2> QED
    BY <1>1, <2>3 DEF News
<1>7. TakesBlocks(id)' => TakesBlocks(id) /\ id \in installed
  BY <1>1 DEF TakesBlocks
<1>8. Arming(id) /\ Delivered(id)
  BY DEF Deliveries
<1>9. origin[id].armedAt \in Int
  BY ElementTypes DEF Origin
<1>10. Arming(id)'
  BY <1>1, <1>3, <1>4, <1>5, <1>7, <1>8, <1>9 DEF Arming
<1>11. Delivered(id)'
  BY <1>1, <1>6, <1>7, <1>8 DEF Delivered, Occurrences
<1> QED
  BY <1>10, <1>11

\* The filters that an interrupted walk has not reached miss that one block.
LEMMA EndWalkDelivery ==
  ASSUME Types, EventsInOrder, Deliveries, Types', EventsInOrder',
         NEW id \in Ids, EndWalk
  PROVE  Arming(id)' /\ Delivered(id)'
<1>1. /\ ~Walking'
      /\ UNCHANGED <<filters, installed, reported, origin, dispatched>>
      /\ cut' = IF OnBlock THEN cut \union {<<i, walk.event.ref>> : i \in walk.todo} ELSE cut
  BY DEF EndWalk, tableVars, OnBlock, Walking, IsBlock
<1>2. Ids' = Ids /\ Untouched(id) /\ dispatched \in Nat /\ id \in Nat
  BY <1>1, AllUntouched DEF Types, Ids
<1>3. ~Ahead(id)'
  BY <1>1 DEF Ahead, OnBlock
<1>4. OnBlock => walk.event.ref = dispatched
  BY DEF EventsInOrder
<1>5. ASSUME NEW n \in Nat
      PROVE  News(id, n)' <=> News(id, n)
  <2>1. Handled(id, n) <=> n <= dispatched /\ ~(Ahead(id) /\ n = dispatched)
    BY HandledMeans
  <2>2. Handled(id, n)' <=> n <= dispatched
    BY <1>1, <1>2, <1>3, HandledMeansNext
  <2>3. <<id, n>> \in cut' <=> <<id, n>> \in cut \/ (Ahead(id) /\ n = dispatched)
    BY <1>1, <1>4 DEF Ahead
  <2> QED
    BY <1>1, <2>1, <2>2, <2>3 DEF News
<1>6. Arming(id) /\ Delivered(id)
  BY DEF Deliveries
<1> QED
  BY <1>1, <1>2, <1>3, <1>5, <1>6, DeliveryKept

\* A filter whose history is in is armed for what the listener brings next.
LEMMA ArmDelivery ==
  ASSUME Types, EventsInOrder, Histories, Types', EventsInOrder',
         NEW c \in Client, Arm(c), NEW id \in Ids, id = task[c].id
  PROVE  Arming(id)' /\ Delivered(id)'
<1> DEFINE k == task[c].next
<1>1. /\ id \in Ids /\ task[c].at = "history" /\ Building(c) /\ Ids' = Ids
      /\ k \in Nat /\ k > origin[id].last
      /\ filters'[id].kind = filters[id].kind
      /\ origin'[id].first = origin[id].first /\ origin'[id].last = origin[id].last
      /\ origin'[id].armedAt = HandledBefore(id)
      /\ UNCHANGED <<installed, reported, walk, dispatched, cut>>
  BY ArmFacts DEF walkVars
<1>2. History(c)
  BY <1>1 DEF Histories
<1>3. filters'[id].kind = "log"
  BY <1>1, <1>2 DEF History
<1>4. origin[id].first \in Nat /\ origin[id].last \in Int /\ dispatched \in Nat
  <2>1. origin[id] \in Origin
    BY ElementTypes
  <2>2. dispatched \in Nat
    BY Bounds DEF Types
  <2> QED
    BY <2>1, <2>2 DEF Origin
<1>5. HandledBefore(id) = IF Ahead(id) THEN dispatched - 1 ELSE dispatched
  BY DEF HandledBefore, Ahead, OnBlock, IsBlock
<1>6. Ahead(id)' <=> Ahead(id)
  BY <1>1 DEF Ahead, OnBlock, Walking
<1>7. Arming(id)'
  BY <1>1, <1>3, <1>4, <1>5, <1>6 DEF Arming
<1>8. ASSUME NEW n \in Nat
      PROVE  Occurrences(id, BlockEvent(n))' =
               (IF n \in origin'[id].first .. origin'[id].last THEN 1 ELSE 0) +
               (IF News(id, n)' THEN 1 ELSE 0)
  <2>1. Occurrences(id, BlockEvent(n)) = IF n \in origin[id].first .. k - 1 THEN 1 ELSE 0
    BY <1>1, <1>2 DEF History
  <2>2. k = (IF origin[id].last < origin[id].first THEN origin[id].first ELSE origin[id].last + 1)
    BY <1>1, <1>2 DEF History
  <2>3. n \in origin[id].first .. k - 1 <=> n \in origin[id].first .. origin[id].last
    BY <1>1, <1>4, <2>2
  <2>4. Handled(id, n)' <=> n <= dispatched /\ ~(Ahead(id) /\ n = dispatched)
    BY <1>1, <1>6, HandledMeansNext
  <2>5. ~News(id, n)'
    BY <1>1, <1>4, <1>5, <2>4 DEF News
  <2>6. Occurrences(id, BlockEvent(n))' = Occurrences(id, BlockEvent(n))
    BY <1>1 DEF Occurrences
  <2> HIDE DEF k
  <2> QED
    BY <1>1, <2>1, <2>3, <2>5, <2>6
<1>9. Delivered(id)'
  BY <1>8 DEF Delivered
<1> QED
  BY <1>7, <1>9

\* A new filter: a block filter is armed at once, a log filter not yet.
LEMMA InstallDelivery ==
  ASSUME Types, EventsInOrder, Types', EventsInOrder',
         NEW object \in Object, NEW o \in Origin, Install(object, o),
         ~object.onNewBlock,
         \/ o.first = 0 /\ o.last = -1 /\ o.armedAt = dispatched
         \/ object.kind # "block",
         NEW id, id = Len(filters) + 1
  PROVE  Arming(id)' /\ Delivered(id)'
<1>1. /\ Ids' = Ids \union {id} /\ id \notin Ids /\ SameWalk
      /\ filters'[id] = object /\ origin'[id] = o /\ reported'[id] = <<>>
      /\ UNCHANGED <<dispatched, cut>>
  BY InstallFacts
<1>2. dispatched \in Nat
  BY DEF Types
<1>3. ~Ahead(id)'
  BY <1>1 DEF Ahead, OnBlock, SameWalk, Types
<1>4. CASE object.kind # "block"
  <2>1. ~TakesBlocks(id)'
    BY <1>1, <1>4 DEF TakesBlocks
  <2> QED
    BY <1>1, <2>1, NoDelivery
<1>5. CASE o.first = 0 /\ o.last = -1 /\ o.armedAt = dispatched
  <2>1. Arming(id)'
    BY <1>1, <1>2, <1>3, <1>5 DEF Arming
  <2>2. ASSUME NEW n \in Nat
        PROVE  Occurrences(id, BlockEvent(n))' = 0 /\ ~News(id, n)' /\ n \notin o.first .. o.last
    <3>1. Occurrences(id, BlockEvent(n))' = 0
      BY <1>1, TimesNone DEF Occurrences
    <3>2. Handled(id, n)' => n <= dispatched
      BY <1>1 DEF Handled
    <3>3. ~News(id, n)'
      BY <1>1, <1>2, <1>5, <3>2 DEF News
    <3> QED
      BY <1>5, <3>1, <3>3
  <2>3. Delivered(id)'
    BY <1>1, <2>2 DEF Delivered
  <2> QED
    BY <2>1, <2>3
<1> QED
  BY <1>4, <1>5

LEMMA DeliveriesStep ==
  IInv /\ Types' /\ EventsInOrder' /\ [Next]_vars => Deliveries'
<1> SUFFICES ASSUME IInv, Types', EventsInOrder', [Next]_vars PROVE Deliveries'
  OBVIOUS
<1> USE DEF chainVars, tableVars, walkVars
<1>i. Types /\ EventsInOrder /\ Histories /\ Deliveries
  BY DEF IInv
\* The steps that no filter takes part in.
<1>s. ASSUME Standing, SameWalk, Ids' = Ids, \A id \in Ids : Untouched(id),
             installed' \subseteq installed
      PROVE  Deliveries'
  BY <1>i, <1>s, StandingDelivery DEF Deliveries
<1>k. ASSUME UNCHANGED walk, UNCHANGED <<dispatched, cut, tableVars>>
      PROVE  Deliveries'
  BY <1>i, <1>k DEF Deliveries, Arming, Delivered, News, TakesBlocks, Ahead, OnBlock, Walking,
       Handled, Occurrences, Ids
<1>0. CASE UNCHANGED vars
  BY <1>0, <1>k DEF vars
<1>1. CASE ImportBlock
  BY <1>1, <1>k DEF ImportBlock
<1>2. ASSUME NEW tx \in Tx, RaisePending(tx) PROVE Deliveries'
  BY <1>2, <1>k DEF RaisePending
<1>3. CASE BeginWalk
  <2>1. Ids' = Ids
    BY <1>3, <1>i, AllUntouched DEF BeginWalk
  <2> QED
    BY <1>3, <1>i, <2>1, BeginWalkDelivery DEF Deliveries
<1>4. ASSUME NEW id \in Ids, Visit(id) PROVE Deliveries'
  <2>1. /\ Ids' = Ids /\ \A other \in Ids \ {id} : Untouched(other)
        /\ Walking /\ Walking' /\ walk'.event = walk.event /\ walk'.todo = walk.todo \ {id}
        /\ UNCHANGED <<installed, dispatched, cut>>
    BY <1>4, <1>i, VisitFacts
  <2>2. ASSUME NEW other \in Ids \ {id} PROVE Arming(other)' /\ Delivered(other)'
    <3>1. Untouched(other) /\ (other \in walk'.todo <=> other \in walk.todo)
      BY <2>1
    <3>2. \A n \in Nat : News(other, n)' <=> News(other, n)
      BY <2>1, <3>1 DEF News, Handled, Untouched
    <3>3. Ahead(other)' => Ahead(other)
      BY <2>1, <3>1 DEF Ahead, OnBlock
    <3> QED
      BY <1>i, <2>1, <3>1, <3>2, <3>3, DeliveryKept DEF Deliveries
  <2> QED
    BY <1>4, <1>i, <2>1, <2>2, VisitDelivery DEF Deliveries
<1>5. CASE EndWalk
  <2>1. Ids' = Ids
    BY <1>5, <1>i, AllUntouched DEF EndWalk
  <2> QED
    BY <1>5, <1>i, <2>1, EndWalkDelivery DEF Deliveries
<1>6. ASSUME NEW c \in Client, StartCall(c) PROVE Deliveries'
  <2>0. Standing /\ SameWalk
    BY <1>6, <1>i, ClientsStanding
  <2>1. ASSUME NEW object \in Object, NEW o \in Origin, Install(object, o),
               ~object.onNewBlock,
               \/ o.first = 0 /\ o.last = -1 /\ o.armedAt = dispatched
               \/ object.kind # "block"
        PROVE  Deliveries'
    <3> DEFINE n == Len(filters) + 1
    <3>1. /\ Ids' = Ids \union {n} /\ n \notin Ids /\ \A id \in Ids : Untouched(id)
          /\ installed' = installed \union {n}
      BY <1>i, <2>1, InstallFacts
    <3>2. ASSUME NEW id, id = n PROVE Arming(id)' /\ Delivered(id)'
      BY <1>i, <2>1, <3>2, InstallDelivery
    <3> HIDE DEF n
    <3>3. ASSUME NEW id \in Ids PROVE Arming(id)' /\ Delivered(id)'
      BY <1>i, <2>0, <3>1, StandingDelivery
    <3>4. \A id \in Ids' : Arming(id)' /\ Delivered(id)'
      BY <3>1, <3>2, <3>3
    <3> QED
      BY <3>4 DEF Deliveries
  <2>2. /\ ~NewObject("block").onNewBlock /\ ~NewObject("pending").onNewBlock
        /\ ~NewObject("log").onNewBlock
        /\ NewObject("pending").kind # "block" /\ NewObject("log").kind # "block"
    BY DEF NewObject
  <2>3. CASE eth_newBlockFilter(c)
    BY <1>i, <2>1, <2>2, <2>3, NewFilterFacts
  <2>4. CASE eth_newPendingTransactionFilter(c)
    BY <1>i, <2>1, <2>2, <2>4, NewFilterFacts
  <2>5. ASSUME NEW r \in Request, NEW b \in BOOLEAN, eth_newFilter(c, r, b)
        PROVE  Deliveries'
    BY <1>i, <2>1, <2>2, <2>5, NewFilterFacts
  <2>6. ASSUME NEW id \in Ids, eth_uninstallFilter(c, id)
        PROVE  Deliveries'
    <3>1. UNCHANGED <<filters, reported, origin>> /\ installed' \subseteq installed
      BY <2>6 DEF eth_uninstallFilter
    <3> QED
      BY <1>i, <1>s, <2>0, <3>1, AllUntouched
  <2>7. ASSUME NEW id \in Ids, eth_getFilterChanges(c, id)
        PROVE  Deliveries'
    <3>1. UNCHANGED <<installed, reported, origin>>
          /\ (filters' = filters \/ filters' = [filters EXCEPT ![id] = Polled(@)])
      BY <2>7 DEF eth_getFilterChanges
    <3>2. Ids' = Ids /\ \A other \in Ids : Untouched(other)
      BY <1>i, <3>1, PollFacts, AllUntouched
    <3> QED
      BY <1>s, <2>0, <3>1, <3>2
  <2>8. ASSUME NEW tx \in Tx, ethj_getTransactionReceipt(c, tx)
        PROVE  Deliveries'
    <3>1. UNCHANGED tableVars
      BY <2>8 DEF ethj_getTransactionReceipt
    <3> QED
      BY <1>i, <1>s, <2>0, <3>1, AllUntouched
  <2> QED
    BY <1>6, <2>3, <2>4, <2>5, <2>6, <2>7, <2>8 DEF StartCall
<1>7. ASSUME NEW c \in Client, Call(c) PROVE Deliveries'
  <2>0. Standing /\ SameWalk
    BY <1>7, <1>i, ClientsStanding
  \* A filter that is being built takes no blocks, now or after the step.
  <2>1. ASSUME Building(c), Ids' = Ids, installed' = installed,
               Alike(filters'[task[c].id], filters[task[c].id]),
               origin'[task[c].id].armedAt = origin[task[c].id].armedAt,
               \A id \in Ids \ {task[c].id} : Untouched(id)
        PROVE  Deliveries'
    <3>1. PICK id \in Ids : id = task[c].id
      BY <1>i, <2>1 DEF Histories, History
    <3>2. ~TakesBlocks(id)' /\ ~filters'[id].onNewBlock
      BY <1>i, <2>1, <3>1 DEF Histories, History, TakesBlocks, Alike
    <3>3. Arming(id)' /\ Delivered(id)'
      BY <3>2, NoDelivery
    <3> QED
      BY <1>i, <2>0, <2>1, <3>1, <3>3, StandingDelivery DEF Deliveries
  <2>2. CASE Resolves(c)
    <3>1. task[c].id \in Ids /\ Building(c)
      BY <1>i, <2>2, ResolveSteps
    <3>2. ASSUME NEW t, Reads(c, t) PROVE Deliveries'
      <4>1. UNCHANGED tableVars
        BY <3>2 DEF Reads
      <4>2. Ids' = Ids /\ \A id \in Ids : Untouched(id)
        BY <1>i, <4>1, AllUntouched
      <4> QED
        BY <1>s, <2>0, <4>1, <4>2
    <3>3. ASSUME NEW n \in 0 .. best, NEW m \in Int, m <= best, BeginHistory(c, n, m)
          PROVE  Deliveries'
      <4> DEFINE id == task[c].id
      <4>1. /\ UNCHANGED <<filters, installed, reported>>
            /\ origin'[id] = [origin[id] EXCEPT !.first = n, !.last = m]
            /\ \A other \in Ids \ {id} : origin'[other] = origin[other]
        BY <1>i, <3>1, <3>3, BeginFacts DEF Begun
      <4>2. origin[id] \in Origin
        BY <1>i, <3>1, ElementTypes
      <4>3. origin'[id].armedAt = origin[id].armedAt
        BY <4>1, <4>2 DEF Origin
      <4>4. Ids' = Ids /\ Alike(filters'[id], filters[id])
            /\ \A other \in Ids \ {id} : Untouched(other)
        BY <4>1 DEF Ids, Alike, Untouched
      <4> QED
        BY <2>1, <3>1, <4>1, <4>3, <4>4
    <3> QED
      BY <1>i, <2>2, <3>2, <3>3, ResolveSteps
  <2>3. CASE AddHistory(c)
    BY <1>i, <2>1, <2>3, AddHistoryFacts
  <2>4. CASE Arm(c)
    <3>1. /\ task[c].id \in Ids /\ Ids' = Ids /\ installed' = installed
          /\ \A id \in Ids \ {task[c].id} : Untouched(id)
      BY <1>i, <2>4, ArmFacts
    <3>2. ASSUME NEW id \in Ids, id = task[c].id PROVE Arming(id)' /\ Delivered(id)'
      BY <1>i, <2>4, <3>2, ArmDelivery
    <3>3. ASSUME NEW id \in Ids, id # task[c].id PROVE Arming(id)' /\ Delivered(id)'
      BY <1>i, <2>0, <3>1, <3>3, StandingDelivery
    <3> QED
      BY <3>1, <3>2, <3>3 DEF Deliveries
  <2>5. CASE GetLogsPoll(c)
    BY <1>i, <1>s, <2>0, <2>5, GetLogsPollFacts
  <2>6. CASE GetLogsUninstall(c)
    <3>1. UNCHANGED <<filters, reported, origin>> /\ installed' \subseteq installed
      BY <2>6 DEF GetLogsUninstall
    <3> QED
      BY <1>i, <1>s, <2>0, <3>1, AllUntouched
  <2> QED
    BY <1>7, <2>2, <2>3, <2>4, <2>5, <2>6 DEF Call, Resolves
<1> QED
  BY <1>0, <1>1, <1>2, <1>3, <1>4, <1>5, <1>6, <1>7 DEF Next, Listener

-----------------------------------------------------------------------------
LEMMA DeliveredExactly == IInv => ExactDelivery
<1> SUFFICES ASSUME IInv, NEW id \in Ids, TakesBlocks(id), NEW n \in 1 .. best, Handled(id, n)
             PROVE  Occurrences(id, BlockEvent(n)) =
                      (IF n \in origin[id].first .. origin[id].last THEN 1 ELSE 0) +
                      (IF n > origin[id].armedAt /\ <<id, n>> \notin cut THEN 1 ELSE 0)
  BY DEF ExactDelivery
<1>1. n \in Nat
  BY DEF IInv, Types
<1>2. News(id, n) <=> n > origin[id].armedAt /\ <<id, n>> \notin cut
  BY DEF News
<1> QED
  BY <1>1, <1>2 DEF IInv, Deliveries, Delivered

\* The inductive invariant holds in every reachable state.
THEOREM IInvAlways == Spec => []IInv
<1>1. Init => IInv
  BY InitIInv
<1>2. IInv /\ [Next]_vars => IInv'
  BY TypesStep, EventsStep, HistoriesStep, DeliveriesStep DEF IInv
<1> QED
  BY <1>1, <1>2, PTL DEF Spec

\* Whatever the clients, the requests and the limits, a filter that takes new
\* blocks has reported each one once for the history and once for the listener,
\* but for the blocks of a walk that a change of the table cut short: what the
\* flags of eth_newFilter, set last, and the iteration of onBlock achieve.
THEOREM FilterDelivery == Spec => []ExactDelivery
  BY IInvAlways, DeliveredExactly, PTL

-----------------------------------------------------------------------------
\* The pending receipts.

ReceiptTypes ==
  /\ receipts \in Seq(Tx) /\ Len(receipts) <= ReceiptLimit
  /\ lastUpdate \in [Tx -> UpdateState \union {None}]

\* ReceiptsTracked in inductive form; only finitely many transactions were ever
\* updated.
Receipts ==
  ReceiptTypes /\ ReceiptsArePending /\ RecentReceiptsKept /\ IsFiniteSet(Updated)

LEMMA InjectiveTail ==
  ASSUME NEW S, NEW s \in Seq(S), s # <<>>, IsInjective(s)
  PROVE  /\ Tail(s) \in Seq(S) /\ Len(Tail(s)) = Len(s) - 1 /\ IsInjective(Tail(s))
         /\ \A y : Contains(Tail(s), y) => Contains(s, y)
<1>1. /\ Len(s) \in Nat /\ DOMAIN s = 1 .. Len(s)
      /\ Tail(s) \in Seq(S) /\ Len(Tail(s)) = Len(s) - 1
      /\ \A i \in 1 .. Len(s) - 1 : Tail(s)[i] = s[i + 1]
  BY HeadTailProperties
<1>2. DOMAIN Tail(s) = 1 .. Len(s) - 1 /\ \A i \in 1 .. Len(s) - 1 : i + 1 \in 1 .. Len(s)
  BY <1>1
<1>3. IsInjective(Tail(s))
  BY <1>1, <1>2 DEF IsInjective
<1>4. \A y : Contains(Tail(s), y) => Contains(s, y)
  BY <1>1, <1>2 DEF Contains
<1> QED
  BY <1>1, <1>3, <1>4

\* LRUMap.remove takes out its key and nothing else.
LEMMA WithoutFacts ==
  ASSUME NEW S, NEW s \in Seq(S), IsInjective(s), NEW x
  PROVE  /\ Without(s, x) \in Seq(S) /\ IsInjective(Without(s, x))
         /\ Len(Without(s, x)) = IF Contains(s, x) THEN Len(s) - 1 ELSE Len(s)
         /\ \A y : Contains(Without(s, x), y) <=> Contains(s, y) /\ y # x
<1> DEFINE w == Without(s, x)
<1>1. Len(s) \in Nat /\ DOMAIN s = 1 .. Len(s) /\ \A i \in 1 .. Len(s) : s[i] \in S
  OBVIOUS
<1>2. CASE ~Contains(s, x)
  <2>1. w = s
    BY <1>2 DEF Without
  <2>2. \A y : Contains(s, y) => y # x
    BY <1>2
  <2> QED
    BY <1>2, <2>1, <2>2
<1>3. CASE Contains(s, x)
  <2> DEFINE i == CHOOSE j \in 1 .. Len(s) : s[j] = x
             l == SubSeq(s, 1, i - 1)
             r == SubSeq(s, i + 1, Len(s))
  <2>1. i \in 1 .. Len(s) /\ s[i] = x
    BY <1>3 DEF Contains
  <2>2. w = l \o r
    BY <1>3 DEF Without, RemoveAt
  <2> HIDE DEF i, w
  <2>3. l \in Seq(S) /\ Len(l) = i - 1 /\ \A j \in 1 .. i - 1 : l[j] = s[j]
    BY <1>1, <2>1, SubSeqProperties
  <2>4. /\ r \in Seq(S) /\ Len(r) = Len(s) - i
        /\ \A j \in 1 .. Len(s) - i : r[j] = s[i + j]
    <3>1. i + 1 \in Int /\ Len(s) \in Int /\ \A j \in i + 1 .. Len(s) : s[j] \in S
      BY <1>1, <2>1
    <3>2. /\ r \in Seq(S)
          /\ Len(r) = IF i + 1 <= Len(s) THEN Len(s) - (i + 1) + 1 ELSE 0
          /\ \A j \in 1 .. Len(s) - (i + 1) + 1 : r[j] = s[i + 1 + j - 1]
      BY <3>1, SubSeqProperties
    <3> HIDE DEF r
    <3>3. \A j \in 1 .. Len(s) - i : j \in 1 .. Len(s) - (i + 1) + 1 /\ i + 1 + j - 1 = i + j
      BY <1>1, <2>1
    <3>4. \A j \in 1 .. Len(s) - i : r[j] = s[i + j]
      BY <3>2, <3>3
    <3>5. Len(r) = Len(s) - i
      <4>1. (IF i + 1 <= Len(s) THEN Len(s) - (i + 1) + 1 ELSE 0) = Len(s) - i
        <5>1. ASSUME NEW m \in Nat, NEW n \in Nat, m <= n
              PROVE  (IF m + 1 <= n THEN n - (m + 1) + 1 ELSE 0) = n - m
          BY <5>1
        <5>2. i \in Nat /\ i <= Len(s)
          BY <1>1, <2>1
        <5> QED
          BY <1>1, <5>1, <5>2
      <4> QED
        BY <3>2, <4>1
    <3> QED
      BY <3>2, <3>4, <3>5
  <2> HIDE DEF l, r
  <2>5. /\ w \in Seq(S) /\ Len(w) = Len(s) - 1
        /\ \A j \in 1 .. Len(s) - 1 : w[j] = IF j < i THEN s[j] ELSE s[j + 1]
    <3>1. /\ w \in Seq(S) /\ Len(w) = Len(l) + Len(r)
          /\ \A j \in 1 .. Len(l) + Len(r) :
               w[j] = IF j <= Len(l) THEN l[j] ELSE r[j - Len(l)]
      BY <2>2, <2>3, <2>4, ConcatProperties
    <3>2. Len(l) + Len(r) = Len(s) - 1
      BY <1>1, <2>1, <2>3, <2>4
    <3>3. ASSUME NEW j \in 1 .. Len(s) - 1
          PROVE  w[j] = IF j < i THEN s[j] ELSE s[j + 1]
      <4>1. CASE j < i
        <5>1. j \in 1 .. i - 1 /\ j <= Len(l)
          BY <2>1, <2>3, <4>1
        <5> QED
          BY <2>3, <3>1, <3>2, <4>1, <5>1
      <4>2. CASE ~(j < i)
        <5>1. ~(j <= Len(l)) /\ j - Len(l) \in 1 .. Len(s) - i /\ i + (j - Len(l)) = j + 1
          BY <1>1, <2>1, <2>3, <4>2
        <5> QED
          BY <2>4, <3>1, <3>2, <4>2, <5>1
      <4> QED
        BY <4>1, <4>2
    <3> QED
      BY <3>1, <3>2, <3>3
  <2>6. DOMAIN w = 1 .. Len(s) - 1
    BY <1>1, <2>5
  <2>7. IsInjective(w)
    <3> SUFFICES ASSUME NEW j \in 1 .. Len(s) - 1, NEW k \in 1 .. Len(s) - 1, w[j] = w[k]
                 PROVE  j = k
      BY <2>6 DEF IsInjective
    <3> DEFINE there(n) == IF n < i THEN n ELSE n + 1
    <3>1. /\ there(j) \in 1 .. Len(s) /\ there(k) \in 1 .. Len(s)
          /\ w[j] = s[there(j)] /\ w[k] = s[there(k)]
      BY <1>1, <2>1, <2>5
    <3>2. there(j) = there(k)
      BY <1>1, <3>1 DEF IsInjective
    <3> QED
      BY <1>1, <2>1, <3>2
  <2>8. ASSUME NEW y, Contains(w, y) PROVE Contains(s, y) /\ y # x
    <3>1. PICK j \in 1 .. Len(s) - 1 : w[j] = y
      BY <2>5, <2>8 DEF Contains
    <3>2. PICK k \in 1 .. Len(s) : k # i /\ s[k] = y
      BY <1>1, <2>1, <2>5, <3>1
    <3> QED
      BY <1>1, <2>1, <3>2 DEF Contains, IsInjective
  <2>9. ASSUME NEW y, Contains(s, y), y # x PROVE Contains(w, y)
    <3>1. PICK k \in 1 .. Len(s) : s[k] = y
      BY <2>9 DEF Contains
    <3>2. \E j \in 1 .. Len(s) - 1 : w[j] = y
      <4>1. CASE k < i
        <5>1. k \in 1 .. Len(s) - 1 /\ w[k] = y
          BY <1>1, <2>1, <2>5, <3>1, <4>1
        <5> QED
          BY <5>1
      <4>2. CASE ~(k < i)
        <5>1. k - 1 \in 1 .. Len(s) - 1 /\ ~(k - 1 < i) /\ (k - 1) + 1 = k
          BY <1>1, <2>1, <2>9, <3>1, <4>2
        <5>2. w[k - 1] = y
          BY <2>5, <3>1, <5>1
        <5> QED
          BY <5>1, <5>2
      <4> QED
        BY <4>1, <4>2
    <3> QED
      BY <2>5, <3>2 DEF Contains
  <2> QED
    BY <1>3, <2>5, <2>7, <2>8, <2>9 DEF w
<1> QED
  BY <1>2, <1>3

LEMMA TouchFacts ==
  ASSUME NEW S, NEW s \in Seq(S), IsInjective(s), NEW x \in S
  PROVE  /\ Touch(s, x) \in Seq(S) /\ IsInjective(Touch(s, x)) /\ Touch(s, x) # <<>>
         /\ Len(Touch(s, x)) = IF Contains(s, x) THEN Len(s) ELSE Len(s) + 1
         /\ \A y : Contains(Touch(s, x), y) <=> Contains(s, y) \/ y = x
<1> DEFINE w == Without(s, x)
           t == Append(w, x)
<1>1. /\ w \in Seq(S) /\ IsInjective(w)
      /\ Len(w) = IF Contains(s, x) THEN Len(s) - 1 ELSE Len(s)
      /\ \A y : Contains(w, y) <=> Contains(s, y) /\ y # x
  BY WithoutFacts
<1>2. Touch(s, x) = t
  BY DEF Touch
<1> HIDE DEF w
<1>3. /\ t \in Seq(S) /\ t # <<>> /\ Len(t) = Len(w) + 1 /\ DOMAIN t = 1 .. Len(w) + 1
      /\ Len(w) \in Nat /\ DOMAIN w = 1 .. Len(w) /\ t[Len(w) + 1] = x
      /\ \A i \in 1 .. Len(w) : t[i] = w[i]
  <2>1. Len(w) \in Nat /\ DOMAIN w = 1 .. Len(w)
    BY <1>1
  <2>2. /\ t \in Seq(S) /\ t # <<>> /\ Len(t) = Len(w) + 1
        /\ \A i \in 1 .. Len(w) : t[i] = w[i]
        /\ t[Len(w) + 1] = x
    BY <1>1, AppendProperties
  <2> HIDE DEF t
  <2>3. DOMAIN t = 1 .. Len(w) + 1
    BY <2>2
  <2> QED
    BY <2>1, <2>2, <2>3
<1> HIDE DEF t
<1>4. \A y : Contains(t, y) <=> Contains(w, y) \/ y = x
  BY <1>3 DEF Contains
<1>5. IsInjective(t)
  <2> SUFFICES ASSUME NEW i \in 1 .. Len(w) + 1, NEW j \in 1 .. Len(w) + 1, t[i] = t[j]
               PROVE  i = j
    BY <1>3 DEF IsInjective
  <2>1. \A k \in 1 .. Len(w) : w[k] # x
    BY <1>1 DEF Contains
  <2>2. \A k \in 1 .. Len(w) + 1 : k \in 1 .. Len(w) \/ k = Len(w) + 1
    BY <1>3
  <2>3. CASE i \in 1 .. Len(w) /\ j \in 1 .. Len(w)
    BY <1>1, <1>3, <2>3 DEF IsInjective
  <2> QED
    BY <1>3, <2>1, <2>2, <2>3
<1>6. Len(t) = IF Contains(s, x) THEN Len(s) ELSE Len(s) + 1
  <2>1. Len(s) \in Nat
    OBVIOUS
  <2> QED
    BY <1>1, <1>3, <2>1
<1>7. \A y : Contains(t, y) <=> Contains(s, y) \/ y = x
  BY <1>1, <1>4
<1> QED
  BY <1>2, <1>3, <1>5, <1>6, <1>7

\* LRUMap.put forgets an entry only when the map is full.
LEMMA PutFacts ==
  ASSUME NEW S, NEW s \in Seq(S), IsInjective(s), Len(s) <= ReceiptLimit, NEW x \in S
  PROVE  /\ PutReceipt(s, x) \in Seq(S) /\ IsInjective(PutReceipt(s, x))
         /\ Len(PutReceipt(s, x)) <= ReceiptLimit
         /\ \A y : Contains(PutReceipt(s, x), y) => Contains(s, y) \/ y = x
         /\ Len(Touch(s, x)) <= ReceiptLimit => PutReceipt(s, x) = Touch(s, x)
<1> DEFINE t == Touch(s, x)
<1>1. /\ t \in Seq(S) /\ IsInjective(t) /\ t # <<>> /\ Len(t) \in Nat /\ Len(s) \in Nat
      /\ Len(t) <= Len(s) + 1
      /\ \A y : Contains(t, y) <=> Contains(s, y) \/ y = x
  <2>1. /\ t \in Seq(S) /\ IsInjective(t) /\ t # <<>>
        /\ Len(t) = IF Contains(s, x) THEN Len(s) ELSE Len(s) + 1
        /\ \A y : Contains(t, y) <=> Contains(s, y) \/ y = x
    BY TouchFacts
  <2> HIDE DEF t
  <2> QED
    BY <2>1
<1>2. ReceiptLimit \in Nat
  BY RegistryAssumption
<1>3. PutReceipt(s, x) = IF Len(t) > ReceiptLimit THEN Tail(t) ELSE t
  BY DEF PutReceipt
<1> HIDE DEF t
<1>4. CASE Len(t) > ReceiptLimit
  <2>1. /\ Tail(t) \in Seq(S) /\ Len(Tail(t)) = Len(t) - 1 /\ IsInjective(Tail(t))
        /\ \A y : Contains(Tail(t), y) => Contains(t, y)
    BY <1>1, InjectiveTail
  <2>2. PutReceipt(s, x) = Tail(t)
    BY <1>3, <1>4
  <2>3. Len(Tail(t)) <= ReceiptLimit
    BY <1>1, <1>2, <2>1
  <2>4. \A y : Contains(Tail(t), y) => Contains(s, y) \/ y = x
    BY <1>1, <2>1
  <2>5. ~(Len(t) <= ReceiptLimit)
    BY <1>1, <1>2, <1>4
  <2> QED
    BY <2>1, <2>2, <2>3, <2>4, <2>5 DEF t
<1>5. CASE ~(Len(t) > ReceiptLimit)
  BY <1>1, <1>2, <1>3, <1>5 DEF t
<1> QED
  BY <1>4, <1>5

\* A map has no more entries than the set its keys are from.
LEMMA LengthBound ==
  ASSUME NEW S, NEW s \in Seq(S), IsInjective(s), NEW T, IsFiniteSet(T),
         \A i \in 1 .. Len(s) : s[i] \in T
  PROVE  Len(s) <= Cardinality(T)
<1>1. Len(s) \in Nat /\ DOMAIN s = 1 .. Len(s) /\ s \in [1 .. Len(s) -> T]
  OBVIOUS
<1>2. \A i, j \in 1 .. Len(s) : s[i] = s[j] => i = j
  BY <1>1 DEF IsInjective
<1>3. Len(s) <= Cardinality(T)
  <2> SUFFICES ASSUME ~(Len(s) <= Cardinality(T)) PROVE FALSE
    OBVIOUS
  <2>1. IsFiniteSet(1 .. Len(s)) /\ Cardinality(1 .. Len(s)) = Len(s)
    <3>1. Len(s) \in Int /\ 1 \in Int
      BY <1>1
    <3>2. /\ IsFiniteSet(1 .. Len(s))
          /\ Cardinality(1 .. Len(s)) = IF 1 > Len(s) THEN 0 ELSE Len(s) - 1 + 1
      BY <3>1, FS_Interval
    <3> QED
      BY <1>1, <3>2
  <2>2. Cardinality(T) < Cardinality(1 .. Len(s))
    BY <1>1, <2>1, FS_CardinalityType
  <2>3. \E i, j \in 1 .. Len(s) : i # j /\ s[i] = s[j]
    BY <1>1, <2>1, <2>2, FS_PigeonHole
  <2> QED
    BY <1>2, <2>3
<1> QED
  BY <1>3

LEMMA ReceiptsUntouched ==
  ASSUME Receipts, UNCHANGED <<receipts, lastUpdate>>
  PROVE  Receipts'
  BY DEF Receipts, ReceiptTypes, ReceiptsArePending, RecentReceiptsKept, Updated

\* The two invariants in terms of what the map contains.
LEMMA ReceiptsOf ==
  ASSUME ReceiptTypes
  PROVE  /\ ReceiptsArePending <=>
              /\ IsInjective(receipts)
              /\ \A tx \in Tx : Contains(receipts, tx) => lastUpdate[tx] \in {"PENDING", "DROPPED"}
         /\ \A tx : Contains(receipts, tx) => tx \in Tx
<1>1. DOMAIN receipts = 1 .. Len(receipts) /\ \A i \in 1 .. Len(receipts) : receipts[i] \in Tx
  BY DEF ReceiptTypes
<1> QED
  BY <1>1 DEF ReceiptsArePending, Contains

LEMMA PendingNext ==
  ASSUME ReceiptTypes', IsInjective(receipts'),
         \A tx \in Tx : Contains(receipts', tx) => lastUpdate'[tx] \in {"PENDING", "DROPPED"}
  PROVE  ReceiptsArePending'
<1>1. DOMAIN receipts' = 1 .. Len(receipts') /\ \A i \in 1 .. Len(receipts') : receipts'[i] \in Tx
  BY DEF ReceiptTypes
<1> QED
  BY <1>1 DEF ReceiptsArePending, Contains

LEMMA UpdateReceipts ==
  ASSUME Receipts, NEW tx \in Tx, NEW st \in UpdateState,
         receipts' = ReceiptsAfter(receipts, tx, st),
         lastUpdate' = [lastUpdate EXCEPT ![tx] = st]
  PROVE  Receipts'
<1>1. /\ receipts \in Seq(Tx) /\ Len(receipts) <= ReceiptLimit
      /\ IsInjective(receipts) /\ IsFiniteSet(Updated)
      /\ \A t \in Tx : Contains(receipts, t) => lastUpdate[t] \in {"PENDING", "DROPPED"}
      /\ \A t : Contains(receipts, t) => t \in Tx
  BY ReceiptsOf DEF Receipts, ReceiptTypes
<1>2. /\ lastUpdate' \in [Tx -> UpdateState \union {None}] /\ lastUpdate'[tx] = st
      /\ \A t \in Tx \ {tx} : lastUpdate'[t] = lastUpdate[t]
  BY DEF Receipts, ReceiptTypes
<1>3. None \notin UpdateState /\ ReceiptLimit \in Nat
  BY RegistryAssumption
<1>4. /\ IsFiniteSet(Updated') /\ Cardinality(Updated') \in Nat
      /\ Cardinality(Updated) \in Nat /\ Cardinality(Updated) <= Cardinality(Updated')
  <2>1. Updated' = Updated \union {tx}
    BY <1>2, <1>3 DEF Updated
  <2>2. IsFiniteSet(Updated') /\ Updated \subseteq Updated'
    BY <1>1, <2>1, FS_AddElement
  <2> QED
    BY <2>2, FS_Subset, FS_CardinalityType
<1>5. CASE st = "INCLUDED"
  <2>1. receipts' = Without(receipts, tx)
    BY <1>5 DEF ReceiptsAfter
  <2>2. /\ receipts' \in Seq(Tx) /\ IsInjective(receipts')
        /\ Len(receipts') = IF Contains(receipts, tx) THEN Len(receipts) - 1 ELSE Len(receipts)
        /\ \A t : Contains(receipts', t) <=> Contains(receipts, t) /\ t # tx
    BY <1>1, <2>1, WithoutFacts
  <2>3. Len(receipts') <= ReceiptLimit
    <3>1. Len(receipts) \in Nat
      BY <1>1
    <3> QED
      BY <1>1, <1>3, <2>2, <3>1
  <2>4. ReceiptTypes'
    BY <1>2, <2>2, <2>3 DEF ReceiptTypes
  <2>5. \A t \in Tx : Contains(receipts', t) => lastUpdate'[t] \in {"PENDING", "DROPPED"}
    BY <1>1, <1>2, <2>2
  <2>6. ReceiptsArePending'
    BY <2>2, <2>4, <2>5, PendingNext
  <2>7. RecentReceiptsKept'
    <3> SUFFICES ASSUME Cardinality(Updated') <= ReceiptLimit, NEW t \in Tx,
                        lastUpdate'[t] \in {"PENDING", "DROPPED"}
                 PROVE  Contains(receipts', t)
      BY DEF RecentReceiptsKept
    <3>1. t # tx /\ lastUpdate[t] \in {"PENDING", "DROPPED"}
      BY <1>2, <1>5
    <3>2. Cardinality(Updated) <= ReceiptLimit
      BY <1>3, <1>4
    <3> QED
      BY <2>2, <3>1, <3>2 DEF RecentReceiptsKept, Receipts
  <2> QED
    BY <1>4, <2>4, <2>6, <2>7 DEF Receipts
<1>6. CASE st # "INCLUDED"
  <2>1. receipts' = PutReceipt(receipts, tx) /\ st \in {"PENDING", "DROPPED"}
    BY <1>6 DEF ReceiptsAfter, UpdateState
  <2>2. /\ receipts' \in Seq(Tx) /\ IsInjective(receipts') /\ Len(receipts') <= ReceiptLimit
        /\ \A t : Contains(receipts', t) => Contains(receipts, t) \/ t = tx
        /\ Len(Touch(receipts, tx)) <= ReceiptLimit => receipts' = Touch(receipts, tx)
    BY <1>1, <2>1, PutFacts
  <2>4. ReceiptTypes'
    BY <1>2, <2>2 DEF ReceiptTypes
  <2>5. \A t \in Tx : Contains(receipts', t) => lastUpdate'[t] \in {"PENDING", "DROPPED"}
    BY <1>1, <1>2, <2>1, <2>2
  <2>6. ReceiptsArePending'
    BY <2>2, <2>4, <2>5, PendingNext
  <2>7. ASSUME Cardinality(Updated') <= ReceiptLimit, NEW t \in Tx,
               lastUpdate'[t] \in {"PENDING", "DROPPED"}
        PROVE  Contains(receipts', t)
    <3> DEFINE touched == Touch(receipts, tx)
    <3>1. /\ touched \in Seq(Tx) /\ IsInjective(touched)
          /\ \A u : Contains(touched, u) <=> Contains(receipts, u) \/ u = tx
      BY <1>1, TouchFacts
    <3> HIDE DEF touched
    <3>2. \A u : Contains(touched, u) => u \in Updated'
      BY <1>1, <1>2, <1>3, <3>1 DEF Updated, UpdateState
    <3>3. \A i \in 1 .. Len(touched) : touched[i] \in Updated'
      BY <3>2 DEF Contains
    <3>4. Len(touched) <= Cardinality(Updated') /\ Len(touched) \in Nat
      BY <1>4, <3>1, <3>3, LengthBound
    <3>5. receipts' = touched
      BY <1>3, <1>4, <2>2, <2>7, <3>4 DEF touched
    <3>6. t # tx => Contains(receipts, t)
      BY <1>2, <1>3, <1>4, <2>7 DEF Receipts, RecentReceiptsKept
    <3> QED
      BY <3>1, <3>5, <3>6
  <2>8. RecentReceiptsKept'
    BY <2>7 DEF RecentReceiptsKept
  <2> QED
    BY <1>4, <2>4, <2>6, <2>8 DEF Receipts
<1> QED
  BY <1>5, <1>6

\* A request moves a receipt to the end of the map.
LEMMA RequestReceipts ==
  ASSUME Receipts, NEW tx \in Tx, Contains(receipts, tx),
         receipts' = Touch(receipts, tx), UNCHANGED lastUpdate
  PROVE  Receipts'
<1>1. /\ receipts \in Seq(Tx) /\ Len(receipts) <= ReceiptLimit
      /\ IsInjective(receipts)
      /\ \A t \in Tx : Contains(receipts, t) => lastUpdate[t] \in {"PENDING", "DROPPED"}
  BY ReceiptsOf DEF Receipts, ReceiptTypes
<1>2. /\ receipts' \in Seq(Tx) /\ IsInjective(receipts') /\ Len(receipts') = Len(receipts)
      /\ \A t : Contains(receipts', t) <=> Contains(receipts, t)
  BY <1>1, TouchFacts
<1>3. ReceiptTypes'
  BY <1>1, <1>2 DEF ReceiptTypes, Receipts
<1>4. ReceiptsArePending'
  BY <1>1, <1>2, <1>3, PendingNext
<1>5. RecentReceiptsKept' /\ IsFiniteSet(Updated')
  BY <1>2 DEF Receipts, RecentReceiptsKept, Updated
<1> QED
  BY <1>3, <1>4, <1>5 DEF Receipts

LEMMA ReceiptsStep == Types /\ Receipts /\ [Next]_vars => Receipts'
<1> SUFFICES ASSUME Types, Receipts, [Next]_vars PROVE Receipts'
  OBVIOUS
<1> USE DEF walkVars
<1>1. CASE BeginWalk
  <2> DEFINE event == Head(queue)
  <2>1. event \in ListenerEvent
    <3>1. queue \in Seq(ListenerEvent) /\ queue # <<>>
      BY <1>1 DEF BeginWalk, Types
    <3> QED
      BY <3>1, HeadTailProperties
  <2>2. CASE event.type = "onPendingTransactionUpdate"
    <3>1. event.ref \in Tx /\ event.state \in UpdateState
      BY <2>1, <2>2 DEF ListenerEvent
    <3>2. /\ receipts' = ReceiptsAfter(receipts, event.ref, event.state)
          /\ lastUpdate' = [lastUpdate EXCEPT ![event.ref] = event.state]
      BY <1>1, <2>2 DEF BeginWalk
    <3> QED
      BY <3>1, <3>2, UpdateReceipts
  <2>3. CASE event.type # "onPendingTransactionUpdate"
    BY <1>1, <2>3, ReceiptsUntouched DEF BeginWalk
  <2> QED
    BY <2>2, <2>3
<1>2. ASSUME NEW c \in Client, NEW tx \in Tx, ethj_getTransactionReceipt(c, tx)
      PROVE  Receipts'
  <2>1. /\ receipts' = IF Contains(receipts, tx) THEN Touch(receipts, tx) ELSE receipts
        /\ UNCHANGED lastUpdate
    BY <1>2 DEF ethj_getTransactionReceipt
  <2> QED
    BY <2>1, RequestReceipts, ReceiptsUntouched
<1>3. ASSUME NEW c \in Client, StartCall(c) PROVE Receipts'
  <2>1. ASSUME ~\E tx \in Tx : ethj_getTransactionReceipt(c, tx)
        PROVE  UNCHANGED <<receipts, lastUpdate>>
    BY <1>3, <2>1 DEF StartCall, eth_newBlockFilter, eth_newPendingTransactionFilter,
       eth_newFilter, Install, eth_uninstallFilter, eth_getFilterChanges
  <2> QED
    BY <1>2, <2>1, ReceiptsUntouched
<1>4. ASSUME NEW c \in Client, Call(c) PROVE Receipts'
  <2>1. UNCHANGED <<receipts, lastUpdate>>
    BY <1>4 DEF Call, ResolveFrom, ResolveTo, ResolveBest, BeginHistory, AddHistory, Arm,
       GetLogsPoll, GetLogsUninstall
  <2> QED
    BY <2>1, ReceiptsUntouched
<1>5. CASE \/ ImportBlock \/ EndWalk \/ UNCHANGED vars
           \/ (\E tx \in Tx : RaisePending(tx)) \/ (\E id \in Ids : Visit(id))
  <2>1. UNCHANGED <<receipts, lastUpdate>>
    BY <1>5 DEF ImportBlock, EndWalk, RaisePending, Visit, vars
  <2> QED
    BY <2>1, ReceiptsUntouched
<1> QED
  BY <1>1, <1>3, <1>4, <1>5 DEF Next, Listener

LEMMA InitReceipts == Init => Receipts
<1> SUFFICES ASSUME Init PROVE Receipts
  OBVIOUS
<1> USE DEF Init
<1>1. ReceiptTypes
  BY RegistryAssumption DEF ReceiptTypes
<1>2. \A tx \in Tx : lastUpdate[tx] = None
  OBVIOUS
<1>3. Updated = {}
  BY <1>2 DEF Updated
<1>4. IsFiniteSet(Updated)
  BY <1>3, FS_EmptySet
<1>5. ReceiptsArePending /\ RecentReceiptsKept
  BY <1>2, RegistryAssumption DEF ReceiptsArePending, IsInjective, RecentReceiptsKept, UpdateState
<1> QED
  BY <1>1, <1>4, <1>5 DEF Receipts

-----------------------------------------------------------------------------
\* What filters have told their clients.

\* A buffer holds the newest of the events that were added to it, and as many of
\* them as it can.
Retains(f, told) ==
  /\ Len(f.events) <= MaxEventCount /\ f.pollStart <= Len(f.events)
  /\ Len(f.events) <= Len(told)
  /\ Len(f.events) < Len(told) => Len(f.events) = MaxEventCount
  /\ \A i \in 1 .. Len(f.events) : f.events[i] = told[Len(told) - Len(f.events) + i]

\* A filter reports its history first and in order, and then only blocks the
\* listener has brought it, in order.
Told(id) ==
  /\ \A i \in 1 .. Len(reported[id]) :
       i <= HistoryLength(id) => reported[id][i] = BlockEvent(origin[id].first + i - 1)
  /\ \A i \in 1 .. Len(reported[id]) :
       i > HistoryLength(id) /\ reported[id][i].type = "block" =>
         /\ reported[id][i].ref <= dispatched
         /\ Ahead(id) => reported[id][i].ref < dispatched
  /\ \A i, j \in 1 .. Len(reported[id]) :
       /\ HistoryLength(id) < i /\ i < j
       /\ reported[id][i].type = "block" /\ reported[id][j].type = "block"
       => reported[id][i].ref < reported[id][j].ref

\* A filter that nobody is building has its whole history.
Complete(id) ==
  (\A c \in Client : Building(c) => task[c].id # id) =>
    HistoryLength(id) <= Len(reported[id])

Closed(id) == IsClosed(origin[id].request)

\* What eth_getLogs answers for the range it has read.
RangeAnswer(id) == NewestLogs(origin[id].first, origin[id].last)

\* A call of eth_newFilter or eth_getLogs and its filter: until the filter is
\* polled it is as full as it was told, and a closed range has its history only.
Progress(c) ==
  LET id == task[c].id
      o  == origin[id]
  IN  /\ task[c].at \in {"resolveFrom", "resolveTo", "resolveBest", "history", "poll"} =>
           filters[id].pollStart = 0
      /\ task[c].at = "history" => Len(reported[id]) = task[c].next - o.first
      /\ task[c].at \in {"poll", "uninstall"} =>
           /\ filters[id].kind = "log"
           /\ filters[id].onNewBlock = WantsNewBlocks(o.request)
           /\ filters[id].onPendingTx = WantsPending(o.request)
           /\ Closed(id) => Len(reported[id]) = HistoryLength(id)
      /\ task[c].at = "uninstall" /\ Closed(id) => task[c].answer = RangeAnswer(id)

\* No two calls share a filter.
OwnFilters ==
  \A c, d \in Client :
    task[c].at # "idle" /\ task[d].at # "idle" /\ task[c].id = task[d].id => c = d

Answers ==
  /\ \A id \in Ids : Retains(filters[id], reported[id]) /\ Told(id) /\ Complete(id)
  /\ \A c \in Client : Progress(c)
  /\ OwnFilters

LEMMA RetainsAdded ==
  ASSUME NEW f \in Object, NEW told \in Seq(Event), NEW e \in Event, Retains(f, told)
  PROVE  /\ Retains(Added(f, e), Append(told, e))
         /\ f.pollStart = 0 => Added(f, e).pollStart = 0
<1> DEFINE old   == f.events
           grown == Append(old, e)
           m     == Len(old)
           n     == Len(told)
<1>1. old \in Seq(Event) /\ f.pollStart \in Nat
  BY DEF Object
<1>2. /\ grown \in Seq(Event) /\ grown # <<>> /\ Len(grown) = m + 1 /\ m \in Nat
      /\ grown[m + 1] = e /\ \A i \in 1 .. m : grown[i] = old[i]
  BY <1>1, AppendProperties
<1>3. /\ Len(Append(told, e)) = n + 1 /\ n \in Nat
      /\ Append(told, e)[n + 1] = e /\ \A i \in 1 .. n : Append(told, e)[i] = told[i]
  BY AppendProperties
<1>4. /\ m <= MaxEventCount /\ f.pollStart <= m /\ m <= n /\ (m < n => m = MaxEventCount)
      /\ \A i \in 1 .. m : old[i] = told[n - m + i]
  BY DEF Retains
<1>5. MaxEventCount \in Nat \ {0}
  BY MaxEventCountAssumption
<1>6. \A i \in 1 .. m + 1 : grown[i] = Append(told, e)[n - m + i]
  <2> SUFFICES ASSUME NEW i \in 1 .. m + 1 PROVE grown[i] = Append(told, e)[n - m + i]
    OBVIOUS
  <2> HIDE DEF grown, old, n, m
  <2>1. CASE i = m + 1
    <3>1. n - m + i = n + 1
      BY <1>2, <1>3, <2>1
    <3> QED
      BY <1>2, <1>3, <2>1, <3>1
  <2>2. CASE i # m + 1
    <3>1. i \in 1 .. m /\ n - m + i \in 1 .. n
      BY <1>2, <1>3, <1>4, <2>2
    <3> QED
      BY <1>2, <1>3, <1>4, <3>1
  <2> QED
    BY <2>1, <2>2
<1> DEFINE all == Append(told, e)
<1> HIDE DEF grown, all
<1>7. CASE Len(grown) > MaxEventCount
  <2>1. /\ Added(f, e).events = Tail(grown)
        /\ Added(f, e).pollStart = IF f.pollStart > 0 THEN f.pollStart - 1 ELSE f.pollStart
    BY <1>7 DEF Added, grown, Object
  <2>2. Len(Tail(grown)) = m /\ \A i \in 1 .. m : Tail(grown)[i] = grown[i + 1]
    <3>1. Len(Tail(grown)) = Len(grown) - 1 /\ \A i \in 1 .. Len(grown) - 1 : Tail(grown)[i] = grown[i + 1]
      BY <1>2, HeadTailProperties
    <3> HIDE DEF m
    <3> QED
      BY <1>2, <3>1
  <2> HIDE DEF m, n
  <2>3. m = MaxEventCount
    BY <1>2, <1>4, <1>5, <1>7
  <2> DEFINE g == Added(f, e)
  <2>4. Len(all) = n + 1
    BY <1>3 DEF all
  <2>5. g.events = Tail(grown) /\ Len(g.events) = m /\ Len(g.events) = MaxEventCount
    BY <2>1, <2>2, <2>3
  <2>6. ASSUME NEW i \in 1 .. m PROVE g.events[i] = all[Len(all) - m + i]
    <3>1. i + 1 \in 1 .. m + 1 /\ n - m + (i + 1) = Len(all) - m + i
      BY <1>2, <1>3, <2>4
    <3>2. g.events[i] = grown[i + 1]
      BY <2>2, <2>5
    <3>3. grown[i + 1] = all[n - m + (i + 1)]
      BY <1>6, <3>1 DEF all
    <3> HIDE DEF g
    <3> QED
      BY <3>1, <3>2, <3>3
  <2>7. Len(Tail(grown)) <= MaxEventCount /\ Len(Tail(grown)) <= Len(all)
    BY <1>2, <1>3, <1>4, <2>2 DEF all
  <2>8. Added(f, e).pollStart <= m
    BY <1>1, <1>2, <1>4, <2>1
  <2>9. f.pollStart = 0 => g.pollStart = 0
    BY <1>1, <2>1
  <2>10. g.pollStart <= m
    BY <2>8
  <2> HIDE DEF g
  <2>11. Len(g.events) <= MaxEventCount /\ Len(g.events) <= Len(all)
    BY <2>7, <2>5
  <2>12. Retains(g, all)
    BY <2>6, <2>5, <2>10, <2>11 DEF Retains
  <2> QED
    BY <2>9, <2>12 DEF g, all
<1>8. CASE ~(Len(grown) > MaxEventCount)
  <2>1. Added(f, e).events = grown /\ Added(f, e).pollStart = f.pollStart
    BY <1>8 DEF Added, grown, Object
  <2> HIDE DEF m, n
  <2>2. m = n
    BY <1>2, <1>3, <1>4, <1>5, <1>8
  <2>3. Len(grown) = Len(all) /\ Len(all) = m + 1 /\ Len(grown) <= MaxEventCount
    BY <1>2, <1>3, <1>5, <1>8, <2>2 DEF all
  <2>4. \A i \in 1 .. Len(grown) : grown[i] = all[Len(all) - Len(grown) + i]
    BY <1>2, <1>3, <1>6, <2>2, <2>3 DEF all
  <2>5. f.pollStart <= Len(grown)
    BY <1>1, <1>2, <1>4
  <2> QED
    BY <2>1, <2>3, <2>4, <2>5 DEF Retains, all
<1> QED
  BY <1>7, <1>8

\* poll() reads what is left and changes no event.
LEMMA RetainsPolled ==
  ASSUME NEW f \in Object, NEW told \in Seq(Event), Retains(f, told)
  PROVE  Retains(Polled(f), told)
<1>1. f.events \in Seq(Event) /\ f.pollStart \in Nat /\ Len(f.events) \in Nat
      /\ f.pollStart <= Len(f.events)
  BY DEF Object, Retains
<1>2. Len(Unread(f)) = Len(f.events) - f.pollStart
  BY <1>1 DEF Unread
<1>3. Polled(f).events = f.events /\ Polled(f).pollStart = f.pollStart + Len(Unread(f))
  BY DEF Polled, Object
<1>4. Polled(f).pollStart <= Len(f.events)
  BY <1>1, <1>2, <1>3
<1> QED
  BY <1>1, <1>3, <1>4 DEF Retains

LEMMA RetainsArmed ==
  ASSUME NEW f \in Object, NEW told, NEW r, Retains(f, told)
  PROVE  Retains(Armed(f, r), told) /\ Armed(f, r).pollStart = f.pollStart
         /\ Armed(f, r).onPendingTx = WantsPending(r)
<1>1. Armed(f, r).events = f.events /\ Armed(f, r).pollStart = f.pollStart
      /\ Armed(f, r).onPendingTx = WantsPending(r)
  BY DEF Armed, Object
<1> QED
  BY <1>1 DEF Retains

\* The first poll() returns everything.
LEMMA UnreadWhole ==
  ASSUME NEW f \in Object, f.pollStart = 0
  PROVE  Unread(f) = f.events
<1>1. f.events \in Seq(Event)
  BY DEF Object
<1> QED
  BY <1>1 DEF Unread

\* A step brings a filter no block that the listener had brought it before.
Advance(id) ==
  /\ dispatched <= dispatched'
  /\ Ahead(id)' => dispatched < dispatched' \/ Ahead(id)

LEMMA HistoryLengthType ==
  ASSUME Types, NEW id \in Ids
  PROVE  /\ HistoryLength(id) \in Nat
         /\ origin[id].first \in Nat /\ origin[id].last \in Int
<1>1. origin[id] \in Origin
  BY ElementTypes
<1>2. origin[id].first \in Nat /\ origin[id].last \in Int
  BY <1>1 DEF Origin
<1> QED
  BY <1>2 DEF HistoryLength

LEMMA BlockRef ==
  ASSUME NEW e \in Event, e.type = "block"
  PROVE  e.ref \in Nat
  BY Bounds DEF Event

LEMMA ToldKept ==
  ASSUME Types, NEW id \in Ids, Told(id), Advance(id), reported'[id] = reported[id],
         origin'[id].first = origin[id].first, origin'[id].last = origin[id].last,
         dispatched' \in Nat
  PROVE  Told(id)'
<1>1. HistoryLength(id)' = HistoryLength(id)
  BY DEF HistoryLength
<1>2. reported[id] \in Seq(Event) /\ dispatched \in Nat
  BY ElementTypes DEF Types
<1>3. \A i \in 1 .. Len(reported[id]) : reported[id][i].type = "block" => reported[id][i].ref \in Nat
  BY <1>2, BlockRef
<1>4. \A i \in 1 .. Len(reported[id]) :
        i <= HistoryLength(id) => reported[id][i] = BlockEvent(origin[id].first + i - 1)
  BY DEF Told
<1>5. ASSUME NEW i \in 1 .. Len(reported[id]),
             i > HistoryLength(id), reported[id][i].type = "block"
      PROVE  /\ reported[id][i].ref <= dispatched'
             /\ Ahead(id)' => reported[id][i].ref < dispatched'
  <2>1. /\ reported[id][i].ref <= dispatched /\ reported[id][i].ref \in Nat
        /\ Ahead(id) => reported[id][i].ref < dispatched
    BY <1>3, <1>5 DEF Told
  <2> QED
    BY <1>2, <2>1 DEF Advance
<1> QED
  BY <1>1, <1>4, <1>5 DEF Told

\* The listener brings a filter that has its history a block later than all
\* before it, or a transaction.
LEMMA ToldNews ==
  ASSUME Types, NEW id \in Ids, Told(id), HistoryLength(id) <= Len(reported[id]),
         NEW e \in Event, reported'[id] = Append(reported[id], e),
         origin'[id] = origin[id], dispatched' = dispatched, ~Ahead(id)',
         e.type = "block" => Ahead(id) /\ e.ref = dispatched
  PROVE  Told(id)' /\ Len(reported[id]) <= Len(reported'[id])
<1> DEFINE old == reported[id]
           n   == Len(old)
           h   == HistoryLength(id)
           new == Append(old, e)
<1>1. old \in Seq(Event) /\ n \in Nat /\ dispatched \in Nat /\ h \in Nat
  BY ElementTypes, HistoryLengthType DEF Types
<1>2. /\ Len(new) = n + 1 /\ new[n + 1] = e
      /\ \A i \in 1 .. n : new[i] = old[i] /\ old[i] \in Event
  BY <1>1, AppendProperties
<1>3. HistoryLength(id)' = h
  BY DEF HistoryLength
<1>4. \A i \in 1 .. n : i <= h => old[i] = BlockEvent(origin[id].first + i - 1)
  BY DEF Told
<1>5. \A i \in 1 .. n : i > h /\ old[i].type = "block" =>
        /\ old[i].ref \in Nat /\ old[i].ref <= dispatched
        /\ Ahead(id) => old[i].ref < dispatched
  BY <1>2, BlockRef DEF Told
<1>6. \A i, j \in 1 .. n : h < i /\ i < j /\ old[i].type = "block" /\ old[j].type = "block" =>
        old[i].ref < old[j].ref
  BY DEF Told
<1>7. h <= n /\ reported'[id] = new
  OBVIOUS
<1> HIDE DEF old, n, h, new
<1>8. \A i \in 1 .. n + 1 : i \in 1 .. n \/ i = n + 1
  BY <1>1
<1>9. \A i \in 1 .. n + 1 : i <= h => new[i] = BlockEvent(origin'[id].first + i - 1)
  BY <1>1, <1>2, <1>4, <1>7, <1>8
<1>10. \A i \in 1 .. n + 1 : i > h /\ new[i].type = "block" => new[i].ref <= dispatched
  BY <1>1, <1>2, <1>5, <1>8
<1>11. ASSUME NEW i \in 1 .. n + 1, NEW j \in 1 .. n + 1, h < i, i < j,
              new[i].type = "block", new[j].type = "block"
       PROVE  new[i].ref < new[j].ref
  <2>1. i \in 1 .. n /\ new[i] = old[i]
    BY <1>1, <1>2, <1>11
  <2>2. CASE j \in 1 .. n
    BY <1>2, <1>6, <1>11, <2>1, <2>2
  <2>3. CASE j = n + 1
    BY <1>2, <1>5, <1>11, <2>1, <2>3
  <2> QED
    BY <1>8, <2>2, <2>3
<1>12. Told(id)'
  BY <1>2, <1>3, <1>7, <1>9, <1>10, <1>11 DEF Told
<1> QED
  BY <1>1, <1>2, <1>7, <1>12 DEF n, old

\* eth_newFilter adds the blocks of the history one after the other.
LEMMA ToldHistory ==
  ASSUME Types, NEW id \in Ids, Told(id), NEW k \in Nat,
         Len(reported[id]) = k - origin[id].first, k <= origin[id].last,
         BlockEvent(k) \in Event, reported'[id] = Append(reported[id], BlockEvent(k)),
         origin'[id] = origin[id]
  PROVE  Told(id)' /\ Len(reported'[id]) = k + 1 - origin[id].first
<1> DEFINE old == reported[id]
           n   == Len(old)
           h   == HistoryLength(id)
           a   == origin[id].first
           new == Append(old, BlockEvent(k))
<1>1. old \in Seq(Event) /\ n \in Nat /\ h \in Nat /\ a \in Nat /\ origin[id].last \in Int
  BY ElementTypes, HistoryLengthType
<1>2. /\ Len(new) = n + 1 /\ new[n + 1] = BlockEvent(k)
      /\ \A i \in 1 .. n : new[i] = old[i]
  BY <1>1, AppendProperties
<1>3. HistoryLength(id)' = h
  BY DEF HistoryLength
<1>4. \A i \in 1 .. n : i <= h => old[i] = BlockEvent(a + i - 1)
  BY DEF Told
<1>5. n = k - a /\ reported'[id] = new /\ n + 1 <= h
  BY <1>1 DEF HistoryLength
<1> HIDE DEF old, n, h, new
<1>6. \A i \in 1 .. n + 1 : i \in 1 .. n \/ i = n + 1
  BY <1>1
<1>7. \A i \in 1 .. n + 1 : i <= h
  BY <1>1, <1>5
<1>8. BlockEvent(k) = BlockEvent(a + (n + 1) - 1)
  BY <1>1, <1>5
<1>9. \A i \in 1 .. n + 1 : new[i] = BlockEvent(a + i - 1)
  BY <1>2, <1>4, <1>6, <1>7, <1>8
<1>10. Told(id)'
  BY <1>1, <1>2, <1>3, <1>5, <1>7, <1>9 DEF Told
<1>11. Len(reported'[id]) = k + 1 - a
  BY <1>1, <1>2, <1>5
<1> QED
  BY <1>10, <1>11

\* A filter that the step of another does not concern.
LEMMA FilterKept ==
  ASSUME Types, Types', NEW id \in Ids, Stands(id), Advance(id),
         Retains(filters[id], reported[id]), Told(id), Complete(id),
         \A c \in Client : Building(c) /\ task[c].id = id => Building(c)' /\ task'[c].id = id
  PROVE  Retains(filters'[id], reported'[id]) /\ Told(id)' /\ Complete(id)'
<1>1. Retains(filters'[id], reported'[id])
  BY DEF Stands, Retains
<1>2. dispatched' \in Nat
  BY DEF Types
<1>3. Told(id)'
  BY <1>2, ToldKept DEF Stands
<1>4. Complete(id)'
  BY DEF Complete, Stands, HistoryLength
<1> QED
  BY <1>1, <1>3, <1>4

\* A thread that the step of another does not concern.
LEMMA ProgressKept ==
  ASSUME NEW c \in Client, Progress(c), task'[c] = task[c],
         task[c].at # "idle" => Stands(task[c].id)
  PROVE  Progress(c)'
<1>1. CASE task[c].at = "idle"
  BY <1>1 DEF Progress
<1>2. CASE task[c].at # "idle"
  BY <1>2 DEF Progress, Stands, Closed, RangeAnswer, HistoryLength
<1> QED
  BY <1>1, <1>2

LEMMA IdleProgress ==
  ASSUME NEW c \in Client, task'[c].at = "idle"
  PROVE  Progress(c)'
  BY DEF Progress

LEMMA OwnKept ==
  ASSUME OwnFilters,
         \A c \in Client : task'[c].at # "idle" => task[c].at # "idle" /\ task'[c].id = task[c].id
  PROVE  OwnFilters'
  BY DEF OwnFilters

\* The steps that no filter takes part in.
LEMMA FiltersStand ==
  ASSUME Types, Types', Answers, Ids' = Ids,
         \A id \in Ids : Stands(id) /\ Advance(id),
         \A c \in Client : \/ task'[c] = task[c]
                           \/ task'[c].at = "idle" /\ ~Building(c),
         \A c \in Client : task[c].at # "idle" => task[c].id \in Ids
  PROVE  Answers'
<1>1. \A c \in Client : Progress(c)'
  BY ProgressKept, IdleProgress DEF Answers
<1>2. \A c \in Client : task'[c].at # "idle" => task[c].at # "idle" /\ task'[c].id = task[c].id
  OBVIOUS
<1>3. OwnFilters'
  BY <1>2, OwnKept DEF Answers
<1>4. \A c \in Client : Building(c) => Building(c)' /\ task'[c].id = task[c].id
  BY DEF Building
<1>5. \A id \in Ids : Retains(filters'[id], reported'[id]) /\ Told(id)' /\ Complete(id)'
  BY <1>4, FilterKept DEF Answers
<1> QED
  BY <1>1, <1>3, <1>5 DEF Answers

\* The step of a thread, if any, on a filter, which is its own.
LEMMA OneFilter ==
  ASSUME Types, Types', Answers, NEW id \in Ids, Ids' = Ids,
         \A other \in Ids \ {id} : Stands(other) /\ Advance(other),
         Retains(filters'[id], reported'[id]), Told(id)', Complete(id)',
         \A c \in Client : IF task[c].at # "idle" /\ task[c].id = id
                           THEN Progress(c)' ELSE task'[c] = task[c],
         \A c \in Client : task'[c].at # "idle" => task[c].at # "idle" /\ task'[c].id = task[c].id,
         \A c \in Client : task[c].at # "idle" => task[c].id \in Ids
  PROVE  Answers'
<1>1. ASSUME NEW c \in Client PROVE Progress(c)'
  <2>1. CASE ~(task[c].at # "idle" /\ task[c].id = id)
    <3>1. task[c].at # "idle" => Stands(task[c].id)
      BY <2>1
    <3> QED
      BY <2>1, <3>1, ProgressKept DEF Answers
  <2> QED
    BY <2>1
<1>2. OwnFilters'
  BY OwnKept DEF Answers
<1>3. ASSUME NEW other \in Ids \ {id}
      PROVE  Retains(filters'[other], reported'[other]) /\ Told(other)' /\ Complete(other)'
  <2>1. \A c \in Client : Building(c) /\ task[c].id = other => Building(c)' /\ task'[c].id = other
    BY <1>3 DEF Building
  <2> QED
    BY <1>3, <2>1, FilterKept DEF Answers
<1> QED
  BY <1>1, <1>2, <1>3 DEF Answers

LEMMA StandingAdvance ==
  ASSUME Types, Standing, SameWalk, NEW id
  PROVE  Advance(id)
<1>1. dispatched \in Nat
  BY DEF Types
<1> QED
  BY <1>1 DEF Advance, Ahead, OnBlock, Standing, SameWalk

LEMMA KeptWalkAdvance ==
  ASSUME Types, UNCHANGED <<walk, dispatched>>, NEW id
  PROVE  Advance(id)
<1>1. dispatched \in Nat
  BY DEF Types
<1> QED
  BY <1>1 DEF Advance, Ahead, OnBlock, Walking

LEMMA TableStands ==
  ASSUME UNCHANGED <<filters, origin, reported>>
  PROVE  Ids' = Ids /\ \A id \in Ids : Stands(id)
  BY DEF Ids, Stands

LEMMA BeginWalkAnswers ==
  ASSUME IInv, IInv', Answers, BeginWalk
  PROVE  Answers'
<1> USE DEF tableVars
<1>1. /\ queue # <<>> /\ UNCHANGED <<filters, installed, reported, origin, task>>
      /\ dispatched' = IF IsBlock(Head(queue)) THEN Head(queue).ref ELSE dispatched
      /\ walk'.event = Head(queue)
  BY DEF BeginWalk, IsBlock
<1>2. IsBlock(Head(queue)) => dispatched' = dispatched + 1
  BY <1>1, NextBlock DEF IInv
<1>3. dispatched \in Nat
  BY DEF IInv, Types
<1>4. \A id \in Ids : Advance(id)
  BY <1>1, <1>2, <1>3 DEF Advance, Ahead, OnBlock
<1> QED
  BY <1>1, <1>4, TableStands, FiltersStand DEF IInv, Histories

LEMMA EndWalkAnswers ==
  ASSUME IInv, IInv', Answers, EndWalk
  PROVE  Answers'
<1>1. UNCHANGED <<filters, installed, reported, origin, task, dispatched>> /\ ~Walking'
  BY DEF EndWalk, tableVars, Walking
<1>2. dispatched \in Nat
  BY DEF IInv, Types
<1>3. \A id \in Ids : Advance(id)
  BY <1>1, <1>2 DEF Advance, Ahead, OnBlock
<1> QED
  BY <1>1, <1>3, TableStands, FiltersStand DEF IInv, Histories

\* A filter that takes an event is not being built, so its history is in.
LEMMA VisitAnswers ==
  ASSUME IInv, IInv', Answers, NEW id \in Ids, Visit(id)
  PROVE  Answers'
<1> DEFINE event == walk.event
           e     == Report(event)
<1>i. Types /\ Types' /\ EventsInOrder /\ Histories
  BY DEF IInv
<1>1. /\ Ids' = Ids /\ \A other \in Ids \ {id} : Stands(other)
      /\ Alike(filters'[id], filters[id]) /\ origin'[id] = origin[id] /\ e \in Event
      /\ filters'[id] = IF Takes(filters[id], event) THEN Added(filters[id], e) ELSE filters[id]
      /\ reported'[id] = IF Takes(filters[id], event) THEN Append(reported[id], e) ELSE reported[id]
      /\ Walking /\ Walking' /\ walk'.event = event
      /\ id \in walk.todo /\ walk'.todo = walk.todo \ {id}
      /\ UNCHANGED <<dispatched, task>>
  BY <1>i, VisitFacts
<1>2. dispatched \in Nat
  BY <1>i DEF Types
<1>3. \A other \in Ids : Advance(other)
  BY <1>1, <1>2 DEF Advance, Ahead, OnBlock
<1>4. \A c \in Client : task'[c] = task[c] /\ (task[c].at # "idle" => task[c].id \in Ids)
  BY <1>1, <1>i DEF Histories
<1>5. CASE ~Takes(filters[id], event)
  <2>1. \A other \in Ids : Stands(other)
    BY <1>1, <1>5 DEF Stands
  <2> QED
    BY <1>1, <1>3, <1>4, <1>i, <2>1, FiltersStand
<1>6. CASE Takes(filters[id], event)
  <2>1. \A c \in Client : Building(c) => task[c].id # id
    BY <1>6, <1>i DEF Takes, Histories, History
  <2>2. /\ Retains(filters[id], reported[id]) /\ Told(id)
        /\ HistoryLength(id) <= Len(reported[id])
        /\ filters[id] \in Object /\ reported[id] \in Seq(Event)
    BY <1>i, <2>1, ElementTypes DEF Answers, Complete
  <2>3. /\ Retains(filters'[id], reported'[id])
        /\ filters[id].pollStart = 0 => filters'[id].pollStart = 0
    BY <1>1, <1>6, <2>2, RetainsAdded
  <2>4. e.type = "block" => IsBlock(event) /\ e.ref = event.ref
    BY DEF Report, BlockEvent, PendingEvent, IsBlock
  <2>5. IsBlock(event) => Ahead(id) /\ event.ref = dispatched
    BY <1>1, <1>i DEF Ahead, OnBlock, EventsInOrder
  <2>6. ~Ahead(id)'
    BY <1>1 DEF Ahead
  <2>7. Told(id)' /\ Len(reported[id]) <= Len(reported'[id]) /\ reported'[id] \in Seq(Event)
    <3> HIDE DEF e, event
    <3>1. reported'[id] = Append(reported[id], e) /\ (e.type = "block" => Ahead(id) /\ e.ref = dispatched)
      BY <1>1, <1>6, <2>4, <2>5
    <3> QED
      BY <1>1, <1>i, <2>2, <2>6, <3>1, ToldNews, SeqFacts
  <2>8. Complete(id)'
    <3>1. HistoryLength(id)' = HistoryLength(id)
      BY <1>1 DEF HistoryLength
    <3>2. HistoryLength(id) \in Nat /\ Len(reported[id]) \in Nat /\ Len(reported'[id]) \in Nat
      BY <1>i, <2>2, <2>7, HistoryLengthType
    <3> QED
      BY <2>2, <2>7, <3>1, <3>2 DEF Complete
  <2>9. ASSUME NEW c \in Client, task[c].at # "idle", task[c].id = id
        PROVE  Progress(c)'
    <3>1. task[c].at \notin {"resolveFrom", "resolveTo", "resolveBest", "history"}
      BY <2>1, <2>9 DEF Building
    <3>2. task[c].at = "poll" => filters'[id].pollStart = 0
      BY <2>3, <2>9 DEF Answers, Progress
    <3>3. task[c].at \in {"poll", "uninstall"}
      BY <1>i, <2>9, <3>1, ElementTypes DEF Task
    <3>4. /\ filters[id].kind = "log"
          /\ filters[id].onNewBlock = WantsNewBlocks(origin[id].request)
          /\ filters[id].onPendingTx = WantsPending(origin[id].request)
      BY <2>9, <3>3 DEF Answers, Progress
    <3>5. ~Closed(id)
      BY <1>6, <3>4 DEF Takes, Closed, IsClosed
    <3>6. ~Closed(id)'
      BY <1>1, <3>5 DEF Closed
    <3>7. task'[c] = task[c]
      BY <1>4
    <3> QED
      BY <1>1, <2>9, <3>1, <3>2, <3>4, <3>6, <3>7 DEF Progress, Alike
  <2> QED
    BY <1>1, <1>3, <1>4, <1>i, <2>3, <2>7, <2>8, <2>9, OneFilter
<1>7. Takes(filters[id], event) \in BOOLEAN
  BY <1>i, ElementTypes, TakesBoolean
<1> QED
  BY <1>5, <1>6, <1>7

\* A new filter has told nobody anything.
LEMMA InstallAnswers ==
  ASSUME IInv, IInv', Answers, Standing, SameWalk, NEW kind \in {"block", "pending", "log"},
         NEW o \in Origin, Install(NewObject(kind), o), NewObject(kind) \in Object,
         o.first = 0, o.last = -1, NEW n, n = Len(filters) + 1,
         \A c \in Client : \/ task'[c] = task[c]
                           \/ task[c].at = "idle" /\ task'[c].at = "resolveFrom" /\ task'[c].id = n,
         \A c, d \in Client : task'[c] # task[c] /\ task'[d] # task[d] => c = d
  PROVE  Answers'
<1>i. Types /\ Types' /\ \A c \in Client : task[c].at # "idle" => task[c].id \in Ids
  BY DEF IInv, Histories
<1>1. /\ Ids' = Ids \union {n} /\ n \notin Ids /\ \A id \in Ids : Stands(id)
      /\ filters'[n] = NewObject(kind) /\ origin'[n] = o /\ reported'[n] = <<>>
  BY <1>i, InstallFacts
<1>2. \A id \in Ids : Advance(id)
  BY <1>i, StandingAdvance
<1>3. ASSUME NEW id \in Ids
      PROVE  Retains(filters'[id], reported'[id]) /\ Told(id)' /\ Complete(id)'
  <2>1. \A c \in Client : Building(c) /\ task[c].id = id => Building(c)' /\ task'[c].id = id
    BY DEF Building
  <2> QED
    BY <1>1, <1>2, <1>i, <2>1, FilterKept DEF Answers
<1>4. filters'[n].events = <<>> /\ filters'[n].pollStart = 0
  BY <1>1 DEF NewObject
<1>5. Retains(filters'[n], reported'[n])
  BY <1>1, <1>4, MaxEventCountAssumption DEF Retains
<1>6. HistoryLength(n)' = 0
  BY <1>1 DEF HistoryLength
<1>7. Told(n)' /\ Complete(n)'
  BY <1>1, <1>6 DEF Told, Complete
<1>8. ASSUME NEW c \in Client PROVE Progress(c)'
  <2>1. CASE task'[c] = task[c]
    BY <1>1, <1>i, <2>1, ProgressKept DEF Answers
  <2>2. CASE task'[c].at = "resolveFrom" /\ task'[c].id = n
    BY <1>4, <2>2 DEF Progress
  <2> QED
    BY <2>1, <2>2
<1>9. OwnFilters'
  BY <1>1, <1>i DEF Answers, OwnFilters
<1> QED
  BY <1>1, <1>3, <1>5, <1>7, <1>8, <1>9 DEF Answers

\* The filter answers a client that knows it.
LEMMA PollAnswers ==
  ASSUME IInv, IInv', Answers, Standing, SameWalk, NEW id \in Ids, Known(id),
         filters' = [filters EXCEPT ![id] = Polled(@)], UNCHANGED <<reported, origin, task>>
  PROVE  Answers'
<1>i. Types /\ Types' /\ \A c \in Client : task[c].at # "idle" => task[c].id \in Ids
  BY DEF IInv, Histories
<1>1. Ids' = Ids /\ filters'[id] = Polled(filters[id]) /\ \A other \in Ids \ {id} : Stands(other)
  BY <1>i, PollFacts
<1>2. \A other \in Ids : Advance(other)
  BY <1>i, StandingAdvance
<1>3. Retains(filters'[id], reported'[id])
  <2>1. filters[id] \in Object /\ reported[id] \in Seq(Event)
    BY <1>i, ElementTypes
  <2> QED
    BY <1>1, <2>1, RetainsPolled DEF Answers
<1>4. Told(id)'
  <2>1. dispatched' \in Nat
    BY <1>i DEF Types
  <2> QED
    BY <1>2, <1>i, <2>1, ToldKept DEF Answers
<1>5. Complete(id)'
  BY DEF Answers, Complete, Building, HistoryLength
<1>6. \A c \in Client : task[c].id # id
  BY DEF Known
<1> QED
  BY <1>1, <1>2, <1>3, <1>4, <1>5, <1>6, <1>i, OneFilter

\* What a call does to its own filter is nobody else's business.
LEMMA CallAnswers ==
  ASSUME IInv, IInv', Answers, Standing, SameWalk, NEW c \in Client, task[c].at # "idle",
         NEW t, TaskStep(c, t), t.at # "idle" => t.id = task[c].id,
         NEW id \in Ids, id = task[c].id, Ids' = Ids,
         \A other \in Ids \ {id} : Stands(other),
         Retains(filters'[id], reported'[id]), Told(id)', Complete(id)', Progress(c)'
  PROVE  Answers'
<1>i. Types /\ Types' /\ \A d \in Client : task[d].at # "idle" => task[d].id \in Ids
  BY DEF IInv, Histories
<1>1. task'[c] = t /\ \A d \in Client \ {c} : task'[d] = task[d]
  BY <1>i, TaskFacts
<1>2. \A other \in Ids : Advance(other)
  BY <1>i, StandingAdvance
<1>3. \A d \in Client : task[d].at # "idle" /\ task[d].id = id => d = c
  BY DEF Answers, OwnFilters
<1>4. \A d \in Client : task'[d].at # "idle" => task[d].at # "idle" /\ task'[d].id = task[d].id
  BY <1>1
<1>5. \A d \in Client : IF task[d].at # "idle" /\ task[d].id = id
                        THEN Progress(d)' ELSE task'[d] = task[d]
  BY <1>1, <1>3
<1> QED
  BY <1>2, <1>4, <1>5, <1>i, OneFilter

\* A read of the chain adds nothing to the filter.
LEMMA ReadsAnswers ==
  ASSUME IInv, IInv', Answers, Standing, SameWalk, NEW c \in Client, Resolves(c),
         NEW t, Reads(c, t)
  PROVE  Answers'
<1>i. Types /\ Types' /\ Histories
  BY DEF IInv
<1>1. task[c].id \in Ids /\ Building(c) /\ task[c].at # "history"
  BY <1>i, ResolveSteps
<1>2. PICK id \in Ids : id = task[c].id
  BY <1>1
<1>3. /\ TaskStep(c, t) /\ t.id = id /\ t.at \in {"resolveTo", "resolveBest"}
      /\ UNCHANGED <<filters, origin, reported, dispatched>>
  BY <1>2 DEF Reads, tableVars, walkVars
<1>4. task'[c] = t
  BY <1>3, <1>i, TaskFacts
<1>5. Ids' = Ids /\ \A other \in Ids : Stands(other)
  BY <1>3, TableStands
<1>6. Retains(filters'[id], reported'[id])
  BY <1>3 DEF Answers
<1>7. Told(id)'
  <2>1. dispatched' \in Nat /\ Advance(id)
    BY <1>i, StandingAdvance DEF Types
  <2> QED
    BY <1>3, <1>i, <2>1, ToldKept DEF Answers
<1>8. Complete(id)'
  BY <1>3, <1>4 DEF Complete, Building
<1>9. Progress(c)'
  <2>1. filters'[id].pollStart = 0
    BY <1>1, <1>2, <1>3 DEF Answers, Progress, Building
  <2> QED
    BY <1>3, <1>4, <2>1 DEF Progress
<1> QED
  BY <1>1, <1>2, <1>3, <1>5, <1>6, <1>7, <1>8, <1>9, CallAnswers DEF Building

\* The range is known, and nothing of it is reported yet.
LEMMA BeginAnswers ==
  ASSUME IInv, IInv', Answers, Standing, SameWalk, NEW c \in Client, Resolves(c),
         NEW n \in 0 .. best, NEW m \in Int, m <= best, BeginHistory(c, n, m)
  PROVE  Answers'
<1> DEFINE t == [task[c] EXCEPT !.at = "history", !.next = n]
<1>i. Types /\ Types' /\ Histories
  BY DEF IInv
<1>0. task[c].id \in Ids /\ Building(c) /\ task[c].at # "history"
  BY <1>i, ResolveSteps
<1>1. /\ origin'[task[c].id] = [origin[task[c].id] EXCEPT !.first = n, !.last = m]
      /\ \A other \in Ids \ {task[c].id} : origin'[other] = origin[other]
      /\ TaskStep(c, t) /\ UNCHANGED <<filters, reported>>
  <2>1. Begun(c, n, m)
    BY <1>0, <1>i, BeginFacts
  <2> QED
    BY <2>1 DEF Begun
<1>2. PICK id \in Ids : id = task[c].id
  BY <1>0
<1>3. Ids' = Ids /\ \A other \in Ids \ {id} : Stands(other)
  BY <1>1, <1>2 DEF Ids, Stands
<1>4. reported[id] = <<>> /\ reported'[id] = <<>>
  BY <1>0, <1>1, <1>2, <1>i DEF Histories, History
<1>5. origin[id] \in Origin /\ task[c] \in Task
  BY <1>i, ElementTypes
<1>6. origin'[id].first = n
  BY <1>1, <1>2, <1>5 DEF Origin
<1>r. n \in Nat
  BY <1>i DEF Types
<1>7. t.at = "history" /\ t.next = n /\ t.id = id
  BY <1>2, <1>5 DEF Task
<1> HIDE DEF t
<1>8. task'[c] = t
  BY <1>1, <1>i, TaskFacts
<1>9. Retains(filters'[id], reported'[id]) /\ Told(id)'
  BY <1>1, <1>4 DEF Answers, Told
<1>10. Complete(id)'
  BY <1>7, <1>8 DEF Complete, Building
<1>11. Progress(c)'
  <2>1. filters'[id].pollStart = 0
    BY <1>0, <1>1, <1>2 DEF Answers, Progress, Building
  <2>2. Len(reported'[id]) = task'[c].next - origin'[id].first
    BY <1>r, <1>4, <1>6, <1>7, <1>8
  <2> QED
    BY <1>7, <1>8, <2>1, <2>2 DEF Progress
<1> QED
  BY <1>0, <1>1, <1>2, <1>3, <1>7, <1>9, <1>10, <1>11, CallAnswers DEF Building

LEMMA ResolveAnswers ==
  ASSUME IInv, IInv', Answers, Standing, SameWalk, NEW c \in Client, Resolves(c)
  PROVE  Answers'
<1>1. Types /\ Histories
  BY DEF IInv
<1>2. \/ \E t : Reads(c, t)
      \/ \E n \in 0 .. best, m \in Int : m <= best /\ BeginHistory(c, n, m)
  BY <1>1, ResolveSteps
<1> QED
  BY <1>2, ReadsAnswers, BeginAnswers

LEMMA AddHistoryAnswers ==
  ASSUME IInv, IInv', Answers, Standing, SameWalk, NEW c \in Client, AddHistory(c)
  PROVE  Answers'
<1> DEFINE k == task[c].next
           t == [task[c] EXCEPT !.next = @ + 1]
<1>i. Types /\ Types' /\ Histories
  BY DEF IInv
<1>1. /\ task[c].id \in Ids /\ task[c].at = "history" /\ Building(c)
      /\ k \in Nat /\ k <= origin[task[c].id].last /\ BlockEvent(k) \in Event
      /\ Ids' = Ids /\ \A other \in Ids \ {task[c].id} : Stands(other)
      /\ origin'[task[c].id] = origin[task[c].id]
      /\ filters'[task[c].id] = Added(filters[task[c].id], BlockEvent(k))
      /\ reported'[task[c].id] = Append(reported[task[c].id], BlockEvent(k))
      /\ TaskStep(c, t)
  BY <1>i, AddHistoryFacts
<1>2. PICK id \in Ids : id = task[c].id
  BY <1>1
<1>3. /\ Retains(filters[id], reported[id]) /\ Told(id) /\ filters[id].pollStart = 0
      /\ Len(reported[id]) = k - origin[id].first
      /\ filters[id] \in Object /\ reported[id] \in Seq(Event) /\ task[c] \in Task
  BY <1>1, <1>2, <1>i, ElementTypes DEF Answers, Progress
<1>4. t.at = "history" /\ t.next = k + 1 /\ t.id = id
  BY <1>1, <1>2, <1>3, TaskAdvanced
<1> HIDE DEF t, k
<1>5. task'[c] = t
  BY <1>1, <1>i, TaskFacts
<1>6. Retains(filters'[id], reported'[id]) /\ filters'[id].pollStart = 0
  BY <1>1, <1>2, <1>3, RetainsAdded
<1>7. Told(id)' /\ Len(reported'[id]) = k + 1 - origin[id].first
  BY <1>1, <1>2, <1>3, <1>i, ToldHistory
<1>8. Complete(id)'
  BY <1>4, <1>5 DEF Complete, Building
<1>9. Progress(c)'
  <2>1. task'[c].at = "history" /\ task'[c].id = id /\ task'[c].next = k + 1
    BY <1>4, <1>5
  <2>2. origin'[id].first = origin[id].first
    BY <1>1, <1>2
  <2>3. Len(reported'[id]) = task'[c].next - origin'[id].first
    <3>1. k \in Nat /\ origin[id].first \in Nat
      BY <1>1, <1>i, HistoryLengthType
    <3> QED
      BY <1>7, <2>1, <2>2, <3>1
  <2> QED
    BY <1>6, <2>1, <2>3 DEF Progress
<1> QED
  BY <1>1, <1>2, <1>4, <1>6, <1>7, <1>8, <1>9, CallAnswers

\* When the flags are set the history is complete.
LEMMA ArmAnswers ==
  ASSUME IInv, IInv', Answers, Standing, SameWalk, NEW c \in Client, Arm(c)
  PROVE  Answers'
<1> DEFINE k == task[c].next
           r == origin[task[c].id].request
           t == IF task[c].once THEN [task[c] EXCEPT !.at = "poll"] ELSE IdleTask
<1>i. Types /\ Types' /\ Histories
  BY DEF IInv
<1>1. /\ task[c].id \in Ids /\ task[c].at = "history" /\ Building(c)
      /\ k \in Nat /\ k > origin[task[c].id].last
      /\ Ids' = Ids /\ \A other \in Ids \ {task[c].id} : Stands(other)
      /\ filters'[task[c].id] = Armed(filters[task[c].id], r)
      /\ filters'[task[c].id].kind = filters[task[c].id].kind
      /\ filters'[task[c].id].onNewBlock = WantsNewBlocks(r)
      /\ origin'[task[c].id].first = origin[task[c].id].first
      /\ origin'[task[c].id].last = origin[task[c].id].last
      /\ origin'[task[c].id].request = r
      /\ TaskStep(c, t) /\ UNCHANGED reported
  BY <1>i, ArmFacts
<1>2. PICK id \in Ids : id = task[c].id
  BY <1>1
<1>3. /\ Retains(filters[id], reported[id]) /\ Told(id) /\ filters[id].pollStart = 0
      /\ Len(reported[id]) = k - origin[id].first
      /\ filters[id] \in Object /\ reported[id] \in Seq(Event) /\ task[c] \in Task
  BY <1>1, <1>2, <1>i, ElementTypes DEF Answers, Progress
<1>4. /\ filters[id].kind = "log"
      /\ k = (IF origin[id].last < origin[id].first THEN origin[id].first ELSE origin[id].last + 1)
  BY <1>1, <1>2, <1>i DEF Histories, History
<1>5. Len(reported[id]) = HistoryLength(id)
  <2>1. origin[id].first \in Nat /\ origin[id].last \in Int
    BY <1>i, HistoryLengthType
  <2> HIDE DEF k
  <2> QED
    BY <1>3, <1>4, <2>1 DEF HistoryLength
<1>6. /\ t.at # "idle" => t.at = "poll" /\ t.id = id
      /\ t.at \notin {"resolveFrom", "resolveTo", "resolveBest", "history", "uninstall"}
  BY <1>2, <1>3 DEF IdleTask, Task
<1> HIDE DEF t, k, r
<1>7. task'[c] = t
  BY <1>1, <1>i, TaskFacts
<1>8. /\ Retains(filters'[id], reported'[id]) /\ filters'[id].pollStart = 0
      /\ filters'[id].onPendingTx = WantsPending(r)
  BY <1>1, <1>2, <1>3, RetainsArmed
<1>9. HistoryLength(id)' = HistoryLength(id)
  BY <1>1, <1>2 DEF HistoryLength
<1>10. Told(id)'
  <2>1. dispatched' \in Nat /\ Advance(id)
    BY <1>i, StandingAdvance DEF Types
  <2> QED
    BY <1>1, <1>2, <1>3, <1>i, <2>1, ToldKept
<1>11. Complete(id)'
  <2>1. HistoryLength(id) \in Nat
    BY <1>i, HistoryLengthType
  <2> QED
    BY <1>1, <1>5, <1>9, <2>1 DEF Complete
<1>12. Progress(c)'
  <2>1. CASE t.at = "idle"
    BY <1>7, <2>1, IdleProgress
  <2>2. CASE t.at # "idle"
    <3>1. t.at = "poll" /\ t.id = id
      BY <1>6, <2>2
    <3>2. Len(reported'[id]) = HistoryLength(id)'
      BY <1>1, <1>5, <1>9
    <3> QED
      BY <1>1, <1>2, <1>4, <1>7, <1>8, <3>1, <3>2 DEF Progress
  <2> QED
    BY <2>1, <2>2
<1> QED
  BY <1>1, <1>2, <1>6, <1>8, <1>10, <1>11, <1>12, CallAnswers

\* A closed range: the first poll of its filter returns what was retained of it.
LEMMA WholeRange ==
  ASSUME Types, NEW id \in Ids, Retains(filters[id], reported[id]), Told(id),
         Len(reported[id]) = HistoryLength(id)
  PROVE  filters[id].events = RangeAnswer(id)
<1> DEFINE ev == filters[id].events
           told == reported[id]
           h == HistoryLength(id)
           a == origin[id].first
           b == origin[id].last
           start == IF h > MaxEventCount THEN b - MaxEventCount + 1 ELSE a
<1>1. /\ h \in Nat /\ a \in Nat /\ b \in Int /\ MaxEventCount \in Nat \ {0}
      /\ h = IF b < a THEN 0 ELSE b - a + 1
  BY HistoryLengthType, MaxEventCountAssumption DEF HistoryLength
<1>2. ev \in Seq(Event) /\ Len(ev) \in Nat /\ told \in Seq(Event) /\ Len(told) = h
  BY ElementTypes DEF Object
<1>3. /\ Len(ev) <= MaxEventCount /\ Len(ev) <= h /\ (Len(ev) < h => Len(ev) = MaxEventCount)
      /\ \A i \in 1 .. Len(ev) : ev[i] = told[h - Len(ev) + i]
  BY DEF Retains
<1>4. \A i \in 1 .. h : told[i] = BlockEvent(a + i - 1)
  BY <1>1, <1>2 DEF Told
<1>5. RangeAnswer(id) = [i \in 1 .. b - start + 1 |-> BlockEvent(start + i - 1)]
  <2>1. b - a + 1 > MaxEventCount <=> h > MaxEventCount
    BY <1>1
  <2> HIDE DEF h, a, b
  <2> QED
    BY <2>1 DEF RangeAnswer, NewestLogs, a, b
<1>6. ev = [i \in 1 .. Len(ev) |-> ev[i]]
  BY <1>2
<1> HIDE DEF ev, told, h, a, b
<1>7. 1 .. b - start + 1 = 1 .. Len(ev)
  <2>1. CASE b < a
    <3>1. h = 0 /\ Len(ev) = 0 /\ start = a
      BY <1>1, <1>2, <1>3, <2>1
    <3> QED
      BY <1>1, <2>1, <3>1
  <2>2. CASE ~(b < a)
    <3>1. Len(ev) = b - start + 1
      BY <1>1, <1>2, <1>3, <2>2
    <3> QED
      BY <3>1
  <2> QED
    BY <2>1, <2>2
<1>8. ASSUME NEW i \in 1 .. Len(ev)
      PROVE  ev[i] = BlockEvent(start + i - 1)
  <2>1. h - Len(ev) + i \in 1 .. h
    BY <1>1, <1>2, <1>3
  <2>2. ev[i] = BlockEvent(a + (h - Len(ev) + i) - 1)
    BY <1>3, <1>4, <2>1
  <2>3. a + (h - Len(ev) + i) - 1 = start + i - 1
    <3> DEFINE m == Len(ev)
    <3>1. /\ m \in Nat /\ m <= MaxEventCount /\ m <= h /\ (m < h => m = MaxEventCount)
          /\ i \in Nat /\ 1 <= i /\ i <= m
      BY <1>2, <1>3
    <3> HIDE DEF m
    <3>2. h - m + a = start
      BY <1>1, <3>1
    <3>3. a + (h - m + i) - 1 = (h - m + a) + i - 1
      BY <1>1, <3>1
    <3> QED
      BY <3>2, <3>3 DEF m
  <2> QED
    BY <2>2, <2>3
<1> HIDE DEF start
<1> QED
  BY <1>5, <1>6, <1>7, <1>8 DEF ev

LEMMA GetLogsPollAnswers ==
  ASSUME IInv, IInv', Answers, Standing, SameWalk, NEW c \in Client, GetLogsPoll(c)
  PROVE  Answers'
<1> DEFINE t == [task[c] EXCEPT !.at = "uninstall", !.answer = Unread(filters[task[c].id])]
<1>i. Types /\ Types' /\ Histories
  BY DEF IInv
<1>1. /\ task[c].id \in Ids /\ Ids' = Ids /\ \A other \in Ids \ {task[c].id} : Stands(other)
      /\ filters'[task[c].id] = Polled(filters[task[c].id])
      /\ Untouched(task[c].id)
      /\ TaskStep(c, t) /\ UNCHANGED <<reported, origin>>
  BY <1>i, GetLogsPollFacts
<1>2. task[c].at = "poll"
  BY DEF GetLogsPoll
<1>3. PICK id \in Ids : id = task[c].id
  BY <1>1
<1>4. /\ Retains(filters[id], reported[id]) /\ Told(id) /\ Complete(id)
      /\ filters[id].pollStart = 0
      /\ filters[id].kind = "log"
      /\ filters[id].onNewBlock = WantsNewBlocks(origin[id].request)
      /\ filters[id].onPendingTx = WantsPending(origin[id].request)
      /\ Closed(id) => Len(reported[id]) = HistoryLength(id)
      /\ filters[id] \in Object /\ reported[id] \in Seq(Event) /\ task[c] \in Task
  BY <1>2, <1>3, <1>i, ElementTypes DEF Answers, Progress
<1>5. t.at = "uninstall" /\ t.answer = Unread(filters[id]) /\ t.id = id
  BY <1>3, <1>4 DEF Task
<1> HIDE DEF t
<1>6. task'[c] = t
  BY <1>1, <1>i, TaskFacts
<1>7. Retains(filters'[id], reported'[id])
  BY <1>1, <1>3, <1>4, RetainsPolled
<1>8. Told(id)'
  <2>1. dispatched' \in Nat /\ Advance(id)
    BY <1>i, StandingAdvance DEF Types
  <2> QED
    BY <1>1, <1>4, <1>i, <2>1, ToldKept
<1>9. HistoryLength(id)' = HistoryLength(id) /\ (Closed(id)' <=> Closed(id))
      /\ RangeAnswer(id)' = RangeAnswer(id)
  BY <1>1 DEF HistoryLength, Closed, RangeAnswer
<1>10. Complete(id)'
  <2>1. \A d \in Client : Building(d) => task[d].id # id
    <3>1. ~Building(c)
      BY <1>2 DEF Building
    <3> QED
      BY <1>2, <1>3, <3>1 DEF Answers, OwnFilters, Building
  <2> QED
    BY <1>1, <1>4, <1>9, <2>1 DEF Complete
<1>11. Closed(id) => t.answer = RangeAnswer(id)
  BY <1>4, <1>5, <1>i, UnreadWhole, WholeRange
<1>12. Progress(c)'
  <2>1. /\ filters'[id].kind = "log"
        /\ filters'[id].onNewBlock = WantsNewBlocks(origin'[id].request)
        /\ filters'[id].onPendingTx = WantsPending(origin'[id].request)
        /\ Closed(id)' => Len(reported'[id]) = HistoryLength(id)'
    BY <1>1, <1>3, <1>4, <1>9 DEF Untouched, Alike
  <2>2. Closed(id)' => task'[c].answer = RangeAnswer(id)'
    BY <1>6, <1>9, <1>11
  <2> QED
    BY <1>5, <1>6, <2>1, <2>2 DEF Progress
<1> QED
  BY <1>1, <1>2, <1>3, <1>5, <1>7, <1>8, <1>10, <1>12, CallAnswers

LEMMA StartAnswers ==
  ASSUME IInv, IInv', Answers, NEW c \in Client, StartCall(c)
  PROVE  Answers'
<1> USE DEF chainVars, tableVars, walkVars
<1>i. Types /\ Types' /\ Histories
  BY DEF IInv
<1>0. Standing /\ SameWalk
  BY <1>i, ClientsStanding
<1>s. ASSUME UNCHANGED <<filters, reported, origin, task>> PROVE Answers'
  BY <1>0, <1>i, <1>s, TableStands, StandingAdvance, FiltersStand DEF Histories
<1>1. CASE eth_newBlockFilter(c)
  <2>1. PICK o \in Origin : /\ Install(NewObject("block"), o) /\ NewObject("block") \in Object
                            /\ o.first = 0 /\ o.last = -1 /\ UNCHANGED <<chainVars, task>>
    BY <1>1, <1>i, NewFilterFacts
  <2> QED
    BY <1>0, <2>1, InstallAnswers
<1>2. CASE eth_newPendingTransactionFilter(c)
  <2>1. PICK o \in Origin : /\ Install(NewObject("pending"), o) /\ NewObject("pending") \in Object
                            /\ o.first = 0 /\ o.last = -1 /\ UNCHANGED <<chainVars, task>>
    BY <1>2, <1>i, NewFilterFacts
  <2> QED
    BY <1>0, <2>1, InstallAnswers
<1>3. ASSUME NEW r \in Request, NEW b \in BOOLEAN, eth_newFilter(c, r, b)
      PROVE  Answers'
  <2>1. PICK o, t :
          /\ o \in Origin
          /\ Install(NewObject("log"), o) /\ NewObject("log") \in Object
          /\ o.first = 0 /\ o.last = -1
          /\ TaskStep(c, t) /\ t.at = "resolveFrom" /\ t.id = Len(filters) + 1
    BY <1>3, <1>i, NewFilterFacts
  <2>2. task'[c] = t /\ \A d \in Client \ {c} : task'[d] = task[d]
    BY <1>i, <2>1, TaskFacts
  <2>3. task[c].at = "idle"
    BY <1>3 DEF eth_newFilter
  <2> QED
    BY <1>0, <2>1, <2>2, <2>3, InstallAnswers
<1>4. ASSUME NEW id \in Ids, eth_uninstallFilter(c, id) PROVE Answers'
  BY <1>4, <1>s DEF eth_uninstallFilter
<1>5. ASSUME NEW id \in Ids, eth_getFilterChanges(c, id) PROVE Answers'
  <2>1. /\ Known(id) /\ UNCHANGED <<reported, origin, task>>
        /\ (filters' = filters \/ filters' = [filters EXCEPT ![id] = Polled(@)])
    BY <1>5 DEF eth_getFilterChanges
  <2> QED
    BY <1>0, <1>s, <2>1, PollAnswers
<1>6. ASSUME NEW tx \in Tx, ethj_getTransactionReceipt(c, tx) PROVE Answers'
  BY <1>6, <1>s DEF ethj_getTransactionReceipt
<1> QED
  BY <1>1, <1>2, <1>3, <1>4, <1>5, <1>6 DEF StartCall

LEMMA AnswersStep == IInv /\ IInv' /\ Answers /\ [Next]_vars => Answers'
<1> SUFFICES ASSUME IInv, IInv', Answers, [Next]_vars PROVE Answers'
  OBVIOUS
<1> USE DEF chainVars, tableVars, walkVars
<1>i. Types /\ Types' /\ Histories
  BY DEF IInv
<1>k. ASSUME UNCHANGED <<tableVars, walk, dispatched, task>> PROVE Answers'
  BY <1>i, <1>k, TableStands, KeptWalkAdvance, FiltersStand DEF Histories
<1>0. CASE UNCHANGED vars
  BY <1>0, <1>k DEF vars
<1>1. CASE ImportBlock
  BY <1>1, <1>k DEF ImportBlock
<1>2. ASSUME NEW tx \in Tx, RaisePending(tx) PROVE Answers'
  BY <1>2, <1>k DEF RaisePending
<1>3. CASE BeginWalk
  BY <1>3, BeginWalkAnswers
<1>4. ASSUME NEW id \in Ids, Visit(id) PROVE Answers'
  BY <1>4, VisitAnswers
<1>5. CASE EndWalk
  BY <1>5, EndWalkAnswers
<1>6. ASSUME NEW c \in Client, StartCall(c) PROVE Answers'
  BY <1>6, StartAnswers
<1>7. ASSUME NEW c \in Client, Call(c) PROVE Answers'
  <2>0. Standing /\ SameWalk
    BY <1>7, <1>i, ClientsStanding
  <2>1. CASE GetLogsUninstall(c)
    <3>1. /\ UNCHANGED <<filters, reported, origin>> /\ task[c].at = "uninstall"
          /\ TaskStep(c, IdleTask)
      BY <2>1 DEF GetLogsUninstall, TaskStep
    <3>2. task'[c].at = "idle" /\ ~Building(c) /\ \A d \in Client \ {c} : task'[d] = task[d]
      BY <1>i, <3>1, TaskFacts DEF IdleTask, Building
    <3> QED
      BY <1>i, <2>0, <3>1, <3>2, TableStands, StandingAdvance, FiltersStand DEF Histories
  <2> QED
    BY <1>7, <2>0, <2>1, ResolveAnswers, AddHistoryAnswers, ArmAnswers, GetLogsPollAnswers
       DEF Call, Resolves
<1> QED
  BY <1>0, <1>1, <1>2, <1>3, <1>4, <1>5, <1>6, <1>7 DEF Next, Listener

LEMMA InitAnswers == Init => Answers
  BY DEF Init, Answers, Ids, Progress, OwnFilters, IdleTask

-----------------------------------------------------------------------------
\* Where a closed range begins and ends.

\* The first block as a call has read it: -1, or the number the request names.
FromRead(o, n) ==
  IF n = -1 THEN FromBlock(o.request) = None \/ NumberOf(FromBlock(o.request)) > o.askedAt
  ELSE FromBlock(o.request) # None /\ n = NumberOf(FromBlock(o.request))

\* The last block that was read: the one named, or the best one of a time when
\* that one was not there yet.
LastRead(o, last) ==
  IF NumberOf(ToBlock(o.request)) <= o.askedAt THEN last = NumberOf(ToBlock(o.request))
  ELSE last >= o.askedAt

RangeRead(o) ==
  \/ o.first = 0 /\ o.last = -1 /\ FromRead(o, -1)
  \/ o.first # -1 /\ FromRead(o, o.first) /\ o.last \in 0 .. best /\ LastRead(o, o.last)

\* How far a call has come with its range.
ClosedSoFar(c) ==
  LET o == origin[task[c].id]
  IN  /\ task[c].at \in {"resolveTo", "resolveBest"} => FromRead(o, task[c].next)
      /\ task[c].at = "resolveBest" =>
           task[c].next # -1 /\ NumberOf(ToBlock(o.request)) > o.askedAt
      /\ task[c].at \in {"history", "poll", "uninstall"} => RangeRead(o)

Ranged(c) ==
  task[c].at # "idle" =>
    /\ origin[task[c].id].request \in Request
    /\ origin[task[c].id].askedAt <= best
    /\ Closed(task[c].id) => ClosedSoFar(c)

Ranges == \A c \in Client : Ranged(c)

\* A closed request names its blocks by their numbers, if it names any.
LEMMA ClosedBlocks ==
  ASSUME NEW r \in Request, IsClosed(r), best \in Nat
  PROVE  LET from == FromBlock(r)
             to   == ToBlock(r)
         IN  /\ from # None => NumberOf(from) \in Nat /\ NullableBlock(from) =
                  IF NumberOf(from) <= best THEN NumberOf(from) ELSE -1
             /\ from = None => NullableBlock(from) = -1
             /\ NumberOf(to) \in Nat
             /\ NullableBlock(to) = IF NumberOf(to) <= best THEN NumberOf(to) ELSE -1
             /\ r.blockHash # None => to = from
<1>1. /\ {r.fromBlock, r.toBlock, r.blockHash} \subseteq BlockId \union {None}
      /\ r.blockHash # None => r.blockHash.tag = "number"
  BY RegistryAssumption
<1>2. /\ r.toBlock # None
      /\ r.fromBlock # None => r.fromBlock.tag \notin {"latest", "pending"}
      /\ r.toBlock.tag \notin {"latest", "pending"}
  BY DEF IsClosed, WantsNewBlocks, WantsPending, HasTag
<1>3. ASSUME NEW id \in BlockId, id.tag \notin {"latest", "pending"}, id # None
      PROVE  /\ NumberOf(id) \in Nat
             /\ NullableBlock(id) = IF NumberOf(id) <= best THEN NumberOf(id) ELSE -1
  <2>1. CASE id.tag = "earliest"
    BY <1>3, <2>1 DEF NumberOf, NullableBlock, Resolve
  <2>2. CASE id.tag = "number"
    <3>1. id.number \in Nat
      BY <2>2 DEF BlockId
    <3> QED
      BY <1>3, <2>2, <3>1 DEF NumberOf, NullableBlock, Resolve
  <2> QED
    BY <1>3, <2>1, <2>2 DEF BlockId
<1>4. FromBlock(r) # None => FromBlock(r) \in BlockId /\ FromBlock(r).tag \notin {"latest", "pending"}
  BY <1>1, <1>2 DEF FromBlock
<1>5. ToBlock(r) # None /\ ToBlock(r) \in BlockId /\ ToBlock(r).tag \notin {"latest", "pending"}
  BY <1>1, <1>2 DEF ToBlock
<1>6. NullableBlock(None) = -1
  BY DEF NullableBlock
<1>7. r.blockHash # None => ToBlock(r) = FromBlock(r)
  BY DEF FromBlock, ToBlock
<1> QED
  BY <1>3, <1>4, <1>5, <1>6, <1>7

\* A step that leaves the range of a filter as it is.
SameRange(id) ==
  /\ origin'[id].request = origin[id].request /\ origin'[id].askedAt = origin[id].askedAt
  /\ origin'[id].first = origin[id].first /\ origin'[id].last = origin[id].last

LEMMA RangedKept ==
  ASSUME Types, Types', best <= best', NEW d \in Client, Ranged(d),
         task[d].at # "idle" => task[d].id \in Ids,
         task'[d].at # "idle" =>
           /\ task[d].at # "idle" /\ task'[d].id = task[d].id /\ SameRange(task[d].id)
           /\ \/ task'[d] = task[d]
              \/ {task[d].at, task'[d].at} \subseteq {"history", "poll", "uninstall"}
  PROVE  Ranged(d)'
<1> SUFFICES ASSUME task'[d].at # "idle" PROVE Ranged(d)'
  BY DEF Ranged
<1>1. PICK id \in Ids : id = task[d].id
  OBVIOUS
<1>2. /\ SameRange(id) /\ task'[d].id = id
      /\ origin[id].request \in Request /\ origin[id].askedAt <= best
      /\ Closed(id) => ClosedSoFar(d)
  BY <1>1 DEF Ranged
<1>3. best \in Nat /\ best' \in Nat /\ origin[id].askedAt \in Nat /\ origin[id].last \in Int
  <2>1. origin[id] \in Origin
    BY ElementTypes
  <2>2. best \in Nat /\ best' \in Nat
    BY DEF Types
  <2> QED
    BY <2>1, <2>2 DEF Origin
<1>4. origin'[id].request \in Request /\ origin'[id].askedAt <= best'
  BY <1>2, <1>3 DEF SameRange
<1>5. Closed(id)' <=> Closed(id)
  BY <1>2 DEF Closed, SameRange
<1>6. RangeRead(origin[id]) => RangeRead(origin[id])'
  <2>1. \A n : FromRead(origin[id], n) <=> FromRead(origin'[id], n)
    BY <1>2 DEF SameRange, FromRead
  <2>2. \A n : LastRead(origin[id], n) <=> LastRead(origin'[id], n)
    BY <1>2 DEF SameRange, LastRead
  <2> QED
    BY <1>2, <1>3, <2>1, <2>2 DEF SameRange, RangeRead
<1>7. ClosedSoFar(d) => ClosedSoFar(d)'
  <2>1. CASE task'[d] = task[d]
    BY <1>1, <1>2, <1>6, <2>1 DEF ClosedSoFar, SameRange, FromRead
  <2>2. CASE {task[d].at, task'[d].at} \subseteq {"history", "poll", "uninstall"}
    BY <1>1, <1>2, <1>6, <2>2 DEF ClosedSoFar
  <2> QED
    BY <2>1, <2>2
<1> QED
  BY <1>2, <1>4, <1>5, <1>7 DEF Ranged

LEMMA InitRanges == Init => Ranges
  BY DEF Init, Ranges, Ranged, IdleTask

LEMMA BegunRange ==
  ASSUME Types, NEW c \in Client, task[c].id \in Ids,
         NEW n \in 0 .. best, NEW m \in Int, m <= best, BeginHistory(c, n, m)
  PROVE  /\ task'[c].at = "history" /\ task'[c].id = task[c].id /\ best' = best
         /\ origin'[task[c].id].first = n /\ origin'[task[c].id].last = m
         /\ origin'[task[c].id].request = origin[task[c].id].request
         /\ origin'[task[c].id].askedAt = origin[task[c].id].askedAt
<1> DEFINE moved == [task[c] EXCEPT !.at = "history", !.next = n]
<1>1. Begun(c, n, m)
  BY BeginFacts
<1>2. /\ origin'[task[c].id] = [origin[task[c].id] EXCEPT !.first = n, !.last = m]
      /\ TaskStep(c, moved) /\ best' = best
  BY <1>1 DEF Begun, chainVars
<1>3. task[c] \in Task /\ origin[task[c].id] \in Origin /\ n \in Nat
  BY ElementTypes DEF Types
<1>4. moved.at = "history" /\ moved.id = task[c].id
  BY <1>3, TaskMoved
<1> HIDE DEF moved
<1>5. task'[c] = moved
  BY <1>2, TaskFacts
<1> QED
  BY <1>2, <1>3, <1>4, <1>5 DEF Origin

\* A call that begins its history has read its range.
LEMMA BegunRanged ==
  ASSUME Types, NEW c \in Client, task[c].id \in Ids,
         NEW n \in 0 .. best, NEW m \in Int, m <= best, BeginHistory(c, n, m),
         origin[task[c].id].request \in Request, origin[task[c].id].askedAt <= best,
         Closed(task[c].id) =>
           \/ n = 0 /\ m = -1 /\ FromRead(origin[task[c].id], -1)
           \/ FromRead(origin[task[c].id], n) /\ m \in 0 .. best /\ LastRead(origin[task[c].id], m)
  PROVE  Ranged(c)'
<1> DEFINE o == origin[task[c].id]
           p == origin'[task[c].id]
<1>1. /\ task'[c].at = "history" /\ task'[c].id = task[c].id /\ best' = best
      /\ p.first = n /\ p.last = m /\ p.request = o.request /\ p.askedAt = o.askedAt
  BY BegunRange
<1>2. n # -1
  BY DEF Types
<1>3. Closed(task[c].id)' => Closed(task[c].id)
  BY <1>1 DEF Closed
<1>4. FromRead(p, -1) <=> FromRead(o, -1)
  BY <1>1 DEF FromRead
<1>5. FromRead(p, n) <=> FromRead(o, n)
  BY <1>1 DEF FromRead
<1>6. LastRead(p, m) <=> LastRead(o, m)
  BY <1>1 DEF LastRead
<1>7. Closed(task[c].id) => RangeRead(origin[task[c].id])'
  BY <1>1, <1>2, <1>4, <1>5, <1>6 DEF RangeRead
<1> QED
  BY <1>1, <1>3, <1>7 DEF Ranged, ClosedSoFar

LEMMA ResolveRanged ==
  ASSUME Types, Histories, NEW c \in Client, Ranged(c), Resolves(c)
  PROVE  Ranged(c)'
<1> DEFINE id   == task[c].id
           o    == origin[id]
           r    == o.request
           from == task[c].next
<1>1. id \in Ids /\ Building(c) /\ task[c].at # "history" /\ task[c].at # "idle"
  <2>1. id \in Ids /\ Building(c) /\ task[c].at # "history"
    BY ResolveSteps
  <2> QED
    BY <2>1 DEF Building
<1>2. /\ r \in Request /\ o.askedAt <= best /\ (Closed(id) => ClosedSoFar(c)) /\ History(c)
  BY <1>1 DEF Ranged, Histories
<1>3. best \in Nat /\ o.askedAt \in Nat /\ task[c] \in Task
  BY <1>1, ElementTypes DEF Types, Origin
<1>4. {FromBlock(r), ToBlock(r), r.toBlock} \subseteq BlockId \union {None}
  BY <1>2, RegistryAssumption DEF FromBlock, ToBlock
<1>5. Closed(id) =>
        /\ FromBlock(r) # None => NumberOf(FromBlock(r)) \in Nat /\ NullableBlock(FromBlock(r)) =
             IF NumberOf(FromBlock(r)) <= best THEN NumberOf(FromBlock(r)) ELSE -1
        /\ FromBlock(r) = None => NullableBlock(FromBlock(r)) = -1
        /\ NumberOf(ToBlock(r)) \in Nat
        /\ NullableBlock(ToBlock(r)) =
             IF NumberOf(ToBlock(r)) <= best THEN NumberOf(ToBlock(r)) ELSE -1
        /\ r.blockHash # None => ToBlock(r) = FromBlock(r)
  BY <1>2, <1>3, ClosedBlocks DEF Closed
\* A read of the chain that leaves the filter's range open.
<1>r. ASSUME NEW t, TaskStep(c, t), t.id = id, t.at \in {"resolveTo", "resolveBest"},
             origin' = origin, best' = best,
             Closed(id) => /\ FromRead(o, t.next)
                           /\ t.at = "resolveBest" => t.next # -1 /\ NumberOf(ToBlock(r)) > o.askedAt
      PROVE  Ranged(c)'
  <2>1. task'[c] = t
    BY <1>r, TaskFacts
  <2>2. Closed(id)' => Closed(id)
    BY <1>r, <2>1 DEF Closed
  <2> QED
    BY <1>2, <1>r, <2>1, <2>2 DEF Ranged, ClosedSoFar, FromRead
<1>6. CASE ResolveFrom(c)
  <2> DEFINE n == NullableBlock(FromBlock(r))
             t == [task[c] EXCEPT !.at = "resolveTo", !.next = n]
  <2>1. n \in Int
    <3>1. n \in -1 .. best
      BY <1>3, <1>4, ResolvedType
    <3> QED
      BY <1>3, <3>1
  <2>2. task' = [task EXCEPT ![c].at = "resolveTo", ![c].next = n] /\ origin' = origin /\ best' = best
    BY <1>6 DEF ResolveFrom, chainVars, tableVars
  <2>3. Closed(id) => FromRead(o, n)
    BY <1>2, <1>3, <1>5 DEF FromRead
  <2> HIDE DEF n
  <2>4. TaskStep(c, t)
    BY <2>2 DEF TaskStep, Types
  <2>5. t.at = "resolveTo" /\ t.next = n /\ t.id = id
    BY <1>3, <2>1, TaskRead, Zenon
  <2> QED
    BY <1>r, <2>2, <2>3, <2>4, <2>5
<1>7. CASE ResolveTo(c)
  <2> DEFINE to == IF r.blockHash # None THEN from ELSE NullableBlock(r.toBlock)
  <2>1. from \in -1 .. best
    BY <1>2, <1>7 DEF ResolveTo, History
  <2>2. to \in -1 .. best
    BY <1>3, <1>4, <2>1, ResolvedType
  <2>3. \/ from = -1 /\ BeginHistory(c, 0, -1)
        \/ from # -1 /\ to # -1 /\ BeginHistory(c, from, to)
        \/ /\ from # -1 /\ to = -1
           /\ task' = [task EXCEPT ![c].at = "resolveBest"]
           /\ UNCHANGED <<chainVars, tableVars, walkVars>>
    BY <1>7 DEF ResolveTo
  <2>4. Closed(id) => FromRead(o, from)
    BY <1>2, <1>7 DEF ResolveTo, ClosedSoFar
  <2>5. Closed(id) /\ from # -1 =>
          IF NumberOf(ToBlock(r)) <= o.askedAt THEN to = NumberOf(ToBlock(r))
          ELSE to = -1 \/ to >= o.askedAt
    <3>1. CASE r.blockHash # None
      BY <1>2, <1>3, <1>5, <2>4, <3>1 DEF FromRead
    <3>2. CASE r.blockHash = None
      <4>1. ToBlock(r) = r.toBlock
        BY <3>2 DEF ToBlock
      <4> QED
        BY <1>2, <1>3, <1>5, <3>2, <4>1
    <3> QED
      BY <3>1, <3>2
  <2>6. Closed(id) => NumberOf(ToBlock(r)) \in Nat
    BY <1>5
  <2> HIDE DEF to
  <2>7. CASE from = -1 /\ BeginHistory(c, 0, -1)
    <3>1. 0 \in 0 .. best /\ -1 \in Int /\ -1 <= best
      BY <1>3
    <3>2. Closed(id) => FromRead(o, -1)
      BY <2>4, <2>7
    <3> QED
      BY <1>1, <1>2, <2>7, <3>1, <3>2, BegunRanged
  <2>8. CASE from # -1 /\ to # -1 /\ BeginHistory(c, from, to)
    <3>1. from \in 0 .. best /\ to \in Int /\ to <= best /\ to \in 0 .. best
      BY <1>3, <2>1, <2>2, <2>8
    <3>2. Closed(id) => LastRead(o, to)
      BY <2>5, <2>8 DEF LastRead
    <3> QED
      BY <1>1, <1>2, <2>4, <2>8, <3>1, <3>2, BegunRanged
  <2>9. CASE /\ from # -1 /\ to = -1
             /\ task' = [task EXCEPT ![c].at = "resolveBest"]
             /\ UNCHANGED <<chainVars, tableVars, walkVars>>
    <3> DEFINE t == [task[c] EXCEPT !.at = "resolveBest"]
    <3>1. TaskStep(c, t) /\ origin' = origin /\ best' = best
      BY <2>9 DEF TaskStep, Types, tableVars, chainVars
    <3>2. t.at = "resolveBest" /\ t.next = from /\ t.id = id
      <4>1. 0 \in Int
        OBVIOUS
      <4> QED
        BY <1>3, <4>1, TaskRead, Zenon
    <3>3. Closed(id) => NumberOf(ToBlock(r)) > o.askedAt
      BY <1>3, <2>5, <2>6, <2>9
    <3> HIDE DEF t
    <3> QED
      BY <1>r, <2>4, <2>9, <3>1, <3>2, <3>3
  <2> QED
    BY <2>3, <2>7, <2>8, <2>9
<1>8. CASE ResolveBest(c)
  <2>1. from \in 0 .. best /\ BeginHistory(c, from, best) /\ task[c].at = "resolveBest"
    BY <1>2, <1>8 DEF ResolveBest, History
  <2>2. best \in Int /\ best <= best /\ best \in 0 .. best
    BY <1>3
  <2>3. Closed(id) => FromRead(o, from) /\ NumberOf(ToBlock(r)) > o.askedAt
    BY <1>2, <2>1 DEF ClosedSoFar
  <2>4. Closed(id) => LastRead(o, best)
    BY <1>2, <1>3, <1>5, <2>3 DEF LastRead
  <2> QED
    BY <1>1, <1>2, <2>1, <2>2, <2>3, <2>4, BegunRanged
<1> QED
  BY <1>6, <1>7, <1>8 DEF Resolves

LEMMA RangesStep == Types /\ Types' /\ Histories /\ OwnFilters /\ Ranges /\ [Next]_vars => Ranges'
<1> SUFFICES ASSUME Types, Types', Histories, OwnFilters, Ranges, [Next]_vars PROVE Ranges'
  OBVIOUS
<1> USE DEF chainVars, tableVars, walkVars
<1>h. best \in Nat /\ \A d \in Client : task[d].at # "idle" => task[d].id \in Ids
  BY DEF Types, Histories
\* The steps of the node and of the listener, and those of a call that ends or
\* has its range.
<1>k. ASSUME best <= best', NEW d \in Client,
             task'[d].at # "idle" =>
               /\ task[d].at # "idle" /\ task'[d].id = task[d].id
               /\ task[d].id \in Ids => SameRange(task[d].id)
               /\ \/ task'[d] = task[d]
                  \/ {task[d].at, task'[d].at} \subseteq {"history", "poll", "uninstall"}
      PROVE  Ranged(d)'
  BY <1>h, <1>k, RangedKept DEF Ranges
<1>s. ASSUME best <= best', UNCHANGED <<origin, task>> PROVE Ranges'
  BY <1>s, <1>k DEF Ranges, SameRange
\* A thread's step within its call, which no other call's filter sees.
<1>c. ASSUME NEW c \in Client, NEW t, TaskStep(c, t), best' = best, task[c].at # "idle",
             \A other \in Ids \ {task[c].id} : origin'[other] = origin[other], Ranged(c)'
      PROVE  Ranges'
  <2>1. ASSUME NEW d \in Client \ {c} PROVE Ranged(d)'
    <3>1. task'[d] = task[d]
      BY <1>c, TaskFacts
    <3>2. task[d].at # "idle" => task[d].id \in Ids \ {task[c].id}
      BY <1>c, <1>h DEF OwnFilters
    <3>3. task[d].at # "idle" => SameRange(task[d].id)
      BY <1>c, <3>2 DEF SameRange
    <3> QED
      BY <1>c, <1>h, <1>k, <3>1, <3>3
  <2> QED
    BY <1>c, <2>1 DEF Ranges
<1>0. CASE UNCHANGED vars
  BY <1>0, <1>h, <1>s DEF vars
<1>1. CASE ImportBlock
  BY <1>1, <1>h, <1>s DEF ImportBlock
<1>2. ASSUME NEW tx \in Tx, RaisePending(tx) PROVE Ranges'
  BY <1>2, <1>h, <1>s DEF RaisePending
<1>3. CASE BeginWalk
  BY <1>3, <1>h, <1>s DEF BeginWalk
<1>4. ASSUME NEW id \in Ids, Visit(id) PROVE Ranges'
  BY <1>4, <1>h, <1>s DEF Visit
<1>5. CASE EndWalk
  BY <1>5, <1>h, <1>s DEF EndWalk
<1>6. ASSUME NEW c \in Client, StartCall(c) PROVE Ranges'
  <2>1. ASSUME NEW object \in Object, NEW o \in Origin, Install(object, o), best' = best,
               UNCHANGED task
        PROVE  Ranges'
    BY <1>h, <1>k, <2>1, InstallFacts DEF Ranges, SameRange, Stands
  <2>2. CASE eth_newBlockFilter(c)
    BY <2>1, <2>2, NewFilterFacts
  <2>3. CASE eth_newPendingTransactionFilter(c)
    BY <2>1, <2>3, NewFilterFacts
  <2>4. ASSUME NEW r \in Request, NEW b \in BOOLEAN, eth_newFilter(c, r, b) PROVE Ranges'
    <3>1. PICK o, t : /\ o \in Origin /\ Install(NewObject("log"), o) /\ NewObject("log") \in Object
                      /\ o.request = r /\ o.askedAt = best
                      /\ TaskStep(c, t) /\ t.at = "resolveFrom" /\ t.id = Len(filters) + 1
                      /\ best' = best
      BY <2>4, NewFilterFacts
    <3>2. task'[c] = t /\ \A d \in Client \ {c} : task'[d] = task[d]
      BY <3>1, TaskFacts
    <3>3. origin'[Len(filters) + 1] = o /\ \A id \in Ids : Stands(id)
      BY <3>1, InstallFacts
    <3>4. Ranged(c)'
      BY <1>h, <3>1, <3>2, <3>3 DEF Ranged, ClosedSoFar
    <3>5. ASSUME NEW d \in Client \ {c} PROVE Ranged(d)'
      BY <1>h, <1>k, <3>1, <3>2, <3>3, <3>5 DEF SameRange, Stands
    <3> QED
      BY <3>4, <3>5 DEF Ranges
  <2>5. ASSUME NEW id \in Ids, eth_uninstallFilter(c, id) PROVE Ranges'
    BY <1>h, <1>s, <2>5 DEF eth_uninstallFilter
  <2>6. ASSUME NEW id \in Ids, eth_getFilterChanges(c, id) PROVE Ranges'
    BY <1>h, <1>s, <2>6 DEF eth_getFilterChanges
  <2>7. ASSUME NEW tx \in Tx, ethj_getTransactionReceipt(c, tx) PROVE Ranges'
    BY <1>h, <1>s, <2>7 DEF ethj_getTransactionReceipt
  <2> QED
    BY <1>6, <2>2, <2>3, <2>4, <2>5, <2>6, <2>7 DEF StartCall
<1>7. ASSUME NEW c \in Client, Call(c) PROVE Ranges'
  <2>0. best' = best
    <3>1. Standing
      BY <1>7, ClientsStanding
    <3> QED
      BY <3>1 DEF Standing
  <2>1. CASE Resolves(c)
    <3>1. task[c].id \in Ids /\ Building(c) /\ task[c].at # "idle"
      <4>1. task[c].id \in Ids /\ Building(c)
        BY <2>1, ResolveSteps
      <4> QED
        BY <4>1 DEF Building
    <3>2. Ranged(c)'
      BY <2>1, ResolveRanged DEF Ranges
    <3>3. ASSUME NEW t, Reads(c, t) PROVE Ranges'
      BY <1>c, <2>0, <3>1, <3>2, <3>3 DEF Reads
    <3>4. ASSUME NEW n \in 0 .. best, NEW m \in Int, m <= best, BeginHistory(c, n, m)
          PROVE  Ranges'
      <4>1. Begun(c, n, m)
        BY <3>1, <3>4, BeginFacts
      <4>2. /\ \A other \in Ids \ {task[c].id} : origin'[other] = origin[other]
            /\ \E t : TaskStep(c, t)
        BY <4>1 DEF Begun
      <4> QED
        BY <1>c, <2>0, <3>1, <3>2, <4>2
    <3> QED
      BY <2>1, <3>3, <3>4, ResolveSteps
  <2>2. CASE AddHistory(c)
    <3>1. /\ task[c].at = "history" /\ task[c].id \in Ids /\ origin' = origin
          /\ TaskStep(c, [task[c] EXCEPT !.next = @ + 1])
      BY <2>2, AddHistoryFacts
    <3>2. task[c] \in Task
      BY ElementTypes
    <3>3. task'[c].at = "history" /\ task'[c].id = task[c].id
      <4> DEFINE t == [task[c] EXCEPT !.next = @ + 1]
      <4>1. t.at = "history" /\ t.id = task[c].id
        BY <3>1, <3>2, TaskAdvanced
      <4> HIDE DEF t
      <4>2. task'[c] = t
        BY <3>1, TaskFacts DEF t
      <4> QED
        BY <4>1, <4>2
    <3>4. Ranged(c)'
      BY <1>h, <1>k, <2>0, <3>1, <3>3 DEF SameRange
    <3> QED
      BY <1>c, <2>0, <3>1, <3>4
  <2>3. CASE Arm(c)
    <3>1. PICK t : TaskStep(c, t) /\ Built(t, task[c].id)
      BY <2>3, ArmFacts
    <3>2. /\ task[c].at = "history" /\ task[c].id \in Ids /\ SameRange(task[c].id)
          /\ \A other \in Ids \ {task[c].id} : Stands(other)
      BY <2>3, ArmFacts DEF SameRange
    <3>3. task'[c] = t
      BY <3>1, TaskFacts
    <3>4. Ranged(c)'
      BY <1>h, <1>k, <2>0, <3>1, <3>2, <3>3 DEF Built
    <3> QED
      BY <1>c, <2>0, <3>1, <3>2, <3>4 DEF Stands
  <2>4. CASE GetLogsPoll(c)
    <3>1. PICK t : TaskStep(c, t) /\ Built(t, task[c].id)
      BY <2>4, GetLogsPollFacts
    <3>2. task[c].at = "poll" /\ origin' = origin
      BY <2>4 DEF GetLogsPoll
    <3>3. task'[c] = t
      BY <3>1, TaskFacts
    <3>4. Ranged(c)'
      BY <1>h, <1>k, <2>0, <3>1, <3>2, <3>3 DEF Built, SameRange
    <3> QED
      BY <1>c, <2>0, <3>1, <3>2, <3>4
  <2>5. CASE GetLogsUninstall(c)
    <3>1. task[c].at = "uninstall" /\ origin' = origin /\ TaskStep(c, IdleTask)
      BY <2>5 DEF GetLogsUninstall, TaskStep
    <3>2. task'[c].at = "idle"
      BY <3>1, TaskFacts DEF IdleTask
    <3>3. Ranged(c)'
      BY <3>2 DEF Ranged
    <3> QED
      BY <1>c, <2>0, <3>1, <3>3
  <2> QED
    BY <1>7, <2>1, <2>2, <2>3, <2>4, <2>5 DEF Call, Resolves
<1> QED
  BY <1>0, <1>1, <1>2, <1>3, <1>4, <1>5, <1>6, <1>7 DEF Next, Listener

-----------------------------------------------------------------------------
\* What the invariants say of the answers.

LEMMA AnswersTypes == IInv /\ Receipts /\ Answers => TypeOK
<1> SUFFICES ASSUME Types, ReceiptTypes, Answers PROVE TypeOK
  BY DEF IInv, Receipts
<1>1. \A id \in Ids : /\ Len(filters[id].events) <= MaxEventCount
                      /\ filters[id].pollStart <= Len(filters[id].events)
  BY DEF Answers, Retains
<1> QED
  BY <1>1 DEF Types, ReceiptTypes, TypeOK

LEMMA HistoryFirst == IInv /\ Answers => HistoryThenNews
<1> SUFFICES ASSUME Types, Answers, NEW id \in Ids,
                    NEW i \in DOMAIN reported[id], NEW j \in DOMAIN reported[id], i < j,
                    reported[id][i].type = "block", reported[id][j].type = "block",
                    reported[id][i].ref >= reported[id][j].ref
             PROVE  i <= HistoryLength(id) /\ j > HistoryLength(id)
  BY DEF IInv, HistoryThenNews
<1>1. /\ reported[id] \in Seq(Event) /\ i \in 1 .. Len(reported[id]) /\ j \in 1 .. Len(reported[id])
      /\ reported[id][i].ref \in Nat /\ reported[id][j].ref \in Nat
      /\ HistoryLength(id) \in Nat /\ origin[id].first \in Nat /\ Told(id)
  BY ElementTypes, BlockRef, HistoryLengthType DEF Answers
<1>2. ~(HistoryLength(id) < i)
  BY <1>1 DEF Told
<1>3. ASSUME j <= HistoryLength(id) PROVE FALSE
  <2>1. /\ reported[id][i] = BlockEvent(origin[id].first + i - 1)
        /\ reported[id][j] = BlockEvent(origin[id].first + j - 1)
    BY <1>1, <1>2, <1>3 DEF Told
  <2>2. reported[id][i].ref = origin[id].first + i - 1 /\ reported[id][j].ref = origin[id].first + j - 1
    BY <2>1 DEF BlockEvent
  <2> QED
    BY <1>1, <2>2
<1> QED
  BY <1>1, <1>2, <1>3

\* No range read, no answer; otherwise the answer is what the filter holds of it.
LEMMA ClosedRange == IInv /\ Answers /\ Ranges => ClosedRangeAnswer
<1> SUFFICES ASSUME IInv, Answers, Ranges, NEW c \in Client, task[c].at = "uninstall",
                    IsClosed(origin[task[c].id].request)
             PROVE  LET o    == origin[task[c].id]
                        from == FromBlock(o.request)
                        to   == ToBlock(o.request)
                    IN  \/ task[c].answer = <<>> /\ (from = None \/ NumberOf(from) > o.askedAt)
                        \/ /\ from # None
                           /\ \E last \in 0 .. best :
                                /\ IF NumberOf(to) <= o.askedAt THEN last = NumberOf(to)
                                   ELSE last >= o.askedAt
                                /\ task[c].answer = NewestLogs(NumberOf(from), last)
  BY DEF ClosedRangeAnswer
<1> DEFINE o == origin[task[c].id]
<1>1. task[c].answer = NewestLogs(o.first, o.last)
  BY DEF Answers, Progress, Closed, RangeAnswer
<1>2. RangeRead(o)
  BY DEF Ranges, Ranged, ClosedSoFar, Closed
<1>3. CASE o.first = 0 /\ o.last = -1 /\ FromRead(o, -1)
  <2>1. NewestLogs(0, -1) = <<>>
    <3>1. ~(-1 - 0 + 1 > MaxEventCount) /\ 1 .. -1 - 0 + 1 = {}
      BY MaxEventCountAssumption
    <3> QED
      BY <3>1 DEF NewestLogs
  <2> QED
    BY <1>1, <1>3, <2>1 DEF FromRead
<1>4. CASE o.first # -1 /\ FromRead(o, o.first) /\ o.last \in 0 .. best /\ LastRead(o, o.last)
  BY <1>1, <1>4 DEF FromRead, LastRead
<1> QED
  BY <1>2, <1>3, <1>4 DEF RangeRead

\* Whatever the clients, the requests, the limits and the length of the run, what
\* eth_getFilterChanges and eth_getLogs answer is in order, and for a range that
\* is closed it leaves out nothing of it that was there when the call began: what
\* the buffer of Filter and the order of eth_newFilter (the range, its history
\* and then the flags, while the chain grows) achieve.
THEOREM AnswersCorrect == Spec => []AnswersInOrder
<1>1. Init => Receipts /\ Answers /\ Ranges
  BY InitReceipts, InitAnswers, InitRanges
<1>2. IInv /\ IInv' /\ Receipts /\ Answers /\ Ranges /\ [Next]_vars
        => (Receipts /\ Answers /\ Ranges)'
  BY ReceiptsStep, AnswersStep, RangesStep DEF IInv, Answers
<1>3. IInv /\ Receipts /\ Answers /\ Ranges => AnswersInOrder
  BY AnswersTypes, HistoryFirst, ClosedRange DEF AnswersInOrder
<1> QED
  BY <1>1, <1>2, <1>3, IInvAlways, PTL DEF Spec

\* Whatever transactions there are, and in whatever order their updates and the
\* requests for receipts come, the map of pending receipts holds no included
\* transaction, holds each of the others once, and forgets one only when it is
\* full: the LRUMap that onPendingTransactionUpdate fills and empties.
THEOREM ReceiptsCorrect == Spec => []ReceiptsTracked
<1>1. Init => Receipts /\ Answers
  BY InitReceipts, InitAnswers
<1>2. IInv /\ IInv' /\ Receipts /\ Answers /\ [Next]_vars => (Receipts /\ Answers)'
  BY ReceiptsStep, AnswersStep DEF IInv
<1>3. IInv /\ Receipts /\ Answers => ReceiptsTracked
  BY AnswersTypes DEF ReceiptsTracked, Receipts
<1> QED
  BY <1>1, <1>2, <1>3, IInvAlways, PTL DEF Spec

-----------------------------------------------------------------------------
\* One filter alone, EventFilter, for any kind of event.

\* The newest n elements of a sequence, element by element.
LEMMA NewestProperties ==
  ASSUME NEW S, NEW s \in Seq(S), NEW n \in 0 .. Len(s)
  PROVE  /\ Promise!Newest(s, n) \in Seq(S)
         /\ Len(Promise!Newest(s, n)) = n
         /\ \A i \in 1 .. n : Promise!Newest(s, n)[i] = s[Len(s) - n + i]
<1>1. Len(s) \in Nat /\ (\A i \in 1 .. Len(s) : s[i] \in S)
  BY LenProperties, ElementOfSeq
<1>2. \A i \in Len(s) - n + 1 .. Len(s) : s[i] \in S
  BY <1>1
<1>3. Len(s) - n + 1 \in Int /\ Len(s) \in Int
  BY <1>1
<1>4. /\ SubSeq(s, Len(s) - n + 1, Len(s)) \in Seq(S)
      /\ Len(SubSeq(s, Len(s) - n + 1, Len(s)))
           = IF Len(s) - n + 1 <= Len(s) THEN Len(s) - (Len(s) - n + 1) + 1 ELSE 0
      /\ \A i \in 1 .. Len(s) - (Len(s) - n + 1) + 1 :
           SubSeq(s, Len(s) - n + 1, Len(s))[i] = s[Len(s) - n + 1 + i - 1]
  BY <1>2, <1>3, SubSeqProperties
<1> QED
  BY <1>1, <1>4 DEF Promise!Newest

\* Adding an event and keeping the newest n+1 keeps the newest n and it.
LEMMA NewestAfterAppend ==
  ASSUME NEW S, NEW s \in Seq(S), NEW e \in S, NEW n \in 0 .. Len(s)
  PROVE  Promise!Newest(Append(s, e), n + 1) = Append(Promise!Newest(s, n), e)
<1>1. /\ Append(s, e) \in Seq(S)
      /\ Len(Append(s, e)) = Len(s) + 1
      /\ \A i \in 1 .. Len(s) : Append(s, e)[i] = s[i]
      /\ Append(s, e)[Len(s) + 1] = e
      /\ Len(s) \in Nat
  BY AppendProperties, LenProperties
<1>2. n + 1 \in 0 .. Len(Append(s, e))
  BY <1>1
<1> DEFINE l == Promise!Newest(Append(s, e), n + 1)
           r == Append(Promise!Newest(s, n), e)
<1>3. /\ l \in Seq(S)
      /\ Len(l) = n + 1
      /\ \A i \in 1 .. n + 1 : l[i] = Append(s, e)[Len(s) - n + i]
  <2>1. /\ l \in Seq(S)
        /\ Len(l) = n + 1
        /\ \A i \in 1 .. n + 1 :
             l[i] = Append(s, e)[Len(Append(s, e)) - (n + 1) + i]
    BY <1>1, <1>2, NewestProperties
  <2>2. \A i \in 1 .. n + 1 : Len(Append(s, e)) - (n + 1) + i = Len(s) - n + i
    BY <1>1
  <2> HIDE DEF l
  <2> QED
    BY <2>1, <2>2
<1>4. /\ r \in Seq(S)
      /\ Len(r) = n + 1
      /\ \A i \in 1 .. n : r[i] = s[Len(s) - n + i]
      /\ r[n + 1] = e
  <2> DEFINE w == Promise!Newest(s, n)
  <2>1. w \in Seq(S) /\ Len(w) = n /\ \A i \in 1 .. n : w[i] = s[Len(s) - n + i]
    BY NewestProperties
  <2>2. r = Append(w, e)
    OBVIOUS
  <2> HIDE DEF w, r
  <2> QED
    BY <2>1, <2>2, AppendProperties
<1>5. \A i \in 1 .. n + 1 : l[i] = r[i]
  <2> SUFFICES ASSUME NEW i \in 1 .. n + 1 PROVE l[i] = r[i]
    OBVIOUS
  <2>1. CASE i = n + 1
    BY <2>1, <1>1, <1>3, <1>4
  <2>2. CASE i # n + 1
    <3>1. i \in 1 .. n /\ Len(s) - n + i \in 1 .. Len(s)
      BY <2>2, <1>1
    <3> QED
      BY <3>1, <1>1, <1>3, <1>4
  <2> QED
    BY <2>1, <2>2
<1> HIDE DEF l, r
<1>6. l = r
  BY <1>3, <1>4, <1>5, SeqEqual
<1> QED
  BY <1>6 DEF l, r

\* Dropping the oldest of the newest n leaves the newest n-1.
LEMMA TailOfNewest ==
  ASSUME NEW S, NEW s \in Seq(S), NEW n \in 1 .. Len(s)
  PROVE  Tail(Promise!Newest(s, n)) = Promise!Newest(s, n - 1)
<1> DEFINE w == Promise!Newest(s, n)
           l == Tail(w)
           r == Promise!Newest(s, n - 1)
<1>1. Len(s) \in Nat /\ n - 1 \in 0 .. Len(s) /\ n \in 0 .. Len(s)
  BY LenProperties
<1>2. /\ w \in Seq(S) /\ Len(w) = n
      /\ \A i \in 1 .. n : w[i] = s[Len(s) - n + i]
  BY <1>1, NewestProperties
<1>3. /\ r \in Seq(S) /\ Len(r) = n - 1
      /\ \A i \in 1 .. n - 1 : r[i] = s[Len(s) - (n - 1) + i]
  BY <1>1, NewestProperties
<1> HIDE DEF w, r
<1>4. /\ l \in Seq(S) /\ Len(l) = n - 1
      /\ \A i \in 1 .. n - 1 : l[i] = w[i + 1]
  BY <1>2, HeadTailProperties, EmptySeq
<1>5. \A i \in 1 .. n - 1 : l[i] = r[i]
  <2> SUFFICES ASSUME NEW i \in 1 .. n - 1 PROVE l[i] = r[i]
    OBVIOUS
  <2>1. i + 1 \in 1 .. n /\ Len(s) - n + (i + 1) = Len(s) - (n - 1) + i
    BY <1>1
  <2> QED
    BY <2>1, <1>2, <1>3, <1>4
<1> HIDE DEF l
<1>6. l = r
  BY <1>3, <1>4, <1>5, SeqEqual
<1> QED
  BY <1>6 DEF w, l, r

\* The part of the newest n behind position n-m is the newest m.
LEMMA SuffixOfNewest ==
  ASSUME NEW S, NEW s \in Seq(S), NEW n \in 0 .. Len(s), NEW m \in 0 .. n
  PROVE  SubSeq(Promise!Newest(s, n), n - m + 1, n) = Promise!Newest(s, m)
<1> DEFINE w == Promise!Newest(s, n)
           l == SubSeq(w, n - m + 1, n)
           r == Promise!Newest(s, m)
<1>1. Len(s) \in Nat /\ m \in 0 .. Len(s)
  BY LenProperties
<1>2. /\ w \in Seq(S) /\ Len(w) = n
      /\ \A i \in 1 .. n : w[i] = s[Len(s) - n + i]
  BY NewestProperties
<1>3. /\ r \in Seq(S) /\ Len(r) = m
      /\ \A i \in 1 .. m : r[i] = s[Len(s) - m + i]
  BY <1>1, NewestProperties
<1> HIDE DEF w, r
<1>4. n - m + 1 \in Int /\ n \in Int /\ \A i \in n - m + 1 .. n : w[i] \in S
  BY <1>1, <1>2, ElementOfSeq
<1>5. /\ l \in Seq(S)
      /\ Len(l) = IF n - m + 1 <= n THEN n - (n - m + 1) + 1 ELSE 0
      /\ \A i \in 1 .. n - (n - m + 1) + 1 : l[i] = w[n - m + 1 + i - 1]
  BY <1>4, SubSeqProperties
<1> HIDE DEF l
<1>6. Len(l) = m
  BY <1>5
<1>7. \A i \in 1 .. m : l[i] = r[i]
  <2> SUFFICES ASSUME NEW i \in 1 .. m PROVE l[i] = r[i]
    OBVIOUS
  <2>1. n - m + i \in 1 .. n /\ Len(s) - n + (n - m + i) = Len(s) - m + i
    BY <1>1
  <2>2. l[i] = w[n - m + i]
    <3>1. i \in 1 .. n - (n - m + 1) + 1 /\ n - m + 1 + i - 1 = n - m + i
      OBVIOUS
    <3> QED
      BY <3>1, <1>5
  <2> QED
    BY <2>1, <2>2, <1>2, <1>3
<1>8. l = r
  BY <1>3, <1>5, <1>6, <1>7, SeqEqual
<1> QED
  BY <1>8 DEF w, l, r

-----------------------------------------------------------------------------
\* How many events the buffer retains, and how many of them are unread.
OneKept == Promise!Lesser(Len(log), MaxEventCount)
OneDue  == Promise!Lesser(Len(log) - lastPoll, MaxEventCount)

\* The inductive invariant: TypeOK alone is not inductive, because nothing in
\* it keeps the poll start inside the buffer when add() drops an event; that
\* follows from what the buffer and the unread part of it contain.
OneInv == FilterTypeOK /\ RetainsNewest /\ CursorAtFirstUnread

LEMMA KeptAndDue ==
  ASSUME FilterTypeOK
  PROVE  /\ Len(log) \in Nat /\ lastPoll \in 0 .. Len(log)
         /\ OneKept \in 0 .. Len(log) /\ OneDue \in 0 .. OneKept
BY LenProperties, MaxEventCountAssumption
   DEF FilterTypeOK, OneKept, OneDue, Promise!Lesser

\* What a poll is about to return, in terms of the history.
LEMMA UnreadIsNewest ==
  ASSUME OneInv
  PROVE  Unread(filter) = Promise!Newest(log, OneDue)
<1>1. /\ filter.events = Promise!Newest(log, OneKept)
      /\ Len(filter.events) - filter.pollStart = OneDue
      /\ filter.pollStart \in Nat
      /\ log \in Seq(Reported)
  BY DEF OneInv, FilterTypeOK, RetainsNewest, CursorAtFirstUnread, OneKept, OneDue
<1>2. OneKept \in 0 .. Len(log) /\ OneDue \in 0 .. OneKept
  BY KeptAndDue DEF OneInv
<1>3. Len(filter.events) = OneKept
  BY <1>1, <1>2, NewestProperties
<1>4. filter.pollStart = OneKept - OneDue /\ OneKept \in Nat /\ OneDue \in Nat
  BY <1>1, <1>2, <1>3, KeptAndDue DEF OneInv
<1>5. SubSeq(Promise!Newest(log, OneKept), OneKept - OneDue + 1, OneKept)
        = Promise!Newest(log, OneDue)
  BY <1>1, <1>2, SuffixOfNewest
<1> QED
  BY <1>1, <1>3, <1>4, <1>5 DEF Unread

LEMMA OneInvInit == FilterInit => OneInv
<1> SUFFICES ASSUME FilterInit PROVE OneInv
  OBVIOUS
<1>1. FilterTypeOK
  BY MaxEventCountAssumption, EmptySeq DEF FilterInit, FilterTypeOK, EmptyBuffer
<1>2. RetainsNewest /\ CursorAtFirstUnread
  BY MaxEventCountAssumption, EmptySeq, SubSeqEmpty
     DEF FilterInit, EmptyBuffer, RetainsNewest, CursorAtFirstUnread,
         Promise!Newest, Promise!Lesser
<1> QED
  BY <1>1, <1>2 DEF OneInv

\* add(): below the limit the buffer grows by the event; at the limit it
\* slides by one, and the poll start slides with it unless nothing was read.
LEMMA AddPreserves ==
  ASSUME OneInv, NEW e \in Reported, add(e)
  PROVE  OneInv'
<1>1. /\ filter \in [events : Seq(Reported), pollStart : Nat]
      /\ filter.events \in Seq(Reported) /\ filter.pollStart \in Nat
      /\ log \in Seq(Reported) /\ Len(log) \in Nat
      /\ lastPoll \in 0 .. Len(log) /\ answer \in Seq(Reported)
  BY LenProperties DEF OneInv, FilterTypeOK
<1>2. /\ filter.events = Promise!Newest(log, OneKept)
      /\ Len(filter.events) = OneKept
      /\ OneKept - filter.pollStart = OneDue
      /\ OneKept \in 0 .. Len(log) /\ OneDue \in 0 .. OneKept
      /\ OneKept <= MaxEventCount
  <2>1. OneKept \in 0 .. Len(log) /\ OneDue \in 0 .. OneKept
    BY KeptAndDue DEF OneInv
  <2>2. filter.events = Promise!Newest(log, OneKept)
    BY DEF OneInv, RetainsNewest, OneKept
  <2>3. Len(filter.events) = OneKept
    BY <1>1, <2>1, <2>2, NewestProperties
  <2> QED
    BY <2>1, <2>2, <2>3 DEF OneInv, FilterTypeOK, CursorAtFirstUnread, OneDue
<1>3. /\ log' = Append(log, e) /\ log' \in Seq(Reported)
      /\ Len(log') = Len(log) + 1
      /\ lastPoll' = lastPoll /\ answer' = answer
  BY <1>1, AppendProperties DEF add
<1> DEFINE grown == Append(filter.events, e)
<1>4. grown \in Seq(Reported) /\ Len(grown) = OneKept + 1 /\ grown # <<>>
  <2>1. /\ grown \in Seq(Reported) /\ grown # <<>>
        /\ Len(grown) = Len(filter.events) + 1
    BY <1>1, AppendProperties
  <2> HIDE DEF grown
  <2> QED
    BY <2>1, <1>2
<1>5. grown = Promise!Newest(log', OneKept + 1)
  BY <1>1, <1>2, <1>3, NewestAfterAppend
<1>6. CASE OneKept < MaxEventCount
  <2>1. filter' = [filter EXCEPT !.events = grown]
    BY <1>2, <1>4, <1>6, MaxEventCountAssumption DEF add, Added
  <2>2. filter'.events = grown /\ filter'.pollStart = filter.pollStart
    BY <1>1, <2>1
  <2>3. OneKept = Len(log) /\ OneKept' = OneKept + 1 /\ OneDue' = OneDue + 1
    BY <1>1, <1>2, <1>3, <1>6, MaxEventCountAssumption
       DEF OneKept, OneDue, Promise!Lesser
  <2>4. FilterTypeOK'
    <3>1. filter' \in [events : Seq(Reported), pollStart : Nat]
      BY <1>1, <1>4, <2>1
    <3> QED
      BY <1>1, <1>2, <1>3, <1>4, <1>6, <2>2, <3>1, MaxEventCountAssumption
         DEF FilterTypeOK
  <2>5. RetainsNewest'
    BY <1>5, <2>2, <2>3 DEF RetainsNewest, OneKept
  <2>6. CursorAtFirstUnread'
    BY <1>1, <1>2, <1>4, <2>2, <2>3 DEF CursorAtFirstUnread, OneDue
  <2> QED
    BY <2>4, <2>5, <2>6 DEF OneInv
<1>7. CASE OneKept = MaxEventCount
  <2> DEFINE slid == IF filter.pollStart > 0 THEN filter.pollStart - 1
                                             ELSE filter.pollStart
  <2>1. filter' = [filter EXCEPT !.events = Tail(grown), !.pollStart = slid]
    BY <1>1, <1>2, <1>4, <1>7, MaxEventCountAssumption DEF add, Added
  <2>2. filter'.events = Tail(grown) /\ filter'.pollStart = slid
    BY <1>1, <2>1
  <2>3. Tail(grown) \in Seq(Reported) /\ Len(Tail(grown)) = OneKept
    BY <1>2, <1>4, HeadTailProperties
  <2>4. OneKept' = OneKept
    BY <1>1, <1>2, <1>3, <1>7, MaxEventCountAssumption
       DEF OneKept, Promise!Lesser
  <2>5. slid \in Nat /\ slid <= OneKept /\ OneKept - slid = OneDue'
    BY <1>1, <1>2, <1>3, <1>7, MaxEventCountAssumption
       DEF OneDue, Promise!Lesser
  <2>6. FilterTypeOK'
    <3>1. filter' \in [events : Seq(Reported), pollStart : Nat]
      BY <1>1, <2>1, <2>3, <2>5
    <3> QED
      BY <1>1, <1>3, <1>7, <2>2, <2>3, <2>5, <3>1, MaxEventCountAssumption
         DEF FilterTypeOK
  <2>7. RetainsNewest'
    <3>1. Tail(Promise!Newest(log', OneKept + 1)) = Promise!Newest(log', OneKept)
      <4>1. OneKept + 1 \in 1 .. Len(log') /\ (OneKept + 1) - 1 = OneKept
        BY <1>1, <1>2, <1>3
      <4> QED
        BY <4>1, <1>3, TailOfNewest
    <3> QED
      BY <1>5, <2>2, <2>4, <3>1 DEF RetainsNewest, OneKept
  <2>8. CursorAtFirstUnread'
    BY <2>2, <2>3, <2>5 DEF CursorAtFirstUnread, OneDue
  <2> QED
    BY <2>6, <2>7, <2>8 DEF OneInv
<1> QED
  BY <1>2, <1>6, <1>7, MaxEventCountAssumption

LEMMA PollPreserves ==
  ASSUME OneInv, poll
  PROVE  OneInv'
<1>1. /\ filter \in [events : Seq(Reported), pollStart : Nat]
      /\ filter.events \in Seq(Reported) /\ filter.pollStart \in Nat
      /\ Len(filter.events) \in Nat /\ filter.pollStart <= Len(filter.events)
      /\ Len(filter.events) <= MaxEventCount
      /\ log \in Seq(Reported) /\ Len(log) \in Nat
  BY LenProperties DEF OneInv, FilterTypeOK
<1>2. Unread(filter) = Promise!Newest(log, OneDue) /\ OneDue \in 0 .. Len(log)
  BY <1>1, UnreadIsNewest, KeptAndDue DEF OneInv
<1>3. Unread(filter) \in Seq(Reported) /\ Len(Unread(filter)) = OneDue
  BY <1>1, <1>2, NewestProperties
<1>4. filter.pollStart + OneDue = Len(filter.events)
  BY <1>1, <1>2 DEF OneInv, CursorAtFirstUnread, OneDue
<1>5. /\ filter' = [filter EXCEPT !.pollStart = Len(filter.events)]
      /\ answer' = Unread(filter) /\ lastPoll' = Len(log) /\ log' = log
  BY <1>1, <1>3, <1>4 DEF poll, Polled
<1>6. filter'.events = filter.events /\ filter'.pollStart = Len(filter.events)
  BY <1>1, <1>5
<1>7. FilterTypeOK'
  <2>1. filter' \in [events : Seq(Reported), pollStart : Nat]
    BY <1>1, <1>5
  <2> QED
    BY <1>1, <1>3, <1>5, <1>6, <2>1 DEF FilterTypeOK
<1>8. RetainsNewest'
  BY <1>5, <1>6 DEF OneInv, RetainsNewest
<1>9. CursorAtFirstUnread'
  BY <1>1, <1>5, <1>6, MaxEventCountAssumption
     DEF CursorAtFirstUnread, Promise!Lesser
<1> QED
  BY <1>7, <1>8, <1>9 DEF OneInv

LEMMA GetAllPreserves ==
  ASSUME OneInv, getAll
  PROVE  OneInv'
BY DEF OneInv, FilterTypeOK, RetainsNewest, CursorAtFirstUnread, getAll,
       Retained

LEMMA OneInvNext == OneInv /\ [FilterNext]_filterVars => OneInv'
<1> SUFFICES ASSUME OneInv, [FilterNext]_filterVars PROVE OneInv'
  OBVIOUS
<1>1. CASE \E e \in Reported : add(e)
  BY <1>1, AddPreserves
<1>2. CASE poll
  BY <1>2, PollPreserves
<1>3. CASE getAll
  BY <1>3, GetAllPreserves
<1>4. CASE UNCHANGED filterVars
  BY <1>4 DEF filterVars, OneInv, FilterTypeOK, RetainsNewest, CursorAtFirstUnread
<1> QED
  BY <1>1, <1>2, <1>3, <1>4 DEF FilterNext

\* Every reachable state of a filter satisfies the inductive invariant.
THEOREM OneInvAlways == FilterSpec => []OneInv
<1> QED
  BY OneInvInit, OneInvNext, PTL DEF FilterSpec

\* The poll start never leaves the buffer and the buffer never outgrows
\* MAX_EVENT_COUNT (Filter.poll and Filter.add).
THEOREM OneTypeCorrect == FilterSpec => []FilterTypeOK
<1>1. OneInv => FilterTypeOK
  BY DEF OneInv
<1> QED
  BY <1>1, OneInvAlways, PTL

\* The buffer holds exactly the newest events (Filter.add).
THEOREM BufferCorrect == FilterSpec => []RetainsNewest
<1>1. OneInv => RetainsNewest
  BY DEF OneInv
<1> QED
  BY <1>1, OneInvAlways, PTL

\* The poll start stands at the first event not yet polled, also after add()
\* has dropped events under it.
THEOREM CursorCorrect == FilterSpec => []CursorAtFirstUnread
<1>1. OneInv => CursorAtFirstUnread
  BY DEF OneInv
<1> QED
  BY <1>1, OneInvAlways, PTL

-----------------------------------------------------------------------------
LEMMA InitImplements == FilterInit => Promise!Init
BY DEF FilterInit, Promise!Init

LEMMA StepImplements == OneInv /\ [FilterNext]_filterVars => [Promise!Next]_(Promise!vars)
<1> SUFFICES ASSUME OneInv, [FilterNext]_filterVars PROVE [Promise!Next]_(Promise!vars)
  OBVIOUS
<1>1. CASE \E e \in Reported : add(e)
  BY <1>1 DEF add, Promise!Next, Promise!Happen
<1>2. CASE poll
  BY <1>2, UnreadIsNewest
     DEF poll, OneDue, Promise!Next, Promise!Poll
<1>3. CASE getAll
  BY <1>3 DEF OneInv, RetainsNewest, Retained, getAll,
              Promise!Next, Promise!GetAll
<1>4. CASE UNCHANGED filterVars
  BY <1>4 DEF filterVars, Promise!vars
<1> QED
  BY <1>1, <1>2, <1>3, <1>4 DEF FilterNext

\* The buffer with its sliding cursor implements RecentEvents: what
\* eth_getFilterChanges and eth_getFilterLogs return is a function of the
\* events that happened and of when the client last polled.
THEOREM Implementation == FilterSpec => ImplementsRecentEvents
<1> QED
  BY InitImplements, StepImplements, OneInvAlways, PTL
     DEF FilterSpec, ImplementsRecentEvents, Promise!Spec

=============================================================================
