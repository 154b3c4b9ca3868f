---------------------------- MODULE StorageTree -----------------------------
(***************************************************************************)
(* One entry of the tree of a contract's storage (TreeController): it is   *)
(* expanded and collapsed, its children are loaded a page at a time or all *)
(* at once, and answers are appended when they come, whatever has happened *)
(* to the entry meanwhile.                                                 *)
(***************************************************************************)
EXTENDS Integers, Sequences, SequencesExt

CONSTANTS
  PAGE_SIZE,
  ShowAllSize,   \* the size asked for by "show all"
  Sizes,         \* numbers of children the entry may have
  MaxRequests    \* bound: requests of one behaviour

VARIABLES
  size,           \* children the entry has in the contract's storage
  expanded,
  entries,        \* children shown, by their position in the storage
  totalElements,  \* as of the last answer
  requests,       \* a sequence of requests <<page, size>> not answered
  requested,      \* bound counter
  overlapped      \* history: a request was made while another was under way,
                  \* or an answer came to a collapsed entry

treeVars == <<size, expanded, entries, totalElements, requests, requested, overlapped>>

\* The server's answer: a page of the children.
Content(request) ==
  LET first == request[1] * request[2] + 1
      last == IF first + request[2] - 1 < size THEN first + request[2] - 1 ELSE size
  IN [i \in 1 .. last - first + 1 |-> first + i - 1]

Init ==
  /\ size \in Sizes
  /\ expanded = FALSE
  /\ entries = <<>> /\ totalElements = 0
  /\ requests = <<>> /\ requested = 0
  /\ overlapped = FALSE

load(page, n) ==
  /\ requested < MaxRequests
  /\ requested' = requested + 1
  /\ requests' = Append(requests, <<page, n>>)
  /\ overlapped' = (overlapped \/ requests # <<>>)

onExpand ==
  /\ expanded' = ~expanded
  /\ \/ /\ expanded
        /\ entries' = <<>>
        /\ UNCHANGED <<requests, requested, overlapped>>
     \/ /\ ~expanded
        /\ load(0, PAGE_SIZE)
        /\ UNCHANGED entries
  /\ UNCHANGED <<size, totalElements>>

\* The links are shown while there is more to load.
More == expanded /\ Len(entries) < totalElements

onShowAll ==
  /\ More
  /\ load(0, ShowAllSize)
  /\ UNCHANGED <<size, expanded, entries, totalElements>>

nextPage == Len(entries) \div PAGE_SIZE

onLoadMore ==
  /\ More
  /\ load(nextPage, PAGE_SIZE)
  /\ UNCHANGED <<size, expanded, entries, totalElements>>

\* An answer.  What is shown already is cut off if the answer has all there is.
Loaded(i) ==
  LET content == Content(requests[i])
  IN /\ entries' = entries \o (IF Len(content) >= totalElements
                               THEN SubSeq(content, Len(entries) + 1, Len(content))
                               ELSE content)
     /\ totalElements' = size
     /\ requests' = RemoveAt(requests, i)
     /\ overlapped' = (overlapped \/ ~expanded)
     /\ UNCHANGED <<size, expanded, requested>>

\* A request fails: nothing is shown of it.
LoadFailed(i) ==
  /\ requests' = RemoveAt(requests, i)
  /\ UNCHANGED <<size, expanded, entries, totalElements, requested, overlapped>>

Next ==
  \/ onExpand \/ onShowAll \/ onLoadMore
  \/ \E i \in DOMAIN requests : Loaded(i) \/ LoadFailed(i)

Spec == Init /\ [][Next]_treeVars

-----------------------------------------------------------------------------
TypeOK ==
  /\ size \in Sizes /\ expanded \in BOOLEAN
  /\ entries \in Seq(1 .. size) /\ totalElements \in {0, size}
  /\ requests \in Seq(Nat \X {PAGE_SIZE, ShowAllSize})

\* Whatever is expanded, collapsed, paged, or shown as a whole, the children
\* shown are the first ones of the storage, each once, if each answer is waited
\* for and there are not more than one answer can hold.
ChildrenInOrder ==
  ~overlapped /\ size <= ShowAllSize => entries = [i \in 1 .. Len(entries) |-> i]
=============================================================================
