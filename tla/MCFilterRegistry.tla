-------------------------- MODULE MCFilterRegistry --------------------------
(* Requests for the runs of FilterRegistry. *)
EXTENDS FilterRegistry

ClientsAlike == Permutations(Client)

Earliest  == [tag |-> "earliest"]
Latest    == [tag |-> "latest"]
Pending   == [tag |-> "pending"]
Number(n) == [tag |-> "number", number |-> n]

Ask(from, to) == [fromBlock |-> from, toBlock |-> to, blockHash |-> None]

\* Everything so far and from now on; news only; a closed range whose end may
\* or may not be there yet; a range whose start is read when the call runs.
BlockRequests == {Ask(Earliest, None), Ask(None, None),
                  Ask(Earliest, Number(1)), Ask(Latest, Latest)}

PendingRequests == {Ask(None, Pending), Ask(Number(1), Earliest)}
=============================================================================
