----------------------------- MODULE SendDialog -----------------------------
(***************************************************************************)
(* The dialog for a transfer (SendAmountCtrl).  A transfer is a chain of   *)
(* requests that starts with each click on "Sign and send"; the form stays *)
(* as it was and can be edited or sent again while the chain runs.  The    *)
(* chain has the amount and the secret of the click, and reads the other   *)
(* fields when it uses them.                                               *)
(***************************************************************************)
EXTENDS Naturals, Sequences, FiniteSetsExt

CONSTANTS
  MaxClicks,   \* bound: clicks on "Sign and send"
  MaxEdits     \* bound: changes of the form

Flow == 1 .. MaxClicks
SignType == {"keystore", "private"}
\* The password or key of the account, a phrase whose hash of one or of 2031
\* passes is its key, or something else.
Secret == {"right", "phrase", "wrong"}

VARIABLES
  txData,         \* the form: to, amount, secret, signType
  sendOpen,       \* the dialog is shown
  edits,          \* bound counter
  flows,          \* chains, in the order of their clicks
  submitted,      \* transactions the node has taken
  unlockedBy      \* chains that have unlocked the account

sendVars == <<txData, sendOpen, edits, flows, submitted, unlockedBy>>

Form == [to : {"x", "y"}, amount : 1 .. 2, secret : Secret, signType : SignType]

Init ==
  /\ txData \in [to : {"x"}, amount : {1}, secret : Secret, signType : SignType]
  /\ sendOpen = TRUE /\ edits = 0
  /\ flows = <<>> /\ submitted = {} /\ unlockedBy = {}

\* A field is typed while the dialog is open.
EditForm ==
  /\ sendOpen /\ edits < MaxEdits
  /\ edits' = edits + 1
  /\ txData' \in {other \in Form : Quantify(DOMAIN txData, LAMBDA k : other[k] # txData[k]) = 1}
  /\ flows' = [f \in DOMAIN flows |->
                 IF txData'.signType # txData.signType /\ flows[f].step # "done"
                 THEN [flows[f] EXCEPT !.switched = TRUE] ELSE flows[f]]
  /\ UNCHANGED <<submitted, unlockedBy, sendOpen>>

\* A click with a valid form; amount and secret are local variables.
onSignAndSend ==
  /\ sendOpen /\ Len(flows) < MaxClicks
  /\ flows' = Append(flows,
       [step |-> "asked", amount |-> txData.amount, secret |-> txData.secret,
        form |-> txData, switched |-> FALSE, to |-> "none", lockAsked |-> FALSE])
  /\ UNCHANGED <<txData, sendOpen, edits, submitted, unlockedBy>>

Goes(f, step) == flows' = [flows EXCEPT ![f].step = step]
Sends(f) == flows' = [flows EXCEPT ![f].step = "sent", ![f].to = txData.to]

\* Gas price and nonce are there: the account is to be unlocked, or the
\* transaction is signed and sent if the secret fits the address.
PricesAnswered(f) ==
  /\ flows[f].step = "asked"
  /\ \/ Goes(f, "failed")
     \/ txData.signType = "keystore" /\ Goes(f, "unlock")
     \/ txData.signType = "private" /\ flows[f].secret # "wrong" /\ Sends(f)
     \/ txData.signType = "private" /\ flows[f].secret = "wrong" /\ Goes(f, "failed")
  /\ UNCHANGED <<txData, sendOpen, edits, submitted, unlockedBy>>

\* Mutant of Transfer: the amount is read when it is sent.
TransferLate(f) == [by |-> f, amount |-> txData.amount, to |-> flows[f].to]

\* personal_unlockAccount, whose answer may get lost.
UnlockAnswered(f) ==
  /\ flows[f].step = "unlock"
  /\ IF flows[f].secret = "right"
     THEN /\ unlockedBy' = unlockedBy \union {f}
          /\ Sends(f) \/ Goes(f, "failed")
     ELSE Goes(f, "failed") /\ UNCHANGED unlockedBy
  /\ UNCHANGED <<txData, sendOpen, edits, submitted>>

Transfer(f) == [by |-> f, amount |-> flows[f].amount, to |-> flows[f].to]

\* The transaction is handled: refused, or taken and the answer comes or not.
\* With the answer the dialog is closed and the receipt asked for.
SendAnswered(f) ==
  /\ flows[f].step = "sent"
  /\ \/ Goes(f, "failed") /\ UNCHANGED <<submitted, sendOpen>>
     \/ /\ submitted' = submitted \union {Transfer(f)}
        /\ \/ Goes(f, "receipt") /\ sendOpen' = FALSE
           \/ Goes(f, "failed") /\ UNCHANGED sendOpen
  /\ UNCHANGED <<txData, edits, unlockedBy>>

ReceiptAnswered(f) ==
  /\ flows[f].step = "receipt"
  /\ Goes(f, "after") \/ Goes(f, "failed")
  /\ UNCHANGED <<txData, sendOpen, edits, submitted, unlockedBy>>

\* Mutant of CatchError: the chain ends with the error.
CatchErrorEnds(f) ==
  /\ flows[f].step = "failed"
  /\ Goes(f, "done")
  /\ UNCHANGED <<txData, sendOpen, edits, submitted, unlockedBy>>

\* The catch handler shows the error, and the chain goes on.
CatchError(f) ==
  /\ flows[f].step = "failed"
  /\ Goes(f, "after")
  /\ UNCHANGED <<txData, sendOpen, edits, submitted, unlockedBy>>

\* "Attempt to lock account back", if the form says keystore by now.
LockBack(f) ==
  /\ flows[f].step = "after"
  /\ flows' = [flows EXCEPT ![f].step = "done",
                            ![f].lockAsked = (txData.signType = "keystore")]
  /\ UNCHANGED <<txData, sendOpen, edits, submitted, unlockedBy>>

FlowSteps(f) ==
  \/ PricesAnswered(f) \/ UnlockAnswered(f) \/ SendAnswered(f) \/ ReceiptAnswered(f)
  \/ CatchError(f) \/ LockBack(f)

Next == EditForm \/ onSignAndSend \/ (\E f \in DOMAIN flows : FlowSteps(f))

\* Every request is answered, be it with an error.
Fairness == WF_sendVars(\E f \in DOMAIN flows : FlowSteps(f))

Spec == Init /\ [][Next]_sendVars /\ Fairness

-----------------------------------------------------------------------------
TypeOK ==
  /\ txData \in Form /\ sendOpen \in BOOLEAN
  /\ \A f \in DOMAIN flows :
       flows[f].step \in {"asked", "unlock", "sent", "receipt", "failed", "after", "done"}
  /\ unlockedBy \subseteq Flow

\* A transaction has the amount of its click, whatever is typed afterwards,
\* and the recipient too if nothing was; and none is sent with a secret that
\* does not fit.
SpendsAsConfirmed ==
  \A t \in submitted :
    LET flow == flows[t.by] IN
    /\ t.amount = flow.form.amount
    /\ edits = 0 => t.to = flow.form.to
    /\ flow.secret # "wrong"

\* "Attempt to lock account back" (popups.controller.js:196): an account that
\* the dialog has unlocked is asked to be locked again whatever fails in
\* between, unless the way of signing was changed meanwhile.
LockFollowsUnlock ==
  \A f \in Flow :
    f \in unlockedBy ~> f \in DOMAIN flows /\ (flows[f].lockAsked \/ flows[f].switched)
=============================================================================
