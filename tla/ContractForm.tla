---------------------------- MODULE ContractForm ----------------------------
(***************************************************************************)
(* The form for a contract to watch (ContractNewCtrl): source files may be *)
(* added and removed, the form is checked and then either the files or the *)
(* text of the source are sent.  It can be sent again before the answer.   *)
(***************************************************************************)
EXTENDS Naturals, Sequences, SequencesExt

CONSTANTS
  File,
  MaxFiles,   \* bound: files in the list
  MaxSubmits  \* bound: times the form is sent

VARIABLES
  newContract,         \* the form's fields: whether the address is valid and
                       \* whether there is a source
  files,
  allowFileUpload,
  submitErrorMessage,  \* a message is shown
  sent,                \* requests not answered: "files" or "source"
  submits,
  path,                \* of the page: contractNew, contracts
  uploadLost           \* history: an upload failed

formVars == <<newContract, files, allowFileUpload, submitErrorMessage, sent, submits,
              path, uploadLost>>

Init ==
  /\ newContract = [address |-> FALSE, sourceCode |-> FALSE]
  /\ files = <<>> /\ allowFileUpload = FALSE
  /\ submitErrorMessage = FALSE
  /\ sent = <<>> /\ submits = 0
  /\ path = "contractNew"
  /\ uploadLost = FALSE

Editing == path = "contractNew"

Typed ==
  /\ Editing
  /\ \E f \in {"address", "sourceCode"} : newContract' = [newContract EXCEPT ![f] = ~@]
  /\ UNCHANGED <<files, allowFileUpload, submitErrorMessage, sent, submits, path, uploadLost>>

\* A file may be in the list twice.
onAddFile ==
  /\ Editing /\ Len(files) < MaxFiles
  /\ \E f \in File : files' = Append(files, f)
  /\ allowFileUpload' = TRUE
  /\ UNCHANGED <<newContract, submitErrorMessage, sent, submits, path, uploadLost>>

onRemoveFile ==
  /\ Editing
  /\ \E f \in ToSet(files) : files' = RemoveAt(files, SelectInSeq(files, LAMBDA x : x = f))
  /\ allowFileUpload' = (files' # <<>>)
  /\ UNCHANGED <<newContract, submitErrorMessage, sent, submits, path, uploadLost>>

onFinalAddFiles ==
  /\ Editing /\ submits < MaxSubmits
  /\ submits' = submits + 1
  /\ IF newContract.address /\ (files # <<>> \/ newContract.sourceCode)
     THEN /\ submitErrorMessage' = FALSE
          /\ sent' = Append(sent, IF files # <<>> THEN "files" ELSE "source")
     ELSE /\ submitErrorMessage' = TRUE
          /\ UNCHANGED sent
  /\ UNCHANGED <<newContract, files, allowFileUpload, path, uploadLost>>

\* Mutant of Refused: the message is only set for sources.
RefusedSilently(i) ==
  /\ submitErrorMessage' = (submitErrorMessage \/ sent[i] = "source")
  /\ UNCHANGED <<path, uploadLost>>

Accepted == path' = "contracts" /\ UNCHANGED <<submitErrorMessage, uploadLost>>

Refused(i) == submitErrorMessage' = TRUE /\ UNCHANGED <<path, uploadLost>>

\* A request that fails: that of an upload has no handler.
Failed(i) ==
  IF sent[i] = "source" THEN submitErrorMessage' = TRUE /\ UNCHANGED <<path, uploadLost>>
  ELSE uploadLost' = TRUE /\ UNCHANGED <<path, submitErrorMessage>>

SubmitAnswered(i) ==
  /\ Accepted \/ Refused(i) \/ Failed(i)
  /\ sent' = RemoveAt(sent, i)
  /\ UNCHANGED <<newContract, files, allowFileUpload, submits>>

Next ==
  \/ Typed \/ onAddFile \/ onRemoveFile \/ onFinalAddFiles
  \/ \E i \in DOMAIN sent : SubmitAnswered(i)

Spec == Init /\ [][Next]_formVars

-----------------------------------------------------------------------------
\* Once every request is answered, the user has either been taken to the list
\* or sees why not, unless an upload failed; and files can be sent just if
\* there are any.
SubmitShown ==
  /\ submits > 0 /\ sent = <<>> /\ ~uploadLost => path = "contracts" \/ submitErrorMessage
  /\ allowFileUpload = (files # <<>>)
=============================================================================
