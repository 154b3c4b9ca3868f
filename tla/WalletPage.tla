----------------------------- MODULE WalletPage -----------------------------
(***************************************************************************)
(* The wallet page (WalletCtrl): totals, addresses and the value in USD;   *)
(* and its dialog for an address made from a phrase (PhraseAddressCtrl).   *)
(* The dialog for a transfer is module SendDialog.                         *)
(***************************************************************************)
EXTENDS Naturals, Sequences

CONSTANTS
  MaxInfos,    \* bound: infos of the wallet sent by the server
  MaxPhrases   \* bound: phrases typed or generated

VARIABLES
  walletTotal,    \* number of the info whose total and addresses are shown
  walletTimers,   \* infos whose 10 ms are not over, oldest first
  infosSent,      \* bound counter
  prices,         \* requests for the price not answered
  totalUSD,       \* number of the info whose total was multiplied
  priceMissed,    \* history: the newest price came too early or not at all
  phrase,         \* phraseAddressData.phrase, a number
  phraseAddress,  \* the phrase whose address is shown
  generating,     \* requests for words not answered
  phraseTimer,    \* the 500 ms before the first of them
  phrases,        \* bound counter
  importedOf      \* history: phrases whose addresses were imported

walletVars == <<walletTotal, walletTimers, infosSent, prices, totalUSD, priceMissed>>
phraseVars == <<phrase, phraseAddress, generating, phraseTimer, phrases, importedOf>>
walletPageVars == <<walletVars, phraseVars>>

Init ==
  /\ walletTotal = 0 /\ walletTimers = <<>> /\ infosSent = 0
  /\ prices = 0 /\ totalUSD = 0 /\ priceMissed = FALSE
  /\ phrase = 0 /\ phraseAddress = 0 /\ generating = 0 /\ phraseTimer = TRUE
  /\ phrases = 0 /\ importedOf = {}

\* walletInfoEvent: the info is shown 10 ms later, the price asked for now.
walletInfoEvent ==
  /\ infosSent < MaxInfos
  /\ infosSent' = infosSent + 1
  /\ walletTimers' = Append(walletTimers, infosSent')
  /\ prices' = prices + 1
  /\ priceMissed' = FALSE
  /\ UNCHANGED <<walletTotal, totalUSD, phraseVars>>

WalletTimer ==
  /\ walletTimers # <<>>
  /\ walletTotal' = Head(walletTimers) /\ walletTimers' = Tail(walletTimers)
  /\ priceMissed' = (priceMissed \/ prices = 0)
  /\ UNCHANGED <<infosSent, prices, totalUSD, phraseVars>>

\* $scope.totalAmount when the price comes.
UsdOf == walletTotal

PriceAnswered ==
  /\ prices > 0
  /\ prices' = prices - 1
  /\ \/ totalUSD' = UsdOf /\ UNCHANGED priceMissed
     \/ totalUSD' = totalUSD /\ priceMissed' = (priceMissed \/ prices = 1)
  /\ UNCHANGED <<walletTotal, walletTimers, infosSent, phraseVars>>

-----------------------------------------------------------------------------
\* 500 ms after the dialog was opened, or a click on "Generate new".
onGeneratePhrase ==
  /\ phraseTimer \/ phrases < MaxPhrases
  /\ generating < 2
  /\ generating' = generating + 1
  /\ phraseTimer' \in IF phraseTimer THEN BOOLEAN ELSE {FALSE}
  /\ UNCHANGED <<walletVars, phrase, phraseAddress, phrases, importedOf>>

\* The phrase is set and updateAddress() called.
SetPhrase(p) == phrase' = p /\ phraseAddress' = p

\* The words come, whatever was typed meanwhile.
WordsAnswered ==
  /\ generating > 0
  /\ generating' = generating - 1
  /\ \/ phrases < MaxPhrases /\ phrases' = phrases + 1 /\ SetPhrase(phrases')
     \/ UNCHANGED <<phrases, phrase, phraseAddress>>
  /\ UNCHANGED <<walletVars, phraseTimer, importedOf>>

TypePhrase ==
  /\ phrases < MaxPhrases
  /\ phrases' = phrases + 1
  /\ phrase' = phrases' /\ phraseAddress' = phrases'
  /\ UNCHANGED <<walletVars, generating, phraseTimer, importedOf>>

\* The address shown is sent to be imported.
onPhraseAddressConfirmed ==
  /\ phrase # 0
  /\ importedOf' = importedOf \union {<<phrase, phraseAddress>>}
  /\ UNCHANGED <<walletVars, phrase, phraseAddress, generating, phraseTimer, phrases>>

Next ==
  \/ walletInfoEvent \/ WalletTimer \/ PriceAnswered
  \/ onGeneratePhrase \/ WordsAnswered \/ TypePhrase \/ onPhraseAddressConfirmed

Spec == Init /\ [][Next]_walletPageVars

-----------------------------------------------------------------------------
TypeOK ==
  /\ walletTotal \in 0 .. MaxInfos /\ totalUSD \in 0 .. MaxInfos
  /\ walletTimers \in Seq(1 .. MaxInfos) /\ prices \in 0 .. MaxInfos
  /\ phrase \in 0 .. MaxPhrases /\ phraseAddress \in 0 .. MaxPhrases
  /\ generating \in 0 .. 2

\* The value in USD is that of the total shown, once nothing is awaited,
\* unless the last price came before the total it was asked for, or not at all.
UsdOfTotal == prices = 0 /\ walletTimers = <<>> /\ ~priceMissed => totalUSD = walletTotal

\* The address sent for import is that of the phrase the user sees.
ImportedOfPhrase == \A i \in importedOf : i[1] = i[2]
=============================================================================
