------------------------------ MODULE Deposit ------------------------------
(***************************************************************************)
(* Deposits from ProtocolDetailView: the amount field, depositFunds, the   *)
(* contract execution challenge of CircleNetworking and executeChallenge   *)
(* with its callback.                                                      *)
(*                                                                         *)
(* Every visit to a protocol has a view of its own, with @State of its     *)
(* own; the detached task of a tap goes on after the visit is left and     *)
(* reads the amount again, after the tap.  The protocols are open to users *)
(* who have not signed in.                                                 *)
(***************************************************************************)
EXTENDS Naturals, FiniteSets

CONSTANTS
    Visits,     \* visits to a protocol's page
    Deposits,   \* taps on "Deposit"
    Texts,      \* what can be in the amount field
    Empty,      \* the empty field
    Whole,      \* the texts that BigInt(_) parses: whole numbers
    Nil

ASSUME TextAssumption == Empty \in Texts \ Whole /\ Whole \subseteq Texts
ASSUME AbsentAssumption == Nil \notin Visits \union Texts

VARIABLES
    stored, purchased_pass,                           \* UserDefaults
    visible, visited,                                 \* navigation
    depositAmount, isProcessingDeposit, toastMessage, \* per visit
    pc, page, tapped, amount,                         \* the taps
    trap                                              \* failed unwrap

defaults == <<stored, purchased_pass>>
navigation == <<visible, visited>>
state    == <<depositAmount, isProcessingDeposit, toastMessage>>
task     == <<pc, page, tapped, amount>>
vars     == <<defaults, navigation, state, task, trap>>

(* What a sign-in leaves in UserDefaults, in the order it is stored. *)
SignInStages == {"nothing", "session", "wallet"}
HasSession == stored \in {"session", "wallet"}

Ended == {"idle", "returned", "succeeded", "failed", "dead"}
Working == {"amount", "walletID", "request", "sdk"}

InFlight(d) == pc[d] \in Working

Goto(d, from, to) ==
    /\ trap = "none"
    /\ pc[d] = from
    /\ pc' = [pc EXCEPT ![d] = to]

TypeOK ==
    /\ stored \in SignInStages
    /\ purchased_pass \in BOOLEAN
    /\ visible \in Visits \union {Nil}
    /\ visited \subseteq Visits
    /\ depositAmount \in [Visits -> Texts]
    /\ isProcessingDeposit \in [Visits -> BOOLEAN]
    /\ toastMessage \in [Visits -> {"none", "Deposit successful!"}]
    /\ pc \in [Deposits -> Ended \union Working]
    /\ page \in [Deposits -> Visits \union {Nil}]
    /\ tapped \in [Deposits -> Texts \union {Nil}]  \* the amount on the screen
    /\ amount \in [Deposits -> Whole \union {Nil}]  \* the amount submitted
    /\ trap \in {"none", "BigInt!", "walletID!"}

(* The @State of pages that nothing was done on. *)
EmptyFields == [v \in Visits |-> Empty]
Unlocked == [v \in Visits |-> FALSE]
NoToasts == [v \in Visits |-> "none"]

Init ==
    /\ stored \in SignInStages /\ purchased_pass = FALSE
    /\ visible = Nil /\ visited = {}
    /\ depositAmount = EmptyFields
    /\ isProcessingDeposit = Unlocked
    /\ toastMessage = NoToasts
    /\ pc = [d \in Deposits |-> "idle"]
    /\ page = [d \in Deposits |-> Nil]
    /\ tapped = [d \in Deposits |-> Nil]
    /\ amount = [d \in Deposits |-> Nil]
    /\ trap = "none"

-----------------------------------------------------------------------------
(* The list: pushing and popping a protocol's page. *)
Enter(v) ==
    /\ trap = "none"
    /\ visible = Nil
    /\ v \notin visited
    /\ visible' = v
    /\ visited' = visited \union {v}
    /\ UNCHANGED <<defaults, state, task, trap>>

Leave ==
    /\ trap = "none"
    /\ visible # Nil
    /\ visible' = Nil
    /\ UNCHANGED <<defaults, visited, state, task, trap>>

(* A sign-in in the background (module SignIn) stores its next values. *)
SignInStores ==
    /\ trap = "none"
    /\ \/ stored = "nothing" /\ stored' = "session"
       \/ stored = "session" /\ stored' = "wallet"
    /\ UNCHANGED <<purchased_pass, navigation, state, task, trap>>

(* A mint in the Community Pass sheet (module PremiumPass) succeeds. *)
PassMinted ==
    /\ trap = "none"
    /\ purchased_pass' = TRUE
    /\ UNCHANGED <<stored, navigation, state, task, trap>>

(* Mutant: the field is not disabled. *)
MutEditAmount(t) ==
    /\ trap = "none"
    /\ visible # Nil
    /\ depositAmount' = [depositAmount EXCEPT ![visible] = t]
    /\ UNCHANGED <<defaults, navigation, isProcessingDeposit, toastMessage,
                   task, trap>>

(* The amount field, .disabled(isProcessingDeposit). *)
EditAmount(t) ==
    /\ trap = "none"
    /\ visible # Nil
    /\ ~isProcessingDeposit[visible]
    /\ depositAmount' = [depositAmount EXCEPT ![visible] = t]
    /\ UNCHANGED <<defaults, navigation, isProcessingDeposit, toastMessage,
                   task, trap>>

(* Mutant: the button is disabled for an empty field only. *)
MutdepositFunds(d) ==
    /\ visible # Nil
    /\ depositAmount[visible] # Empty
    /\ Goto(d, "idle", "amount")
    /\ isProcessingDeposit' = [isProcessingDeposit EXCEPT ![visible] = TRUE]
    /\ page' = [page EXCEPT ![d] = visible]
    /\ tapped' = [tapped EXCEPT ![d] = depositAmount[visible]]
    /\ UNCHANGED <<defaults, navigation, depositAmount, toastMessage, amount,
                   trap>>

(* The tap: .disabled(depositAmount.isEmpty || isProcessingDeposit). *)
depositFunds(d) ==
    /\ visible # Nil
    /\ depositAmount[visible] # Empty
    /\ ~isProcessingDeposit[visible]
    /\ Goto(d, "idle", "amount")
    /\ isProcessingDeposit' = [isProcessingDeposit EXCEPT ![visible] = TRUE]
    /\ page' = [page EXCEPT ![d] = visible]
    /\ tapped' = [tapped EXCEPT ![d] = depositAmount[visible]]
    /\ UNCHANGED <<defaults, navigation, depositAmount, toastMessage, amount,
                   trap>>

-----------------------------------------------------------------------------
(* Mutant: the text is sent without being parsed. *)
MutReadAmount(d) ==
    /\ Goto(d, "amount", "walletID")
    /\ amount' = [amount EXCEPT ![d] = depositAmount[page[d]]]
    /\ UNCHANGED <<defaults, navigation, state, page, tapped, trap>>

(* The detached task: BigInt(depositAmount)! *)
ReadAmount(d) ==
    /\ Goto(d, "amount", "walletID")
    /\ depositAmount[page[d]] \in Whole
    /\ amount' = [amount EXCEPT ![d] = depositAmount[page[d]]]
    /\ UNCHANGED <<defaults, navigation, state, page, tapped, trap>>

AmountNil(d) ==
    /\ Goto(d, "amount", "amount")
    /\ depositAmount[page[d]] \notin Whole
    /\ trap' = "BigInt!"
    /\ UNCHANGED <<defaults, navigation, state, page, tapped, amount>>

(* Mutant: a missing wallet id is sent as it is. *)
MutSendRequest(d) ==
    /\ Goto(d, "walletID", "request")
    /\ UNCHANGED <<defaults, navigation, state, page, tapped, amount, trap>>

(* walletID!, then the request of createContractExecutionChallenge is sent. *)
SendRequest(d) ==
    /\ stored = "wallet"
    /\ Goto(d, "walletID", "request")
    /\ UNCHANGED <<defaults, navigation, state, page, tapped, amount, trap>>

WalletIDNil(d) ==
    /\ stored # "wallet"
    /\ Goto(d, "walletID", "walletID")
    /\ trap' = "walletID!"
    /\ UNCHANGED <<defaults, navigation, state, page, tapped, amount>>

(* Circle answered with a challenge, and a session is stored. *)
executeChallenge(d) ==
    /\ HasSession
    /\ Goto(d, "request", "sdk")
    /\ UNCHANGED <<defaults, navigation, state, page, tapped, amount, trap>>

(* No session or no challenge: a guard returns, isProcessingDeposit stays. *)
DepositReturns(d) ==
    /\ Goto(d, "request", "returned")
    /\ UNCHANGED <<defaults, navigation, state, page, tapped, amount, trap>>

(* A toast replaces the one before it on its page. *)
showToast(v, message) == toastMessage' = [toastMessage EXCEPT ![v] = message]

(* Mutant: the page is not unlocked. *)
MutFinishDeposit(d) ==
    /\ showToast(page[d], "Deposit successful!")
    /\ UNCHANGED isProcessingDeposit

(* The last two lines of the callback, after either result; the toast      *)
(* replaces the one of the result.                                         *)
FinishDeposit(d) ==
    /\ isProcessingDeposit' = [isProcessingDeposit EXCEPT ![page[d]] = FALSE]
    /\ showToast(page[d], "Deposit successful!")

(* The status in the result is read and not used: the SDK's success counts *)
(* as a deposit, and records a pass, whatever became of the challenge.     *)
DepositSuccess(d) ==
    /\ Goto(d, "sdk", "succeeded")
    /\ purchased_pass' = TRUE
    /\ FinishDeposit(d)
    /\ UNCHANGED <<stored, navigation, depositAmount, page, tapped, amount,
                   trap>>

DepositFailure(d) ==
    /\ Goto(d, "sdk", "failed")
    /\ FinishDeposit(d)
    /\ UNCHANGED <<defaults, navigation, depositAmount, page, tapped, amount,
                   trap>>

(* The process ends, at any point, and is started again. *)
Relaunch ==
    /\ visible' = Nil
    /\ pc' = [d \in Deposits |-> IF InFlight(d) THEN "dead" ELSE pc[d]]
    /\ trap' = "none"
    /\ depositAmount' = EmptyFields
    /\ isProcessingDeposit' = Unlocked
    /\ toastMessage' = NoToasts
    /\ UNCHANGED <<defaults, visited, page, tapped, amount>>

TaskStep(d) ==
    \/ ReadAmount(d) \/ AmountNil(d)
    \/ SendRequest(d) \/ WalletIDNil(d)
    \/ executeChallenge(d) \/ DepositReturns(d)

Next ==
    \/ \E v \in Visits : Enter(v)
    \/ Leave
    \/ SignInStores
    \/ PassMinted
    \/ \E t \in Texts : EditAmount(t)
    \/ \E d \in Deposits :
          \/ depositFunds(d)
          \/ TaskStep(d)
          \/ DepositSuccess(d) \/ DepositFailure(d)
    \/ Relaunch

Spec == Init /\ [][Next]_vars

-----------------------------------------------------------------------------
(***************************************************************************)
(* Properties                                                              *)
(***************************************************************************)

(* The amount sent to the pool is the amount on the screen when the user   *)
(* tapped "Deposit", although the task reads the field later and other     *)
(* visits are edited meanwhile.                                            *)
SubmittedIsTapped ==
    \A d \in Deposits : amount[d] # Nil => amount[d] = tapped[d]

(* A page never has two deposits in flight, and while it has one its       *)
(* controls are locked, whatever the callbacks of earlier taps do.         *)
OneDepositPerPage ==
    \A d \in Deposits : InFlight(d) =>
        /\ isProcessingDeposit[page[d]]
        /\ \A e \in Deposits : InFlight(e) /\ page[e] = page[d] => e = d

(* A page is locked only by a deposit of its own: one in flight, or one    *)
(* that returned without a challenge (the guards of depositFunds do not    *)
(* unlock).  No callback of another visit locks it, and no finished        *)
(* deposit leaves it locked.                                               *)
LockHasOwner ==
    \A v \in Visits :
        isProcessingDeposit[v] =>
            \E d \in Deposits :
                page[d] = v /\ pc[d] \in Working \union {"returned"}

(* ProtocolDetailView.swift:272, "Deposit successful!": the toast is shown *)
(* only on a page with a deposit that succeeded.                           *)
ToastTellsTheTruth ==
    \A v \in Visits :
        toastMessage[v] = "Deposit successful!" =>
            \E d \in Deposits : page[d] = v /\ pc[d] = "succeeded"
=============================================================================
