-------------------------------- MODULE App --------------------------------
(***************************************************************************)
(* The app as a whole: the sign-in, the deposits and the Community Pass    *)
(* sheet in one process over one UserDefaults.  Every step is a step of    *)
(* one component; a failed unwrap in any of them ends all, and a launch    *)
(* starts all.                                                             *)
(*                                                                         *)
(* Deposit and PremiumPass see the sign-in only as the stage it reached.   *)
(* Here the stage is computed from what SignIn really stores, so their     *)
(* assumptions about their environment become properties to check.         *)
(*                                                                         *)
(* requested and executed are history variables: the wallet and the token  *)
(* a request of a deposit or a mint was sent with, and the token and key   *)
(* its challenge was executed with.                                        *)
(***************************************************************************)
EXTENDS SignIn, Naturals

CONSTANTS
    Visits, Deposits, Texts, Empty, Whole,  \* Deposit
    Sheets, Scans, Mints, Pool              \* PremiumPass

(* What the two components assume of their constants. *)
ASSUME DepositAssumption ==
    /\ Empty \in Texts \ Whole /\ Whole \subseteq Texts
    /\ Nil \notin Visits \union Texts
ASSUME PassAssumption ==
    Pool \in Nat \ {0} /\ Nil \notin Sheets \union Scans

VARIABLES
    purchased_pass,                                         \* UserDefaults
    visible, visited, depositAmount, isProcessingDeposit,   \* Deposit
    pageToast, depositPc, page, tapped, amount, depositTrap,
    purchasedPass, sheet, seen, opened, isStepOneCompleted, \* PremiumPass
    isLoadingMint, proof, scanPc, scanSheet, approved, mintPc, mintSheet,
    params, passTrap, missed, overtaken,
    requested, executed                                     \* history

signIn  == vars
deposit == <<visible, visited, depositAmount, isProcessingDeposit, pageToast,
             depositPc, page, tapped, amount, depositTrap>>
pass    == <<purchasedPass, sheet, seen, opened, isStepOneCompleted,
             isLoadingMint, proof, scanPc, scanSheet, approved, mintPc,
             mintSheet, params, passTrap, missed, overtaken>>
observed == <<requested, executed>>
appVars == <<signIn, deposit, pass, purchased_pass, observed>>

-----------------------------------------------------------------------------
(* The stage of the sign-in, as each of the other two components reads it. *)
StoredForDeposit ==
    CASE wallet_id # Nil -> "wallet"
      [] wallet_id = Nil /\ user_token # Nil /\ encryption_key # Nil -> "session"
      [] OTHER -> "nothing"

StoredForPass ==
    CASE wallet_id # Nil -> "wallet"
      [] wallet_id = Nil /\ address # Nil -> "address"
      [] wallet_id = Nil /\ address = Nil /\ walletAddress # Nil -> "shown"
      [] OTHER -> "nothing"

D == INSTANCE Deposit WITH
        stored <- StoredForDeposit, toastMessage <- pageToast,
        pc <- depositPc, trap <- depositTrap
P == INSTANCE PremiumPass WITH
        stored <- StoredForPass, trap <- passTrap,
        granted <- \E d \in Deposits : depositPc[d] = "succeeded"

(* Deposits and mints send the same request and execute its challenge. *)
Requests == Deposits \union Mints
Phase(r) == IF r \in Deposits THEN depositPc[r] ELSE mintPc[r]

Absent == [wallet |-> Nil, token |-> Nil, key |-> Nil]

AppInit ==
    /\ Init
    /\ visible = Nil /\ visited = {}
    /\ sheet = Nil /\ opened = {}
    /\ D!Init
    /\ P!Init
    /\ requested = [r \in Requests |-> Absent]
    /\ executed = [r \in Requests |-> Absent]

Alive == trap = "none" /\ depositTrap = "none" /\ passTrap = "none"

(* The list is not covered by a protocol's page or by the sheet. *)
OnList == visible = Nil /\ sheet = Nil

-----------------------------------------------------------------------------
(* createContractExecutionChallenge reads the token for the request; after *)
(* the await the task reads token and key again, for the SDK.              *)
Observe ==
    LET Enters(r, point) == Phase(r) # point /\ Phase(r)' = point IN
    /\ requested' = [r \in Requests |->
          IF Enters(r, "request")
            THEN [wallet |-> wallet_id, token |-> user_token, key |-> Nil]
            ELSE requested[r]]
    /\ executed' = [r \in Requests |->
          IF Enters(r, "sdk")
            THEN [wallet |-> wallet_id, token |-> user_token,
                  key |-> encryption_key]
            ELSE executed[r]]

SignInStep ==
    /\ Alive
    /\ \/ OnList /\ ((\E a \in Attempts : initiateSignIn(a))
                       \/ PullBegin \/ OnAppear)
       \/ PullEnd
       \/ \E a \in Attempts :
             \/ TaskStep(a)
             \/ CircleAccepts(a) \/ ChallengeSuccess(a) \/ ChallengeFailure(a)
    /\ UNCHANGED <<deposit, pass, purchased_pass, observed>>

WalletCreated ==
    /\ \E u \in Attempts : CreateWallet(u)
    /\ UNCHANGED <<deposit, pass, purchased_pass, observed>>

(* A deposit that succeeds records a pass behind the back of the list. *)
DepositStep ==
    /\ Alive
    /\ UNCHANGED signIn
    /\ \/ /\ \/ sheet = Nil /\ \E v \in Visits : D!Enter(v)
             \/ D!Leave
             \/ \E t \in Texts : D!EditAmount(t)
             \/ \E d \in Deposits :
                   D!depositFunds(d) \/ D!TaskStep(d) \/ D!DepositFailure(d)
          /\ UNCHANGED pass
       \/ \E d \in Deposits : D!DepositSuccess(d) /\ P!DepositGrants
    /\ Observe

PassStep ==
    /\ Alive
    /\ UNCHANGED <<signIn, deposit>>
    /\ \/ visible = Nil /\ \E s \in Sheets : P!OpenSheet(s)
       \/ P!CloseSheet \/ P!OnChange
       \/ \E w \in Scans :
             P!TapWorldCoin(w) \/ P!Panic(w) \/ P!Approve(w) \/ P!ScanStep(w)
       \/ \E m \in Mints :
             \/ P!initiatePassMint(m) \/ P!MintStep(m)
             \/ P!MintSuccess(m) \/ P!MintFailure(m)
    /\ Observe

(* The process ends, at any point and with all its tasks, and is started   *)
(* again.                                                                  *)
AppRelaunch ==
    /\ Relaunch
    /\ UNCHANGED purchased_pass
    /\ D!Relaunch
    /\ P!Relaunch
    /\ UNCHANGED observed

AppNext == SignInStep \/ WalletCreated \/ DepositStep \/ PassStep \/ AppRelaunch

AppSpec == AppInit /\ [][AppNext]_appVars

-----------------------------------------------------------------------------
(***************************************************************************)
(* Properties                                                              *)
(***************************************************************************)

(* A challenge is executed for the wallet its request was sent for, with   *)
(* tokens and a key of sessions of that wallet's user, although the token  *)
(* of the request (CircleNetworking.swift:177) is read again after the     *)
(* await and sign-ins store sessions in between, unless two sign-ins made  *)
(* an identity each.  Token, second token and key are of one and the same  *)
(* session, unless the sign-in whose token the request carries met another. *)
ExecutedSessionAgrees ==
    \A r \in Requests :
        LET req == requested[r]
            exe == executed[r]
        IN  exe # Absent =>
              /\ ~forked => /\ exe.wallet = req.wallet
                            /\ \A a \in {req.token, exe.token, exe.key} :
                                  userId[a] = req.wallet
              /\ req.token \notin met => /\ exe.token = req.token
                                         /\ exe.key = req.token
                                         /\ exe.wallet = req.wallet

(* Who owns a pass has an address: the comment button, shown to owners     *)
(* only, unwraps the stored address (ProtocolDetailView.swift:193) and     *)
(* never traps, whichever of the two flows recorded the pass and whatever  *)
(* process died in between.                                                *)
OwnerHasAddress == purchased_pass => address # Nil

(* What Deposit assumes of its surroundings is what the sign-in and the    *)
(* pass sheet do: every step of the app is a step of Deposit, or none.     *)
DepositFits == D!Spec

(* The same for the pass sheet, whose environment also has the deposits    *)
(* that record a pass.                                                     *)
PassFits == P!Spec

(* PremiumPassView.swift:67, "This step is necessary to verify that you    *)
(* are actually a human.": a pass is recorded only for a mint with an      *)
(* approved proof.                                                         *)
PassIsEarned == purchased_pass => \E m \in Mints : P!Earned(m)
=============================================================================
