----------------------------- MODULE AppProofs -----------------------------
(***************************************************************************)
(* Proofs about App for any number of attempts, deposits and mints.        *)
(*                                                                         *)
(* The app implements each of its three components.  What Deposit and      *)
(* PremiumPass assume of the sign-in follows from the order in which an    *)
(* attempt persists its values (SignInProofs!DefaultsMove).  What was      *)
(* proved of the components therefore holds in the app, and the properties *)
(* of the whole rest on it.                                                *)
(***************************************************************************)
EXTENDS App, SignInProofs

DP == INSTANCE DepositProofs WITH
        stored <- StoredForDeposit, toastMessage <- pageToast,
        pc <- depositPc, trap <- depositTrap
PP == INSTANCE PremiumPassProofs WITH
        stored <- StoredForPass, trap <- passTrap,
        granted <- \E d \in Deposits : depositPc[d] = "succeeded"

-----------------------------------------------------------------------------
(* The sign-in.                                                            *)

(* Every step of the app is a step of the sign-in, or none of its steps.   *)
LEMMA SignInMoves ==
    ASSUME [AppNext]_appVars
    PROVE  [Next]_vars
  <1>1. CASE SignInStep BY <1>1 DEF SignInStep, Next
  <1>2. CASE WalletCreated BY <1>2 DEF WalletCreated, Next
  <1>3. CASE DepositStep BY <1>3 DEF DepositStep, signIn
  <1>4. CASE PassStep BY <1>4 DEF PassStep, signIn
  <1>5. CASE AppRelaunch BY <1>5 DEF AppRelaunch, Next
  <1>6. CASE UNCHANGED appVars BY <1>6 DEF appVars, signIn
  <1> QED BY <1>1, <1>2, <1>3, <1>4, <1>5, <1>6 DEF AppNext

(* The app implements the sign-in, so that what is proved of any run of     *)
(* SignIn holds in the app.                                                 *)
THEOREM SignInFits == AppSpec => Spec
  <1>1. AppInit => Init BY DEF AppInit
  <1>2. [AppNext]_appVars => [Next]_vars BY SignInMoves
  <1> QED BY <1>1, <1>2, PTL DEF AppSpec, Spec

(* The stages move on one at a time, and only while an attempt runs.       *)
LEMMA StageMoves ==
    ASSUME CredentialInv, WalletInv, SignInStep
    PROVE  /\ \/ StoredForDeposit' = StoredForDeposit
              \/ StoredForDeposit = "nothing" /\ StoredForDeposit' = "session"
              \/ StoredForDeposit = "session" /\ StoredForDeposit' = "wallet"
           /\ \/ StoredForPass' = StoredForPass
              \/ StoredForPass = "nothing" /\ StoredForPass' = "shown"
              \/ StoredForPass = "shown" /\ StoredForPass' = "address"
              \/ StoredForPass = "address" /\ StoredForPass' = "wallet"
  <1>1. ASSUME NEW a \in Attempts, AttemptStep(a)
        PROVE  \/ StoredForDeposit' = StoredForDeposit
               \/ StoredForDeposit = "nothing" /\ StoredForDeposit' = "session"
               \/ StoredForDeposit = "session" /\ StoredForDeposit' = "wallet"
    <2>1. a # Nil BY NilAssumption
    <2> QED BY <1>1, <2>1, DefaultsMove DEF StoredForDeposit
  <1>2. ASSUME NEW a \in Attempts, AttemptStep(a)
        PROVE  \/ StoredForPass' = StoredForPass
               \/ StoredForPass = "nothing" /\ StoredForPass' = "shown"
               \/ StoredForPass = "shown" /\ StoredForPass' = "address"
               \/ StoredForPass = "address" /\ StoredForPass' = "wallet"
    <2>1. pc[a] = "storeWalletID" => address # Nil
      BY DEF WalletInv, HasStored, HasShown, HasWallet, Wallet
    <2> QED BY <1>2, <2>1, DefaultsMove DEF StoredForPass
  <1>3. CASE PullBegin \/ PullEnd
    BY <1>3 DEF PullBegin, PullEnd, StoredForDeposit, StoredForPass, defaults, view
  <1>4. CASE OnAppear
    BY <1>4 DEF OnAppear, StoredForDeposit, StoredForPass, defaults
  <1> QED BY <1>1, <1>2, <1>3, <1>4 DEF SignInStep, AttemptStep

-----------------------------------------------------------------------------
(* The deposits and the pass sheet.                                        *)

(* The only step of the sheet that records a pass is that of a mint.        *)
LEMMA DepositFrame ==
    ASSUME PassStep
    PROVE  UNCHANGED D!vars \/ D!PassMinted
  <1>1. /\ UNCHANGED <<StoredForDeposit, deposit>>
        /\ depositTrap = "none"
    BY DEF PassStep, Alive, signIn, vars, defaults, StoredForDeposit
  <1>2. purchased_pass' = purchased_pass \/ purchased_pass' = TRUE
    BY DEF PassStep, P!OpenSheet, P!CloseSheet, P!OnChange, P!TapWorldCoin,
       P!Panic, P!Approve, P!ScanStep, P!initiateWorldCoin, P!PollConfirmed,
       P!StoreProof, P!CompleteStepOne, P!initiatePassMint, P!MintStep,
       P!BeginMint, P!ReadWalletAddress, P!ReadMerkleRoot, P!ReadNullifierHash,
       P!ReadProofString, P!ReadProof, P!SendRequest, P!executeChallenge,
       P!MintReturns, P!MintSuccess, P!MintFailure, P!defaults
  <1> QED BY <1>1, <1>2 DEF D!PassMinted, D!vars, D!defaults, D!navigation,
          D!state, D!task, deposit

(* Every step of the app is a step of Deposit, or none of its steps.        *)
LEMMA DepositMoves ==
    ASSUME CredentialInv, WalletInv, [AppNext]_appVars
    PROVE  [D!Next]_(D!vars)
  <1> USE DEF D!vars, D!defaults, D!navigation, D!state, D!task, deposit
  <1>1. CASE SignInStep
    <2>1. depositTrap = "none" /\ UNCHANGED <<deposit, purchased_pass>>
      BY <1>1 DEF SignInStep, Alive
    <2> QED BY <1>1, <2>1, StageMoves DEF D!Next, D!SignInStores
  <1>2. CASE WalletCreated
    BY <1>2 DEF WalletCreated, CreateWallet, StoredForDeposit, defaults
  <1>3. CASE DepositStep BY <1>3 DEF DepositStep, D!Next
  <1>4. CASE PassStep BY <1>4, DepositFrame DEF D!Next
  <1>5. CASE AppRelaunch BY <1>5 DEF AppRelaunch, D!Next
  <1>6. CASE UNCHANGED appVars
    BY <1>6 DEF appVars, signIn, vars, defaults, StoredForDeposit
  <1> QED BY <1>1, <1>2, <1>3, <1>4, <1>5, <1>6 DEF AppNext

(* What Deposit assumes of its surroundings is what the rest of the app     *)
(* does, for any number of overlapping sign-ins.                            *)
THEOREM DepositsFit == AppSpec => DepositFits
  <1>1. AppInit => D!Init BY DEF AppInit
  <1>2. CredentialInv /\ WalletInv /\ [AppNext]_appVars => [D!Next]_(D!vars)
    BY DepositMoves
  <1> QED BY <1>1, <1>2, SignInFits, CredentialInvariant, WalletHasAddress, PTL
          DEF AppSpec, DepositFits, D!Spec

(* D and DP are the same instance, of Deposit and of its proofs.            *)
LEMMA SameDeposit == (D!Spec <=> DP!Spec) /\ (D!TypeOK <=> DP!TypeOK)
  <1>1. D!Init <=> DP!Init
    BY DEF D!Init, DP!Init, D!SignInStages, DP!SignInStages, D!EmptyFields,
       D!Unlocked, D!NoToasts, DP!EmptyFields, DP!Unlocked, DP!NoToasts
  <1>2. [D!Next]_(D!vars) <=> [DP!Next]_(DP!vars)
    BY DEF D!Next, D!vars, D!defaults, D!navigation, D!state, D!task, D!Goto,
       D!Enter, D!Leave, D!SignInStores, D!PassMinted, D!EditAmount,
       D!depositFunds, D!TaskStep, D!ReadAmount, D!AmountNil, D!SendRequest,
       D!WalletIDNil, D!executeChallenge, D!HasSession, D!DepositReturns,
       D!DepositSuccess, D!DepositFailure, D!FinishDeposit,
       D!showToast, D!Relaunch, D!InFlight, D!Working,
       D!EmptyFields, D!Unlocked, D!NoToasts,
       DP!Next, DP!vars, DP!defaults, DP!navigation, DP!state, DP!task, DP!Goto,
       DP!Enter, DP!Leave, DP!SignInStores, DP!PassMinted, DP!EditAmount,
       DP!depositFunds, DP!TaskStep, DP!ReadAmount, DP!AmountNil, DP!SendRequest,
       DP!WalletIDNil, DP!executeChallenge, DP!HasSession, DP!DepositReturns,
       DP!DepositSuccess, DP!DepositFailure, DP!FinishDeposit,
       DP!showToast, DP!Relaunch, DP!InFlight, DP!Working,
       DP!EmptyFields, DP!Unlocked, DP!NoToasts
  <1>3. D!TypeOK <=> DP!TypeOK
    BY DEF D!TypeOK, DP!TypeOK, D!SignInStages, DP!SignInStages, D!Ended,
       DP!Ended, D!Working, DP!Working
  <1> QED BY <1>1, <1>2, <1>3, PTL DEF D!Spec, DP!Spec

(* The types of the deposits in the app.                                    *)
LEMMA DepositTypes == AppSpec => []D!TypeOK
  BY DepositsFit, SameDeposit, DP!DepositTypes, DepositAssumption, PTL
     DEF DepositFits

(* The only step of a deposit that the sheet sees is the pass it records.   *)
LEMMA PassFrame ==
    ASSUME D!TypeOK, DepositStep
    PROVE  UNCHANGED P!vars \/ P!DepositGrants
  <1>1. CASE \E d \in Deposits : D!DepositSuccess(d) /\ P!DepositGrants
    BY <1>1
  <1>2. CASE /\ UNCHANGED pass
             /\ \/ \E v \in Visits : D!Enter(v)
                \/ D!Leave
                \/ \E t \in Texts : D!EditAmount(t)
    BY <1>2 DEF DepositStep, signIn, vars, defaults, view, StoredForPass, pass,
       D!Enter, D!Leave, D!EditAmount, D!defaults, D!task, P!vars, P!defaults,
       P!content, P!state, P!scans, P!mints, P!history
  <1>3. ASSUME UNCHANGED pass, NEW d \in Deposits,
               D!depositFunds(d) \/ D!TaskStep(d) \/ D!DepositFailure(d)
        PROVE  UNCHANGED P!vars
    <2>1. /\ UNCHANGED purchased_pass
          /\ depositPc[d] # "succeeded"
          /\ \E to : depositPc' = [depositPc EXCEPT ![d] = to] /\ to # "succeeded"
      BY <1>3 DEF D!depositFunds, D!TaskStep, D!ReadAmount, D!AmountNil,
         D!SendRequest, D!WalletIDNil, D!executeChallenge, D!DepositReturns,
         D!DepositFailure, D!Goto, D!defaults
    <2>2. DOMAIN depositPc = Deposits BY DEF D!TypeOK
    <2>3. \A e \in Deposits :
             depositPc'[e] = "succeeded" <=> depositPc[e] = "succeeded"
      BY <2>1, <2>2
    <2>4. (\E e \in Deposits : depositPc[e] = "succeeded")'
            = \E e \in Deposits : depositPc[e] = "succeeded"
      BY <2>3
    <2>5. UNCHANGED StoredForPass
      BY DEF DepositStep, signIn, vars, defaults, view, StoredForPass
    <2> QED BY <1>3, <2>1, <2>4, <2>5 DEF pass, P!vars, P!defaults, P!content,
            P!state, P!scans, P!mints, P!history
  <1> QED BY <1>1, <1>2, <1>3 DEF DepositStep

(* Every step of the app is a step of PremiumPass, or none of its steps.    *)
LEMMA PassMoves ==
    ASSUME CredentialInv, WalletInv, D!TypeOK, [AppNext]_appVars
    PROVE  [P!Next]_(P!vars)
  <1> USE DEF P!vars, P!defaults, P!content, P!state, P!scans, P!mints,
          P!history, pass, deposit
  <1>1. CASE SignInStep
    <2>1. passTrap = "none" /\ UNCHANGED <<deposit, pass, purchased_pass>>
      BY <1>1 DEF SignInStep, Alive
    <2> QED BY <1>1, <2>1, StageMoves DEF P!Next, P!SignInStores, P!Alive
  <1>2. CASE WalletCreated
    BY <1>2 DEF WalletCreated, CreateWallet, StoredForPass, defaults, view
  <1>3. CASE DepositStep BY <1>3, PassFrame DEF P!Next
  <1>4. CASE PassStep BY <1>4 DEF PassStep, P!Next
  <1>5. CASE AppRelaunch BY <1>5 DEF AppRelaunch, P!Next
  <1>6. CASE UNCHANGED appVars
    BY <1>6 DEF appVars, signIn, vars, defaults, view, StoredForPass
  <1> QED BY <1>1, <1>2, <1>3, <1>4, <1>5, <1>6 DEF AppNext

(* What PremiumPass assumes of the sign-in and of the deposits is what they *)
(* do, for any number of overlapping sign-ins.                              *)
THEOREM PassesFit == AppSpec => PassFits
  <1>1. AppInit => P!Init BY DEF AppInit
  <1>2. CredentialInv /\ WalletInv /\ D!TypeOK /\ [AppNext]_appVars
          => [P!Next]_(P!vars)
    BY PassMoves
  <1> QED BY <1>1, <1>2, SignInFits, CredentialInvariant, WalletHasAddress,
             DepositTypes, PTL
          DEF AppSpec, PassFits, P!Spec

-----------------------------------------------------------------------------
(* What is proved of the components holds in the app.                       *)

(* P and PP, too, are the same instance: the same initial states,           *)
LEMMA SamePassInit == P!Init <=> PP!Init
  BY DEF P!Init, PP!Init, P!SignInStages, PP!SignInStages, P!Arguments,
     PP!Arguments, P!FreshFlags, PP!FreshFlags, P!NoProof, PP!NoProof

(* the same steps                                                           *)
LEMMA SamePassNext == [P!Next]_(P!vars) <=> [PP!Next]_(PP!vars)
  <1>1. P!FreeThread <=> PP!FreeThread
    BY DEF P!FreeThread, P!Scanning, P!Building, P!Cardinality,
           PP!FreeThread, PP!Scanning, PP!Building, PP!Cardinality
  <1> USE DEF P!defaults, P!content, P!state, P!scans, P!mints, P!Alive,
              P!Settled, P!ScanGoto, P!MintGoto, P!InFlight, P!Building,
              P!Awaiting, P!history, PP!history, PP!defaults, PP!content, PP!state, PP!scans,
              PP!mints, PP!Alive, PP!Settled, PP!ScanGoto, PP!MintGoto,
              PP!InFlight, PP!Building, PP!Awaiting
  <1>2. UNCHANGED P!vars <=> UNCHANGED PP!vars BY DEF P!vars, PP!vars
  <1>3. /\ P!SignInStores <=> PP!SignInStores
        /\ P!DepositGrants <=> PP!DepositGrants
        /\ P!CloseSheet <=> PP!CloseSheet
        /\ P!OnChange <=> PP!OnChange
        /\ P!Relaunch <=> PP!Relaunch
    BY DEF P!SignInStores, P!DepositGrants, P!Unnoticed, P!CloseSheet,
           P!OnChange, P!Relaunch, P!SignInForgets, P!FreshFlags, P!NoProof,
           PP!SignInStores, PP!DepositGrants, PP!Unnoticed, PP!CloseSheet,
           PP!OnChange, PP!Relaunch, PP!SignInForgets, PP!FreshFlags,
           PP!NoProof
  <1>4. \A s \in Sheets : P!OpenSheet(s) <=> PP!OpenSheet(s)
    BY DEF P!OpenSheet, PP!OpenSheet
  <1>5. \A w \in Scans :
           /\ P!TapWorldCoin(w) <=> PP!TapWorldCoin(w)
           /\ P!Panic(w) <=> PP!Panic(w)
           /\ P!Approve(w) <=> PP!Approve(w)
    BY DEF P!TapWorldCoin, P!Panic, P!Approve, PP!TapWorldCoin, PP!Panic,
           PP!Approve
  <1>6. \A w \in Scans : P!ScanStep(w) <=> PP!ScanStep(w)
    <2> SUFFICES ASSUME NEW w \in Scans PROVE P!ScanStep(w) <=> PP!ScanStep(w)
      OBVIOUS
    <2>1. P!initiateWorldCoin(w) <=> PP!initiateWorldCoin(w)
      BY <1>1 DEF P!initiateWorldCoin, PP!initiateWorldCoin
    <2>2. P!PollConfirmed(w) <=> PP!PollConfirmed(w)
      BY DEF P!PollConfirmed, PP!PollConfirmed
    <2>3. P!StoreProof(w) <=> PP!StoreProof(w)
      BY DEF P!StoreProof, PP!StoreProof
    <2>4. P!CompleteStepOne(w) <=> PP!CompleteStepOne(w)
      BY DEF P!CompleteStepOne, PP!CompleteStepOne
    <2> QED BY <2>1, <2>2, <2>3, <2>4 DEF P!ScanStep, PP!ScanStep
  <1>7. \A m \in Mints : P!MintStep(m) <=> PP!MintStep(m)
    <2> SUFFICES ASSUME NEW m \in Mints PROVE P!MintStep(m) <=> PP!MintStep(m)
      OBVIOUS
    <2>1. P!BeginMint(m) <=> PP!BeginMint(m)
      BY <1>1 DEF P!BeginMint, PP!BeginMint
    <2>2. P!ReadWalletAddress(m) <=> PP!ReadWalletAddress(m)
      BY DEF P!ReadWalletAddress, PP!ReadWalletAddress, P!HasAddress,
         PP!HasAddress
    <2>3. \A arg, next : P!ReadProof(m, arg, next) <=> PP!ReadProof(m, arg, next)
      BY DEF P!ReadProof, PP!ReadProof, P!Converted, PP!Converted
    <2>4. P!SendRequest(m) <=> PP!SendRequest(m)
      BY DEF P!SendRequest, PP!SendRequest, P!HasWalletID, PP!HasWalletID
    <2>5. P!executeChallenge(m) <=> PP!executeChallenge(m)
      BY <1>1 DEF P!executeChallenge, PP!executeChallenge
    <2>6. P!MintReturns(m) <=> PP!MintReturns(m)
      BY <1>1 DEF P!MintReturns, PP!MintReturns
    <2> QED BY <2>1, <2>2, <2>3, <2>4, <2>5, <2>6
            DEF P!MintStep, P!ReadMerkleRoot, P!ReadNullifierHash,
                P!ReadProofString, PP!MintStep, PP!ReadMerkleRoot,
                PP!ReadNullifierHash, PP!ReadProofString
  <1>8. \A m \in Mints :
           /\ P!initiatePassMint(m) <=> PP!initiatePassMint(m)
           /\ P!MintSuccess(m) <=> PP!MintSuccess(m)
           /\ P!MintFailure(m) <=> PP!MintFailure(m)
    BY DEF P!initiatePassMint, P!FinishMint, P!Unnoticed, P!MintSuccess,
           P!MintFailure, PP!initiatePassMint, PP!FinishMint, PP!Unnoticed,
           PP!MintSuccess, PP!MintFailure
  <1> QED BY <1>2, <1>3, <1>4, <1>5, <1>6, <1>7, <1>8 DEF P!Next, PP!Next

(* and the same types.                                                      *)
LEMMA SamePassTypes == P!TypeOK <=> PP!TypeOK
  BY DEF P!TypeOK, PP!TypeOK, P!SignInStages, PP!SignInStages, P!Scanning,
     PP!Scanning, P!Building, PP!Building, P!Awaiting, PP!Awaiting,
     P!Arguments, PP!Arguments

(* The invariant of the sheet, with deposits in the same process.           *)
THEOREM PassInApp == AppSpec => PP!Spec /\ []PP!PassInv /\ []P!TypeOK
  <1>1. AppSpec => PP!Spec
    BY PassesFit, SamePassInit, SamePassNext, PTL DEF PassFits, P!Spec, PP!Spec
  <1>2. PP!Spec => []PP!PassInv BY PP!PassInvariant, PassAssumption
  <1>3. PP!PassInv => P!TypeOK BY SamePassTypes DEF PP!PassInv, PP!FlowInv
  <1> QED BY <1>1, <1>2, <1>3, PTL

-----------------------------------------------------------------------------
(* What the components promise alone they promise in the app: a deposit is  *)
(* for the amount tapped, a page has one at a time, a lock has its owner.   *)
THEOREM DepositsInApp ==
    AppSpec => [](D!SubmittedIsTapped /\ D!OneDepositPerPage /\ D!LockHasOwner)
  <1>1. DP!SubmittedIsTapped => D!SubmittedIsTapped
    BY DEF D!SubmittedIsTapped, DP!SubmittedIsTapped
  <1>2. DP!OneDepositPerPage => D!OneDepositPerPage
    BY DEF D!OneDepositPerPage, DP!OneDepositPerPage, D!InFlight, DP!InFlight,
       D!Working, DP!Working
  <1>3. DP!LockHasOwner => D!LockHasOwner
    BY DEF D!LockHasOwner, DP!LockHasOwner, D!Working, DP!Working
  <1>4. DP!Spec => []DP!SubmittedIsTapped /\ []DP!OneDepositPerPage
                     /\ []DP!LockHasOwner
    BY DP!AmountIsKept, DP!PageIsLocked, DP!LocksHaveOwners,
       DepositAssumption, PTL
  <1> QED BY <1>1, <1>2, <1>3, <1>4, DepositsFit, SameDeposit, PTL
          DEF DepositFits

(* No mint of the app unwraps a nil proof.                                  *)
THEOREM ProofsInApp == AppSpec => []P!StepOneHasProof
  <1>1. PP!PassInv => P!StepOneHasProof
    BY DEF PP!PassInv, PP!FlowInv, PP!SheetInv, P!StepOneHasProof
  <1> QED BY <1>1, PassInApp, PTL

(* The app revokes no pass and shows none that is not recorded, although    *)
(* two flows record it.  With no sheet up it shows every one that is, but   *)
(* for those recorded or closed behind the back of the list.                *)
THEOREM PassKeptInApp == AppSpec => P!PassIsKept /\ []P!OwnerSectionShown
  <1> DEFINE Keeps == /\ purchased_pass => purchased_pass'
                      /\ purchasedPass' => purchased_pass
  <1>1. [Keeps]_(PP!vars) => [Keeps]_(P!vars)
    BY DEF P!vars, P!defaults, P!content, P!state, P!scans, P!mints,
       P!history, PP!vars, PP!defaults, PP!content, PP!state, PP!scans,
       PP!mints, PP!history
  <1>2. PP!OwnerSectionShown => P!OwnerSectionShown
    BY DEF P!OwnerSectionShown, PP!OwnerSectionShown, P!Settled, PP!Settled
  <1>3. PP!Spec => PP!PassIsKept /\ []PP!OwnerSectionShown
    BY PP!PassKept, PP!OwnerSection, PassAssumption, PTL
  <1> HIDE DEF Keeps
  <1>4. PP!PassIsKept => P!PassIsKept
    BY <1>1, PTL DEF Keeps, P!PassIsKept, PP!PassIsKept
  <1> QED BY <1>2, <1>3, <1>4, PassInApp, PTL

(* What is proved of the sign-in holds beside deposits and mints.           *)
THEOREM SignInInApp ==
    AppSpec => []StoredSessionAgrees /\ []ShownWalletAgrees /\ ImplementsAccount
  BY SignInFits, SessionsAgree, ScreenAgrees, AccountRefinement, PTL

-----------------------------------------------------------------------------
(* The properties of the whole.                                            *)

(* The points at which a request is out, or its challenge is, and those     *)
(* from the challenge on.                                                   *)
Out == {"request", "sdk"}
After == {"sdk", "succeeded", "done", "failed", "dead"}

(* How a deposit gets there: one point at a time, the first with the wallet *)
(* id stored.  Only a challenge that is out records a pass.                 *)
LEMMA DepositPoints ==
    ASSUME D!TypeOK, DepositStep
    PROVE  /\ \A d \in Deposits :
                 /\ \/ depositPc'[d] = depositPc[d]
                    \/ depositPc'[d] \notin Out
                    \/ depositPc'[d] = "request" /\ wallet_id # Nil
                    \/ depositPc[d] = "request" /\ depositPc'[d] = "sdk"
                 /\ depositPc[d] \in After => depositPc'[d] \in After
           /\ \/ purchased_pass' = purchased_pass
              \/ \E d \in Deposits : depositPc[d] = "sdk"
           /\ UNCHANGED <<mintPc, passTrap>>
  <1>1. depositPc \in [Deposits -> D!Ended \union D!Working] BY DEF D!TypeOK
  <1> USE DEF Out, After, D!Goto, D!defaults, D!navigation, D!state, D!task
  <1>2. CASE UNCHANGED <<depositPc, purchased_pass, mintPc, passTrap>> BY <1>2
  <1>3. ASSUME NEW d \in Deposits,
               \/ D!depositFunds(d) \/ D!ReadAmount(d) \/ D!AmountNil(d)
               \/ D!WalletIDNil(d) \/ D!DepositReturns(d)
               \/ D!DepositSuccess(d) \/ D!DepositFailure(d)
        PROVE  /\ \E to : /\ depositPc' = [depositPc EXCEPT ![d] = to]
                          /\ to \notin Out
                          /\ depositPc[d] \in After => to \in After
               /\ purchased_pass' = purchased_pass \/ depositPc[d] = "sdk"
    BY <1>3 DEF D!depositFunds, D!ReadAmount, D!AmountNil, D!WalletIDNil,
       D!DepositReturns, D!DepositSuccess, D!DepositFailure
  <1>4. ASSUME NEW d \in Deposits, D!SendRequest(d) \/ D!executeChallenge(d)
        PROVE  /\ UNCHANGED purchased_pass
               /\ \E to : /\ depositPc' = [depositPc EXCEPT ![d] = to]
                          /\ \/ to = "request" /\ wallet_id # Nil
                             \/ depositPc[d] = "request" /\ to = "sdk"
                          /\ depositPc[d] \notin After
    BY <1>4 DEF D!SendRequest, D!executeChallenge, StoredForDeposit
  <1>5. UNCHANGED <<mintPc, passTrap>>
    BY DEF DepositStep, pass, P!DepositGrants, P!mints
  <1>6. \/ UNCHANGED <<depositPc, purchased_pass>>
        \/ \E d \in Deposits :
              \/ D!depositFunds(d) \/ D!TaskStep(d)
              \/ D!DepositSuccess(d) \/ D!DepositFailure(d)
    BY DEF DepositStep, D!Enter, D!Leave, D!EditAmount
  <1> QED BY <1>1, <1>2, <1>3, <1>4, <1>5, <1>6 DEF D!TaskStep

(* The same for a mint; one that finds no wallet id traps on its way.       *)
LEMMA MintPoints ==
    ASSUME P!TypeOK, PassStep
    PROVE  /\ \A m \in Mints :
                 /\ \/ mintPc'[m] = mintPc[m]
                    \/ mintPc'[m] \notin Out
                    \/ /\ mintPc'[m] = "request"
                       /\ passTrap' = "none" => wallet_id # Nil
                    \/ mintPc[m] = "request" /\ mintPc'[m] = "sdk"
                 /\ mintPc[m] \in After => mintPc'[m] \in After
           /\ \/ purchased_pass' = purchased_pass
              \/ \E m \in Mints : mintPc[m] = "sdk"
  <1>1. DOMAIN mintPc = Mints BY DEF P!TypeOK
  <1> USE DEF Out, After, P!MintGoto, P!ScanGoto, P!defaults, P!content,
          P!state, P!scans, P!mints
  <1>2. CASE UNCHANGED <<mintPc, purchased_pass>> BY <1>2
  <1>3. ASSUME NEW m \in Mints,
               \/ P!initiatePassMint(m) \/ P!BeginMint(m)
               \/ P!ReadWalletAddress(m) \/ P!ReadMerkleRoot(m)
               \/ P!ReadNullifierHash(m) \/ P!ReadProofString(m)
               \/ P!MintReturns(m) \/ P!MintSuccess(m) \/ P!MintFailure(m)
        PROVE  /\ \E to : /\ mintPc' = [mintPc EXCEPT ![m] = to]
                          /\ to \notin Out
                          /\ mintPc[m] \in After => to \in After
               /\ purchased_pass' = purchased_pass \/ mintPc[m] = "sdk"
    BY <1>3 DEF P!initiatePassMint, P!BeginMint, P!ReadWalletAddress,
       P!ReadMerkleRoot, P!ReadNullifierHash, P!ReadProofString, P!ReadProof,
       P!MintReturns, P!MintSuccess, P!MintFailure
  <1>4. ASSUME NEW m \in Mints, P!SendRequest(m) \/ P!executeChallenge(m)
        PROVE  /\ UNCHANGED purchased_pass
               /\ \E to : /\ mintPc' = [mintPc EXCEPT ![m] = to]
                          /\ \/ /\ to = "request"
                                /\ passTrap' = "none" => wallet_id # Nil
                             \/ mintPc[m] = "request" /\ to = "sdk"
                          /\ mintPc[m] \notin After
    BY <1>4 DEF P!SendRequest, P!executeChallenge, P!HasWalletID, StoredForPass
  <1>5. \/ UNCHANGED <<mintPc, purchased_pass>>
        \/ \E m \in Mints :
              \/ P!initiatePassMint(m) \/ P!MintStep(m)
              \/ P!MintSuccess(m) \/ P!MintFailure(m)
    BY DEF PassStep, P!OpenSheet, P!CloseSheet, P!OnChange, P!TapWorldCoin,
       P!Panic, P!Approve, P!ScanStep, P!initiateWorldCoin, P!PollConfirmed,
       P!StoreProof, P!CompleteStepOne
  <1> QED BY <1>1, <1>2, <1>3, <1>4, <1>5 DEF P!MintStep

(* A launch finds no request out, and what was executed before it executed. *)
LEMMA LaunchPoints ==
    ASSUME AppRelaunch
    PROVE  /\ \A d \in Deposits :
                 /\ depositPc'[d] \notin Out
                 /\ depositPc[d] \in After => depositPc'[d] \in After
           /\ \A m \in Mints :
                 /\ mintPc'[m] \notin Out
                 /\ mintPc[m] \in After => mintPc'[m] \in After
           /\ UNCHANGED purchased_pass
  <1>1. \A d \in Deposits : /\ depositPc'[d] \notin Out
                            /\ depositPc[d] \in After => depositPc'[d] \in After
    BY DEF AppRelaunch, D!Relaunch, D!InFlight, D!Working, Out, After
  <1>2. \A m \in Mints : /\ mintPc'[m] \notin Out
                         /\ mintPc[m] \in After => mintPc'[m] \in After
    BY DEF AppRelaunch, P!Relaunch, P!InFlight, P!Awaiting, Out, After
  <1> QED BY <1>1, <1>2 DEF AppRelaunch

(* A request is sent for a stored wallet, and so is a pass recorded. *)
OwnerInv ==
    /\ purchased_pass => wallet_id # Nil
    /\ \A d \in Deposits : depositPc[d] \in Out => wallet_id # Nil
    /\ passTrap = "none" => \A m \in Mints : mintPc[m] \in Out => wallet_id # Nil

(* Every step keeps that.                                                   *)
LEMMA OwnerKept ==
    ASSUME CredentialInv, WalletInv, D!TypeOK, P!TypeOK, OwnerInv,
           [AppNext]_appVars
    PROVE  OwnerInv'
  <1>1. wallet_id # Nil => wallet_id' # Nil BY SignInMoves, WalletStep
  <1>2. CASE UNCHANGED <<deposit, pass, purchased_pass>>
    BY <1>1, <1>2 DEF OwnerInv, deposit, pass
  <1>3. CASE DepositStep
    BY <1>1, <1>3, DepositPoints DEF OwnerInv, Out
  <1>4. CASE PassStep
    <2>1. UNCHANGED depositPc /\ passTrap = "none"
      BY <1>4 DEF PassStep, deposit, Alive
    <2> QED BY <1>1, <1>4, <2>1, MintPoints DEF OwnerInv, Out
  <1>5. CASE AppRelaunch BY <1>1, <1>5, LaunchPoints DEF OwnerInv
  <1> QED BY <1>2, <1>3, <1>4, <1>5 DEF AppNext, SignInStep, WalletCreated,
          appVars

(* Who owns a pass has an address, whichever flow recorded the pass, for    *)
(* any number of overlapping sign-ins, deposits and mints.                  *)
THEOREM OwnersHaveAddresses == AppSpec => []OwnerHasAddress
  <1>1. AppInit => OwnerInv
    BY DEF AppInit, D!Init, P!Init, OwnerInv, Out
  <1>2. CredentialInv /\ WalletInv /\ D!TypeOK /\ P!TypeOK /\ OwnerInv
          /\ [AppNext]_appVars => OwnerInv'
    BY OwnerKept
  <1>3. OwnerInv /\ WalletInv => OwnerHasAddress
    BY DEF OwnerInv, WalletInv, OwnerHasAddress
  <1> QED BY <1>1, <1>2, <1>3, SignInFits, CredentialInvariant,
             WalletHasAddress, DepositTypes, PassInApp, PTL DEF AppSpec

-----------------------------------------------------------------------------
(* What a request is sent with and what its challenge is executed with,     *)
(* read off the stored values.                                              *)
Sent == [wallet |-> wallet_id, token |-> user_token, key |-> Nil]
Session == [wallet |-> wallet_id, token |-> user_token, key |-> encryption_key]

(* A token or a key of an attempt that has its user.                        *)
OfUser(a) == a \in Attempts /\ userId[a] # Nil

(* What was sent is for a wallet that is still stored unless the device was *)
(* forked, and the whole session is, unless its attempt met another.        *)
SentInv(r) ==
    /\ wallet_id # Nil
    /\ OfUser(requested[r].token)
    /\ ~forked => requested[r].wallet = wallet_id
    /\ requested[r].token \notin met =>
          /\ requested[r].token = user_token
          /\ requested[r].token = encryption_key
          /\ requested[r].wallet = wallet_id

(* The same for what was executed. *)
ExecutedInv(r) ==
    /\ SentInv(r)
    /\ OfUser(executed[r].token) /\ OfUser(executed[r].key)
    /\ ~forked => executed[r].wallet = wallet_id
    /\ requested[r].token \notin met => executed[r] = Session

SessionInv(r) ==
    /\ passTrap = "none" /\ Phase(r) = "request" => SentInv(r)
    /\ executed[r] # Absent => Phase(r) \in After /\ ExecutedInv(r)

(* A step of either flow, for either kind of request.                       *)
LEMMA RequestPoints ==
    ASSUME D!TypeOK, P!TypeOK, DepositStep \/ PassStep, NEW r \in Requests
    PROVE  /\ \/ Phase(r)' = Phase(r)
              \/ Phase(r)' \notin Out
              \/ Phase(r)' = "request" /\ (passTrap' = "none" => wallet_id # Nil)
              \/ Phase(r) = "request" /\ Phase(r)' = "sdk"
           /\ Phase(r) \in After => Phase(r)' \in After
  <1>1. CASE DepositStep
    BY <1>1, DepositPoints DEF Phase
  <1>2. CASE PassStep
    <2>1. UNCHANGED depositPc BY <1>2 DEF PassStep, deposit
    <2> QED BY <1>2, <2>1, MintPoints DEF Phase, Requests
  <1> QED BY <1>1, <1>2

(* What was sent and executed stays as good as it was in every step that    *)
(* sends and executes nothing.                                              *)
LEMMA SessionRests ==
    ASSUME CredentialInv, WalletInv, UserInv, IdentityInv, SoloInv,
           [AppNext]_appVars, NEW r \in Requests,
           requested'[r] = requested[r], executed'[r] = executed[r]
    PROVE  /\ SentInv(r) => SentInv(r)'
           /\ ExecutedInv(r) => ExecutedInv(r)'
  <1>1. /\ forked => forked'
        /\ \A a : OfUser(a) => OfUser(a)'
    BY SignInMoves, UserStep DEF OfUser
  <1>2. wallet_id # Nil =>
          /\ wallet_id' # Nil
          /\ met' = met
          /\ ~forked' => wallet_id' = wallet_id
          /\ user_token \notin met =>
                UNCHANGED <<wallet_id, user_token, encryption_key>>
    BY SignInMoves, SessionStays
  <1>3. OfUser(requested[r].token) => OfUser(requested[r].token)'
    BY <1>1 DEF OfUser
  <1>4. SentInv(r) => SentInv(r)' BY <1>1, <1>2, <1>3 DEF SentInv
  <1>5. ASSUME ExecutedInv(r) PROVE ExecutedInv(r)'
    <2>1. OfUser(executed[r].token)' /\ OfUser(executed[r].key)'
      BY <1>1, <1>5 DEF ExecutedInv, OfUser
    <2> QED BY <1>1, <1>2, <1>4, <1>5, <2>1 DEF ExecutedInv, SentInv, Session
  <1> QED BY <1>4, <1>5

(* Every step keeps SessionInv.                                             *)
LEMMA SessionKept ==
    ASSUME CredentialInv, WalletInv, UserInv, IdentityInv, SoloInv,
           D!TypeOK, P!TypeOK, [AppNext]_appVars,
           NEW r \in Requests, SessionInv(r)
    PROVE  SessionInv(r)'
  <1>1. CASE UNCHANGED <<deposit, pass, observed>>
    <2>1. /\ UNCHANGED <<Phase(r), passTrap>>
          /\ requested'[r] = requested[r] /\ executed'[r] = executed[r]
      BY <1>1 DEF deposit, pass, observed, Phase
    <2> QED BY <2>1, SessionRests DEF SessionInv, Absent
  <1>2. CASE DepositStep \/ PassStep
    <2>1. /\ Observe /\ passTrap = "none"
          /\ UNCHANGED <<wallet_id, user_token, encryption_key, userId, met, forked>>
      BY <1>2 DEF DepositStep, PassStep, Alive, signIn, vars, defaults, task,
         history
    <2>2. /\ requested'[r] = IF Phase(r) # "request" /\ Phase(r)' = "request"
                               THEN Sent ELSE requested[r]
          /\ executed'[r] = IF Phase(r) # "sdk" /\ Phase(r)' = "sdk"
                              THEN Session ELSE executed[r]
      BY <2>1 DEF Observe, Sent, Session
    <2>3. /\ \/ Phase(r)' = Phase(r)
             \/ Phase(r)' \notin Out
             \/ Phase(r)' = "request" /\ (passTrap' = "none" => wallet_id # Nil)
             \/ Phase(r) = "request" /\ Phase(r)' = "sdk"
          /\ Phase(r) \in After => Phase(r)' \in After
      BY <1>2, RequestPoints
    <2>4. wallet_id # Nil => OfUser(user_token) /\ OfUser(encryption_key)
      BY OptionalType DEF WalletInv, CredentialInv, TypeOK,
         SignedInHasCredentials, UserInv, OfUser
    <2>5. wallet_id # Nil /\ user_token \notin met => user_token = encryption_key
      BY DEF SoloInv
    <2>6. CASE Phase(r) # "request" /\ Phase(r)' = "request"
      <3>1. executed[r] = Absent /\ executed'[r] = Absent
        BY <2>2, <2>3, <2>6 DEF SessionInv, After
      <3>2. requested'[r] = Sent BY <2>2, <2>6
      <3>3. passTrap' = "none" => SentInv(r)'
        BY <2>1, <2>3, <2>4, <2>5, <2>6, <3>2 DEF SentInv, Sent, OfUser, Out
      <3> QED BY <3>1, <3>3 DEF SessionInv, Absent
    <2>7. CASE Phase(r) = "request" /\ Phase(r)' = "sdk"
      <3>1. SentInv(r) BY <2>1, <2>7 DEF SessionInv
      <3>2. requested'[r] = requested[r] /\ executed'[r] = Session
        BY <2>2, <2>7
      <3>3. SentInv(r)' BY <2>1, <3>1, <3>2 DEF SentInv, OfUser
      <3>4. ExecutedInv(r)'
        BY <2>1, <2>4, <3>1, <3>2, <3>3 DEF ExecutedInv, SentInv, Session, OfUser
      <3> QED BY <2>7, <3>4 DEF SessionInv, After
    <2>8. CASE Phase(r)' = Phase(r) \/ Phase(r)' \notin Out
      <3>1. requested'[r] = requested[r] /\ executed'[r] = executed[r]
        BY <2>2, <2>8 DEF Out
      <3> QED BY <2>1, <2>3, <2>8, <3>1, SessionRests DEF SessionInv, Out, Absent
    <2> QED BY <2>3, <2>6, <2>7, <2>8
  <1>3. CASE AppRelaunch
    <2>1. Phase(r)' # "request" /\ (Phase(r) \in After => Phase(r)' \in After)
      BY <1>3, LaunchPoints DEF Phase, Requests, Out
    <2>2. requested'[r] = requested[r] /\ executed'[r] = executed[r]
      BY <1>3 DEF AppRelaunch, observed
    <2> QED BY <2>1, <2>2, SessionRests DEF SessionInv, Absent
  <1> QED BY <1>1, <1>2, <1>3 DEF AppNext, SignInStep, WalletCreated, appVars

(* A challenge of a deposit or a mint is executed for the wallet and the    *)
(* user its request was sent for, unless the device was forked, and in the  *)
(* very session of the request, unless that session's attempt met another.  *)
(* For any number of overlapping sign-ins, deposits and mints.              *)
THEOREM SessionsMatch == AppSpec => []ExecutedSessionAgrees
  <1> DEFINE Inv == \A r \in Requests : SessionInv(r)
  <1>1. AppInit => Inv
    BY DEF AppInit, D!Init, P!Init, Requests, Phase, SessionInv
  <1>2. CredentialInv /\ WalletInv /\ UserInv /\ IdentityInv /\ SoloInv
          /\ D!TypeOK /\ P!TypeOK /\ Inv /\ [AppNext]_appVars => Inv'
    BY SessionKept
  <1>3. Inv /\ IdentityInv => ExecutedSessionAgrees
    <2> SUFFICES ASSUME Inv, IdentityInv, NEW r \in Requests,
                        executed[r] # Absent
                 PROVE  /\ ~forked =>
                             /\ executed[r].wallet = requested[r].wallet
                             /\ \A a \in {requested[r].token, executed[r].token,
                                          executed[r].key} :
                                   userId[a] = requested[r].wallet
                        /\ requested[r].token \notin met =>
                             /\ executed[r].token = requested[r].token
                             /\ executed[r].key = requested[r].token
                             /\ executed[r].wallet = requested[r].wallet
      BY DEF ExecutedSessionAgrees
    <2>1. ExecutedInv(r) /\ SentInv(r) BY DEF SessionInv, ExecutedInv
    <2>2. requested[r].token \notin met =>
             /\ executed[r].token = requested[r].token
             /\ executed[r].key = requested[r].token
             /\ executed[r].wallet = requested[r].wallet
      BY <2>1 DEF ExecutedInv, SentInv, Session
    <2>3. ASSUME ~forked
          PROVE  /\ executed[r].wallet = requested[r].wallet
                 /\ \A a \in {requested[r].token, executed[r].token,
                              executed[r].key} :
                       userId[a] = requested[r].wallet
      <3>1. wallet_id = uuid /\ \A a : OfUser(a) => userId[a] = uuid
        BY <2>1, <2>3 DEF IdentityInv, OneIdentity, OfIdentity, OfUser, SentInv
      <3> QED BY <2>1, <2>3, <3>1 DEF ExecutedInv, SentInv
    <2> QED BY <2>2, <2>3
  <1> HIDE DEF Inv
  <1> QED BY <1>1, <1>2, <1>3, SignInFits, CredentialInvariant,
             WalletHasAddress, UserInvariant, IdentityInvariant, SoloInvariant,
             DepositTypes, PassInApp, PTL DEF AppSpec
=============================================================================
