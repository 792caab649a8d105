--------------------------- MODULE DepositProofs ---------------------------
(***************************************************************************)
(* Proofs about Deposit for any number of pages, taps and texts.           *)
(*                                                                         *)
(* Neither property is inductive alone.  That the amount submitted is the  *)
(* amount tapped rests on the field not changing between the tap and the   *)
(* read, that is on the lock of the page; and the lock stays because the   *)
(* only callback that may open it belongs to the one deposit in flight.    *)
(***************************************************************************)
EXTENDS Deposit, TLAPS

(* What is known of tap d: it has a page from the tap on, no amount before *)
(* it, and the field still shows the tapped amount until it is read.       *)
TapInv(d) ==
    /\ InFlight(d) => page[d] \in Visits
    /\ pc[d] = "idle" => amount[d] = Nil
    /\ pc[d] = "amount" => amount[d] = Nil /\ tapped[d] = depositAmount[page[d]]

DepositInv ==
    /\ TypeOK
    /\ OneDepositPerPage
    /\ SubmittedIsTapped
    /\ \A d \in Deposits : TapInv(d)

USE TextAssumption, AbsentAssumption

(* Every step keeps the types, given a page for each deposit in flight.     *)
LEMMA TypeStep ==
    ASSUME DepositInv, [Next]_vars
    PROVE  TypeOK'
  <1> USE DEF TypeOK, SignInStages, Ended, Working, Goto, defaults,
          navigation, state, task
  <1>1. TypeOK BY DEF DepositInv
  <1>2. ASSUME NEW v \in Visits, Enter(v) PROVE TypeOK'
    BY <1>1, <1>2 DEF Enter
  <1>3. CASE Leave BY <1>1, <1>3 DEF Leave
  <1>4. CASE SignInStores \/ PassMinted
    BY <1>1, <1>4 DEF SignInStores, PassMinted
  <1>5. ASSUME NEW t \in Texts, EditAmount(t) PROVE TypeOK'
    BY <1>1, <1>5 DEF EditAmount
  <1>6. ASSUME NEW d \in Deposits, depositFunds(d) PROVE TypeOK'
    BY <1>1, <1>6 DEF depositFunds
  <1>7. ASSUME NEW d \in Deposits, ReadAmount(d) PROVE TypeOK'
    BY <1>1, <1>7 DEF ReadAmount
  <1>8. ASSUME NEW d \in Deposits,
               AmountNil(d) \/ SendRequest(d) \/ WalletIDNil(d)
        PROVE  TypeOK'
    BY <1>1, <1>8 DEF AmountNil, SendRequest, WalletIDNil
  <1>9. ASSUME NEW d \in Deposits,
               executeChallenge(d) \/ DepositReturns(d)
        PROVE  TypeOK'
    BY <1>1, <1>9 DEF executeChallenge, DepositReturns
  <1>10. ASSUME NEW d \in Deposits, DepositSuccess(d) \/ DepositFailure(d)
         PROVE  TypeOK'
    <2>1. CASE DepositSuccess(d)
      BY <1>1, <2>1 DEF DepositSuccess, FinishDeposit, showToast
    <2>2. CASE DepositFailure(d)
      BY <1>1, <2>2 DEF DepositFailure, FinishDeposit, showToast
    <2> QED BY <1>10, <2>1, <2>2
  <1>11. CASE Relaunch BY <1>1, <1>11 DEF Relaunch, InFlight,
          EmptyFields, Unlocked, NoToasts
  <1>12. CASE UNCHANGED vars BY <1>1, <1>12 DEF vars
  <1> QED BY <1>2, <1>3, <1>4, <1>5, <1>6, <1>7, <1>8, <1>9, <1>10, <1>11,
             <1>12 DEF Next, TaskStep

(* A step that starts no deposit and touches neither locks, pages nor       *)
(* amounts keeps the rest of the invariant.                                 *)
LEMMA QuietStep ==
    ASSUME DepositInv,
           UNCHANGED <<depositAmount, isProcessingDeposit, page, tapped, amount>>,
           \A d \in Deposits :
              \/ pc'[d] = pc[d]
              \/ InFlight(d) /\ pc'[d] \notin {"idle", "amount"}
    PROVE  /\ OneDepositPerPage' /\ SubmittedIsTapped'
           /\ \A d \in Deposits : TapInv(d)'
  BY DEF DepositInv, OneDepositPerPage, SubmittedIsTapped, TapInv, InFlight,
         Working

(* Every step keeps the locks and what is known of the taps.                *)
LEMMA LockStep ==
    ASSUME DepositInv, [Next]_vars
    PROVE  /\ OneDepositPerPage' /\ SubmittedIsTapped'
           /\ \A d \in Deposits : TapInv(d)'
  <1> DEFINE Goal == /\ OneDepositPerPage' /\ SubmittedIsTapped'
                     /\ \A d \in Deposits : TapInv(d)'
  <1> USE DEF Goto, defaults, navigation, state, task
  <1>0. TypeOK BY DEF DepositInv
  <1>1. ASSUME NEW v \in Visits, Enter(v) PROVE Goal
    BY <1>1, QuietStep DEF Enter
  <1>2. CASE Leave \/ SignInStores \/ PassMinted
    BY <1>2, QuietStep DEF Leave, SignInStores, PassMinted
  <1>3. ASSUME NEW t \in Texts, EditAmount(t) PROVE Goal
    <2>1. /\ ~isProcessingDeposit[visible]
          /\ depositAmount' = [depositAmount EXCEPT ![visible] = t]
          /\ UNCHANGED <<isProcessingDeposit, pc, page, tapped, amount>>
      BY <1>3 DEF EditAmount
    <2>2. OneDepositPerPage' /\ SubmittedIsTapped'
      BY <2>1 DEF DepositInv, OneDepositPerPage, SubmittedIsTapped, InFlight
    <2>3. ASSUME NEW d \in Deposits PROVE TapInv(d)'
      <3>1. InFlight(d) => page[d] # visible
        BY <2>1 DEF DepositInv, OneDepositPerPage
      <3>2. pc[d] = "amount" => InFlight(d) BY DEF InFlight, Working
      <3>3. InFlight(d) => depositAmount'[page[d]] = depositAmount[page[d]]
        <4>1. InFlight(d) => page[d] \in Visits BY DEF DepositInv, TapInv
        <4> QED BY <1>0, <2>1, <3>1, <4>1 DEF TypeOK
      <3> QED BY <2>1, <3>2, <3>3 DEF DepositInv, TapInv, InFlight
    <2> QED BY <2>2, <2>3
  <1>4. ASSUME NEW d \in Deposits, depositFunds(d) PROVE Goal
    <2>1. /\ visible \in Visits /\ ~isProcessingDeposit[visible]
          /\ pc[d] = "idle" /\ pc' = [pc EXCEPT ![d] = "amount"]
          /\ page' = [page EXCEPT ![d] = visible]
          /\ tapped' = [tapped EXCEPT ![d] = depositAmount[visible]]
          /\ isProcessingDeposit' = [isProcessingDeposit EXCEPT ![visible] = TRUE]
          /\ UNCHANGED <<depositAmount, amount>>
      BY <1>0, <1>4 DEF depositFunds, TypeOK
    <2>2. \A e \in Deposits \ {d} : InFlight(e) => page[e] # visible
      BY <2>1 DEF DepositInv, OneDepositPerPage
    <2>3. OneDepositPerPage'
      BY <1>0, <2>1, <2>2 DEF DepositInv, OneDepositPerPage, TapInv, TypeOK,
         InFlight, Working
    <2>4. SubmittedIsTapped'
      <3>1. amount'[d] = Nil BY <2>1 DEF DepositInv, TapInv
      <3>2. \A e \in Deposits \ {d} : tapped'[e] = tapped[e]
        BY <1>0, <2>1 DEF TypeOK
      <3> QED BY <2>1, <3>1, <3>2 DEF DepositInv, SubmittedIsTapped
    <2>5. \A e \in Deposits : TapInv(e)'
      BY <1>0, <2>1 DEF DepositInv, TapInv, TypeOK, InFlight, Working
    <2> QED BY <2>3, <2>4, <2>5
  <1>5. ASSUME NEW d \in Deposits, ReadAmount(d) PROVE Goal
    <2>1. /\ pc[d] = "amount" /\ pc' = [pc EXCEPT ![d] = "walletID"]
          /\ amount' = [amount EXCEPT ![d] = depositAmount[page[d]]]
          /\ UNCHANGED <<depositAmount, isProcessingDeposit, page, tapped>>
      BY <1>5 DEF ReadAmount
    <2>2. OneDepositPerPage'
      <3>1. \A e \in Deposits : InFlight(e)' => InFlight(e)
        BY <1>0, <2>1 DEF InFlight, Working, TypeOK
      <3> QED BY <2>1, <3>1 DEF DepositInv, OneDepositPerPage
    <2>3. SubmittedIsTapped'
      BY <1>0, <2>1 DEF DepositInv, SubmittedIsTapped, TapInv, TypeOK
    <2>4. \A e \in Deposits : TapInv(e)'
      BY <1>0, <2>1 DEF DepositInv, TapInv, TypeOK, InFlight, Working
    <2> QED BY <2>2, <2>3, <2>4
  <1>6. ASSUME NEW d \in Deposits, AmountNil(d) \/ WalletIDNil(d) PROVE Goal
    BY <1>0, <1>6, QuietStep DEF AmountNil, WalletIDNil, TypeOK
  <1>7. ASSUME NEW d \in Deposits,
               SendRequest(d) \/ executeChallenge(d) \/ DepositReturns(d)
        PROVE  Goal
    <2>1. \E from \in Working, to \in (Working \ {"amount"}) \union {"returned"} :
             pc[d] = from /\ pc' = [pc EXCEPT ![d] = to]
      BY <1>7 DEF SendRequest, executeChallenge, DepositReturns, Working
    <2>2. \A e \in Deposits :
             \/ pc'[e] = pc[e]
             \/ InFlight(e) /\ pc'[e] \notin {"idle", "amount"}
      BY <1>0, <2>1 DEF InFlight, Working, TypeOK
    <2>3. UNCHANGED <<depositAmount, isProcessingDeposit, page, tapped, amount>>
      BY <1>7 DEF SendRequest, executeChallenge, DepositReturns
    <2> QED BY <2>2, <2>3, QuietStep
  <1>8. ASSUME NEW d \in Deposits, DepositSuccess(d) \/ DepositFailure(d)
        PROVE  Goal
    <2>1. /\ InFlight(d)
          /\ \E to \in {"succeeded", "failed"} : pc' = [pc EXCEPT ![d] = to]
          /\ isProcessingDeposit' = [isProcessingDeposit EXCEPT ![page[d]] = FALSE]
          /\ UNCHANGED <<depositAmount, page, tapped, amount>>
      BY <1>8 DEF DepositSuccess, DepositFailure, FinishDeposit, InFlight,
                  Working
    <2>2. \A e \in Deposits \ {d} : InFlight(e) => page[e] # page[d]
      BY <2>1 DEF DepositInv, OneDepositPerPage
    <2>3. \A e \in Deposits : InFlight(e)' => e # d /\ InFlight(e)
      BY <1>0, <2>1 DEF InFlight, Working, TypeOK
    <2>4. OneDepositPerPage'
      BY <1>0, <2>1, <2>2, <2>3 DEF DepositInv, OneDepositPerPage, TypeOK,
         TapInv
    <2>5. SubmittedIsTapped'
      BY <2>1 DEF DepositInv, SubmittedIsTapped
    <2>6. \A e \in Deposits : TapInv(e)'
      BY <1>0, <2>1, <2>3 DEF DepositInv, TapInv, TypeOK
    <2> QED BY <2>4, <2>5, <2>6
  <1>9. CASE Relaunch
    <2>1. \A e \in Deposits :
             ~InFlight(e)' /\ (pc'[e] = "idle" => pc[e] = "idle")
      BY <1>9 DEF Relaunch, InFlight, Working
    <2>2. \A e \in Deposits : pc'[e] # "amount"
      BY <2>1 DEF InFlight, Working
    <2> QED BY <1>9, <2>1, <2>2 DEF Relaunch, DepositInv, OneDepositPerPage,
            SubmittedIsTapped, TapInv
  <1>10. CASE UNCHANGED vars BY <1>10, QuietStep DEF vars
  <1> QED BY <1>1, <1>2, <1>3, <1>4, <1>5, <1>6, <1>7, <1>8, <1>9, <1>10
          DEF Next, TaskStep

(* The inductive invariant of the deposit page.                             *)
THEOREM DepositInvariant == Spec => []DepositInv
  <1>1. Init => DepositInv
    <2>1. Init => TypeOK
      <3> SUFFICES ASSUME Init PROVE TypeOK OBVIOUS
      <3>1. /\ depositAmount \in [Visits -> Texts]
            /\ isProcessingDeposit \in [Visits -> BOOLEAN]
            /\ toastMessage \in [Visits -> {"none", "Deposit successful!"}]
        BY DEF Init, EmptyFields, Unlocked, NoToasts
      <3>2. /\ pc \in [Deposits -> Ended \union Working]
            /\ page \in [Deposits -> Visits \union {Nil}]
            /\ tapped \in [Deposits -> Texts \union {Nil}]
            /\ amount \in [Deposits -> Whole \union {Nil}]
        BY DEF Init, Ended
      <3> QED BY <3>1, <3>2 DEF Init, TypeOK
    <2>2. Init => \A d \in Deposits : ~InFlight(d) /\ TapInv(d)
      BY DEF Init, TapInv, InFlight, Working
    <2>3. Init => SubmittedIsTapped BY DEF Init, SubmittedIsTapped
    <2> QED BY <2>1, <2>2, <2>3 DEF DepositInv, OneDepositPerPage
  <1>2. DepositInv /\ [Next]_vars => DepositInv'
    BY TypeStep, LockStep DEF DepositInv
  <1> QED BY <1>1, <1>2, PTL DEF Spec

(* The amount sent to the pool is the amount on the screen at the tap, for  *)
(* any number of pages and taps.                                            *)
THEOREM AmountIsKept == Spec => []SubmittedIsTapped
  <1>1. DepositInv => SubmittedIsTapped BY DEF DepositInv
  <1> QED BY <1>1, DepositInvariant, PTL

(* A page has at most one deposit in flight and is locked while it has one. *)
THEOREM PageIsLocked == Spec => []OneDepositPerPage
  <1>1. DepositInv => OneDepositPerPage BY DEF DepositInv
  <1> QED BY <1>1, DepositInvariant, PTL

(* The types are kept.                                                      *)
THEOREM DepositTypes == Spec => []TypeOK
  <1>1. DepositInv => TypeOK BY DEF DepositInv
  <1> QED BY <1>1, DepositInvariant, PTL

(* What a deposit may be doing, or have come to, that keeps a page locked.  *)
Held == Working \union {"returned"}

(* A step that touches neither locks nor pages, and takes no deposit out of *)
(* Held, keeps the owners of the locks.                                     *)
LEMMA HeldStep ==
    ASSUME LockHasOwner, UNCHANGED <<isProcessingDeposit, page>>,
           \A d \in Deposits : pc[d] \in Held => pc'[d] \in Held
    PROVE  LockHasOwner'
  BY DEF LockHasOwner, Held

(* Every step keeps an owner for every lock.                                *)
LEMMA OwnerStep ==
    ASSUME DepositInv, LockHasOwner, [Next]_vars
    PROVE  LockHasOwner'
  <1> USE DEF Goto, defaults, navigation, state, task
  <1>0. TypeOK BY DEF DepositInv
  <1>1. ASSUME NEW v \in Visits, Enter(v) PROVE LockHasOwner'
    BY <1>1, HeldStep DEF Enter
  <1>2. CASE Leave \/ SignInStores \/ PassMinted
    BY <1>2, HeldStep DEF Leave, SignInStores, PassMinted
  <1>3. ASSUME NEW t \in Texts, EditAmount(t) PROVE LockHasOwner'
    BY <1>3, HeldStep DEF EditAmount
  <1>4. ASSUME NEW d \in Deposits, depositFunds(d) PROVE LockHasOwner'
    <2>1. /\ visible \in Visits
          /\ pc[d] = "idle" /\ pc' = [pc EXCEPT ![d] = "amount"]
          /\ page' = [page EXCEPT ![d] = visible]
          /\ isProcessingDeposit' = [isProcessingDeposit EXCEPT ![visible] = TRUE]
      BY <1>0, <1>4 DEF depositFunds, TypeOK
    <2>2. page'[d] = visible /\ pc'[d] \in Held
      BY <1>0, <2>1 DEF TypeOK, Held, Working
    <2>3. ASSUME NEW v \in Visits, v # visible, isProcessingDeposit'[v]
          PROVE  \E e \in Deposits : page'[e] = v /\ pc'[e] \in Held
      <3>1. isProcessingDeposit[v] BY <1>0, <2>1, <2>3 DEF TypeOK
      <3>2. PICK e \in Deposits : page[e] = v /\ pc[e] \in Held
        BY <3>1 DEF LockHasOwner, Held
      <3>3. e # d BY <2>1, <3>2 DEF Held, Working
      <3> QED BY <1>0, <2>1, <3>2, <3>3 DEF TypeOK
    <2> QED BY <2>1, <2>2, <2>3 DEF LockHasOwner, Held
  <1>5. ASSUME NEW d \in Deposits,
               \/ ReadAmount(d) \/ AmountNil(d) \/ SendRequest(d)
               \/ WalletIDNil(d) \/ executeChallenge(d) \/ DepositReturns(d)
        PROVE  LockHasOwner'
    <2>1. /\ \E to \in Held : pc' = [pc EXCEPT ![d] = to]
          /\ UNCHANGED <<isProcessingDeposit, page>>
      BY <1>5 DEF ReadAmount, AmountNil, SendRequest, WalletIDNil,
         executeChallenge, DepositReturns, Held, Working
    <2>2. \A e \in Deposits : pc[e] \in Held => pc'[e] \in Held
      BY <1>0, <2>1 DEF TypeOK
    <2> QED BY <2>1, <2>2, HeldStep
  <1>6. ASSUME NEW d \in Deposits, DepositSuccess(d) \/ DepositFailure(d)
        PROVE  LockHasOwner'
    <2>1. /\ InFlight(d)
          /\ \E to \in {"succeeded", "failed"} : pc' = [pc EXCEPT ![d] = to]
          /\ isProcessingDeposit' = [isProcessingDeposit EXCEPT ![page[d]] = FALSE]
          /\ UNCHANGED page
      BY <1>6 DEF DepositSuccess, DepositFailure, FinishDeposit, InFlight,
                  Working
    <2>2. page[d] \in Visits BY <2>1 DEF DepositInv, TapInv
    <2>3. ASSUME NEW v \in Visits, isProcessingDeposit'[v]
          PROVE  \E e \in Deposits : page'[e] = v /\ pc'[e] \in Held
      <3>1. v # page[d] /\ isProcessingDeposit[v]
        BY <1>0, <2>1, <2>2, <2>3 DEF TypeOK
      <3>2. PICK e \in Deposits : page[e] = v /\ pc[e] \in Held
        BY <3>1 DEF LockHasOwner, Held
      <3> QED BY <1>0, <2>1, <3>1, <3>2 DEF TypeOK
    <2> QED BY <2>3 DEF LockHasOwner, Held
  <1>7. CASE Relaunch
    BY <1>7 DEF Relaunch, Unlocked, LockHasOwner
  <1>8. CASE UNCHANGED vars BY <1>8, HeldStep DEF vars
  <1> QED BY <1>1, <1>2, <1>3, <1>4, <1>5, <1>6, <1>7, <1>8
          DEF Next, TaskStep

(* A locked page has a deposit of its own that is in flight or returned     *)
(* without a challenge, for any number of pages and taps.                   *)
THEOREM LocksHaveOwners == Spec => []LockHasOwner
  <1>1. Init => LockHasOwner BY DEF Init, Unlocked, LockHasOwner
  <1>2. DepositInv /\ LockHasOwner /\ [Next]_vars => LockHasOwner'
    BY OwnerStep
  <1> QED BY <1>1, <1>2, DepositInvariant, PTL DEF Spec
=============================================================================
