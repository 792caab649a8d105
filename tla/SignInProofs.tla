---------------------------- MODULE SignInProofs ----------------------------
(***************************************************************************)
(* Proofs about SignIn for any number of attempts.                         *)
(*                                                                         *)
(* CredentialInv is the inductive invariant behind the properties that     *)
(* hold of every device: it says what an attempt has already persisted at  *)
(* each point of its way.  UserInv says whose identity an attempt can      *)
(* carry, IdentityInv that a device that was not forked has only one, and  *)
(* SoloInv that what the attempt in flight persisted is still its own, as  *)
(* long as it met no other.                                                *)
(***************************************************************************)
EXTENDS SignIn, TLAPS

(* Points of an attempt after which it has a user, a token, a key, ...     *)
HasUser   == (Networking \ {"uuid", "newUuid"}) \union Challenge \union Wallet
HasToken  == {"storeKey", "unwrap"} \union Challenge \union Wallet
HasKey    == {"unwrap"} \union Challenge \union Wallet
HasWallet == Wallet \ {"query"}
HasShown  == HasWallet \ {"show"}
HasStored == HasShown \ {"storeAddress"}

(* What attempt a has behind it at its point. *)
Credentials(a) ==
    /\ pc[a] \in HasUser => userId[a] # Nil /\ uuid # Nil
    /\ pc[a] \in HasToken => user_token # Nil
    /\ pc[a] \in HasKey => encryption_key # Nil
    /\ pc[a] \in HasWallet => userId[a] \in wallets
    /\ pc[a] \in HasShown => walletAddress # Nil

CredentialInv ==
    /\ TypeOK
    /\ SignedInHasCredentials
    /\ address # Nil => walletAddress # Nil
    /\ \A a \in Attempts : Credentials(a)

(* A step that belongs to attempt a: its task, its tap and its challenge. *)
AttemptStep(a) ==
    \/ TaskStep(a) \/ initiateSignIn(a)
    \/ CircleAccepts(a) \/ ChallengeSuccess(a) \/ ChallengeFailure(a)

USE NilAssumption

(* What an optional can hold.                                               *)
LEMMA OptionalType ==
    /\ Nil \in Optional(Attempts)
    /\ \A x \in Attempts : x \in Optional(Attempts)
    /\ \A x \in Optional(Attempts) : x # Nil => x \in Attempts
  BY DEF Optional

(* The types: registerUser needs its user to be there, which is why TypeOK  *)
(* is not inductive alone.                                                  *)
LEMMA TypeStep ==
    ASSUME TypeOK, NEW a \in Attempts, Credentials(a), AttemptStep(a)
    PROVE  TypeOK'
  <1> USE OptionalType DEF TypeOK, Goto, Ended, Networking, Challenge, Wallet,
          defaults, view, task, circle, history
  <1>1. CASE ReadUuid(a) BY <1>1 DEF ReadUuid
  <1>2. CASE NewUuid(a) BY <1>2 DEF NewUuid
  <1>3. CASE registerUser(a) BY <1>3 DEF registerUser, Credentials, HasUser
  <1>4. CASE getSessionToken(a) BY <1>4 DEF getSessionToken
  <1>5. CASE SessionTokenNil(a) BY <1>5 DEF SessionTokenNil
  <1>6. CASE initializeAccount(a) BY <1>6 DEF initializeAccount
  <1>7. CASE StoreToken(a) BY <1>7 DEF StoreToken
  <1>8. CASE StoreKey(a) BY <1>8 DEF StoreKey
  <1>9. CASE UnwrapAccount(a) BY <1>9 DEF UnwrapAccount
  <1>10. CASE AccountNil(a) BY <1>10 DEF AccountNil
  <1>11. CASE executeChallenge(a) BY <1>11 DEF executeChallenge
  <1>12. CASE FindWallet(a) BY <1>12 DEF FindWallet
  <1>13. CASE ShowAddress(a) BY <1>13 DEF ShowAddress
  <1>14. CASE StoreAddress(a) BY <1>14 DEF StoreAddress
  <1>15. CASE StoreWalletID(a) BY <1>15 DEF StoreWalletID
  <1>16. CASE StoreUserToken(a) BY <1>16 DEF StoreUserToken
  <1>17. CASE RefreshBegin(a) BY <1>17 DEF RefreshBegin, BalanceQuery
  <1>18. CASE RefreshEnd(a) BY <1>18 DEF RefreshEnd, BalanceAnswers
  <1>19. CASE initiateSignIn(a) BY <1>19 DEF initiateSignIn, Meeting, InFlight
  <1>20. CASE CircleAccepts(a) BY <1>20 DEF CircleAccepts, Credentials, HasUser
  <1>21. CASE ChallengeSuccess(a) BY <1>21 DEF ChallengeSuccess, showToast
  <1>22. CASE ChallengeFailure(a) BY <1>22 DEF ChallengeFailure, showToast
  <1> QED BY <1>1, <1>2, <1>3, <1>4, <1>5, <1>6, <1>7, <1>8, <1>9, <1>10,
             <1>11, <1>12, <1>13, <1>14, <1>15, <1>16, <1>17, <1>18, <1>19,
             <1>20, <1>21, <1>22
          DEF AttemptStep, TaskStep

(* What a task has persisted stays persisted.                               *)
Kept ==
    /\ uuid # Nil => uuid' # Nil
    /\ user_token # Nil => user_token' # Nil
    /\ encryption_key # Nil => encryption_key' # Nil
    /\ walletAddress # Nil => walletAddress' # Nil
    /\ wallets \subseteq wallets'

(* A step of attempt a keeps what is persisted and moves no other attempt.  *)
LEMMA KeptStep ==
    ASSUME TypeOK, NEW a \in Attempts, Credentials(a), AttemptStep(a)
    PROVE  /\ Kept
           /\ \A b \in Attempts \ {a} : pc'[b] = pc[b] /\ userId'[b] = userId[b]
  <1> USE DEF Kept, TypeOK, Goto, defaults, view, task, circle, history
  <1>1. CASE ReadUuid(a) BY <1>1 DEF ReadUuid
  <1>2. CASE NewUuid(a) BY <1>2 DEF NewUuid
  <1>3. CASE registerUser(a) BY <1>3 DEF registerUser
  <1>4. CASE getSessionToken(a) BY <1>4 DEF getSessionToken
  <1>5. CASE SessionTokenNil(a) BY <1>5 DEF SessionTokenNil
  <1>6. CASE initializeAccount(a) BY <1>6 DEF initializeAccount
  <1>7. CASE StoreToken(a) BY <1>7 DEF StoreToken
  <1>8. CASE StoreKey(a) BY <1>8 DEF StoreKey
  <1>9. CASE UnwrapAccount(a) BY <1>9 DEF UnwrapAccount
  <1>10. CASE AccountNil(a) BY <1>10 DEF AccountNil
  <1>11. CASE executeChallenge(a) BY <1>11 DEF executeChallenge
  <1>12. CASE FindWallet(a) BY <1>12 DEF FindWallet
  <1>13. CASE ShowAddress(a) BY <1>13 DEF ShowAddress, Credentials, HasUser, Wallet
  <1>14. CASE StoreAddress(a) BY <1>14 DEF StoreAddress
  <1>15. CASE StoreWalletID(a) BY <1>15 DEF StoreWalletID
  <1>16. CASE StoreUserToken(a) BY <1>16 DEF StoreUserToken
  <1>17. CASE RefreshBegin(a) BY <1>17 DEF RefreshBegin
  <1>18. CASE RefreshEnd(a) BY <1>18 DEF RefreshEnd
  <1>19. CASE initiateSignIn(a) BY <1>19 DEF initiateSignIn
  <1>20. CASE CircleAccepts(a) BY <1>20 DEF CircleAccepts
  <1>21. CASE ChallengeSuccess(a) BY <1>21 DEF ChallengeSuccess
  <1>22. CASE ChallengeFailure(a) BY <1>22 DEF ChallengeFailure
  <1> QED BY <1>1, <1>2, <1>3, <1>4, <1>5, <1>6, <1>7, <1>8, <1>9, <1>10,
             <1>11, <1>12, <1>13, <1>14, <1>15, <1>16, <1>17, <1>18, <1>19,
             <1>20, <1>21, <1>22
          DEF AttemptStep, TaskStep

(* Every step of an attempt's task keeps its own facts.                     *)
LEMMA OwnStep ==
    ASSUME TypeOK, NEW a \in Attempts, Credentials(a), AttemptStep(a)
    PROVE  Credentials(a)'
  <1> USE DEF Credentials, TypeOK, Goto, Ended, Networking, Challenge, Wallet,
          HasUser, HasToken, HasKey, HasWallet, HasShown, HasStored,
          defaults, view, task, circle, history
  <1>1. CASE ReadUuid(a) BY <1>1 DEF ReadUuid
  <1>2. CASE NewUuid(a) BY <1>2 DEF NewUuid
  <1>3. CASE registerUser(a) BY <1>3 DEF registerUser
  <1>4. CASE getSessionToken(a) BY <1>4 DEF getSessionToken
  <1>5. CASE SessionTokenNil(a) BY <1>5 DEF SessionTokenNil
  <1>6. CASE initializeAccount(a) BY <1>6 DEF initializeAccount
  <1>7. CASE StoreToken(a) BY <1>7 DEF StoreToken
  <1>8. CASE StoreKey(a) BY <1>8 DEF StoreKey
  <1>9. CASE UnwrapAccount(a) BY <1>9 DEF UnwrapAccount
  <1>10. CASE AccountNil(a) BY <1>10 DEF AccountNil
  <1>11. CASE executeChallenge(a) BY <1>11 DEF executeChallenge
  <1>12. CASE FindWallet(a) BY <1>12 DEF FindWallet, getWalletStatus
  <1>13. CASE ShowAddress(a) BY <1>13 DEF ShowAddress
  <1>14. CASE StoreAddress(a) BY <1>14 DEF StoreAddress
  <1>15. CASE StoreWalletID(a) BY <1>15 DEF StoreWalletID
  <1>16. CASE StoreUserToken(a) BY <1>16 DEF StoreUserToken
  <1>17. CASE RefreshBegin(a) BY <1>17 DEF RefreshBegin
  <1>18. CASE RefreshEnd(a) BY <1>18 DEF RefreshEnd
  <1>19. CASE initiateSignIn(a) BY <1>19 DEF initiateSignIn
  <1>20. CASE CircleAccepts(a) BY <1>20 DEF CircleAccepts
  <1>21. CASE ChallengeSuccess(a) BY <1>21 DEF ChallengeSuccess
  <1>22. CASE ChallengeFailure(a) BY <1>22 DEF ChallengeFailure
  <1> QED BY <1>1, <1>2, <1>3, <1>4, <1>5, <1>6, <1>7, <1>8, <1>9, <1>10,
             <1>11, <1>12, <1>13, <1>14, <1>15, <1>16, <1>17, <1>18, <1>19,
             <1>20, <1>21, <1>22
          DEF AttemptStep, TaskStep

(* Only StoreAddress changes the persisted address. *)
LEMMA AddressStep ==
    ASSUME TypeOK, NEW a \in Attempts, Credentials(a), AttemptStep(a)
    PROVE  \/ address' = address
           \/ /\ pc[a] = "storeAddress"
              /\ address' = userId[a]
  BY DEF AttemptStep, TaskStep, initiateSignIn, CircleAccepts,
         ChallengeSuccess, ChallengeFailure, ReadUuid, NewUuid, registerUser, getSessionToken,
         SessionTokenNil, initializeAccount, StoreToken, StoreKey,
         UnwrapAccount, AccountNil, executeChallenge, FindWallet, ShowAddress,
         StoreAddress, StoreWalletID, StoreUserToken, RefreshBegin,
         RefreshEnd, Goto, defaults

(* So every step of an attempt keeps the whole invariant.                       *)
LEMMA CredentialAttemptStep ==
    ASSUME CredentialInv, NEW a \in Attempts, AttemptStep(a)
    PROVE  CredentialInv' /\ (address # Nil => address' # Nil)
  <1>1. TypeOK /\ Credentials(a) BY DEF CredentialInv
  <1>2. TypeOK' BY <1>1, TypeStep
  <1>3. Kept /\ \A b \in Attempts \ {a} :
                   pc'[b] = pc[b] /\ userId'[b] = userId[b]
    BY <1>1, KeptStep
  <1>4. ASSUME NEW b \in Attempts PROVE Credentials(b)'
    <2>1. CASE b = a BY <1>1, <2>1, OwnStep
    <2>2. CASE b # a BY <1>3, <2>2 DEF Kept, CredentialInv, Credentials
    <2> QED BY <2>1, <2>2
  <1>5. /\ SignedInHasCredentials'
        /\ (address # Nil => walletAddress # Nil)'
        /\ address # Nil => address' # Nil
    <2>1. CASE address' = address
      BY <2>1, <1>3 DEF Kept, CredentialInv, SignedInHasCredentials
    <2>2. CASE pc[a] = "storeAddress" /\ address' = userId[a]
      BY <2>2, <1>1, <1>3 DEF Kept, Credentials, HasUser, HasToken, HasKey,
         HasWallet, HasShown, Wallet, Networking, Challenge,
         SignedInHasCredentials
    <2> QED BY <1>1, <2>1, <2>2, AddressStep
  <1> QED BY <1>2, <1>4, <1>5 DEF CredentialInv

(* And so does every other step: Circle, the list and the launches.         *)
LEMMA CredentialStep ==
    ASSUME CredentialInv, [Next]_vars
    PROVE  CredentialInv' /\ (address # Nil => address' # Nil)
  <1>1. ASSUME NEW a \in Attempts, AttemptStep(a)
        PROVE  CredentialInv' /\ (address # Nil => address' # Nil)
    BY <1>1, CredentialAttemptStep
  <1>2. ASSUME NEW a \in Attempts, CreateWallet(a)
        PROVE  CredentialInv' /\ (address # Nil => address' # Nil)
    <2>1. TypeOK'
      BY <1>2 DEF CreateWallet, CredentialInv, TypeOK, defaults, view, task, history
    <2>2. \A b \in Attempts : Credentials(b)'
      BY <1>2 DEF CreateWallet, CredentialInv, Credentials, defaults, view,
                  task
    <2> QED BY <1>2, <2>1, <2>2 DEF CreateWallet, CredentialInv,
               SignedInHasCredentials, defaults, view
  <1>3. CASE PullBegin \/ PullEnd \/ OnAppear
    <2>1. TypeOK'
      BY <1>3, OptionalType DEF PullBegin, PullEnd, OnAppear, BalanceQuery,
         BalanceAnswers, CredentialInv, TypeOK, defaults, view, task, circle, history
    <2>2. \A b \in Attempts : Credentials(b)'
      BY <1>3 DEF PullBegin, PullEnd, OnAppear, CredentialInv, Credentials,
                  defaults, view, task, circle, history
    <2> QED BY <1>3, <2>1, <2>2 DEF PullBegin, PullEnd, OnAppear,
               CredentialInv, SignedInHasCredentials, defaults, view, circle
  <1>4. CASE Relaunch
    <2>1. TypeOK'
      BY <1>4, OptionalType DEF Relaunch, InFlight, CredentialInv, TypeOK, Ended,
                  defaults, view, task, circle, history
    <2>2. \A b \in Attempts : pc'[b] \in Ended
      BY <1>4 DEF Relaunch, InFlight, Ended
    <2>3. \A b \in Attempts : Credentials(b)'
      BY <2>2 DEF Credentials, Ended, Networking, Challenge, Wallet, HasUser,
                  HasToken, HasKey, HasWallet, HasShown
    <2> QED BY <1>4, <2>1, <2>3 DEF Relaunch, CredentialInv,
               SignedInHasCredentials, defaults, circle
  <1>5. CASE UNCHANGED vars
    BY <1>5 DEF vars, CredentialInv, Credentials, SignedInHasCredentials,
                TypeOK, defaults, view, task, circle, history
  <1> QED BY <1>1, <1>2, <1>3, <1>4, <1>5 DEF Next, AttemptStep

(* The invariant behind the properties that hold whatever the user does.    *)
THEOREM CredentialInvariant == Spec => []CredentialInv
  <1>1. Init => CredentialInv
    BY DEF Init, CredentialInv, SignedInHasCredentials, TypeOK, Optional,
           Ended, Networking, Challenge, Wallet, HasUser, HasToken, HasKey,
           HasWallet, HasShown, HasStored, Credentials
  <1>2. CredentialInv /\ [Next]_vars => CredentialInv'
    BY CredentialStep
  <1> QED BY <1>1, <1>2, PTL DEF Spec

(* The state of every attempt, of the view and of UserDefaults keeps its    *)
(* type, for any set of attempts.                                           *)
THEOREM TypeCorrect == Spec => []TypeOK
  <1>1. CredentialInv => TypeOK BY DEF CredentialInv
  <1> QED BY <1>1, CredentialInvariant, PTL

(* A persisted address comes with an identity and both halves of a session, *)
(* for any number of overlapping attempts and deaths of the process.        *)
THEOREM CredentialsComplete == Spec => []SignedInHasCredentials
  <1>1. CredentialInv => SignedInHasCredentials BY DEF CredentialInv
  <1> QED BY <1>1, CredentialInvariant, PTL

(* No step of any actor, a relaunch included, signs the device out.         *)
THEOREM NeverSignedOut == Spec => SignInSticks
  <1>1. CredentialInv /\ [Next]_vars
          => [address # Nil => address' # Nil /\ walletAddress' # Nil]_vars
    BY CredentialStep DEF CredentialInv
  <1> QED BY <1>1, CredentialInvariant, PTL DEF SignInSticks, Spec

-----------------------------------------------------------------------------
(* What of the session, the wallet and the address a step of attempt a      *)
(* writes: at most one of them, and in the order of the code.               *)
LEMMA DefaultsMove ==
    ASSUME CredentialInv, NEW a \in Attempts, AttemptStep(a)
    PROVE  \/ UNCHANGED <<address, wallet_id, user_token, encryption_key, walletAddress>>
           \/ /\ user_token' = a
              /\ UNCHANGED <<address, wallet_id, encryption_key, walletAddress>>
           \/ /\ encryption_key' = a /\ user_token # Nil
              /\ UNCHANGED <<address, wallet_id, user_token, walletAddress>>
           \/ /\ walletAddress' = userId[a] /\ userId[a] # Nil
              /\ UNCHANGED <<address, wallet_id, user_token, encryption_key>>
           \/ /\ address' = userId[a] /\ userId[a] # Nil /\ walletAddress # Nil
              /\ UNCHANGED <<wallet_id, user_token, encryption_key, walletAddress>>
           \/ /\ wallet_id' = userId[a] /\ userId[a] # Nil
              /\ pc[a] = "storeWalletID"
              /\ user_token # Nil /\ encryption_key # Nil
              /\ UNCHANGED <<address, user_token, encryption_key, walletAddress>>
  <1>0. TypeOK /\ Credentials(a) BY DEF CredentialInv
  <1> USE DEF Goto, defaults, view, task, circle, history
  <1>1. CASE StoreToken(a) \/ StoreUserToken(a)
    BY <1>1 DEF StoreToken, StoreUserToken
  <1>2. CASE StoreKey(a)
    BY <1>0, <1>2 DEF StoreKey, Credentials, HasToken
  <1>3. CASE ShowAddress(a)
    BY <1>0, <1>3 DEF ShowAddress, Credentials, HasUser, Wallet
  <1>4. CASE StoreAddress(a)
    BY <1>0, <1>4 DEF StoreAddress, Credentials, HasUser, HasShown, HasWallet,
       Wallet
  <1>5. CASE StoreWalletID(a)
    BY <1>0, <1>5 DEF StoreWalletID, Credentials, HasUser, HasToken, HasKey,
       Wallet
  <1> QED BY <1>1, <1>2, <1>3, <1>4, <1>5 DEF AttemptStep, TaskStep,
          initiateSignIn, CircleAccepts, ChallengeSuccess, ChallengeFailure,
          ReadUuid, NewUuid, registerUser, getSessionToken, SessionTokenNil,
          initializeAccount, UnwrapAccount, AccountNil, executeChallenge,
          FindWallet, RefreshBegin, RefreshEnd

(* The address is persisted before the wallet id. *)
WalletInv ==
    /\ wallet_id # Nil => address # Nil
    /\ \A a \in Attempts : pc[a] \in HasStored => address # Nil

(* Every step keeps that order, and no step takes the wallet id away.       *)
LEMMA WalletStep ==
    ASSUME CredentialInv, WalletInv, [Next]_vars
    PROVE  WalletInv' /\ (wallet_id # Nil => wallet_id' # Nil)
  <1>0. TypeOK /\ (address # Nil => address' # Nil)
    BY CredentialStep DEF CredentialInv
  <1>1. ASSUME NEW a \in Attempts, AttemptStep(a)
        PROVE  WalletInv' /\ (wallet_id # Nil => wallet_id' # Nil)
    <2>1. \/ wallet_id' = wallet_id
          \/ /\ wallet_id' = userId[a] /\ userId[a] # Nil
             /\ pc[a] = "storeWalletID"
      BY <1>1, DefaultsMove
    <2>2. \A b \in Attempts \ {a} : pc'[b] = pc[b]
      BY <1>0, <1>1, KeptStep DEF CredentialInv
    <2> DEFINE stored == {"storeWalletID", "storeUserToken", "refresh", "balance"}
    <2>3. HasStored = stored BY DEF HasStored, HasShown, HasWallet, Wallet
    <2>4. pc'[a] \in stored => pc[a] \in stored \/ StoreAddress(a)
      BY <1>0, <1>1 DEF AttemptStep, TaskStep, initiateSignIn, CircleAccepts,
         ChallengeSuccess, ChallengeFailure, ReadUuid, NewUuid, registerUser,
         getSessionToken, SessionTokenNil, initializeAccount, StoreToken,
         StoreKey, UnwrapAccount, AccountNil, executeChallenge, FindWallet,
         ShowAddress, StoreWalletID, StoreUserToken, RefreshBegin, RefreshEnd,
         Goto, TypeOK
    <2>5. StoreAddress(a) => address' # Nil
      BY <1>0 DEF StoreAddress, Goto, CredentialInv, Credentials, HasUser, Wallet
    <2>6. pc[a] = "storeWalletID" => address # Nil
      BY DEF WalletInv, HasStored, HasShown, HasWallet, Wallet
    <2> HIDE DEF stored
    <2> QED BY <1>0, <2>1, <2>2, <2>3, <2>4, <2>5, <2>6 DEF WalletInv
  <1>2. ASSUME UNCHANGED <<pc, wallet_id>>
        PROVE  WalletInv' /\ (wallet_id # Nil => wallet_id' # Nil)
    BY <1>0, <1>2 DEF WalletInv
  <1>3. CASE PullBegin \/ PullEnd \/ OnAppear \/ UNCHANGED vars
             \/ \E a \in Attempts : CreateWallet(a)
    BY <1>2, <1>3 DEF PullBegin, PullEnd, OnAppear, CreateWallet, vars, defaults
  <1>4. CASE Relaunch
    <2>1. \A b \in Attempts : pc'[b] \notin HasStored
      BY <1>4 DEF Relaunch, InFlight, Ended, HasStored, HasShown, HasWallet, Wallet
    <2> QED BY <1>0, <1>4, <2>1 DEF Relaunch, WalletInv, defaults
  <1> QED BY <1>1, <1>3, <1>4 DEF Next, AttemptStep

(* A persisted wallet id comes with a persisted address, whatever the user  *)
(* does and wherever the process dies.                                      *)
THEOREM WalletHasAddress == Spec => []WalletInv
  <1>1. Init => WalletInv
    BY DEF Init, WalletInv, HasStored, HasShown, HasWallet, Wallet
  <1>2. CredentialInv /\ WalletInv /\ [Next]_vars => WalletInv'
    BY WalletStep
  <1> QED BY <1>1, <1>2, CredentialInvariant, PTL DEF Spec

-----------------------------------------------------------------------------
(***************************************************************************)
(* Whose identity an attempt can carry.  A UUID is named by the attempt    *)
(* that generated it, so that attempt carries it, too.                     *)
(***************************************************************************)
Fresh == {"idle", "uuid", "newUuid"}

UserInv ==
    /\ \A a \in Attempts : pc[a] \in Fresh => userId[a] = Nil
    /\ uuid # Nil => userId[uuid] = uuid
    /\ \A a \in Attempts : userId[a] # Nil => userId[userId[a]] = userId[a]
    /\ user_token # Nil => userId[user_token] # Nil
    /\ encryption_key # Nil => userId[encryption_key] # Nil

(* An attempt takes its identity in the two steps of the getter and keeps   *)
(* it; no step leads back to them.                                          *)
LEMMA IdentityMove ==
    ASSUME TypeOK, NEW a \in Attempts, AttemptStep(a)
    PROVE  \/ ReadUuid(a)
           \/ NewUuid(a)
           \/ /\ UNCHANGED <<uuid, userId, forked>>
              /\ pc'[a] # "newUuid"
              /\ pc'[a] \in Fresh => pc[a] \in Fresh
  BY DEF AttemptStep, TaskStep, initiateSignIn, CircleAccepts,
     ChallengeSuccess, ChallengeFailure, registerUser, getSessionToken,
     SessionTokenNil, initializeAccount, StoreToken, StoreKey, UnwrapAccount,
     AccountNil, executeChallenge, FindWallet, ShowAddress, StoreAddress,
     StoreWalletID, StoreUserToken, RefreshBegin, RefreshEnd, Goto, TypeOK,
     Fresh, defaults, task, history

(* The token and the key are written by attempts that have their user.      *)
LEMMA TokenMove ==
    ASSUME CredentialInv, NEW a \in Attempts, AttemptStep(a)
    PROVE  /\ user_token' = user_token \/ (user_token' = a /\ userId[a] # Nil)
           /\ \/ encryption_key' = encryption_key
              \/ encryption_key' = a /\ userId[a] # Nil
  <1>1. pc[a] \in {"storeToken", "storeKey", "storeUserToken"} => userId[a] # Nil
    BY DEF CredentialInv, Credentials, HasUser, Networking, Wallet
  <1>2. CASE StoreToken(a) \/ StoreUserToken(a) \/ StoreKey(a)
    BY <1>1, <1>2 DEF StoreToken, StoreUserToken, StoreKey, Goto
  <1>3. CASE ~(StoreToken(a) \/ StoreUserToken(a) \/ StoreKey(a))
    BY <1>3 DEF AttemptStep, TaskStep, initiateSignIn, CircleAccepts,
       ChallengeSuccess, ChallengeFailure, ReadUuid, NewUuid, registerUser,
       getSessionToken, SessionTokenNil, initializeAccount, UnwrapAccount,
       AccountNil, executeChallenge, FindWallet, ShowAddress, StoreAddress,
       StoreWalletID, RefreshBegin, RefreshEnd, defaults
  <1> QED BY <1>2, <1>3

(* The other steps, and the launches, take no identity and move no attempt  *)
(* but to its end.                                                          *)
LEMMA OtherMove ==
    ASSUME [Next]_vars, ~\E a \in Attempts : AttemptStep(a)
    PROVE  /\ UNCHANGED <<defaults, userId, history>>
           /\ \A a \in Attempts : pc'[a] = pc[a] \/ pc'[a] = "dead"
  <1>1. CASE Relaunch BY <1>1 DEF Relaunch
  <1>2. CASE ~Relaunch
    BY <1>2 DEF Next, AttemptStep, CreateWallet, PullBegin, PullEnd, OnAppear,
                vars, task
  <1> QED BY <1>1, <1>2

(* Every step keeps UserInv, and an identity once taken is kept.            *)
LEMMA UserStep ==
    ASSUME CredentialInv, UserInv, [Next]_vars
    PROVE  /\ UserInv'
           /\ forked => forked'
           /\ \A a \in Attempts : userId[a] # Nil => userId'[a] = userId[a]
  <1>0. TypeOK BY DEF CredentialInv
  <1>1. ASSUME NEW a \in Attempts, AttemptStep(a)
        PROVE  /\ UserInv'
               /\ forked => forked'
               /\ \A b \in Attempts : userId[b] # Nil => userId'[b] = userId[b]
    <2>1. /\ user_token' = user_token \/ (user_token' = a /\ userId[a] # Nil)
          /\ \/ encryption_key' = encryption_key
             \/ encryption_key' = a /\ userId[a] # Nil
      BY <1>1, TokenMove
    <2>2. \A b \in Attempts \ {a} : pc'[b] = pc[b]
      BY <1>0, <1>1, KeptStep DEF CredentialInv
    <2>3. CASE ReadUuid(a) \/ NewUuid(a)
      <3>1. userId[a] = Nil BY <2>3 DEF ReadUuid, NewUuid, Goto, UserInv, Fresh
      <3>2. \/ uuid' = uuid /\ userId' = [userId EXCEPT ![a] = uuid]
               /\ (pc'[a] \in Fresh => uuid = Nil)
            \/ uuid' = a /\ userId' = [userId EXCEPT ![a] = a]
               /\ pc'[a] \notin Fresh
        BY <1>0, <2>3 DEF ReadUuid, NewUuid, Goto, Fresh, defaults, TypeOK
      <3>3. UNCHANGED <<user_token, encryption_key>>
        BY <2>3 DEF ReadUuid, NewUuid, defaults
      <3>4. forked => forked'
        BY <2>3, Zenon DEF ReadUuid, NewUuid, history
      <3>5. \A b \in Attempts : userId[b] # Nil => userId'[b] = userId[b]
        BY <1>0, <3>1, <3>2 DEF TypeOK
      <3>6. \A b \in Attempts \ {a} : userId'[b] = userId[b]
        BY <1>0, <3>2 DEF TypeOK
      <3>7. CASE /\ uuid' = uuid /\ userId'[a] = uuid
                 /\ pc'[a] \in Fresh => uuid = Nil
        BY <1>0, <2>2, <3>1, <3>3, <3>4, <3>5, <3>6, <3>7, OptionalType
           DEF UserInv, TypeOK
      <3>8. CASE uuid' = a /\ userId'[a] = a /\ pc'[a] \notin Fresh
        BY <1>0, <2>2, <3>1, <3>3, <3>4, <3>5, <3>6, <3>8, OptionalType
           DEF UserInv, TypeOK
      <3>9. userId \in [Attempts -> Optional(Attempts)] BY <1>0 DEF TypeOK
      <3> QED BY <3>2, <3>4, <3>5, <3>7, <3>8, <3>9
    <2>4. CASE /\ UNCHANGED <<uuid, userId, forked>>
               /\ pc'[a] # "newUuid"
               /\ pc'[a] \in Fresh => pc[a] \in Fresh
      BY <2>1, <2>2, <2>4 DEF UserInv
    <2> QED BY <1>0, <1>1, <2>3, <2>4, IdentityMove
  <1>2. ASSUME ~\E a \in Attempts : AttemptStep(a)
        PROVE  /\ UserInv'
               /\ forked => forked'
               /\ \A b \in Attempts : userId[b] # Nil => userId'[b] = userId[b]
    BY <1>2, OtherMove DEF UserInv, Fresh, defaults, history
  <1> QED BY <1>1, <1>2

(* The identity an attempt carries is one that some attempt made.           *)
THEOREM UserInvariant == Spec => []UserInv
  <1>1. Init => UserInv BY DEF Init, UserInv, Fresh
  <1>2. CredentialInv /\ UserInv /\ [Next]_vars => UserInv' BY UserStep
  <1> QED BY <1>1, <1>2, CredentialInvariant, PTL DEF Spec
-----------------------------------------------------------------------------
(***************************************************************************)
(* One identity.  As long as no two attempts were in the uuid getter at    *)
(* once, everything that is persisted, shown or asked about belongs to the *)
(* one identity of the device, however the attempts overlap.               *)
(***************************************************************************)
OfIdentity(x) == x \in {uuid, Nil}

OneIdentity ==
    /\ \A a, b \in Attempts : pc[a] = "newUuid" /\ pc[b] = "newUuid" => a = b
    /\ \A a \in Attempts : pc[a] = "newUuid" => uuid = Nil
    /\ \A a \in Attempts : OfIdentity(userId[a]) /\ OfIdentity(reading[a])
    /\ OfIdentity(address) /\ OfIdentity(wallet_id)
    /\ OfIdentity(walletAddress) /\ OfIdentity(balance) /\ OfIdentity(pulling)

(* A balance is asked about a persisted wallet only. *)
AskedOfWallet ==
    /\ balance # Nil \/ pulling # Nil => wallet_id # Nil
    /\ \A a \in Attempts : reading[a] # Nil => wallet_id # Nil

IdentityInv == AskedOfWallet /\ (~forked => OneIdentity)

(* The steps that write something that has to belong to the identity.       *)
Writes(a) ==
    \/ ReadUuid(a) \/ NewUuid(a) \/ ShowAddress(a) \/ StoreAddress(a)
    \/ StoreWalletID(a) \/ RefreshBegin(a) \/ RefreshEnd(a)

(* The other steps of an attempt write nothing of the kind.                 *)
LEMMA QuietStep ==
    ASSUME TypeOK, NEW a \in Attempts, AttemptStep(a), ~Writes(a)
    PROVE  /\ UNCHANGED <<uuid, userId, forked, address, wallet_id,
                          walletAddress, balance, reading, pulling>>
           /\ \A b \in Attempts : pc'[b] = "newUuid" => pc[b] = "newUuid"
  BY DEF Writes, AttemptStep, TaskStep, initiateSignIn, CircleAccepts,
     ChallengeSuccess, ChallengeFailure, registerUser, getSessionToken,
     SessionTokenNil, initializeAccount, StoreToken, StoreKey, UnwrapAccount,
     AccountNil, executeChallenge, FindWallet, StoreUserToken, Goto, TypeOK,
     defaults, view, task, history

(* The steps that write keep the one identity.                              *)
LEMMA WritingStep ==
    ASSUME TypeOK, OneIdentity, ~forked', NEW a \in Attempts, Writes(a)
    PROVE  OneIdentity'
  <1> USE OptionalType DEF OneIdentity, OfIdentity, TypeOK, Goto, defaults,
          view, task, history
  <1>1. CASE ReadUuid(a) BY <1>1 DEF ReadUuid
  <1>2. CASE NewUuid(a) BY <1>2 DEF NewUuid
  <1>3. CASE ShowAddress(a) BY <1>3 DEF ShowAddress
  <1>4. CASE StoreAddress(a) BY <1>4 DEF StoreAddress
  <1>5. CASE StoreWalletID(a) BY <1>5 DEF StoreWalletID
  <1>6. CASE RefreshBegin(a) BY <1>6 DEF RefreshBegin, BalanceQuery
  <1>7. CASE RefreshEnd(a) BY <1>7 DEF RefreshEnd, BalanceAnswers
  <1> QED BY <1>1, <1>2, <1>3, <1>4, <1>5, <1>6, <1>7 DEF Writes

(* Nothing but an answer about a persisted wallet becomes the balance.      *)
LEMMA AskingStep ==
    ASSUME CredentialInv, WalletInv, AskedOfWallet, [Next]_vars
    PROVE  AskedOfWallet'
  <1>0. TypeOK /\ (wallet_id # Nil => wallet_id' # Nil)
    BY WalletStep DEF CredentialInv
  <1>1. CASE PullBegin
    BY <1>0, <1>1 DEF PullBegin, BalanceQuery, AskedOfWallet, view, task
  <1>2. CASE PullEnd
    BY <1>0, <1>2 DEF PullEnd, BalanceAnswers, AskedOfWallet, task
  <1>3. CASE Relaunch BY <1>3 DEF Relaunch, AskedOfWallet
  <1>4. ASSUME NEW a \in Attempts, RefreshBegin(a) PROVE AskedOfWallet'
    BY <1>0, <1>4 DEF RefreshBegin, BalanceQuery, AskedOfWallet, TypeOK, view,
       defaults
  <1>5. ASSUME NEW a \in Attempts, RefreshEnd(a) PROVE AskedOfWallet'
    BY <1>0, <1>5 DEF RefreshEnd, BalanceAnswers, AskedOfWallet, TypeOK
  <1>6. ASSUME UNCHANGED <<balance, pulling, reading>> PROVE AskedOfWallet'
    BY <1>0, <1>6 DEF AskedOfWallet
  <1>7. ASSUME NEW a \in Attempts, AttemptStep(a), ~RefreshBegin(a),
               ~RefreshEnd(a)
        PROVE  UNCHANGED <<balance, pulling, reading>>
    BY <1>7 DEF AttemptStep, TaskStep, initiateSignIn, CircleAccepts,
       ChallengeSuccess, ChallengeFailure, ReadUuid, NewUuid, registerUser,
       getSessionToken, SessionTokenNil, initializeAccount, StoreToken,
       StoreKey, UnwrapAccount, AccountNil, executeChallenge, FindWallet,
       ShowAddress, StoreAddress, StoreWalletID, StoreUserToken, view, task
  <1>8. CASE OnAppear \/ UNCHANGED vars \/ \E a \in Attempts : CreateWallet(a)
    BY <1>6, <1>8 DEF OnAppear, CreateWallet, vars, view, task
  <1> QED BY <1>1, <1>2, <1>3, <1>4, <1>5, <1>6, <1>7, <1>8
          DEF Next, AttemptStep

(* Every step keeps the one identity.                                       *)
LEMMA IdentityStep ==
    ASSUME CredentialInv, IdentityInv, UserInv, [Next]_vars, ~forked'
    PROVE  OneIdentity'
  <1>0. TypeOK /\ OneIdentity
    BY UserStep DEF CredentialInv, IdentityInv
  <1>1. ASSUME NEW a \in Attempts, AttemptStep(a) PROVE OneIdentity'
    <2>1. CASE Writes(a) BY <1>0, <2>1, WritingStep
    <2>2. CASE ~Writes(a)
      BY <1>0, <1>1, <2>2, QuietStep DEF OneIdentity, OfIdentity
    <2> QED BY <2>1, <2>2
  <1>2. CASE PullBegin
    BY <1>0, <1>2 DEF PullBegin, BalanceQuery, OneIdentity, OfIdentity,
       defaults, view, task
  <1>3. CASE PullEnd
    BY <1>0, <1>3 DEF PullEnd, BalanceAnswers, OneIdentity, OfIdentity,
       defaults, task
  <1>4. CASE OnAppear
    BY <1>0, <1>4 DEF OnAppear, OneIdentity, OfIdentity, defaults, task
  <1>5. CASE Relaunch
    BY <1>0, <1>5 DEF Relaunch, OneIdentity, OfIdentity, InFlight, Ended,
       defaults
  <1>6. CASE UNCHANGED vars \/ \E a \in Attempts : CreateWallet(a)
    BY <1>0, <1>6 DEF CreateWallet, OneIdentity, OfIdentity, vars, defaults,
       view, task
  <1> QED BY <1>1, <1>2, <1>3, <1>4, <1>5, <1>6 DEF Next, AttemptStep

(* The invariant of a device that was not forked.                           *)
THEOREM IdentityInvariant == Spec => []IdentityInv
  <1>1. Init => IdentityInv
    BY DEF Init, IdentityInv, AskedOfWallet, OneIdentity, OfIdentity
  <1>2. CredentialInv /\ WalletInv /\ UserInv /\ IdentityInv /\ [Next]_vars
          => IdentityInv'
    BY AskingStep, IdentityStep DEF IdentityInv
  <1> QED BY <1>1, <1>2, CredentialInvariant, WalletHasAddress, UserInvariant,
             PTL DEF Spec
-----------------------------------------------------------------------------
(***************************************************************************)
(* One session.  An attempt that has met no other was alone in flight from *)
(* its tap on, so what it persisted is its own, and a wallet id is there   *)
(* only if it stored it.  The stored token is that of an attempt that met  *)
(* another, or of the one in flight.                                       *)
(***************************************************************************)
HasWalletID == HasStored \ {"storeWalletID"}

Company == \A a, b \in Attempts : InFlight(a) /\ InFlight(b) /\ a # b => a \in met

Solo(a) ==
    /\ pc[a] \in HasToken \/ (InFlight(a) /\ wallet_id # Nil)
          => user_token \in met \union {a}
    /\ a \notin met =>
          /\ pc[a] \in HasKey => encryption_key = a
          /\ InFlight(a) /\ wallet_id # Nil => pc[a] \in HasWalletID

SoloInv ==
    /\ Company
    /\ \A a \in Attempts : Solo(a)
    /\ wallet_id # Nil /\ user_token \notin met => user_token = encryption_key

(* Only the tap is a step of an attempt that is not in flight, and only the *)
(* tap makes attempts meet.                                                 *)
LEMMA TapOrInFlight ==
    ASSUME NEW a \in Attempts, AttemptStep(a), ~initiateSignIn(a)
    PROVE  InFlight(a) /\ met' = met
  BY DEF AttemptStep, TaskStep, CircleAccepts, ChallengeSuccess,
     ChallengeFailure, ReadUuid, NewUuid, registerUser, getSessionToken,
     SessionTokenNil, initializeAccount, StoreToken, StoreKey, UnwrapAccount,
     AccountNil, executeChallenge, FindWallet, ShowAddress, StoreAddress,
     StoreWalletID, StoreUserToken, RefreshBegin, RefreshEnd, Goto, InFlight,
     Ended, history

(* Where the attempt is before and after it writes of the session; the      *)
(* steps that write nothing of it pass none of those points.                *)
LEMMA SessionMove ==
    ASSUME TypeOK, NEW a \in Attempts, AttemptStep(a), ~initiateSignIn(a)
    PROVE  \/ /\ user_token' = a /\ UNCHANGED <<wallet_id, encryption_key>>
              /\ \/ pc[a] = "storeToken" /\ pc'[a] = "storeKey"
                 \/ pc[a] = "storeUserToken" /\ pc'[a] = "refresh"
           \/ /\ encryption_key' = a /\ UNCHANGED <<wallet_id, user_token>>
              /\ pc[a] = "storeKey" /\ pc'[a] = "unwrap"
           \/ /\ UNCHANGED <<user_token, encryption_key>>
              /\ pc[a] = "storeWalletID" /\ pc'[a] = "storeUserToken"
           \/ /\ UNCHANGED <<wallet_id, user_token, encryption_key>>
              /\ pc'[a] \in HasToken => pc[a] \in HasToken
              /\ pc'[a] \in HasKey => pc[a] \in HasKey
              /\ pc[a] \in HasWalletID /\ pc'[a] \notin Ended
                    => pc'[a] \in HasWalletID
  <1> USE DEF Goto, TypeOK, defaults, Ended, Networking, Challenge, Wallet,
          HasToken, HasKey, HasWallet, HasShown, HasStored, HasWalletID
  <1>1. CASE StoreToken(a) \/ StoreUserToken(a)
    BY <1>1 DEF StoreToken, StoreUserToken
  <1>2. CASE StoreKey(a) BY <1>2 DEF StoreKey
  <1>3. CASE StoreWalletID(a) BY <1>3 DEF StoreWalletID
  <1>4. CASE ReadUuid(a) \/ NewUuid(a) \/ registerUser(a) \/ getSessionToken(a)
             \/ SessionTokenNil(a) \/ initializeAccount(a)
    BY <1>4 DEF ReadUuid, NewUuid, registerUser, getSessionToken,
       SessionTokenNil, initializeAccount
  <1>5. CASE UnwrapAccount(a) \/ AccountNil(a) \/ executeChallenge(a)
             \/ CircleAccepts(a) \/ ChallengeSuccess(a) \/ ChallengeFailure(a)
    BY <1>5 DEF UnwrapAccount, AccountNil, executeChallenge, CircleAccepts,
       ChallengeSuccess, ChallengeFailure
  <1>6. CASE FindWallet(a) \/ ShowAddress(a) \/ StoreAddress(a)
             \/ RefreshBegin(a) \/ RefreshEnd(a)
    BY <1>6 DEF FindWallet, ShowAddress, StoreAddress, RefreshBegin, RefreshEnd
  <1> QED BY <1>1, <1>2, <1>3, <1>4, <1>5, <1>6 DEF AttemptStep, TaskStep

(* The tap is taken while nothing is shown, so nothing is persisted; what   *)
(* is in flight meets the new attempt.                                      *)
LEMMA TapStep ==
    ASSUME CredentialInv, WalletInv, SoloInv,
           NEW a \in Attempts, initiateSignIn(a)
    PROVE  SoloInv' /\ wallet_id = Nil
  <1>0. TypeOK BY DEF CredentialInv
  <1>1. wallet_id = Nil
    BY DEF initiateSignIn, SignInOffered, WalletInv, CredentialInv
  <1>2. pc[a] = "idle" /\ pc' = [pc EXCEPT ![a] = "uuid"]
    BY DEF initiateSignIn, Goto
  <1>3. UNCHANGED defaults BY DEF initiateSignIn
  <1>4. met' = met \union Meeting(a) BY DEF initiateSignIn
  <1>5. pc'[a] = "uuid" /\ \A b \in Attempts \ {a} : pc'[b] = pc[b]
    BY <1>0, <1>2 DEF TypeOK
  <1>6. Company'
    BY <1>2, <1>4, <1>5 DEF SoloInv, Company, Meeting, InFlight, Ended
  <1>7. ASSUME NEW b \in Attempts PROVE Solo(b)'
    <2>1. CASE b = a
      BY <1>1, <1>3, <1>5, <2>1 DEF Solo, HasToken, HasKey, Challenge, Wallet,
         defaults
    <2>2. CASE b # a
      BY <1>1, <1>3, <1>4, <1>5, <2>2 DEF SoloInv, Solo, InFlight, defaults
    <2> QED BY <2>1, <2>2
  <1> QED BY <1>1, <1>3, <1>6, <1>7 DEF SoloInv, defaults

(* A step of an attempt in flight.  An attempt that has met no other is the *)
(* only one that can take it.                                               *)
LEMMA SoloTaskStep ==
    ASSUME CredentialInv, SoloInv, NEW a \in Attempts, AttemptStep(a),
           ~initiateSignIn(a)
    PROVE  /\ SoloInv'
           /\ met' = met
           /\ wallet_id # Nil /\ user_token \notin met
                => UNCHANGED <<wallet_id, user_token, encryption_key>>
  <1>0. TypeOK BY DEF CredentialInv
  <1>1. InFlight(a) /\ met' = met BY TapOrInFlight
  <1>2. \A b \in Attempts \ {a} : pc'[b] = pc[b]
    BY <1>0, KeptStep DEF CredentialInv
  <1>3. Solo(a) BY DEF SoloInv
  <1>4. \/ /\ user_token' = a /\ UNCHANGED <<wallet_id, encryption_key>>
           /\ \/ pc[a] = "storeToken" /\ pc'[a] = "storeKey"
              \/ pc[a] = "storeUserToken" /\ pc'[a] = "refresh"
        \/ /\ encryption_key' = a /\ UNCHANGED <<wallet_id, user_token>>
           /\ pc[a] = "storeKey" /\ pc'[a] = "unwrap"
        \/ /\ UNCHANGED <<user_token, encryption_key>>
           /\ pc[a] = "storeWalletID" /\ pc'[a] = "storeUserToken"
        \/ /\ UNCHANGED <<wallet_id, user_token, encryption_key>>
           /\ pc'[a] \in HasToken => pc[a] \in HasToken
           /\ pc'[a] \in HasKey => pc[a] \in HasKey
           /\ pc[a] \in HasWalletID /\ pc'[a] \notin Ended
                 => pc'[a] \in HasWalletID
    BY <1>0, SessionMove
  <1> DEFINE later == {"storeUserToken", "refresh", "balance"}
  <1>5. HasWalletID = later
    BY DEF HasWalletID, HasStored, HasShown, HasWallet, Wallet
  <1>6. /\ {"storeKey", "unwrap", "storeWalletID", "storeUserToken", "refresh"}
             \subseteq HasToken
        /\ {"unwrap", "storeWalletID", "storeUserToken", "refresh"}
             \subseteq HasKey
        /\ "storeKey" \notin HasKey
        /\ HasToken \intersect Ended = {} /\ HasKey \intersect Ended = {}
    BY DEF HasToken, HasKey, Challenge, Wallet, Ended
  <1> HIDE DEF later
  <1>7. Company'
    BY <1>1, <1>2 DEF SoloInv, Company, InFlight
  <1>8. ASSUME NEW b \in Attempts, b # a PROVE Solo(b)'
    <2>1. CASE InFlight(b)
      <3>1. a \in met /\ b \in met BY <1>1, <1>8, <2>1 DEF SoloInv, Company
      <3>2. Solo(b) BY DEF SoloInv
      <3> QED BY <1>1, <1>2, <1>3, <1>4, <1>6, <1>8, <2>1, <3>1, <3>2
              DEF Solo, InFlight
    <2>2. CASE ~InFlight(b)
      BY <1>2, <1>6, <1>8, <2>2 DEF Solo, InFlight
    <2> QED BY <2>1, <2>2
  <1>9. Solo(a)'
    BY <1>1, <1>3, <1>4, <1>5, <1>6 DEF Solo, InFlight, later
  <1>10. wallet_id # Nil /\ user_token \notin met
           => UNCHANGED <<wallet_id, user_token, encryption_key>>
    BY <1>1, <1>3, <1>4, <1>5 DEF Solo, later
  <1>11. (wallet_id # Nil /\ user_token \notin met
            => user_token = encryption_key)'
    BY <1>1, <1>3, <1>4, <1>5, <1>6, <1>10 DEF Solo, SoloInv, later
  <1> QED BY <1>1, <1>7, <1>8, <1>9, <1>10, <1>11 DEF SoloInv

(* Once a wallet id is stored, the device keeps a wallet, and no attempt    *)
(* meets another any more.  The session is replaced only by attempts that   *)
(* met; the wallet only on a device that was forked.                        *)
LEMMA SessionStays ==
    ASSUME CredentialInv, WalletInv, UserInv, IdentityInv, SoloInv, [Next]_vars
    PROVE  /\ SoloInv'
           /\ wallet_id # Nil =>
                /\ wallet_id' # Nil
                /\ met' = met
                /\ ~forked' => wallet_id' = wallet_id
                /\ user_token \notin met =>
                      UNCHANGED <<wallet_id, user_token, encryption_key>>
  <1>1. wallet_id # Nil => wallet_id' # Nil BY WalletStep
  <1>2. wallet_id # Nil /\ ~forked' => wallet_id' = wallet_id
    <2>1. SUFFICES ASSUME wallet_id # Nil, ~forked'
                   PROVE  wallet_id' = wallet_id
      OBVIOUS
    <2>2. OneIdentity /\ OneIdentity'
      BY <2>1, UserStep, IdentityStep DEF IdentityInv
    <2>3. wallet_id = uuid /\ wallet_id' = uuid'
      BY <1>1, <2>1, <2>2 DEF OneIdentity, OfIdentity
    <2>4. userId[uuid] = uuid /\ uuid \in Attempts
      BY <2>1, <2>3, OptionalType DEF UserInv, CredentialInv, TypeOK
    <2>5. userId'[uuid] = uuid BY <2>1, <2>3, <2>4, UserStep
    <2> QED BY <2>1, <2>2, <2>3, <2>4, <2>5 DEF OneIdentity, OfIdentity
  <1>3. ASSUME NEW a \in Attempts, AttemptStep(a)
        PROVE  /\ SoloInv'
               /\ wallet_id # Nil => met' = met
               /\ wallet_id # Nil /\ user_token \notin met
                    => UNCHANGED <<wallet_id, user_token, encryption_key>>
    BY <1>3, TapStep, SoloTaskStep
  <1>4. ASSUME ~\E a \in Attempts : AttemptStep(a)
        PROVE  /\ SoloInv'
               /\ met' = met
               /\ UNCHANGED <<wallet_id, user_token, encryption_key>>
    <2>1. /\ UNCHANGED <<defaults, userId, history>>
          /\ \A a \in Attempts : pc'[a] = pc[a] \/ pc'[a] = "dead"
      BY <1>4, OtherMove
    <2>2. "dead" \in Ended /\ "dead" \notin HasToken /\ "dead" \notin HasKey
      BY DEF Ended, HasToken, HasKey, Challenge, Wallet
    <2> QED BY <2>1, <2>2 DEF SoloInv, Company, Solo, InFlight, defaults, history
  <1> QED BY <1>1, <1>2, <1>3, <1>4

(* The invariant of the attempts that met no other.                         *)
THEOREM SoloInvariant == Spec => []SoloInv
  <1>1. Init => SoloInv
    BY DEF Init, SoloInv, Company, Solo, InFlight, Ended, HasToken, HasKey,
           Challenge, Wallet
  <1>2. CredentialInv /\ WalletInv /\ UserInv /\ IdentityInv /\ SoloInv
          /\ [Next]_vars => SoloInv'
    BY SessionStays
  <1> QED BY <1>1, <1>2, CredentialInvariant, WalletHasAddress, UserInvariant,
             IdentityInvariant, PTL DEF Spec

-----------------------------------------------------------------------------
(* The persisted wallet comes with a token and a key of one session, unless *)
(* the attempt whose token it is met another; and with those of its user,   *)
(* unless the device was forked.  For any number of overlapping attempts.   *)
THEOREM SessionsAgree == Spec => []StoredSessionAgrees
  <1>1. CredentialInv /\ WalletInv /\ UserInv /\ IdentityInv /\ SoloInv
          => StoredSessionAgrees
    <2>1. SUFFICES ASSUME CredentialInv, WalletInv, UserInv, IdentityInv,
                          SoloInv, wallet_id # Nil, ~forked
                   PROVE  /\ address = wallet_id
                          /\ userId[user_token] = wallet_id
                          /\ userId[encryption_key] = wallet_id
      BY DEF SoloInv, StoredSessionAgrees
    <2>2. OneIdentity BY <2>1 DEF IdentityInv
    <2>3. wallet_id = uuid /\ address = uuid
      BY <2>1, <2>2 DEF OneIdentity, OfIdentity, WalletInv
    <2>4. /\ user_token \in Attempts /\ encryption_key \in Attempts
          /\ userId[user_token] # Nil /\ userId[encryption_key] # Nil
      BY <2>1, OptionalType DEF WalletInv, CredentialInv, TypeOK,
         SignedInHasCredentials, UserInv
    <2> QED BY <2>2, <2>3, <2>4 DEF OneIdentity, OfIdentity
  <1> QED BY <1>1, CredentialInvariant, WalletHasAddress, UserInvariant,
             IdentityInvariant, SoloInvariant, PTL

(* The address and the balance on the screen are those of the persisted     *)
(* identity, whichever of the overlapping attempts wrote them, unless the   *)
(* device was forked.                                                       *)
THEOREM ScreenAgrees == Spec => []ShownWalletAgrees
  <1>1. CredentialInv /\ WalletInv /\ IdentityInv => ShownWalletAgrees
    BY DEF CredentialInv, WalletInv, IdentityInv, AskedOfWallet, OneIdentity,
           OfIdentity, ShownWalletAgrees
  <1> QED BY <1>1, CredentialInvariant, WalletHasAddress, IdentityInvariant, PTL

(* UserDefaults implements the abstract account: an identity and then its   *)
(* wallet, each once and for all, unless the check-then-act of the uuid     *)
(* getter forked the device.                                                *)
THEOREM AccountRefinement == Spec => ImplementsAccount
  <1> DEFINE taken == {userId[a] : a \in Attempts} \ {Nil}
  <1>1. Init => DeviceAccount!Init
    BY DEF Init, DeviceAccount!Init
  <1>2. CredentialInv /\ UserInv /\ IdentityInv /\ [Next]_vars
          => [DeviceAccount!Next]_DeviceAccount!vars
    <2> SUFFICES ASSUME CredentialInv, UserInv, IdentityInv, [Next]_vars
                 PROVE  [DeviceAccount!Next]_DeviceAccount!vars
      OBVIOUS
    <2>0. TypeOK BY DEF CredentialInv
    <2>1. ASSUME NEW a \in Attempts, NewUuid(a)
          PROVE  DeviceAccount!Identify(a)
      <3>1. pc[a] = "newUuid" /\ userId[a] = Nil
        BY <2>1 DEF NewUuid, Goto, UserInv, Fresh
      <3>2. uuid = Nil \/ forked
        BY <3>1 DEF IdentityInv, OneIdentity
      <3>3. a \notin taken BY <3>1 DEF UserInv
      <3>4. userId' = [userId EXCEPT ![a] = a] BY <2>1 DEF NewUuid
      <3>5. /\ userId'[a] = a
            /\ \A b \in Attempts : b # a => userId'[b] = userId[b]
        BY <2>0, <3>4 DEF TypeOK
      <3>6. taken' = taken \union {a} BY <3>1, <3>5
      <3>7. uuid' = a /\ UNCHANGED <<address, forked>>
        BY <2>1 DEF NewUuid, history
      <3> QED BY <3>2, <3>3, <3>6, <3>7 DEF DeviceAccount!Identify
    <2>2. ASSUME NEW a \in Attempts, ReadUuid(a)
          PROVE  DeviceAccount!Fork \/ UNCHANGED DeviceAccount!vars
      <3>1. userId[a] = Nil BY <2>2 DEF ReadUuid, Goto, UserInv, Fresh
      <3>2. /\ userId'[a] = uuid
            /\ \A b \in Attempts : b # a => userId'[b] = userId[b]
        BY <2>0, <2>2 DEF ReadUuid, TypeOK
      <3>3. uuid # Nil => \E b \in Attempts : b # a /\ userId[b] = uuid
        BY <2>0, <3>1, OptionalType DEF UserInv, TypeOK
      <3>4. taken' = taken BY <3>1, <3>2, <3>3
      <3>5. UNCHANGED <<uuid, address>> BY <2>2 DEF ReadUuid, defaults
      <3>6. (uuid = Nil /\ forked' = TRUE) \/ forked' = forked
        BY <2>0, <2>2 DEF ReadUuid, TypeOK
      <3> QED BY <3>4, <3>5, <3>6 DEF DeviceAccount!Fork, DeviceAccount!vars
    <2>3. ASSUME NEW a \in Attempts, StoreAddress(a)
          PROVE  \/ \E u \in Attempts : DeviceAccount!AttachWallet(u)
                 \/ UNCHANGED DeviceAccount!vars
      <3>1. userId[a] # Nil /\ userId[a] \in Attempts
        BY <2>0, <2>3, OptionalType DEF StoreAddress, Goto, CredentialInv,
           Credentials, HasUser, Wallet, TypeOK
      <3>2. address' = userId[a] /\ UNCHANGED <<uuid, userId, forked>>
        BY <2>3 DEF StoreAddress, task, history
      <3>3. userId[a] \in taken BY <3>1
      <3>4. ~forked => userId[a] = uuid /\ address \in {uuid, Nil}
        BY <3>1 DEF IdentityInv, OneIdentity, OfIdentity
      <3>5. CASE ~forked /\ address = uuid
        BY <3>2, <3>4, <3>5 DEF DeviceAccount!vars
      <3>6. CASE forked \/ address = Nil
        BY <3>1, <3>2, <3>3, <3>4, <3>6 DEF DeviceAccount!AttachWallet
      <3> QED BY <3>4, <3>5, <3>6
    <2>4. ASSUME ~\E a \in Attempts :
                    NewUuid(a) \/ ReadUuid(a) \/ StoreAddress(a)
          PROVE  UNCHANGED <<uuid, address, userId, forked>>
      BY <2>4 DEF Next, TaskStep, initiateSignIn, registerUser,
         getSessionToken, SessionTokenNil, initializeAccount, StoreToken,
         StoreKey, UnwrapAccount, AccountNil, executeChallenge, CircleAccepts,
         ChallengeSuccess, ChallengeFailure, CreateWallet, FindWallet,
         ShowAddress, StoreWalletID, StoreUserToken, RefreshBegin, RefreshEnd,
         PullBegin, PullEnd, OnAppear, Relaunch, vars, defaults, task, history
    <2>5. UNCHANGED <<uuid, address, userId, forked>>
            => UNCHANGED DeviceAccount!vars
      BY DEF DeviceAccount!vars
    <2> QED BY <2>1, <2>2, <2>3, <2>4, <2>5 DEF DeviceAccount!Next
  <1> QED BY <1>1, <1>2, CredentialInvariant, UserInvariant,
             IdentityInvariant, PTL
          DEF Spec, ImplementsAccount, DeviceAccount!Spec
=============================================================================
