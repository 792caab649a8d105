------------------------------- MODULE SignIn -------------------------------
(***************************************************************************)
(* Sign in / sign up of the YieldMe app: ContentView.initiateSignIn, the   *)
(* request chain of CircleNetworking.getSignInChallenge, the challenge     *)
(* executed by the Circle wallet SDK, the polling loop queryWalletStatus   *)
(* and refreshBalance, over the values that UserDefaultsManager persists.  *)
(*                                                                         *)
(* Every tap on the sign-in button starts a detached task, an attempt.     *)
(* An attempt generates at most one UUID, obtains at most one Circle       *)
(* session (a user token with its encryption key) and at most one          *)
(* challenge, so an attempt names all of them: user_token = a is the token *)
(* and encryption_key = a the key of the session of attempt a, and uuid =  *)
(* a is the UUID that a generated.  A Circle user has one wallet (one      *)
(* blockchain is asked for), named by the user.                            *)
(*                                                                         *)
(* The statements of a detached task that touch UserDefaults or a @State   *)
(* of the view are steps of their own: other attempts, the main thread and *)
(* the death of the process come between them.                             *)
(***************************************************************************)
CONSTANTS
    Attempts,   \* the taps on "Sign in / sign up"
    Nil         \* the absent value of an optional

ASSUME NilAssumption == Nil \notin Attempts

VARIABLES
    uuid, address, wallet_id, user_token, encryption_key,  \* UserDefaults
    isLoading, walletAddress, balance, toastMessage,       \* ContentView
    pc, userId, account, reading,                          \* the attempts
    pulling,                                               \* pull to refresh
    registered, initialized, wallets,                      \* Circle's side
    trap,                                                  \* failed unwrap
    met, forked                                            \* history

defaults == <<uuid, address, wallet_id, user_token, encryption_key>>
view     == <<isLoading, walletAddress, balance, toastMessage>>
task     == <<userId, account, reading>>
circle   == <<registered, initialized, wallets>>
history  == <<met, forked>>
vars     == <<defaults, view, pc, task, pulling, circle, trap, history>>

Optional(S) == S \union {Nil}

(***************************************************************************)
(* Where an attempt is.  From "uuid" to "unwrap" it runs                   *)
(* getSignInChallenge, from "query" to "balance" queryWalletStatus.        *)
(***************************************************************************)
Ended == {"idle", "done", "failed", "dead"}
Networking == {"uuid", "newUuid", "register", "token", "initialize",
               "storeToken", "storeKey", "unwrap"}
Challenge == {"execute", "sdk"}
Wallet == {"query", "show", "storeAddress", "storeWalletID",
           "storeUserToken", "refresh", "balance"}

InFlight(a) == pc[a] \notin Ended

Goto(a, from, to) ==
    /\ trap = "none"
    /\ pc[a] = from
    /\ pc' = [pc EXCEPT ![a] = to]

TypeOK ==
    /\ uuid \in Optional(Attempts)
    /\ address \in Optional(Attempts)
    /\ wallet_id \in Optional(Attempts)
    /\ user_token \in Optional(Attempts)
    /\ encryption_key \in Optional(Attempts)
    /\ isLoading \in BOOLEAN
    /\ walletAddress \in Optional(Attempts)
    /\ balance \in Optional(Attempts)     \* whose USDC is shown; Nil is "0"
    /\ toastMessage \in {"none", "Creating the wallet", "Error"}
    /\ pc \in [Attempts -> Ended \union Networking \union Challenge \union Wallet]
    /\ userId \in [Attempts -> Optional(Attempts)]
    /\ account \in [Attempts -> BOOLEAN]  \* initializeAccount answered
    /\ reading \in [Attempts -> Optional(Attempts)]
    /\ pulling \in Optional(Attempts)
    /\ registered \subseteq Attempts
    /\ initialized \subseteq Attempts
    /\ wallets \subseteq Attempts
    /\ trap \in {"none", "sessionToken!", "account!"}
    /\ met \subseteq Attempts    \* were in flight together with another one
    /\ forked \in BOOLEAN        \* two attempts found no identity at once

(* The first launch after installation. *)
Init ==
    /\ uuid = Nil /\ address = Nil /\ wallet_id = Nil
    /\ user_token = Nil /\ encryption_key = Nil
    /\ isLoading = FALSE /\ walletAddress = Nil
    /\ balance = Nil /\ toastMessage = "none"
    /\ pc = [a \in Attempts |-> "idle"]
    /\ userId = [a \in Attempts |-> Nil]
    /\ account = [a \in Attempts |-> FALSE]
    /\ reading = [a \in Attempts |-> Nil]
    /\ pulling = Nil
    /\ registered = {} /\ initialized = {} /\ wallets = {}
    /\ trap = "none"
    /\ met = {} /\ forked = FALSE

-----------------------------------------------------------------------------
(* Mutant: the button is shown to signed-in users, too. *)
MutSignInOffered == TRUE

(* The list shows address, balance and pass, or else the sign-in button,   *)
(* which is not disabled while isLoading: taps may overlap.                *)
SignInOffered == walletAddress = Nil

(* The attempts that meet when a is started: with company, all of them. *)
Meeting(a) ==
    LET company == {b \in Attempts : InFlight(b)}
    IN  IF company = {} THEN {} ELSE company \union {a}

initiateSignIn(a) ==
    /\ SignInOffered
    /\ Goto(a, "idle", "uuid")
    /\ isLoading' = TRUE
    /\ met' = met \union Meeting(a)
    /\ UNCHANGED <<defaults, walletAddress, balance, toastMessage, task,
                   pulling, circle, trap, forked>>

(* Mutant: the getter does not look at the stored value. *)
MutReadUuid(a) ==
    /\ Goto(a, "uuid", "newUuid")
    /\ UNCHANGED <<defaults, view, task, pulling, circle, trap, history>>

(* getSignInChallenge: the getter of uuid, a check and then an act.  When  *)
(* another attempt is between the two, the device gets two identities.     *)
ReadUuid(a) ==
    /\ Goto(a, "uuid", IF uuid = Nil THEN "newUuid" ELSE "register")
    /\ userId' = [userId EXCEPT ![a] = uuid]
    /\ forked' = \/ forked
                 \/ uuid = Nil /\ \E b \in Attempts : pc[b] = "newUuid"
    /\ UNCHANGED <<defaults, view, account, reading, pulling, circle, trap,
                   met>>

(* Mutants: the getter generates, and returns what it read before; the     *)
(* getter generates and does not store.                                    *)
MutNewUuidStale(a) ==
    /\ Goto(a, "newUuid", "register")
    /\ uuid' = a
    /\ UNCHANGED <<address, wallet_id, user_token, encryption_key, view, task,
                   pulling, circle, trap, history>>

MutNewUuidUnsaved(a) ==
    /\ Goto(a, "newUuid", "register")
    /\ userId' = [userId EXCEPT ![a] = a]
    /\ UNCHANGED <<defaults, view, account, reading, pulling, circle, trap,
                   history>>

NewUuid(a) ==
    /\ Goto(a, "newUuid", "register")
    /\ uuid' = a
    /\ userId' = [userId EXCEPT ![a] = a]
    /\ UNCHANGED <<address, wallet_id, user_token, encryption_key, view,
                   account, reading, pulling, circle, trap, history>>

(* Every failure of registerUser is swallowed: the chain goes on. *)
registerUser(a) ==
    /\ Goto(a, "register", "token")
    /\ registered' \in {registered, registered \union {userId[a]}}
    /\ UNCHANGED <<defaults, view, task, pulling, initialized, wallets, trap,
                   history>>

(* Circle gives sessions to registered users only. *)
getSessionToken(a) ==
    /\ userId[a] \in registered
    /\ Goto(a, "token", "initialize")
    /\ UNCHANGED <<defaults, view, task, pulling, circle, trap, history>>

(* sessionToken!: the process dies when getSessionToken returned nil. *)
SessionTokenNil(a) ==
    /\ Goto(a, "token", "token")
    /\ trap' = "sessionToken!"
    /\ UNCHANGED <<defaults, view, task, pulling, circle, history>>

initializeAccount(a) ==
    /\ Goto(a, "initialize", "storeToken")
    /\ account' \in {[account EXCEPT ![a] = ok] : ok \in BOOLEAN}
    /\ UNCHANGED <<defaults, view, userId, reading, pulling, circle, trap,
                   history>>

(* Mutants: the token, the key of the session is not stored. *)
MutStoreToken(a) ==
    /\ Goto(a, "storeToken", "storeKey")
    /\ UNCHANGED <<defaults, view, task, pulling, circle, trap, history>>

MutStoreKey(a) ==
    /\ Goto(a, "storeKey", "unwrap")
    /\ UNCHANGED <<defaults, view, task, pulling, circle, trap, history>>

StoreToken(a) ==
    /\ Goto(a, "storeToken", "storeKey")
    /\ user_token' = a
    /\ UNCHANGED <<uuid, address, wallet_id, encryption_key, view, task,
                   pulling, circle, trap, history>>

StoreKey(a) ==
    /\ Goto(a, "storeKey", "unwrap")
    /\ encryption_key' = a
    /\ UNCHANGED <<uuid, address, wallet_id, user_token, view, task, pulling,
                   circle, trap, history>>

(* account! in the returned CircleChallenge, after the two stores. *)
UnwrapAccount(a) ==
    /\ account[a]
    /\ Goto(a, "unwrap", "execute")
    /\ UNCHANGED <<defaults, view, task, pulling, circle, trap, history>>

AccountNil(a) ==
    /\ ~account[a]
    /\ Goto(a, "unwrap", "unwrap")
    /\ trap' = "account!"
    /\ UNCHANGED <<defaults, view, task, pulling, circle, history>>

-----------------------------------------------------------------------------
(* A toast replaces the one before it; when it goes is left to the timer.  *)
showToast(message) == toastMessage' = message

executeChallenge(a) ==
    /\ Goto(a, "execute", "sdk")
    /\ UNCHANGED <<defaults, view, task, pulling, circle, trap, history>>

(* The user sets the PIN and Circle accepts the challenge. *)
CircleAccepts(a) ==
    /\ Goto(a, "sdk", "sdk")
    /\ initialized' = initialized \union {userId[a]}
    /\ UNCHANGED <<defaults, view, task, pulling, registered, wallets, trap,
                   history>>

(* The status in the result is read and not used: the SDK's success starts *)
(* the polling whether or not Circle accepted the challenge.               *)
ChallengeSuccess(a) ==
    /\ Goto(a, "sdk", "query")
    /\ showToast("Creating the wallet")
    /\ UNCHANGED <<defaults, isLoading, walletAddress, balance, task, pulling,
                   circle, trap, history>>

(* Also when Circle accepted and the answer was lost.  isLoading stays. *)
ChallengeFailure(a) ==
    /\ Goto(a, "sdk", "failed")
    /\ showToast("Error")
    /\ UNCHANGED <<defaults, isLoading, walletAddress, balance, task, pulling,
                   circle, trap, history>>

(* Circle deploys the wallet some time after it accepted the challenge. *)
CreateWallet(u) ==
    /\ u \in initialized \ wallets
    /\ wallets' = wallets \union {u}
    /\ UNCHANGED <<defaults, view, pc, task, pulling, registered, initialized,
                   trap, history>>

-----------------------------------------------------------------------------
(* Does the answer hold a wallet?  A failed request answers nil. *)
getWalletStatus(a) == userId[a] \in wallets

(* Mutant: the loop also waits for a view without an address. *)
MutFindWallet(a) ==
    /\ getWalletStatus(a)
    /\ walletAddress = Nil
    /\ Goto(a, "query", "show")
    /\ isLoading' = FALSE
    /\ UNCHANGED <<defaults, walletAddress, balance, toastMessage, task,
                   pulling, circle, trap, history>>

(* queryWalletStatus polls until a wallet is in the answer; a poll without *)
(* one changes nothing and is a stuttering step.                           *)
FindWallet(a) ==
    /\ getWalletStatus(a)
    /\ Goto(a, "query", "show")
    /\ isLoading' = FALSE
    /\ UNCHANGED <<defaults, walletAddress, balance, toastMessage, task,
                   pulling, circle, trap, history>>

ShowAddress(a) ==
    /\ Goto(a, "show", "storeAddress")
    /\ walletAddress' = userId[a]
    /\ UNCHANGED <<defaults, isLoading, balance, toastMessage, task, pulling,
                   circle, trap, history>>

(* Mutant: the wallet id is stored and the address is not. *)
MutStoreAddress(a) ==
    /\ Goto(a, "storeAddress", "storeWalletID")
    /\ wallet_id' = userId[a]
    /\ UNCHANGED <<uuid, address, user_token, encryption_key, view, task,
                   pulling, circle, trap, history>>

StoreAddress(a) ==
    /\ Goto(a, "storeAddress", "storeWalletID")
    /\ address' = userId[a]
    /\ UNCHANGED <<uuid, wallet_id, user_token, encryption_key, view, task,
                   pulling, circle, trap, history>>

StoreWalletID(a) ==
    /\ Goto(a, "storeWalletID", "storeUserToken")
    /\ wallet_id' = userId[a]
    /\ UNCHANGED <<uuid, address, user_token, encryption_key, view, task,
                   pulling, circle, trap, history>>

StoreUserToken(a) ==
    /\ Goto(a, "storeUserToken", "refresh")
    /\ user_token' = a
    /\ UNCHANGED <<uuid, address, wallet_id, encryption_key, view, task,
                   pulling, circle, trap, history>>

(* The wallet refreshBalance asks about: the if let of its first line. *)
BalanceQuery == IF user_token = Nil THEN Nil ELSE wallet_id

(* The balance after an answer about w: none when the request failed or    *)
(* holds no USDC.                                                          *)
BalanceAnswers(w) == IF w = Nil THEN {balance} ELSE {balance, w}

RefreshBegin(a) ==
    /\ Goto(a, "refresh", "balance")
    /\ reading' = [reading EXCEPT ![a] = BalanceQuery]
    /\ UNCHANGED <<defaults, view, userId, account, pulling, circle, trap,
                   history>>

RefreshEnd(a) ==
    /\ Goto(a, "balance", "done")
    /\ balance' \in BalanceAnswers(reading[a])
    /\ reading' = [reading EXCEPT ![a] = Nil]
    /\ UNCHANGED <<defaults, isLoading, walletAddress, toastMessage, userId,
                   account, pulling, circle, trap, history>>

-----------------------------------------------------------------------------
(* .refreshable of the list: one at a time, and only the first line when   *)
(* there is nothing to ask about.                                          *)
PullBegin ==
    /\ trap = "none"
    /\ pulling = Nil
    /\ BalanceQuery # Nil
    /\ pulling' = BalanceQuery
    /\ UNCHANGED <<defaults, view, pc, task, circle, trap, history>>

PullEnd ==
    /\ trap = "none"
    /\ pulling # Nil
    /\ pulling' = Nil
    /\ balance' \in BalanceAnswers(pulling)
    /\ UNCHANGED <<defaults, isLoading, walletAddress, toastMessage, pc, task,
                   circle, trap, history>>

(* .onAppear of the list, on launch and on every return to it.  It also    *)
(* configures the SDK and fetches the protocols, which no sign-in reads.   *)
OnAppear ==
    /\ trap = "none"
    /\ address # Nil
    /\ walletAddress' = address
    /\ UNCHANGED <<defaults, isLoading, balance, toastMessage, pc, task,
                   pulling, circle, trap, history>>

(* Mutant: walletAddress starts as nil. *)
MutRelaunch ==
    /\ walletAddress' = Nil
    /\ isLoading' = FALSE
    /\ balance' = Nil
    /\ toastMessage' = "none"
    /\ pc' = [a \in Attempts |-> IF InFlight(a) THEN "dead" ELSE pc[a]]
    /\ reading' = [a \in Attempts |-> Nil]
    /\ pulling' = Nil
    /\ trap' = "none"
    /\ UNCHANGED <<defaults, userId, account, circle, history>>

(* The process ends, by a trap or by the system, at any point, and is      *)
(* started again: what UserDefaults holds is all that is left.             *)
Relaunch ==
    /\ walletAddress' = address
    /\ isLoading' = FALSE
    /\ balance' = Nil
    /\ toastMessage' = "none"
    /\ pc' = [a \in Attempts |-> IF InFlight(a) THEN "dead" ELSE pc[a]]
    /\ reading' = [a \in Attempts |-> Nil]
    /\ pulling' = Nil
    /\ trap' = "none"
    /\ UNCHANGED <<defaults, userId, account, circle, history>>

-----------------------------------------------------------------------------
(* What the app does by itself once a task is started. *)
TaskStep(a) ==
    \/ ReadUuid(a) \/ NewUuid(a)
    \/ registerUser(a)
    \/ getSessionToken(a) \/ SessionTokenNil(a)
    \/ initializeAccount(a)
    \/ StoreToken(a) \/ StoreKey(a)
    \/ UnwrapAccount(a) \/ AccountNil(a)
    \/ executeChallenge(a)
    \/ FindWallet(a) \/ ShowAddress(a)
    \/ StoreAddress(a) \/ StoreWalletID(a) \/ StoreUserToken(a)
    \/ RefreshBegin(a) \/ RefreshEnd(a)

Next ==
    \/ \E a \in Attempts :
          \/ initiateSignIn(a)
          \/ TaskStep(a)
          \/ CircleAccepts(a)
          \/ ChallengeSuccess(a)
          \/ ChallengeFailure(a)
          \/ CreateWallet(a)
    \/ PullBegin
    \/ PullEnd
    \/ OnAppear
    \/ Relaunch

Spec == Init /\ [][Next]_vars

(* Detached tasks are scheduled, requests time out rather than hang, and   *)
(* Circle deploys the wallets it accepted.  Nothing is assumed of the user *)
(* (taps, PIN entry) or of the SDK.                                        *)
Fairness ==
    \A a \in Attempts : WF_vars(TaskStep(a)) /\ WF_vars(CreateWallet(a))

FairSpec == Spec /\ Fairness

-----------------------------------------------------------------------------
(***************************************************************************)
(* Properties                                                              *)
(***************************************************************************)

(* Whenever an address is persisted, so are the identity and both halves   *)
(* of a session, and Circle has that wallet: the guards that read them in  *)
(* the deposit and mint flows cannot fall through after a sign-in.  For    *)
(* any number of overlapping attempts and a death of the process anywhere. *)
SignedInHasCredentials ==
    address # Nil =>
        /\ uuid # Nil /\ user_token # Nil /\ encryption_key # Nil
        /\ address \in wallets

(* Once signed in, the device stays signed in: no step, the relaunch       *)
(* included, takes the address away from UserDefaults or from the view.    *)
SignInSticks ==
    [][address # Nil => address' # Nil /\ walletAddress' # Nil]_vars

(* A persisted wallet id comes with a token and a key of one session,      *)
(* unless the attempt whose token is stored met another one: the stores of *)
(* CircleNetworking.swift:35-36 and the third one of ContentView.swift:229 *)
(* are not atomic.  Address, token and key are those of the wallet's user, *)
(* unless two attempts made an identity each.                              *)
StoredSessionAgrees ==
    wallet_id # Nil =>
        /\ user_token \notin met => user_token = encryption_key
        /\ ~forked => /\ address = wallet_id
                      /\ userId[user_token] = wallet_id
                      /\ userId[encryption_key] = wallet_id

(* The wallet on the screen is the wallet of the persisted identity, and   *)
(* so is the balance under it, whichever of the overlapping attempts wrote *)
(* them and in whichever order their answers came, unless two attempts     *)
(* made an identity each.                                                  *)
ShownWalletAgrees ==
    ~forked =>
        /\ walletAddress # Nil => walletAddress = uuid
        /\ balance # Nil => balance = walletAddress

(* The device implements the abstract account, overlapping attempts and    *)
(* the check-then-act of the uuid getter included.                         *)
DeviceAccount == INSTANCE Account WITH
    Users <- Attempts, identity <- uuid, wallet <- address,
    taken <- {userId[a] : a \in Attempts} \ {Nil}, forked <- forked
ImplementsAccount == DeviceAccount!Spec

(* A poll for a wallet that Circle is to create ends: with the wallet      *)
(* stored and the balance asked for, or with the process.                  *)
PollingEnds ==
    \A a \in Attempts :
        pc[a] = "query" /\ userId[a] \in initialized
            ~> pc[a] \in {"done", "dead"} \/ trap # "none"

(* PremiumPassView.swift:165 unwraps the stored wallet id with "!"; the    *)
(* way there leads through a view that shows the wallet address.           *)
WalletIDPresentWhenSignedIn ==
    walletAddress # Nil /\ (\A a \in Attempts : ~InFlight(a)) => wallet_id # Nil
=============================================================================
