---------------------------- MODULE PremiumPass ----------------------------
(***************************************************************************)
(* The Community Pass sheet: PremiumPassView with its World ID scan        *)
(* (initiateWorldCoin over the Rust WrappedSession), the mint of the pass  *)
(* (initiatePassMint, executeChallenge), and the part of ContentView that  *)
(* opens the sheet and shows the pass.                                     *)
(*                                                                         *)
(* Every presentation of the sheet has @State of its own, which the tasks  *)
(* started from it go on writing after it is dismissed.  Both buttons stay *)
(* enabled while their task runs.  A scan blocks a thread of the           *)
(* cooperative pool (session.poll() is synchronous); the break after a     *)
(* confirmed poll leaves the switch and not the loop, so the thread is     *)
(* never given back.                                                       *)
(*                                                                         *)
(* A scan that the user approved names its proof.  isLoadingWorldCoin,     *)
(* which nothing reads, is left out.                                       *)
(***************************************************************************)
EXTENDS Naturals, FiniteSets

CONSTANTS
    Sheets,     \* presentations of the sheet
    Scans,      \* taps on "Sign in with WorldCoin"
    Mints,      \* taps on "Purchase for $10"
    Pool,       \* threads of the cooperative pool
    Nil

ASSUME PoolAssumption == Pool \in Nat \ {0}
ASSUME NoneAssumption == Nil \notin Sheets \union Scans

VARIABLES
    purchased_pass, stored,               \* UserDefaults
    purchasedPass, sheet, seen, opened,   \* ContentView
    isStepOneCompleted, isLoadingMint, proof,  \* per presentation
    scanPc, scanSheet, approved,          \* scans, and the World App's answers
    mintPc, mintSheet, params,            \* mints
    trap,                                 \* failed unwrap or Rust panic
    granted, missed, overtaken            \* history

defaults == <<purchased_pass, stored>>
content  == <<purchasedPass, sheet, seen, opened>>
state    == <<isStepOneCompleted, isLoadingMint, proof>>
scans    == <<scanPc, scanSheet, approved>>
mints    == <<mintPc, mintSheet, params>>
history  == <<granted, missed, overtaken>>
vars     == <<defaults, content, state, scans, mints, trap, history>>

(***************************************************************************)
(* How far a sign-in (module SignIn) got: the list shows the address, then *)
(* the address is stored, then the wallet id.                              *)
(***************************************************************************)
SignInStages == {"nothing", "shown", "address", "wallet"}
HasAddress == stored \in {"address", "wallet"}
HasWalletID == stored = "wallet"

(* Points of a scan and of a mint. *)
Scanning == {"poll", "storeProof", "complete"}
Building == {"walletAddress", "merkle_root", "nullifier_hash", "proof",
             "walletID"}
Awaiting == {"request", "sdk"}
Arguments == {"merkle_root", "nullifier_hash", "proof"}

InFlight(m) == mintPc[m] \in {"queued"} \union Building \union Awaiting

(* A blocking scan and the synchronous part of a mint hold a thread.       *)
FreeThread ==
    Cardinality({w \in Scans : scanPc[w] \in Scanning})
      + Cardinality({m \in Mints : mintPc[m] \in Building}) < Pool

Alive == trap = "none"

(* The list and the sheet have seen the last change of presentation: the   *)
(* main thread renders before it takes the next touch.                     *)
Settled == seen = (sheet # Nil)

ScanGoto(w, from, to) ==
    /\ Alive
    /\ scanPc[w] = from
    /\ scanPc' = [scanPc EXCEPT ![w] = to]

MintGoto(m, from, to) ==
    /\ Alive
    /\ mintPc[m] = from
    /\ mintPc' = [mintPc EXCEPT ![m] = to]

TypeOK ==
    /\ purchased_pass \in BOOLEAN
    /\ stored \in SignInStages
    /\ purchasedPass \in BOOLEAN
    /\ sheet \in Sheets \union {Nil}
    /\ seen \in BOOLEAN
    /\ opened \subseteq Sheets
    /\ isStepOneCompleted \in [Sheets -> BOOLEAN]
    /\ isLoadingMint \in [Sheets -> BOOLEAN]
    /\ proof \in [Sheets -> Scans \union {Nil}]
    /\ scanPc \in [Scans -> {"idle", "queued", "dead"} \union Scanning]
    /\ scanSheet \in [Scans -> Sheets \union {Nil}]
    /\ approved \subseteq Scans
    /\ mintPc \in [Mints -> {"idle", "queued", "returned", "done", "failed", "dead"}
                              \union Building \union Awaiting]
    /\ mintSheet \in [Mints -> Sheets \union {Nil}]
    /\ params \in [Mints -> [Arguments -> Scans \union {Nil}]]
    /\ trap \in {"none", "walletAddress!", "proof!", "hex!", "walletID!", "panic"}
    /\ granted \in BOOLEAN       \* a deposit recorded a pass
    /\ missed \in BOOLEAN        \* see Unnoticed
    /\ overtaken \subseteq Mints \* see StoreProof

(* The @State of presentations that nothing was done in. *)
FreshFlags == [s \in Sheets |-> FALSE]
NoProof == [s \in Sheets |-> Nil]

(* A launch on a device where nobody signed in, or somebody did; the       *)
(* process may have died before the wallet id was stored                   *)
(* (SignIn!WalletIDPresentWhenSignedIn).                                   *)
Init ==
    /\ purchased_pass = FALSE /\ stored \in SignInStages \ {"shown"}
    /\ purchasedPass = FALSE /\ sheet = Nil /\ seen = FALSE /\ opened = {}
    /\ isStepOneCompleted = FreshFlags /\ isLoadingMint = FreshFlags
    /\ proof = NoProof
    /\ scanPc = [w \in Scans |-> "idle"]
    /\ scanSheet = [w \in Scans |-> Nil]
    /\ approved = {}
    /\ mintPc = [m \in Mints |-> "idle"]
    /\ mintSheet = [m \in Mints |-> Nil]
    /\ params = [m \in Mints |-> [p \in Arguments |-> Nil]]
    /\ trap = "none"
    /\ granted = FALSE /\ missed = FALSE /\ overtaken = {}

-----------------------------------------------------------------------------
(* A sign-in in the background (module SignIn) goes on. *)
SignInStores ==
    /\ Alive
    /\ \/ stored = "nothing" /\ stored' = "shown"
       \/ stored = "shown" /\ stored' = "address"
       \/ stored = "address" /\ stored' = "wallet"
    /\ UNCHANGED <<purchased_pass, content, state, scans, mints, trap,
                   history>>

(* A callback that records a pass or closes a sheet is lost on the list    *)
(* when the list knows of no sheet and there is none afterwards: onChange  *)
(* does not run.                                                           *)
Unnoticed == ~seen /\ sheet' = Nil

(* A successful deposit (module Deposit) records a pass, too. *)
DepositGrants ==
    /\ Alive
    /\ purchased_pass' = TRUE
    /\ granted' = TRUE
    /\ sheet' = sheet
    /\ missed' = (missed \/ Unnoticed)
    /\ UNCHANGED <<stored, purchasedPass, seen, opened, state, scans, mints,
                   trap, overtaken>>

(* The list and its sheet: "Buy Community Pass" is there under an address. *)
OpenSheet(s) ==
    /\ Alive /\ Settled
    /\ stored # "nothing"
    /\ sheet = Nil
    /\ s \notin opened
    /\ ~(purchasedPass \/ purchased_pass)
    /\ sheet' = s
    /\ opened' = opened \union {s}
    /\ UNCHANGED <<defaults, purchasedPass, seen, state, scans, mints, trap,
                   history>>

CloseSheet ==
    /\ Alive /\ Settled
    /\ sheet # Nil
    /\ sheet' = Nil
    /\ UNCHANGED <<defaults, purchasedPass, seen, opened, state, scans, mints,
                   trap, history>>

(* Mutant: the flag is read when the sheet opens only. *)
MutOnChange ==
    /\ Alive
    /\ ~Settled
    /\ seen' = (sheet # Nil)
    /\ purchasedPass' = IF sheet = Nil THEN purchasedPass ELSE purchased_pass
    /\ missed' = FALSE
    /\ UNCHANGED <<defaults, sheet, opened, state, scans, mints, trap, granted,
                   overtaken>>

(* .onChange(of: isCommunityPassPresented) *)
OnChange ==
    /\ Alive
    /\ ~Settled
    /\ seen' = (sheet # Nil)
    /\ purchasedPass' = purchased_pass
    /\ missed' = FALSE
    /\ UNCHANGED <<defaults, sheet, opened, state, scans, mints, trap, granted,
                   overtaken>>

-----------------------------------------------------------------------------
(* Step 1: the World ID scan. *)
TapWorldCoin(w) ==
    /\ Settled
    /\ sheet # Nil
    /\ ~isStepOneCompleted[sheet]
    /\ ScanGoto(w, "idle", "queued")
    /\ scanSheet' = [scanSheet EXCEPT ![w] = sheet]
    /\ UNCHANGED <<defaults, content, state, approved, mints, trap, history>>

(* WrappedSession(...), get_url() and openURL. *)
initiateWorldCoin(w) ==
    /\ FreeThread
    /\ ScanGoto(w, "queued", "poll")
    /\ UNCHANGED <<defaults, content, state, scanSheet, approved, mints, trap,
                   history>>

(* Session::new(..).unwrap() and poll_for_status().unwrap(): a failed      *)
(* request is a Rust panic, and the process ends.                          *)
Panic(w) ==
    /\ Alive
    /\ scanPc[w] = "poll"
    /\ trap' = "panic"
    /\ UNCHANGED <<defaults, content, state, scans, mints, history>>

(* Mutant: the approval is kept for the sheet. *)
MutApprove(w) ==
    /\ Alive
    /\ scanPc[w] = "poll"
    /\ approved' = approved \union {scanSheet[w]}
    /\ UNCHANGED <<defaults, content, state, scanPc, scanSheet, mints, trap,
                   history>>

(* The user approves in the World App. *)
Approve(w) ==
    /\ Alive
    /\ scanPc[w] = "poll"
    /\ approved' = approved \union {w}
    /\ UNCHANGED <<defaults, content, state, scanPc, scanSheet, mints, trap,
                   history>>

(* Mutants: the proof is not stored; the proof is kept for all sheets. *)
MutPollConfirmed(w) ==
    /\ w \in approved
    /\ ScanGoto(w, "poll", "complete")
    /\ UNCHANGED <<defaults, content, state, scanSheet, approved, mints, trap,
                   history>>

MutStoreProof(w) ==
    /\ ScanGoto(w, "storeProof", "complete")
    /\ proof' = [s \in Sheets |-> w]
    /\ UNCHANGED <<defaults, content, isStepOneCompleted, isLoadingMint,
                   scanSheet, approved, mints, trap, history>>

(* A poll that finds the session confirmed; any other poll is a stutter.   *)
PollConfirmed(w) ==
    /\ w \in approved
    /\ ScanGoto(w, "poll", "storeProof")
    /\ UNCHANGED <<defaults, content, state, scanSheet, approved, mints, trap,
                   history>>

(* overtaken: a mint of this sheet that has read a part of another proof.  *)
StoreProof(w) ==
    /\ ScanGoto(w, "storeProof", "complete")
    /\ proof' = [proof EXCEPT ![scanSheet[w]] = w]
    /\ overtaken' = overtaken \union
         {m \in Mints : /\ mintSheet[m] = scanSheet[w]
                        /\ mintPc[m] \in {"nullifier_hash", "proof"}
                        /\ proof[scanSheet[w]] # w}
    /\ UNCHANGED <<defaults, content, isStepOneCompleted, isLoadingMint,
                   scanSheet, approved, mints, trap, granted, missed>>

(* The break ends the switch: the loop polls again. *)
CompleteStepOne(w) ==
    /\ ScanGoto(w, "complete", "poll")
    /\ isStepOneCompleted' = [isStepOneCompleted EXCEPT ![scanSheet[w]] = TRUE]
    /\ UNCHANGED <<defaults, content, isLoadingMint, proof, scanSheet,
                   approved, mints, trap, history>>

-----------------------------------------------------------------------------
(* Step 2: the mint. *)
initiatePassMint(m) ==
    /\ Settled
    /\ sheet # Nil
    /\ isStepOneCompleted[sheet]
    /\ MintGoto(m, "idle", "queued")
    /\ mintSheet' = [mintSheet EXCEPT ![m] = sheet]
    /\ isLoadingMint' = [isLoadingMint EXCEPT ![sheet] = TRUE]
    /\ UNCHANGED <<defaults, content, isStepOneCompleted, proof, scans, params,
                   trap, history>>

(* Mutant: the task returns to the queue while a mint is loading. *)
MutBeginMint(m) ==
    /\ FreeThread
    /\ MintGoto(m, "queued", "walletAddress")
    /\ ~isLoadingMint[mintSheet[m]]
    /\ UNCHANGED <<defaults, content, state, scans, mintSheet, params, trap,
                   history>>

BeginMint(m) ==
    /\ FreeThread
    /\ MintGoto(m, "queued", "walletAddress")
    /\ UNCHANGED <<defaults, content, state, scans, mintSheet, params, trap,
                   history>>

(* walletAddress!, the first argument of the request. *)
ReadWalletAddress(m) ==
    /\ MintGoto(m, "walletAddress", "merkle_root")
    /\ trap' = IF HasAddress THEN "none" ELSE "walletAddress!"
    /\ UNCHANGED <<defaults, content, state, scans, mintSheet, params,
                   history>>

(* hexStringToDecimalString(...)!, around the first two reads of the proof, *)
(* traps on a text that is no hexadecimal number.                           *)
Converted(arg) == IF arg = "proof" THEN {"none"} ELSE {"none", "hex!"}

(* One of the three reads of proof!, each a read of its own: nil traps.    *)
ReadProof(m, arg, next) ==
    /\ MintGoto(m, arg, next)
    /\ params' = [params EXCEPT ![m][arg] = proof[mintSheet[m]]]
    /\ trap' \in IF proof[mintSheet[m]] = Nil THEN {"proof!"} ELSE Converted(arg)
    /\ UNCHANGED <<defaults, content, state, scans, mintSheet, history>>

ReadMerkleRoot(m) == ReadProof(m, "merkle_root", "nullifier_hash")
ReadNullifierHash(m) == ReadProof(m, "nullifier_hash", "proof")
ReadProofString(m) == ReadProof(m, "proof", "walletID")

(* walletID!, then the request of createContractExecutionChallenge is sent. *)
SendRequest(m) ==
    /\ MintGoto(m, "walletID", "request")
    /\ trap' = IF HasWalletID THEN "none" ELSE "walletID!"
    /\ UNCHANGED <<defaults, content, state, scans, mintSheet, params,
                   history>>

(* The answer holds a challenge id: the main thread hands it to the SDK.   *)
(* A signed-in device has a token and a key                                *)
(* (SignIn!SignedInHasCredentials), so the other two guards pass.          *)
executeChallenge(m) ==
    /\ FreeThread
    /\ MintGoto(m, "request", "sdk")
    /\ UNCHANGED <<defaults, content, state, scans, mintSheet, params, trap,
                   history>>

(* No challenge id: the guard returns, isLoadingMint stays. *)
MintReturns(m) ==
    /\ FreeThread
    /\ MintGoto(m, "request", "returned")
    /\ UNCHANGED <<defaults, content, state, scans, mintSheet, params, trap,
                   history>>

(* The last lines of the SDK's callback.  A dismissed presentation has     *)
(* nothing left to dismiss; whether its presentationMode still reaches a   *)
(* later sheet of the same list is up to SwiftUI.                          *)
FinishMint(m) ==
    /\ isLoadingMint' = [isLoadingMint EXCEPT ![mintSheet[m]] = FALSE]
    /\ sheet' \in IF sheet = mintSheet[m] THEN {Nil} ELSE {sheet, Nil}
    /\ missed' = (missed \/ Unnoticed)
    /\ UNCHANGED <<stored, purchasedPass, seen, opened, isStepOneCompleted,
                   proof, scans, mintSheet, params, trap, granted, overtaken>>

(* The status in the result is read and not used: the SDK's success        *)
(* records the pass whatever became of the challenge.                      *)
MintSuccess(m) ==
    /\ MintGoto(m, "sdk", "done")
    /\ purchased_pass' = TRUE
    /\ FinishMint(m)

(* Mutant: the pass is recorded after the switch over the result. *)
MutMintFailure(m) ==
    /\ MintGoto(m, "sdk", "failed")
    /\ purchased_pass' = TRUE
    /\ FinishMint(m)

MintFailure(m) ==
    /\ MintGoto(m, "sdk", "failed")
    /\ purchased_pass' = purchased_pass
    /\ FinishMint(m)

-----------------------------------------------------------------------------
(* An address that was shown and not yet stored is gone. *)
SignInForgets == stored' = IF stored = "shown" THEN "nothing" ELSE stored

(* Mutant: the default of purchased_pass is written over the stored value. *)
MutRelaunch ==
    /\ purchased_pass' = FALSE
    /\ purchasedPass' = FALSE
    /\ sheet' = Nil
    /\ seen' = FALSE
    /\ scanPc' = [w \in Scans |-> IF scanPc[w] = "idle" THEN "idle" ELSE "dead"]
    /\ mintPc' = [m \in Mints |-> IF InFlight(m) THEN "dead" ELSE mintPc[m]]
    /\ trap' = "none"
    /\ missed' = FALSE
    /\ SignInForgets
    /\ isStepOneCompleted' = FreshFlags /\ isLoadingMint' = FreshFlags
    /\ proof' = NoProof
    /\ UNCHANGED <<opened, scanSheet, approved, mintSheet, params, granted,
                   overtaken>>

(* The process ends, at any point, and is started again. *)
Relaunch ==
    /\ purchasedPass' = purchased_pass
    /\ sheet' = Nil
    /\ seen' = FALSE
    /\ scanPc' = [w \in Scans |-> IF scanPc[w] = "idle" THEN "idle" ELSE "dead"]
    /\ mintPc' = [m \in Mints |-> IF InFlight(m) THEN "dead" ELSE mintPc[m]]
    /\ trap' = "none"
    /\ missed' = FALSE
    /\ SignInForgets
    /\ isStepOneCompleted' = FreshFlags /\ isLoadingMint' = FreshFlags
    /\ proof' = NoProof
    /\ UNCHANGED <<purchased_pass, opened, scanSheet, approved, mintSheet,
                   params, granted, overtaken>>

ScanStep(w) ==
    initiateWorldCoin(w) \/ PollConfirmed(w) \/ StoreProof(w) \/ CompleteStepOne(w)

MintStep(m) ==
    \/ BeginMint(m) \/ ReadWalletAddress(m)
    \/ ReadMerkleRoot(m) \/ ReadNullifierHash(m) \/ ReadProofString(m)
    \/ SendRequest(m) \/ executeChallenge(m) \/ MintReturns(m)

Next ==
    \/ SignInStores \/ DepositGrants
    \/ \E s \in Sheets : OpenSheet(s)
    \/ CloseSheet
    \/ OnChange
    \/ \E w \in Scans : TapWorldCoin(w) \/ Panic(w) \/ Approve(w) \/ ScanStep(w)
    \/ \E m \in Mints :
          \/ initiatePassMint(m)
          \/ MintStep(m)
          \/ MintSuccess(m) \/ MintFailure(m)
    \/ Relaunch

Spec == Init /\ [][Next]_vars

(* The main thread renders, and tasks with a thread to run on run.  Nothing *)
(* is assumed of the user, of the World App or of the SDK.                  *)
Fairness ==
    /\ WF_vars(OnChange)
    /\ \A w \in Scans : WF_vars(ScanStep(w))
    /\ \A m \in Mints : WF_vars(MintStep(m))

FairSpec == Spec /\ Fairness

-----------------------------------------------------------------------------
(***************************************************************************)
(* Properties                                                              *)
(***************************************************************************)

(* The purchase button of step 2 never meets a nil proof: a sheet whose    *)
(* first step is completed holds the proof of a scan approved for it, also *)
(* while several scans write the sheet's state, and no mint ever traps on  *)
(* proof!.                                                                 *)
StepOneHasProof ==
    /\ trap # "proof!"
    /\ \A s \in Sheets :
          isStepOneCompleted[s] =>
            /\ proof[s] \in approved
            /\ scanSheet[proof[s]] = s

(* Unless a deposit recorded it, a pass is recorded only for a mint whose  *)
(* three proof arguments are proofs approved for the sheet it was bought   *)
(* in, and which the SDK reported a success for.                           *)
Earned(m) ==
    /\ mintPc[m] = "done"
    /\ \A p \in Arguments :
          /\ params[m][p] \in approved
          /\ scanSheet[params[m][p]] = mintSheet[m]
PassIsEarned == purchased_pass => granted \/ \E m \in Mints : Earned(m)

(* A mint sends the root, the nullifier and the proof of one and the same  *)
(* scan, unless another scan of its sheet replaced the proof between the   *)
(* reads of PremiumPassView.swift:160-162.                                 *)
MintUsesOneProof ==
    \A m \in Mints \ overtaken :
        mintPc[m] \in Awaiting =>
            \A p, q \in Arguments : params[m][p] = params[m][q]

(* With no sheet up, the list shows the owner's section exactly when a     *)
(* pass is recorded, unless a callback recorded it, or took a sheet away   *)
(* again, while the list knew of none (Unnoticed): ContentView.swift:64-66 *)
(* copies the flag when the presentation changes and at no other time.     *)
OwnerSectionShown ==
    Settled /\ sheet = Nil /\ ~missed => purchasedPass = purchased_pass

(* A recorded pass is never revoked, and the list never shows one that is  *)
(* not recorded.                                                           *)
PassIsKept ==
    [][/\ purchased_pass => purchased_pass'
       /\ purchasedPass' => purchased_pass]_vars

(* While the pool is wider than the number of scans, a tapped purchase     *)
(* gets to the SDK or returns, or the process ends: the scans that never   *)
(* stop polling do not starve it.                                          *)
MintProceeds ==
    \A m \in Mints :
        mintPc[m] = "queued" ~>
            mintPc[m] \in {"sdk", "returned", "dead"} \/ trap # "none"

(* PremiumPassView.swift:142: the break after a confirmed poll is there to *)
(* end the polling of that scan.                                           *)
PollingStops ==
    \A w \in Scans :
        scanPc[w] = "complete" ~> scanPc[w] \notin Scanning \/ trap # "none"
=============================================================================
