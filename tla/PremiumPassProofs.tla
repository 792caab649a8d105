------------------------- MODULE PremiumPassProofs -------------------------
(***************************************************************************)
(* Proofs about PremiumPass for any number of sheets, scans and mints and  *)
(* any pool of threads.                                                    *)
(*                                                                         *)
(* FlowInv is the inductive invariant of the flows.  It follows a proof on *)
(* its way: a scan that stores a proof was approved, the proof of a sheet  *)
(* is one of a scan of that sheet, a mint starts from a sheet with a proof *)
(* and keeps what it reads.  PassInv adds the pass recorded at the end,    *)
(* ReadInv what a mint that no scan overtook has read so far.              *)
(***************************************************************************)
EXTENDS PremiumPass, TLAPS

(* Argument p of mint m is a proof approved for the sheet of the mint. *)
Approved(m, p) ==
    /\ params[m][p] \in approved
    /\ scanSheet[params[m][p]] = mintSheet[m]

(* Points of a mint after which an argument has been read. *)
RootRead == {"nullifier_hash", "proof", "walletID"} \union Awaiting
NullifierRead == {"proof", "walletID"} \union Awaiting
ProofRead == {"walletID"} \union Awaiting

ScanInv(w) ==
    /\ w \in approved => scanPc[w] # "idle"
    /\ scanPc[w] \in {"queued"} \union Scanning => scanSheet[w] \in Sheets
    /\ scanPc[w] \in {"storeProof", "complete"} => w \in approved
    /\ scanPc[w] = "complete" => proof[scanSheet[w]] # Nil

SheetInv(s) ==
    /\ proof[s] # Nil => proof[s] \in approved /\ scanSheet[proof[s]] = s
    /\ isStepOneCompleted[s] => proof[s] # Nil

MintInv(m) ==
    /\ InFlight(m) => mintSheet[m] \in Sheets /\ isStepOneCompleted[mintSheet[m]]
    /\ mintPc[m] \in RootRead => Approved(m, "merkle_root")
    /\ mintPc[m] \in NullifierRead => Approved(m, "nullifier_hash")
    /\ mintPc[m] \in ProofRead => Approved(m, "proof")
    /\ mintPc[m] = "done" => \A p \in Arguments : Approved(m, p)

FlowInv ==
    /\ TypeOK
    /\ trap # "proof!"
    /\ \A w \in Scans : ScanInv(w)
    /\ \A s \in Sheets : SheetInv(s)
    /\ \A m \in Mints : MintInv(m)

(* What the flows come to, unless the pass is recorded elsewhere, too. *)
PassInv ==
    /\ FlowInv
    /\ PassIsEarned
    /\ purchasedPass => purchased_pass

USE PoolAssumption, NoneAssumption

(* The steps by what they move: the scans with the sheets' state, or one    *)
(* mint, or neither.                                                        *)
ScanMoves(w) == TapWorldCoin(w) \/ Approve(w) \/ ScanStep(w)
MintMoves(m) ==
    initiatePassMint(m) \/ MintStep(m) \/ MintSuccess(m) \/ MintFailure(m)
OtherMoves ==
    \/ SignInStores \/ DepositGrants \/ CloseSheet \/ OnChange
    \/ \E s \in Sheets : OpenSheet(s)
    \/ \E w \in Scans : Panic(w)
    \/ UNCHANGED vars

(* Every step is one of them, or a relaunch.                                *)
LEMMA Moves ==
    ASSUME [Next]_vars
    PROVE  \/ \E w \in Scans : ScanMoves(w)
           \/ \E m \in Mints : MintMoves(m)
           \/ OtherMoves
           \/ Relaunch
  BY DEF Next, ScanMoves, MintMoves, OtherMoves

(* A read of the proof keeps the types, provided the mint has a sheet.      *)
LEMMA ReadProofType ==
    ASSUME TypeOK, NEW m \in Mints, NEW arg \in Arguments,
           mintSheet[m] \in Sheets,
           params' = [params EXCEPT ![m][arg] = proof[mintSheet[m]]]
    PROVE  params' \in [Mints -> [Arguments -> Scans \union {Nil}]]
  <1>1. proof[mintSheet[m]] \in Scans \union {Nil} BY DEF TypeOK
  <1>2. [params[m] EXCEPT ![arg] = proof[mintSheet[m]]]
           \in [Arguments -> Scans \union {Nil}]
    BY <1>1 DEF TypeOK
  <1>3. params' = [params EXCEPT ![m] =
                      [params[m] EXCEPT ![arg] = proof[mintSheet[m]]]]
    BY DEF TypeOK
  <1> QED BY <1>2, <1>3 DEF TypeOK

(* Every step keeps the types.                                              *)
LEMMA TypeStep ==
    ASSUME FlowInv, [Next]_vars
    PROVE  TypeOK'
  <1>0. TypeOK BY DEF FlowInv
  <1> USE DEF SignInStages, Scanning, Building, Awaiting, MintGoto, ScanGoto,
          defaults, content, state, scans, mints, history
  <1>1. ASSUME NEW w \in Scans, ScanMoves(w) PROVE TypeOK'
    <2>1. CASE TapWorldCoin(w) BY <1>0, <2>1 DEF TapWorldCoin, TypeOK
    <2>2. CASE Approve(w) BY <1>0, <2>2 DEF Approve, TypeOK
    <2>3. CASE initiateWorldCoin(w) BY <1>0, <2>3 DEF initiateWorldCoin, TypeOK
    <2>4. CASE PollConfirmed(w) BY <1>0, <2>4 DEF PollConfirmed, TypeOK
    <2>5. CASE StoreProof(w) BY <1>0, <2>5 DEF StoreProof, TypeOK
    <2>6. CASE CompleteStepOne(w) BY <1>0, <2>6 DEF CompleteStepOne, TypeOK
    <2> QED BY <1>1, <2>1, <2>2, <2>3, <2>4, <2>5, <2>6 DEF ScanMoves, ScanStep
  <1>2. ASSUME NEW m \in Mints, MintMoves(m) PROVE TypeOK'
    <2>1. CASE initiatePassMint(m) BY <1>0, <2>1 DEF initiatePassMint, TypeOK
    <2>2. CASE BeginMint(m) BY <1>0, <2>2 DEF BeginMint, TypeOK
    <2>3. CASE ReadWalletAddress(m) BY <1>0, <2>3 DEF ReadWalletAddress, TypeOK
    <2>4. ASSUME NEW arg \in Arguments, NEW next \in Building, ReadProof(m, arg, next)
          PROVE  TypeOK'
      <3>1. mintSheet[m] \in Sheets
        BY <2>4 DEF ReadProof, FlowInv, MintInv, InFlight, Arguments
      <3>2. params' \in [Mints -> [Arguments -> Scans \union {Nil}]]
        BY <1>0, <2>4, <3>1, ReadProofType DEF ReadProof
      <3> QED BY <1>0, <2>4, <3>2 DEF ReadProof, Converted, TypeOK
    <2>5. CASE SendRequest(m) BY <1>0, <2>5 DEF SendRequest, TypeOK
    <2>6. CASE executeChallenge(m) BY <1>0, <2>6 DEF executeChallenge, TypeOK
    <2>7. CASE MintReturns(m) BY <1>0, <2>7 DEF MintReturns, TypeOK
    <2>8. CASE MintSuccess(m) BY <1>0, <2>8 DEF MintSuccess, FinishMint, TypeOK
    <2>9. CASE MintFailure(m) BY <1>0, <2>9 DEF MintFailure, FinishMint, TypeOK
    <2> QED BY <1>2, <2>1, <2>2, <2>3, <2>4, <2>5, <2>6, <2>7, <2>8, <2>9
            DEF MintMoves, MintStep, ReadMerkleRoot, ReadNullifierHash,
                ReadProofString, Arguments
  <1>3. CASE OtherMoves
    <2>1. CASE SignInStores BY <1>0, <2>1 DEF SignInStores, TypeOK
    <2>2. CASE CloseSheet BY <1>0, <2>2 DEF CloseSheet, TypeOK
    <2>3. CASE OnChange BY <1>0, <2>3 DEF OnChange, TypeOK
    <2>4. ASSUME NEW s \in Sheets, OpenSheet(s) PROVE TypeOK'
      BY <1>0, <2>4 DEF OpenSheet, TypeOK
    <2>5. ASSUME NEW w \in Scans, Panic(w) PROVE TypeOK'
      BY <1>0, <2>5 DEF Panic, TypeOK
    <2>6. CASE UNCHANGED vars BY <1>0, <2>6 DEF vars, TypeOK
    <2>7. CASE DepositGrants BY <1>0, <2>7 DEF DepositGrants, TypeOK
    <2> QED BY <1>3, <2>1, <2>2, <2>3, <2>4, <2>5, <2>6, <2>7 DEF OtherMoves
  <1>4. CASE Relaunch
    BY <1>0, <1>4 DEF Relaunch, SignInForgets, FreshFlags, NoProof,
       InFlight, TypeOK
  <1> QED BY <1>1, <1>2, <1>3, <1>4, Moves

(* What the scans have done is not undone: an approval stays, with its      *)
(* sheet, and a completed first step stays until the process ends.          *)
Stable ==
    /\ approved \subseteq approved'
    /\ \A w \in approved : scanSheet'[w] = scanSheet[w]
StepsStay == \A s \in Sheets : isStepOneCompleted[s] => isStepOneCompleted'[s]

ScanFacts == (\A w \in Scans : ScanInv(w)) /\ (\A s \in Sheets : SheetInv(s))

(* Every step keeps the facts of scans and sheets, and is stable.           *)
LEMMA ScanFactsStep ==
    ASSUME FlowInv, [Next]_vars
    PROVE  ScanFacts' /\ Stable
  <1>0. TypeOK /\ ScanFacts BY DEF FlowInv, ScanFacts
  <1> USE DEF MintGoto, ScanGoto, defaults, content, state, scans, mints, history
  <1>1. ASSUME NEW w \in Scans, ScanMoves(w) PROVE ScanFacts' /\ Stable
    <2> USE DEF ScanFacts, ScanInv, SheetInv, Stable, TypeOK, Scanning
    <2>1. CASE TapWorldCoin(w) BY <1>0, <2>1 DEF TapWorldCoin
    <2>2. CASE Approve(w) BY <1>0, <2>2 DEF Approve
    <2>3. CASE initiateWorldCoin(w) BY <1>0, <2>3 DEF initiateWorldCoin
    <2>4. CASE PollConfirmed(w) BY <1>0, <2>4 DEF PollConfirmed
    <2>5. CASE StoreProof(w) BY <1>0, <2>5 DEF StoreProof
    <2>6. CASE CompleteStepOne(w) BY <1>0, <2>6 DEF CompleteStepOne
    <2> QED BY <1>1, <2>1, <2>2, <2>3, <2>4, <2>5, <2>6 DEF ScanMoves, ScanStep
  <1>2. ASSUME UNCHANGED <<scans, proof, isStepOneCompleted>>
        PROVE  ScanFacts' /\ Stable
    BY <1>0, <1>2 DEF ScanFacts, ScanInv, SheetInv, Stable
  <1>3. ASSUME NEW m \in Mints, MintMoves(m) PROVE ScanFacts' /\ Stable
    BY <1>2, <1>3 DEF MintMoves, MintStep, initiatePassMint, BeginMint,
       ReadWalletAddress, ReadMerkleRoot, ReadNullifierHash, ReadProofString,
       ReadProof, SendRequest, executeChallenge, MintReturns,
       MintSuccess, MintFailure, FinishMint
  <1>4. CASE OtherMoves
    BY <1>2, <1>4 DEF OtherMoves, SignInStores, DepositGrants, CloseSheet,
       OnChange, OpenSheet, Panic, vars
  <1>5. CASE Relaunch
    BY <1>0, <1>5 DEF Relaunch, FreshFlags, NoProof, ScanFacts, ScanInv, SheetInv,
       Stable, Scanning
  <1> QED BY <1>1, <1>3, <1>4, <1>5, Moves

(* Nothing but the end of the process takes a completed step back.          *)
LEMMA StepOneStays ==
    ASSUME TypeOK, \/ \E w \in Scans : ScanMoves(w)
                   \/ \E m \in Mints : MintMoves(m)
                   \/ OtherMoves
    PROVE  StepsStay
  <1> USE DEF state, StepsStay, TypeOK
  <1>1. ASSUME NEW w \in Scans, ScanMoves(w) PROVE StepsStay
    BY <1>1 DEF ScanMoves, ScanStep, TapWorldCoin, Approve,
       initiateWorldCoin, PollConfirmed, StoreProof, CompleteStepOne
  <1>2. ASSUME NEW m \in Mints, MintMoves(m) PROVE StepsStay
    BY <1>2 DEF MintMoves, MintStep, initiatePassMint, BeginMint,
       ReadWalletAddress, ReadMerkleRoot, ReadNullifierHash, ReadProofString,
       ReadProof, SendRequest, executeChallenge, MintReturns, MintSuccess,
       MintFailure, FinishMint
  <1>3. CASE OtherMoves
    BY <1>3 DEF OtherMoves, SignInStores, DepositGrants, CloseSheet, OnChange,
       OpenSheet, Panic, vars
  <1> QED BY <1>1, <1>2, <1>3

(* What a mint has read stays approved, whatever the scans go on to do.       *)
LEMMA ApprovedStays ==
    ASSUME Stable, NEW m, NEW p, Approved(m, p),
           params'[m][p] = params[m][p], mintSheet'[m] = mintSheet[m]
    PROVE  Approved(m, p)'
  BY DEF Stable, Approved

(* A mint that does not move keeps its facts.                               *)
LEMMA RestingMint ==
    ASSUME Stable, NEW m \in Mints, MintInv(m),
           mintPc'[m] = mintPc[m], mintSheet'[m] = mintSheet[m],
           params'[m] = params[m], InFlight(m) => StepsStay
    PROVE  MintInv(m)'
  BY ApprovedStays DEF MintInv, InFlight, StepsStay

(* The proof in a sheet whose first step is completed is earned by a mint   *)
(* of that sheet.                                                           *)
LEMMA SheetProof ==
    ASSUME FlowInv, NEW m \in Mints, InFlight(m)
    PROVE  /\ mintSheet[m] \in Sheets
           /\ proof[mintSheet[m]] # Nil
           /\ proof[mintSheet[m]] \in approved
           /\ scanSheet[proof[mintSheet[m]]] = mintSheet[m]
  BY DEF FlowInv, MintInv, SheetInv

(* Every step keeps the facts of the mints, and no mint traps on its proof. *)
LEMMA MintFactsStep ==
    ASSUME FlowInv, [Next]_vars
    PROVE  (\A m \in Mints : MintInv(m)') /\ trap' # "proof!"
  <1>0. TypeOK /\ trap # "proof!" /\ \A m \in Mints : MintInv(m) BY DEF FlowInv
  <1>1. Stable BY ScanFactsStep
  <1> DEFINE Goal == (\A m \in Mints : MintInv(m)') /\ trap' # "proof!"
  <1> USE DEF MintGoto, ScanGoto, defaults, content, state, scans, mints, history
  <1>2. ASSUME UNCHANGED mints, StepsStay, trap' # "proof!" PROVE Goal
    BY <1>0, <1>1, <1>2, RestingMint
  <1>3. ASSUME NEW w \in Scans, ScanMoves(w) PROVE Goal
    <2>1. StepsStay BY <1>0, <1>3, StepOneStays
    <2> QED BY <1>0, <1>2, <1>3, <2>1 DEF ScanMoves, ScanStep, TapWorldCoin,
            Approve, initiateWorldCoin, PollConfirmed, StoreProof,
            CompleteStepOne
  <1>4. CASE OtherMoves
    <2>1. StepsStay BY <1>0, <1>4, StepOneStays
    <2> QED BY <1>0, <1>2, <1>4, <2>1 DEF OtherMoves, SignInStores,
            DepositGrants, CloseSheet, OnChange, OpenSheet, Panic, vars
  <1>5. CASE Relaunch
    <2>1. /\ trap' = "none" /\ UNCHANGED <<mintSheet, params>>
          /\ mintPc' = [m \in Mints |-> IF InFlight(m) THEN "dead" ELSE mintPc[m]]
      BY <1>5 DEF Relaunch
    <2>2. ASSUME NEW m \in Mints PROVE MintInv(m)'
      <3>1. CASE ~InFlight(m)
        BY <1>0, <1>1, <2>1, <3>1, RestingMint
      <3>2. CASE InFlight(m)
        <4>1. mintPc'[m] = "dead" BY <2>1, <3>2
        <4> QED BY <2>1, <4>1 DEF MintInv, InFlight, RootRead,
                NullifierRead, ProofRead, Building, Awaiting
      <3> QED BY <3>1, <3>2
    <2> QED BY <2>1, <2>2
  <1>6. ASSUME NEW m \in Mints, MintMoves(m) PROVE Goal
    <2>0. StepsStay BY <1>0, <1>6, StepOneStays
    <2>1. ASSUME NEW n \in Mints \ {m} PROVE MintInv(n)'
      <3>1. /\ mintPc'[n] = mintPc[n] /\ mintSheet'[n] = mintSheet[n]
            /\ params'[n] = params[n] 
        BY <1>0, <1>6 DEF MintMoves, MintStep, initiatePassMint, BeginMint,
           ReadWalletAddress, ReadMerkleRoot, ReadNullifierHash,
           ReadProofString, ReadProof, SendRequest, executeChallenge,
           MintReturns, MintSuccess, FinishMint, MintFailure,
           TypeOK
      <3> QED BY <1>0, <1>1, <2>0, <3>1, RestingMint
    <2>2. MintInv(m)' /\ trap' # "proof!"
      <3> USE DEF MintInv, InFlight, RootRead, NullifierRead, ProofRead,
              Building, Awaiting, Arguments
      <3>1. CASE initiatePassMint(m)
        BY <1>0, <1>1, <3>1 DEF initiatePassMint, TypeOK
      <3>2. ASSUME NEW from, NEW to, MintGoto(m, from, to), from # "idle",
                   UNCHANGED <<mintSheet, params>>, trap' # "proof!",
                   isStepOneCompleted' = isStepOneCompleted,
                   \/ <<from, to>> \in {<<"queued", "walletAddress">>,
                          <<"walletAddress", "merkle_root">>,
                          <<"walletID", "request">>, <<"request", "sdk">>}
                   \/ to \in {"returned", "failed"}
                   \/ <<from, to>> = <<"sdk", "done">>
            PROVE  MintInv(m)' /\ trap' # "proof!"
        <4>1. mintPc'[m] = to /\ mintPc[m] = from BY <1>0, <3>2 DEF TypeOK
        <4>2. \A p \in Arguments : Approved(m, p) => Approved(m, p)'
          BY <1>1, <3>2, ApprovedStays
        <4> QED BY <1>0, <3>2, <4>1, <4>2
      <3>3. CASE BeginMint(m)
        BY <1>0, <3>2, <3>3 DEF BeginMint
      <3>4. CASE ReadWalletAddress(m)
        BY <1>0, <3>2, <3>4 DEF ReadWalletAddress
      <3>5. CASE SendRequest(m) BY <1>0, <3>2, <3>5 DEF SendRequest
      <3>6. CASE executeChallenge(m) BY <1>0, <3>2, <3>6 DEF executeChallenge
      <3>7. CASE MintReturns(m) BY <1>0, <3>2, <3>7 DEF MintReturns
      <3>8. CASE MintSuccess(m) BY <1>0, <3>2, <3>8 DEF MintSuccess, FinishMint
      <3>9. CASE MintFailure(m) BY <1>0, <3>2, <3>9 DEF MintFailure, FinishMint
      <3>10. ASSUME NEW arg \in Arguments, NEW next, ReadProof(m, arg, next),
                    <<arg, next>> \in {<<"merkle_root", "nullifier_hash">>,
                        <<"nullifier_hash", "proof">>, <<"proof", "walletID">>}
             PROVE  MintInv(m)' /\ trap' # "proof!"
        <4>1. /\ mintPc[m] = arg /\ mintPc'[m] = next
              /\ UNCHANGED <<mintSheet, isStepOneCompleted, scans>>
              /\ params'[m] = [params[m] EXCEPT ![arg] = proof[mintSheet[m]]]
              /\ proof[mintSheet[m]] # Nil => trap' \in {"none", "hex!"}
          BY <1>0, <3>10 DEF ReadProof, Converted, TypeOK
        <4>2. /\ mintSheet[m] \in Sheets
              /\ proof[mintSheet[m]] # Nil
              /\ proof[mintSheet[m]] \in approved
              /\ scanSheet[proof[mintSheet[m]]] = mintSheet[m]
          BY <4>1, SheetProof
        <4>3. params'[m][arg] = proof[mintSheet[m]]
          BY <1>0, <4>1 DEF TypeOK
        <4>4. Approved(m, arg)' BY <4>1, <4>2, <4>3 DEF Approved
        <4>5. \A p \in Arguments \ {arg} : Approved(m, p) => Approved(m, p)'
          BY <1>0, <1>1, <4>1, ApprovedStays DEF TypeOK
        <4> QED BY <1>0, <3>10, <4>1, <4>2, <4>4, <4>5
      <3> QED BY <1>6, <3>1, <3>3, <3>4, <3>5, <3>6, <3>7, <3>8, <3>9, <3>10
              DEF MintMoves, MintStep, ReadMerkleRoot,
                 ReadNullifierHash, ReadProofString
    <2> QED BY <2>1, <2>2
  <1> QED BY <1>3, <1>4, <1>5, <1>6, Moves

(* What the mints have done is not undone either: a mint that is done stays *)
(* done, with its arguments and its sheet.                                  *)
LEMMA DoneStays ==
    ASSUME PassInv, [Next]_vars, NEW m \in Mints, mintPc[m] = "done"
    PROVE  mintPc'[m] = "done" /\ params'[m] = params[m] /\ mintSheet'[m] = mintSheet[m]
  <1>0. TypeOK BY DEF PassInv, FlowInv
  <1> USE DEF MintGoto, ScanGoto, defaults, content, state, scans, mints
  <1>1. ASSUME NEW n \in Mints, MintMoves(n)
        PROVE  /\ mintPc'[m] = "done" /\ params'[m] = params[m]
               /\ mintSheet'[m] = mintSheet[m]
    BY <1>0, <1>1 DEF MintMoves, MintStep, initiatePassMint, BeginMint,
       ReadWalletAddress, ReadMerkleRoot, ReadNullifierHash, ReadProofString,
       ReadProof, SendRequest, executeChallenge, MintReturns, MintSuccess,
       MintFailure, FinishMint, TypeOK
  <1>2. ASSUME NEW w \in Scans, ScanMoves(w) PROVE UNCHANGED mints
    BY <1>2 DEF ScanMoves, ScanStep, TapWorldCoin, Approve,
       initiateWorldCoin, PollConfirmed, StoreProof, CompleteStepOne
  <1>3. CASE OtherMoves
    BY <1>3 DEF OtherMoves, SignInStores, DepositGrants, CloseSheet, OnChange,
       OpenSheet, Panic, vars
  <1>4. CASE Relaunch
    BY <1>4 DEF Relaunch, InFlight, Building, Awaiting
  <1> QED BY <1>1, <1>2, <1>3, <1>4, Moves

(* purchased_pass, ContentView's copy of it and the sheet move only so: a   *)
(* deposit or the SDK's success records a pass, and the copy is taken from  *)
(* the record whenever the list sees its sheet come or go.                  *)
LEMMA PassMoves ==
    ASSUME TypeOK, [Next]_vars
    PROVE  /\ \/ purchased_pass' = purchased_pass
              \/ purchased_pass' = TRUE /\ granted' = TRUE
              \/ \E m \in Mints : MintSuccess(m) /\ purchased_pass' = TRUE
           /\ granted => granted'
           /\ \/ UNCHANGED <<purchasedPass, seen>>
              \/ purchasedPass' = purchased_pass /\ purchased_pass' = purchased_pass
           /\ \/ purchasedPass' = purchased_pass'
              \/ UNCHANGED <<purchased_pass, purchasedPass, sheet, seen, missed>>
              \/ missed' \/ seen' \/ sheet' # Nil
  <1> USE DEF MintGoto, ScanGoto, defaults, content, state, scans, mints, history
  <1>1. ASSUME NEW m \in Mints, MintMoves(m)
        PROVE  /\ UNCHANGED <<purchasedPass, seen, granted>>
               /\ \/ purchased_pass' = purchased_pass
                  \/ MintSuccess(m) /\ purchased_pass' = TRUE
               /\ \/ UNCHANGED <<purchased_pass, sheet, missed>>
                  \/ missed' \/ seen' \/ sheet' # Nil
    <2>1. CASE MintSuccess(m) \/ MintFailure(m)
      <3>1. /\ UNCHANGED <<purchasedPass, seen, granted>>
            /\ \/ purchased_pass' = purchased_pass
               \/ MintSuccess(m) /\ purchased_pass' = TRUE
        BY <2>1 DEF MintSuccess, MintFailure, FinishMint
      <3>2. missed' = (missed \/ Unnoticed)
        BY <2>1 DEF MintSuccess, MintFailure, FinishMint
      <3>3. missed' \/ seen \/ sheet' # Nil
        BY <3>2, Zenon DEF Unnoticed
      <3>4. missed' \/ seen' \/ sheet' # Nil BY <3>1, <3>3
      <3> QED BY <3>1, <3>4
    <2>2. CASE initiatePassMint(m) \/ MintStep(m)
      BY <2>2 DEF MintStep, initiatePassMint, BeginMint,
         ReadWalletAddress, ReadMerkleRoot, ReadNullifierHash,
         ReadProofString, ReadProof, SendRequest, executeChallenge, MintReturns
    <2> QED BY <1>1, <2>1, <2>2 DEF MintMoves
  <1>2. ASSUME NEW w \in Scans, ScanMoves(w)
        PROVE  UNCHANGED <<defaults, content, granted, missed>>
    BY <1>2 DEF ScanMoves, ScanStep, TapWorldCoin, Approve,
       initiateWorldCoin, PollConfirmed, StoreProof, CompleteStepOne
  <1>3. CASE DepositGrants BY <1>3, Zenon DEF DepositGrants, Unnoticed
  <1>4. CASE OtherMoves /\ ~DepositGrants
    BY <1>4 DEF OtherMoves, SignInStores, CloseSheet, OnChange, OpenSheet,
       Settled, Panic, TypeOK, vars
  <1>5. CASE Relaunch BY <1>5 DEF Relaunch
  <1> QED BY <1>1, <1>2, <1>3, <1>4, <1>5, Moves

(* Every step keeps the pass earned, and the list's copy behind the record. *)
LEMMA PassFactsStep ==
    ASSUME PassInv, [Next]_vars
    PROVE  PassIsEarned' /\ (purchasedPass' => purchased_pass')
  <1>0. TypeOK /\ TypeOK' /\ Stable
    BY ScanFactsStep, TypeStep DEF PassInv, FlowInv
  <1>1. ASSUME NEW m \in Mints, Earned(m) PROVE Earned(m)'
    <2>1. mintPc'[m] = "done" /\ params'[m] = params[m] /\ mintSheet'[m] = mintSheet[m]
      BY <1>1, DoneStays DEF Earned
    <2>2. \A p \in Arguments : Approved(m, p) BY <1>1 DEF Earned, Approved
    <2>3. \A p \in Arguments : Approved(m, p)'
      BY <1>0, <2>1, <2>2, ApprovedStays
    <2> QED BY <2>1, <2>3 DEF Earned, Approved
  <1>2. ASSUME NEW m \in Mints, MintSuccess(m) PROVE Earned(m)'
    <2>1. mintPc'[m] = "done" BY <1>0, <1>2 DEF MintSuccess, MintGoto, TypeOK
    <2>2. MintInv(m)' BY MintFactsStep DEF PassInv
    <2> QED BY <2>1, <2>2 DEF MintInv, Earned, Approved
  <1>3. /\ \/ purchased_pass' = purchased_pass
           \/ purchased_pass' = TRUE /\ granted' = TRUE
           \/ \E m \in Mints : MintSuccess(m) /\ purchased_pass' = TRUE
        /\ granted => granted'
        /\ \/ UNCHANGED <<purchasedPass, seen>>
           \/ purchasedPass' = purchased_pass /\ purchased_pass' = purchased_pass
    BY <1>0, PassMoves
  <1>4. PassIsEarned'
    <2>1. CASE purchased_pass' = purchased_pass
      BY <1>1, <1>3, <2>1 DEF PassInv, PassIsEarned
    <2>2. CASE granted' = TRUE BY <2>2 DEF PassIsEarned
    <2>3. CASE \E m \in Mints : MintSuccess(m)
      BY <1>2, <2>3 DEF PassIsEarned
    <2> QED BY <1>3, <2>1, <2>2, <2>3
  <1>5. purchasedPass' => purchased_pass'
    <2>1. purchased_pass => purchased_pass' BY <1>0, <1>3 DEF TypeOK
    <2>2. purchasedPass' => purchasedPass \/ purchased_pass
      BY <1>0, <1>3 DEF TypeOK
    <2>3. purchasedPass => purchased_pass BY DEF PassInv
    <2> QED BY <2>1, <2>2, <2>3, Zenon
  <1> QED BY <1>4, <1>5

(* The flows start well.                                                    *)
LEMMA FlowInit ==
    ASSUME Init
    PROVE  FlowInv
  <1>1. TypeOK BY DEF Init, TypeOK, SignInStages, FreshFlags, NoProof
  <1>2. \A w \in Scans : ScanInv(w) BY DEF Init, ScanInv, Scanning
  <1>3. \A s \in Sheets : SheetInv(s) BY DEF Init, SheetInv, FreshFlags, NoProof
  <1>4. \A m \in Mints : MintInv(m)
    BY DEF Init, MintInv, InFlight, RootRead, NullifierRead, ProofRead,
           Building, Awaiting
  <1> QED BY <1>1, <1>2, <1>3, <1>4 DEF FlowInv, Init

(* Every step keeps the flows.                                              *)
LEMMA FlowStep ==
    ASSUME FlowInv, [Next]_vars
    PROVE  FlowInv'
  <1>1. ScanFacts' BY ScanFactsStep
  <1> QED BY <1>1, TypeStep, MintFactsStep DEF FlowInv, ScanFacts

(* The invariant of the sheet, whatever its user does.                      *)
THEOREM PassInvariant == Spec => []PassInv
  <1>1. Init => PassInv
    BY FlowInit DEF PassInv, Init, PassIsEarned
  <1>2. PassInv /\ [Next]_vars => PassInv'
    BY FlowStep, PassFactsStep DEF PassInv
  <1> QED BY <1>1, <1>2, PTL DEF Spec

(* The variables of the sheet keep their types.                             *)
THEOREM PassTypes == Spec => []TypeOK
  BY PassInvariant, PTL DEF PassInv, FlowInv

(* No mint unwraps a nil proof, and a completed first step has the proof of *)
(* a scan approved for its own sheet, whatever scans run beside it.         *)
THEOREM StepOneProof == Spec => []StepOneHasProof
  <1>1. FlowInv => StepOneHasProof
    BY DEF FlowInv, SheetInv, StepOneHasProof
  <1> QED BY <1>1, PassInvariant, PTL DEF PassInv

(* A pass that no deposit recorded comes of a mint with three approved      *)
(* proofs that the SDK reported a success for.                              *)
THEOREM PassEarned == Spec => []PassIsEarned
  BY PassInvariant, PTL DEF PassInv

(* No step revokes a recorded pass, a relaunch included, and the list       *)
(* never shows a pass that was not recorded before.                         *)
THEOREM PassKept == Spec => PassIsKept
  <1>1. PassInv /\ [Next]_vars
          => [/\ purchased_pass => purchased_pass'
              /\ purchasedPass' => purchased_pass]_vars
    BY PassMoves DEF PassInv, FlowInv
  <1> QED BY <1>1, PassInvariant, PTL DEF Spec, PassIsKept

(* With no sheet up, the list shows the owner's section exactly when a pass *)
(* is recorded, deposits included, unless the callback that recorded it, or *)
(* that took the sheet away, came while the list knew of no sheet.          *)
THEOREM OwnerSection == Spec => []OwnerSectionShown
  <1>1. Init => OwnerSectionShown BY DEF Init, OwnerSectionShown
  <1>2. TypeOK /\ TypeOK' /\ OwnerSectionShown /\ [Next]_vars
          => OwnerSectionShown'
    <2> SUFFICES ASSUME TypeOK, TypeOK', OwnerSectionShown, [Next]_vars
                 PROVE  OwnerSectionShown'
      OBVIOUS
    <2>1. \/ purchasedPass' = purchased_pass'
          \/ UNCHANGED <<purchased_pass, purchasedPass, sheet, seen, missed>>
          \/ missed' \/ seen' \/ sheet' # Nil
      BY PassMoves
    <2> QED BY <2>1 DEF OwnerSectionShown, Settled, TypeOK
  <1> QED BY <1>1, <1>2, PassTypes, PTL DEF Spec

-----------------------------------------------------------------------------
(* What a mint that no scan overtook has read so far is the proof of its    *)
(* sheet; once it has read all, later proofs do not matter to it.           *)
ReadInv(m) ==
    /\ mintPc[m] \in {"nullifier_hash", "proof"} =>
          params[m]["merkle_root"] = proof[mintSheet[m]]
    /\ mintPc[m] = "proof" =>
          params[m]["nullifier_hash"] = proof[mintSheet[m]]
    /\ mintPc[m] \in ProofRead =>
          /\ params[m]["merkle_root"] = params[m]["proof"]
          /\ params[m]["nullifier_hash"] = params[m]["proof"]

(* A step of a mint of its own: it reads the proof, or nothing.             *)
LEMMA OwnRead ==
    ASSUME FlowInv, NEW m \in Mints, ReadInv(m), MintMoves(m)
    PROVE  ReadInv(m)'
  <1>0. TypeOK BY DEF FlowInv
  <1> USE DEF MintGoto, state, ReadInv, ProofRead, Awaiting
  <1>1. CASE initiatePassMint(m) BY <1>0, <1>1 DEF initiatePassMint, TypeOK
  <1>2. CASE BeginMint(m) BY <1>0, <1>2 DEF BeginMint, TypeOK
  <1>3. CASE ReadWalletAddress(m) BY <1>0, <1>3 DEF ReadWalletAddress, TypeOK
  <1>4. CASE SendRequest(m) BY <1>0, <1>4 DEF SendRequest, TypeOK
  <1>5. CASE executeChallenge(m) BY <1>0, <1>5 DEF executeChallenge, TypeOK
  <1>6. CASE MintReturns(m) BY <1>0, <1>6 DEF MintReturns, TypeOK
  <1>7. CASE MintSuccess(m) \/ MintFailure(m)
    BY <1>0, <1>7 DEF MintSuccess, MintFailure, TypeOK
  <1>8. ASSUME NEW arg \in Arguments, NEW next, ReadProof(m, arg, next),
               <<arg, next>> \in {<<"merkle_root", "nullifier_hash">>,
                   <<"nullifier_hash", "proof">>, <<"proof", "walletID">>}
        PROVE  ReadInv(m)'
    <2>1. /\ mintPc[m] = arg /\ mintPc'[m] = next
          /\ UNCHANGED <<mintSheet, proof>>
          /\ params'[m] = [params[m] EXCEPT ![arg] = proof[mintSheet[m]]]
      BY <1>0, <1>8 DEF ReadProof, TypeOK
    <2>2. /\ params'[m][arg] = proof[mintSheet[m]]
          /\ \A p \in Arguments \ {arg} : params'[m][p] = params[m][p]
      BY <1>0, <2>1 DEF TypeOK
    <2> QED BY <1>8, <2>1, <2>2 DEF Arguments
  <1> QED BY <1>1, <1>2, <1>3, <1>4, <1>5, <1>6, <1>7, <1>8 DEF MintMoves,
          MintStep, ReadMerkleRoot, ReadNullifierHash, ReadProofString, Arguments

(* A step of another actor: a scan that stores a proof in between overtakes *)
(* the mint, unless it stores the same proof again.                         *)
LEMMA OverRead ==
    ASSUME FlowInv, NEW m \in Mints \ overtaken, ReadInv(m), [Next]_vars,
           ~MintMoves(m)
    PROVE  m \in overtaken' \/ ReadInv(m)'
  <1>0. TypeOK BY DEF FlowInv
  <1> USE DEF MintGoto, ScanGoto, defaults, content, state, scans, mints, history
  <1>1. ASSUME mintPc'[m] = mintPc[m], mintSheet'[m] = mintSheet[m],
               params'[m] = params[m], proof' = proof
        PROVE  ReadInv(m)'
    BY <1>1 DEF ReadInv
  <1>2. ASSUME NEW w \in Scans, ScanMoves(w), ~StoreProof(w)
        PROVE  ReadInv(m)'
    BY <1>1, <1>2 DEF ScanMoves, ScanStep, TapWorldCoin, Approve,
       initiateWorldCoin, PollConfirmed, CompleteStepOne
  <1>3. ASSUME NEW w \in Scans, StoreProof(w)
        PROVE  m \in overtaken' \/ ReadInv(m)'
    <2>1. /\ UNCHANGED <<mintPc, mintSheet, params>>
          /\ proof' = [proof EXCEPT ![scanSheet[w]] = w]
      BY <1>3 DEF StoreProof
    <2>2. \/ m \in overtaken'
          \/ mintSheet[m] # scanSheet[w]
          \/ mintPc[m] \notin {"nullifier_hash", "proof"}
          \/ proof[scanSheet[w]] = w
      BY <1>3 DEF StoreProof
    <2>3. mintPc[m] \in {"nullifier_hash", "proof"} => mintSheet[m] \in Sheets
      BY DEF FlowInv, MintInv, InFlight, Building
    <2> QED BY <1>0, <2>1, <2>2, <2>3 DEF ReadInv, ProofRead, Awaiting, TypeOK
  <1>4. ASSUME NEW n \in Mints \ {m}, MintMoves(n) PROVE ReadInv(m)'
    <2>1. /\ mintPc'[m] = mintPc[m] /\ mintSheet'[m] = mintSheet[m]
          /\ params'[m] = params[m] /\ proof' = proof
      BY <1>0, <1>4 DEF MintMoves, MintStep, initiatePassMint, BeginMint,
         ReadWalletAddress, ReadMerkleRoot, ReadNullifierHash,
         ReadProofString, ReadProof, SendRequest, executeChallenge,
         MintReturns, MintSuccess, FinishMint, MintFailure, TypeOK
    <2> QED BY <1>1, <2>1
  <1>5. CASE OtherMoves
    BY <1>1, <1>5 DEF OtherMoves, SignInStores, DepositGrants, CloseSheet,
       OnChange, OpenSheet, Panic, vars
  <1>6. CASE Relaunch
    <2>1. mintPc'[m] \notin Building \union Awaiting
      BY <1>6 DEF Relaunch, InFlight, Building, Awaiting
    <2> QED BY <2>1 DEF ReadInv, ProofRead, Building, Awaiting
  <1> QED BY <1>2, <1>3, <1>4, <1>5, <1>6, Moves

(* A mint that was overtaken stays so.                                      *)
LEMMA OvertakenStays ==
    ASSUME [Next]_vars
    PROVE  overtaken \subseteq overtaken'
  <1> USE DEF history
  <1>1. ASSUME NEW m \in Mints, MintMoves(m) PROVE overtaken' = overtaken
    BY <1>1 DEF MintMoves, MintStep, initiatePassMint, BeginMint,
       ReadWalletAddress, ReadMerkleRoot, ReadNullifierHash, ReadProofString,
       ReadProof, SendRequest, executeChallenge, MintReturns, MintSuccess,
       MintFailure, FinishMint
  <1>2. ASSUME NEW w \in Scans, ScanMoves(w) PROVE overtaken \subseteq overtaken'
    BY <1>2 DEF ScanMoves, ScanStep, TapWorldCoin, Approve,
       initiateWorldCoin, PollConfirmed, StoreProof, CompleteStepOne
  <1>3. CASE OtherMoves \/ Relaunch
    BY <1>3 DEF OtherMoves, SignInStores, DepositGrants, CloseSheet, OnChange,
       OpenSheet, Panic, Relaunch, vars
  <1> QED BY <1>1, <1>2, <1>3, Moves

(* A mint sends the arguments of a single proof, unless a scan of its sheet *)
(* overtook it, for any number of scans and mints of a sheet.               *)
THEOREM OneProof == Spec => []MintUsesOneProof
  <1> DEFINE Inv == \A m \in Mints \ overtaken : ReadInv(m)
  <1>1. Init => Inv BY DEF Init, ReadInv, ProofRead, Awaiting
  <1>2. FlowInv /\ Inv /\ [Next]_vars => Inv'
    <2> SUFFICES ASSUME FlowInv, Inv, [Next]_vars,
                        NEW m \in Mints \ overtaken'
                 PROVE  ReadInv(m)'
      OBVIOUS
    <2>1. m \in Mints \ overtaken BY OvertakenStays
    <2> QED BY <2>1, OwnRead, OverRead
  <1>3. Inv => MintUsesOneProof
    BY DEF MintUsesOneProof, ReadInv, ProofRead, Awaiting, Arguments
  <1> HIDE DEF Inv
  <1> QED BY <1>1, <1>2, <1>3, PassInvariant, PTL DEF Spec, PassInv
=============================================================================
