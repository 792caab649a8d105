# YieldMe: TLA+ models, checks and proofs

YieldMe is an iOS app (SwiftUI) with which a user signs in to a Circle wallet,
deposits USDC into yield protocols and buys a "Community Pass" after a World ID
scan. Its own code is `src/YieldMe/YieldMe/*.swift` and `src/src/lib.rs`;
everything under `src/YieldMe/Pods` is third-party. The repository has no docs
and only template tests, so the intentions the models are held against are the
texts the app shows, its comments and its force-unwraps.

## The system

| Part | State | Operations | Interacts with |
|---|---|---|---|
| `UserDefaultsManager` | uuid, address, wallet_id, user_token, encryption_key, purchased_pass; survives the process | getters and setters; the uuid getter generates on first use | read and written by every flow |
| Sign-in (`ContentView`, `CircleNetworking`) | isLoading, walletAddress, balance, toast | tap, request chain, SDK challenge, polling, balance refresh | Circle's REST service and SDK, UserDefaults |
| Community Pass (`PremiumPassView`, `lib.rs`) | per presentation: proof, isStepOneCompleted, isLoadingMint | scan, mint, close | World App bridge, Circle, UserDefaults, `ContentView.purchasedPass` |
| Deposits (`ProtocolDetailView`) | per visit: depositAmount, isProcessingDeposit, toast | edit, tap, challenge, callback | Circle, UserDefaults |
| Comments (`ProtocolDetailView`) | per visit: comments, newCommentText | fetch on appear, type, add | Firestore, UserDefaults (pass, address) |
| Votes (`ProtocolDetailView`) | two counters | vote | none |
| Protocol list (`ContentView`) | items | fetch on appear | Firestore |
| `Toast` | isShowing, pending timers | show, tap, time out | every view |
| Helpers | none | hexStringToDecimalString, truncateString, Color(hex:), the BigInt pod | views, requests |

Three things make the code hard to test. Every flow runs in a detached task
that writes UserDefaults and `@State` one statement at a time, while the main
thread, other taps and the death of the process come in between. No button
except "Deposit" is disabled while its task runs. And the tasks of a view go on
after the view is gone.

## Modules

- **`SignIn`** — one *attempt* per tap. An attempt names the UUID it may
  generate, its Circle session (token and key) and its challenge, so "the key of
  another session" is visible as `user_token # encryption_key`. A Circle user
  has one wallet, named by the user. `pc[a]` runs through `getSignInChallenge`
  (`uuid` ... `unwrap`), the SDK (`execute`, `sdk`) and `queryWalletStatus` (`query` ... `balance`); each statement that touches
  UserDefaults or the view is a step. `registered`, `initialized` and `wallets`
  are Circle's side. `trap` is a failed force-unwrap: nothing runs until
  `Relaunch`, which may also happen at any other point. Polls that find nothing
  are stuttering steps.
- **`Account`** — what the sign-in promises about the device: one identity,
  taken once, and the wallet of that identity, attached once. The step `Fork`,
  possible while there is no identity, is the race of the uuid getter; only a
  forked device may replace its identity or its wallet, by one that it took.
- **`PremiumPass`** — presentations of the sheet, scans and mints. Each
  presentation has its own `@State`, which its tasks go on writing. `FreeThread`
  is the cooperative pool: a scan blocks a thread from its start, and, since the
  `break` at `PremiumPassView.swift:142` leaves only the `switch`, for ever; the
  synchronous part of a mint holds one too. `seen` is the presentation that
  `.onChange` last saw. `DepositGrants` is the pass that a deposit records
  (`ProtocolDetailView.swift:258`), which no `.onChange` follows. A Rust `unwrap` of a failed request is a panic, which
  ends the process. `stored` is how far the sign-in has come: the address shown,
  persisted, the wallet id persisted; the sheet can be opened at the first stage
  and unwraps what only the later ones provide.
- **`Deposit`** — visits to a protocol's page and taps on "Deposit".
  `tapped[d]` is a history variable, the amount on the screen at the tap;
  `amount[d]` is what the task parsed and sent. `Whole` is the set of texts
  that `BigInt(_)` parses. `stored` is again the stage of the sign-in, and
  `PassMinted` what the pass sheet does to the one value both write.
- **`App`** — `SignIn` with `Deposit` and `PremiumPass` as instances over its
  UserDefaults, in one process: a trap in one stops all, `AppRelaunch` restarts
  all, the sign-in button is out of reach while a page or the sheet covers the
  list. The stages that `Deposit` and `PremiumPass` take from their environment
  are computed from what `SignIn` really stores, and `DepositFits` and
  `PassFits` say that every step of the app is then a step those modules allow.
  The history variables `requested` and `executed` keep the wallet, token and
  key of each request and of its execution.
- **`Comments`** — the protocol list and the comments of a page. `fetch` holds
  the queries under way; an answer may hold anything the collection can hold and
  replaces the whole list of the view that asked. The handler of the comment
  button is three accesses of the list (`SendComment` reads the next id,
  `ReadComments` and `WriteComments` are the append), since answers are written
  from the thread of a detached task. `MaxId` is the largest `Int`.
- **`Toast`** — `isShowing`, the config, what is rendered, and how many timers
  have how many seconds to go. A toast that replaces another is the same view
  and starts no timer; no timer is ever cancelled. Blocks of the main queue may
  follow each other without a render, and both may be late. `age`, `disturbed`
  and `revived` are history variables.
- **`Formatting`** — texts as sequences of characters and the conversions the two
  contract calls depend on. The BigInt pod reads and prints in chunks of one
  machine word; `WordBits` is its width. Loops are recursive functions. The
  reference definitions (`Value`, `Canonical`) know nothing of words.
- **`SignInProofs`**, **`DepositProofs`**, **`PremiumPassProofs`**,
  **`CommentsProofs`**, **`ToastProofs`**, **`AppProofs`**,
  **`FormattingProofs`** — the theorems about the module of the same name.
- **`Recursion`** — induction and recursion over the naturals and over sequences,
  for `FormattingProofs`.
- **`MCDeposit`**, **`MCApp`**, **`MCComments`** — symmetry sets and sequences for
  TLC; the other modules are run as they are, `SignIn`, `PremiumPass` and `Toast`
  without symmetry, since their runs check liveness.

The operators whose names begin with `Mut` are variants of the operation below
them, with one plausible slip each; a property is kept only if such a slip
breaks it. They are not part of any specification.

**Races as history.** Nothing is assumed of the user or of the main queue: taps
overlap, sheets are closed under their tasks, a second scan starts beside the
first, blocks run without a render in between. Where the code has a race, a
history variable records that it happened, and the property says what holds
until then, and often what holds after it, too. The step that can set the
variable is the race itself and nothing wider:

| Variable | Set when | What is still true then |
|---|---|---|
| `SignIn!met` | two attempts are in flight together (their names) | token and key may be of two sessions (`StoredSessionAgrees`, `ExecutedSessionAgrees`), of the wallet's user all the same |
| `SignIn!forked` | an attempt finds no UUID while another is about to store one | the device replaces its identity and may keep the wallet of another that it took (`ImplementsAccount`); token and key may be of two users |
| `PremiumPass!overtaken` | a scan stores another proof between a mint's reads of it | the three arguments are proofs approved for the sheet (`PassIsEarned`) |
| `PremiumPass!missed` | a callback records a pass or takes a sheet away while the list knows of no sheet, and none is left | the list may lag until its next `.onChange` or launch; it never shows a pass that is not recorded (`PassIsKept`) |
| `PremiumPass!granted` | a deposit records a pass | not earned by a mint (`PassIsEarned`) |
| `Comments!raced` | an answer lands inside the handler of the comment button | an id may be repeated and an older answer shown; it is one whole answer (`LastAnswerShown`) |
| `Toast!revived` | a toast is shown after a hiding that was not rendered | it starts no timer and may stay until it is tapped (`ShownHasTimer`, `EventuallyHidden`) |

Each of these conditions is needed: without it TLC finds two attempts whose
stores interleave, a second identity replacing the first, a challenge executed
in another session than its request, a mint with arguments of two proofs, a pass
recorded by a deposit (or by a mint whose sheet is gone) and not shown until the
next launch, two rows with one id, and a toast that no timer hides.

## Runs

| Run | Instance | Shows |
|---|---|---|
| `sign_in` | 2 attempts, overlapping, fair | `TypeOK`, `SignedInHasCredentials`, `StoredSessionAgrees`, `ShownWalletAgrees`, `SignInSticks`, `ImplementsAccount`, `PollingEnds` |
| `sign_in_wallet_id` | 1 attempt | violated: `WalletIDPresentWhenSignedIn` |
| `pass` | 2 sheets, 2 scans, 1 mint, 3 threads, fair | `TypeOK`, `StepOneHasProof`, `PassIsEarned`, `MintUsesOneProof`, `OwnerSectionShown`, `PassIsKept`, `MintProceeds` |
| `pass_polling_stops` | 1 of each, fair | violated: `PollingStops` |
| `deposit` | 2 visits, 3 taps, 4 texts | `TypeOK`, `SubmittedIsTapped`, `OneDepositPerPage`, `LockHasOwner` |
| `deposit_toast` | 2 visits, 2 taps | violated: `ToastTellsTheTruth` |
| `app_sessions` | 2 attempts, overlapping, 1 deposit | `ExecutedSessionAgrees`, `DepositFits` |
| `app` | 1 of everything | `OwnerHasAddress`, `PassFits` |
| `app_pass_earned` | 1 of everything | violated: `PassIsEarned`, which the sheet alone keeps |
| `comments` | 2 visits, 2 fetches at a time, ids up to 4 | `TypeOK`, `UniqueIds`, `PageShowsItsProtocol`, `LastAnswerShown` |
| `toast` | 2 and 10 seconds as in the code, 3 timers, fair | `TypeOK`, `UndisturbedToastLasts`, `ShownHasTimer`, `EventuallyHidden` |
| `formatting` | 7 characters, texts up to 6, words of 8 bits | `HexAgrees`, `DepositAgrees` |

The violated properties state what a text, a comment or an assertion of the
code says; `findings` in `PROJECT.json` quotes it and tells what the code does. Two
more need no model checker: any failed request of the sign-in chain ends the
process (`sessionToken!`, `account!`, `CircleNetworking.swift:33` and `:41`), and so
does a fractional amount or a deposit before the sign-in is complete
(`BigInt(depositAmount)!`, `walletID!`, `ProtocolDetailView.swift:232` and `:235`),
as does any failed query of Firestore (`try!`, `FirebaseNetworking.swift:16` and
`:27`). They are steps of the models (`SessionTokenNil`, `AccountNil`,
`AmountNil`, `WalletIDNil`, `FetchFails`).

Smaller things met on the way. A deposit that gets no challenge returns at
`ProtocolDetailView.swift:240` with its page still locked; `LockHasOwner` names
this case as the only one that leaves a lock behind. The SDK's result carries a
status, which all three callbacks bind and ignore: a success is taken for one
whatever became of the challenge, and no property claims more. A comment of the
user's lives in the page: it is gone with the next answer, since the answer
replaces the list, and with the process (`LastAnswerShown` says what a page
shows, not that a comment stays). A toast shown while a timer of an earlier one
runs may be cut short. `hexStringToDecimalString` of
an empty text or of `0x` alone is `0`, although the comment at
`PremiumPassView.swift:247` says nil for what is no hexadecimal number, and
BigInt takes a sign not only in front but also at the start of any word's chunk;
`HexAgrees` and `DepositAgrees` leave both out, and neither a World ID proof nor
the decimal pad produces them.

**Bounds.** Attempts, scans, mints and taps are used once each, so their number
bounds the length of a behaviour. Two of a kind are enough for every
interleaving of a pair; the second attempt may also start after the first ended
or died with the process, and the third tap adds one that starts after two
others met. Two sheets and two visits let a task outlive its view while another
view is in use. Three threads leave exactly one for the purchase beside two scans
that never give theirs back. In `app_sessions` two sign-ins, overlapping or one after the other, meet one
request; a mint sends the same request as a deposit, and the theorem covers both.
`app` has one of everything, so that both flows that record a pass run beside a
sign-in. `MaxId` is 4, so that the next id reaches the largest `Int`. In `toast`
the durations are those of the code; three timers let two old ones run beside a
new toast. In `formatting` words of 8 bits hold two numerals in both radixes, as
words of 64 bits hold 16 and 19, and six characters fill three words; scaling by
100 stands for 10^17. The theorems cover every length, width and scale.

**Fairness.** `PollingEnds` assumes that a detached task that can go on does (it
gets a thread, which scans that never stop polling could deny it), that requests
are answered or time out and do not fail for ever, and that Circle deploys the
wallets it accepted. `MintProceeds` assumes the same of tasks *that have a thread*, and
that the main thread renders. Nothing is assumed of the user, the World App or
the SDK. `EventuallyHidden` assumes that time passes, that timers fire and that
the main thread renders. `MintProceeds` needs more threads than scans: with
`Pool = 1` a single scan starves the purchase for ever.

## Proofs

All proofs are for arbitrary finite or infinite constants, under the `ASSUME`s
of the modules: the absent value is not a name, the empty text does not parse, the pool has a thread, the ids of a thread in Firestore are
distinct and fit an `Int`, an answer decodes to a list, a machine word holds
whole hexadecimal digits (64 bits do). TLC evaluates them on
every instance. The inductive invariants were checked by TLC on the instances of
the runs before they were proved.

*SignIn, what is persisted.* `CredentialInv` is the inductive invariant: for every
point of an attempt it says what is already persisted (`Credentials`). The types
are not inductive without it, since `registerUser` needs its user, and neither is
`SignedInHasCredentials`, since `StoreAddress` must know that token, key and
wallet are there. `KeptStep` (nothing persisted is taken back) reduces the
other attempts to one argument, and `OwnStep` treats the attempt that moves.
From it follow `TypeCorrect`, `CredentialsComplete` and `NeverSignedOut`.
`DefaultsMove` lists what a step may write and in which order; with it
`WalletInv` (the address is there before the wallet id) is kept
(`WalletHasAddress`).

*SignIn, who it belongs to.* `UserInv`: a UUID is carried by the attempt that
generated it, an attempt keeps the user it took, and token and key are of
attempts that have one. `IdentityInv`: until the device is forked, at most one
attempt is between the two halves of the getter, and whatever is persisted, shown
or asked about is of the one identity (`OneIdentity`); a balance is asked about a
persisted wallet only. These are for overlapping attempts, so they give
`ScreenAgrees`, the second half of `SessionsAgree`, and `AccountRefinement`
(`NewUuid` maps to `Identify`, `StoreAddress` to `AttachWallet`, a `ReadUuid` that
meets another to `Fork`, everything else to a stutter). `SoloInv` is about an
attempt that met no other: it was alone from its tap on, so the key it stored is
still there, and a wallet id is there only if it stored it; the stored token is
its own or that of an attempt that met another. `SessionStays`: once a wallet id
is stored nobody meets any more, since no sign-in is offered; the wallet changes
on a forked device only, and a session whose attempt met no other does not
change.

*Deposit.* `DepositInv` ties the two properties together: the amount cannot
change between tap and read because the page is locked, and the page stays
locked because only the deposit in flight can unlock it (`AmountIsKept`,
`PageIsLocked`, `DepositTypes`). `LocksHaveOwners` adds the converse on top of
it: only the deposit that locked a page unlocks it, so a lock that is left has
its deposit still in flight or returned.

*PremiumPass.* `FlowInv` follows a proof on its way. `ScanInv`: a scan
that stores or completes was approved, and has stored a proof before it
completes. `SheetInv`: the proof in a sheet is one approved for that sheet, and a
completed step has one. `MintInv`: a mint starts from a completed sheet and what
it has read at its point is earned. A sheet's proof may be replaced by that of a
second scan at any time, so nothing here says which proof it is; `Stable` (no
approval is taken back, no scan changes its sheet) is what the mints rely on
while the scans go on. `PassInv` adds the recorded pass. From these follow
`PassTypes`, `StepOneProof`, `PassEarned` and the action property `PassKept`.

For `OneProof`, `ReadInv` says of a mint that was not overtaken that what it has
read so far is the proof its sheet holds now, or, after the last read, that the
three are equal; a scan that stores another proof in between makes the mint an
overtaken one (`OverRead`). `OwnerSection` is inductive by itself: `PassMoves`
lists how the record, the copy and the presentation move, and every step that
makes record and copy differ leaves a sheet the list still has to see go, or is
counted in `missed`.

*Comments.* `CommentsInv` has the two properties, `PageInv` (a page and every
answer under way belong to a visit with a protocol) and `SendInv` (between the
accesses of the comment button's handler: the id computed is still new, and the
copy is still the list, unless an answer came in between). `NextIdFresh` is the
lemma about the id, which rests on a non-empty set of ids having a largest one
(`LargestId`, by well-foundedness of the naturals). From these follow
`CommentTypes`, `IdsAreUnique` and `PagesKeepTheirProtocol`. For
`AnswersStayWhole`, `CopyInv` says that the copy the handler is about to write back
is a whole answer with the user's comments behind it, too, so that even a write
that a race made stale leaves no mixture of two answers.

*Toast.* `ToastInv`: an undisturbed toast waits for its render with no timer
running (`FreshToast`), so the timer its `.onAppear` starts is the only one, and
what it has to go and what has passed since the render add up to its duration at
least (`ToastLasts`). A toast on the screen has a timer from the render that
brought it up, and only a hiding uses one up; shown again before the next render
it is `revived` (`ToastHasTimer`). `ElapsedTimers` is the lemma about a second that
passes.

*App.* Three refinements come first: every step of the app is one of `SignIn`
(`SignInFits`), one of `Deposit` (`DepositsFit`) and one of `PremiumPass`
(`PassesFit`, where `granted` is that some deposit succeeded), or leaves the
component alone. The stages those two modules see are computed from what is
stored; `DefaultsMove` and `WalletInv` show that a step moves them by at most one.
Hence the theorems about the components hold in the app (`DepositsInApp`,
`ProofsInApp`, `PassKeptInApp`, `SignInInApp`). That a pass is earned carries over
with its exception for deposits, which is the finding of `app_pass_earned`. Then
the properties of the whole: `OwnersHaveAddresses` from `OwnerInv` (a request that
is out was sent for a stored wallet id, which nothing takes away), and
`SessionsMatch` from `SessionInv`: what a request was sent with is for the wallet
that is stored, unless the device was forked, and is the session that is stored,
unless its attempt met another (`SessionStays`), from the request to the execution
and after it; and a request that was executed is never sent again (`After`).

*Formatting.* The state is a text, and its type (`TextTypes`) is all the
invariant there is; the work is in what the conversions compute for a text of any
length. The induction theorems of the prover's library take an operator as a
parameter, which no backend can instantiate. `Recursion` restates them with sets:
a set that has 0 and the successor of each of its naturals has them all
(`Induction`, from the least element of a set of naturals), and so for strong
induction and for sequences; `RecursionTheorem` builds the function a recursion
defines from its finite approximations. With it `Pow`, `Value`, `WordText` and
`MagnitudeText` are shown to satisfy their own equations (`PowEquation`,
`ValueEquation`, `WordTextEquation`, `MagnitudeTextEquation`), and the rest is
arithmetic of numerals: two side by side (`ValueConcat`), their size
(`ValueBound`), and that a number has exactly one numeral without zeros in front
(`CanonicalUnique`). `CharsPerWord` says that the pod's count of numerals per word
exists and that any so many numerals fit. Here the width has to be a multiple of
4: the pod takes an overflow that leaves zero for an exact power
(`String Conversion.swift:24`), which for radix 16 is right only where
`16^n = 2^WordBits` has a solution. Then
`PrintingByWords`: filling the words behind the first with zeros, and only those,
gives the numeral `WordText` would give. And `ParsingByWords`: the chunks cut from
the right tile the text (`ChunkFacts`, `ChunksCover`), each fits a word, and they
add up to `Value`; one bad character spoils exactly one chunk, and with it the
result. `HexIsRight` and `DepositIsRight` add the prefix, the sign and the scale.
With the mutant of `Chunks` or of `Part` in place of the original the proofs fail
at `ChunkFacts` and `PartFacts`.

Only model-checked: the liveness properties `PollingEnds`, `MintProceeds` and
`EventuallyHidden` (fairness is out of the prover's reach). The properties
expected to be violated have counterexamples and no theorems.

## Left out

Not modelled: vendored pods, but for the number conversions; drawing, the rating
gauge and the app entry; `WalletSdkAdapter` (SDK configuration and layout) and
the `UserDefault` wrapper it uses for a setting nothing reads; the votes, two
counters that start at random numbers and that nothing stores, sends or reads;
`truncateString` (a prefix) and `Color(hex:)` (one call, with a literal); code that
is never called (`getUserStatus`, `estimateContractExecutionFee`, `biometricsPIN`,
the PIN helpers). The SDK, Circle, Firestore, the World App and SwiftUI's
scheduling appear as nondeterministic steps.

Simplifications: the Buy button is taken to be rendered from the current values;
`isLoadingWorldCoin` is never read and is left out; a page or a toast does not
reappear (an app sent to the background and back, or a pushed page popped, would
run `.onAppear` again); in `Comments` the pass is recorded by one step that
stands for a mint or a deposit. Whether `presentationMode` of a dismissed sheet
reaches a later one is left open in `FinishMint`.

Not stated: that a deposit's page and a mint's sheet report an outcome only for a
challenge that was executed. What the code reports there is the subject of the
finding of `deposit_toast`, and no run states the rest.
