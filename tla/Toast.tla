------------------------------- MODULE Toast -------------------------------
(***************************************************************************)
(* The toast of the views (Helpers/Toast.swift and showToast of the three  *)
(* views).  A toast is a text over the view while isShowing; when it       *)
(* appears it starts a timer that sets isShowing to false.  No timer is    *)
(* ever cancelled: not by a tap, which hides the toast, and not by a toast *)
(* that replaces another, which does not appear and starts no timer.       *)
(*                                                                         *)
(* Blocks of the main queue (timers, callbacks of the SDK) may follow each *)
(* other without a render in between, and the main thread may be late with *)
(* either: the callback of PremiumPassView sleeps on it.                   *)
(*                                                                         *)
(* timers[k] is the number of timers with k seconds to go.  The view is    *)
(* taken to stay on the screen.                                            *)
(***************************************************************************)
EXTENDS Naturals, Functions

CONSTANTS
    Short, Long,    \* seconds: the default and a success, a failure
    MaxTimers       \* bound: timers running at a time

ASSUME DurationAssumption == Short \in Nat \ {0} /\ Long \in Nat /\ Short < Long
ASSUME MaxTimersAssumption == MaxTimers \in Nat \ {0}

VARIABLES
    isShowing, toastConfig,  \* @State of the view
    rendered,                \* is the toast on the screen?
    timers,                  \* on the main queue
    age,                     \* history: seconds on the screen, up to Long
    disturbed,               \* history: shown over a toast or a running timer
    revived                  \* history: shown after a hiding nobody rendered

vars == <<isShowing, toastConfig, rendered, timers, age, disturbed, revived>>

ToastType == {"general", "success", "failure"}
Duration == [general |-> Short, success |-> Short, failure |-> Long]

Pending == FoldFunction(+, 0, timers)
Running == \E k \in 0..Long : timers[k] > 0
Settled == rendered = isShowing

TypeOK ==
    /\ isShowing \in BOOLEAN
    /\ toastConfig \in ToastType
    /\ rendered \in BOOLEAN
    /\ timers \in [0..Long -> Nat]
    /\ age \in 0..Long
    /\ disturbed \in BOOLEAN
    /\ revived \in BOOLEAN

Init ==
    /\ isShowing = FALSE /\ toastConfig = "general" /\ rendered = FALSE
    /\ timers = [k \in 0..Long |-> 0]
    /\ age = 0 /\ disturbed = FALSE /\ revived = FALSE

-----------------------------------------------------------------------------
(* Mutant: the timers of the toast before are cancelled. *)
MutshowToast(type) ==
    /\ isShowing' = TRUE
    /\ toastConfig' = type
    /\ timers' = [k \in 0..Long |-> 0]
    /\ disturbed' = (isShowing \/ rendered)
    /\ revived' = (revived \/ (rendered /\ ~isShowing))
    /\ UNCHANGED <<rendered, age>>

(* From a callback of the SDK, over whatever is shown.  A toast that was   *)
(* hidden and is still on the screen does not appear again.                *)
showToast(type) ==
    /\ Pending < MaxTimers
    /\ isShowing' = TRUE
    /\ toastConfig' = type
    /\ disturbed' = (isShowing \/ rendered \/ Running)
    /\ revived' = (revived \/ (rendered /\ ~isShowing))
    /\ UNCHANGED <<rendered, timers, age>>

(* .onTapGesture *)
Tap ==
    /\ rendered /\ isShowing
    /\ isShowing' = FALSE
    /\ UNCHANGED <<toastConfig, rendered, timers, age, disturbed, revived>>

(* Mutant: the timer of a toast has the default duration. *)
MutRender ==
    /\ ~Settled
    /\ rendered' = isShowing
    /\ timers' = IF isShowing THEN [timers EXCEPT ![Short] = @ + 1] ELSE timers
    /\ age' = 0
    /\ revived' = FALSE
    /\ UNCHANGED <<isShowing, toastConfig, disturbed>>

(* The body is evaluated: .onAppear when the toast comes onto the screen. *)
Render ==
    /\ ~Settled
    /\ rendered' = isShowing
    /\ timers' = IF isShowing
                   THEN [timers EXCEPT ![Duration[toastConfig]] = @ + 1]
                   ELSE timers
    /\ age' = 0
    /\ revived' = FALSE
    /\ UNCHANGED <<isShowing, toastConfig, disturbed>>

(* Mutants: the timer fires when it is started; the timer of a toast that  *)
(* was replaced does nothing.                                              *)
MutTimerFires ==
    /\ timers' = [timers EXCEPT ![0] = @ - 1]
    /\ isShowing' = FALSE
    /\ UNCHANGED <<toastConfig, rendered, age, disturbed, revived>>

MutTimerOfReplaced ==
    /\ timers[0] > 0
    /\ timers' = [timers EXCEPT ![0] = @ - 1]
    /\ isShowing' = (isShowing /\ disturbed)
    /\ UNCHANGED <<toastConfig, rendered, age, disturbed, revived>>

TimerFires ==
    /\ timers[0] > 0
    /\ timers' = [timers EXCEPT ![0] = @ - 1]
    /\ isShowing' = FALSE
    /\ UNCHANGED <<toastConfig, rendered, age, disturbed, revived>>

(* The timers one second later: one that is due stays due. *)
Elapsed ==
    [k \in 0..Long |-> (IF k = 0 THEN timers[0] ELSE 0)
                       + (IF k = Long THEN 0 ELSE timers[k + 1])]

Tick ==
    /\ timers' = Elapsed
    /\ age' = IF age = Long THEN Long ELSE age + 1
    /\ UNCHANGED <<isShowing, toastConfig, rendered, disturbed, revived>>

Next ==
    \/ \E type \in ToastType : showToast(type)
    \/ Tap \/ Render \/ TimerFires \/ Tick

Spec == Init /\ [][Next]_vars

(* Time passes, timers fire and the main thread renders.  Nothing is       *)
(* assumed of the user or of the SDK.                                      *)
Fairness == WF_vars(Render) /\ WF_vars(TimerFires) /\ WF_vars(Tick)

FairSpec == Spec /\ Fairness

-----------------------------------------------------------------------------
(***************************************************************************)
(* Properties                                                              *)
(***************************************************************************)

(* A toast that comes up when none is shown and no timer of an earlier one *)
(* runs stays for the duration of its type at least, unless it is tapped:  *)
(* showToast sets the config after the flag, and still the timer has the   *)
(* duration of this toast and not of the one before.                       *)
UndisturbedToastLasts ==
    isShowing /\ rendered /\ ~disturbed =>
        \A k \in 0..Long : timers[k] > 0 => k + age >= Duration[toastConfig]

(* A toast on the screen has a timer running, its own or one that an       *)
(* earlier toast left, through replacements, taps and timers that fire     *)
(* early.  The one exception is a toast shown after a hiding that was not  *)
(* rendered: it takes over the text on the screen, onAppear (Toast.swift:  *)
(* 49-53) does not run and no timer starts.                                *)
ShownHasTimer ==
    isShowing /\ rendered => Running \/ revived

(* Every toast is gone at last, however often it is replaced, with the     *)
(* same exception.                                                         *)
EventuallyHidden == isShowing ~> ~isShowing \/ revived
=============================================================================
