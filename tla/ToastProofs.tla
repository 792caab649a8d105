---------------------------- MODULE ToastProofs ----------------------------
(***************************************************************************)
(* Proofs about Toast for any durations and any number of timers, and for  *)
(* any order of the blocks and the renders of the main thread.             *)
(***************************************************************************)
EXTENDS Toast, TLAPS

USE DurationAssumption, MaxTimersAssumption

(* An undisturbed toast waits for its render without any timer running, so  *)
(* that the one its .onAppear starts is the only one.                       *)
FreshToast ==
    isShowing /\ ~rendered /\ ~disturbed => ~Running

ToastInv == TypeOK /\ FreshToast /\ UndisturbedToastLasts /\ ShownHasTimer

(* A toast's duration is one of the two.                                    *)
LEMMA DurationType ==
    \A type \in ToastType : Duration[type] \in {Short, Long} /\ Duration[type] \in 0..Long
  BY DEF ToastType, Duration

(* No toast and no timer at first.                                          *)
LEMMA InitType == Init => TypeOK
  <1> SUFFICES ASSUME Init PROVE TypeOK OBVIOUS
  <1>1. timers \in [0..Long -> Nat] BY DEF Init
  <1>2. age \in 0..Long BY DEF Init
  <1> QED BY <1>1, <1>2 DEF Init, TypeOK, ToastType

(* A second later a timer runs if one ran, and one that runs was running    *)
(* with a second more, or is due as it was.                                 *)
LEMMA ElapsedTimers ==
    ASSUME TypeOK
    PROVE  /\ Elapsed \in [0..Long -> Nat]
           /\ Running => \E k \in 0..Long : Elapsed[k] > 0
           /\ \A k \in 0..Long : Elapsed[k] > 0 =>
                 \/ k = 0 /\ timers[0] > 0
                 \/ k + 1 \in 0..Long /\ timers[k + 1] > 0
  <1>1. /\ \A k \in 0..Long : timers[k] \in Nat
        /\ 0 \in 0..Long
        /\ \A k \in 0..Long : k # Long => k + 1 \in 0..Long
    BY DEF TypeOK
  <1>2. \A k \in 0..Long :
           Elapsed[k] = (IF k = 0 THEN timers[0] ELSE 0)
                        + (IF k = Long THEN 0 ELSE timers[k + 1])
    BY DEF Elapsed
  <1>3. \A k \in 0..Long : Elapsed[k] \in Nat BY <1>1, <1>2
  <1>4. Elapsed \in [0..Long -> Nat] BY <1>3 DEF Elapsed
  <1>5. ASSUME NEW k \in 0..Long, timers[k] > 0
        PROVE  \E j \in 0..Long : Elapsed[j] > 0
    <2>1. CASE k = 0 BY <1>1, <1>2, <1>5, <2>1
    <2>2. CASE k # 0
      <3>1. k - 1 \in 0..Long /\ k - 1 # Long /\ (k - 1) + 1 = k BY <2>2
      <3>2. timers[(k - 1) + 1] > 0 BY <1>5, <3>1
      <3>3. Elapsed[k - 1] = (IF k - 1 = 0 THEN timers[0] ELSE 0)
                             + timers[(k - 1) + 1]
        BY <1>2, <3>1
      <3>4. Elapsed[k - 1] > 0 BY <1>1, <3>1, <3>2, <3>3
      <3> QED BY <3>1, <3>4
    <2> QED BY <2>1, <2>2
  <1>6. ASSUME NEW k \in 0..Long, Elapsed[k] > 0
        PROVE  \/ k = 0 /\ timers[0] > 0
               \/ k + 1 \in 0..Long /\ timers[k + 1] > 0
    BY <1>1, <1>2, <1>6
  <1> QED BY <1>4, <1>5, <1>6 DEF Running

(* Every step keeps the types.                                              *)
LEMMA TypeStep ==
    ASSUME TypeOK, [Next]_vars
    PROVE  TypeOK'
  <1>1. ASSUME NEW type \in ToastType, showToast(type) PROVE TypeOK'
    <2>1. disturbed' \in BOOLEAN /\ revived' \in BOOLEAN
      BY <1>1 DEF TypeOK, showToast, Running
    <2> QED BY <1>1, <2>1 DEF TypeOK, showToast
  <1>2. CASE Tap BY <1>2 DEF TypeOK, Tap
  <1>3. CASE Render
    <2>1. Duration[toastConfig] \in 0..Long BY DurationType DEF TypeOK
    <2>2. timers' \in [0..Long -> Nat] BY <1>3, <2>1 DEF Render, TypeOK
    <2>3. age' \in 0..Long BY <1>3 DEF Render
    <2> QED BY <1>3, <2>2, <2>3 DEF TypeOK, Render
  <1>4. CASE TimerFires
    <2>1. 0 \in 0..Long /\ timers[0] \in Nat /\ timers[0] - 1 \in Nat
      BY <1>4 DEF TimerFires, TypeOK
    <2>2. timers' \in [0..Long -> Nat] BY <1>4, <2>1 DEF TimerFires, TypeOK
    <2> QED BY <1>4, <2>2 DEF TypeOK, TimerFires
  <1>5. CASE Tick
    <2>1. timers' \in [0..Long -> Nat] BY <1>5, ElapsedTimers DEF Tick
    <2>2. age' \in 0..Long BY <1>5 DEF Tick, TypeOK
    <2> QED BY <1>5, <2>1, <2>2 DEF TypeOK, Tick
  <1>6. CASE UNCHANGED vars BY <1>6 DEF TypeOK, vars
  <1> QED BY <1>1, <1>2, <1>3, <1>4, <1>5, <1>6 DEF Next

(* Every step keeps the rest of ToastInv.                                   *)
LEMMA ToastStep ==
    ASSUME ToastInv, [Next]_vars
    PROVE  (FreshToast /\ UndisturbedToastLasts /\ ShownHasTimer)'
  <1>0. TypeOK /\ TypeOK' BY TypeStep DEF ToastInv
  <1> USE DEF FreshToast, UndisturbedToastLasts, ShownHasTimer, Running, Settled
  <1>1. ASSUME NEW type \in ToastType, showToast(type)
        PROVE  (FreshToast /\ UndisturbedToastLasts /\ ShownHasTimer)'
    <2>1. /\ rendered' = rendered /\ timers' = timers
          /\ ~disturbed' => ~rendered /\ ~Running
          /\ rendered /\ ~isShowing => revived'
          /\ revived => revived'
      BY <1>0, <1>1 DEF showToast, TypeOK
    <2>2. FreshToast' BY <2>1
    <2>3. UndisturbedToastLasts' BY <2>1
    <2>4. ShownHasTimer' BY <2>1 DEF ToastInv
    <2> QED BY <2>2, <2>3, <2>4
  <1>2. CASE Tap BY <1>2 DEF Tap
  <1>3. CASE Render
    <2>1. CASE ~isShowing BY <1>3, <2>1 DEF Render
    <2>2. CASE isShowing
      <3> DEFINE d == Duration[toastConfig]
      <3>1. d \in 0..Long /\ d \in Nat BY <1>0, DurationType DEF TypeOK
      <3>2. /\ timers' = [timers EXCEPT ![d] = @ + 1]
            /\ rendered' /\ ~rendered /\ age' = 0
            /\ UNCHANGED <<isShowing, toastConfig, disturbed>>
        BY <1>0, <1>3, <2>2 DEF Render, TypeOK
      <3> HIDE DEF d
      <3>3. timers'[d] > 0 BY <1>0, <3>1, <3>2 DEF TypeOK
      <3>4. ASSUME ~disturbed, NEW k \in 0..Long, timers'[k] > 0
            PROVE  k = d
        BY <1>0, <2>2, <3>1, <3>2, <3>4 DEF ToastInv, TypeOK
      <3> QED BY <3>1, <3>2, <3>3, <3>4 DEF d
    <2> QED BY <2>1, <2>2
  <1>4. CASE TimerFires BY <1>4 DEF TimerFires
  <1>5. CASE Tick
    <2>1. /\ timers' = Elapsed
          /\ age' = IF age = Long THEN Long ELSE age + 1
          /\ UNCHANGED <<isShowing, toastConfig, rendered, disturbed, revived>>
      BY <1>5 DEF Tick
    <2>2. /\ Running => Running'
          /\ \A k \in 0..Long : timers'[k] > 0 =>
                \/ k = 0 /\ timers[0] > 0
                \/ k + 1 \in 0..Long /\ timers[k + 1] > 0
      BY <1>0, <2>1, ElapsedTimers
    <2>3. Running' => Running BY <2>2
    <2>4. FreshToast' BY <2>1, <2>3 DEF ToastInv
    <2>5. ShownHasTimer' BY <2>1, <2>2 DEF ToastInv
    <2>6. UndisturbedToastLasts'
      <3> SUFFICES ASSUME isShowing, rendered, ~disturbed, NEW k \in 0..Long,
                          timers'[k] > 0
                   PROVE  k + age' >= Duration[toastConfig]
        BY <2>1
      <3>1. \/ 0 + age >= Duration[toastConfig] /\ k = 0
            \/ (k + 1) + age >= Duration[toastConfig]
        BY <2>2 DEF ToastInv
      <3>2. Duration[toastConfig] \in 0..Long /\ age \in 0..Long
        BY <1>0, DurationType DEF TypeOK
      <3> QED BY <2>1, <3>1, <3>2
    <2> QED BY <2>4, <2>5, <2>6
  <1>6. CASE UNCHANGED vars BY <1>6 DEF ToastInv, vars
  <1> QED BY <1>1, <1>2, <1>3, <1>4, <1>5, <1>6 DEF Next

(* The variables of a toast keep their types.                               *)
THEOREM ToastTypes == Spec => []TypeOK
  <1>1. Init => TypeOK BY InitType
  <1>2. TypeOK /\ [Next]_vars => TypeOK' BY TypeStep
  <1> QED BY <1>1, <1>2, PTL DEF Spec

(* The invariant of the toast.                                              *)
THEOREM ToastInvariant == Spec => []ToastInv
  <1>1. Init => ToastInv
    BY InitType DEF Init, ToastInv, FreshToast, UndisturbedToastLasts,
       ShownHasTimer
  <1>2. ToastInv /\ [Next]_vars => ToastInv'
    BY TypeStep, ToastStep DEF ToastInv
  <1> QED BY <1>1, <1>2, PTL DEF Spec

(* A toast that nothing disturbed lasts for the duration of its own type.   *)
THEOREM ToastLasts == Spec => []UndisturbedToastLasts
  BY ToastInvariant, PTL DEF ToastInv

(* No toast stays on the screen without a timer that will hide it, except   *)
(* one shown after a hiding that was not rendered.                          *)
THEOREM ToastHasTimer == Spec => []ShownHasTimer
  BY ToastInvariant, PTL DEF ToastInv
=============================================================================
