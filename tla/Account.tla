------------------------------ MODULE Account ------------------------------
(***************************************************************************)
(* What the sign-in of the app promises about the device, seen from        *)
(* UserDefaults alone.  The device takes one identity, once, and attaches  *)
(* the wallet of that identity, once: nothing is replaced or lost.  Only a *)
(* device whose identity was taken by two attempts at once (it is forked,  *)
(* which can happen while it has none) may replace it, and may attach the  *)
(* wallet of any identity that it took.                                    *)
(***************************************************************************)
CONSTANTS Users, Nil

VARIABLES identity, wallet, taken, forked

vars == <<identity, wallet, taken, forked>>

Init == identity = Nil /\ wallet = Nil /\ taken = {} /\ forked = FALSE

Fork ==
    /\ identity = Nil
    /\ forked' = TRUE
    /\ UNCHANGED <<identity, wallet, taken>>

Identify(u) ==
    /\ identity = Nil \/ forked
    /\ u \notin taken
    /\ identity' = u
    /\ taken' = taken \union {u}
    /\ UNCHANGED <<wallet, forked>>

AttachWallet(u) ==
    /\ IF forked THEN u \in taken ELSE u = identity /\ wallet = Nil
    /\ wallet' = u
    /\ UNCHANGED <<identity, taken, forked>>

Next == Fork \/ \E u \in Users : Identify(u) \/ AttachWallet(u)

Spec == Init /\ [][Next]_vars
=============================================================================
