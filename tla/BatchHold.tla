----------------------------- MODULE BatchHold -----------------------------
(***************************************************************************)
(* What the ledger promises about the balance hold of one batch image job: *)
(* an amount Hold is moved once from the owner's balance to the frozen     *)
(* balance, and leaves it once, either captured (the cost is kept, the     *)
(* rest goes back) or released (all of it goes back).  The frozen balance  *)
(* is one number per user: the holds of the user's other jobs are part of  *)
(* it and are not to move.                                                 *)
(*                                                                         *)
(* A hold that was captured or released has left the frozen balance.  The  *)
(* request ids of the two are different, so the ledger by itself does not  *)
(* keep the second one from being applied as well, at the expense of the   *)
(* user's other holds: MoveAgain is that step.  When it can happen is the  *)
(* subject of SettledOnce in BatchImage.                                   *)
(***************************************************************************)
EXTENDS Integers

CONSTANTS Hold,          \* the amount held for the job, positive
          Balances,      \* possible balances of the user before the job
          OtherHolds     \* possible sums of the user's other holds

VARIABLES hold,      \* "none", "held", "captured", "released" or "both"
          balance,   \* the user's balance
          frozen     \* the user's frozen balance

holdVars == <<hold, balance, frozen>>

HInit ==
    /\ hold = "none"
    /\ balance \in Balances
    /\ frozen \in OtherHolds

\* Move(to, back): the hold goes to state `to` and `back` of it to the balance.
Move(to, back) ==
    /\ frozen >= Hold
    /\ hold' = to
    /\ frozen' = frozen - Hold
    /\ balance' = balance + back

Reserve ==
    /\ hold = "none"
    /\ balance >= Hold
    /\ hold' = "held"
    /\ balance' = balance - Hold
    /\ frozen' = frozen + Hold

Capture == hold = "held" /\ \E cost \in 0..Hold : Move("captured", Hold - cost)

Release == hold = "held" /\ Move("released", Hold)

MoveAgain ==
    \/ hold = "captured" /\ Move("both", Hold)
    \/ hold = "released" /\ \E cost \in 0..Hold : Move("both", Hold - cost)

HNext == Reserve \/ Capture \/ Release \/ MoveAgain

HSpec == HInit /\ [][HNext]_holdVars
=============================================================================
