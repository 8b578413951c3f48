------------------------------- MODULE Device -------------------------------
(* What remagicd promises of the device, without its threads, transitions   *)
(* and locks: the stock system has it alone; otherwise the screen changes   *)
(* from one application to another only by way of Home or nobody, is given  *)
(* to none that is frozen, and who has it is not frozen.                    *)

CONSTANT App

VARIABLES stock,  \* the stock system has the device
          owner,  \* who has the screen: "none", "home" or an application
          up,     \* the applications with an active unit
          frozen  \* those of them whose unit is frozen

vars == <<stock, owner, up, frozen>>

Between == {"none", "home"}

Init == /\ stock = TRUE
        /\ owner = "none"
        /\ up = {}
        /\ frozen = {}

Enter == /\ stock
         /\ stock' = FALSE
         /\ UNCHANGED <<owner, up, frozen>>

Start(a) == /\ ~stock
            /\ up' = up \cup {a}
            /\ UNCHANGED <<stock, owner, frozen>>

Give(a) == /\ ~stock
           /\ owner \in Between /\ a \notin frozen
           /\ owner' = a
           /\ UNCHANGED <<stock, up, frozen>>

Freeze(a) == /\ a \in up /\ owner # a
             /\ frozen' = frozen \cup {a}
             /\ UNCHANGED <<stock, owner, up>>

(* Revoking the screen or showing Home, thawing, stopping and dying, in any *)
(* combination.                                                             *)
Withdraw == /\ ~stock
            /\ owner' \in Between \cup {owner}
            /\ up' \subseteq up
            /\ frozen' \subseteq frozen \cap up'
            /\ UNCHANGED stock

Restore == /\ stock' = TRUE
           /\ owner' = "none"
           /\ up' = {}
           /\ frozen' = {}

Next == \/ Enter \/ Withdraw \/ Restore
        \/ \E a \in App : Start(a) \/ Give(a) \/ Freeze(a)

Spec == Init /\ [][Next]_vars

(* What follows: stock has nobody beside it, and the screen nobody frozen.  *)
Exclusive == /\ stock => owner = "none" /\ up = {}
             /\ frozen \subseteq up /\ owner \notin frozen
=============================================================================
