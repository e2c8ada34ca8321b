---------------------------- MODULE GradePromise ----------------------------
(***************************************************************************)
(* What the grade outbox promises, with no monitor in it.  A grade cell    *)
(* is recorded together with the set of parents who have to hear of it;    *)
(* the debt to a parent is discharged by a delivery or by the parent       *)
(* leaving the family; the cell is settled only when nobody is owed        *)
(* anything; a cell the teacher erased is withdrawn with its debts.        *)
(***************************************************************************)
CONSTANTS Keys, Parents

VARIABLES phase,  \* [Keys -> {"none", "open", "settled"}]
          owed    \* [Keys -> SUBSET Parents], who must still hear of the cell

vars == <<phase, owed>>

Init == /\ phase = [k \in Keys |-> "none"]
        /\ owed = [k \in Keys |-> {}]

Record(k, ps) ==
    /\ phase' = [phase EXCEPT ![k] = "open"]
    /\ owed' = [owed EXCEPT ![k] = ps]

Discharge(p, ks) ==
    /\ owed' = [k \in Keys |-> IF k \in ks THEN owed[k] \ {p} ELSE owed[k]]
    /\ UNCHANGED phase

Settle(k) ==
    /\ phase[k] = "open"
    /\ owed[k] = {}
    /\ phase' = [phase EXCEPT ![k] = "settled"]
    /\ UNCHANGED owed

Withdraw(ks) ==
    /\ phase' = [k \in Keys |-> IF k \in ks THEN "none" ELSE phase[k]]
    /\ owed' = [k \in Keys |-> IF k \in ks THEN {} ELSE owed[k]]

Next ==
    \/ \E k \in Keys, ps \in SUBSET Parents : Record(k, ps)
    \/ \E p \in Parents, ks \in SUBSET Keys : Discharge(p, ks)
    \/ \E k \in Keys : Settle(k)
    \/ \E ks \in SUBSET Keys : Withdraw(ks)

Spec == Init /\ [][Next]_vars
=============================================================================
