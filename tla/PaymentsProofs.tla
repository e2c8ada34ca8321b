--------------------------- MODULE PaymentsProofs ---------------------------
(***************************************************************************)
(* Proofs about Payments, for any number of families, charges and worker   *)
(* threads and any bounds: types, paid months, refunds and the ledger.     *)
(*                                                                         *)
(* RefundedNotCredited needs to know who handles a charge: until it has    *)
(* been delivered twice it is in the hands of one worker at most, which    *)
(* credits it before it can think of refunding it (InOneHand).  The ledger *)
(* is inductive once the months explained are counted as one sum           *)
(* (Explained), whose terms change by one at a time; paid months are, once *)
(* a grant whose row is still to come is counted as one (Owed).            *)
(***************************************************************************)
EXTENDS Payments, FiniteSetTheorems, TLAPS

(* What worker threads carry, and types. *)

\* The fields of a job.
LEMMA JobFields ==
    ASSUME NEW j \in Jobs
    PROVE  /\ j.kind \in {"paid", "credit", "alert", "refund"} => j.charge \in Charges
           /\ j.kind \in {"promo", "record"} => j.family \in Families
  BY DEF Jobs, Idle

\* The jobs there are.
LEMMA JobForms ==
    /\ Idle \in Jobs
    /\ \A k \in {"paid", "credit", "alert", "refund"}, c \in Charges :
          [kind |-> k, charge |-> c] \in Jobs
    /\ \A k \in {"promo", "record"}, f \in Families : [kind |-> k, family |-> f] \in Jobs
  BY DEF Jobs

\* A charge gets its payer with the pre-checkout query, and only Stars are refunded.
UnaskedHasNoPayer == \A c \in Charges : update[c] = "none" => payer[c] = Nobody
RefundsAreStars == \A w \in Workers : job[w].kind = "refund" => job[w].charge \in Stars

TypeInv == TypeOK /\ UnaskedHasNoPayer /\ RefundsAreStars

\* Workers can be counted.
LEMMA WorkersFinite ==
    ASSUME NEW S \in SUBSET Workers
    PROVE  IsFiniteSet(S) /\ Cardinality(S) \in Nat
  BY ChargesAssumption, FS_Subset, FS_CardinalityType

\* The initial states have the right types.
LEMMA InitTypes == Init => TypeInv
<1> SUFFICES ASSUME Init PROVE TypeInv
  OBVIOUS
<1> USE ChargesAssumption, LimitsAssumption, JobForms
<1>1. UnaskedHasNoPayer /\ RefundsAreStars
  BY DEF Init, UnaskedHasNoPayer, RefundsAreStars, Idle
<1>2. /\ job \in [Workers -> Jobs] /\ now \in 1..Horizon + 1
      /\ grants \in 0..MaxGrants /\ faults \in 0..MaxFaults /\ crashes \in 0..MaxCrashes
  BY DEF Init
<1> QED
  BY <1>1, <1>2 DEF Init, TypeInv, TypeOK

\* Every step keeps the types.
LEMMA TypeStep == TypeInv /\ [Next]_vars => TypeInv'
<1> SUFFICES ASSUME TypeInv, [Next]_vars PROVE TypeInv'
  OBVIOUS
<1> USE ChargesAssumption, LimitsAssumption, JobFields, JobForms
    DEF TypeInv, UnaskedHasNoPayer, RefundsAreStars, TypeOK, world, money, bounds, months,
        past, Begin, Fault, Idle
<1>1. ASSUME NEW c \in Charges, Pay(c) PROVE TypeInv'
  BY <1>1 DEF Pay
<1>2. ASSUME NEW c \in Charges, Acknowledge(c) PROVE TypeInv'
  BY <1>2 DEF Acknowledge
<1>3. ASSUME NEW c \in Charges, NEW f \in Families, PreCheckout(c, f) PROVE TypeInv'
  BY <1>3 DEF PreCheckout
<1>4. ASSUME NEW w \in Workers, ReadPayer(w) PROVE TypeInv'
  BY <1>4 DEF ReadPayer
<1>5. ASSUME NEW w \in Workers, Credit(w) PROVE TypeInv'
  BY <1>5 DEF Credit, Extend, Later
<1>6. ASSUME NEW w \in Workers, Alert(w) PROVE TypeInv'
  BY <1>6 DEF Alert, AfterAlert
<1>7. ASSUME NEW w \in Workers, Refund(w) PROVE TypeInv'
  BY <1>7 DEF Refund
<1>8. ASSUME NEW w \in Workers, ApplyPromo(w) PROVE TypeInv'
  BY <1>8 DEF ApplyPromo, Extend, Later
<1>9. ASSUME NEW w \in Workers, RecordGrant(w) PROVE TypeInv'
  BY <1>9 DEF RecordGrant
<1>10. ASSUME NEW w \in Workers, ReadFails(w) PROVE TypeInv'
  BY <1>10 DEF ReadFails
<1>11. ASSUME NEW w \in Workers, CreditFails(w) PROVE TypeInv'
  BY <1>11 DEF CreditFails
<1>12. ASSUME NEW w \in Workers, CommitUnanswered(w) PROVE TypeInv'
  BY <1>12 DEF CommitUnanswered, Extend, Later
<1>13. ASSUME NEW w \in Workers, AlertFails(w) PROVE TypeInv'
  BY <1>13 DEF AlertFails, AfterAlert
<1>14. ASSUME NEW w \in Workers, RefundFails(w) PROVE TypeInv'
  BY <1>14 DEF RefundFails
<1>15. ASSUME NEW w \in Workers, PromoFails(w) PROVE TypeInv'
  BY <1>15 DEF PromoFails
<1>16. ASSUME NEW w \in Workers, RecordFails(w) PROVE TypeInv'
  BY <1>16 DEF RecordFails
<1>17. ASSUME NEW w \in Workers, NEW c \in Charges, Fetch(w, c) PROVE TypeInv'
  BY <1>17 DEF Fetch
<1>18. ASSUME NEW w \in Workers, NEW f \in Families, CheckPromo(w, f) PROVE TypeInv'
  BY <1>18 DEF CheckPromo
<1>19. ASSUME NEW w \in Workers, NEW f \in Families, Grant(w, f) PROVE TypeInv'
  BY <1>19 DEF Grant, Extend, Later
<1>20. ASSUME NEW f \in Families, Cancel(f) PROVE TypeInv'
  BY <1>20 DEF Cancel, Left, Later
<1>21. ASSUME NEW f \in Families, DeleteFamily(f) PROVE TypeInv'
  BY <1>21 DEF DeleteFamily
<1>22. CASE ExpirePromo
  BY <1>22 DEF ExpirePromo
<1>23. CASE DeletePromo
  BY <1>23 DEF DeletePromo
<1>24. CASE MonthPasses
  BY <1>24 DEF MonthPasses
<1>25. CASE Restart
  <2>1. Cardinality({w \in Workers : job[w].kind = "record"}) \in Nat
    BY WorkersFinite
  <2> QED
    BY <1>25, <2>1 DEF Restart
<1>26. CASE UNCHANGED vars
  BY <1>26 DEF vars
<1> QED
  BY <1>1, <1>2, <1>3, <1>4, <1>5, <1>6, <1>7, <1>8, <1>9, <1>10, <1>11, <1>12, <1>13,
     <1>14, <1>15, <1>16, <1>17, <1>18, <1>19, <1>20, <1>21, <1>22, <1>23, <1>24, <1>25,
     <1>26
     DEF Next, Step, Failure

-----------------------------------------------------------------------------
(* Refunds. *)

\* The worker handles the payment of this charge.
Holds(w, c) == job[w].kind \in {"paid", "credit", "alert", "refund"} /\ job[w].charge = c

\* A charge that was delivered once is in the hands of one worker at most.
InOneHand ==
    \A c \in Charges \ repeated :
        /\ \A v, w \in Workers : Holds(v, c) /\ Holds(w, c) => v = w
        /\ update[c] \notin {"fetched", "acked"} =>
              c \notin recorded \cup refunded /\ \A w \in Workers : ~ Holds(w, c)
        /\ \A w \in Workers :
              Holds(w, c) => /\ c \notin refunded /\ (c \in recorded => c \in doubted)
                             /\ job[w].kind \in {"paid", "credit"} => c \notin recorded

RefundInv == InOneHand /\ RefundedNotCredited

\* Every step keeps a charge in one hand and refunds nothing credited.
LEMMA RefundStep == TypeInv /\ RefundInv /\ [Next]_vars => RefundInv'
<1> SUFFICES ASSUME TypeInv, RefundInv, [Next]_vars PROVE RefundInv'
  OBVIOUS
<1> USE ChargesAssumption, JobFields, JobForms
    DEF TypeInv, UnaskedHasNoPayer, TypeOK, world, money, bounds, months, past, Begin, Fault,
        Idle, RefundInv, InOneHand, RefundedNotCredited, Holds
<1>1. ASSUME NEW c \in Charges, Pay(c) PROVE RefundInv'
  BY <1>1 DEF Pay
<1>2. ASSUME NEW c \in Charges, Acknowledge(c) PROVE RefundInv'
  BY <1>2 DEF Acknowledge
<1>3. ASSUME NEW c \in Charges, NEW f \in Families, PreCheckout(c, f) PROVE RefundInv'
  BY <1>3 DEF PreCheckout
<1>4. ASSUME NEW w \in Workers, ReadPayer(w) PROVE RefundInv'
  BY <1>4 DEF ReadPayer
<1>5. ASSUME NEW w \in Workers, Credit(w) PROVE RefundInv'
  BY <1>5 DEF Credit, Extend, Later
<1>6. ASSUME NEW w \in Workers, Alert(w) PROVE RefundInv'
  BY <1>6 DEF Alert, AfterAlert
<1>7. ASSUME NEW w \in Workers, Refund(w) PROVE RefundInv'
  BY <1>7 DEF Refund
<1>8. ASSUME NEW w \in Workers, ApplyPromo(w) PROVE RefundInv'
  BY <1>8 DEF ApplyPromo, Extend, Later
<1>9. ASSUME NEW w \in Workers, RecordGrant(w) PROVE RefundInv'
  BY <1>9 DEF RecordGrant
<1>10. ASSUME NEW w \in Workers, ReadFails(w) PROVE RefundInv'
  BY <1>10 DEF ReadFails
<1>11. ASSUME NEW w \in Workers, CreditFails(w) PROVE RefundInv'
  BY <1>11 DEF CreditFails
<1>12. ASSUME NEW w \in Workers, CommitUnanswered(w) PROVE RefundInv'
  BY <1>12 DEF CommitUnanswered, Extend, Later
<1>13. ASSUME NEW w \in Workers, AlertFails(w) PROVE RefundInv'
  BY <1>13 DEF AlertFails, AfterAlert
<1>14. ASSUME NEW w \in Workers, RefundFails(w) PROVE RefundInv'
  BY <1>14 DEF RefundFails
<1>15. ASSUME NEW w \in Workers, PromoFails(w) PROVE RefundInv'
  BY <1>15 DEF PromoFails
<1>16. ASSUME NEW w \in Workers, RecordFails(w) PROVE RefundInv'
  BY <1>16 DEF RecordFails
<1>17. ASSUME NEW w \in Workers, NEW c \in Charges, Fetch(w, c) PROVE RefundInv'
  BY <1>17 DEF Fetch
<1>18. ASSUME NEW w \in Workers, NEW f \in Families, CheckPromo(w, f) PROVE RefundInv'
  BY <1>18 DEF CheckPromo
<1>19. ASSUME NEW w \in Workers, NEW f \in Families, Grant(w, f) PROVE RefundInv'
  BY <1>19 DEF Grant, Extend, Later
<1>20. ASSUME NEW f \in Families, Cancel(f) PROVE RefundInv'
  BY <1>20 DEF Cancel
<1>21. ASSUME NEW f \in Families, DeleteFamily(f) PROVE RefundInv'
  BY <1>21 DEF DeleteFamily
<1>22. CASE ExpirePromo
  BY <1>22 DEF ExpirePromo
<1>23. CASE DeletePromo
  BY <1>23 DEF DeletePromo
<1>24. CASE MonthPasses
  BY <1>24 DEF MonthPasses
<1>25. CASE Restart
  BY <1>25 DEF Restart
<1>26. CASE UNCHANGED vars
  BY <1>26 DEF vars
<1> QED
  BY <1>1, <1>2, <1>3, <1>4, <1>5, <1>6, <1>7, <1>8, <1>9, <1>10, <1>11, <1>12, <1>13,
     <1>14, <1>15, <1>16, <1>17, <1>18, <1>19, <1>20, <1>21, <1>22, <1>23, <1>24, <1>25,
     <1>26
     DEF Next, Step, Failure

-----------------------------------------------------------------------------
(* The ledger. *)

\* Workers between a grant and its row, rows of charges, and the months explained.
Recording(f) == {w \in Workers : job[w] = [kind |-> "record", family |-> f]}
Credited(f) == {c \in recorded : payer[c] = f}
Explained(f) == now + (Cardinality(Credited(f)) + gifts[f]) + unlogged + Cardinality(Recording(f))

\* A worker at rest is not recording a grant.
LEMMA IdleRecordsNothing == \A f : Idle # [kind |-> "record", family |-> f]
  BY DEF Idle

\* A worker that comes to rest no longer records, and nobody else changes.
LEMMA RecordingEnds ==
    ASSUME NEW w \in Workers, NEW f, DOMAIN job = Workers,
           job[w] = [kind |-> "record", family |-> f], job' = [job EXCEPT ![w] = Idle]
    PROVE  /\ Recording(f)' = Recording(f) \ {w} /\ w \in Recording(f)
           /\ \A g : g # f => Recording(g)' = Recording(g)
<1>1. job'[w] = Idle /\ \A v \in Workers \ {w} : job'[v] = job[v]
  OBVIOUS
<1>2. \A g : [kind |-> "record", family |-> f] = [kind |-> "record", family |-> g] => f = g
  OBVIOUS
<1>3. \A g : w \notin Recording(g)'
  BY <1>1, IdleRecordsNothing DEF Recording
<1> QED
  BY <1>1, <1>2, <1>3 DEF Recording

\* The numbers of the ledger are numbers.
LEMMA LedgerTypes ==
    ASSUME TypeOK, NEW f \in Families
    PROVE  /\ IsFiniteSet(Credited(f)) /\ Cardinality(Credited(f)) \in Nat
           /\ IsFiniteSet(Recording(f)) /\ Cardinality(Recording(f)) \in Nat
<1>1. Credited(f) \in SUBSET Charges
  BY DEF Credited, TypeOK
<1>2. Recording(f) \in SUBSET Workers
  BY DEF Recording
<1> QED
  BY <1>1, <1>2, ChargesAssumption, WorkersFinite, FS_Subset, FS_CardinalityType

\* A grant that is recorded, or lost unlogged, is explained as before.
LEMMA RecordedOne ==
    ASSUME TypeOK, NEW w \in Workers, NEW f \in Families,
           job[w] = [kind |-> "record", family |-> f], job' = [job EXCEPT ![w] = Idle],
           UNCHANGED <<now, recorded, payer>>,
           \/ gifts'[f] = gifts[f] + 1 /\ unlogged' = unlogged
           \/ gifts'[f] = gifts[f] /\ unlogged' = unlogged + 1
    PROVE  Explained(f)' = Explained(f) /\ \A g \in Families \ {f} : Recording(g)' = Recording(g)
<1>1. /\ Recording(f)' = Recording(f) \ {w} /\ w \in Recording(f)
      /\ \A g \in Families \ {f} : Recording(g)' = Recording(g)
  BY RecordingEnds DEF TypeOK
<1>2. Cardinality(Recording(f)') = Cardinality(Recording(f)) - 1
  BY <1>1, LedgerTypes, FS_RemoveElement
<1>3. Credited(f)' = Credited(f)
  BY DEF Credited
<1>4. now \in Nat /\ gifts[f] \in Nat /\ unlogged \in Nat
  BY DEF TypeOK
<1> QED
  BY <1>1, <1>2, <1>3, <1>4, LedgerTypes DEF Explained

\* A step of a worker that neither begins nor ends a grant.
LEMMA RecordingKept ==
    ASSUME TypeOK, NEW w \in Workers, NEW j, Begin(w, j), job[w].kind # "record", j.kind # "record"
    PROVE  \A f \in Families : Recording(f)' = Recording(f)
  BY DEF TypeOK, Begin, Recording

\* One more row of a charge, one more month.
LEMMA CreditedOne ==
    ASSUME TypeOK, NEW c \in Charges, c \notin recorded, payer[c] \in families,
           Extend(payer[c]), recorded' = recorded \cup {c},
           UNCHANGED <<now, families, payer, gifts, unlogged>>,
           \A f \in Families : Recording(f)' = Recording(f),
           \A f \in families : end[f] <= Explained(f)
    PROVE  \A f \in families' : end'[f] <= Explained(f)'
<1> SUFFICES ASSUME NEW f \in families PROVE end'[f] <= Explained(f)'
  OBVIOUS
<1>1. f \in Families /\ payer[c] \in Families
  BY DEF TypeOK
<1>2. CASE f = payer[c]
  <2>1. Credited(f)' = Credited(f) \cup {c} /\ c \notin Credited(f)
    BY <1>2 DEF Credited
  <2>2. Cardinality(Credited(f)') = Cardinality(Credited(f)) + 1
    BY <1>1, <2>1, LedgerTypes, FS_AddElement
  <2>3. Explained(f)' = Explained(f) + 1
    BY <1>1, <2>2, LedgerTypes DEF Explained, TypeOK
  <2> QED
    BY <1>1, <1>2, <2>3, LedgerTypes DEF Extend, Later, Explained, TypeOK
<1>3. CASE f # payer[c]
  <2>1. Credited(f)' = Credited(f)
    BY <1>3 DEF Credited
  <2> QED
    BY <1>1, <1>3, <2>1 DEF Extend, Explained, TypeOK
<1> QED
  BY <1>2, <1>3

\* Every step keeps the ledger.
LEMMA LedgerStep == TypeInv /\ LedgerExplainsEnd /\ [Next]_vars => LedgerExplainsEnd'
<1> SUFFICES ASSUME TypeInv, LedgerExplainsEnd, [Next]_vars PROVE LedgerExplainsEnd'
  OBVIOUS
<1>a. TypeOK /\ TypeOK'
  BY TypeStep DEF TypeInv
<1> SUFFICES /\ code'.used <= MaxUses
             /\ \A f \in families' : end'[f] <= Explained(f)'
  BY DEF LedgerExplainsEnd, Explained, Recording, Credited, Rows
<1> DEFINE Goal == code.used <= MaxUses /\ \A f \in families : end[f] <= Explained(f)
<1>b. Goal
  BY DEF LedgerExplainsEnd, Explained, Recording, Credited, Rows
<1> USE <1>a, <1>b, ChargesAssumption, LimitsAssumption, JobFields, LedgerTypes
    DEF world, money, bounds, months, past, Fault
<1>1. ASSUME NEW c \in Charges, Pay(c) PROVE Goal'
  <2>1. \A g \in Families : Credited(g)' = Credited(g) /\ Recording(g)' = Recording(g)
    BY <1>1 DEF Pay, Credited, Recording
  <2> QED
    BY <1>1, <2>1 DEF Pay, Explained, TypeOK
<1>2. ASSUME NEW c \in Charges, Acknowledge(c) PROVE Goal'
  <2>1. \A g \in Families : Credited(g)' = Credited(g) /\ Recording(g)' = Recording(g)
    BY <1>2 DEF Acknowledge, Credited, Recording
  <2> QED
    BY <1>2, <2>1 DEF Acknowledge, Explained, TypeOK
<1>3. ASSUME NEW c \in Charges, NEW f \in Families, PreCheckout(c, f) PROVE Goal'
  <2>1. c \notin recorded
    BY <1>3 DEF PreCheckout, TypeInv, UnaskedHasNoPayer, TypeOK
  <2>2. \A g \in Families : Credited(g)' = Credited(g)
    BY <1>3, <2>1 DEF PreCheckout, Credited, TypeOK
  <2>3. \A g \in Families : Recording(g)' = Recording(g)
    BY <1>3 DEF PreCheckout, Recording
  <2> QED
    BY <1>3, <2>2, <2>3 DEF PreCheckout, Explained, TypeOK
<1>4. ASSUME NEW w \in Workers, ReadPayer(w) PROVE Goal'
  <2>1. \A f \in Families : Recording(f)' = Recording(f)
    BY <1>4, RecordingKept DEF ReadPayer, Idle
  <2> QED
    BY <1>4, <2>1 DEF ReadPayer, Explained, Credited, TypeOK
<1>5. ASSUME NEW w \in Workers, Credit(w) PROVE Goal'
  <2> DEFINE c == job[w].charge
  <2>1. \A f \in Families : Recording(f)' = Recording(f)
    BY <1>5, RecordingKept DEF Credit, Idle
  <2>2. CASE payer[c] \notin families \/ c \in recorded
    BY <1>5, <2>1, <2>2 DEF Credit, Explained, Credited, TypeOK
  <2>3. CASE payer[c] \in families /\ c \notin recorded
    BY <1>5, <2>1, <2>3, CreditedOne DEF Credit, TypeOK
  <2> QED
    BY <2>2, <2>3
<1>6. ASSUME NEW w \in Workers, Alert(w) PROVE Goal'
  <2>1. \A f \in Families : Recording(f)' = Recording(f)
    BY <1>6, RecordingKept DEF Alert, AfterAlert, Idle
  <2> QED
    BY <1>6, <2>1 DEF Alert, Explained, Credited, TypeOK
<1>7. ASSUME NEW w \in Workers, Refund(w) PROVE Goal'
  <2>1. \A f \in Families : Recording(f)' = Recording(f)
    BY <1>7, RecordingKept DEF Refund, Idle
  <2> QED
    BY <1>7, <2>1 DEF Refund, Explained, Credited, TypeOK
<1>8. ASSUME NEW w \in Workers, ApplyPromo(w) PROVE Goal'
  <2>1. \A f \in Families : Recording(f)' = Recording(f)
    BY <1>8, RecordingKept DEF ApplyPromo, Idle
  <2>2. \A f \in Families : Credited(f)' = Credited(f)
    BY <1>8 DEF ApplyPromo, Credited
  <2>3. job[w].family \in Families
    BY <1>8 DEF ApplyPromo, TypeOK
  <2>4. code'.used <= MaxUses
    BY <1>8 DEF ApplyPromo, TypeOK
  <2>5. ASSUME NEW f \in families PROVE end'[f] <= Explained(f)'
    BY <1>8, <2>1, <2>2, <2>3 DEF ApplyPromo, Extend, Later, Explained, TypeOK
  <2> QED
    BY <1>8, <2>4, <2>5 DEF ApplyPromo
<1>9. ASSUME NEW w \in Workers, RecordGrant(w) PROVE Goal'
  <2>0. PICK f \in Families : job[w] = [kind |-> "record", family |-> f]
    BY <1>9 DEF RecordGrant, TypeOK, Jobs, Idle
  <2>1. /\ job' = [job EXCEPT ![w] = Idle]
        /\ UNCHANGED <<now, families, recorded, payer, end>>
    BY <1>9 DEF RecordGrant, Begin
  <2>2. ASSUME NEW g \in families PROVE end'[g] <= Explained(g)'
    <3>1. CASE g = f
      <4>1. gifts'[f] = gifts[f] + 1 /\ unlogged' = unlogged
        BY <1>9, <2>0, <3>1 DEF RecordGrant, TypeOK
      <4> QED
        BY <2>0, <2>1, <3>1, <4>1, RecordedOne
    <3>2. CASE g # f
      <4>1. gifts'[g] = gifts[g]
        BY <1>9, <2>0, <3>2 DEF RecordGrant, TypeOK
      <4>2. Recording(g)' = Recording(g)
        BY <1>9, <2>0, <2>1, <3>2, RecordingEnds DEF TypeOK
      <4> QED
        BY <1>9, <2>1, <4>1, <4>2 DEF RecordGrant, Explained, Credited, TypeOK
    <3> QED
      BY <3>1, <3>2
  <2> QED
    BY <1>9, <2>2 DEF RecordGrant
<1>10. ASSUME NEW w \in Workers, ReadFails(w) PROVE Goal'
  <2>1. \A f \in Families : Recording(f)' = Recording(f)
    BY <1>10, RecordingKept DEF ReadFails, Idle
  <2> QED
    BY <1>10, <2>1 DEF ReadFails, Explained, Credited, TypeOK
<1>11. ASSUME NEW w \in Workers, CreditFails(w) PROVE Goal'
  <2>1. \A f \in Families : Recording(f)' = Recording(f)
    BY <1>11, RecordingKept DEF CreditFails, Idle
  <2> QED
    BY <1>11, <2>1 DEF CreditFails, Explained, Credited, TypeOK
<1>12. ASSUME NEW w \in Workers, CommitUnanswered(w) PROVE Goal'
  <2>1. \A f \in Families : Recording(f)' = Recording(f)
    BY <1>12, RecordingKept DEF CommitUnanswered
  <2> QED
    BY <1>12, <2>1, CreditedOne DEF CommitUnanswered, TypeOK
<1>13. ASSUME NEW w \in Workers, AlertFails(w) PROVE Goal'
  <2>1. \A f \in Families : Recording(f)' = Recording(f)
    BY <1>13, RecordingKept DEF AlertFails, AfterAlert, Idle
  <2> QED
    BY <1>13, <2>1 DEF AlertFails, Explained, Credited, TypeOK
<1>14. ASSUME NEW w \in Workers, RefundFails(w) PROVE Goal'
  <2>1. \A f \in Families : Recording(f)' = Recording(f)
    BY <1>14, RecordingKept DEF RefundFails, Idle
  <2> QED
    BY <1>14, <2>1 DEF RefundFails, Explained, Credited, TypeOK
<1>15. ASSUME NEW w \in Workers, PromoFails(w) PROVE Goal'
  <2>1. \A f \in Families : Recording(f)' = Recording(f)
    BY <1>15, RecordingKept DEF PromoFails, Idle
  <2> QED
    BY <1>15, <2>1 DEF PromoFails, Explained, Credited, TypeOK
<1>16. ASSUME NEW w \in Workers, RecordFails(w) PROVE Goal'
  <2>0. PICK f \in Families : job[w] = [kind |-> "record", family |-> f]
    BY <1>16 DEF RecordFails, TypeOK, Jobs, Idle
  <2>1. /\ job' = [job EXCEPT ![w] = Idle]
        /\ UNCHANGED <<now, families, recorded, payer, end>>
    BY <1>16 DEF RecordFails, Begin
  <2>2. ASSUME NEW g \in families PROVE end'[g] <= Explained(g)'
    <3>1. CASE g = f
      <4>1. gifts'[f] = gifts[f] /\ unlogged' = unlogged + 1
        BY <1>16, <2>0, <3>1 DEF RecordFails, TypeOK
      <4> QED
        BY <2>0, <2>1, <3>1, <4>1, RecordedOne
    <3>2. CASE g # f
      <4>1. gifts'[g] = gifts[g]
        BY <1>16, <2>0, <3>2 DEF RecordFails, TypeOK
      <4>2. Recording(g)' = Recording(g)
        BY <1>16, <2>0, <2>1, <3>2, RecordingEnds DEF TypeOK
      <4>3. Credited(g)' = Credited(g)
        BY <2>1 DEF Credited
      <4>4. Explained(g)' = Explained(g) + 1
        <5>1. unlogged' = unlogged + 1 /\ g \in Families
          BY <1>16 DEF RecordFails, TypeOK
        <5>2. /\ now \in Nat /\ unlogged \in Nat /\ gifts[g] \in Nat
              /\ Cardinality(Credited(g)) \in Nat /\ Cardinality(Recording(g)) \in Nat
          BY <5>1, LedgerTypes DEF TypeOK
        <5>3. now' = now
          BY <2>1
        <5> QED
          BY <4>1, <4>2, <4>3, <5>1, <5>2, <5>3 DEF Explained
      <4>5. Explained(g) \in Int /\ end[g] \in Int
        BY DEF Explained, TypeOK
      <4> QED
        BY <2>1, <4>4, <4>5
    <3> QED
      BY <3>1, <3>2
  <2> QED
    BY <1>16, <2>2 DEF RecordFails
<1>17. ASSUME NEW w \in Workers, NEW c \in Charges, Fetch(w, c) PROVE Goal'
  <2>1. \A f \in Families : Recording(f)' = Recording(f)
    BY <1>17, RecordingKept DEF Fetch, Idle
  <2> QED
    BY <1>17, <2>1 DEF Fetch, Explained, Credited, TypeOK
<1>18. ASSUME NEW w \in Workers, NEW f \in Families, CheckPromo(w, f) PROVE Goal'
  <2>1. \A g \in Families : Recording(g)' = Recording(g)
    BY <1>18, RecordingKept DEF CheckPromo, Idle
  <2> QED
    BY <1>18, <2>1 DEF CheckPromo, Explained, Credited, TypeOK
<1>19. ASSUME NEW w \in Workers, NEW f \in Families, Grant(w, f) PROVE Goal'
  <2>1. job' = [job EXCEPT ![w] = [kind |-> "record", family |-> f]] /\ job[w] = Idle
    BY <1>19 DEF Grant, Begin
  <2>2. Recording(f)' = Recording(f) \cup {w} /\ w \notin Recording(f)
    BY <2>1 DEF Recording, TypeOK, Idle
  <2>3. Cardinality(Recording(f)') = Cardinality(Recording(f)) + 1
    BY <2>2, FS_AddElement
  <2>4. \A g \in Families \ {f} : Recording(g)' = Recording(g)
    BY <2>1 DEF Recording, TypeOK, Idle
  <2>5. \A g \in Families : Credited(g)' = Credited(g)
    BY <1>19 DEF Grant, Credited
  <2>6. ASSUME NEW g \in families PROVE end'[g] <= Explained(g)'
    <3>1. CASE g = f
      BY <1>19, <2>3, <2>5, <3>1 DEF Grant, Extend, Later, Explained, TypeOK
    <3>2. CASE g # f
      BY <1>19, <2>4, <2>5, <3>2 DEF Grant, Extend, Explained, TypeOK
    <3> QED
      BY <3>1, <3>2
  <2> QED
    BY <1>19, <2>6 DEF Grant
<1>20. ASSUME NEW f \in Families, Cancel(f) PROVE Goal'
  <2>1. \A g \in Families : Credited(g)' = Credited(g) /\ Recording(g)' = Recording(g)
    BY <1>20 DEF Cancel, Credited, Recording
  <2> QED
    BY <1>20, <2>1 DEF Cancel, Explained, TypeOK
<1>21. ASSUME NEW f \in Families, DeleteFamily(f) PROVE Goal'
  <2>1. \A g \in Families \ {f} : Credited(g)' = Credited(g) /\ Recording(g)' = Recording(g)
    BY <1>21 DEF DeleteFamily, Credited, Recording
  <2> QED
    BY <1>21, <2>1 DEF DeleteFamily, Explained, TypeOK
<1>22. CASE ExpirePromo
  <2>1. \A g \in Families : Credited(g)' = Credited(g) /\ Recording(g)' = Recording(g)
    BY <1>22 DEF ExpirePromo, Credited, Recording
  <2> QED
    BY <1>22, <2>1 DEF ExpirePromo, Explained, TypeOK
<1>23. CASE DeletePromo
  <2>1. \A g \in Families : Credited(g)' = Credited(g) /\ Recording(g)' = Recording(g)
    BY <1>23 DEF DeletePromo, Credited, Recording
  <2> QED
    BY <1>23, <2>1 DEF DeletePromo, Explained, TypeOK
<1>24. CASE MonthPasses
  <2>1. \A g \in Families : Credited(g)' = Credited(g) /\ Recording(g)' = Recording(g)
    BY <1>24 DEF MonthPasses, Credited, Recording
  <2> QED
    BY <1>24, <2>1 DEF MonthPasses, Explained, TypeOK
<1>25. CASE Restart
  <2> DEFINE all == {w \in Workers : job[w].kind = "record"}
  <2>1. Cardinality(all) \in Nat /\ IsFiniteSet(all)
    BY WorkersFinite
  <2>2. ASSUME NEW f \in families PROVE end'[f] <= Explained(f)'
    <3>1. f \in Families
      BY DEF TypeOK
    <3>2. Recording(f) \in SUBSET all
      BY DEF Recording
    <3>3. Cardinality(Recording(f)) <= Cardinality(all)
      BY <2>1, <3>2, FS_Subset
    <3>4. Recording(f)' = {}
      BY <1>25 DEF Restart, Recording, Idle
    <3>5. Cardinality(Recording(f)') = 0
      BY <3>4, FS_EmptySet
    <3>6. Credited(f)' = Credited(f)
      BY <1>25 DEF Restart, Credited
    <3> QED
      BY <1>25, <2>1, <3>1, <3>3, <3>5, <3>6 DEF Restart, Explained, TypeOK
  <2> QED
    BY <1>25, <2>2 DEF Restart
<1>26. CASE UNCHANGED vars
  <2>1. \A g \in Families : Credited(g)' = Credited(g) /\ Recording(g)' = Recording(g)
    BY <1>26 DEF vars, Credited, Recording
  <2> QED
    BY <1>26, <2>1 DEF vars, Explained, TypeOK
<1> QED
  BY <1>1, <1>2, <1>3, <1>4, <1>5, <1>6, <1>7, <1>8, <1>9, <1>10, <1>11, <1>12, <1>13,
     <1>14, <1>15, <1>16, <1>17, <1>18, <1>19, <1>20, <1>21, <1>22, <1>23, <1>24, <1>25,
     <1>26
     DEF Next, Step, Failure

-----------------------------------------------------------------------------
(* Paid months.  A grant that is still to be recorded is counted with the  *)
(* rows: its month is there before its row.                                *)

Owed(f) == Cardinality(Credited(f)) + gifts[f] + Cardinality(Recording(f))
Had(f) == served[f] + Left(f) + forfeited[f]

PaidInv == \A f \in families : Owed(f) <= Had(f)

\* The sums are sums of numbers.
LEMMA PaidTypes ==
    ASSUME TypeOK, NEW f \in Families
    PROVE  /\ Owed(f) \in Nat /\ Had(f) \in Nat /\ Left(f) \in Nat
           /\ gifts[f] \in Nat /\ served[f] \in Nat /\ forfeited[f] \in Nat
           /\ Cardinality(Credited(f)) \in Nat /\ Cardinality(Recording(f)) \in Nat
<1>1. /\ end[f] \in Nat /\ now \in Nat
      /\ gifts[f] \in Nat /\ served[f] \in Nat /\ forfeited[f] \in Nat
  BY DEF TypeOK
<1>2. Left(f) \in Nat
  BY <1>1 DEF Left, Later
<1> QED
  BY <1>1, <1>2, LedgerTypes DEF Owed, Had

\* What is owed and had of a family depends on its own rows, grants and months.
LEMMA PaidStays ==
    ASSUME TypeOK, PaidInv, NEW f \in families,
           Cardinality(Credited(f))' = Cardinality(Credited(f)), gifts'[f] = gifts[f],
           Cardinality(Recording(f))' = Cardinality(Recording(f)),
           now' = now, end'[f] = end[f],
           served'[f] = served[f], forfeited'[f] = forfeited[f]
    PROVE  Owed(f)' <= Had(f)'
  BY DEF PaidInv, Owed, Had, Left, Later

\* An extension leaves one month more.
LEMMA OneMonthMore ==
    ASSUME TypeOK, NEW f \in Families, Extend(f), UNCHANGED <<now, months>>
    PROVE  /\ Had(f)' = Had(f) + 1
           /\ \A g \in Families \ {f} : end'[g] = end[g]
<1>1. end[f] \in Nat /\ now \in Nat /\ end'[f] = Later(end[f], now) + 1
  BY DEF Extend, TypeOK
<1>2. Left(f)' = Left(f) + 1 /\ Left(f) \in Nat
  BY <1>1 DEF Left, Later
<1>3. served[f] \in Nat /\ forfeited[f] \in Nat /\ served' = served /\ forfeited' = forfeited
  BY DEF TypeOK, months
<1> QED
  BY <1>2, <1>3 DEF Had, Extend, TypeOK

\* One more row of a charge, one more month.
LEMMA CreditedMonth ==
    ASSUME TypeOK, PaidInv, NEW c \in Charges, c \notin recorded, payer[c] \in families,
           Extend(payer[c]), recorded' = recorded \cup {c},
           UNCHANGED <<now, families, payer, gifts, months>>,
           \A f \in Families : Recording(f)' = Recording(f)
    PROVE  PaidInv'
<1> SUFFICES ASSUME NEW f \in families PROVE Owed(f)' <= Had(f)'
  BY DEF PaidInv
<1>1. f \in Families /\ payer[c] \in Families
  BY DEF TypeOK
<1>2. CASE f = payer[c]
  <2>1. Credited(f)' = Credited(f) \cup {c} /\ c \notin Credited(f)
    BY <1>2 DEF Credited
  <2>2. Cardinality(Credited(f)') = Cardinality(Credited(f)) + 1
    BY <1>1, <2>1, LedgerTypes, FS_AddElement
  <2>3. Owed(f)' = Owed(f) + 1
    BY <1>1, <2>2, PaidTypes DEF Owed
  <2>4. Had(f)' = Had(f) + 1
    BY <1>1, <1>2, OneMonthMore
  <2> QED
    BY <1>1, <2>3, <2>4, PaidTypes DEF PaidInv
<1>3. CASE f # payer[c]
  <2>1. Credited(f)' = Credited(f)
    BY <1>3 DEF Credited
  <2>2. end'[f] = end[f]
    BY <1>1, <1>3, OneMonthMore
  <2> QED
    BY <1>1, <2>1, <2>2, PaidStays DEF months
<1> QED
  BY <1>2, <1>3

\* A grant under way that ends, with its row or without, owes no more.
LEMMA GrantEnds ==
    ASSUME TypeOK, PaidInv, NEW w \in Workers, job[w].kind = "record", Begin(w, Idle),
           UNCHANGED <<now, families, end, months, payer, recorded>>,
           \A f \in families : \/ gifts'[f] = gifts[f]
                               \/ gifts'[f] = gifts[f] + 1 /\ f = job[w].family
    PROVE  PaidInv'
<1> SUFFICES ASSUME NEW f \in families PROVE Owed(f)' <= Had(f)'
  BY DEF PaidInv
<1>0. PICK g \in Families : job[w] = [kind |-> "record", family |-> g]
  BY DEF TypeOK, Jobs, Idle
<1>1. /\ f \in Families /\ job' = [job EXCEPT ![w] = Idle] /\ DOMAIN job = Workers
      /\ Credited(f)' = Credited(f)
  BY DEF TypeOK, Begin, Credited
<1>2. CASE f = g
  <2>1. Recording(f)' = Recording(f) \ {w} /\ w \in Recording(f)
    BY <1>0, <1>1, <1>2, RecordingEnds
  <2>2. Cardinality(Recording(f)') = Cardinality(Recording(f)) - 1
    BY <1>1, <2>1, LedgerTypes, FS_RemoveElement
  <2>3. Owed(f)' <= Owed(f) /\ Owed(f)' \in Int
    BY <1>1, <2>2, PaidTypes DEF Owed
  <2>4. Had(f)' = Had(f)
    BY DEF Had, Left, months
  <2> QED
    BY <1>1, <2>3, <2>4, PaidTypes DEF PaidInv
<1>3. CASE f # g
  <2>1. Recording(f)' = Recording(f)
    BY <1>0, <1>1, <1>3, RecordingEnds
  <2>2. gifts'[f] = gifts[f]
    BY <1>0, <1>3
  <2> QED
    BY <1>1, <2>1, <2>2, PaidStays DEF months
<1> QED
  BY <1>2, <1>3

\* Every step keeps what is paid for.
LEMMA PaidStep == TypeInv /\ PaidInv /\ [Next]_vars => PaidInv'
<1> SUFFICES ASSUME TypeInv, PaidInv, [Next]_vars PROVE PaidInv'
  OBVIOUS
<1>a. TypeOK
  BY DEF TypeInv
<1> USE <1>a DEF world, money, bounds, months, past, Fault
<1>b. ASSUME UNCHANGED <<now, end, served, forfeited, gifts>>, families' \subseteq families,
             \A f \in Families :
                 Credited(f)' = Credited(f) /\ Recording(f)' = Recording(f)
      PROVE  PaidInv'
  BY <1>b, PaidStays DEF PaidInv, TypeOK
<1>1. ASSUME NEW c \in Charges, Pay(c) \/ Acknowledge(c) PROVE PaidInv'
  BY <1>b, <1>1 DEF Pay, Acknowledge, Credited, Recording
<1>3. ASSUME NEW c \in Charges, NEW f \in Families, PreCheckout(c, f) PROVE PaidInv'
  <2>1. c \notin recorded
    BY <1>3, ChargesAssumption DEF PreCheckout, TypeInv, UnaskedHasNoPayer, TypeOK
  <2>2. \A g \in Families : Credited(g)' = Credited(g) /\ Recording(g)' = Recording(g)
    BY <1>3, <2>1 DEF PreCheckout, Credited, Recording, TypeOK
  <2> QED
    BY <1>b, <1>3, <2>2 DEF PreCheckout
<1>4. ASSUME NEW w \in Workers, ReadPayer(w) \/ Alert(w) \/ Refund(w) PROVE PaidInv'
  <2>1. \A f \in Families : Recording(f)' = Recording(f)
    BY <1>4, RecordingKept DEF ReadPayer, Alert, Refund, AfterAlert, Idle
  <2> QED
    BY <1>b, <1>4, <2>1 DEF ReadPayer, Alert, Refund, Credited
<1>5. ASSUME NEW w \in Workers, Credit(w) PROVE PaidInv'
  <2> DEFINE c == job[w].charge
  <2>1. \A f \in Families : Recording(f)' = Recording(f)
    BY <1>5, RecordingKept DEF Credit, Idle
  <2>2. CASE payer[c] \notin families \/ c \in recorded
    BY <1>b, <1>5, <2>1, <2>2 DEF Credit, Credited
  <2>3. CASE payer[c] \in families /\ c \notin recorded
    <3>1. c \in Charges
      BY <1>5, JobFields DEF Credit, TypeOK
    <3> QED
      BY <1>5, <2>1, <2>3, <3>1, CreditedMonth DEF Credit
  <2> QED
    BY <2>2, <2>3
<1>8. ASSUME NEW w \in Workers, ApplyPromo(w) PROVE PaidInv'
  <2>1. \A g \in Families : Recording(g)' = Recording(g) /\ Credited(g)' = Credited(g)
    BY <1>8, RecordingKept DEF ApplyPromo, Idle, Credited
  <2>2. CASE UNCHANGED <<end, gifts>>
    BY <1>b, <1>8, <2>1, <2>2 DEF ApplyPromo
  <2>3. ASSUME NEW f \in families, Extend(f), gifts' = [gifts EXCEPT ![f] = @ + 1]
        PROVE  PaidInv'
    <3>1. f \in Families /\ UNCHANGED <<now, families, months>>
      BY <1>8 DEF ApplyPromo, TypeOK
    <3>2. Had(f)' = Had(f) + 1 /\ \A g \in Families \ {f} : end'[g] = end[g]
      BY <2>3, <3>1, OneMonthMore
    <3>3. gifts'[f] = gifts[f] + 1 /\ Credited(f)' = Credited(f) /\ Recording(f)' = Recording(f)
      BY <2>1, <2>3, <3>1 DEF TypeOK
    <3>4. Owed(f)' = Owed(f) + 1
      BY <3>1, <3>3, PaidTypes DEF Owed
    <3>5. Owed(f)' <= Had(f)'
      BY <3>1, <3>2, <3>4, PaidTypes DEF PaidInv
    <3>6. ASSUME NEW g \in families \ {f} PROVE Owed(g)' <= Had(g)'
      <4>1. g \in Families /\ gifts'[g] = gifts[g] /\ end'[g] = end[g]
        BY <2>3, <3>2 DEF TypeOK
      <4> QED
        BY <2>1, <3>1, <4>1, PaidStays
    <3> QED
      BY <3>1, <3>5, <3>6 DEF PaidInv
  <2> QED
    BY <1>8, <2>2, <2>3 DEF ApplyPromo
<1>9. ASSUME NEW w \in Workers, RecordGrant(w) PROVE PaidInv'
  <2>1. \A f \in families : \/ gifts'[f] = gifts[f]
                            \/ gifts'[f] = gifts[f] + 1 /\ f = job[w].family
    BY <1>9 DEF RecordGrant, TypeOK
  <2> QED
    BY <1>9, <2>1, GrantEnds DEF RecordGrant
<1>10. ASSUME NEW w \in Workers,
              ReadFails(w) \/ CreditFails(w) \/ AlertFails(w) \/ RefundFails(w) \/ PromoFails(w)
       PROVE  PaidInv'
  <2>1. \A f \in Families : Recording(f)' = Recording(f)
    BY <1>10, RecordingKept
       DEF ReadFails, CreditFails, AlertFails, RefundFails, PromoFails, AfterAlert, Idle
  <2> QED
    BY <1>b, <1>10, <2>1
       DEF ReadFails, CreditFails, AlertFails, RefundFails, PromoFails, Credited
<1>12. ASSUME NEW w \in Workers, CommitUnanswered(w) PROVE PaidInv'
  <2>1. \A f \in Families : Recording(f)' = Recording(f)
    BY <1>12, RecordingKept DEF CommitUnanswered
  <2>2. job[w].charge \in Charges
    BY <1>12, JobFields DEF CommitUnanswered, TypeOK
  <2> QED
    BY <1>12, <2>1, <2>2, CreditedMonth DEF CommitUnanswered
<1>16. ASSUME NEW w \in Workers, RecordFails(w) PROVE PaidInv'
  BY <1>16, GrantEnds DEF RecordFails
<1>17. ASSUME NEW w \in Workers,
              \/ \E c \in Charges : Fetch(w, c)
              \/ \E f \in Families : CheckPromo(w, f)
       PROVE  PaidInv'
  <2>1. \A f \in Families : Recording(f)' = Recording(f)
    <3>1. CASE \E c \in Charges : Fetch(w, c)
      BY <3>1, RecordingKept DEF Fetch, Idle
    <3>2. CASE \E f \in Families : CheckPromo(w, f)
      BY <3>2, RecordingKept DEF CheckPromo, Idle
    <3> QED
      BY <1>17, <3>1, <3>2
  <2> QED
    BY <1>b, <1>17, <2>1 DEF Fetch, CheckPromo, Credited
<1>19. ASSUME NEW w \in Workers, NEW f \in Families, Grant(w, f) PROVE PaidInv'
  <2>1. job' = [job EXCEPT ![w] = [kind |-> "record", family |-> f]] /\ job[w] = Idle
    BY <1>19 DEF Grant, Begin
  <2>2. Recording(f)' = Recording(f) \cup {w} /\ w \notin Recording(f)
    BY <2>1 DEF Recording, TypeOK, Idle
  <2>3. Cardinality(Recording(f)') = Cardinality(Recording(f)) + 1
    BY <2>2, LedgerTypes, FS_AddElement
  <2>4. \A g \in Families \ {f} : Recording(g)' = Recording(g)
    BY <2>1 DEF Recording, TypeOK, Idle
  <2>5. \A g \in Families : Credited(g)' = Credited(g)
    BY <1>19 DEF Grant, Credited
  <2>6. Had(f)' = Had(f) + 1 /\ \A g \in Families \ {f} : end'[g] = end[g]
    BY <1>19, OneMonthMore DEF Grant
  <2>7. Owed(f)' = Owed(f) + 1
    BY <1>19, <2>3, <2>5, PaidTypes DEF Owed, Grant
  <2>8. Owed(f)' <= Had(f)'
    BY <1>19, <2>6, <2>7, PaidTypes DEF PaidInv, Grant
  <2>9. ASSUME NEW g \in families \ {f} PROVE Owed(g)' <= Had(g)'
    <3>1. g \in Families
      BY DEF TypeOK
    <3> QED
      BY <1>19, <2>4, <2>5, <2>6, <3>1, PaidStays DEF Grant
  <2> QED
    BY <1>19, <2>8, <2>9 DEF PaidInv, Grant
<1>20. ASSUME NEW f \in Families, Cancel(f) PROVE PaidInv'
  <2>1. \A g \in Families : Credited(g)' = Credited(g) /\ Recording(g)' = Recording(g)
    BY <1>20 DEF Cancel, Credited, Recording
  <2>2. Had(f)' = Had(f)
    <3>1. end'[f] = now /\ now' = now /\ now \in Nat
      BY <1>20 DEF Cancel, TypeOK
    <3>2. Left(f)' = 0
      BY <3>1 DEF Left, Later
    <3>3. served'[f] = served[f] /\ forfeited'[f] = forfeited[f] + Left(f)
      BY <1>20 DEF Cancel, TypeOK
    <3> QED
      BY <3>2, <3>3, PaidTypes DEF Had
  <2>3. Owed(f)' = Owed(f)
    BY <1>20, <2>1 DEF Owed, Cancel
  <2>4. ASSUME NEW g \in families \ {f} PROVE Owed(g)' <= Had(g)'
    <3>1. g \in Families /\ end'[g] = end[g] /\ forfeited'[g] = forfeited[g]
      BY <1>20 DEF Cancel, TypeOK
    <3> QED
      BY <1>20, <2>1, <3>1, PaidStays DEF Cancel
  <2> QED
    BY <1>20, <2>2, <2>3, <2>4 DEF PaidInv, Cancel
<1>21. ASSUME NEW f \in Families, DeleteFamily(f) PROVE PaidInv'
  <2> SUFFICES ASSUME NEW g \in families \ {f} PROVE Owed(g)' <= Had(g)'
    BY <1>21 DEF DeleteFamily, PaidInv
  <2>1. /\ g \in Families /\ Credited(g)' = Credited(g) /\ Recording(g)' = Recording(g)
        /\ end'[g] = end[g] /\ gifts'[g] = gifts[g]
    BY <1>21 DEF DeleteFamily, Credited, Recording, TypeOK
  <2> QED
    BY <1>21, <2>1, PaidStays DEF DeleteFamily
<1>22. CASE ExpirePromo \/ DeletePromo
  BY <1>b, <1>22 DEF ExpirePromo, DeletePromo, Credited, Recording
<1>24. CASE MonthPasses
  <2> SUFFICES ASSUME NEW f \in families PROVE Owed(f)' <= Had(f)'
    BY <1>24 DEF MonthPasses, PaidInv
  <2>1. f \in Families /\ end[f] \in Nat /\ now \in Nat /\ now' = now + 1 /\ end' = end
        /\ forfeited' = forfeited
        /\ served'[f] = IF end[f] > now THEN served[f] + 1 ELSE served[f]
    BY <1>24 DEF MonthPasses, TypeOK
  <2>2. served'[f] + Left(f)' = served[f] + Left(f)
    BY <2>1, PaidTypes DEF Left, Later
  <2>3. served'[f] \in Nat /\ Left(f)' \in Nat
    BY <2>1, PaidTypes DEF Left, Later
  <2>4. Had(f)' = Had(f)
    BY <2>1, <2>2, <2>3, PaidTypes DEF Had
  <2>5. Owed(f)' = Owed(f)
    BY <1>24 DEF Owed, MonthPasses, Credited, Recording
  <2> QED
    BY <2>4, <2>5 DEF PaidInv
<1>25. CASE Restart
  <2> SUFFICES ASSUME NEW f \in families PROVE Owed(f)' <= Had(f)'
    BY <1>25 DEF Restart, PaidInv
  <2>1. f \in Families /\ Credited(f)' = Credited(f) /\ gifts' = gifts
    BY <1>25 DEF Restart, Credited, TypeOK
  <2>2. Recording(f)' = {}
    BY <1>25 DEF Restart, Recording, Idle
  <2>3. Cardinality(Recording(f)') = 0
    BY <2>2, FS_EmptySet
  <2>4. Owed(f)' <= Owed(f) /\ Owed(f)' \in Nat
    BY <2>1, <2>3, PaidTypes DEF Owed
  <2>5. Had(f)' = Had(f)
    BY <1>25 DEF Restart, Had, Left
  <2> QED
    BY <2>1, <2>4, <2>5, PaidTypes DEF PaidInv
<1>26. CASE UNCHANGED vars
  BY <1>b, <1>26 DEF vars, Credited, Recording
<1> QED
  BY <1>1, <1>3, <1>4, <1>5, <1>8, <1>9, <1>10, <1>12, <1>16, <1>17, <1>19, <1>20, <1>21,
     <1>22, <1>24, <1>25, <1>26
     DEF Next, Step, Failure

-----------------------------------------------------------------------------
\* The variables of Payments keep their types, in every reachable state of every
\* instance.
THEOREM TypeCorrect == Spec => []TypeOK
<1>1. TypeInv => TypeOK
  BY DEF TypeInv
<1> QED
  BY InitTypes, TypeStep, <1>1, PTL DEF Spec

\* Every month of the ledger was enjoyed, is still to come or was given up by a
\* cancellation, whichever of the ways to extend a subscription interleave.
THEOREM PaidMonths == Spec => []PaidMonthsAreKept
<1>1. Init => PaidInv
  <2> SUFFICES ASSUME Init, NEW f \in families PROVE Owed(f) <= Had(f)
    BY DEF PaidInv
  <2>1. f \in Families /\ Credited(f) = {} /\ Recording(f) = {} /\ gifts[f] = 0
    BY DEF Init, Credited, Recording, Idle
  <2>2. Owed(f) = 0
    BY <2>1, FS_EmptySet DEF Owed
  <2>3. TypeOK
    BY InitTypes DEF TypeInv
  <2> QED
    BY <2>1, <2>2, <2>3, PaidTypes
<1>2. TypeInv /\ PaidInv => PaidMonthsAreKept
  <2> SUFFICES ASSUME TypeInv, PaidInv, NEW f \in families
               PROVE  Rows(f) <= served[f] + Left(f) + forfeited[f]
    BY DEF PaidMonthsAreKept
  <2>1. f \in Families /\ TypeOK
    BY DEF TypeInv, TypeOK
  <2>2. Rows(f) = Cardinality(Credited(f)) + gifts[f]
    BY DEF Rows, Credited
  <2> QED
    BY <2>1, <2>2, PaidTypes DEF PaidInv, Owed, Had
<1> QED
  BY InitTypes, TypeStep, <1>1, PaidStep, <1>2, PTL DEF Spec

\* Stars are given back only for what was not credited, unless a commit looked
\* failed or Telegram repeated the payment.
THEOREM RefundsAreDue == Spec => []RefundedNotCredited
<1>1. Init => RefundInv
  BY DEF Init, RefundInv, InOneHand, RefundedNotCredited, Holds, Idle
<1>2. RefundInv => RefundedNotCredited
  BY DEF RefundInv
<1> QED
  BY InitTypes, TypeStep, <1>1, RefundStep, <1>2, PTL DEF Spec

\* The months of a family are explained by rows of payments, by grants under way
\* and by rows that were lost; a promo code is used MaxUses times at most.
THEOREM LedgerHolds == Spec => []LedgerExplainsEnd
<1>1. Init => LedgerExplainsEnd
  <2> SUFFICES ASSUME Init PROVE code.used <= MaxUses /\ \A f \in families : end[f] <= Explained(f)
    BY DEF LedgerExplainsEnd, Explained, Recording, Credited, Rows
  <2>1. TypeOK
    BY InitTypes DEF TypeInv
  <2> QED
    BY <2>1, LedgerTypes, LimitsAssumption DEF Init, Explained, TypeOK
<1> QED
  BY InitTypes, TypeStep, <1>1, LedgerStep, PTL DEF Spec
=============================================================================
