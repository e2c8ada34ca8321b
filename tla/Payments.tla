------------------------------ MODULE Payments ------------------------------
(***************************************************************************)
(* Subscriptions and money: src/src/db/payments.py, db/promo.py and the    *)
(* handlers of handlers/subscription (payments.py, promo.py, grant.py).    *)
(*                                                                         *)
(* Telegram takes the money and then hands the bot a successful_payment    *)
(* update.  The bot's poller acknowledges an update with the request that  *)
(* follows the one it came with, while worker threads still handle it: an  *)
(* update that was not acknowledged comes again after a restart, one that  *)
(* was is gone with the process.  Every payment, code and grant is worth   *)
(* one month here, and a month is the unit of the clock.                   *)
(***************************************************************************)
EXTENDS Naturals, FiniteSets

CONSTANTS
    Families, Workers,
    Charges,      \* telegram_payment_charge_id
    Stars,        \* charges in Telegram Stars: the only ones the bot refunds
    Nobody,
    MaxUses,      \* promo_codes.max_uses of the one code
    Horizon,      \* bound: months that pass
    MaxGrants,    \* bound: grants and confirmed card transfers
    MaxFaults,    \* bound: failed statements, requests and commits
    MaxCrashes,   \* bound: restarts
    MaxEvents     \* bound: all three together

ASSUME ChargesAssumption ==
    /\ Stars \subseteq Charges
    /\ IsFiniteSet(Charges) /\ IsFiniteSet(Workers) /\ Nobody \notin Families
ASSUME LimitsAssumption ==
    /\ MaxUses \in Nat \ {0} /\ Horizon \in Nat /\ MaxGrants \in Nat
    /\ MaxFaults \in Nat /\ MaxCrashes \in Nat /\ MaxEvents \in Nat

VARIABLES
    now,
    families,     \* rows of families
    end,          \* subscription_end, 0 for NULL
    garbled,      \* charges whose invoice_payload the handler cannot parse
    payer,        \* [Charges -> family of the invoice, or Nobody]
    update,       \* [Charges -> where its successful_payment is]
    recorded,     \* charges with a row in payments
    gifts,        \* [Families -> rows of payments that have no charge]
    code,         \* the row of promo_codes
    job,          \* what each worker thread is in the middle of
    refunded,     \* charges given back
    alerted,      \* charges the administrator was told of
    grants, faults, crashes,
    \* history
    served,       \* [Families -> months that passed under a subscription]
    forfeited,    \* [Families -> months that were left when it was cancelled]
    unlogged,     \* grants that were given and never recorded
    untold,       \* charges whose handling ended and left nothing behind
    repeated,     \* charges delivered again after a restart
    doubted       \* charges whose commit succeeded but looked failed

world == <<now, families, garbled>>
money == <<payer, update, recorded, refunded, alerted>>
bounds == <<grants, faults, crashes>>
months == <<served, forfeited>>
past == <<unlogged, untold, repeated, doubted>>
vars == <<world, end, money, gifts, code, job, bounds, months, past>>

Idle == [kind |-> "idle"]
Jobs ==
    {Idle} \cup [kind : {"paid", "credit", "alert", "refund"}, charge : Charges] \cup
    [kind : {"promo", "record"}, family : Families]
Handled(c) ==
    \E w \in Workers : job[w].kind \in {"paid", "credit", "alert", "refund"} /\ job[w].charge = c
Begin(w, j) == job' = [job EXCEPT ![w] = j]
MayHappen == grants + faults + crashes < MaxEvents
Fault == faults < MaxFaults /\ MayHappen /\ faults' = faults + 1

TypeOK ==
    /\ now \in 1..Horizon + 1 /\ families \in SUBSET Families
    /\ end \in [Families -> Nat]
    /\ served \in [Families -> Nat] /\ forfeited \in [Families -> Nat]
    /\ garbled \in SUBSET Charges /\ payer \in [Charges -> Families \cup {Nobody}]
    /\ update \in [Charges -> {"none", "approved", "refused", "waiting", "fetched", "acked"}]
    /\ recorded \in SUBSET {c \in Charges : payer[c] \in families}
    /\ gifts \in [Families -> Nat]
    /\ code \in [used : Nat, status : {"valid", "expired", "deleted"}]
    /\ job \in [Workers -> Jobs]
    /\ refunded \in SUBSET Stars /\ alerted \in SUBSET Charges
    /\ grants \in 0..MaxGrants /\ faults \in 0..MaxFaults /\ crashes \in 0..MaxCrashes
    /\ unlogged \in Nat /\ untold \in SUBSET Charges
    /\ repeated \in SUBSET Charges /\ doubted \in SUBSET Charges

Init ==
    /\ now = 1 /\ families = Families
    /\ end = [f \in Families |-> 0]
    /\ served = [f \in Families |-> 0] /\ forfeited = [f \in Families |-> 0]
    /\ garbled \in SUBSET Charges
    /\ payer = [c \in Charges |-> Nobody] /\ update = [c \in Charges |-> "none"]
    /\ recorded = {} /\ gifts = [f \in Families |-> 0]
    /\ code = [used |-> 0, status |-> "valid"]
    /\ job = [w \in Workers |-> Idle]
    /\ refunded = {} /\ alerted = {}
    /\ grants = 0 /\ faults = 0 /\ crashes = 0
    /\ unlogged = 0 /\ untold = {} /\ repeated = {} /\ doubted = {}

\* The rows of payments of a family.
Rows(f) == Cardinality({c \in recorded : payer[c] = f}) + gifts[f]

Later(a, b) == IF a > b THEN a ELSE b

\* The months of the subscription that are still to come.
Left(f) == Later(end[f], now) - now

\* Mutant: a new month counts from today.
ExtendFromNow(f) == end' = [end EXCEPT ![f] = now + 1]

\* extend_subscription: one additive UPDATE, which changes nothing when the
\* family is gone.
Extend(f) == end' = [end EXCEPT ![f] = Later(@, now) + 1]
-----------------------------------------------------------------------------
(* Telegram Payments. *)

\* handle_pre_checkout: the family of the invoice must exist, or the family is
\* never asked for money.
PreCheckout(c, f) ==
    /\ update[c] = "none"
    /\ payer' = [payer EXCEPT ![c] = f]
    /\ update' = [update EXCEPT ![c] = IF f \in families THEN "approved" ELSE "refused"]
    /\ UNCHANGED <<world, end, recorded, refunded, alerted, gifts, code, job, months,
                   past, bounds>>

\* Telegram takes the money.
Pay(c) ==
    /\ update[c] = "approved"
    /\ update' = [update EXCEPT ![c] = "waiting"]
    /\ UNCHANGED <<world, end, payer, recorded, refunded, alerted, gifts, code, job,
                   months, past, bounds>>

Fetch(w, c) ==
    /\ job[w] = Idle /\ update[c] = "waiting"
    /\ update' = [update EXCEPT ![c] = "fetched"]
    /\ Begin(w, [kind |-> "paid", charge |-> c])
    /\ UNCHANGED <<world, end, payer, recorded, refunded, alerted, gifts, code, months,
                   past, bounds>>

Acknowledge(c) ==
    /\ update[c] = "fetched"
    /\ update' = [update EXCEPT ![c] = "acked"]
    /\ UNCHANGED <<world, end, payer, recorded, refunded, alerted, gifts, code, job,
                   months, past, bounds>>

\* Language, payload and payer; a payer without a row in parents is recorded
\* as NULL, which changes nothing else.
ReadPayer(w) ==
    /\ job[w].kind = "paid"
    /\ LET c == job[w].charge
       IN Begin(w, [kind |-> IF c \in garbled THEN "alert" ELSE "credit", charge |-> c])
    /\ UNCHANGED <<world, end, money, gifts, code, months, past, bounds>>

\* Those reads are outside any try: the worker drops the update.
ReadFails(w) ==
    /\ job[w].kind = "paid" /\ Fault
    /\ untold' = untold \cup {job[w].charge}
    /\ Begin(w, Idle)
    /\ UNCHANGED <<world, end, money, gifts, code, grants, crashes, months, unlogged,
                   repeated, doubted>>

\* Mutant: a family that is gone is an update of no row and no error.
CreditSilently(w) ==
    /\ job[w].kind = "credit"
    /\ LET c == job[w].charge
       IN IF payer[c] \notin families \/ c \in recorded
          THEN UNCHANGED <<end, recorded>>
          ELSE Extend(payer[c]) /\ recorded' = recorded \cup {c}
    /\ Begin(w, Idle)
    /\ UNCHANGED <<months, world, payer, update, refunded, alerted, gifts, code, past,
                   bounds>>

\* record_payment and extend_subscription in one transaction: a charge that is
\* recorded already only confirms, a family that is gone refuses the row.
Credit(w) ==
    /\ job[w].kind = "credit"
    /\ LET c == job[w].charge
       IN IF payer[c] \notin families
          THEN /\ Begin(w, [kind |-> "alert", charge |-> c])
               /\ UNCHANGED <<end, recorded>>
          ELSE /\ IF c \in recorded
                  THEN UNCHANGED <<end, recorded>>
                  ELSE Extend(payer[c]) /\ recorded' = recorded \cup {c}
               /\ Begin(w, Idle)
    /\ UNCHANGED <<months, world, payer, update, refunded, alerted, gifts, code, past,
                   bounds>>

\* Mutant: the row is committed before the month is added.
CreditFailsHalfway(w) ==
    /\ job[w].kind = "credit" /\ Fault
    /\ LET c == job[w].charge
       IN /\ recorded' = IF payer[c] \in families THEN recorded \cup {c} ELSE recorded
          /\ Begin(w, [kind |-> "alert", charge |-> c])
    /\ UNCHANGED <<world, end, payer, update, refunded, alerted, gifts, code,
                   grants, crashes, months, past>>

CreditFails(w) ==
    /\ job[w].kind = "credit" /\ Fault
    /\ Begin(w, [kind |-> "alert", charge |-> job[w].charge])
    /\ UNCHANGED <<world, end, money, gifts, code, grants, crashes, months, past>>

\* The commit succeeds and its answer is lost.
CommitUnanswered(w) ==
    /\ job[w].kind = "credit" /\ Fault
    /\ LET c == job[w].charge
       IN /\ payer[c] \in families /\ c \notin recorded
          /\ Extend(payer[c]) /\ recorded' = recorded \cup {c}
          /\ doubted' = doubted \cup {c}
          /\ Begin(w, [kind |-> "alert", charge |-> c])
    /\ UNCHANGED <<months, world, payer, update, refunded, alerted, gifts, code, grants,
                   crashes, unlogged, untold, repeated>>

AfterAlert(w, c) == Begin(w, IF c \in Stars THEN [kind |-> "refund", charge |-> c] ELSE Idle)

\* _alert_admin_payment.
Alert(w) ==
    /\ job[w].kind = "alert"
    /\ alerted' = alerted \cup {job[w].charge}
    /\ AfterAlert(w, job[w].charge)
    /\ UNCHANGED <<world, end, payer, update, recorded, refunded, gifts, code, months,
                   past, bounds>>

AlertFails(w) ==
    /\ job[w].kind = "alert" /\ Fault
    /\ untold' = untold \cup {job[w].charge}
    /\ AfterAlert(w, job[w].charge)
    /\ UNCHANGED <<world, end, money, gifts, code, grants, crashes, months, unlogged,
                   repeated, doubted>>

\* _maybe_refund_stars.
Refund(w) ==
    /\ job[w].kind = "refund"
    /\ refunded' = refunded \cup {job[w].charge}
    /\ Begin(w, Idle)
    /\ UNCHANGED <<world, end, payer, update, recorded, alerted, gifts, code, months,
                   past, bounds>>

RefundFails(w) ==
    /\ job[w].kind = "refund" /\ Fault
    /\ Begin(w, Idle)
    /\ UNCHANGED <<world, end, money, gifts, code, grants, crashes, months, past>>
-----------------------------------------------------------------------------
(* Promo codes. *)

\* get_promo_code, then a gate that asks whose family it is.
CheckPromo(w, f) ==
    /\ job[w] = Idle /\ f \in families
    /\ code.status = "valid" /\ code.used < MaxUses
    /\ Begin(w, [kind |-> "promo", family |-> f])
    /\ UNCHANGED <<world, end, money, gifts, code, months, past, bounds>>

\* Mutant: use_promo_code trusts get_promo_code.
ApplyPromoUnguarded(w) ==
    /\ job[w].kind = "promo"
    /\ LET f == job[w].family
       IN IF code.status # "deleted" /\ f \in families
          THEN /\ code' = [code EXCEPT !.used = @ + 1]
               /\ Extend(f) /\ gifts' = [gifts EXCEPT ![f] = @ + 1]
          ELSE UNCHANGED <<code, end, gifts>>
    /\ Begin(w, Idle)
    /\ UNCHANGED <<months, world, money, past, bounds>>

\* _apply_promo_to_family, one transaction: the slot, the month, the row.  The
\* code may have expired meanwhile.
ApplyPromo(w) ==
    /\ job[w].kind = "promo"
    /\ LET f == job[w].family
       IN IF code.status # "deleted" /\ code.used < MaxUses /\ f \in families
          THEN /\ code' = [code EXCEPT !.used = @ + 1]
               /\ Extend(f) /\ gifts' = [gifts EXCEPT ![f] = @ + 1]
          ELSE UNCHANGED <<code, end, gifts>>
    /\ Begin(w, Idle)
    /\ UNCHANGED <<months, world, money, past, bounds>>

PromoFails(w) ==
    /\ job[w].kind = "promo" /\ Fault
    /\ Begin(w, Idle)
    /\ UNCHANGED <<world, end, money, gifts, code, grants, crashes, months, past>>

ExpirePromo ==
    /\ code.status = "valid" /\ code' = [code EXCEPT !.status = "expired"]
    /\ UNCHANGED <<world, end, money, gifts, job, months, past, bounds>>

DeletePromo ==
    /\ code.status # "deleted" /\ code' = [code EXCEPT !.status = "deleted"]
    /\ UNCHANGED <<world, end, money, gifts, job, months, past, bounds>>
-----------------------------------------------------------------------------
(* The administrator: /grant_sub and confirmed card transfers, /cancel_sub, *)
(* deletion of a family.                                                   *)

\* callback_admin_confirm_card, _execute_grant: nothing remembers that the
\* button was pressed, and the month and its row are two transactions.
Grant(w, f) ==
    /\ job[w] = Idle /\ grants < MaxGrants /\ MayHappen /\ f \in families
    /\ grants' = grants + 1
    /\ Extend(f)
    /\ Begin(w, [kind |-> "record", family |-> f])
    /\ UNCHANGED <<months, world, money, gifts, code, faults, crashes, past>>

RecordGrant(w) ==
    /\ job[w].kind = "record"
    /\ LET f == job[w].family
       IN gifts' = IF f \in families THEN [gifts EXCEPT ![f] = @ + 1] ELSE gifts
    /\ Begin(w, Idle)
    /\ UNCHANGED <<world, end, money, code, months, past, bounds>>

RecordFails(w) ==
    /\ job[w].kind = "record" /\ Fault
    /\ unlogged' = unlogged + 1
    /\ Begin(w, Idle)
    /\ UNCHANGED <<world, end, money, gifts, code, grants, crashes, months, untold,
                   repeated, doubted>>

\* cancel_subscription; of one that is over it moves an end in the past only.
Cancel(f) ==
    /\ f \in families /\ end[f] > now
    /\ end' = [end EXCEPT ![f] = now]
    /\ forfeited' = [forfeited EXCEPT ![f] = @ + Left(f)]
    /\ UNCHANGED <<served, world, money, gifts, code, job, past, bounds>>

\* Mutant: the family goes and its payments stay.
DeleteFamilyOnly(f) ==
    /\ f \in families
    /\ families' = families \ {f}
    /\ gifts' = [gifts EXCEPT ![f] = 0]
    /\ end' = [end EXCEPT ![f] = 0]
    /\ UNCHANGED <<months, garbled, now, money, code, job, bounds, past>>

\* delete_family_cascade takes the family's payments along.
DeleteFamily(f) ==
    /\ f \in families
    /\ families' = families \ {f}
    /\ recorded' = {c \in recorded : payer[c] # f}
    /\ gifts' = [gifts EXCEPT ![f] = 0]
    /\ end' = [end EXCEPT ![f] = 0]
    /\ UNCHANGED <<months, garbled, now, payer, update, refunded, alerted, code, job, past,
                   bounds>>
-----------------------------------------------------------------------------
MonthPasses ==
    /\ now <= Horizon /\ now' = now + 1
    /\ served' = [f \in Families |-> IF end[f] > now THEN served[f] + 1 ELSE served[f]]
    /\ UNCHANGED <<families, end, money, gifts, code, job, past, garbled, forfeited,
                   bounds>>

Restart ==
    /\ crashes < MaxCrashes /\ MayHappen /\ crashes' = crashes + 1
    /\ job' = [w \in Workers |-> Idle]
    /\ update' = [c \in Charges |-> IF update[c] = "fetched" THEN "waiting" ELSE update[c]]
    /\ repeated' = repeated \cup {c \in Charges : update[c] = "fetched"}
    /\ untold' = untold \cup {c \in Charges : update[c] = "acked" /\ Handled(c)}
    /\ unlogged' = unlogged + Cardinality({w \in Workers : job[w].kind = "record"})
    /\ UNCHANGED <<world, end, payer, recorded, refunded, alerted, gifts, code,
                   grants, faults, months, doubted>>

\* The next step of a handler that has begun.
Step(w) ==
    \/ ReadPayer(w) \/ Credit(w) \/ Alert(w) \/ Refund(w)
    \/ ApplyPromo(w) \/ RecordGrant(w)

Failure(w) ==
    \/ ReadFails(w) \/ CreditFails(w) \/ CommitUnanswered(w) \/ AlertFails(w) \/ RefundFails(w)
    \/ PromoFails(w) \/ RecordFails(w)

Next ==
    \/ \E c \in Charges : Pay(c) \/ Acknowledge(c) \/ (\E f \in Families : PreCheckout(c, f))
    \/ \E w \in Workers :
          \/ Step(w) \/ Failure(w)
          \/ \E c \in Charges : Fetch(w, c)
          \/ \E f \in Families : CheckPromo(w, f) \/ Grant(w, f)
    \/ \E f \in Families : Cancel(f) \/ DeleteFamily(f)
    \/ ExpirePromo \/ DeletePromo \/ MonthPasses \/ Restart

Spec == Init /\ [][Next]_vars

\* The poller and the worker threads run as long as the process does.
Fairness ==
    /\ \A w \in Workers : WF_vars(Step(w))
    /\ \A c \in Charges : WF_vars(\E w \in Workers : Fetch(w, c))
FairSpec == Spec /\ Fairness
-----------------------------------------------------------------------------
(* Properties *)

\* payments 67-86, 353-376: the months a family has left are accounted for by
\* rows of payments; a grant writes its row last, so a grant under way, or one
\* whose row was lost, is a month ahead.  A payment delivered twice adds no month,
\* and a promo code (db/promo 83-103) adds at most MaxUses, however many users
\* apply it at once and whether or not it expires or is deleted meanwhile.
LedgerExplainsEnd ==
    /\ code.used <= MaxUses
    /\ \A f \in families :
          end[f] <= now + Rows(f) + unlogged
                    + Cardinality({w \in Workers : job[w] = [kind |-> "record", family |-> f]})

\* db/payments 38-64, db/promo 83-103, handlers/subscription/grant 24-45: every
\* month the ledger says was paid for was enjoyed, is still to come or was given
\* up by a cancellation; whichever of the five ways of extending interleave, none
\* falls into a month another has paid for.
PaidMonthsAreKept ==
    \A f \in families : Rows(f) <= served[f] + Left(f) + forfeited[f]

\* handlers/subscription/payments 353-391: Stars are given back only for what
\* was not credited, unless a commit looked failed or Telegram repeated it.
RefundedNotCredited == refunded \cap recorded \subseteq doubted \cup repeated

\* handlers/subscription/payments 300-396: money taken is credited or brought
\* to the administrator's notice in the end, unless a read, the notice itself
\* or the process failed just then.
MoneyIsAccountedFor ==
    \A c \in Charges : update[c] = "waiting" ~> c \in recorded \cup alerted \cup untold

\* handlers/subscription/payments 304-305: any failure on the money path
\* leaves a trace.
FailuresLeaveATrace == untold = {}
=============================================================================
