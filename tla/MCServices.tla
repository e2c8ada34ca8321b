----------------------------- MODULE MCServices -----------------------------
(* Small instances, for TLC, of what answers a parent's requests: payments, *)
(* the assistant and the rate limiter.  They share no state, so each        *)
(* behaviour explores one of them and leaves the others at rest.            *)
EXTENDS Payments, Assistant, RateLimiter

VARIABLE part
allVars == <<part, vars, chatVars, rateVars>>

ServicesInit ==
    /\ part \in {"payments", "assistant", "limiter"}
    /\ Init /\ AssistantInit /\ RateInit
    /\ part # "payments" => garbled = {}

ServicesNext ==
    \/ part = "payments" /\ Next /\ UNCHANGED <<part, chatVars, rateVars>>
    \/ part = "assistant" /\ AssistantNext /\ UNCHANGED <<part, vars, rateVars>>
    \/ part = "limiter" /\ RateNext /\ UNCHANGED <<part, vars, chatVars>>

ServicesSpec ==
    /\ ServicesInit /\ [][ServicesNext]_allVars
    /\ \A w \in Workers : WF_vars(part = "payments" /\ Step(w))
    /\ \A c \in Charges : WF_vars(part = "payments" /\ \E w \in Workers : Fetch(w, c))
    /\ \A w \in Askers : WF_chatVars(part = "assistant" /\ WorkerStep(w))

\* Every variable of Payments, Assistant and RateLimiter has its type.
ServicesTypeOK == TypeOK /\ AssistantTypeOK /\ RateTypeOK
=============================================================================
