---------------------------- MODULE DailyPromise ----------------------------
(***************************************************************************)
(* What a daily round of messages promises, with no scheduler in it.       *)
(* Every day a round is called at most once to its end; it calls on all    *)
(* who wait for it then, and it is done only when each of them was dealt   *)
(* with.  Nobody who waits is forgotten: who stops waiting was dealt with  *)
(* that day.  A duty is one message to one recipient; it is carried out a  *)
(* second time on a day only if it is excused, and only a trouble excuses. *)
(***************************************************************************)
EXTENDS Naturals

CONSTANTS Rounds, Duties

VARIABLES
    stage,     \* [Rounds -> {"open", "called", "done"}], of today
    waiting,   \* [Rounds -> SUBSET Duties]: who has something to hear
    todo,      \* [Rounds -> SUBSET Duties]: of those called on, the ones left
    dealt,     \* duties dealt with today
    copies,    \* [Duties -> 0..2]: how often each was carried out
    excused,   \* duties a trouble left in doubt
    troubles   \* failures so far

vars == <<stage, waiting, todo, dealt, copies, excused, troubles>>

Init ==
    /\ stage = [r \in Rounds |-> "open"]
    /\ waiting \in [Rounds -> SUBSET Duties]
    /\ todo = [r \in Rounds |-> {}]
    /\ dealt = {} /\ copies = [d \in Duties |-> 0] /\ excused = {} /\ troubles = 0

Smoothly == UNCHANGED <<troubles, excused>>
Troubled == troubles' = troubles + 1 /\ excused \subseteq excused' /\ excused' \subseteq Duties

Call(r) ==
    /\ stage[r] = "open"
    /\ stage' = [stage EXCEPT ![r] = "called"]
    /\ todo' = [todo EXCEPT ![r] = waiting[r]]
    /\ Smoothly /\ UNCHANGED <<waiting, dealt, copies>>

\* Nothing to say, refused, muted, or said before.
Settle(r, ds) ==
    /\ stage[r] = "called"
    /\ todo' = [todo EXCEPT ![r] = @ \ ds]
    /\ dealt' = dealt \cup ds
    /\ Smoothly \/ Troubled
    /\ UNCHANGED <<stage, waiting, copies>>

\* Said once more, as far as the rule allows, and then done with or tried again.
Say(r, d) ==
    /\ stage[r] = "called"
    /\ copies[d] > 0 => d \in excused'
    /\ copies' = [copies EXCEPT ![d] = IF @ < 2 THEN @ + 1 ELSE @]
    /\ \/ todo' = [todo EXCEPT ![r] = @ \ {d}] /\ dealt' = dealt \cup {d}
       \/ UNCHANGED <<todo, dealt>> /\ Troubled
    /\ Smoothly \/ Troubled
    /\ UNCHANGED <<stage, waiting>>

Finish(r) ==
    /\ stage[r] = "called" /\ todo[r] = {}
    /\ stage' = [stage EXCEPT ![r] = "done"]
    /\ Smoothly /\ UNCHANGED <<waiting, todo, dealt, copies>>

\* A trouble, which may end a round before its end.
Fail ==
    /\ Troubled
    /\ \/ UNCHANGED <<stage, todo>>
       \/ \E r \in Rounds : /\ stage[r] = "called"
                            /\ stage' = [stage EXCEPT ![r] = "open"]
                            /\ todo' = [todo EXCEPT ![r] = {}]
    /\ UNCHANGED <<waiting, dealt, copies>>

\* Somebody begins to wait, or has been dealt with and no longer does.
Queue ==
    /\ waiting' \in [Rounds -> SUBSET Duties]
    /\ \A r \in Rounds : waiting[r] \ waiting'[r] \subseteq dealt
    /\ Smoothly /\ UNCHANGED <<stage, todo, dealt, copies>>

\* Between two days no round is under way.  A message that counts for more than
\* a day is still counted, with its excuse.
NewDay ==
    /\ \A r \in Rounds : stage[r] # "called"
    /\ stage' = [r \in Rounds |-> "open"]
    /\ waiting' \in [Rounds -> SUBSET Duties]
    /\ dealt' = {}
    /\ copies' \in [Duties -> 0..2] /\ \A d \in Duties : copies'[d] \in {0, copies[d]}
    /\ excused' \subseteq excused
    /\ \A d \in excused : copies'[d] > 1 => d \in excused'
    /\ UNCHANGED <<todo, troubles>>

Next ==
    \/ \E r \in Rounds : Call(r) \/ Finish(r)
    \/ \E r \in Rounds : \E ds \in SUBSET todo[r] : Settle(r, ds)
    \/ \E r \in Rounds : \E d \in todo[r] : Say(r, d)
    \/ Queue \/ Fail \/ NewDay

Spec == Init /\ [][Next]_vars
=============================================================================
