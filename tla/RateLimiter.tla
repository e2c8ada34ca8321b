---------------------------- MODULE RateLimiter ----------------------------
(***************************************************************************)
(* is_rate_limited of src/src/rate_limiter.py, for one user.  The bot's    *)
(* threads ask it before they do anything costly.  A thread reads the      *)
(* clock first and takes the lock later, so that stamps need not be stored *)
(* in order.  Under the lock it sweeps users that have been silent for     *)
(* GcWindows windows, drops the stamps older than a window and lets the    *)
(* message through unless RateMax are left.                                *)
(*                                                                         *)
(* The user's list only grows at its end, so it is a set of numbered       *)
(* entries: the stamp, and the moment the message was really let through.  *)
(***************************************************************************)
EXTENDS Naturals, FiniteSets

CONSTANTS
    Callers,      \* threads
    RateMax,      \* RATE_LIMIT_MAX
    RateWindow,   \* RATE_LIMIT_WINDOW
    GcInterval,   \* RATE_LIMIT_GC_INTERVAL
    GcWindows,    \* 6
    MaxDelay,     \* bound: how long a thread waits for the lock
    MaxClock      \* bound: moments followed

ASSUME RateAssumption ==
    /\ RateMax \in Nat \ {0} /\ RateWindow \in Nat \ {0} /\ GcInterval \in Nat
    /\ GcWindows \in Nat \ {0} /\ MaxDelay \in 0..(RateWindow - 1)
    /\ MaxClock \in Nat /\ MaxClock >= GcInterval

VARIABLES
    clockNow,   \* time.time(), which does not go back
    stamps,     \* _store[user]: [no, stamp, moment]
    lastGc,
    readAt,     \* the time each waiting thread has read, NotWaiting for the others
    passed,     \* ghost: messages let through so far
    letThrough  \* ghost: those of the last window

rateVars == <<clockNow, stamps, lastGc, readAt, passed, letThrough>>

Moments == 0..MaxClock
NotWaiting == MaxClock + 1
-----------------------------------------------------------------------------
RateInit ==
    /\ clockNow = GcInterval /\ stamps = {} /\ lastGc = 0   \* 0: the epoch, long ago
    /\ readAt = [c \in Callers |-> NotWaiting]
    /\ passed = 0 /\ letThrough = {}

\* A thread that has read the clock gets the lock within MaxDelay.
ClockTicks ==
    /\ clockNow < MaxClock
    /\ \A c \in Callers : readAt[c] # NotWaiting => clockNow < readAt[c] + MaxDelay
    /\ clockNow' = clockNow + 1
    /\ letThrough' = {p \in letThrough : clockNow' < p.moment + RateWindow}
    /\ UNCHANGED <<stamps, lastGc, readAt, passed>>

ReadClock(c) ==
    /\ readAt[c] = NotWaiting
    /\ readAt' = [readAt EXCEPT ![c] = clockNow]
    /\ UNCHANGED <<clockNow, stamps, lastGc, passed, letThrough>>

Sweeping(t) == t >= lastGc + GcInterval
IsLast(p) == p \in stamps /\ \A q \in stamps : q.no <= p.no
\* Deviation: the sweep forgets users that were silent for a moment.
SilentAtOnce(t) == \A p \in stamps : IsLast(p) => t > p.stamp
Silent(t) == \A p \in stamps : IsLast(p) => t > p.stamp + GcWindows * RateWindow
Swept(t) == IF Sweeping(t) /\ Silent(t) THEN {} ELSE stamps
Young(t, s) == {p \in s : t < p.stamp + RateWindow}

\* What is left of a refused message is nothing: it does not extend the wait.
Decide(c) ==
    LET t == readAt[c]
        young == Young(t, Swept(t))
        new == IF Cardinality(young) < RateMax
               THEN {[no |-> passed + 1, stamp |-> t, moment |-> clockNow]} ELSE {}
    IN
    /\ t # NotWaiting
    /\ readAt' = [readAt EXCEPT ![c] = NotWaiting]
    /\ lastGc' = IF Sweeping(t) THEN t ELSE lastGc
    /\ stamps' = young \cup new
    /\ letThrough' = letThrough \cup new
    /\ passed' = passed + Cardinality(new)
    /\ UNCHANGED clockNow

RateNext == ClockTicks \/ \E c \in Callers : ReadClock(c) \/ Decide(c)

RateSpec == RateInit /\ [][RateNext]_rateVars
-----------------------------------------------------------------------------
RateTypeOK ==
    /\ clockNow \in Moments /\ lastGc \in Moments
    /\ readAt \in [Callers -> Moments \cup {NotWaiting}]
    /\ passed \in Nat
    /\ stamps \cup letThrough \subseteq [no : 1..passed, stamp : Moments, moment : Moments]
    /\ Cardinality(stamps) <= RateMax

\* The limit is a sliding one (rate_limiter 30-56): however the calls fall and
\* whenever idle users are swept, no more than RateMax messages pass within any
\* stretch that is shorter than the window by the time a thread waits for the lock.
PassedLately == {p \in letThrough : clockNow + MaxDelay < p.moment + RateWindow}
WindowIsKept == Cardinality(PassedLately) <= RateMax
=============================================================================
