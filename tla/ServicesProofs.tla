--------------------------- MODULE ServicesProofs ---------------------------
(***************************************************************************)
(* Proofs about RateLimiter, for any number of threads, any limit, window  *)
(* and sweep, and about Assistant, for any families, workers, questions,   *)
(* failures and lengths of history.  What the sanitizer computes is proved *)
(* by induction over the messages: SetInduction states induction for sets  *)
(* of numbers, which the provers can instantiate.  At the end the          *)
(* composition of both with Payments.                                      *)
(***************************************************************************)
EXTENDS MCServices, PaymentsProofs, FiniteSetTheorems, SequenceTheorems,
        WellFoundedInduction, TLAPS

-----------------------------------------------------------------------------
(* Induction over the naturals, for sets of them. *)

LEMMA SetInduction ==
    ASSUME NEW T, 0 \in T, \A n \in Nat : n \in T => n + 1 \in T
    PROVE  Nat \subseteq T
<1> SUFFICES ASSUME Nat \ T # {} PROVE FALSE
  OBVIOUS
<1> DEFINE L == OpToRel(<, Nat)
<1>1. IsWellFoundedOn(L, Nat)
  BY NatLessThanWellFounded
<1>2. \A x, y \in Nat : x < y => <<x, y>> \in L
  BY DEF OpToRel
<1> HIDE DEF L
<1>3. PICK x \in Nat \ T : \A y \in Nat \ T : ~ (<<y, x>> \in L)
  BY <1>1, WFMin
<1>4. x \in Nat /\ x # 0 /\ x - 1 \in Nat /\ x - 1 < x /\ (x - 1) + 1 = x
  OBVIOUS
<1>5. <<x - 1, x>> \in L
  BY <1>2, <1>4
<1>6. x - 1 \in T
  BY <1>3, <1>4, <1>5
<1> QED
  BY <1>3, <1>4, <1>6

\* A set of numbers up to n that is not empty has a greatest one.
LEMMA Greatest ==
    ASSUME NEW n \in Nat, NEW S \in SUBSET (1..n), S # {}
    PROVE  \E m \in S : \A k \in S : k <= m
<1> DEFINE T == {i \in Nat : \A R \in SUBSET (1..i) : R # {} => \E m \in R : \A k \in R : k <= m}
<1>1. 0 \in T
  <2>1. 1..0 = {}
    OBVIOUS
  <2>2. \A R \in SUBSET (1..0) : R = {}
    BY <2>1
  <2> QED
    BY <2>2
<1>2. ASSUME NEW i \in Nat, i \in T PROVE i + 1 \in T
  <2> SUFFICES ASSUME NEW R \in SUBSET (1..(i + 1)), R # {}
               PROVE  \E m \in R : \A k \in R : k <= m
    OBVIOUS
  <2>1. CASE i + 1 \in R
    BY <2>1
  <2>2. CASE i + 1 \notin R
    <3>1. R \in SUBSET (1..i)
      BY <2>2
    <3> QED
      BY <1>2, <3>1
  <2> QED
    BY <2>1, <2>2
<1> HIDE DEF T
<1>3. n \in T
  BY <1>1, <1>2, SetInduction
<1> QED
  BY <1>3 DEF T
-----------------------------------------------------------------------------
(* The rate limiter. *)

\* The entries of the list and of the ghost: each let through within MaxDelay of
\* its stamp, in the order of their numbers.
Entries == [no : 1..passed, stamp : Moments, moment : Moments]
Everything == stamps \cup letThrough
EntryInv ==
    /\ passed \in Nat /\ Everything \subseteq Entries
    /\ \A p \in Everything : /\ p.stamp <= p.moment /\ p.moment <= p.stamp + MaxDelay
                             /\ p.moment <= clockNow
    /\ \A p, q \in Everything : /\ p.no <= q.no => p.moment <= q.moment
                                /\ p.no = q.no => p = q

\* A thread that waits for the lock has waited no longer than MaxDelay.
ClockInv ==
    /\ clockNow \in Moments /\ lastGc \in Moments
    /\ readAt \in [Callers -> Moments \cup {NotWaiting}]
    /\ \A c \in Callers : readAt[c] # NotWaiting =>
          readAt[c] <= clockNow /\ clockNow <= readAt[c] + MaxDelay

\* Whoever was let through lately is still in the list, which is never too long.
ListInv ==
    /\ IsFiniteSet(stamps) /\ Cardinality(stamps) <= RateMax
    /\ PassedLately \subseteq stamps

RateInv == EntryInv /\ ClockInv /\ ListInv

LEMMA RateStart == ASSUME RateInit PROVE RateInv
<1>1. EntryInv
  BY DEF RateInit, EntryInv, Everything
<1>2. ClockInv
  BY RateAssumption DEF RateInit, ClockInv, Moments
<1>3. ListInv
  BY RateAssumption, FS_EmptySet DEF RateInit, ListInv, PassedLately
<1> QED
  BY <1>1, <1>2, <1>3 DEF RateInv

LEMMA ClockInvStep == ASSUME ClockInv, [RateNext]_rateVars PROVE ClockInv'
<1> USE RateAssumption
<1>1. CASE ClockTicks
  BY <1>1 DEF ClockTicks, ClockInv, Moments, NotWaiting
<1>2. ASSUME NEW c \in Callers, ReadClock(c) PROVE ClockInv'
  BY <1>2 DEF ReadClock, ClockInv, Moments, NotWaiting
<1>3. ASSUME NEW c \in Callers, Decide(c) PROVE ClockInv'
  <2>1. /\ readAt' = [readAt EXCEPT ![c] = NotWaiting] /\ UNCHANGED clockNow
        /\ lastGc' \in {lastGc, readAt[c]} /\ readAt[c] # NotWaiting
    BY <1>3 DEF Decide
  <2> QED
    BY <2>1 DEF ClockInv
<1>4. CASE UNCHANGED rateVars
  BY <1>4 DEF rateVars, ClockInv
<1> QED
  BY <1>1, <1>2, <1>3, <1>4 DEF RateNext

\* What a decision does to the list and to the ghost.
LEMMA DecideShape ==
    ASSUME RateInv, NEW c \in Callers, Decide(c)
    PROVE  \E young \in SUBSET stamps, new \in SUBSET {[no |-> passed + 1, stamp |-> readAt[c],
                                                       moment |-> clockNow]} :
              /\ stamps' = young \cup new /\ letThrough' = letThrough \cup new
              /\ passed' = (IF new = {} THEN passed ELSE passed + 1)
              /\ new # {} => Cardinality(young) < RateMax
              /\ young = Young(readAt[c], Swept(readAt[c]))
<1> DEFINE young == Young(readAt[c], Swept(readAt[c]))
           this == [no |-> passed + 1, stamp |-> readAt[c], moment |-> clockNow]
           new == IF Cardinality(young) < RateMax THEN {this} ELSE {}
<1>1. young \subseteq stamps
  BY DEF Young, Swept
<1>2. /\ stamps' = young \cup new /\ letThrough' = letThrough \cup new
      /\ passed' = passed + Cardinality(new)
  BY DEF Decide
<1>3. Cardinality(new) = IF new = {} THEN 0 ELSE 1
  BY FS_EmptySet, FS_Singleton
<1>4. passed \in Nat
  BY DEF RateInv, EntryInv
<1>5. passed' = IF new = {} THEN passed ELSE passed + 1
  BY <1>2, <1>3, <1>4
<1>6. new # {} => Cardinality(young) < RateMax
  OBVIOUS
<1>7. new \in SUBSET {this}
  OBVIOUS
<1> HIDE DEF young, new
<1>8. young = Young(readAt[c], Swept(readAt[c]))
  BY DEF young
<1> QED
  BY <1>1, <1>2, <1>5, <1>6, <1>7, <1>8

LEMMA EntryInvStep == ASSUME RateInv, [RateNext]_rateVars PROVE EntryInv'
<1>0. EntryInv /\ ClockInv
  BY DEF RateInv
<1>1. CASE ClockTicks
  <2>1. /\ Everything' \subseteq Everything /\ passed' = passed
        /\ clockNow \in Moments /\ clockNow' = clockNow + 1
    BY <1>0, <1>1 DEF ClockTicks, Everything, ClockInv
  <2>2. Entries' = Entries
    BY <2>1 DEF Entries
  <2>3. \A p \in Everything : p.moment \in Nat
    BY <1>0 DEF EntryInv, Entries, Moments
  <2> QED
    BY <1>0, <2>1, <2>2, <2>3 DEF EntryInv, Moments
<1>2. ASSUME NEW c \in Callers, ReadClock(c) PROVE EntryInv'
  BY <1>0, <1>2 DEF ReadClock, EntryInv, Everything, Entries
<1>3. ASSUME NEW c \in Callers, Decide(c) PROVE EntryInv'
  <2> DEFINE this == [no |-> passed + 1, stamp |-> readAt[c], moment |-> clockNow]
  <2>1. PICK young \in SUBSET stamps, new \in SUBSET {this} :
           /\ stamps' = young \cup new /\ letThrough' = letThrough \cup new
           /\ passed' = (IF new = {} THEN passed ELSE passed + 1)
    BY <1>3, DecideShape
  <2>2. /\ clockNow' = clockNow /\ passed \in Nat
        /\ readAt[c] \in Moments /\ clockNow \in Moments
        /\ readAt[c] <= clockNow /\ clockNow <= readAt[c] + MaxDelay
    BY <1>0, <1>3 DEF Decide, EntryInv, ClockInv
  <2>3. Everything' \subseteq Everything \cup new
    BY <2>1 DEF Everything
  <2>4. passed' \in Nat /\ passed <= passed' /\ (new # {} => passed' = passed + 1)
    BY <2>1, <2>2
  <2>5. \A p \in Everything : /\ p \in Entries /\ p.no \in 1..passed
                              /\ p.moment \in Nat /\ p.stamp \in Nat /\ p.moment <= clockNow
    BY <1>0 DEF EntryInv, Entries, Moments
  <2>6. this.no = passed + 1 /\ this.stamp = readAt[c] /\ this.moment = clockNow
    OBVIOUS
  <2>7. Everything' \subseteq Entries'
    <3>1. 1..passed \subseteq 1..passed'
      BY <2>2, <2>4
    <3>2. Everything \subseteq Entries'
      BY <2>5, <3>1 DEF Entries
    <3>3. new # {} => this \in Entries'
      BY <2>2, <2>4 DEF Entries
    <3> QED
      BY <2>1, <2>3, <3>2, <3>3
  <2> HIDE DEF this
  <2>8. \A p \in Everything' : p \in Everything \/ p = this
    BY <2>1, <2>3
  <2>9. \A p \in Everything' : /\ p.stamp <= p.moment /\ p.moment <= p.stamp + MaxDelay
                               /\ p.moment <= clockNow'
    BY <1>0, <2>2, <2>6, <2>8 DEF EntryInv, Moments
  <2>10. \A p, q \in Everything' : /\ p.no <= q.no => p.moment <= q.moment
                                   /\ p.no = q.no => p = q
    <3> SUFFICES ASSUME NEW p \in Everything', NEW q \in Everything'
                 PROVE  /\ p.no <= q.no => p.moment <= q.moment
                        /\ p.no = q.no => p = q
      OBVIOUS
    <3>1. CASE p \in Everything /\ q \in Everything
      BY <1>0, <3>1 DEF EntryInv
    <3>2. CASE p \in Everything /\ q = this
      BY <2>2, <2>5, <2>6, <3>2
    <3>3. CASE p = this /\ q \in Everything
      BY <2>2, <2>5, <2>6, <3>3
    <3>4. CASE p = this /\ q = this
      BY <2>2, <2>6, <3>4 DEF Moments
    <3> QED
      BY <2>8, <3>1, <3>2, <3>3, <3>4
  <2> QED
    BY <2>4, <2>7, <2>9, <2>10 DEF EntryInv
<1>4. CASE UNCHANGED rateVars
  BY <1>0, <1>4 DEF rateVars, EntryInv, Everything, Entries
<1> QED
  BY <1>1, <1>2, <1>3, <1>4 DEF RateNext

\* The sweep forgets nobody who was let through lately: the last entry is as young.
LEMMA LateIsNotSilent ==
    ASSUME RateInv, NEW c \in Callers, readAt[c] # NotWaiting, NEW p \in PassedLately
    PROVE  p \in Young(readAt[c], Swept(readAt[c]))
<1> USE RateAssumption
<1>0. /\ p \in stamps /\ p \in letThrough /\ clockNow + MaxDelay < p.moment + RateWindow
      /\ EntryInv /\ ClockInv
  BY DEF RateInv, ListInv, PassedLately
<1>1. /\ readAt[c] \in Nat /\ clockNow \in Nat /\ readAt[c] <= clockNow
  BY <1>0 DEF ClockInv, Moments
<1>2. \A q \in stamps : /\ q.no \in 1..passed /\ q.stamp \in Nat /\ q.moment \in Nat
                        /\ q.moment <= q.stamp + MaxDelay
                        /\ p.no <= q.no => p.moment <= q.moment
  BY <1>0 DEF EntryInv, Everything, Entries, Moments
<1>3. ~ Silent(readAt[c])
  <2>1. PICK q \in stamps : IsLast(q)
    <3> DEFINE S == {r.no : r \in stamps}
    <3>1. S \in SUBSET (1..passed) /\ S # {} /\ passed \in Nat
      BY <1>0, <1>2 DEF EntryInv
    <3> HIDE DEF S
    <3>2. PICK m \in S : \A k \in S : k <= m
      BY <3>1, Greatest
    <3> QED
      BY <3>2 DEF S, IsLast
  <2>2. p.moment <= q.moment /\ q.moment <= q.stamp + MaxDelay
        /\ q.stamp \in Nat /\ q.moment \in Nat /\ p.moment \in Nat
    BY <1>0, <1>2, <2>1 DEF IsLast
  <2>3. GcWindows * RateWindow \in Nat /\ GcWindows * RateWindow >= RateWindow
    <3>1. GcWindows - 1 \in Nat /\ (GcWindows - 1) * RateWindow \in Nat
      OBVIOUS
    <3>2. GcWindows * RateWindow = (GcWindows - 1) * RateWindow + RateWindow
      OBVIOUS
    <3> QED
      BY <3>1, <3>2
  <2>4. ~ (readAt[c] > q.stamp + GcWindows * RateWindow)
    BY <1>0, <1>1, <2>2, <2>3
  <2> QED
    BY <2>1, <2>4 DEF Silent
<1>4. readAt[c] < p.stamp + RateWindow
  BY <1>0, <1>1, <1>2
<1> QED
  BY <1>0, <1>3, <1>4 DEF Swept, Young

LEMMA ListInvStep == ASSUME RateInv, [RateNext]_rateVars PROVE ListInv'
<1>0. ListInv /\ EntryInv /\ ClockInv
  BY DEF RateInv
<1>1. CASE ClockTicks
  <2>1. letThrough' \subseteq letThrough /\ stamps' = stamps /\ clockNow' = clockNow + 1
        /\ clockNow \in Nat /\ MaxDelay \in Nat /\ RateWindow \in Nat
    BY <1>0, <1>1, RateAssumption DEF ClockTicks, ClockInv, Moments
  <2>2. \A p \in letThrough : p.moment \in Nat
    BY <1>0 DEF EntryInv, Everything, Entries, Moments
  <2>3. PassedLately' \subseteq PassedLately
    BY <2>1, <2>2 DEF PassedLately
  <2> QED
    BY <1>0, <2>1, <2>3 DEF ListInv
<1>2. ASSUME NEW c \in Callers, ReadClock(c) PROVE ListInv'
  BY <1>0, <1>2 DEF ReadClock, ListInv, PassedLately
<1>3. ASSUME NEW c \in Callers, Decide(c) PROVE ListInv'
  <2> DEFINE this == [no |-> passed + 1, stamp |-> readAt[c], moment |-> clockNow]
  <2>1. PICK young \in SUBSET stamps, new \in SUBSET {this} :
           /\ stamps' = young \cup new /\ letThrough' = letThrough \cup new
           /\ new # {} => Cardinality(young) < RateMax
           /\ young = Young(readAt[c], Swept(readAt[c]))
    BY <1>3, DecideShape
  <2>2. readAt[c] # NotWaiting /\ clockNow' = clockNow
    BY <1>3 DEF Decide
  <2> HIDE DEF this
  <2>3. /\ IsFiniteSet(young) /\ Cardinality(young) <= Cardinality(stamps)
        /\ Cardinality(young) \in Nat /\ Cardinality(stamps) \in Nat
    BY <1>0, FS_Subset, FS_CardinalityType DEF ListInv
  <2>4. IsFiniteSet(stamps') /\ Cardinality(stamps') <= RateMax
    <3>1. CASE new = {}
      <4>1. stamps' = young
        BY <2>1, <3>1
      <4> QED
        BY <1>0, <2>3, <4>1, RateAssumption DEF ListInv
    <3>2. CASE new # {}
      <4>1. stamps' = young \cup {this} /\ Cardinality(young) < RateMax
        BY <2>1, <3>2
      <4>2. /\ IsFiniteSet(young \cup {this})
            /\ Cardinality(young \cup {this}) \in
                  {Cardinality(young), Cardinality(young) + 1}
        BY <2>3, FS_AddElement
      <4> QED
        BY <2>3, <4>1, <4>2, RateAssumption
    <3> QED
      BY <3>1, <3>2
  <2>5. PassedLately \subseteq young
    BY <2>1, <2>2, LateIsNotSilent
  <2>6. PassedLately' \subseteq PassedLately \cup new
    BY <2>1, <2>2 DEF PassedLately
  <2> QED
    BY <2>1, <2>4, <2>5, <2>6 DEF ListInv
<1>4. CASE UNCHANGED rateVars
  BY <1>0, <1>4 DEF rateVars, ListInv, PassedLately
<1> QED
  BY <1>1, <1>2, <1>3, <1>4 DEF RateNext

LEMMA RateInvStep == ASSUME RateInv, [RateNext]_rateVars PROVE RateInv'
  BY EntryInvStep, ClockInvStep, ListInvStep DEF RateInv

LEMMA RateInvariant == RateSpec => []RateInv
  BY RateStart, RateInvStep, PTL DEF RateSpec

\* However the threads' readings of the clock and their turns at the lock fall, and
\* whenever idle users are swept, no more than RateMax messages of a user pass within
\* a window less the longest wait for the lock (rate_limiter 30-56).
THEOREM WindowKept == RateSpec => []WindowIsKept
<1>1. RateInv => WindowIsKept
  <2> SUFFICES ASSUME RateInv PROVE WindowIsKept
    OBVIOUS
  <2>1. ListInv
    BY DEF RateInv
  <2>2. /\ Cardinality(PassedLately) <= Cardinality(stamps)
        /\ Cardinality(PassedLately) \in Nat /\ Cardinality(stamps) \in Nat
    BY <2>1, FS_Subset, FS_CardinalityType DEF ListInv
  <2> QED
    BY <2>1, <2>2, RateAssumption DEF ListInv, WindowIsKept
<1> QED
  BY <1>1, RateInvariant, PTL
-----------------------------------------------------------------------------
(* _sanitize_conversation. *)

\* Begins with a parent's message and alternates.
Alternates(turns) ==
    \A i \in DOMAIN turns : turns[i].role = IF i % 2 = 1 THEN "user" ELSE "assistant"

\* One step of the sanitizer keeps a valid conversation and ends it with a question.
LEMMA CleanedStaysValid ==
    ASSUME NEW kept \in Seq(Messages), Alternates(kept), NEW m \in Messages
    PROVE  /\ Cleaned(kept, m) \in Seq(Messages) /\ Alternates(Cleaned(kept, m))
           /\ m.role = "user" => /\ Cleaned(kept, m) # <<>>
                                 /\ Cleaned(kept, m)[Len(Cleaned(kept, m))] = m
<1> DEFINE c == Cleaned(kept, m)
<1>0. Len(kept) \in Nat /\ DOMAIN kept = 1..Len(kept) /\ (kept # <<>> => Len(kept) \in Nat \ {0})
  BY LenProperties, EmptySeq
<1>00. m.role \in {"user", "assistant"} /\ \A i \in DOMAIN kept : kept[i] \in Messages
  BY <1>0, ElementOfSeq DEF Messages
<1>1. CASE kept = <<>> /\ m.role = "user"
  <2>1. c = <<m>>
    BY <1>1 DEF Cleaned
  <2> HIDE DEF c
  <2>2. c \in Seq(Messages) /\ Len(c) = 1 /\ DOMAIN c = 1..1 /\ c[1] = m /\ c # <<>>
    BY <2>1
  <2> QED
    BY <1>1, <2>2 DEF Alternates, c
<1>2. CASE kept = <<>> /\ m.role # "user"
  BY <1>2 DEF Cleaned
<1>3. CASE kept # <<>> /\ kept[Len(kept)].role = m.role
  <2>1. c = [kept EXCEPT ![Len(kept)] = m]
    BY <1>3 DEF Cleaned
  <2>2. Len(kept) \in 1..Len(kept)
    BY <1>0, <1>3
  <2> HIDE DEF c
  <2>3. /\ c \in Seq(Messages) /\ Len(c) = Len(kept)
        /\ \A j \in 1..Len(kept) : c[j] = IF j = Len(kept) THEN m ELSE kept[j]
    BY <2>1, <2>2, ExceptSeq
  <2>4. DOMAIN c = 1..Len(kept)
    BY <2>3, LenProperties
  <2>5. Alternates(c)
    BY <1>0, <1>3, <2>2, <2>3, <2>4 DEF Alternates
  <2>6. c # <<>> /\ c[Len(c)] = m
    BY <1>0, <1>3, <2>2, <2>3, EmptySeq
  <2> QED
    BY <2>3, <2>5, <2>6 DEF c
<1>4. CASE kept # <<>> /\ kept[Len(kept)].role # m.role
  <2>1. c = Append(kept, m)
    BY <1>4 DEF Cleaned
  <2> HIDE DEF c
  <2>2. /\ c \in Seq(Messages) /\ c # <<>> /\ Len(c) = Len(kept) + 1
        /\ \A j \in 1..Len(kept) : c[j] = kept[j]
        /\ c[Len(kept) + 1] = m
    BY <2>1, AppendProperties
  <2>3. DOMAIN c = 1..(Len(kept) + 1)
    BY <2>2, LenProperties
  <2>4. m.role = IF (Len(kept) + 1) % 2 = 1 THEN "user" ELSE "assistant"
    <3>1. Len(kept) \in DOMAIN kept
      BY <1>0, <1>4
    <3>2. kept[Len(kept)].role = IF Len(kept) % 2 = 1 THEN "user" ELSE "assistant"
      BY <3>1 DEF Alternates
    <3>3. (Len(kept) + 1) % 2 = 1 <=> Len(kept) % 2 # 1
      BY <1>0
    <3> QED
      BY <1>00, <1>4, <3>2, <3>3
  <2>5. Alternates(c)
    BY <1>0, <2>2, <2>3, <2>4 DEF Alternates
  <2> QED
    BY <2>2, <2>5 DEF c
<1> QED
  BY <1>1, <1>2, <1>3, <1>4

\* The recursion of Sanitize is well defined and stays valid all the way.
LEMMA SanitizedIsValid ==
    ASSUME NEW turns \in Seq(Messages)
    PROVE  /\ Sanitize(turns) \in Seq(Messages) /\ Alternates(Sanitize(turns))
           /\ turns # <<>> /\ turns[Len(turns)].role = "user"
                 => /\ Sanitize(turns) # <<>>
                    /\ Sanitize(turns)[Len(Sanitize(turns))] = turns[Len(turns)]
<1> DEFINE Pass(g, i) == IF i = 0 THEN <<>> ELSE Cleaned(g[i - 1], turns[i])
           Exists(n) == \E g : g = [i \in 0..n |-> Pass(g, i)]
           T == {n \in Nat : Exists(n)}
<1>0. Len(turns) \in Nat /\ \A i \in 1..Len(turns) : turns[i] \in Messages
  BY LenProperties, ElementOfSeq
<1>1. 0 \in T
  <2>1. [i \in 0..0 |-> <<>>] = [i \in 0..0 |-> Pass([j \in 0..0 |-> <<>>], i)]
    OBVIOUS
  <2> QED
    BY <2>1
<1>2. ASSUME NEW n \in Nat, n \in T PROVE n + 1 \in T
  <2>1. PICK g : g = [i \in 0..n |-> Pass(g, i)]
    BY <1>2
  <2> DEFINE h == [i \in 0..(n + 1) |-> IF i = n + 1 THEN Cleaned(g[n], turns[i]) ELSE g[i]]
  <2>2. ASSUME NEW i \in 0..(n + 1) PROVE h[i] = Pass(h, i)
    <3>1. CASE i = n + 1
      <4>1. h[i] = Cleaned(g[n], turns[i]) /\ h[i - 1] = g[n] /\ i # 0
        BY <3>1
      <4> QED
        BY <4>1
    <3>2. CASE i \in 1..n
      <4>1. h[i] = g[i] /\ h[i - 1] = g[i - 1] /\ i # 0
        BY <3>2
      <4>2. g[i] = Cleaned(g[i - 1], turns[i])
        BY <2>1, <3>2
      <4> QED
        BY <4>1, <4>2
    <3>3. CASE i = 0
      BY <2>1, <3>3
    <3> QED
      BY <3>1, <3>2, <3>3
  <2>3. h = [i \in 0..(n + 1) |-> Pass(h, i)]
    <3> DEFINE k == [i \in 0..(n + 1) |-> Pass(h, i)]
    <3>1. \A i \in 0..(n + 1) : h[i] = k[i]
      BY <2>2
    <3> QED
      BY <3>1
  <2> HIDE DEF h
  <2> QED
    BY <2>3
<1>3. Exists(Len(turns))
  <2> HIDE DEF Exists
  <2>1. Nat \subseteq T
    <3> HIDE DEF T
    <3> QED
      BY <1>1, <1>2, SetInduction
  <2> QED
    BY <1>0, <2>1
<1> DEFINE kept == CHOOSE g : g = [i \in 0..Len(turns) |-> Pass(g, i)]
<1>4. kept = [i \in 0..Len(turns) |-> Pass(kept, i)]
  BY <1>3
<1>5. Sanitize(turns) = kept[Len(turns)]
  BY DEF Sanitize
<1> HIDE DEF kept
<1>6. /\ kept[0] = <<>>
      /\ \A i \in 1..Len(turns) : kept[i] = Cleaned(kept[i - 1], turns[i])
  BY <1>0, <1>4
<1>7. \A k \in Seq(Messages), m \in Messages : Alternates(k) =>
         /\ Cleaned(k, m) \in Seq(Messages) /\ Alternates(Cleaned(k, m))
         /\ m.role = "user" => Cleaned(k, m) # <<>> /\ Cleaned(k, m)[Len(Cleaned(k, m))] = m
  BY CleanedStaysValid
<1> DEFINE V == {n \in Nat : n <= Len(turns) => kept[n] \in Seq(Messages) /\ Alternates(kept[n])}
<1>8. Nat \subseteq V
  <2>1. 0 \in V
    <3>1. <<>> \in Seq(Messages) /\ Alternates(<<>>)
      BY EmptySeq, LenProperties DEF Alternates
    <3> QED
      BY <1>6, <3>1
  <2>2. ASSUME NEW n \in Nat, n \in V PROVE n + 1 \in V
    <3>1. CASE n + 1 <= Len(turns)
      <4>1. /\ n + 1 \in 1..Len(turns) /\ (n + 1) - 1 = n
            /\ kept[n] \in Seq(Messages) /\ Alternates(kept[n])
        BY <1>0, <2>2, <3>1
      <4>2. kept[n + 1] = Cleaned(kept[n], turns[n + 1]) /\ turns[n + 1] \in Messages
        BY <1>0, <1>6, <4>1
      <4>3. kept[n + 1] \in Seq(Messages) /\ Alternates(kept[n + 1])
        BY <1>7, <4>1, <4>2, Zenon
      <4> QED
        BY <4>3
    <3>2. CASE ~ (n + 1 <= Len(turns))
      BY <3>2
    <3> QED
      BY <3>1, <3>2
  <2> HIDE DEF V
  <2> QED
    BY <2>1, <2>2, SetInduction
<1>9. Sanitize(turns) \in Seq(Messages) /\ Alternates(Sanitize(turns))
  BY <1>0, <1>5, <1>8
<1>10. ASSUME turns # <<>>, turns[Len(turns)].role = "user"
      PROVE  /\ Sanitize(turns) # <<>>
             /\ Sanitize(turns)[Len(Sanitize(turns))] = turns[Len(turns)]
  <2>1. Len(turns) \in 1..Len(turns) /\ Len(turns) - 1 \in Nat /\ Len(turns) - 1 <= Len(turns)
    BY <1>0, <1>10, EmptySeq
  <2>2. kept[Len(turns)] = Cleaned(kept[Len(turns) - 1], turns[Len(turns)])
    BY <1>6, <2>1
  <2>3. kept[Len(turns) - 1] \in Seq(Messages) /\ Alternates(kept[Len(turns) - 1])
    BY <1>8, <2>1
  <2>4. turns[Len(turns)] \in Messages
    BY <1>0, <2>1
  <2> DEFINE c == Cleaned(kept[Len(turns) - 1], turns[Len(turns)])
  <2>5. c # <<>> /\ c[Len(c)] = turns[Len(turns)]
    BY <1>10, <1>7, <2>3, <2>4, Zenon
  <2>6. Sanitize(turns) = c
    BY <1>5, <2>2, Zenon
  <2> HIDE DEF c
  <2> QED
    BY <2>5, <2>6
<1> QED
  BY <1>9, <1>10
-----------------------------------------------------------------------------
(* The conversations of the assistant. *)


Asked(f, n) == \E i \in DOMAIN history[f] : history[f][i] = Message("user", n)
Unasked(w) == /\ work[w] # Resting /\ ~ work[w].again
              /\ work[w].at \in {"state", "member", "read", "save"}

\* A worker's turn: a retry stores nothing, the question of whoever is past
\* storing it stands in the history unless that was cleared, and the
\* conversation that is sent is valid.
TurnInv(w) ==
    /\ work[w].q \in 1..asked
    /\ work[w].at \in {"state", "save"} => ~ work[w].again
    /\ work[w].at \in {"state", "member", "read", "save", "show"} => work[w].calls = 0
    /\ (work[w].again \/ work[w].at \in {"show", "call", "keep"}) /\ work[w].q \notin wiped
          => Asked(work[w].home, work[w].q)
    /\ work[w].at = "call" => CallIsValid(w)
WorkInv == \A w \in Askers : work[w] # Resting => TurnInv(w)

\* A question that is not stored yet is its worker's own.
FreshInv ==
    /\ \A w \in Askers, f \in Homes : Unasked(w) => ~ Asked(f, work[w].q)
    /\ \A w, v \in Askers : Unasked(w) /\ Unasked(v) /\ work[w].q = work[v].q => w = v

HistoryInv ==
    \A f \in Homes : /\ \A i \in DOMAIN history[f] : history[f][i].q \in 1..asked
                     /\ HistoryIsSound(f)

TurnTypes ==
    /\ chatState \in Homes \cup {"none", "elsewhere"} /\ asked \in 0..MaxQuestions
    /\ history \in [Homes -> Seq(Messages)]
    /\ work \in [Askers -> {Resting} \cup Assignments]
ChatInv == TurnTypes /\ WorkInv /\ FreshInv /\ HistoryInv

\* What a worker has at hand.
LEMMA TurnFields ==
    ASSUME TurnTypes, NEW w \in Askers, work[w] # Resting
    PROVE  /\ work[w] \in Assignments /\ work[w].at \in Steps /\ work[w].home \in Homes
           /\ work[w].q \in Numbers /\ work[w].calls \in 0..ToolLimit
           /\ work[w].turns \in Seq(Messages)
<1>1. work[w] \in Assignments
  BY DEF TurnTypes
<1> QED
  BY <1>1 DEF Assignments

LEMMA RestingIsIdle ==
    ASSUME TurnTypes, NEW w \in Askers
    PROVE  At(w, "idle") <=> work[w] = Resting
<1>1. work[w] = Resting \/ work[w].at \in Steps
  BY TurnFields
<1> QED
  BY <1>1 DEF At, Resting, Steps

LEMMA RecentMessages ==
    ASSUME NEW h \in Seq(Messages)
    PROVE  /\ Recent(h) \in Seq(Messages)
           /\ \A i \in DOMAIN Recent(h) : \E j \in DOMAIN h : Recent(h)[i] = h[j]
<1> DEFINE m == IF Len(h) > HistoryLimit THEN Len(h) - HistoryLimit + 1 ELSE 1
<1>1. /\ Len(h) \in Nat /\ HistoryLimit \in Nat /\ DOMAIN h = 1..Len(h)
      /\ \A i \in 1..Len(h) : h[i] \in Messages
  BY AssistantAssumption, LenProperties, ElementOfSeq
<1>2. m \in Nat /\ m >= 1
  BY <1>1
<1>3. Recent(h) = SubSeq(h, m, Len(h))
  BY DEF Recent
<1> HIDE DEF m
<1>4. \A i \in m..Len(h) : h[i] \in Messages
  BY <1>1, <1>2
<1>5. /\ SubSeq(h, m, Len(h)) \in Seq(Messages)
      /\ Len(SubSeq(h, m, Len(h))) = IF m <= Len(h) THEN Len(h) - m + 1 ELSE 0
      /\ \A i \in 1..(Len(h) - m + 1) : SubSeq(h, m, Len(h))[i] = h[m + i - 1]
  BY <1>1, <1>2, <1>4, SubSeqProperties
<1>6. ASSUME NEW i \in DOMAIN Recent(h) PROVE \E j \in DOMAIN h : Recent(h)[i] = h[j]
  <2>1. i \in 1..(Len(h) - m + 1) /\ m + i - 1 \in 1..Len(h)
    BY <1>1, <1>2, <1>3, <1>5, <1>6, LenProperties
  <2> QED
    BY <1>1, <1>3, <1>5, <2>1
<1> QED
  BY <1>3, <1>5, <1>6

\* The question a retry repeats stands in the history.
LEMMA LatestIsAsked ==
    ASSUME TurnTypes, NEW f \in Homes, NEW n \in LatestQuestions(Recent(history[f]))
    PROVE  Asked(f, n)
<1>1. history[f] \in Seq(Messages)
  BY DEF TurnTypes
<1>2. PICK i \in DOMAIN Recent(history[f]) :
         Recent(history[f])[i].role = "user" /\ Recent(history[f])[i].q = n
  BY DEF LatestQuestions
<1>3. PICK j \in DOMAIN history[f] : Recent(history[f])[i] = history[f][j]
  BY <1>1, RecentMessages
<1>4. history[f][j] \in Messages
  BY <1>1, ElementOfSeq, LenProperties
<1>5. history[f][j] = Message("user", n)
  BY <1>2, <1>3, <1>4 DEF Messages, Message
<1> QED
  BY <1>5 DEF Asked

\* What is sent first: valid, and the question is its last message.
LEMMA TalkIsValid ==
    ASSUME NEW turns \in Seq(Messages), NEW n \in Numbers
    PROVE  /\ Conversation(turns, n) \in Seq(Messages) /\ Alternates(Conversation(turns, n))
           /\ Conversation(turns, n) # <<>>
           /\ Conversation(turns, n)[Len(Conversation(turns, n))] = Message("user", n)
<1> DEFINE m == Message("user", n)
           all == Append(turns, m)
<1>1. m \in Messages /\ m.role = "user"
  BY DEF Message, Messages
<1> HIDE DEF m
<1>2. all \in Seq(Messages) /\ all # <<>> /\ all[Len(all)] = m
  BY <1>1, AppendProperties
<1>3. Conversation(turns, n) = Sanitize(all)
  BY DEF Conversation, m
<1> HIDE DEF all
<1> QED
  BY <1>1, <1>2, <1>3, SanitizedIsValid DEF m

\* A turn that did not change keeps its invariant as long as the history grows,
\* or its question counts as wiped.
LEMMA SameTurn ==
    ASSUME NEW v \in Askers, work'[v] = work[v], TurnInv(v), asked \in Nat,
           asked' \in {asked, asked + 1}, wiped \subseteq wiped',
           work[v].q \notin wiped' /\ Asked(work[v].home, work[v].q)
               => Asked(work[v].home, work[v].q)'
    PROVE  TurnInv(v)'
<1>1. work'[v].q \in 1..asked'
  BY DEF TurnInv
<1>2. /\ work'[v].at \in {"state", "save"} => ~ work'[v].again
      /\ work'[v].at \in {"state", "member", "read", "save", "show"} => work'[v].calls = 0
  BY DEF TurnInv
<1>3. (work[v].again \/ work[v].at \in {"show", "call", "keep"}) /\ work[v].q \notin wiped'
          => Asked(work[v].home, work[v].q)'
  BY DEF TurnInv
<1>4. work'[v].at = "call" => CallIsValid(v)'
  BY DEF TurnInv, CallIsValid
<1> HIDE DEF Asked
<1> QED
  BY <1>1, <1>2, <1>3, <1>4 DEF TurnInv

\* Nothing is stored or asked, and at most one worker's turn goes on.
LEMMA OneTurn ==
    ASSUME ChatInv, UNCHANGED <<history, asked, wiped>>, NEW w \in Askers,
           \A v \in Askers : v # w => work'[v] \in {work[v], Resting},
           work'[w] # Resting => TurnInv(w)',
           Unasked(w)' => Unasked(w) /\ work'[w].q = work[w].q
    PROVE  WorkInv' /\ FreshInv' /\ HistoryInv'
<1>0. WorkInv /\ FreshInv /\ HistoryInv /\ TurnTypes
  BY DEF ChatInv
<1>1. WorkInv'
  <2> SUFFICES ASSUME NEW v \in Askers, work'[v] # Resting PROVE TurnInv(v)'
    BY DEF WorkInv, Askers
  <2>1. CASE v = w
    BY <2>1
  <2>2. CASE v # w
    <3>1. work'[v] = work[v] /\ TurnInv(v)
      BY <1>0, <2>2 DEF WorkInv
    <3>2. Asked(work[v].home, work[v].q) => Asked(work[v].home, work[v].q)'
      BY <3>1 DEF Asked
    <3>3. asked \in Nat
      BY <1>0, AssistantAssumption DEF TurnTypes
    <3> QED
      BY <3>1, <3>2, <3>3, SameTurn
  <2> QED
    BY <2>1, <2>2
<1>2. \A v \in Askers : Unasked(v)' => Unasked(v) /\ work'[v].q = work[v].q
  BY DEF Unasked
<1>3. FreshInv'
  <2>1. \A v \in Askers, f \in Homes : Unasked(v)' => ~ Asked(f, work[v].q)'
    BY <1>0, <1>2 DEF FreshInv, Asked
  <2>2. \A v, u \in Askers : Unasked(v)' /\ Unasked(u)' /\ work'[v].q = work'[u].q => v = u
    BY <1>0, <1>2 DEF FreshInv
  <2> QED
    BY <2>1, <2>2 DEF FreshInv, Asked, Askers
<1>4. HistoryInv'
  BY <1>0 DEF HistoryInv, HistoryIsSound
<1> QED
  BY <1>1, <1>3, <1>4

\* Workers come to rest, one or many.
LEMMA OnlyRests ==
    ASSUME ChatInv, UNCHANGED <<history, asked, wiped>>,
           \A v \in Askers : work'[v] \in {work[v], Resting}
    PROVE  WorkInv' /\ FreshInv' /\ HistoryInv'
<1>1. CASE Askers = {}
  BY <1>1 DEF ChatInv, WorkInv, FreshInv, HistoryInv, HistoryIsSound, Askers
<1>2. ASSUME NEW w \in Askers PROVE WorkInv' /\ FreshInv' /\ HistoryInv'
  <2>1. work'[w] # Resting => TurnInv(w)'
    <3> SUFFICES ASSUME work'[w] # Resting PROVE TurnInv(w)'
      OBVIOUS
    <3>1. work'[w] = work[w] /\ TurnInv(w) /\ asked \in Nat
      BY AssistantAssumption DEF ChatInv, WorkInv, TurnTypes
    <3>2. Asked(work[w].home, work[w].q) => Asked(work[w].home, work[w].q)'
      BY <3>1 DEF Asked
    <3> QED
      BY <3>1, <3>2, SameTurn
  <2>2. Unasked(w)' => Unasked(w) /\ work'[w].q = work[w].q
    BY DEF Unasked
  <2> QED
    BY <2>1, <2>2, OneTurn
<1> QED
  BY <1>1, <1>2

\* A question is asked, in the chat or on the dashboard.
LEMMA NewTurn ==
    ASSUME ChatInv, UNCHANGED <<history, wiped>>, asked' = asked + 1,
           NEW w \in Askers, NEW turn, work' = [work EXCEPT ![w] = turn],
           turn.at \in {"state", "read"}, turn.q = asked + 1, turn.again = FALSE, turn.calls = 0
    PROVE  WorkInv' /\ FreshInv' /\ HistoryInv'
<1>0. WorkInv /\ FreshInv /\ HistoryInv /\ TurnTypes /\ asked \in Nat
  BY AssistantAssumption DEF ChatInv, TurnTypes
<1>1. \A v \in Askers : v # w => work'[v] = work[v]
  BY <1>0 DEF TurnTypes
<1>2. /\ work'[w].at \in {"state", "read"} /\ work'[w].q = asked + 1
      /\ work'[w].again = FALSE /\ work'[w].calls = 0
  BY <1>0 DEF TurnTypes
<1>3. \A v \in Askers, g \in Homes : Asked(g, work[v].q)' <=> Asked(g, work'[v].q)
  BY DEF Asked
<1>4. \A g \in Homes : ~ Asked(g, asked + 1)
  BY <1>0 DEF HistoryInv, Asked, Message
<1>5. WorkInv'
  <2> SUFFICES ASSUME NEW v \in Askers, work'[v] # Resting PROVE TurnInv(v)'
    BY DEF WorkInv, Askers
  <2>1. CASE v = w
    <3>1. work'[w].q \in 1..asked'
      BY <1>0, <1>2
    <3>2. /\ work'[w].at \notin {"show", "call", "keep"} /\ work'[w].again = FALSE
          /\ work'[w].calls = 0
      BY <1>2
    <3> QED
      BY <2>1, <3>1, <3>2 DEF TurnInv
  <2>2. CASE v # w
    <3>1. work'[v] = work[v] /\ TurnInv(v)
      BY <1>0, <1>1, <2>2 DEF WorkInv
    <3>2. Asked(work[v].home, work[v].q) => Asked(work[v].home, work[v].q)'
      BY <3>1 DEF Asked
    <3> QED
      BY <1>0, <3>1, <3>2, SameTurn
  <2> QED
    BY <2>1, <2>2
<1>6. \A v \in Askers : Unasked(v)' /\ v # w => Unasked(v) /\ work'[v].q \in 1..asked
  BY <1>0, <1>1 DEF Unasked, WorkInv, TurnInv
<1>7. FreshInv'
  <2>1. \A v \in Askers, g \in Homes : Unasked(v)' => ~ Asked(g, work[v].q)'
    <3> SUFFICES ASSUME NEW v \in Askers, NEW g \in Homes, Unasked(v)' PROVE ~ Asked(g, work'[v].q)
      BY <1>3
    <3>1. CASE v = w
      BY <1>2, <1>4, <3>1
    <3>2. CASE v # w
      BY <1>0, <1>1, <1>6, <3>2 DEF FreshInv
    <3> QED
      BY <3>1, <3>2
  <2>2. \A v, u \in Askers : Unasked(v)' /\ Unasked(u)' /\ work'[v].q = work'[u].q => v = u
    <3> SUFFICES ASSUME NEW v \in Askers, NEW u \in Askers, Unasked(v)', Unasked(u)', v # u
                 PROVE  work'[v].q # work'[u].q
      OBVIOUS
    <3>1. CASE v # w /\ u # w
      BY <1>0, <1>1, <1>6, <3>1 DEF FreshInv
    <3>2. CASE v = w
      <4>1. work'[u].q \in 1..asked
        BY <1>6, <3>2
      <4> QED
        BY <1>0, <1>2, <3>2, <4>1
    <3>3. CASE u = w
      <4>1. work'[v].q \in 1..asked
        BY <1>6, <3>3
      <4> QED
        BY <1>0, <1>2, <3>3, <4>1
    <3> QED
      BY <3>1, <3>2, <3>3
  <2> QED
    BY <2>1, <2>2 DEF FreshInv, Askers
<1>8. HistoryInv'
  <2>1. 1..asked \subseteq 1..asked'
    BY <1>0
  <2> QED
    BY <1>0, <2>1 DEF HistoryInv, HistoryIsSound
<1> QED
  BY <1>5, <1>7, <1>8

LEMMA ClearStep ==
    ASSUME ChatInv, NEW f \in Homes, ClearHistory(f)
    PROVE  WorkInv' /\ FreshInv' /\ HistoryInv'
<1>0. WorkInv /\ FreshInv /\ HistoryInv /\ TurnTypes /\ asked \in Nat
  BY AssistantAssumption DEF ChatInv, TurnTypes
<1>1. /\ history' = [history EXCEPT ![f] = <<>>] /\ wiped \subseteq wiped'
      /\ \A v \in Askers : work[v] # Resting => work[v].q \in wiped'
      /\ work' = work /\ asked' = asked
  BY DEF ClearHistory
<1>2. history'[f] = <<>> /\ \A g \in Homes : g # f => history'[g] = history[g]
  BY <1>0, <1>1 DEF TurnTypes
<1>3. WorkInv'
  <2> SUFFICES ASSUME NEW v \in Askers, work'[v] # Resting PROVE TurnInv(v)'
    BY DEF WorkInv, Askers
  <2>1. work'[v] = work[v] /\ TurnInv(v) /\ work[v].q \in wiped'
    BY <1>0, <1>1 DEF WorkInv
  <2> QED
    BY <1>0, <1>1, <2>1, SameTurn
<1>4. \A g \in Homes, v \in Askers : Asked(g, work[v].q)' => Asked(g, work[v].q)
  BY <1>1, <1>2 DEF Asked
<1>5. FreshInv'
  <2>1. \A v \in Askers : Unasked(v)' <=> Unasked(v)
    BY <1>1 DEF Unasked
  <2> QED
    BY <1>0, <1>1, <1>4, <2>1 DEF FreshInv, Askers
<1>6. HistoryInv'
  <2> SUFFICES ASSUME NEW g \in Homes
               PROVE  (\A i \in DOMAIN history'[g] : history'[g][i].q \in 1..asked')
                      /\ HistoryIsSound(g)'
    BY DEF HistoryInv
  <2>1. CASE g = f
    BY <1>2, <2>1 DEF HistoryIsSound
  <2>2. CASE g # f
    BY <1>0, <1>1, <1>2, <2>2 DEF HistoryInv, HistoryIsSound
  <2> QED
    BY <2>1, <2>2
<1> QED
  BY <1>3, <1>5, <1>6

\* What a message added to a history changes.
LEMMA Stored ==
    ASSUME TurnTypes, NEW f \in Homes, NEW m \in Messages,
           history' = [history EXCEPT ![f] = Append(@, m)]
    PROVE  /\ \A g \in Homes : g # f => history'[g] = history[g]
           /\ Len(history[f]) \in Nat /\ DOMAIN history[f] = 1..Len(history[f])
           /\ DOMAIN history'[f] = 1..(Len(history[f]) + 1)
           /\ \A i \in DOMAIN history[f] : history'[f][i] = history[f][i]
           /\ history'[f][Len(history[f]) + 1] = m
<1>1. history[f] \in Seq(Messages) /\ history'[f] = Append(history[f], m)
  BY DEF TurnTypes
<1>2. \A g \in Homes : g # f => history'[g] = history[g]
  BY DEF TurnTypes
<1>3. /\ Append(history[f], m) \in Seq(Messages)
      /\ Len(Append(history[f], m)) = Len(history[f]) + 1
      /\ \A i \in 1..Len(history[f]) : Append(history[f], m)[i] = history[f][i]
      /\ Append(history[f], m)[Len(history[f]) + 1] = m
  BY <1>1, AppendProperties
<1>4. Len(history[f]) \in Nat /\ DOMAIN history[f] = 1..Len(history[f])
  BY <1>1, LenProperties
<1>5. DOMAIN history'[f] = 1..(Len(history[f]) + 1)
  BY <1>1, <1>3, LenProperties
<1> QED
  BY <1>1, <1>2, <1>3, <1>4, <1>5

\* A worker with the question q at home f stores it or its answer.
LEMMA HistoryGrows ==
    ASSUME ChatInv, UNCHANGED <<asked, wiped>>, NEW w \in Askers, NEW m \in Messages,
           NEW f \in Homes, history' = [history EXCEPT ![f] = Append(@, m)],
           m.q \in 1..asked,
           m.role = "user" => ~ Asked(f, m.q),
           m.role = "assistant" /\ m.q \notin wiped => Asked(f, m.q)
    PROVE  HistoryInv'
<1>0. HistoryInv /\ TurnTypes
  BY DEF ChatInv
<1> DEFINE n == Len(history[f])
<1>1. /\ \A g \in Homes : g # f => history'[g] = history[g]
      /\ n \in Nat /\ DOMAIN history[f] = 1..n /\ DOMAIN history'[f] = 1..(n + 1)
      /\ \A i \in 1..n : history'[f][i] = history[f][i]
      /\ history'[f][n + 1] = m
  BY <1>0, Stored
<1>2. m.role = "user" => m = Message("user", m.q)
  BY DEF Messages, Message
<1> HIDE DEF n
<1> SUFFICES ASSUME NEW g \in Homes
             PROVE  (\A i \in DOMAIN history'[g] : history'[g][i].q \in 1..asked')
                    /\ HistoryIsSound(g)'
  BY DEF HistoryInv
<1>3. CASE g # f
  BY <1>0, <1>1, <1>3 DEF HistoryInv, HistoryIsSound
<1>4. CASE g = f
  <2>1. \A i \in 1..(n + 1) : i \in 1..n \/ i = n + 1
    BY <1>1
  <2>2. HistoryIsSound(f) /\ \A i \in 1..n : history[f][i].q \in 1..asked
    BY <1>0, <1>1 DEF HistoryInv
  <2>3. \A i \in DOMAIN history'[f] : history'[f][i].q \in 1..asked'
    BY <1>1, <2>1, <2>2
  <2>4. \A i, j \in 1..(n + 1) :
           history'[f][i].role = "user" /\ history'[f][i] = history'[f][j] => i = j
    <3> SUFFICES ASSUME NEW i \in 1..(n + 1), NEW j \in 1..(n + 1),
                        history'[f][i].role = "user", history'[f][i] = history'[f][j]
                 PROVE  i = j
      OBVIOUS
    <3>1. CASE i \in 1..n /\ j \in 1..n
      BY <1>1, <2>2, <3>1 DEF HistoryIsSound
    <3>2. CASE i = n + 1 /\ j \in 1..n
      <4>1. m.role = "user" /\ history[f][j] = Message("user", m.q)
        BY <1>1, <1>2, <3>2
      <4> QED
        BY <1>1, <3>2, <4>1 DEF Asked
    <3>3. CASE j = n + 1 /\ i \in 1..n
      <4>1. m.role = "user" /\ history[f][i] = Message("user", m.q)
        BY <1>1, <1>2, <3>3
      <4> QED
        BY <1>1, <3>3, <4>1 DEF Asked
    <3> QED
      BY <2>1, <3>1, <3>2, <3>3
  <2>5. ASSUME NEW j \in 1..(n + 1), history'[f][j].role = "assistant",
               history'[f][j].q \notin wiped'
        PROVE  \E i \in 1..(j - 1) : history'[f][i] = Message("user", history'[f][j].q)
    <3>1. CASE j \in 1..n
      <4>0. /\ j \in DOMAIN history[f] /\ history[f][j].role = "assistant"
            /\ history[f][j].q \notin wiped
        BY <1>1, <2>5, <3>1
      <4>1. PICK i \in 1..(j - 1) : history[f][i] = Message("user", history[f][j].q)
        BY <2>2, <4>0 DEF HistoryIsSound
      <4>2. i \in 1..n
        BY <1>1, <3>1
      <4>3. history'[f][i] = history[f][i] /\ history'[f][j] = history[f][j]
        BY <1>1, <3>1, <4>2
      <4> QED
        BY <4>1, <4>3
    <3>2. CASE j = n + 1
      <4>1. m.role = "assistant" /\ m.q \notin wiped /\ history'[f][j].q = m.q
        BY <1>1, <2>5, <3>2
      <4>2. PICK i \in 1..n : history[f][i] = Message("user", m.q)
        BY <1>1, <4>1 DEF Asked
      <4>3. i \in 1..(j - 1)
        BY <1>1, <3>2
      <4>4. history'[f][i] = Message("user", history'[f][j].q)
        BY <1>1, <4>1, <4>2
      <4> QED
        BY <4>3, <4>4
    <3> QED
      BY <2>1, <3>1, <3>2
  <2> QED
    BY <1>1, <1>4, <2>3, <2>4, <2>5 DEF HistoryIsSound
<1> QED
  BY <1>3, <1>4

\* The first request of a turn.
LEMMA FirstCall ==
    ASSUME TurnTypes, NEW w \in Askers, work[w] # Resting,
           work'[w].turns = Talk(w), work'[w].calls = 0, work'[w].q = work[w].q
    PROVE  CallIsValid(w)'
<1> DEFINE c == Conversation(work[w].turns, work[w].q)
<1>1. work[w].turns \in Seq(Messages) /\ work[w].q \in Numbers
  BY TurnFields
<1>2. c \in Seq(Messages) /\ Alternates(c) /\ c # <<>> /\ c[Len(c)] = Message("user", work[w].q)
  BY <1>1, TalkIsValid
<1>3. work'[w].turns = c
  BY DEF Talk
<1> HIDE DEF c
<1>4. c[Len(c)].role = "user" /\ c[Len(c)].q = work[w].q
  BY <1>2 DEF Message
<1> QED
  BY <1>2, <1>3, <1>4 DEF CallIsValid, Alternates

LEMMA SaveStep ==
    ASSUME ChatInv, NEW w \in Askers, SaveQuestion(w)
    PROVE  WorkInv' /\ FreshInv' /\ HistoryInv'
<1> DEFINE f == work[w].home
           q == work[w].q
           m == Message("user", q)
<1>0. WorkInv /\ FreshInv /\ HistoryInv /\ TurnTypes /\ asked \in Nat
  BY AssistantAssumption DEF ChatInv, TurnTypes
<1>1. /\ work[w].at = "save" /\ UNCHANGED <<asked, wiped>>
      /\ history' = [history EXCEPT ![f] = Append(@, m)]
  BY DEF SaveQuestion, Outside, At
<1>2. work[w] # Resting
  BY <1>1 DEF Resting
<1>3. f \in Homes /\ q \in Numbers /\ work[w] \in Assignments
  BY <1>0, <1>2, TurnFields
<1>4. TurnInv(w) /\ ~ work[w].again /\ work[w].calls = 0 /\ q \in 1..asked
  BY <1>0, <1>1, <1>2 DEF WorkInv, TurnInv
<1>5. Unasked(w)
  BY <1>1, <1>2, <1>4 DEF Unasked
<1>6. ~ Asked(f, q)
  BY <1>0, <1>3, <1>5 DEF FreshInv
<1>7. m \in Messages /\ m.role = "user" /\ m.q = q
  BY <1>3 DEF Message, Messages
<1>8. /\ \A v \in Askers : v # w => work'[v] = work[v]
      /\ work'[w].q = q /\ work'[w].home = f /\ work'[w].calls = 0
      /\ \/ work'[w].at = "show"
         \/ work'[w].at = "call" /\ work'[w].turns = Talk(w)
  BY <1>0, <1>3, <1>4 DEF SaveQuestion, Go, TurnTypes, Assignments
<1>9. HistoryInv'
  <2> HIDE DEF f, m, q
  <2> QED
    BY <1>0, <1>1, <1>3, <1>4, <1>6, <1>7, HistoryGrows DEF ChatInv
<1>10. /\ \A g \in Homes : g # f => history'[g] = history[g]
       /\ DOMAIN history[f] = 1..Len(history[f]) /\ Len(history[f]) \in Nat
       /\ DOMAIN history'[f] = 1..(Len(history[f]) + 1)
       /\ \A i \in DOMAIN history[f] : history'[f][i] = history[f][i]
       /\ history'[f][Len(history[f]) + 1] = m
  <2> HIDE DEF f, m
  <2> QED
    BY <1>0, <1>1, <1>3, <1>7, Stored
<1>11. WorkInv'
  <2> SUFFICES ASSUME NEW v \in Askers, work'[v] # Resting PROVE TurnInv(v)'
    BY DEF WorkInv, Askers
  <2>1. CASE v = w
    <3>1. \E i \in DOMAIN history'[f] : history'[f][i] = m
      BY <1>10
    <3>2. Asked(work[w].home, work[w].q)'
      BY <1>8, <3>1 DEF Asked
    <3>3. work'[w].at = "call" => CallIsValid(w)'
      BY <1>0, <1>2, <1>8, FirstCall
    <3>4. work'[w].at \notin {"state", "save"} /\ work'[w].q \in 1..asked'
      BY <1>1, <1>4, <1>8
    <3> QED
      BY <1>8, <2>1, <3>2, <3>3, <3>4 DEF TurnInv
  <2>2. CASE v # w
    <3>1. work'[v] = work[v] /\ TurnInv(v)
      BY <1>0, <1>8, <2>2 DEF WorkInv
    <3>2. Asked(work[v].home, work[v].q) => Asked(work[v].home, work[v].q)'
      <4>1. work[v].home \in Homes
        BY <1>0, <2>2, <3>1, TurnFields
      <4>2. CASE work[v].home = f
        BY <1>10, <3>1, <4>2 DEF Asked
      <4>3. CASE work[v].home # f
        BY <1>10, <3>1, <4>1, <4>3 DEF Asked
      <4> QED
        BY <4>2, <4>3
    <3> QED
      BY <1>0, <1>1, <3>1, <3>2, SameTurn
  <2> QED
    BY <2>1, <2>2
<1>12. FreshInv'
  <2>1. \A v \in Askers : Unasked(v)' => v # w /\ Unasked(v) /\ work'[v].q = work[v].q
    BY <1>8 DEF Unasked
  <2>2. ASSUME NEW v \in Askers, NEW g \in Homes, Unasked(v)' PROVE ~ Asked(g, work[v].q)'
    <3>1. ~ Asked(g, work[v].q) /\ work[v].q # q /\ work'[v].q = work[v].q
      BY <1>0, <1>5, <2>1, <2>2 DEF FreshInv
    <3>2. Message("user", work[v].q) # m
      BY <3>1 DEF Message
    <3>3. CASE g # f
      BY <1>10, <3>1, <3>3 DEF Asked
    <3>4. CASE g = f
      <4>1. \A i \in DOMAIN history'[f] : i \in DOMAIN history[f] \/ history'[f][i] = m
        BY <1>10
      <4> QED
        BY <1>10, <3>1, <3>2, <3>4, <4>1 DEF Asked
    <3> QED
      BY <3>3, <3>4
  <2>3. \A v, u \in Askers : Unasked(v)' /\ Unasked(u)' /\ work'[v].q = work'[u].q => v = u
    BY <1>0, <2>1 DEF FreshInv
  <2> QED
    BY <2>2, <2>3 DEF FreshInv, Askers
<1> QED
  BY <1>9, <1>11, <1>12

LEMMA KeepStep ==
    ASSUME ChatInv, NEW w \in Askers, KeepAnswer(w)
    PROVE  WorkInv' /\ FreshInv' /\ HistoryInv'
<1> DEFINE f == work[w].home
           q == work[w].q
           m == Message("assistant", q)
<1>0. WorkInv /\ FreshInv /\ HistoryInv /\ TurnTypes /\ asked \in Nat
  BY AssistantAssumption DEF ChatInv, TurnTypes
<1>1. /\ work[w].at = "keep" /\ UNCHANGED <<asked, wiped>>
      /\ history' = [history EXCEPT ![f] = Append(@, m)]
  BY DEF KeepAnswer, Outside, At
<1>2. work[w] # Resting
  BY <1>1 DEF Resting
<1>3. f \in Homes /\ q \in Numbers /\ work[w] \in Assignments
  BY <1>0, <1>2, TurnFields
<1>4. TurnInv(w) /\ q \in 1..asked /\ (q \notin wiped => Asked(f, q))
  BY <1>0, <1>1, <1>2 DEF WorkInv, TurnInv
<1>5. m \in Messages /\ m.role = "assistant" /\ m.q = q
  BY <1>3 DEF Message, Messages
<1>6. /\ \A v \in Askers : v # w => work'[v] = work[v]
      /\ \/ work'[w] = Resting
         \/ work'[w].q = q /\ work'[w].home = f /\ work'[w].at = "deliver"
            /\ work'[w].again = work[w].again
  BY <1>0, <1>3 DEF KeepAnswer, Go, Told, Rest, TurnTypes, Assignments
<1>7. HistoryInv'
  <2> HIDE DEF f, m, q
  <2> QED
    BY <1>0, <1>1, <1>3, <1>4, <1>5, HistoryGrows DEF ChatInv
<1>8. /\ \A g \in Homes : g # f => history'[g] = history[g]
      /\ DOMAIN history[f] = 1..Len(history[f]) /\ Len(history[f]) \in Nat
      /\ DOMAIN history'[f] = 1..(Len(history[f]) + 1)
      /\ \A i \in DOMAIN history[f] : history'[f][i] = history[f][i]
      /\ history'[f][Len(history[f]) + 1] = m
  <2> HIDE DEF f, m
  <2> QED
    BY <1>0, <1>1, <1>3, <1>5, Stored
<1>9. \A g \in Homes, n \in Numbers :
         (\E i \in DOMAIN history'[g] : history'[g][i] = Message("user", n)) <=> Asked(g, n)
  <2> SUFFICES ASSUME NEW g \in Homes, NEW n \in Numbers
               PROVE  (\E i \in DOMAIN history'[g] : history'[g][i] = Message("user", n))
                      <=> Asked(g, n)
    OBVIOUS
  <2>1. Message("user", n) # m
    BY DEF Message
  <2>2. CASE g # f
    BY <1>8, <2>2 DEF Asked
  <2>3. CASE g = f
    <3>1. \A i \in DOMAIN history'[f] : i \in DOMAIN history[f] \/ history'[f][i] = m
      BY <1>8
    <3>2. DOMAIN history[f] \subseteq DOMAIN history'[f]
      BY <1>8
    <3> HIDE DEF m, f
    <3> QED
      BY <1>8, <2>1, <2>3, <3>1, <3>2 DEF Asked
  <2> QED
    BY <2>2, <2>3
<1>10. WorkInv'
  <2> SUFFICES ASSUME NEW v \in Askers, work'[v] # Resting PROVE TurnInv(v)'
    BY DEF WorkInv, Askers
  <2>1. CASE v = w
    <3>1. work'[w].at = "deliver" /\ work'[w].q = q /\ work'[w].home = f
          /\ work'[w].again = work[w].again
      BY <1>6, <2>1
    <3>2. q \notin wiped' => Asked(work[w].home, work[w].q)'
      BY <1>1, <1>3, <1>4, <1>9, <3>1 DEF Asked
    <3>3. work'[w].at \notin {"state", "member", "read", "save", "show", "call"}
          /\ work'[w].q \in 1..asked'
      BY <1>1, <1>4, <3>1
    <3> QED
      BY <2>1, <3>1, <3>2, <3>3 DEF TurnInv
  <2>2. CASE v # w
    <3>1. work'[v] = work[v] /\ TurnInv(v)
      BY <1>0, <1>6, <2>2 DEF WorkInv
    <3>2. work[v].home \in Homes /\ work[v].q \in Numbers
      BY <1>0, <2>2, <3>1, TurnFields
    <3>3. Asked(work[v].home, work[v].q) => Asked(work[v].home, work[v].q)'
      BY <1>9, <3>1, <3>2 DEF Asked
    <3> QED
      BY <1>0, <1>1, <3>1, <3>3, SameTurn
  <2> QED
    BY <2>1, <2>2
<1>11. FreshInv'
  <2>1. \A v \in Askers : Unasked(v)' => v # w /\ Unasked(v) /\ work'[v].q = work[v].q
    BY <1>6 DEF Unasked, Resting
  <2>2. ASSUME NEW v \in Askers, NEW g \in Homes, Unasked(v)' PROVE ~ Asked(g, work[v].q)'
    <3>1. ~ Asked(g, work[v].q) /\ work'[v].q = work[v].q /\ work[v] # Resting
      BY <1>0, <2>1, <2>2 DEF FreshInv, Unasked
    <3>2. work[v].q \in Numbers
      BY <1>0, <3>1, TurnFields
    <3> QED
      BY <1>9, <3>1, <3>2 DEF Asked
  <2>3. \A v, u \in Askers : Unasked(v)' /\ Unasked(u)' /\ work'[v].q = work'[u].q => v = u
    BY <1>0, <2>1 DEF FreshInv
  <2> QED
    BY <2>2, <2>3 DEF FreshInv, Askers
<1> QED
  BY <1>7, <1>10, <1>11

\* A round of tools is an answer and its results.
LEMMA ToolsStayValid ==
    ASSUME NEW turns \in Seq(Messages), Alternates(turns), turns # <<>>,
           turns[Len(turns)].role = "user"
    PROVE  /\ turns \o Tools \in Seq(Messages) /\ Alternates(turns \o Tools)
           /\ turns \o Tools # <<>>
           /\ (turns \o Tools)[Len(turns \o Tools)] = Message("user", 0)
<1> DEFINE n == Len(turns)
           all == turns \o Tools
<1>1. n \in Nat /\ n >= 1 /\ DOMAIN turns = 1..n
  BY LenProperties, EmptySeq
<1>2. Message("assistant", 0) \in Messages /\ Message("user", 0) \in Messages
  BY DEF Message, Messages
<1>3. /\ Tools \in Seq(Messages) /\ Len(Tools) = 2
      /\ Tools[1] = Message("assistant", 0) /\ Tools[2] = Message("user", 0)
  BY <1>2 DEF Tools
<1>4. /\ all \in Seq(Messages) /\ Len(all) = n + 2
      /\ \A i \in 1..(n + 2) : all[i] = IF i <= n THEN turns[i] ELSE Tools[i - n]
  BY <1>3, ConcatProperties
<1>5. DOMAIN all = 1..(n + 2)
  BY <1>1, <1>4, LenProperties
<1> HIDE DEF all, n
<1>6. n % 2 = 1
  <2>1. turns[n].role = IF n % 2 = 1 THEN "user" ELSE "assistant"
    BY <1>1 DEF Alternates
  <2> QED
    BY <2>1 DEF n
<1>7. all[n + 1] = Message("assistant", 0) /\ all[n + 2] = Message("user", 0)
  BY <1>1, <1>3, <1>4
<1>8. (n + 1) % 2 = 0 /\ (n + 2) % 2 = 1
  BY <1>1, <1>6
<1>9. Alternates(all)
  <2> SUFFICES ASSUME NEW i \in 1..(n + 2)
               PROVE  all[i].role = IF i % 2 = 1 THEN "user" ELSE "assistant"
    BY <1>5 DEF Alternates
  <2>1. CASE i \in 1..n
    <3>1. i \in DOMAIN turns
      BY <1>1, <2>1
    <3>2. all[i] = turns[i]
      BY <1>1, <1>4, <2>1
    <3> QED
      BY <3>1, <3>2 DEF Alternates
  <2>2. CASE i = n + 1
    BY <1>7, <1>8, <2>2 DEF Message
  <2>3. CASE i = n + 2
    BY <1>7, <1>8, <2>3 DEF Message
  <2> QED
    BY <1>1, <2>1, <2>2, <2>3
<1>10. all # <<>>
  BY <1>1, <1>4, EmptySeq
<1> QED
  BY <1>4, <1>7, <1>9, <1>10 DEF all

\* A worker's turn begins again or goes on; nothing is stored.
LEMMA TurnGoesOn ==
    ASSUME ChatInv, UNCHANGED <<history, asked, wiped>>,
           chatState' \in Homes \cup {"none", "elsewhere"},
           NEW w \in Askers, NEW x \in Assignments, work' = [work EXCEPT ![w] = x],
           x.q \in 1..asked,
           x.at \in {"state", "save"} => ~ x.again,
           x.at \in {"state", "member", "read", "save", "show"} => x.calls = 0,
           (x.again \/ x.at \in {"show", "call", "keep"}) /\ x.q \notin wiped
               => Asked(x.home, x.q),
           x.at = "call" => CallIsValid(w)',
           ~ x.again /\ x.at \in {"state", "member", "read", "save"}
               => Unasked(w) /\ x.q = work[w].q
    PROVE  WorkInv' /\ FreshInv' /\ HistoryInv' /\ TurnTypes'
<1>0. WorkInv /\ TurnTypes
  BY DEF ChatInv
<1>1. work'[w] = x /\ \A v \in Askers : v # w => work'[v] = work[v]
  BY <1>0 DEF TurnTypes
<1>2. Unasked(w)' => Unasked(w) /\ work'[w].q = work[w].q
  BY <1>1 DEF Unasked
<1>3. TurnInv(w)'
  <2>1. (x.again \/ x.at \in {"show", "call", "keep"}) /\ x.q \notin wiped'
            => Asked(work[w].home, work[w].q)'
    BY <1>1 DEF Asked
  <2>2. work'[w].q \in 1..asked'
    BY <1>1
  <2> QED
    BY <1>1, <2>1, <2>2 DEF TurnInv
<1>4. WorkInv' /\ FreshInv' /\ HistoryInv'
  BY <1>1, <1>2, <1>3, OneTurn
<1>5. work' \in [Askers -> {Resting} \cup Assignments]
  BY <1>0 DEF TurnTypes
<1>6. TurnTypes'
  BY <1>0, <1>5 DEF TurnTypes, Messages, Assignments, Numbers, Steps, Askers, Resting
<1> QED
  BY <1>4, <1>6

\* Workers come to rest.
LEMMA TurnsEnd ==
    ASSUME ChatInv, UNCHANGED <<history, asked, wiped>>,
           chatState' \in Homes \cup {"none", "elsewhere"},
           work' \in [Askers -> {Resting} \cup Assignments],
           \A v \in Askers : work'[v] \in {work[v], Resting}
    PROVE  WorkInv' /\ FreshInv' /\ HistoryInv' /\ TurnTypes'
<1>1. WorkInv' /\ FreshInv' /\ HistoryInv'
  BY OnlyRests
<1>2. TurnTypes'
  BY DEF ChatInv, TurnTypes, Messages, Assignments, Numbers, Steps, Askers, Resting
<1> QED
  BY <1>1, <1>2

LEMMA CallModelStep ==
    ASSUME ChatInv, NEW w \in Askers, CallModel(w)
    PROVE  WorkInv' /\ FreshInv' /\ HistoryInv' /\ TurnTypes'
<1>0. WorkInv /\ TurnTypes
  BY DEF ChatInv
<1>1. work[w].at = "call" /\ UNCHANGED <<history, asked, wiped, chatState>>
  BY DEF CallModel, Outside, At
<1>2. work[w] # Resting
  BY <1>1 DEF Resting
<1>3. work[w] \in Assignments /\ work[w].turns \in Seq(Messages)
      /\ work[w].calls \in 0..ToolLimit
  BY <1>0, <1>2, TurnFields
<1>4. TurnInv(w) /\ CallIsValid(w) /\ work[w].q \in 1..asked
  BY <1>0, <1>1, <1>2 DEF WorkInv, TurnInv
<1>5. ASSUME NEW x \in Assignments, work' = [work EXCEPT ![w] = x],
             x.q = work[w].q, x.home = work[w].home, x.again = work[w].again,
             x.at \in {"call", "keep", "sorry"}, x.at = "call" => CallIsValid(w)'
      PROVE  WorkInv' /\ FreshInv' /\ HistoryInv' /\ TurnTypes'
  <2>1. x.q \notin wiped => Asked(x.home, x.q)
    BY <1>1, <1>4, <1>5 DEF TurnInv
  <2>2. x.at \notin {"state", "member", "read", "save", "show"} /\ x.q \in 1..asked
    BY <1>4, <1>5
  <2>3. chatState' \in Homes \cup {"none", "elsewhere"}
    BY <1>0, <1>1 DEF TurnTypes
  <2> QED
    BY <1>1, <1>5, <2>1, <2>2, <2>3, TurnGoesOn
<1>6. CASE /\ work[w].calls < ToolLimit
           /\ work' = [work EXCEPT ![w].calls = @ + 1, ![w].turns = @ \o Tools]
  <2> DEFINE x == [work[w] EXCEPT !.calls = @ + 1, !.turns = @ \o Tools]
  <2>1. work' = [work EXCEPT ![w] = x]
    BY <1>6
  <2>2. Alternates(work[w].turns) /\ work[w].turns # <<>>
        /\ work[w].turns[Len(work[w].turns)].role = "user"
    BY <1>4 DEF CallIsValid, Alternates
  <2> DEFINE all == work[w].turns \o Tools
  <2>3. /\ all \in Seq(Messages) /\ Alternates(all) /\ all # <<>>
        /\ all[Len(all)] = Message("user", 0)
    BY <1>3, <2>2, ToolsStayValid
  <2>4. work[w].calls + 1 \in 0..ToolLimit /\ work[w].calls + 1 # 0
    BY <1>3, <1>6, AssistantAssumption
  <2>5. /\ x.calls = work[w].calls + 1 /\ x.turns = all /\ x.q = work[w].q
        /\ x.home = work[w].home /\ x.again = work[w].again /\ x.at = "call"
    BY <1>1, <1>3 DEF Assignments
  <2>6. x \in Assignments
    <3> HIDE DEF all
    <3> QED
      BY <1>1, <1>3, <2>3, <2>4 DEF Assignments, all
  <2> HIDE DEF x, all
  <2>7. work'[w] = x
    BY <1>0, <2>1 DEF TurnTypes
  <2>8. all[Len(all)].role = "user" /\ all[Len(all)].q = 0
    BY <2>3 DEF Message
  <2>9. CallIsValid(w)'
    BY <2>3, <2>4, <2>5, <2>7, <2>8 DEF CallIsValid, Alternates
  <2> QED
    BY <1>5, <2>1, <2>5, <2>6, <2>9
<1>7. ASSUME NEW step \in {"keep", "sorry"}, Go(w, step)
      PROVE  WorkInv' /\ FreshInv' /\ HistoryInv' /\ TurnTypes'
  <2> DEFINE x == [work[w] EXCEPT !.at = step]
  <2>1. work' = [work EXCEPT ![w] = x]
    BY <1>7 DEF Go
  <2>2. /\ x \in Assignments /\ x.q = work[w].q /\ x.home = work[w].home
        /\ x.again = work[w].again /\ x.at = step
    BY <1>3 DEF Assignments, Steps
  <2> HIDE DEF x
  <2> QED
    BY <1>5, <2>1, <2>2
<1> QED
  BY <1>6, <1>7 DEF CallModel

\* A question, its retry, and the steps that store nothing.
LEMMA NothingYet == <<>> \in Seq(Messages) /\ 0 \in 0..ToolLimit
  BY EmptySeq, AssistantAssumption

LEMMA AskStep ==
    ASSUME ChatInv, NEW w \in Askers, NEW x \in Assignments,
           UNCHANGED <<history, wiped, chatState>>,
           asked < MaxQuestions, asked' = asked + 1, work' = [work EXCEPT ![w] = x],
           x.at \in {"state", "read"}, x.q = asked + 1, x.again = FALSE, x.calls = 0
    PROVE  WorkInv' /\ FreshInv' /\ HistoryInv' /\ TurnTypes'
<1>0. TurnTypes /\ asked \in Nat /\ MaxQuestions \in Nat
  BY AssistantAssumption DEF ChatInv, TurnTypes
<1>1. WorkInv' /\ FreshInv' /\ HistoryInv'
  BY NewTurn
<1>2. work' \in [Askers -> {Resting} \cup Assignments] /\ asked' \in 0..MaxQuestions
  BY <1>0 DEF TurnTypes
<1>3. TurnTypes'
  BY <1>0, <1>2 DEF TurnTypes, Messages, Assignments, Numbers, Steps, Askers, Resting
<1> QED
  BY <1>1, <1>3

LEMMA RetryStep ==
    ASSUME ChatInv, NEW w \in Askers, PressRetry(w)
    PROVE  WorkInv' /\ FreshInv' /\ HistoryInv' /\ TurnTypes'
<1>0. TurnTypes /\ HistoryInv
  BY DEF ChatInv
<1>1. UNCHANGED <<history, asked, wiped>> /\ chatState' \in Homes \cup {"none", "elsewhere"}
  BY <1>0 DEF PressRetry, TurnTypes
<1>2. CASE work' = work
  BY <1>0, <1>1, <1>2, TurnsEnd DEF TurnTypes
<1>3. ASSUME chatState \in Homes, NEW n \in LatestQuestions(Recent(history[chatState])),
             work' = [work EXCEPT ![w] = BeginTurn("member", chatState, n, TRUE)]
      PROVE  WorkInv' /\ FreshInv' /\ HistoryInv' /\ TurnTypes'
  <2>1. Asked(chatState, n)
    BY <1>0, <1>3, LatestIsAsked
  <2>2. n \in 1..asked /\ n \in Numbers
    <3>1. PICK i \in DOMAIN history[chatState] : history[chatState][i] = Message("user", n)
      BY <2>1 DEF Asked
    <3>2. n \in 1..asked
      BY <1>0, <1>3, <3>1 DEF HistoryInv, Message
    <3> QED
      BY <1>0, <3>2, AssistantAssumption DEF TurnTypes, Numbers
  <2> DEFINE x == BeginTurn("member", chatState, n, TRUE)
  <2>3. /\ x.at = "member" /\ x.q = n /\ x.again = TRUE /\ x.calls = 0 /\ x.home = chatState
        /\ x \in Assignments
    BY <1>3, <2>2, NothingYet DEF BeginTurn, Assignments, Steps
  <2>4. work' = [work EXCEPT ![w] = x]
    BY <1>3
  <2> HIDE DEF x
  <2>5. Asked(x.home, x.q) /\ x.q \in 1..asked
    BY <2>1, <2>2, <2>3
  <2> QED
    BY <1>1, <2>3, <2>4, <2>5, TurnGoesOn
<1>4. \/ work' = work
      \/ chatState \in Homes /\ \E n \in LatestQuestions(Recent(history[chatState])) :
            work' = [work EXCEPT ![w] = BeginTurn("member", chatState, n, TRUE)]
  BY Zenon DEF PressRetry
<1> QED
  BY <1>2, <1>3, <1>4, Zenon

\* Handlers that store nothing.
LEMMA TurnStep ==
    ASSUME ChatInv, NEW w \in Askers,
           ReadState(w) \/ CheckMember(w) \/ ReadHistory(w) \/ ShowPlaceholder(w)
           \/ DeliverAnswer(w) \/ SayFailed(w) \/ WorkFails(w)
    PROVE  WorkInv' /\ FreshInv' /\ HistoryInv' /\ TurnTypes'
<1>0. TurnTypes /\ WorkInv /\ HistoryInv
  BY DEF ChatInv
<1>1. ASSUME Rest(w), UNCHANGED <<history, asked, wiped>>,
             chatState' \in Homes \cup {"none", "elsewhere"}
      PROVE  WorkInv' /\ FreshInv' /\ HistoryInv' /\ TurnTypes'
  <2>1. work' \in [Askers -> {Resting} \cup Assignments]
        /\ \A v \in Askers : work'[v] \in {work[v], Resting}
    BY <1>0, <1>1 DEF Rest, TurnTypes
  <2> QED
    BY <1>1, <2>1, TurnsEnd
<1>2. ASSUME work[w] # Resting
      PROVE  /\ work[w] \in Assignments /\ TurnInv(w) /\ work[w].q \in 1..asked
             /\ work[w].home \in Homes /\ work[w].turns \in Seq(Messages)
             /\ work[w].q \in Numbers
  BY <1>0, <1>2, TurnFields DEF WorkInv, TurnInv
<1>3. ASSUME At(w, "state") \/ At(w, "member") \/ At(w, "read") \/ At(w, "show")
      PROVE  work[w] # Resting
  BY <1>3 DEF At, Resting
<1>4. CASE ReadState(w)
  <2>1. UNCHANGED <<history, asked, wiped>> /\ At(w, "state")
    BY <1>4 DEF ReadState
  <2>2. CASE /\ chatState \in Homes /\ UNCHANGED chatState
             /\ work' = [work EXCEPT ![w].at = "member", ![w].home = chatState]
    <3> DEFINE x == [work[w] EXCEPT !.at = "member", !.home = chatState]
    <3>1. work[w].at = "state" /\ ~ work[w].again /\ work[w].calls = 0
          /\ work[w] \in Assignments /\ work[w].q \in 1..asked /\ work[w] # Resting
      BY <1>2, <1>3, <2>1 DEF At, TurnInv
    <3>2. /\ x.at = "member" /\ x.q = work[w].q /\ x.again = work[w].again
          /\ x.calls = work[w].calls /\ x \in Assignments
      BY <2>2, <3>1 DEF Assignments, Steps
    <3>3. work' = [work EXCEPT ![w] = x]
      BY <2>2
    <3> HIDE DEF x
    <3>4. Unasked(w)
      BY <3>1 DEF Unasked
    <3>5. chatState' \in Homes \cup {"none", "elsewhere"}
      BY <2>2
    <3> QED
      BY <2>1, <3>1, <3>2, <3>3, <3>4, <3>5, TurnGoesOn
  <2>3. CASE Rest(w) /\ chatState' \in {chatState, "none"}
    <3>1. chatState' \in Homes \cup {"none", "elsewhere"}
      BY <1>0, <2>3 DEF TurnTypes
    <3> QED
      BY <1>1, <2>1, <2>3, <3>1
  <2> QED
    BY <1>4, <2>2, <2>3 DEF ReadState, Told, SaysNothing
<1>5. CASE CheckMember(w)
  <2>1. UNCHANGED <<history, asked, wiped>> /\ At(w, "member")
        /\ chatState' \in Homes \cup {"none", "elsewhere"}
    BY <1>0, <1>5 DEF CheckMember, TurnTypes
  <2>2. CASE Go(w, "read")
    <3> DEFINE x == [work[w] EXCEPT !.at = "read"]
    <3>1. work[w].at = "member" /\ work[w].calls = 0 /\ TurnInv(w)
          /\ work[w] \in Assignments /\ work[w].q \in 1..asked /\ work[w] # Resting
      BY <1>2, <1>3, <2>1 DEF At, TurnInv
    <3>2. /\ x.at = "read" /\ x.q = work[w].q /\ x.again = work[w].again
          /\ x.calls = work[w].calls /\ x.home = work[w].home /\ x \in Assignments
      BY <3>1 DEF Assignments, Steps
    <3>3. work' = [work EXCEPT ![w] = x]
      BY <2>2 DEF Go
    <3> HIDE DEF x
    <3>4. ~ x.again => Unasked(w)
      BY <3>1, <3>2 DEF Unasked
    <3>5. x.again /\ x.q \notin wiped => Asked(x.home, x.q)
      BY <3>1, <3>2 DEF TurnInv
    <3> QED
      BY <2>1, <3>1, <3>2, <3>3, <3>4, <3>5, TurnGoesOn
  <2>3. CASE Rest(w)
    BY <1>1, <2>1, <2>3
  <2> QED
    BY <1>5, <2>2, <2>3 DEF CheckMember, Told
<1>6. CASE ReadHistory(w)
  <2>1. UNCHANGED <<history, asked, wiped>> /\ At(w, "read")
        /\ chatState' \in Homes \cup {"none", "elsewhere"}
    BY <1>0, <1>6 DEF ReadHistory, Outside, TurnTypes
  <2> DEFINE step == IF work[w].again THEN "show" ELSE "save"
             h == Recent(history[work[w].home])
             x == [work[w] EXCEPT !.turns = h, !.at = step]
  <2>2. work[w].at = "read" /\ work[w].calls = 0 /\ TurnInv(w) /\ work[w].home \in Homes
        /\ work[w] \in Assignments /\ work[w].q \in 1..asked /\ work[w] # Resting
    BY <1>2, <1>3, <2>1 DEF At, TurnInv
  <2>3. h \in Seq(Messages)
    BY <1>0, <2>2, RecentMessages DEF TurnTypes
  <2>4. step \in {"show", "save"} /\ (step = "save" <=> ~ work[w].again)
    OBVIOUS
  <2>5. work' = [work EXCEPT ![w] = x]
    BY <1>6 DEF ReadHistory
  <2> HIDE DEF step, h
  <2>6. /\ x.at = step /\ x.q = work[w].q /\ x.again = work[w].again
        /\ x.calls = work[w].calls /\ x.home = work[w].home /\ x \in Assignments
    BY <2>2, <2>3, <2>4 DEF Assignments, Steps
  <2> HIDE DEF x
  <2>7. ~ x.again => Unasked(w)
    BY <2>2, <2>6 DEF Unasked
  <2>8. x.again /\ x.q \notin wiped => Asked(x.home, x.q)
    BY <2>2, <2>6 DEF TurnInv
  <2> QED
    BY <2>1, <2>2, <2>4, <2>5, <2>6, <2>7, <2>8, TurnGoesOn
<1>7. CASE ShowPlaceholder(w)
  <2>1. UNCHANGED <<history, asked, wiped>> /\ At(w, "show")
        /\ chatState' \in Homes \cup {"none", "elsewhere"}
    BY <1>0, <1>7 DEF ShowPlaceholder, Outside, TurnTypes
  <2>2. PICK sent \in BOOLEAN :
           work' = [work EXCEPT ![w].at = "call", ![w].turns = Talk(w), ![w].shown = sent]
    BY <1>7 DEF ShowPlaceholder
  <2> DEFINE x == [work[w] EXCEPT !.at = "call", !.turns = Talk(w), !.shown = sent]
  <2>3. work[w].at = "show" /\ work[w].calls = 0 /\ TurnInv(w)
        /\ work[w].turns \in Seq(Messages) /\ work[w].q \in Numbers
        /\ work[w] \in Assignments /\ work[w].q \in 1..asked /\ work[w] # Resting
    BY <1>2, <1>3, <2>1 DEF At, TurnInv
  <2>4. Talk(w) \in Seq(Messages)
    BY <2>3, TalkIsValid DEF Talk
  <2>5. /\ x.at = "call" /\ x.q = work[w].q /\ x.again = work[w].again /\ x.turns = Talk(w)
        /\ x.calls = work[w].calls /\ x.home = work[w].home /\ x \in Assignments
    BY <2>3, <2>4 DEF Assignments, Steps
  <2>6. work' = [work EXCEPT ![w] = x]
    BY <2>2
  <2> HIDE DEF x
  <2>7. work'[w] = x
    BY <1>0, <2>6 DEF TurnTypes
  <2>8. CallIsValid(w)'
    BY <1>0, <2>3, <2>5, <2>7, FirstCall
  <2>9. x.q \notin wiped => Asked(x.home, x.q)
    BY <2>3, <2>5 DEF TurnInv
  <2> QED
    BY <2>1, <2>3, <2>5, <2>6, <2>8, <2>9, TurnGoesOn
<1>8. CASE DeliverAnswer(w) \/ SayFailed(w) \/ WorkFails(w)
  <2>1. Rest(w) /\ UNCHANGED <<history, asked, wiped>>
        /\ chatState' \in Homes \cup {"none", "elsewhere"}
    BY <1>0, <1>8 DEF DeliverAnswer, SayFailed, WorkFails, Told, SaysNothing, Outside, TurnTypes
  <2> QED
    BY <1>1, <2>1
<1> QED
  BY <1>4, <1>5, <1>6, <1>7, <1>8

LEMMA ChatInvStep == ASSUME ChatInv, [AssistantNext]_chatVars PROVE ChatInv'
<1>0. TurnTypes /\ asked \in Nat
  BY AssistantAssumption DEF ChatInv, TurnTypes
<1> DEFINE Kept == WorkInv' /\ FreshInv' /\ HistoryInv' /\ TurnTypes'
<1> SUFFICES Kept
  BY DEF ChatInv
<1>1. ASSUME UNCHANGED <<history, work, asked, wiped>>,
             chatState' \in Homes \cup {"none", "elsewhere"}
      PROVE  Kept
  BY <1>0, <1>1, TurnsEnd DEF TurnTypes
<1>2. ASSUME NEW f \in Homes, EnterChat(f) \/ AccessChanges(f) PROVE Kept
  BY <1>0, <1>1, <1>2 DEF EnterChat, AccessChanges, TurnTypes
<1>3. CASE OtherDialogue
  BY <1>1, <1>3 DEF OtherDialogue
<1>4. ASSUME NEW f \in Homes, ClearHistory(f) PROVE Kept
  <2>1. WorkInv' /\ FreshInv' /\ HistoryInv'
    BY <1>4, ClearStep
  <2>2. UNCHANGED <<chatState, work, asked>> /\ history' = [history EXCEPT ![f] = <<>>]
    BY <1>4 DEF ClearHistory
  <2>3. TurnTypes'
    <3>1. <<>> \in Seq(Messages)
      BY EmptySeq
    <3> QED
      BY <1>0, <2>2, <3>1
      DEF TurnTypes, Messages, Assignments, Numbers, Steps, Askers, Resting
  <2> QED
    BY <2>1, <2>3
<1>5. ASSUME NEW w \in BotWorkers, AskInChat(w) PROVE Kept
  <2> DEFINE x == BeginTurn("state", chatState, asked + 1, FALSE)
  <2>1. asked + 1 \in Numbers /\ chatState \in Homes /\ w \in Askers
    BY <1>0, <1>5, AssistantAssumption DEF AskInChat, Numbers, Askers
  <2>2. x \in Assignments /\ x.at = "state" /\ x.q = asked + 1 /\ x.again = FALSE /\ x.calls = 0
    BY <2>1, NothingYet DEF BeginTurn, Assignments, Steps
  <2>3. /\ UNCHANGED <<history, wiped, chatState>> /\ asked < MaxQuestions
        /\ asked' = asked + 1 /\ work' = [work EXCEPT ![w] = x]
    BY <1>5 DEF AskInChat
  <2> HIDE DEF x
  <2> QED
    BY <2>1, <2>2, <2>3, AskStep
<1>6. ASSUME NEW w \in BotWorkers, PressRetry(w) PROVE Kept
  BY <1>6, RetryStep DEF Askers
<1>7. ASSUME NEW w \in WebWorkers, NEW f \in Homes, AskOnDashboard(w, f) PROVE Kept
  <2> DEFINE x == BeginTurn("read", f, asked + 1, FALSE)
  <2>1. asked + 1 \in Numbers /\ w \in Askers
    BY <1>0, <1>7, AssistantAssumption DEF AskOnDashboard, Numbers, Askers
  <2>2. x \in Assignments /\ x.at = "read" /\ x.q = asked + 1 /\ x.again = FALSE /\ x.calls = 0
    BY <2>1, NothingYet DEF BeginTurn, Assignments, Steps
  <2>3. /\ UNCHANGED <<history, wiped, chatState>> /\ asked < MaxQuestions
        /\ asked' = asked + 1 /\ work' = [work EXCEPT ![w] = x]
    BY <1>7 DEF AskOnDashboard
  <2> HIDE DEF x
  <2> QED
    BY <2>1, <2>2, <2>3, AskStep
<1>8. ASSUME NEW w \in Askers, SaveQuestion(w) PROVE Kept
  <2>1. WorkInv' /\ FreshInv' /\ HistoryInv'
    BY <1>8, SaveStep
  <2>2. work[w] # Resting /\ At(w, "save")
    BY <1>8 DEF SaveQuestion, At, Resting
  <2>3. /\ work[w] \in Assignments /\ work[w].home \in Homes /\ work[w].q \in Numbers
        /\ work[w].turns \in Seq(Messages)
    BY <1>0, <2>2, TurnFields
  <2>4. history' \in [Homes -> Seq(Messages)]
    <3> DEFINE m == Message("user", work[w].q)
    <3>1. m \in Messages /\ history[work[w].home] \in Seq(Messages)
      BY <1>0, <2>3 DEF Message, Messages, TurnTypes
    <3>2. history' = [history EXCEPT ![work[w].home] = Append(@, m)]
      BY <1>8 DEF SaveQuestion
    <3> HIDE DEF m
    <3>3. Append(history[work[w].home], m) \in Seq(Messages)
      BY <3>1, AppendProperties
    <3> QED
      BY <1>0, <2>3, <3>2, <3>3 DEF TurnTypes
  <2>5. work' \in [Askers -> {Resting} \cup Assignments]
    <3>1. Talk(w) \in Seq(Messages)
      BY <2>3, TalkIsValid DEF Talk
    <3>2. [work[w] EXCEPT !.at = "show"] \in Assignments
      BY <2>3 DEF Assignments, Steps
    <3>3. [work[w] EXCEPT !.at = "call", !.turns = Talk(w)] \in Assignments
      BY <2>3, <3>1 DEF Assignments, Steps
    <3>4. \/ work' = [work EXCEPT ![w] = [work[w] EXCEPT !.at = "show"]]
          \/ work' = [work EXCEPT ![w] = [work[w] EXCEPT !.at = "call", !.turns = Talk(w)]]
      BY <1>8 DEF SaveQuestion, Go
    <3> QED
      BY <1>0, <3>2, <3>3, <3>4 DEF TurnTypes
  <2>6. UNCHANGED <<chatState, asked>>
    BY <1>8 DEF SaveQuestion, Outside
  <2>7. TurnTypes'
    BY <1>0, <2>4, <2>5, <2>6
    DEF TurnTypes, Messages, Assignments, Numbers, Steps, Askers, Resting
  <2> QED
    BY <2>1, <2>7
<1>9. ASSUME NEW w \in Askers, KeepAnswer(w) PROVE Kept
  <2>1. WorkInv' /\ FreshInv' /\ HistoryInv'
    BY <1>9, KeepStep
  <2>2. work[w] # Resting /\ At(w, "keep")
    BY <1>9 DEF KeepAnswer, At, Resting
  <2>3. work[w] \in Assignments /\ work[w].home \in Homes /\ work[w].q \in Numbers
    BY <1>0, <2>2, TurnFields
  <2>4. history' \in [Homes -> Seq(Messages)]
    <3> DEFINE m == Message("assistant", work[w].q)
    <3>1. m \in Messages /\ history[work[w].home] \in Seq(Messages)
      BY <1>0, <2>3 DEF Message, Messages, TurnTypes
    <3>2. history' = [history EXCEPT ![work[w].home] = Append(@, m)]
      BY <1>9 DEF KeepAnswer
    <3> HIDE DEF m
    <3>3. Append(history[work[w].home], m) \in Seq(Messages)
      BY <3>1, AppendProperties
    <3> QED
      BY <1>0, <2>3, <3>2, <3>3 DEF TurnTypes
  <2>5. work' \in [Askers -> {Resting} \cup Assignments]
    <3>1. [work[w] EXCEPT !.at = "deliver"] \in Assignments
      BY <2>3 DEF Assignments, Steps
    <3>2. \/ work' = [work EXCEPT ![w] = [work[w] EXCEPT !.at = "deliver"]]
          \/ work' = [work EXCEPT ![w] = Resting]
      BY <1>9 DEF KeepAnswer, Go, Told, Rest
    <3> QED
      BY <1>0, <3>1, <3>2 DEF TurnTypes
  <2>6. UNCHANGED <<chatState, asked>>
    BY <1>9 DEF KeepAnswer, Outside
  <2>7. TurnTypes'
    BY <1>0, <2>4, <2>5, <2>6
    DEF TurnTypes, Messages, Assignments, Numbers, Steps, Askers, Resting
  <2> QED
    BY <2>1, <2>7
<1>10. ASSUME NEW w \in Askers, CallModel(w) PROVE Kept
  BY <1>10, CallModelStep
<1>11. ASSUME NEW w \in Askers,
              ReadState(w) \/ CheckMember(w) \/ ReadHistory(w) \/ ShowPlaceholder(w)
              \/ DeliverAnswer(w) \/ SayFailed(w) \/ WorkFails(w)
       PROVE  Kept
  BY <1>11, TurnStep
<1>12. ASSUME NEW workers, ProcessDies(workers) PROVE Kept
  <2>1. /\ UNCHANGED <<history, asked, wiped, chatState>>
        /\ work' = [v \in Askers |-> IF v \in workers THEN Resting ELSE work[v]]
    BY <1>12 DEF ProcessDies, Outside
  <2>2. work' \in [Askers -> {Resting} \cup Assignments]
        /\ \A v \in Askers : work'[v] \in {work[v], Resting}
    BY <1>0, <2>1 DEF TurnTypes
  <2>3. chatState' \in Homes \cup {"none", "elsewhere"}
    BY <1>0, <2>1 DEF TurnTypes
  <2> QED
    BY <2>1, <2>2, <2>3, TurnsEnd
<1>13. CASE UNCHANGED chatVars
  BY <1>0, <1>1, <1>13 DEF chatVars, TurnTypes
<1> HIDE DEF Kept
<1>14. ASSUME NEW w \in Askers, WorkerStep(w) PROVE Kept
  BY <1>8, <1>9, <1>10, <1>11, <1>14 DEF WorkerStep
<1> QED
  BY <1>2, <1>3, <1>4, <1>5, <1>6, <1>7, <1>11, <1>12, <1>13, <1>14 DEF AssistantNext

LEMMA ChatInvInit == ASSUME AssistantInit PROVE ChatInv
<1>1. \A f \in Homes : history[f] = <<>> /\ DOMAIN history[f] = {}
  BY DEF AssistantInit
<1>2. \A w \in Askers : work[w] = Resting
  BY DEF AssistantInit
<1>3. TurnTypes
  <2>1. <<>> \in Seq(Messages)
    BY EmptySeq
  <2> QED
    BY <2>1, AssistantAssumption DEF AssistantInit, TurnTypes
<1>4. WorkInv /\ FreshInv
  BY <1>2 DEF WorkInv, FreshInv, Unasked
<1>5. HistoryInv
  BY <1>1 DEF HistoryInv, HistoryIsSound
<1> QED
  BY <1>3, <1>4, <1>5 DEF ChatInv

\* What the invariant means for the model and for the page.
LEMMA ChatIsSound == ChatInv => ConversationIsSound
<1> SUFFICES ASSUME ChatInv PROVE ConversationIsSound
  OBVIOUS
<1>1. \A w \in Askers : At(w, "call") => CallIsValid(w)
  BY DEF ChatInv, WorkInv, TurnInv, At, Resting
<1>2. \A f \in Homes : HistoryIsSound(f)
  BY DEF ChatInv, HistoryInv
<1> QED
  BY <1>1, <1>2 DEF ConversationIsSound

\* Whatever failed calls, retries, clears and other workers left in the history, and
\* wherever its last messages begin, every request is one the API accepts; a question
\* is stored once and its answer after it (analytics_engine 439-472, ai_chat 287-452).
THEOREM ConversationsAreSound == AssistantSpec => []ConversationIsSound
<1>1. AssistantInit => ChatInv
  BY ChatInvInit
<1>2. ChatInv /\ [AssistantNext]_chatVars => ChatInv'
  BY ChatInvStep
<1> QED
  BY <1>1, <1>2, ChatIsSound, PTL DEF AssistantSpec

-----------------------------------------------------------------------------
(* The types: what the invariants above leave out. *)

LEMMA RateInvTypes == ASSUME RateInv PROVE RateTypeOK
  BY DEF RateInv, EntryInv, ClockInv, ListInv, Everything, Entries, RateTypeOK

\* The limiter's clock, list and threads keep their types (rate_limiter 25-56).
THEOREM RateTypes == RateSpec => []RateTypeOK
  BY RateInvariant, RateInvTypes, PTL

\* Rights, counters and the ghosts of the assistant.
CountTypes ==
    /\ access \in [Homes -> {"paid", "lapsed", "gone"}]
    /\ retries \in 0..MaxRetries /\ mishaps \in 0..MaxMishaps

LEMMA CountStep == ASSUME CountTypes, [AssistantNext]_chatVars PROVE CountTypes'
<1> USE AssistantAssumption
<1>1. /\ access \in [Homes -> {"paid", "lapsed", "gone"}]
      /\ retries \in 0..MaxRetries /\ mishaps \in 0..MaxMishaps
  BY DEF CountTypes
<1>2. ASSUME UNCHANGED <<access, retries>>, mishaps' = mishaps \/ Mishap PROVE CountTypes'
  BY <1>1, <1>2 DEF CountTypes, Mishap
<1>3. ASSUME NEW f \in Homes, EnterChat(f) \/ ClearHistory(f) \/ AccessChanges(f)
      PROVE  CountTypes'
  BY <1>1, <1>3 DEF EnterChat, ClearHistory, AccessChanges, CountTypes
<1>4. CASE OtherDialogue
  BY <1>2, <1>4 DEF OtherDialogue
<1>5. ASSUME NEW w \in BotWorkers, AskInChat(w) PROVE CountTypes'
  BY <1>2, <1>5 DEF AskInChat
<1>6. ASSUME NEW w \in BotWorkers, PressRetry(w) PROVE CountTypes'
  <2>1. UNCHANGED <<access, mishaps>> /\ retries < MaxRetries /\ retries' = retries + 1
    BY <1>6 DEF PressRetry
  <2> QED
    BY <1>1, <2>1 DEF CountTypes
<1>7. ASSUME NEW w \in WebWorkers, NEW f \in Homes, AskOnDashboard(w, f) PROVE CountTypes'
  BY <1>2, <1>7 DEF AskOnDashboard
<1>8. ASSUME NEW w \in Askers, WorkerStep(w) \/ WorkFails(w) PROVE CountTypes'
  <2>1. UNCHANGED <<access, retries>> /\ (mishaps' = mishaps \/ Mishap)
    <3>1. CASE ReadState(w) \/ CheckMember(w) \/ ReadHistory(w) \/ SaveQuestion(w)
      BY <3>1 DEF ReadState, CheckMember, ReadHistory, SaveQuestion, NoMishap, Outside
    <3>2. CASE ShowPlaceholder(w)
      BY <3>2, Zenon DEF ShowPlaceholder, NoMishap, Outside
    <3>3. CASE CallModel(w) \/ KeepAnswer(w)
      BY <3>3 DEF CallModel, KeepAnswer, Outside
    <3>4. CASE DeliverAnswer(w) \/ WorkFails(w)
      BY <3>4 DEF DeliverAnswer, WorkFails, NoMishap, Outside
    <3>5. CASE SayFailed(w)
      BY <3>5 DEF SayFailed, NoMishap
    <3> QED
      BY <1>8, <3>1, <3>2, <3>3, <3>4, <3>5, Zenon DEF WorkerStep
  <2> QED
    BY <1>2, <2>1
<1>9. ASSUME NEW workers, ProcessDies(workers) PROVE CountTypes'
  BY <1>2, <1>9 DEF ProcessDies, Outside
<1>10. CASE UNCHANGED chatVars
  BY <1>2, <1>10 DEF chatVars
<1> QED
  BY <1>3, <1>4, <1>5, <1>6, <1>7, <1>8, <1>9, <1>10 DEF AssistantNext

\* The button is there or not.
LEMMA ButtonStep ==
    ASSUME retryShown \in BOOLEAN, [AssistantNext]_chatVars PROVE retryShown' \in BOOLEAN
<1>1. ASSUME UNCHANGED retryShown PROVE retryShown' \in BOOLEAN
  BY <1>1, Zenon
<1>2. ASSUME NEW f \in Homes, EnterChat(f) \/ ClearHistory(f) \/ AccessChanges(f)
      PROVE  UNCHANGED retryShown
  BY <1>2 DEF EnterChat, ClearHistory, AccessChanges
<1>3. ASSUME OtherDialogue PROVE UNCHANGED retryShown
  BY <1>3 DEF OtherDialogue
<1>4. ASSUME NEW w \in BotWorkers, AskInChat(w) PROVE UNCHANGED retryShown
  BY <1>4 DEF AskInChat
<1>5. ASSUME NEW w \in BotWorkers, PressRetry(w) PROVE retryShown' \in BOOLEAN
  BY <1>5, Zenon DEF PressRetry
<1>6. ASSUME NEW w \in WebWorkers, NEW f \in Homes, AskOnDashboard(w, f)
      PROVE  UNCHANGED retryShown
  BY <1>6 DEF AskOnDashboard
<1>7. ASSUME NEW w \in Askers, WorkerStep(w) \/ WorkFails(w) PROVE retryShown' \in BOOLEAN
  <2>1. CASE ReadState(w)
    BY <1>1, <2>1 DEF ReadState
  <2>2. CASE CheckMember(w)
    BY <1>1, <2>2 DEF CheckMember
  <2>3. CASE ReadHistory(w) \/ SaveQuestion(w) \/ ShowPlaceholder(w) \/ CallModel(w)
             \/ KeepAnswer(w) \/ DeliverAnswer(w) \/ WorkFails(w)
    BY <1>1, <2>3 DEF ReadHistory, SaveQuestion, ShowPlaceholder, CallModel, KeepAnswer,
       DeliverAnswer, WorkFails, Outside
  <2>4. CASE SayFailed(w)
    <3>1. retryShown' = (retryShown \/ w \in BotWorkers)
      BY <2>4, Zenon DEF SayFailed
    <3> QED
      BY <3>1, Zenon
  <2> QED
    BY <1>7, <2>1, <2>2, <2>3, <2>4, Zenon DEF WorkerStep
<1>8. ASSUME NEW workers, ProcessDies(workers) PROVE UNCHANGED retryShown
  BY <1>8 DEF ProcessDies, Outside
<1>9. ASSUME UNCHANGED chatVars PROVE UNCHANGED retryShown
  BY <1>9 DEF chatVars
<1> QED
  BY <1>1, <1>2, <1>3, <1>4, <1>5, <1>6, <1>7, <1>8, <1>9, Zenon DEF AssistantNext

\* Questions that are open, dropped or wiped have been asked.
NumberTypes ==
    open \subseteq 1..asked /\ dropped \subseteq 1..asked /\ wiped \subseteq 1..asked

LEMMA NumberStep ==
    ASSUME ChatInv, NumberTypes, [AssistantNext]_chatVars PROVE NumberTypes'
<1>0. /\ TurnTypes /\ WorkInv /\ HistoryInv /\ asked \in Nat
      /\ open \subseteq 1..asked /\ dropped \subseteq 1..asked /\ wiped \subseteq 1..asked
  BY AssistantAssumption DEF ChatInv, TurnTypes, NumberTypes
<1>1. ASSUME UNCHANGED <<asked, wiped>>, open' \subseteq open, dropped' \subseteq dropped
      PROVE  NumberTypes'
  BY <1>0, <1>1 DEF NumberTypes
<1>2. ASSUME asked' = asked + 1, UNCHANGED <<dropped, wiped>>, open' = open \cup {asked + 1}
      PROVE  NumberTypes'
  BY <1>0, <1>2 DEF NumberTypes
<1>3. ASSUME NEW f \in Homes, EnterChat(f) \/ AccessChanges(f) PROVE NumberTypes'
  BY <1>1, <1>3 DEF EnterChat, AccessChanges
<1>4. CASE OtherDialogue
  BY <1>1, <1>4 DEF OtherDialogue
<1>5. ASSUME NEW f \in Homes, ClearHistory(f) PROVE NumberTypes'
  <2>1. /\ UNCHANGED <<asked, open, dropped>>
        /\ wiped' = wiped \cup {history[f][i].q : i \in DOMAIN history[f]}
                          \cup {work[w].q : w \in {v \in Askers : work[v] # Resting}}
    BY <1>5 DEF ClearHistory
  <2>2. {history[f][i].q : i \in DOMAIN history[f]} \subseteq 1..asked
    BY <1>0 DEF HistoryInv
  <2>3. {work[w].q : w \in {v \in Askers : work[v] # Resting}} \subseteq 1..asked
    BY <1>0 DEF WorkInv, TurnInv
  <2> QED
    BY <1>0, <2>1, <2>2, <2>3 DEF NumberTypes
<1>6. ASSUME NEW w \in BotWorkers, AskInChat(w) PROVE NumberTypes'
  BY <1>2, <1>6 DEF AskInChat
<1>7. ASSUME NEW w \in WebWorkers, NEW f \in Homes, AskOnDashboard(w, f) PROVE NumberTypes'
  BY <1>2, <1>7 DEF AskOnDashboard
<1>8. ASSUME NEW w \in BotWorkers, PressRetry(w) PROVE NumberTypes'
  <2>1. UNCHANGED <<asked, wiped>> /\ dropped' \subseteq dropped
    BY <1>8, Zenon DEF PressRetry
  <2>2. CASE UNCHANGED open
    BY <1>1, <2>1, <2>2
  <2>3. ASSUME chatState \in Homes, NEW n \in LatestQuestions(Recent(history[chatState])),
               open' = open \cup {n}
        PROVE  NumberTypes'
    <3>1. PICK i \in DOMAIN history[chatState] : history[chatState][i] = Message("user", n)
      BY <1>0, <2>3, LatestIsAsked DEF Asked
    <3>2. n \in 1..asked
      BY <1>0, <2>3, <3>1 DEF HistoryInv, Message
    <3> QED
      BY <1>0, <2>1, <2>3, <3>2 DEF NumberTypes
  <2>4. \/ UNCHANGED open
        \/ chatState \in Homes /\ \E n \in LatestQuestions(Recent(history[chatState])) :
              open' = open \cup {n}
    BY <1>8, Zenon DEF PressRetry
  <2> QED
    BY <2>2, <2>3, <2>4, Zenon
<1>9. ASSUME NEW w \in Askers, WorkerStep(w) \/ WorkFails(w) PROVE NumberTypes'
  <2>1. /\ UNCHANGED <<asked, wiped>> /\ open' \subseteq open
        /\ dropped' = dropped \/ (work[w] # Resting /\ dropped' = dropped \cup {work[w].q})
    <3>1. CASE ReadState(w) \/ CheckMember(w)
      BY <3>1 DEF ReadState, CheckMember, Told, SaysNothing, StillOpen, At, Resting
    <3>2. CASE ReadHistory(w) \/ SaveQuestion(w) \/ ShowPlaceholder(w) \/ CallModel(w)
               \/ KeepAnswer(w)
      BY <3>2 DEF ReadHistory, SaveQuestion, ShowPlaceholder, CallModel, KeepAnswer, Told,
         StillOpen, Outside
    <3>3. CASE DeliverAnswer(w) \/ SayFailed(w) \/ WorkFails(w)
      BY <3>3 DEF DeliverAnswer, SayFailed, WorkFails, Told, SaysNothing, Outside
    <3> QED
      BY <1>9, <3>1, <3>2, <3>3, Zenon DEF WorkerStep
  <2>2. work[w] # Resting => work[w].q \in 1..asked
    BY <1>0 DEF WorkInv, TurnInv
  <2> QED
    BY <1>0, <2>1, <2>2 DEF NumberTypes
<1>10. ASSUME NEW workers \in {BotWorkers, WebWorkers}, ProcessDies(workers) PROVE NumberTypes'
  <2>1. /\ UNCHANGED <<asked, open, wiped>>
        /\ dropped' = dropped \cup {work[w].q : w \in {v \in workers : work[v] # Resting}}
    BY <1>10 DEF ProcessDies, Outside
  <2>2. {work[w].q : w \in {v \in workers : work[v] # Resting}} \subseteq 1..asked
    BY <1>0 DEF WorkInv, TurnInv, Askers
  <2> QED
    BY <1>0, <2>1, <2>2 DEF NumberTypes
<1>11. CASE UNCHANGED chatVars
  BY <1>1, <1>11 DEF chatVars
<1> QED
  BY <1>3, <1>4, <1>5, <1>6, <1>7, <1>8, <1>9, <1>10, <1>11 DEF AssistantNext

\* The dashboard neither retries nor shows a placeholder.
Plain(x) == x.again = FALSE /\ x.shown = FALSE /\ x.at # "show"
WebInv == \A v \in WebWorkers : work[v] # Resting => Plain(work[v])

LEMMA OneWebTurn ==
    ASSUME TurnTypes, WebInv, NEW w \in Askers, NEW x, work' = [work EXCEPT ![w] = x],
           w \in WebWorkers /\ x # Resting => Plain(x)
    PROVE  WebInv'
<1>1. \A v \in Askers : work'[v] = IF v = w THEN x ELSE work[v]
  BY DEF TurnTypes
<1>2. WebWorkers \subseteq Askers
  BY DEF Askers
<1> QED
  BY <1>1, <1>2 DEF WebInv, Plain

LEMMA WebWorkerStep ==
    ASSUME TurnTypes, WebInv, NEW w \in Askers, WorkerStep(w) \/ WorkFails(w)
    PROVE  WebInv'
<1>1. ASSUME At(w, "state") \/ At(w, "member") \/ At(w, "read") \/ At(w, "save")
             \/ At(w, "show") \/ At(w, "call"), w \in WebWorkers
      PROVE  Plain(work[w]) /\ work[w] \in Assignments
  <2>1. work[w] # Resting
    BY <1>1 DEF At, Resting
  <2> QED
    BY <1>1, <2>1, TurnFields DEF WebInv
<1>2. CASE Rest(w)
  BY <1>2, OneWebTurn DEF Rest
<1>3. ASSUME NEW step, step # "show", Go(w, step), w \in WebWorkers => Plain(work[w])
                                                                     /\ work[w] \in Assignments
      PROVE  WebInv'
  <2> DEFINE x == [work[w] EXCEPT !.at = step]
  <2>1. work' = [work EXCEPT ![w] = x]
    BY <1>3 DEF Go
  <2>2. w \in WebWorkers => Plain(x)
    BY <1>3 DEF Plain, Assignments
  <2> HIDE DEF x
  <2> QED
    BY <2>1, <2>2, OneWebTurn
<1>4. CASE ReadState(w)
  <2>1. CASE work' = [work EXCEPT ![w].at = "member", ![w].home = chatState]
    <3> DEFINE x == [work[w] EXCEPT !.at = "member", !.home = chatState]
    <3>1. work' = [work EXCEPT ![w] = x]
      BY <2>1
    <3>2. w \in WebWorkers => Plain(x)
      BY <1>1, <1>4 DEF ReadState, Plain, Assignments
    <3> HIDE DEF x
    <3> QED
      BY <3>1, <3>2, OneWebTurn
  <2> QED
    BY <1>2, <1>4, <2>1 DEF ReadState, Told, SaysNothing
<1>5. CASE CheckMember(w)
  <2>1. w \in WebWorkers => Plain(work[w]) /\ work[w] \in Assignments
    BY <1>1, <1>5 DEF CheckMember
  <2> QED
    BY <1>2, <1>3, <1>5, <2>1 DEF CheckMember, Told
<1>6. CASE ReadHistory(w)
  <2> DEFINE step == IF work[w].again THEN "show" ELSE "save"
             h == Recent(history[work[w].home])
             x == [work[w] EXCEPT !.turns = h, !.at = step]
  <2>1. work' = [work EXCEPT ![w] = x]
    BY <1>6 DEF ReadHistory
  <2>2. w \in WebWorkers => work[w].again = FALSE /\ work[w].shown = FALSE
                            /\ work[w] \in Assignments
    BY <1>1, <1>6 DEF ReadHistory, Plain
  <2>3. work[w].again = FALSE => step = "save"
    OBVIOUS
  <2> HIDE DEF step, h
  <2>4. w \in WebWorkers => x.again = FALSE /\ x.shown = FALSE /\ x.at = step
    BY <2>2 DEF Assignments
  <2>5. w \in WebWorkers => Plain(x)
    BY <2>2, <2>3, <2>4 DEF Plain
  <2> HIDE DEF x
  <2> QED
    BY <2>1, <2>5, OneWebTurn
<1>7. CASE SaveQuestion(w)
  <2>1. w \in WebWorkers => Plain(work[w]) /\ work[w] \in Assignments
    BY <1>1, <1>7 DEF SaveQuestion
  <2>2. CASE w \in BotWorkers
    <3>1. w \notin WebWorkers /\ Go(w, "show")
      BY <1>7, <2>2, AssistantAssumption DEF SaveQuestion
    <3> QED
      BY <3>1, OneWebTurn DEF Go
  <2>3. CASE w \notin BotWorkers
    <3> DEFINE x == [work[w] EXCEPT !.at = "call", !.turns = Talk(w)]
    <3>1. work' = [work EXCEPT ![w] = x]
      BY <1>7, <2>3 DEF SaveQuestion
    <3>2. w \in WebWorkers => Plain(x)
      BY <2>1 DEF Plain, Assignments
    <3> HIDE DEF x
    <3> QED
      BY <3>1, <3>2, OneWebTurn
  <2> QED
    BY <2>2, <2>3
<1>8. CASE ShowPlaceholder(w)
  <2>1. At(w, "show")
    BY <1>8, Zenon DEF ShowPlaceholder
  <2>2. w \notin WebWorkers
    BY <1>1, <2>1 DEF Plain, At
  <2>3. \E x : work' = [work EXCEPT ![w] = x]
    BY <1>8 DEF ShowPlaceholder
  <2> QED
    BY <2>2, <2>3, OneWebTurn
<1>9. CASE CallModel(w)
  <2>1. w \in WebWorkers => Plain(work[w]) /\ work[w] \in Assignments
    BY <1>1, <1>9 DEF CallModel
  <2>2. CASE work' = [work EXCEPT ![w].calls = @ + 1, ![w].turns = @ \o Tools]
    <3> DEFINE x == [work[w] EXCEPT !.calls = @ + 1, !.turns = @ \o Tools]
    <3>1. work' = [work EXCEPT ![w] = x]
      BY <2>2
    <3>2. w \in WebWorkers => Plain(x)
      BY <2>1 DEF Plain, Assignments
    <3> HIDE DEF x
    <3> QED
      BY <3>1, <3>2, OneWebTurn
  <2> QED
    BY <1>3, <1>9, <2>1, <2>2 DEF CallModel
<1>10. CASE KeepAnswer(w)
  <2>1. CASE w \in BotWorkers
    <3>1. w \notin WebWorkers /\ Go(w, "deliver")
      BY <1>10, <2>1, AssistantAssumption DEF KeepAnswer
    <3> QED
      BY <3>1, OneWebTurn DEF Go
  <2> QED
    BY <1>2, <1>10, <2>1 DEF KeepAnswer, Told
<1>11. CASE DeliverAnswer(w) \/ SayFailed(w) \/ WorkFails(w)
  BY <1>2, <1>11 DEF DeliverAnswer, SayFailed, WorkFails, Told, SaysNothing
<1> QED
  BY <1>4, <1>5, <1>6, <1>7, <1>8, <1>9, <1>10, <1>11, Zenon DEF WorkerStep

LEMMA WebStep == ASSUME TurnTypes, WebInv, [AssistantNext]_chatVars PROVE WebInv'
<1>1. ASSUME \A v \in WebWorkers : work'[v] \in {work[v], Resting} PROVE WebInv'
  BY <1>1 DEF WebInv, Plain
<1>2. ASSUME NEW f \in Homes, EnterChat(f) \/ AccessChanges(f) \/ ClearHistory(f) PROVE WebInv'
  BY <1>1, <1>2 DEF EnterChat, AccessChanges, ClearHistory
<1>3. CASE OtherDialogue
  BY <1>1, <1>3 DEF OtherDialogue
<1>4. ASSUME NEW w \in BotWorkers, AskInChat(w) \/ PressRetry(w) PROVE WebInv'
  <2>1. work' = work \/ \E x : work' = [work EXCEPT ![w] = x]
    BY <1>4 DEF AskInChat, PressRetry
  <2>2. w \in Askers /\ w \notin WebWorkers
    BY AssistantAssumption DEF Askers
  <2> QED
    BY <1>1, <2>1, <2>2, OneWebTurn
<1>5. ASSUME NEW w \in WebWorkers, NEW f \in Homes, AskOnDashboard(w, f) PROVE WebInv'
  <2> DEFINE x == BeginTurn("read", f, asked + 1, FALSE)
  <2>1. work' = [work EXCEPT ![w] = x] /\ w \in Askers
    BY <1>5 DEF AskOnDashboard, Askers
  <2>2. Plain(x)
    BY DEF Plain, BeginTurn
  <2> HIDE DEF x
  <2> QED
    BY <2>1, <2>2, OneWebTurn
<1>6. ASSUME NEW w \in Askers, WorkerStep(w) \/ WorkFails(w) PROVE WebInv'
  BY <1>6, WebWorkerStep
<1>7. ASSUME NEW workers, ProcessDies(workers) PROVE WebInv'
  BY <1>1, <1>7 DEF ProcessDies, Askers
<1>8. CASE UNCHANGED chatVars
  BY <1>1, <1>8 DEF chatVars
<1> QED
  BY <1>2, <1>3, <1>4, <1>5, <1>6, <1>7, <1>8 DEF AssistantNext

AssistantInv ==
    ChatInv /\ CountTypes /\ retryShown \in BOOLEAN /\ NumberTypes /\ WebInv

LEMMA AssistantInvInit == ASSUME AssistantInit PROVE AssistantInv
<1>1. CountTypes
  BY AssistantAssumption DEF AssistantInit, CountTypes
<1>2. retryShown \in BOOLEAN
  BY Zenon DEF AssistantInit
<1>3. NumberTypes /\ WebInv
  BY DEF AssistantInit, NumberTypes, WebInv, Askers
<1> QED
  BY <1>1, <1>2, <1>3, ChatInvInit DEF AssistantInv

LEMMA AssistantInvStep ==
    ASSUME AssistantInv, [AssistantNext]_chatVars PROVE AssistantInv'
<1>1. ChatInv /\ CountTypes /\ retryShown \in BOOLEAN /\ NumberTypes /\ WebInv /\ TurnTypes
  BY DEF AssistantInv, ChatInv
<1>2. ChatInv' /\ CountTypes' /\ NumberTypes' /\ WebInv'
  BY <1>1, ChatInvStep, CountStep, NumberStep, WebStep
<1>3. retryShown' \in BOOLEAN
  BY <1>1, ButtonStep
<1> QED
  BY <1>2, <1>3 DEF AssistantInv

LEMMA AssistantInvTypes == ASSUME AssistantInv PROVE AssistantTypeOK
<1>1. \A v \in WebWorkers : work[v] # Resting => ~ work[v].again /\ ~ work[v].shown
  BY DEF AssistantInv, WebInv, Plain
<1>2. TurnTypes /\ CountTypes /\ NumberTypes /\ retryShown \in BOOLEAN
  BY DEF AssistantInv, ChatInv
<1> QED
  BY <1>1, <1>2, Zenon DEF AssistantTypeOK, TurnTypes, CountTypes, NumberTypes

\* The chat's variables keep their types; a web worker's turn is neither a retry nor
\* has a placeholder, and only questions that were asked are open, dropped or wiped
\* (ai_chat 287-452, app 1434-1514).
THEOREM AssistantTypes == AssistantSpec => []AssistantTypeOK
  BY AssistantInvInit, AssistantInvStep, AssistantInvTypes, PTL DEF AssistantSpec
-----------------------------------------------------------------------------
(* The three together, as the run of the services explores them: a step is one *)
(* component's and leaves the others alone.                                    *)

\* Payments, the assistant and the limiter keep their types side by side.
THEOREM ServicesTypes == ServicesSpec => []ServicesTypeOK
<1> DEFINE Inv == TypeInv /\ AssistantInv /\ RateInv
<1>1. ServicesInit => Inv
  BY InitTypes, AssistantInvInit, RateStart DEF ServicesInit
<1>2. Inv /\ [ServicesNext]_allVars => Inv'
  <2> SUFFICES ASSUME Inv, [ServicesNext]_allVars PROVE Inv'
    OBVIOUS
  <2>1. [Next]_vars /\ [AssistantNext]_chatVars /\ [RateNext]_rateVars
    BY Zenon DEF ServicesNext, allVars
  <2> QED
    BY <2>1, TypeStep, AssistantInvStep, RateInvStep
<1>3. Inv => ServicesTypeOK
  BY AssistantInvTypes, RateInvTypes DEF ServicesTypeOK, TypeInv
<1> HIDE DEF Inv
<1> QED
  BY <1>1, <1>2, <1>3, PTL DEF ServicesSpec

\* What the run explores is a behaviour of each component, the assistant's but for
\* its fairness, which the run states of its part alone.
THEOREM EachServiceIsItself ==
    ServicesSpec => Spec /\ RateSpec /\ AssistantInit /\ [][AssistantNext]_chatVars
<1>1. ServicesInit => Init /\ RateInit /\ AssistantInit
  BY DEF ServicesInit
<1>2. [ServicesNext]_allVars => [Next]_vars /\ [AssistantNext]_chatVars /\ [RateNext]_rateVars
  BY Zenon DEF ServicesNext, allVars
<1> QED
  BY <1>1, <1>2, PTL DEF ServicesSpec, Spec, RateSpec

\* The run's specification keeps every safety property it checks.
THEOREM ServicesAreSafe ==
    ServicesSpec => [](/\ LedgerExplainsEnd /\ PaidMonthsAreKept /\ RefundedNotCredited
                       /\ ConversationIsSound /\ WindowIsKept)
<1>1. AssistantInit => ChatInv
  BY ChatInvInit
<1>2. ChatInv /\ [AssistantNext]_chatVars => ChatInv'
  BY ChatInvStep
<1> QED
  BY <1>1, <1>2, ChatIsSound, EachServiceIsItself, LedgerHolds, PaidMonths, RefundsAreDue,
     WindowKept, PTL
=============================================================================
