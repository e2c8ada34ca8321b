--------------------------- MODULE HouseholdsProofs ---------------------------
(***************************************************************************)
(* Proofs about Households, for any number of families, people, invites    *)
(* and worker threads.                                                     *)
(***************************************************************************)
EXTENDS Households, FiniteSetTheorems, TLAPS

-----------------------------------------------------------------------------
(* What worker threads carry. *)

LEMMA JobFields ==
    ASSUME NEW j \in Busy \cup {Idle}
    PROVE  /\ j.kind = "use" => j.fam \in Families /\ j.par \in Parents /\ j.inv \in Invites
           /\ j.kind = "join" => /\ j.fam \in Families /\ j.par \in Parents
                                 /\ j.inv \in Invites \cup {NoInvite} /\ j.makeHead \in BOOLEAN
           /\ j.kind = "joinWrite" =>
                 /\ j.fam \in Families /\ j.par \in Parents
                 /\ j.inv \in Invites \cup {NoInvite} /\ j.makeHead \in BOOLEAN
                 /\ j.seen \in SUBSET Students
           /\ j.kind \in {"head", "remove"} => j.fam \in Families /\ j.par \in Parents
           /\ j.kind = "addChild" => j.fam \in Families
           /\ j.kind = "child" => j.fam \in Families /\ j.stu \in Students
           /\ j.kind = "childWrite" => /\ j.fam \in Families /\ j.stu \in Students
                                       /\ j.seen \in SUBSET (Parents \cup {Nobody})
BY DEF Busy, Idle

LEMMA JobForms ==
    /\ Idle \in Busy \cup {Idle}
    /\ \A f \in Families, p \in Parents, i \in Invites :
          [kind |-> "use", fam |-> f, par |-> p, inv |-> i] \in Busy
    /\ \A f \in Families, p \in Parents, n \in Invites \cup {NoInvite}, b \in BOOLEAN :
          [kind |-> "join", fam |-> f, par |-> p, inv |-> n, makeHead |-> b] \in Busy
    /\ \A f \in Families, p \in Parents, n \in Invites \cup {NoInvite}, b \in BOOLEAN,
          c \in SUBSET Students :
          [kind |-> "joinWrite", fam |-> f, par |-> p, inv |-> n, makeHead |-> b,
           seen |-> c] \in Busy
    /\ \A f \in Families, p \in Parents : [kind |-> "head", fam |-> f, par |-> p] \in Busy
    /\ \A f \in Families, p \in Parents : [kind |-> "remove", fam |-> f, par |-> p] \in Busy
    /\ \A f \in Families : [kind |-> "addChild", fam |-> f] \in Busy
    /\ \A f \in Families, s \in Students :
          [kind |-> "child", fam |-> f, stu |-> s] \in Busy
    /\ \A f \in Families, s \in Students, q \in SUBSET (Parents \cup {Nobody}) :
          [kind |-> "childWrite", fam |-> f, stu |-> s, seen |-> q] \in Busy
BY DEF Busy

LEMMA ChildrenType == \A f \in Families : Children(f) \in SUBSET Students
BY DEF Children

LEMMA InitTypes == Init => TypeOK
<1> SUFFICES ASSUME Init PROVE TypeOK
  OBVIOUS
<1>1. work \in [Workers -> Busy \cup {Idle}]
  BY DEF Init
<1>2. adds \in 0..MaxAdds /\ faults \in 0..MaxFaults
  BY LimitsAssumption DEF Init
<1>3. invites \in [Invites -> [family : Families \cup {NoFamily},
                                status : {"none", "open", "used", "gone"}]]
  BY DEF Init
<1>4. parents \in SUBSET Parents
  BY DEF Init
<1>5. /\ families \in SUBSET Families
    /\ head \in [Families -> Parents \cup {Nobody}]
    /\ students \in SUBSET Students /\ dated \in SUBSET students
  BY DEF Init
<1>6. links \in SUBSET (families \X (Parents \cup {Nobody}) \X (students \cup {NoChild}))
  BY DEF Init
<1>7.  /\ expired \in SUBSET Invites
    /\ pending \in [Parents -> Invites \cup {NoInvite}]
    /\ everMade \in SUBSET (Families \cup Students)
  BY DEF Init
<1>8. /\ guests \in [Invites -> SUBSET Parents]
    /\ removed \in SUBSET (Families \X Parents)
    /\ unseated \in SUBSET Families
    /\ raced \in SUBSET Families /\ crowded \in SUBSET Families
    /\ refused \in BOOLEAN
  BY DEF Init
<1> QED
  BY <1>1, <1>2, <1>3, <1>4, <1>5, <1>6, <1>7, <1>8 DEF TypeOK
-----------------------------------------------------------------------------
(* Types.  A child that is being added is a row of students, is linked to  *)
(* nobody yet and is in the hands of one worker, so that no deletion takes *)
(* it away before it is linked.                                            *)

Holds(w, s) == work[w].kind \in {"child", "childWrite"} /\ work[w].stu = s

ChildInHand ==
    /\ students \subseteq everMade
    /\ \A w \in Workers, s \in Students :
          Holds(w, s) => /\ s \in students
                         /\ \A l \in links : l[3] # s
                         /\ \A v \in Workers : Holds(v, s) => v = w

\* Nor is it among the children a parent is about to be linked to.
SeenLinked ==
    \A w \in Workers : work[w].kind = "joinWrite" =>
        /\ work[w].seen \subseteq everMade
        /\ \A v \in Workers, s \in Students : Holds(v, s) => s \notin work[w].seen

TypeInv == TypeOK /\ ChildInHand /\ SeenLinked

\* A child that has a link is in nobody's hands.
LEMMA LinkedIsNotHeld ==
    ASSUME ChildInHand, NEW f \in Families, NEW s \in Children(f), NEW w \in Workers
    PROVE  ~Holds(w, s)
<1>1. s \in Students /\ \E l \in links : l[3] = s
  BY DEF Children
<1> QED
  BY <1>1 DEF ChildInHand

LEMMA TypeStep == TypeInv /\ [Next]_vars => TypeInv'
<1> SUFFICES ASSUME TypeInv, [Next]_vars PROVE TypeInv'
  OBVIOUS
<1> USE DEF TypeInv, tables, past
<1>1. ASSUME NEW w \in Workers, NEW f \in Families, NEW p \in Parents, CreateFamily(w, f, p)
      PROVE  TypeInv'
  <2>1. work' \in [Workers -> Busy \cup {Idle}]
    BY <1>1, JobForms DEF TypeOK, CreateFamily, Begin
  <2>2. TypeOK'
    BY <1>1, <2>1, NullsAssumption DEF TypeOK, CreateFamily
  <2>3. ChildInHand'
    BY <1>1, <2>1, NullsAssumption DEF TypeOK, ChildInHand, Holds, CreateFamily, Begin
  <2>4. SeenLinked'
    BY <1>1 DEF TypeOK, ChildInHand, SeenLinked, Holds, CreateFamily, Begin
  <2> QED
    BY <2>2, <2>3, <2>4
<1>2. ASSUME NEW w \in Workers, SetHead(w)
      PROVE  TypeInv'
  <2>1. work' \in [Workers -> Busy \cup {Idle}]
    BY <1>2, JobFields DEF TypeOK, SetHead, End
  <2>2. TypeOK'
    BY <1>2, <2>1, JobFields, NullsAssumption DEF TypeOK, SetHead, Race
  <2>3. ChildInHand'
    BY <1>2, <2>1, NullsAssumption DEF TypeOK, ChildInHand, Holds, SetHead, End, Idle
  <2>4. SeenLinked'
    BY <1>2 DEF TypeOK, ChildInHand, SeenLinked, Holds, SetHead, End, Idle
  <2> QED
    BY <2>2, <2>3, <2>4
<1>3. ASSUME NEW w \in Workers, UseInvite(w)
      PROVE  TypeInv'
  <2> DEFINE j == [kind |-> "join", fam |-> work[w].fam, par |-> work[w].par,
                   inv |-> work[w].inv, makeHead |-> FALSE]
  <2>1. work[w] \in Busy \cup {Idle} /\ work[w].kind = "use"
    BY <1>3 DEF TypeOK, UseInvite
  <2>2. j \in Busy /\ j.kind = "join"
    BY <2>1, JobFields, JobForms
  <2>3. work' = [work EXCEPT ![w] = j] \/ work' = [work EXCEPT ![w] = Idle]
    BY <1>3 DEF UseInvite, Begin, End
  <2>4. work' \in [Workers -> Busy \cup {Idle}]
    BY <2>2, <2>3 DEF TypeOK
  <2>5. TypeOK'
    BY <1>3, <2>4 DEF TypeOK, UseInvite
  <2>6. ChildInHand'
    <3>1. \A v \in Workers, s \in Students : Holds(v, s)' => Holds(v, s)
      BY <2>2, <2>3 DEF TypeOK, Holds, Idle
    <3> QED
      BY <1>3, <3>1 DEF ChildInHand, UseInvite
  <2>7. SeenLinked'
    <3>1. \A v \in Workers : work'[v] = work[v] \/ work'[v].kind \in {"join", "idle"}
      BY <2>2, <2>3 DEF TypeOK, Idle
    <3> QED
      BY <1>3, <3>1 DEF SeenLinked, Holds, UseInvite
  <2> QED
    BY <2>5, <2>6, <2>7
<1>4. ASSUME NEW w \in Workers, ReadChildren(w)
      PROVE  TypeInv'
  <2>1. work' \in [Workers -> Busy \cup {Idle}]
    BY <1>4, JobFields, JobForms, ChildrenType DEF TypeOK, ReadChildren, Begin
  <2>2. TypeOK'
    BY <1>4, <2>1, JobFields DEF TypeOK, ReadChildren, Children
  <2>3. ChildInHand'
    BY <1>4, <2>1, NullsAssumption
       DEF TypeOK, ChildInHand, Holds, ReadChildren, Children, Begin
  <2>4. SeenLinked'
    <3> DEFINE f == work[w].fam
    <3>1. f \in Families
      BY <1>4, JobFields DEF TypeOK, ReadChildren
    <3>2. Children(f) \subseteq everMade
      BY <3>1, NullsAssumption DEF TypeOK, ChildInHand, Children
    <3>3. \A v \in Workers, s \in Students : Holds(v, s) => s \notin Children(f)
      BY <3>1, LinkedIsNotHeld
    <3>4. \A v \in Workers, s \in Students : Holds(v, s)' => Holds(v, s)
      BY <1>4 DEF TypeOK, Holds, ReadChildren, Begin
    <3>5. \A v \in Workers : work'[v].kind = "joinWrite" =>
             work'[v].seen = Children(f) \/ work'[v] = work[v]
      BY <1>4 DEF TypeOK, ReadChildren, Begin
    <3>6. \A v \in Workers : work'[v].kind = "joinWrite" =>
             \/ work'[v].seen = Children(f)
             \/ work[v].kind = "joinWrite" /\ work'[v].seen = work[v].seen
      BY <3>5
    <3>7. everMade' = everMade
      BY <1>4 DEF ReadChildren
    <3> HIDE DEF f
    <3> QED
      BY <3>2, <3>3, <3>4, <3>6, <3>7 DEF SeenLinked
  <2> QED
    BY <2>2, <2>3, <2>4
<1>5. ASSUME NEW w \in Workers, WriteJoin(w)
      PROVE  TypeInv'
  <2> DEFINE j == [kind |-> "head", fam |-> work[w].fam, par |-> work[w].par]
  <2>1. work[w] \in Busy \cup {Idle} /\ work[w].kind = "joinWrite"
    BY <1>5 DEF TypeOK, WriteJoin
  <2>2. j \in Busy /\ j.kind = "head"
    BY <2>1, JobFields, JobForms
  <2>3. work' = [work EXCEPT ![w] = j] \/ work' = [work EXCEPT ![w] = Idle]
    BY <1>5 DEF WriteJoin, Begin, End
  <2>4. work' \in [Workers -> Busy \cup {Idle}]
    BY <2>2, <2>3 DEF TypeOK
  <2>5. TypeOK'
    BY <1>5, <2>1, <2>4, JobFields, NullsAssumption DEF TypeOK, WriteJoin, Race
  <2>6. ChildInHand'
    <3>1. \A v \in Workers, s \in Students : Holds(v, s)' => Holds(v, s)
      BY <2>2, <2>3 DEF TypeOK, Holds, Idle
    <3>2. UNCHANGED <<students, everMade>>
      BY <1>5 DEF WriteJoin
    <3>3. \A l \in links' : l \in links \/ l[3] \in work[w].seen \cup {NoChild}
      BY <1>5 DEF WriteJoin
    <3>4. \A v \in Workers, s \in Students : Holds(v, s) => s \notin work[w].seen
      BY <2>1 DEF SeenLinked
    <3> QED
      BY <3>1, <3>2, <3>3, <3>4, NullsAssumption DEF ChildInHand
  <2>7. SeenLinked'
    BY <1>5 DEF TypeOK, ChildInHand, SeenLinked, Holds, WriteJoin, Begin, End, IsIdle, Idle
  <2> QED
    BY <2>5, <2>6, <2>7
<1>6. ASSUME NEW w \in Workers, ReadParents(w)
      PROVE  TypeInv'
  <2>1. work' \in [Workers -> Busy \cup {Idle}]
    BY <1>6, JobFields, JobForms DEF TypeOK, ReadParents, Begin
  <2>2. TypeOK'
    BY <1>6, <2>1, JobFields, NullsAssumption DEF TypeOK, ReadParents
  <2>3. ChildInHand'
    BY <1>6, <2>1, JobFields, NullsAssumption
       DEF TypeOK, ChildInHand, Holds, ReadParents, Begin
  <2>4. SeenLinked'
    BY <1>6 DEF TypeOK, ChildInHand, SeenLinked, Holds, ReadParents, Begin
  <2> QED
    BY <2>2, <2>3, <2>4
<1>7. ASSUME NEW w \in Workers, WriteChild(w)
      PROVE  TypeInv'
  <2>1. work' \in [Workers -> Busy \cup {Idle}]
    BY <1>7, JobFields DEF TypeOK, WriteChild, End
  <2>2. TypeOK'
    BY <1>7, <2>1, JobFields, NullsAssumption
       DEF TypeOK, ChildInHand, Holds, WriteChild, Race
  <2>3. ChildInHand'
    BY <1>7, <2>1, JobFields, NullsAssumption
       DEF TypeOK, ChildInHand, Holds, WriteChild, End, Idle
  <2>4. SeenLinked'
    BY <1>7 DEF TypeOK, ChildInHand, SeenLinked, Holds, WriteChild, End, Idle
  <2> QED
    BY <2>2, <2>3, <2>4
<1>8. ASSUME NEW w \in Workers, HandlerFails(w)
      PROVE  TypeInv'
  <2>1. work' \in [Workers -> Busy \cup {Idle}]
    BY <1>8 DEF TypeOK, HandlerFails, End
  <2>2. TypeOK'
    BY <1>8, <2>1, LimitsAssumption DEF TypeOK, HandlerFails, Fault
  <2>3. ChildInHand'
    BY <1>8, <2>1, NullsAssumption DEF TypeOK, ChildInHand, Holds, HandlerFails, End, Idle
  <2>4. SeenLinked'
    BY <1>8 DEF TypeOK, ChildInHand, SeenLinked, Holds, HandlerFails, End, Idle
  <2> QED
    BY <2>2, <2>3, <2>4
<1>9. ASSUME NEW w \in Workers, NEW f \in Families, CountChildren(w, f)
      PROVE  TypeInv'
  <2>1. work' \in [Workers -> Busy \cup {Idle}]
    BY <1>9, JobForms DEF TypeOK, CountChildren, Begin
  <2>2. TypeOK'
    BY <1>9, <2>1 DEF TypeOK, CountChildren
  <2>3. ChildInHand'
    BY <1>9, <2>1, NullsAssumption DEF TypeOK, ChildInHand, Holds, CountChildren, Begin
  <2>4. SeenLinked'
    BY <1>9 DEF TypeOK, ChildInHand, SeenLinked, Holds, CountChildren, Begin
  <2> QED
    BY <2>2, <2>3, <2>4
<1>10. ASSUME NEW w \in Workers, NEW f \in Families, DeleteFamily(w, f)
       PROVE  TypeInv'
  <2> DEFINE rest == {l \in links : l[1] # f}
             orphans == {s \in Children(f) : \A l \in rest : l[3] # s}
  <2>1. SeenLinked'
    BY <1>10
       DEF TypeOK, ChildInHand, SeenLinked, Holds, DeleteFamily, Begin, End, IsIdle, Idle
  <2>2. CASE UNCHANGED <<families, links, students, invites>>
    <3>1. UNCHANGED <<head, parents, dated, expired, pending, everMade, work, adds, faults,
                      guests, removed, unseated, raced, crowded>> /\ refused' \in BOOLEAN
      BY <1>10 DEF DeleteFamily, TypeOK
    <3>2. TypeOK'
      BY <2>2, <3>1 DEF TypeOK
    <3>3. ChildInHand'
      BY <2>2, <3>1 DEF ChildInHand, Holds
    <3> QED
      BY <2>1, <3>2, <3>3
  <2>3. CASE /\ orphans \cap dated = {} /\ families' = families \ {f} /\ links' = rest
             /\ students' = students \ orphans
             /\ invites' = [i \in Invites |->
                              IF invites[i].family = f
                              THEN [invites[i] EXCEPT !.status = "gone"] ELSE invites[i]]
    <3>1. UNCHANGED <<head, parents, dated, expired, pending, everMade, work, adds, faults,
                      guests, removed, unseated, raced, crowded>> /\ refused' \in BOOLEAN
      BY <1>10 DEF DeleteFamily, TypeOK
    <3>2. invites' \in [Invites -> [family : Families \cup {NoFamily},
                                   status : {"none", "open", "used", "gone"}]]
      BY <2>3 DEF TypeOK
    <3>3. links' \in SUBSET (families' \X (Parents \cup {Nobody}) \X (students' \cup {NoChild}))
      <4>1. ASSUME NEW l \in rest
            PROVE  l \in families' \X (Parents \cup {Nobody}) \X (students' \cup {NoChild})
        <5>1. l[3] \notin orphans
          BY <4>1
        <5> QED
          BY <2>3, <4>1, <5>1 DEF TypeOK
      <4> QED
        BY <2>3, <4>1
    <3>4. TypeOK'
      BY <2>3, <3>1, <3>2, <3>3 DEF TypeOK
    <3>5. \A v \in Workers, s \in Students : Holds(v, s) => s \notin orphans
      BY LinkedIsNotHeld
    <3>6. ChildInHand'
      BY <2>3, <3>1, <3>5 DEF ChildInHand, Holds
    <3> QED
      BY <2>1, <3>4, <3>6
  <2> QED
    BY <1>10, <2>2, <2>3 DEF DeleteFamily
<1>11. ASSUME NEW w \in Workers, NEW f \in Families, NEW p \in Parents, AddMember(w, f, p)
       PROVE  TypeInv'
  <2>1. work' \in [Workers -> Busy \cup {Idle}]
    BY <1>11, JobForms DEF TypeOK, AddMember, Begin
  <2>2. TypeOK'
    BY <1>11, <2>1, NullsAssumption, LimitsAssumption DEF TypeOK, AddMember
  <2>3. ChildInHand'
    BY <1>11, <2>1, NullsAssumption DEF TypeOK, ChildInHand, Holds, AddMember, Begin
  <2>4. SeenLinked'
    BY <1>11 DEF TypeOK, ChildInHand, SeenLinked, Holds, AddMember, Begin
  <2> QED
    BY <2>2, <2>3, <2>4
<1>12. ASSUME NEW w \in Workers, NEW f \in Families, NEW p \in Parents, RemoveReads(w, f, p)
       PROVE  TypeInv'
  <2>1. work' \in [Workers -> Busy \cup {Idle}]
    BY <1>12, JobForms DEF TypeOK, RemoveReads, Begin
  <2>2. TypeOK'
    BY <1>12, <2>1 DEF TypeOK, RemoveReads
  <2>3. ChildInHand'
    BY <1>12 DEF TypeOK, ChildInHand, Holds, RemoveReads, Begin
  <2>4. SeenLinked'
    BY <1>12 DEF TypeOK, ChildInHand, SeenLinked, Holds, RemoveReads, Begin
  <2> QED
    BY <2>2, <2>3, <2>4
<1>22. ASSUME NEW w \in Workers, RemoveDeletes(w)
       PROVE  TypeInv'
  <2>1. work' \in [Workers -> Busy \cup {Idle}]
    BY <1>22 DEF TypeOK, RemoveDeletes, End
  <2>2. TypeOK'
    BY <1>22, <2>1, JobFields, NullsAssumption DEF TypeOK, RemoveDeletes, Race
  <2>3. ChildInHand'
    BY <1>22, <2>1, NullsAssumption DEF TypeOK, ChildInHand, Holds, RemoveDeletes, End, Idle
  <2>4. SeenLinked'
    BY <1>22 DEF TypeOK, ChildInHand, SeenLinked, Holds, RemoveDeletes, End, Idle
  <2> QED
    BY <2>2, <2>3, <2>4
<1>13. ASSUME NEW w \in Workers, NEW f \in Families, NEW s \in Students, RemoveChild(w, f, s)
       PROVE  TypeInv'
  <2> DEFINE rest == {l \in links : ~(l[1] = f /\ l[3] = s)}
             orphan == \A l \in rest : l[3] # s
  <2>1. SeenLinked'
    BY <1>13
       DEF TypeOK, ChildInHand, SeenLinked, Holds, RemoveChild, Begin, End, IsIdle, Idle
  <2>2. CASE UNCHANGED <<links, students>>
    <3>1. UNCHANGED <<families, head, parents, dated, invites, expired, pending, everMade,
                      work, adds, faults, guests, removed, unseated, crowded>>
          /\ refused' \in BOOLEAN /\ raced' \in SUBSET Families
      BY <1>13 DEF RemoveChild, TypeOK, Race
    <3>2. TypeOK'
      BY <2>2, <3>1 DEF TypeOK
    <3>3. ChildInHand'
      BY <2>2, <3>1 DEF ChildInHand, Holds
    <3> QED
      BY <2>1, <3>2, <3>3
  <2>3. CASE /\ ~(orphan /\ s \in dated) /\ links' = rest
             /\ students' = IF orphan THEN students \ {s} ELSE students
    <3>1. UNCHANGED <<families, head, parents, dated, invites, expired, pending, everMade,
                      work, adds, faults, guests, removed, unseated, crowded>>
          /\ refused' \in BOOLEAN /\ raced' \in SUBSET Families
      BY <1>13 DEF RemoveChild, TypeOK, Race
    <3>2. links' \in SUBSET (families \X (Parents \cup {Nobody}) \X (students' \cup {NoChild}))
      BY <2>3 DEF TypeOK
    <3>3. TypeOK'
      BY <2>3, <3>1, <3>2 DEF TypeOK
    <3>4. s \in Children(f)
      BY <1>13 DEF RemoveChild
    <3>5. \A v \in Workers : ~Holds(v, s)
      BY <3>4, LinkedIsNotHeld
    <3>6. ChildInHand'
      BY <2>3, <3>1, <3>5 DEF ChildInHand, Holds
    <3> QED
      BY <2>1, <3>3, <3>6
  <2> QED
    BY <1>13, <2>2, <2>3 DEF RemoveChild
<1>14. ASSUME NEW w \in Workers, NEW f \in Families, NEW i \in Invites, CreateInvite(w, i, f)
       PROVE  TypeInv'
  <2>1. work' \in [Workers -> Busy \cup {Idle}]
    BY <1>14 DEF TypeOK, CreateInvite
  <2>2. TypeOK'
    BY <1>14, <2>1 DEF TypeOK, CreateInvite
  <2>3. ChildInHand'
    BY <1>14, <2>1 DEF TypeOK, ChildInHand, Holds, CreateInvite
  <2>4. SeenLinked'
    BY <1>14 DEF TypeOK, ChildInHand, SeenLinked, Holds, CreateInvite
  <2> QED
    BY <2>2, <2>3, <2>4
<1>15. ASSUME NEW w \in Workers, NEW s \in Students, AddStudent(w, s)
       PROVE  TypeInv'
  <2>1. work' \in [Workers -> Busy \cup {Idle}]
    BY <1>15, JobFields, JobForms DEF TypeOK, AddStudent, Begin
  <2>2. TypeOK'
    BY <1>15, <2>1, JobFields, NullsAssumption DEF TypeOK, AddStudent
  <2>3. ChildInHand'
    BY <1>15, <2>1, JobFields, NullsAssumption
       DEF TypeOK, ChildInHand, Holds, AddStudent, Begin
  <2>4. SeenLinked'
    BY <1>15 DEF TypeOK, ChildInHand, SeenLinked, Holds, AddStudent, Begin
  <2> QED
    BY <2>2, <2>3, <2>4
<1>16. ASSUME NEW w \in Workers, NEW p \in Parents, ShareContact(w, p)
       PROVE  TypeInv'
  <2>1. work' \in [Workers -> Busy \cup {Idle}]
    <3> DEFINE i == pending[p]
               j == [kind |-> "use", fam |-> invites[i].family, par |-> p, inv |-> i]
    <3>1. CASE Valid(i)
      <4>1. i \in Invites /\ invites[i].family \in Families
        BY <1>16, <3>1 DEF TypeOK, ShareContact, Valid
      <4>2. j \in Busy
        BY <4>1, JobForms
      <4>3. work' = [work EXCEPT ![w] = j]
        BY <1>16, <3>1 DEF ShareContact, Begin
      <4> QED
        BY <4>2, <4>3 DEF TypeOK
    <3>2. CASE ~Valid(i)
      BY <1>16, <3>2 DEF TypeOK, ShareContact
    <3> QED
      BY <3>1, <3>2
  <2>2. TypeOK'
    BY <1>16, <2>1 DEF TypeOK, ShareContact
  <2>3. /\ \A v \in Workers : work'[v] = work[v] \/ work'[v].kind = "use"
        /\ everMade' = everMade /\ students' = students /\ links' = links
    <3> DEFINE i == pending[p]
               j == [kind |-> "use", fam |-> invites[i].family, par |-> p, inv |-> i]
    <3>1. work' = work \/ work' = [work EXCEPT ![w] = j]
      BY <1>16 DEF ShareContact, Begin
    <3>2. everMade' = everMade /\ students' = students /\ links' = links
      BY <1>16 DEF ShareContact
    <3> QED
      BY <3>1, <3>2 DEF TypeOK
  <2>4. ChildInHand'
    BY <2>3 DEF ChildInHand, Holds
  <2>5. SeenLinked'
    BY <2>3 DEF SeenLinked, Holds
  <2> QED
    BY <2>2, <2>4, <2>5
<1>17. ASSUME NEW w \in Workers, NEW p \in Parents, NEW i \in Invites, OpenInvite(w, p, i)
       PROVE  TypeInv'
  <2>1. work' \in [Workers -> Busy \cup {Idle}]
    BY <1>17, JobForms DEF TypeOK, OpenInvite, Valid, Begin
  <2>2. TypeOK'
    BY <1>17, <2>1, JobFields DEF TypeOK, OpenInvite, Valid
  <2>3. ChildInHand'
    BY <1>17, <2>1, NullsAssumption DEF TypeOK, ChildInHand, Holds, OpenInvite, Begin
  <2>4. SeenLinked'
    <3>1. \A v \in Workers : work'[v] = work[v] \/ work'[v].kind = "use"
      BY <1>17 DEF TypeOK, OpenInvite, Begin
    <3>2. everMade' = everMade
      BY <1>17 DEF OpenInvite
    <3> QED
      BY <3>1, <3>2 DEF SeenLinked, Holds
  <2> QED
    BY <2>2, <2>3, <2>4
<1>18. ASSUME NEW i \in Invites, Expire(i) \/ CleanInvite(i)
       PROVE  TypeInv'
  <2>1. work' \in [Workers -> Busy \cup {Idle}]
    BY <1>18 DEF TypeOK, Expire, CleanInvite
  <2>2. TypeOK'
    BY <1>18, <2>1 DEF TypeOK, Expire, CleanInvite
  <2>3. ChildInHand'
    BY <1>18, <2>1 DEF TypeOK, ChildInHand, Holds, Expire, CleanInvite
  <2>4. SeenLinked'
    BY <1>18 DEF TypeOK, ChildInHand, SeenLinked, Holds, Expire, CleanInvite
  <2> QED
    BY <2>2, <2>3, <2>4
<1>19. ASSUME NEW s \in Students, YearIsKnown(s)
       PROVE  TypeInv'
  <2>1. work' \in [Workers -> Busy \cup {Idle}]
    BY <1>19 DEF TypeOK, YearIsKnown
  <2>2. TypeOK'
    BY <1>19, <2>1 DEF TypeOK, YearIsKnown
  <2>3. ChildInHand'
    BY <1>19, <2>1 DEF TypeOK, ChildInHand, Holds, YearIsKnown
  <2>4. SeenLinked'
    BY <1>19 DEF TypeOK, ChildInHand, SeenLinked, Holds, YearIsKnown
  <2> QED
    BY <2>2, <2>3, <2>4
<1>20. ASSUME Restart
       PROVE  TypeInv'
  <2>1. work' \in [Workers -> Busy \cup {Idle}]
    BY <1>20 DEF TypeOK, Restart
  <2>2. TypeOK'
    BY <1>20, <2>1, NullsAssumption, LimitsAssumption DEF TypeOK, Restart, Fault
  <2>3. ChildInHand'
    BY <1>20, <2>1, NullsAssumption DEF TypeOK, ChildInHand, Holds, Restart, Idle
  <2>4. SeenLinked'
    BY <1>20 DEF TypeOK, ChildInHand, SeenLinked, Holds, Restart, Idle
  <2> QED
    BY <2>2, <2>3, <2>4
<1>21. ASSUME UNCHANGED vars
       PROVE  TypeInv'
  <2>1. work' \in [Workers -> Busy \cup {Idle}]
    BY <1>21 DEF TypeOK, vars
  <2>2. TypeOK'
    BY <1>21, <2>1 DEF TypeOK, vars
  <2>3. ChildInHand'
    BY <1>21, <2>1 DEF TypeOK, ChildInHand, Holds, vars
  <2>4. SeenLinked'
    BY <1>21 DEF TypeOK, ChildInHand, SeenLinked, Holds, vars
  <2> QED
    BY <2>2, <2>3, <2>4
<1> QED
  BY <1>1, <1>2, <1>3, <1>4, <1>5, <1>6, <1>7, <1>8, <1>9, <1>10, <1>11, <1>12, <1>13,
     <1>14, <1>15, <1>16, <1>17, <1>18, <1>19, <1>20, <1>21, <1>22
     DEF Next, Handler

LEMMA InitInHand == Init => ChildInHand /\ SeenLinked
BY DEF Init, ChildInHand, SeenLinked, Holds, Idle

\* The type invariant: the tables refer to each other as their foreign keys
\* demand, and every worker carries a well-formed job.
THEOREM TypeCorrect == Spec => []TypeOK
<1>1. Init => TypeInv
  BY InitTypes, InitInHand DEF TypeInv
<1>2. TypeInv => TypeOK
  BY DEF TypeInv
<1> QED
  BY <1>1, <1>2, TypeStep, PTL DEF Spec
-----------------------------------------------------------------------------
(* The head of a family has the placeholder row SetHead wrote.  Only the   *)
(* deletion of the family removes it and that of the parent, who is not    *)
(* the head when it begins; whoever is made head before it ends is counted *)
(* as unseated.  An id that was never given out has no head.               *)

HeadSpared ==
    \A w \in Workers : work[w].kind = "remove" =>
        work[w].fam \in unseated \/ head[work[w].fam] # work[w].par

HeadLinked ==
    /\ families \subseteq everMade
    /\ unseated \subseteq raced
    /\ \A f \in Families : f \notin everMade => head[f] = Nobody
    /\ \A f \in families \ unseated : head[f] # Nobody => <<f, head[f], NoChild>> \in links
    /\ HeadSpared

LEMMA HeadStep == TypeOK /\ HeadLinked /\ [Next]_vars => HeadLinked'
<1> SUFFICES ASSUME TypeOK, HeadLinked, [Next]_vars PROVE HeadLinked'
  OBVIOUS
<1> USE DEF tables, past
<1>1. ASSUME UNCHANGED <<families, head, unseated>>, everMade \subseteq everMade',
             links \subseteq links', raced \subseteq raced',
             \A w \in Workers : work'[w] = work[w] \/ work'[w].kind # "remove"
      PROVE  HeadLinked'
  <2>1. HeadSpared'
    BY <1>1 DEF HeadLinked, HeadSpared
  <2> QED
    BY <1>1, <2>1 DEF HeadLinked, TypeOK
<1>2. ASSUME NEW w \in Workers,
             UseInvite(w) \/ ReadChildren(w) \/ ReadParents(w) \/ HandlerFails(w)
      PROVE  HeadLinked'
  <2>1. \A v \in Workers : work'[v] = work[v] \/ work'[v].kind # "remove"
    BY <1>2 DEF UseInvite, ReadChildren, ReadParents, HandlerFails, Begin, End, Idle, TypeOK
  <2> QED
    BY <1>1, <1>2, <2>1 DEF UseInvite, ReadChildren, ReadParents, HandlerFails
<1>3. ASSUME NEW w \in Workers, NEW f \in Families,
             \/ CountChildren(w, f) \/ \E p \in Parents : AddMember(w, f, p)
             \/ \E i \in Invites : CreateInvite(w, i, f)
      PROVE  HeadLinked'
  <2>1. \A v \in Workers : work'[v] = work[v] \/ work'[v].kind # "remove"
    BY <1>3 DEF CountChildren, AddMember, CreateInvite, Begin, TypeOK
  <2> QED
    BY <1>1, <1>3, <2>1 DEF CountChildren, AddMember, CreateInvite
<1>4. ASSUME NEW w \in Workers, NEW p \in Parents,
             ShareContact(w, p) \/ \E i \in Invites : OpenInvite(w, p, i)
      PROVE  HeadLinked'
  <2>1. \A v \in Workers : work'[v] = work[v] \/ work'[v].kind # "remove"
    BY <1>4 DEF ShareContact, OpenInvite, Begin, TypeOK
  <2> QED
    BY <1>1, <1>4, <2>1 DEF ShareContact, OpenInvite
<1>5. ASSUME \/ \E i \in Invites : Expire(i) \/ CleanInvite(i)
             \/ \E s \in Students : YearIsKnown(s)
      PROVE  HeadLinked'
  BY <1>1, <1>5 DEF Expire, CleanInvite, YearIsKnown
<1>6. ASSUME NEW w \in Workers, WriteJoin(w) \/ WriteChild(w)
      PROVE  HeadLinked'
  <2>1. \A v \in Workers : work'[v] = work[v] \/ work'[v].kind # "remove"
    BY <1>6 DEF WriteJoin, WriteChild, Begin, End, Idle, TypeOK
  <2> QED
    BY <1>1, <1>6, <2>1 DEF WriteJoin, WriteChild, Race
<1>7. ASSUME NEW w \in Workers, NEW s \in Students, AddStudent(w, s)
      PROVE  HeadLinked'
  <2>1. \A v \in Workers : work'[v] = work[v] \/ work'[v].kind # "remove"
    BY <1>7 DEF AddStudent, Begin, TypeOK
  <2> QED
    BY <1>1, <1>7, <2>1 DEF AddStudent
<1>8. CASE Restart
  BY <1>1, <1>8 DEF Restart, Idle
<1>9. ASSUME NEW w \in Workers, NEW f \in Families, NEW p \in Parents, CreateFamily(w, f, p)
      PROVE  HeadLinked'
  <2>1. HeadSpared'
    BY <1>9 DEF CreateFamily, Begin, HeadLinked, HeadSpared, TypeOK
  <2> QED
    BY <1>9, <2>1 DEF CreateFamily, HeadLinked, TypeOK
<1>10. ASSUME NEW w \in Workers, SetHead(w)
       PROVE  HeadLinked'
  <2> DEFINE f == work[w].fam  p == work[w].par
  <2>1. f \in Families /\ p \in Parents /\ work' = [work EXCEPT ![w] = Idle]
    BY <1>10, JobFields DEF SetHead, End, TypeOK
  <2>2. CASE f \notin families
    BY <1>1, <1>10, <2>1, <2>2 DEF SetHead, Idle, TypeOK
  <2>3. CASE f \in families
    <3>1. /\ head' = [head EXCEPT ![f] = p] /\ links' = links \cup {<<f, p, NoChild>>}
          /\ unseated' = IF Unseats(w, f, p) THEN unseated \cup {f} ELSE unseated
          /\ raced' = IF Overtakes(w, f) \/ Unseats(w, f, p) THEN raced \cup {f} ELSE raced
          /\ UNCHANGED <<families, everMade>>
      BY <1>10, <2>3 DEF SetHead
    <3>2. HeadSpared'
      <4> SUFFICES ASSUME NEW v \in Workers, work'[v].kind = "remove"
                   PROVE  work'[v].fam \in unseated' \/ head'[work'[v].fam] # work'[v].par
        BY DEF HeadSpared
      <4>1. v # w /\ work'[v] = work[v] /\ work[v].fam \in Families
        BY <2>1, JobFields DEF Idle, TypeOK
      <4>2. work[v].fam \in unseated \/ head[work[v].fam] # work[v].par
        BY <4>1 DEF HeadLinked, HeadSpared
      <4>3. CASE work[v].fam = f /\ work[v].par = p
        BY <3>1, <4>1, <4>3 DEF Unseats
      <4>4. CASE work[v].fam = f /\ work[v].par # p
        BY <2>1, <3>1, <4>1, <4>4 DEF TypeOK
      <4>5. CASE work[v].fam # f
        BY <2>1, <3>1, <4>1, <4>2, <4>5 DEF TypeOK
      <4> QED
        BY <4>3, <4>4, <4>5
    <3>3. unseated' \subseteq raced' /\ unseated \subseteq unseated'
      BY <3>1 DEF HeadLinked
    <3> QED
      BY <2>1, <2>3, <3>1, <3>2, <3>3 DEF HeadLinked, TypeOK
  <2> QED
    BY <2>2, <2>3
<1>11. ASSUME NEW w \in Workers, NEW f \in Families, NEW p \in Parents, RemoveReads(w, f, p)
       PROVE  HeadLinked'
  <2>1. HeadSpared'
    BY <1>11 DEF RemoveReads, Begin, HeadLinked, HeadSpared, TypeOK
  <2> QED
    BY <1>11, <2>1 DEF RemoveReads, HeadLinked
<1>12. ASSUME NEW w \in Workers, RemoveDeletes(w)
       PROVE  HeadLinked'
  <2> DEFINE f == work[w].fam  p == work[w].par
  <2>1. f \in Families /\ p \in Parents /\ (f \in unseated \/ head[f] # p)
    BY <1>12, JobFields DEF RemoveDeletes, HeadLinked, HeadSpared, TypeOK
  <2>2. /\ UNCHANGED <<families, head, everMade, unseated>> /\ raced \subseteq raced'
        /\ links' = {l \in links : ~(l[1] = f /\ l[2] = p)}
        /\ work' = [work EXCEPT ![w] = Idle]
    BY <1>12 DEF RemoveDeletes, End, Race
  <2>3. HeadSpared'
    BY <2>2 DEF HeadLinked, HeadSpared, Idle, TypeOK
  <2> QED
    BY <2>1, <2>2, <2>3 DEF HeadLinked, TypeOK
<1>13. ASSUME NEW w \in Workers, NEW f \in Families, NEW s \in Students, RemoveChild(w, f, s)
       PROVE  HeadLinked'
  <2>1. UNCHANGED <<families, head, everMade, unseated, work>> /\ raced \subseteq raced'
    BY <1>13 DEF RemoveChild, Race
  <2>2. s # NoChild
    BY NullsAssumption
  <2>3. links' = links \/ links' = {l \in links : ~(l[1] = f /\ l[3] = s)}
    BY <1>13 DEF RemoveChild
  <2> QED
    BY <2>1, <2>2, <2>3 DEF HeadLinked, HeadSpared, TypeOK
<1>14. ASSUME NEW w \in Workers, NEW f \in Families, DeleteFamily(w, f)
       PROVE  HeadLinked'
  <2>1. UNCHANGED <<head, everMade, unseated, raced, work>>
    BY <1>14 DEF DeleteFamily
  <2>2. \/ UNCHANGED <<families, links>>
        \/ families' = families \ {f} /\ links' = {l \in links : l[1] # f}
    BY <1>14 DEF DeleteFamily
  <2> QED
    BY <2>1, <2>2 DEF HeadLinked, HeadSpared, TypeOK
<1>15. CASE UNCHANGED vars
  BY <1>1, <1>15 DEF vars
<1> QED
  BY <1>2, <1>3, <1>4, <1>5, <1>6, <1>7, <1>8, <1>9, <1>10, <1>11, <1>12, <1>13, <1>14,
     <1>15 DEF Next, Handler

\* The head of a family is always one of its members, whatever is removed,
\* refused or overtaken, except for one made head during his own removal.
THEOREM HeadStaysMember == Spec => []HeadIsMember
<1>1. Init => TypeInv /\ HeadLinked
  BY InitTypes, InitInHand DEF TypeInv, Init, HeadLinked, HeadSpared, Idle
<1>2. TypeInv /\ HeadLinked /\ [Next]_vars => (TypeInv /\ HeadLinked)'
  BY TypeStep, HeadStep DEF TypeInv
<1>3. TypeInv /\ HeadLinked => HeadIsMember
  BY DEF TypeInv, TypeOK, HeadLinked, HeadIsMember, Members
<1> QED
  BY <1>1, <1>2, <1>3, PTL DEF Spec
-----------------------------------------------------------------------------
(* An invitation that somebody is joining with, or has joined with, is     *)
(* spent; only one worker ever carries it, and only until it has written.  *)

Joins(w, i) == work[w].kind \in {"join", "joinWrite"} /\ work[w].inv = i

InviteSpent ==
    \A i \in Invites :
        /\ guests[i] # {} => invites[i].status \in {"used", "gone"}
        /\ \A p, q \in guests[i] : p = q
        /\ \A w \in Workers : Joins(w, i) =>
              /\ invites[i].status \in {"used", "gone"} /\ guests[i] = {}
              /\ \A v \in Workers : Joins(v, i) => v = w

\* A step after which nobody new joins, no guest is new and no spent invite
\* comes back.
LEMMA InviteFrame ==
    ASSUME InviteSpent, UNCHANGED guests,
           \A i \in Invites : invites[i].status \in {"used", "gone"} =>
                                 invites'[i].status \in {"used", "gone"},
           \A w \in Workers, i \in Invites : Joins(w, i)' => Joins(w, i)
    PROVE  InviteSpent'
BY DEF InviteSpent

LEMMA InviteStep == TypeOK /\ InviteSpent /\ [Next]_vars => InviteSpent'
<1> SUFFICES ASSUME TypeOK, InviteSpent, [Next]_vars PROVE InviteSpent'
  OBVIOUS
<1> USE DEF tables, past
<1>1. ASSUME UNCHANGED <<guests, invites>>, NEW w \in Workers, NEW j,
             j.kind \notin {"join", "joinWrite"} \/ j.inv = NoInvite,
             work' = work \/ work' = [work EXCEPT ![w] = j]
      PROVE  InviteSpent'
  <2>1. \A v \in Workers, i \in Invites : Joins(v, i)' => Joins(v, i)
    BY <1>1, NullsAssumption DEF Joins, TypeOK
  <2> QED
    BY <1>1, <2>1, InviteFrame
<1>2. ASSUME UNCHANGED <<guests, work>>,
             \A i \in Invites : invites[i].status \in {"used", "gone"} =>
                                   invites'[i].status \in {"used", "gone"}
      PROVE  InviteSpent'
  BY <1>2, InviteFrame DEF Joins
<1>3. ASSUME NEW w \in Workers, HandlerFails(w) \/ SetHead(w) \/ WriteChild(w) \/ RemoveDeletes(w)
      PROVE  InviteSpent'
  <2>1. UNCHANGED <<guests, invites>> /\ work' = [work EXCEPT ![w] = Idle]
    BY <1>3 DEF HandlerFails, SetHead, WriteChild, RemoveDeletes, End
  <2> QED
    BY <1>1, <2>1 DEF Idle
<1>4. ASSUME NEW w \in Workers, NEW f \in Families, NEW p \in Parents, CreateFamily(w, f, p)
      PROVE  InviteSpent'
  BY <1>1, <1>4 DEF CreateFamily, Begin
<1>5. ASSUME NEW w \in Workers, NEW f \in Families, NEW p \in Parents, AddMember(w, f, p)
      PROVE  InviteSpent'
  BY <1>1, <1>5 DEF AddMember, Begin
<1>6. ASSUME NEW w \in Workers, ReadParents(w)
      PROVE  InviteSpent'
  BY <1>1, <1>6 DEF ReadParents, Begin
<1>7. ASSUME NEW w \in Workers, NEW f \in Families, CountChildren(w, f)
      PROVE  InviteSpent'
  BY <1>1, <1>7 DEF CountChildren, Begin
<1>8. ASSUME NEW w \in Workers, NEW s \in Students, AddStudent(w, s)
      PROVE  InviteSpent'
  BY <1>1, <1>8 DEF AddStudent, Begin
<1>9. ASSUME NEW w \in Workers, NEW p \in Parents, ShareContact(w, p)
      PROVE  InviteSpent'
  <2> DEFINE i == pending[p]
             j == [kind |-> "use", fam |-> invites[i].family, par |-> p, inv |-> i]
  <2>1. UNCHANGED <<guests, invites>>
    BY <1>9 DEF ShareContact
  <2>2. work' = work \/ work' = [work EXCEPT ![w] = j]
    BY <1>9 DEF ShareContact, Begin
  <2> QED
    BY <1>1, <2>1, <2>2
<1>10. ASSUME NEW w \in Workers, NEW p \in Parents, NEW i \in Invites, OpenInvite(w, p, i)
       PROVE  InviteSpent'
  <2> DEFINE j == [kind |-> "use", fam |-> invites[i].family, par |-> p, inv |-> i]
  <2>1. UNCHANGED <<guests, invites>>
    BY <1>10 DEF OpenInvite
  <2>2. work' = work \/ work' = [work EXCEPT ![w] = j]
    BY <1>10 DEF OpenInvite, Begin
  <2> QED
    BY <1>1, <2>1, <2>2
<1>11. ASSUME NEW w \in Workers, NEW f \in Families, NEW i \in Invites, CreateInvite(w, i, f)
       PROVE  InviteSpent'
  BY <1>2, <1>11 DEF CreateInvite, TypeOK
<1>12. ASSUME \/ \E i \in Invites : Expire(i) \/ CleanInvite(i)
              \/ \E s \in Students : YearIsKnown(s)
       PROVE  InviteSpent'
  BY <1>2, <1>12 DEF Expire, CleanInvite, YearIsKnown, TypeOK
<1>13. ASSUME NEW w \in Workers, NEW f \in Families, DeleteFamily(w, f)
       PROVE  InviteSpent'
  BY <1>2, <1>13 DEF DeleteFamily, TypeOK
<1>14. ASSUME NEW w \in Workers, NEW f \in Families, NEW p \in Parents, RemoveReads(w, f, p)
       PROVE  InviteSpent'
  BY <1>1, <1>14 DEF RemoveReads, Begin
<1>15. ASSUME NEW w \in Workers, NEW f \in Families, NEW s \in Students, RemoveChild(w, f, s)
       PROVE  InviteSpent'
  BY <1>2, <1>15 DEF RemoveChild
<1>16. ASSUME NEW w \in Workers, ReadChildren(w)
       PROVE  InviteSpent'
  <2>1. UNCHANGED <<guests, invites>>
    BY <1>16 DEF ReadChildren
  <2>2. \A v \in Workers, i \in Invites : Joins(v, i)' => Joins(v, i)
    BY <1>16 DEF ReadChildren, Begin, Joins, TypeOK
  <2> QED
    BY <2>1, <2>2, InviteFrame
<1>17. ASSUME NEW w \in Workers, UseInvite(w)
       PROVE  InviteSpent'
  <2> DEFINE i == work[w].inv
             j == [kind |-> "join", fam |-> work[w].fam, par |-> work[w].par,
                   inv |-> i, makeHead |-> FALSE]
  <2>1. i \in Invites
    BY <1>17, JobFields DEF UseInvite, TypeOK
  <2>2. CASE UNCHANGED invites /\ work' = [work EXCEPT ![w] = Idle]
    BY <1>1, <1>17, <2>2 DEF UseInvite, Idle
  <2>3. CASE /\ invites[i].status = "open" /\ work' = [work EXCEPT ![w] = j]
             /\ invites' = [invites EXCEPT ![i].status = "used"]
    <3>1. /\ guests' = guests /\ guests[i] = {}
          /\ \A v \in Workers : ~Joins(v, i)
      BY <1>17, <2>1, <2>3 DEF UseInvite, InviteSpent
    <3>2. \A v \in Workers, k \in Invites : Joins(v, k)' => Joins(v, k) \/ (v = w /\ k = i)
      BY <2>3 DEF Joins, TypeOK
    <3>3. /\ invites'[i].status = "used"
          /\ \A k \in Invites \ {i} : invites'[k] = invites[k]
      BY <2>1, <2>3 DEF TypeOK
    <3> HIDE DEF i, j
    <3> QED
      BY <2>1, <3>1, <3>2, <3>3 DEF InviteSpent
  <2> QED
    BY <1>17, <2>2, <2>3 DEF UseInvite, Begin, End
<1>18. ASSUME NEW w \in Workers, WriteJoin(w)
       PROVE  InviteSpent'
  <2> DEFINE i == work[w].inv
             p == work[w].par
  <2>1. /\ i \in Invites \cup {NoInvite} /\ UNCHANGED invites
        /\ i \in Invites => Joins(w, i)
    BY <1>18, JobFields DEF WriteJoin, TypeOK, Joins
  <2>2. \A v \in Workers, k \in Invites : Joins(v, k)' => Joins(v, k) /\ v # w
    BY <1>18 DEF WriteJoin, Begin, End, Joins, TypeOK, Idle
  <2>3. CASE guests' = guests
    BY <2>1, <2>2, <2>3, InviteFrame
  <2>4. CASE i \in Invites /\ guests' = [guests EXCEPT ![i] = @ \cup {p}]
    <3>1. /\ guests[i] = {} /\ invites[i].status \in {"used", "gone"}
          /\ \A v \in Workers : Joins(v, i) => v = w
      BY <2>1, <2>4 DEF InviteSpent
    <3>2. guests'[i] = {p} /\ \A k \in Invites \ {i} : guests'[k] = guests[k]
      BY <2>4, <3>1 DEF TypeOK
    <3> HIDE DEF i, p
    <3> QED
      BY <2>1, <2>2, <2>4, <3>1, <3>2 DEF InviteSpent
  <2> QED
    BY <1>18, <2>1, <2>3, <2>4 DEF WriteJoin
<1>19. CASE Restart
  <2>1. UNCHANGED <<guests, invites>> /\ \A w \in Workers, i \in Invites : ~Joins(w, i)'
    BY <1>19 DEF Restart, Joins, Idle
  <2> QED
    BY <2>1, InviteFrame
<1>20. CASE UNCHANGED vars
  BY <1>2, <1>20 DEF vars
<1> QED
  BY <1>3, <1>4, <1>5, <1>6, <1>7, <1>8, <1>9, <1>10, <1>11, <1>12, <1>13, <1>14, <1>15,
     <1>16, <1>17, <1>18, <1>19, <1>20 DEF Next, Handler

\* An invitation lets one parent in, however many users open the link and
\* however many workers serve them.
THEOREM InviteLetsOneIn == Spec => []OneGuestPerInvite
<1>1. Init => TypeInv /\ InviteSpent
  BY InitTypes, InitInHand DEF TypeInv, Init, InviteSpent, Joins, Idle
<1>2. TypeInv /\ InviteSpent /\ [Next]_vars => (TypeInv /\ InviteSpent)'
  BY TypeStep, InviteStep DEF TypeInv
<1>3. ASSUME InviteSpent, NEW i \in Invites
      PROVE  Cardinality(guests[i]) <= 1
  <2>1. CASE guests[i] = {}
    BY <2>1, FS_EmptySet
  <2>2. CASE guests[i] # {}
    <3>1. PICK p \in guests[i] : TRUE
      BY <2>2
    <3>2. guests[i] = {p}
      BY <1>3, <3>1 DEF InviteSpent
    <3> QED
      BY <3>2, FS_Singleton
  <2> QED
    BY <2>1, <2>2
<1>4. InviteSpent => OneGuestPerInvite
  BY <1>3 DEF OneGuestPerInvite
<1> QED
  BY <1>1, <1>2, <1>4, PTL DEF Spec
-----------------------------------------------------------------------------
(* The rows of a family that no handler raced: its members and children    *)
(* are all linked, nobody removed is among them, and a handler about to    *)
(* write has read what the rows still say.                                 *)

Linked(f) ==
    {p \in Parents \cup {Nobody} : \E s \in Students \cup {NoChild} : <<f, p, s>> \in links}

Writing(w, f) == work[w].kind \in {"joinWrite", "childWrite", "head"} /\ work[w].fam = f

UpToDate(w, f) ==
    Writing(w, f) =>
        /\ work[w].kind = "joinWrite" => work[w].seen = Children(f)
        /\ work[w].kind = "childWrite" => work[w].seen = Linked(f)
        /\ work[w].kind = "head" => work[w].par \in Members(f)

Complete(f) == \A p \in Members(f), s \in Children(f) : <<f, p, s>> \in links
Out(f) == \A p \in Parents : <<f, p>> \in removed => p \notin Members(f)

Settled(f) == Complete(f) /\ Out(f) /\ \A w \in Workers : UpToDate(w, f)

\* Nobody works on a family whose id was never given out.
FamiliesKnown == \A w \in Workers : work[w].kind # "idle" => work[w].fam \in everMade

RowsInv ==
    /\ FamiliesKnown
    /\ \A f \in families \ raced : Settled(f)

LinkInv == TypeInv /\ HeadLinked /\ RowsInv

SameRows(f) ==
    \A p \in Parents \cup {Nobody}, s \in Students \cup {NoChild} :
        <<f, p, s>> \in links' <=> <<f, p, s>> \in links

\* What is read of a family depends on its rows only.
LEMMA RowsDecide ==
    ASSUME NEW f \in Families, SameRows(f)
    PROVE  /\ Members(f)' = Members(f) /\ Children(f)' = Children(f)
           /\ Linked(f)' = Linked(f)
  BY DEF SameRows, Members, Children, Linked

\* A family whose rows a step leaves alone stays settled.
LEMMA StaysSettled ==
    ASSUME NEW f \in Families, Settled(f), SameRows(f),
           \A p \in Parents : <<f, p>> \in removed' => <<f, p>> \in removed,
           \A w \in Workers : work'[w] = work[w] \/ UpToDate(w, f)'
    PROVE  Settled(f)'
<1>1. /\ Members(f)' = Members(f) /\ Children(f)' = Children(f)
      /\ Linked(f)' = Linked(f)
  BY RowsDecide
<1>2. Complete(f)'
  <2> SUFFICES ASSUME NEW p \in Members(f), NEW s \in Children(f) PROVE <<f, p, s>> \in links'
    BY <1>1 DEF Complete
  <2>1. p \in Parents /\ s \in Students /\ <<f, p, s>> \in links
    BY DEF Settled, Complete, Members, Children
  <2> QED
    BY <2>1 DEF SameRows
<1>3. Out(f)'
  BY <1>1 DEF Settled, Out
<1>4. ASSUME NEW w \in Workers PROVE UpToDate(w, f)'
  BY <1>1 DEF Settled, UpToDate, Writing
<1> QED
  BY <1>2, <1>3, <1>4 DEF Settled

\* Whoever writes the rows of a family that stays unraced is alone with it.
LEMMA WritesAlone ==
    ASSUME NEW f \in Families, NEW w \in Workers, Race(w, f), f \notin raced',
           \A v \in Workers \ {w} : work'[v] = work[v]
    PROVE  \A v \in Workers \ {w} : ~Writing(v, f)' /\ UpToDate(v, f)'
  BY DEF Race, Overtakes, Writing, UpToDate

\* A step that writes no rows and begins no writing keeps what is known.
LEMMA QuietRows ==
    ASSUME LinkInv, UNCHANGED <<families, links, removed, raced>>,
           \A w \in Workers :
               \/ work'[w] = work[w]
               \/ work'[w].kind \notin {"joinWrite", "childWrite", "head"}
    PROVE  \A f \in families' \ raced' : Settled(f)'
<1> SUFFICES ASSUME NEW f \in families \ raced PROVE Settled(f)'
  OBVIOUS
<1>1. f \in Families /\ Settled(f) /\ SameRows(f)
  BY DEF LinkInv, TypeInv, TypeOK, RowsInv, SameRows
<1>2. \A w \in Workers : work'[w] = work[w] \/ UpToDate(w, f)'
  BY DEF UpToDate, Writing
<1> QED
  BY <1>1, <1>2, StaysSettled

\* A handler that writes the rows of one family leaves the others settled.
LEMMA OthersStaySettled ==
    ASSUME LinkInv, NEW w \in Workers, NEW f \in Families,
           families' \subseteq families, raced \subseteq raced',
           \A g \in Families \ {f} : SameRows(g),
           \A g \in Families \ {f}, p \in Parents :
               <<g, p>> \in removed' => <<g, p>> \in removed,
           \A v \in Workers \ {w} : work'[v] = work[v],
           \A g \in Families \ {f} : ~Writing(w, g)'
    PROVE  \A g \in (families' \ raced') \ {f} : Settled(g)'
<1> SUFFICES ASSUME NEW g \in (families' \ raced') \ {f} PROVE Settled(g)'
  OBVIOUS
<1>1. g \in Families \ {f} /\ Settled(g)
  BY DEF LinkInv, TypeInv, TypeOK, RowsInv
<1>2. \A v \in Workers : work'[v] = work[v] \/ UpToDate(v, g)'
  BY <1>1 DEF UpToDate
<1> QED
  BY <1>1, <1>2, StaysSettled

\* What the two sides of a family are is what the links say.
LEMMA RowsOf ==
    ASSUME NEW f \in Families
    PROVE  /\ \A p \in Parents : p \in Members(f) <=> p \in Linked(f)
           /\ Members(f) \subseteq Parents /\ Children(f) \subseteq Students
           /\ \A p \in Parents \cup {Nobody}, s \in Students :
                 <<f, p, s>> \in links => s \in Children(f) /\ p \in Linked(f)
           /\ \A p \in Parents, s \in Students \cup {NoChild} :
                 <<f, p, s>> \in links => p \in Members(f)
  BY DEF Members, Children, Linked

\* Making somebody head writes a row that says nothing new.
LEMMA SetHeadRows ==
    ASSUME LinkInv, NEW w \in Workers, SetHead(w)
    PROVE  \A f \in families' \ raced' : Settled(f)'
<1> SUFFICES ASSUME NEW f, f = work[w].fam, NEW p, p = work[w].par
             PROVE  \A g \in families' \ raced' : Settled(g)'
  OBVIOUS
<1>1. f \in Families /\ p \in Parents /\ work[w].kind = "head"
  BY JobFields DEF SetHead, LinkInv, TypeInv, TypeOK
<1>2. /\ UNCHANGED <<families, removed>>
      /\ \A v \in Workers \ {w} : work'[v] = work[v]
      /\ work'[w].kind = "idle"
  BY DEF SetHead, End, Idle, LinkInv, TypeInv, TypeOK
<1>3. CASE f \notin families
  <2>1. UNCHANGED <<links, raced>>
    BY <1>3 DEF SetHead
  <2> QED
    BY <1>2, <2>1, QuietRows
<1>4. CASE f \in families
  <2>1. /\ links' = links \cup {<<f, p, NoChild>>}
        /\ raced' = IF Overtakes(w, f) \/ Unseats(w, f, p) THEN raced \cup {f} ELSE raced
    BY <1>4 DEF SetHead
  <2>2. \A g \in (families' \ raced') \ {f} : Settled(g)'
    <3>1. \A g \in Families \ {f} : SameRows(g)
      BY <2>1 DEF SameRows
    <3>2. raced \subseteq raced' /\ \A g \in Families : ~Writing(w, g)'
      BY <1>2, <2>1 DEF Writing
    <3> QED
      BY <1>1, <1>2, <3>1, <3>2, OthersStaySettled
  <2>3. ASSUME f \notin raced' PROVE Settled(f)'
    <3>1. f \in families \ raced /\ Settled(f) /\ p \in Members(f)
      BY <1>1, <1>4, <2>1, <2>3 DEF LinkInv, RowsInv, Settled, UpToDate, Writing
    <3>2. Members(f)' = Members(f) /\ Children(f)' = Children(f)
      BY <1>1, <2>1, <3>1, NullsAssumption DEF Members, Children
    <3>3. Complete(f)' /\ Out(f)'
      BY <1>2, <2>1, <3>1, <3>2 DEF Settled, Complete, Out
    <3>4. Race(w, f)
      BY <2>1, <2>3 DEF Race
    <3>5. \A v \in Workers : UpToDate(v, f)'
      BY <1>1, <1>2, <2>3, <3>4, WritesAlone DEF UpToDate, Writing
    <3> QED
      BY <3>3, <3>5 DEF Settled
  <2> QED
    BY <2>2, <2>3
<1> QED
  BY <1>3, <1>4

\* A parent who joins is linked to the children read, who still are all there are.
LEMMA WriteJoinRows ==
    ASSUME LinkInv, NEW w \in Workers, WriteJoin(w)
    PROVE  \A f \in families' \ raced' : Settled(f)'
<1> SUFFICES ASSUME NEW f, f = work[w].fam, NEW p, p = work[w].par,
                    NEW seen, seen = work[w].seen
             PROVE  \A g \in families' \ raced' : Settled(g)'
  OBVIOUS
<1> DEFINE children == IF seen = {} THEN {NoChild} ELSE seen
<1>1. f \in Families /\ p \in Parents /\ work[w].kind = "joinWrite" /\ seen \subseteq Students
  BY JobFields DEF WriteJoin, LinkInv, TypeInv, TypeOK
<1>2. /\ families' = families
      /\ \A v \in Workers \ {w} : work'[v] = work[v]
      /\ \/ work'[w].kind = "idle"
         \/ work'[w].kind = "head" /\ work'[w].fam = f /\ work'[w].par = p
  BY DEF WriteJoin, Begin, End, Idle, LinkInv, TypeInv, TypeOK
<1>3. CASE ~(f \in families /\ seen \subseteq students)
  <2>1. UNCHANGED <<links, raced, removed>> /\ work'[w].kind = "idle"
    BY <1>3 DEF WriteJoin, End, Idle, LinkInv, TypeInv, TypeOK
  <2> QED
    BY <1>2, <2>1, QuietRows
<1>4. CASE f \in families /\ seen \subseteq students
  <2>1. /\ links' = links \cup {<<f, p, s>> : s \in children}
        /\ removed' = removed \ {<<f, p>>} /\ Race(w, f)
    BY <1>4 DEF WriteJoin
  <2>2. \A g \in (families' \ raced') \ {f} : Settled(g)'
    <3>1. \A g \in Families \ {f} : SameRows(g)
      BY <2>1 DEF SameRows
    <3>2. raced \subseteq raced' /\ \A g \in Families \ {f} : ~Writing(w, g)'
      BY <1>2, <2>1 DEF Race, Writing
    <3>3. removed' \subseteq removed /\ families' \subseteq families
      BY <1>2, <2>1
    <3> QED
      BY <1>1, <1>2, <3>1, <3>2, <3>3, OthersStaySettled
  <2>3. ASSUME f \notin raced' PROVE Settled(f)'
    <3>1. f \in families \ raced /\ Settled(f) /\ seen = Children(f)
      BY <1>1, <1>4, <2>1, <2>3 DEF Race, LinkInv, RowsInv, Settled, UpToDate, Writing
    <3>2. Members(f)' = Members(f) \cup {p}
      BY <1>1, <2>1 DEF Members
    <3>3. Children(f)' = Children(f)
      BY <1>1, <2>1, <3>1, NullsAssumption DEF Children
    <3>4. \A s \in seen : <<f, p, s>> \in links'
      BY <2>1
    <3>5. Complete(f)'
      BY <2>1, <3>1, <3>2, <3>3, <3>4 DEF Settled, Complete
    <3>6. Out(f)'
      BY <2>1, <3>1, <3>2 DEF Settled, Out
    <3>7. \A v \in Workers : UpToDate(v, f)'
      BY <1>1, <1>2, <2>1, <2>3, <3>2, WritesAlone DEF UpToDate, Writing
    <3> QED
      BY <3>5, <3>6, <3>7 DEF Settled
  <2> QED
    BY <2>2, <2>3
<1> QED
  BY <1>3, <1>4

\* A child is linked to the parents read, who still are all there are.
LEMMA WriteChildRows ==
    ASSUME LinkInv, NEW w \in Workers, WriteChild(w)
    PROVE  \A f \in families' \ raced' : Settled(f)'
<1> SUFFICES ASSUME NEW f, f = work[w].fam, NEW s, s = work[w].stu,
                    NEW seen, seen = work[w].seen
             PROVE  \A g \in families' \ raced' : Settled(g)'
  OBVIOUS
<1> DEFINE those == IF seen = {} THEN {Nobody} ELSE seen
<1>1. /\ f \in Families /\ s \in Students /\ work[w].kind = "childWrite"
      /\ seen \subseteq Parents \cup {Nobody}
  BY JobFields DEF WriteChild, LinkInv, TypeInv, TypeOK
<1>2. /\ UNCHANGED <<families, removed>>
      /\ \A v \in Workers \ {w} : work'[v] = work[v]
      /\ work'[w].kind = "idle"
  BY DEF WriteChild, End, Idle, LinkInv, TypeInv, TypeOK
<1>3. CASE f \notin families
  <2>1. UNCHANGED <<links, raced>>
    BY <1>3 DEF WriteChild
  <2> QED
    BY <1>2, <2>1, QuietRows
<1>4. CASE f \in families
  <2>1. links' = links \cup {<<f, p, s>> : p \in those} /\ Race(w, f)
    BY <1>4 DEF WriteChild
  <2>2. \A g \in (families' \ raced') \ {f} : Settled(g)'
    <3>1. \A g \in Families \ {f} : SameRows(g)
      BY <2>1 DEF SameRows
    <3>2. raced \subseteq raced' /\ \A g \in Families : ~Writing(w, g)'
      BY <1>2, <2>1 DEF Race, Writing
    <3> QED
      BY <1>1, <1>2, <3>1, <3>2, OthersStaySettled
  <2>3. ASSUME f \notin raced' PROVE Settled(f)'
    <3>1. f \in families \ raced /\ Settled(f) /\ seen = Linked(f)
      BY <1>1, <1>4, <2>1, <2>3 DEF Race, LinkInv, RowsInv, Settled, UpToDate, Writing
    <3>2. \A p \in Members(f) : p \in seen
      BY <1>1, <3>1, RowsOf
    <3>3. Members(f)' = Members(f)
      <4>1. Members(f) \subseteq Members(f)'
        BY <2>1 DEF Members
      <4>2. ASSUME NEW p \in Members(f)' PROVE p \in Members(f)
        <5>1. p \in Parents /\ \E c \in Students \cup {NoChild} : <<f, p, c>> \in links'
          BY <4>2 DEF Members
        <5>2. p \in Linked(f) \/ \E c \in Students \cup {NoChild} : <<f, p, c>> \in links
          BY <2>1, <3>1, <5>1, NullsAssumption
        <5> QED
          BY <1>1, <5>1, <5>2, RowsOf
      <4> QED
        BY <4>1, <4>2
    <3>4. Children(f)' \subseteq Children(f) \cup {s}
      BY <2>1 DEF Children
    <3>5. \A p \in seen : <<f, p, s>> \in links'
      BY <2>1
    <3>6. Complete(f)'
      BY <2>1, <3>1, <3>2, <3>3, <3>4, <3>5 DEF Settled, Complete
    <3>7. Out(f)'
      BY <1>2, <3>1, <3>3 DEF Settled, Out
    <3>8. \A v \in Workers : UpToDate(v, f)'
      BY <1>1, <1>2, <2>1, <2>3, WritesAlone DEF UpToDate, Writing
    <3> QED
      BY <3>6, <3>7, <3>8 DEF Settled
  <2> QED
    BY <2>2, <2>3
<1> QED
  BY <1>3, <1>4

\* The rows of one family that remain say of the family what they said.
LEMMA FewerRows ==
    ASSUME LinkInv, NEW w \in Workers, NEW f \in families, UNCHANGED families,
           work'[w] = Idle, \A v \in Workers \ {w} : work'[v] = work[v],
           Race(w, f), links' \subseteq links,
           \A g \in Families \ {f} : SameRows(g),
           \A g \in Families \ {f}, p \in Parents :
               <<g, p>> \in removed' => <<g, p>> \in removed,
           \A p \in Members(f)', s \in Children(f)' :
               <<f, p, s>> \in links => <<f, p, s>> \in links',
           Out(f) => Out(f)'
    PROVE  \A g \in families' \ raced' : Settled(g)'
<1>1. f \in Families
  BY DEF LinkInv, TypeInv, TypeOK
<1>2. \A g \in (families' \ raced') \ {f} : Settled(g)'
  <2>1. raced \subseteq raced' /\ \A g \in Families : ~Writing(w, g)'
    BY DEF Race, Writing, Idle
  <2> QED
    BY <1>1, <2>1, OthersStaySettled
<1>3. ASSUME f \notin raced' PROVE Settled(f)'
  <2>1. f \notin raced /\ Settled(f)
    BY <1>3 DEF Race, LinkInv, RowsInv
  <2>2. Members(f)' \subseteq Members(f) /\ Children(f)' \subseteq Children(f)
    BY DEF Members, Children
  <2>3. Complete(f)'
    BY <2>1, <2>2 DEF Settled, Complete
  <2>4. \A v \in Workers : UpToDate(v, f)'
    <3>1. \A v \in Workers \ {w} : UpToDate(v, f)'
      BY <1>1, <1>3, WritesAlone
    <3>2. UpToDate(w, f)'
      BY DEF UpToDate, Writing, Idle
    <3> QED
      BY <3>1, <3>2
  <2> QED
    BY <2>1, <2>3, <2>4 DEF Settled
<1> QED
  BY <1>2, <1>3

\* Taking out a parent takes out every row of the parent.
LEMMA RemoveParentRows ==
    ASSUME LinkInv, NEW w \in Workers, RemoveDeletes(w)
    PROVE  \A g \in families' \ raced' : Settled(g)'
<1> SUFFICES ASSUME NEW f, f = work[w].fam, NEW p, p = work[w].par
             PROVE  \A g \in families' \ raced' : Settled(g)'
  OBVIOUS
<1>1. /\ f \in Families /\ p \in Parents /\ UNCHANGED families /\ Race(w, f)
      /\ work'[w] = Idle /\ \A v \in Workers \ {w} : work'[v] = work[v]
      /\ links' = {l \in links : ~(l[1] = f /\ l[2] = p)}
      /\ removed' = removed \cup {<<f, p>>}
  BY JobFields DEF RemoveDeletes, End, LinkInv, TypeInv, TypeOK
<1>2. /\ links' \subseteq links /\ \A g \in Families \ {f} : SameRows(g)
      /\ \A g \in Families \ {f}, q \in Parents : <<g, q>> \in removed' => <<g, q>> \in removed
  BY <1>1 DEF SameRows
<1>3. /\ p \notin Members(f)' /\ Members(f)' \subseteq Members(f)
      /\ \A q \in Parents \ {p}, s \in Students :
            <<f, q, s>> \in links => <<f, q, s>> \in links'
  BY <1>1 DEF Members
<1>4. \A q \in Members(f)', s \in Children(f)' : <<f, q, s>> \in links => <<f, q, s>> \in links'
  BY <1>3 DEF Members, Children
<1>5. Out(f) => Out(f)'
  BY <1>1, <1>3 DEF Out
<1>6. CASE f \in families
  BY <1>1, <1>2, <1>4, <1>5, <1>6, FewerRows
<1>7. CASE f \notin families
  <2>1. raced \subseteq raced' /\ \A g \in Families : ~Writing(w, g)'
    BY <1>1 DEF Race, Writing, Idle
  <2>2. \A g \in (families' \ raced') \ {f} : Settled(g)'
    BY <1>1, <1>2, <2>1, OthersStaySettled
  <2> QED
    BY <1>1, <1>7, <2>2
<1> QED
  BY <1>6, <1>7

\* Taking out a child takes out every row of the child.
LEMMA RemoveChildRows ==
    ASSUME LinkInv, NEW w \in Workers, NEW f \in Families, NEW s \in Students,
           RemoveChild(w, f, s)
    PROVE  \A g \in families' \ raced' : Settled(g)'
<1>1. work[w] = Idle /\ UNCHANGED <<families, work, removed>>
  BY DEF RemoveChild, IsIdle
<1>2. f \in families
  BY DEF RemoveChild, Children, LinkInv, TypeInv, TypeOK
<1>3. CASE UNCHANGED <<links, raced>>
  BY <1>1, <1>3, QuietRows
<1>4. CASE links' = {l \in links : ~(l[1] = f /\ l[3] = s)} /\ Race(w, f)
  <2>1. links' \subseteq links /\ \A g \in Families \ {f} : SameRows(g)
    BY <1>4 DEF SameRows
  <2>2. /\ s \notin Children(f)' /\ Members(f)' \subseteq Members(f)
        /\ \A p \in Parents, c \in Students \ {s} :
              <<f, p, c>> \in links => <<f, p, c>> \in links'
    BY <1>4 DEF Members, Children
  <2>3. \A p \in Members(f)', c \in Children(f)' :
           <<f, p, c>> \in links => <<f, p, c>> \in links'
    BY <2>2 DEF Members, Children
  <2>4. Out(f) => Out(f)'
    BY <1>1, <2>2 DEF Out
  <2> QED
    BY <1>1, <1>2, <1>4, <2>1, <2>3, <2>4, FewerRows
<1> QED
  BY <1>3, <1>4 DEF RemoveChild

\* Deleting a family touches no other.
LEMMA DeleteFamilyRows ==
    ASSUME LinkInv, NEW w \in Workers, NEW f \in Families, DeleteFamily(w, f)
    PROVE  \A g \in families' \ raced' : Settled(g)'
<1>1. IsIdle(w) /\ UNCHANGED <<work, removed, raced>>
  BY DEF DeleteFamily, past
<1>2. CASE UNCHANGED <<families, links>>
  BY <1>1, <1>2, QuietRows
<1>3. CASE families' = families \ {f} /\ links' = {l \in links : l[1] # f}
  <2>1. \A g \in Families \ {f} : SameRows(g) /\ ~Writing(w, g)'
    BY <1>1, <1>3 DEF SameRows, Writing, IsIdle, Idle
  <2> QED
    BY <1>1, <1>3, <2>1, OthersStaySettled
<1> QED
  BY <1>2, <1>3 DEF DeleteFamily

\* A new family has no rows, and nobody is at work on it.
LEMMA CreateFamilyRows ==
    ASSUME LinkInv, NEW w \in Workers, NEW f \in Families, NEW p \in Parents,
           CreateFamily(w, f, p)
    PROVE  \A g \in families' \ raced' : Settled(g)'
<1>1. /\ families' = families \cup {f} /\ UNCHANGED <<links, removed, raced>>
      /\ f \notin everMade
      /\ \A v \in Workers : work'[v] = work[v] \/ work'[v].kind = "join"
  BY DEF CreateFamily, Begin, past, LinkInv, TypeInv, TypeOK
<1>2. \A g \in Families : SameRows(g)
  BY <1>1 DEF SameRows
<1>3. ASSUME NEW g \in families' \ raced', g # f PROVE Settled(g)'
  <2>1. g \in Families /\ Settled(g)
    BY <1>1, <1>3 DEF LinkInv, TypeInv, TypeOK, RowsInv
  <2>2. \A v \in Workers : work'[v] = work[v] \/ UpToDate(v, g)'
    BY <1>1 DEF UpToDate, Writing
  <2> QED
    BY <1>1, <1>2, <2>1, <2>2, StaysSettled
<1>4. Settled(f)'
  <2>1. f \notin families
    BY <1>1 DEF LinkInv, HeadLinked
  <2>2. Members(f)' = {} /\ Children(f)' = {}
    BY <1>1, <2>1 DEF Members, Children, LinkInv, TypeInv, TypeOK
  <2>3. \A v \in Workers : ~Writing(v, f)'
    BY <1>1 DEF Writing, LinkInv, RowsInv, FamiliesKnown
  <2> QED
    BY <2>2, <2>3 DEF Settled, Complete, Out, UpToDate
<1> QED
  BY <1>3, <1>4

\* What a handler reads of a family is up to date when it has read it.
LEMMA ReadingRows ==
    ASSUME LinkInv, NEW w \in Workers, ReadChildren(w) \/ ReadParents(w)
    PROVE  \A f \in families' \ raced' : Settled(f)'
<1>1. /\ UNCHANGED <<families, links, removed, raced>>
      /\ \A v \in Workers \ {w} : work'[v] = work[v]
  BY DEF ReadChildren, ReadParents, Begin, tables, past, LinkInv, TypeInv, TypeOK
<1>2. /\ work'[w].fam = work[w].fam
      /\ \/ work'[w].kind = "joinWrite" /\ work'[w].seen = Children(work[w].fam)
         \/ work'[w].kind = "childWrite" /\ work'[w].seen = Linked(work[w].fam)
  <2>1. CASE ReadChildren(w)
    BY <2>1 DEF ReadChildren, Begin, LinkInv, TypeInv, TypeOK
  <2>2. CASE ReadParents(w)
    BY <2>2 DEF ReadParents, Begin, Linked, LinkInv, TypeInv, TypeOK
  <2> QED
    BY <2>1, <2>2
<1> SUFFICES ASSUME NEW f \in families \ raced PROVE Settled(f)'
  BY <1>1
<1>3. f \in Families /\ Settled(f) /\ SameRows(f)
  BY <1>1 DEF LinkInv, TypeInv, TypeOK, RowsInv, SameRows
<1>4. UpToDate(w, f)'
  <2>1. Children(f)' = Children(f) /\ Linked(f)' = Linked(f)
    BY <1>3, RowsDecide
  <2> QED
    BY <1>2, <2>1 DEF UpToDate, Writing
<1> QED
  BY <1>1, <1>3, <1>4, StaysSettled

\* Nobody works on a family whose id was never given out.
LEMMA FamiliesKnownStep == LinkInv /\ [Next]_vars => FamiliesKnown'
<1> SUFFICES ASSUME LinkInv, [Next]_vars PROVE FamiliesKnown'
  OBVIOUS
<1> USE DEF tables, past
<1>1. families \subseteq everMade
  BY DEF LinkInv, HeadLinked
<1>2. ASSUME everMade \subseteq everMade',
             \A w \in Workers : \/ work'[w] = work[w] \/ work'[w].kind = "idle"
                                \/ work'[w].fam \in everMade'
                                \/ work[w].kind # "idle" /\ work'[w].fam = work[w].fam
      PROVE  FamiliesKnown'
  BY <1>2 DEF LinkInv, RowsInv, FamiliesKnown
<1>3. ASSUME NEW w \in Workers,
             \/ SetHead(w) \/ UseInvite(w) \/ ReadChildren(w) \/ WriteJoin(w)
             \/ ReadParents(w) \/ WriteChild(w) \/ RemoveDeletes(w) \/ HandlerFails(w)
      PROVE  FamiliesKnown'
  BY <1>2, <1>3
     DEF SetHead, UseInvite, ReadChildren, WriteJoin, ReadParents, WriteChild,
         RemoveDeletes, HandlerFails, Begin, End, Idle, LinkInv, TypeInv, TypeOK
<1>4. ASSUME NEW w \in Workers, NEW s \in Students, AddStudent(w, s)
      PROVE  FamiliesKnown'
  BY <1>2, <1>4 DEF AddStudent, Begin, LinkInv, TypeInv, TypeOK
<1>5. ASSUME NEW w \in Workers, NEW f \in Families, NEW p \in Parents,
             CreateFamily(w, f, p) \/ AddMember(w, f, p) \/ RemoveReads(w, f, p)
      PROVE  FamiliesKnown'
  <2>1. CASE CreateFamily(w, f, p) \/ AddMember(w, f, p)
    BY <1>1, <1>2, <2>1 DEF CreateFamily, AddMember, Begin, LinkInv, TypeInv, TypeOK
  <2>2. CASE RemoveReads(w, f, p)
    <3>1. f \in families
      BY <2>2 DEF RemoveReads, Members, LinkInv, TypeInv, TypeOK
    <3> QED
      BY <1>1, <1>2, <2>2, <3>1 DEF RemoveReads, Begin, LinkInv, TypeInv, TypeOK
  <2> QED
    BY <1>5, <2>1, <2>2
<1>6. ASSUME NEW w \in Workers, NEW f \in Families,
             \/ CountChildren(w, f) \/ DeleteFamily(w, f)
             \/ \E s \in Students : RemoveChild(w, f, s)
             \/ \E i \in Invites : CreateInvite(w, i, f)
      PROVE  FamiliesKnown'
  BY <1>1, <1>2, <1>6
     DEF CountChildren, DeleteFamily, RemoveChild, CreateInvite, Begin, LinkInv, TypeInv,
         TypeOK
<1>7. ASSUME NEW w \in Workers, NEW p \in Parents,
             ShareContact(w, p) \/ \E i \in Invites : OpenInvite(w, p, i)
      PROVE  FamiliesKnown'
  BY <1>1, <1>2, <1>7
     DEF ShareContact, OpenInvite, Valid, Begin, LinkInv, TypeInv, TypeOK
<1>8. ASSUME \/ \E i \in Invites : Expire(i) \/ CleanInvite(i)
             \/ \E s \in Students : YearIsKnown(s)
      PROVE  FamiliesKnown'
  BY <1>2, <1>8 DEF Expire, CleanInvite, YearIsKnown
<1>9. CASE Restart
  BY <1>2, <1>9 DEF Restart, Idle
<1>10. CASE UNCHANGED vars
  BY <1>2, <1>10 DEF vars
<1> QED
  BY <1>3, <1>4, <1>5, <1>6, <1>7, <1>8, <1>9, <1>10 DEF Next, Handler

\* Every step keeps the rows of unraced families in order.
LEMMA RowsStep == LinkInv /\ [Next]_vars => RowsInv'
<1> SUFFICES ASSUME LinkInv, [Next]_vars PROVE \A f \in families' \ raced' : Settled(f)'
  BY FamiliesKnownStep DEF RowsInv
<1> USE DEF tables, past
<1>1. ASSUME NEW w \in Workers, SetHead(w) \/ WriteJoin(w) \/ WriteChild(w) \/ RemoveDeletes(w)
      PROVE  \A f \in families' \ raced' : Settled(f)'
  BY <1>1, SetHeadRows, WriteJoinRows, WriteChildRows, RemoveParentRows
<1>2. ASSUME NEW w \in Workers, ReadChildren(w) \/ ReadParents(w)
      PROVE  \A f \in families' \ raced' : Settled(f)'
  BY <1>2, ReadingRows
<1>3. ASSUME NEW w \in Workers, UseInvite(w) \/ HandlerFails(w)
      PROVE  \A f \in families' \ raced' : Settled(f)'
  BY <1>3, QuietRows DEF UseInvite, HandlerFails, Begin, End, Idle, LinkInv, TypeInv, TypeOK
<1>4. ASSUME NEW w \in Workers, NEW s \in Students, AddStudent(w, s)
      PROVE  \A f \in families' \ raced' : Settled(f)'
  BY <1>4, QuietRows DEF AddStudent, Begin, LinkInv, TypeInv, TypeOK
<1>5. ASSUME NEW w \in Workers, NEW f \in Families,
             \/ CountChildren(w, f)
             \/ \E p \in Parents : AddMember(w, f, p) \/ RemoveReads(w, f, p)
             \/ \E i \in Invites : CreateInvite(w, i, f)
      PROVE  \A g \in families' \ raced' : Settled(g)'
  BY <1>5, QuietRows
     DEF CountChildren, AddMember, RemoveReads, CreateInvite, Begin, LinkInv, TypeInv, TypeOK
<1>6. ASSUME NEW w \in Workers, NEW f \in Families,
             \/ DeleteFamily(w, f)
             \/ \E p \in Parents : CreateFamily(w, f, p)
             \/ \E s \in Students : RemoveChild(w, f, s)
      PROVE  \A g \in families' \ raced' : Settled(g)'
  BY <1>6, DeleteFamilyRows, CreateFamilyRows, RemoveChildRows
<1>7. ASSUME NEW w \in Workers, NEW p \in Parents,
             ShareContact(w, p) \/ \E i \in Invites : OpenInvite(w, p, i)
      PROVE  \A f \in families' \ raced' : Settled(f)'
  BY <1>7, QuietRows DEF ShareContact, OpenInvite, Begin, LinkInv, TypeInv, TypeOK
<1>8. ASSUME \/ \E i \in Invites : Expire(i) \/ CleanInvite(i)
             \/ \E s \in Students : YearIsKnown(s)
      PROVE  \A f \in families' \ raced' : Settled(f)'
  BY <1>8, QuietRows DEF Expire, CleanInvite, YearIsKnown
<1>9. CASE Restart
  <2>1. \A f \in families \ raced : head[f] # Nobody => head[f] \in Members(f)
    BY DEF LinkInv, TypeInv, TypeOK, HeadLinked, Members
  <2> SUFFICES ASSUME NEW f \in families \ raced PROVE Settled(f)'
    BY <1>9 DEF Restart
  <2>2. SameRows(f)
    BY <1>9, <2>1 DEF Restart, SameRows
  <2>3. f \in Families /\ Settled(f) /\ removed' = removed
    BY <1>9 DEF Restart, LinkInv, TypeInv, TypeOK, RowsInv
  <2>4. \A w \in Workers : UpToDate(w, f)'
    BY <1>9 DEF Restart, UpToDate, Writing, Idle
  <2> QED
    BY <2>2, <2>3, <2>4, StaysSettled
<1>10. CASE UNCHANGED vars
  BY <1>10, QuietRows DEF vars
<1> QED
  BY <1>1, <1>2, <1>3, <1>4, <1>5, <1>6, <1>7, <1>8, <1>9, <1>10 DEF Next, Handler

LEMMA InitRows == Init => LinkInv
<1> SUFFICES ASSUME Init PROVE LinkInv
  OBVIOUS
<1>1. TypeInv /\ HeadLinked
  BY InitTypes, InitInHand DEF TypeInv, Init, HeadLinked, HeadSpared, Idle
<1>2. RowsInv
  BY DEF Init, RowsInv, FamiliesKnown, Idle
<1> QED
  BY <1>1, <1>2 DEF LinkInv

LEMMA LinkStep == LinkInv /\ [Next]_vars => LinkInv'
  BY TypeStep, HeadStep, RowsStep DEF LinkInv, TypeInv

\* Every member of a family is linked to every child of it, unless two handlers
\* of the family were at work at the same time.
THEOREM MembersSee == Spec => []MembersSeeChildren
<1>1. LinkInv => MembersSeeChildren
  BY DEF LinkInv, RowsInv, Settled, Complete, MembersSeeChildren
<1> QED
  BY InitRows, LinkStep, <1>1, PTL DEF Spec

\* A parent taken out of a family stays out until let in again, with the same
\* exception.
THEOREM RemovedStaysOut == Spec => []RemovedMeansGone
<1>1. LinkInv => RemovedMeansGone
  BY DEF LinkInv, RowsInv, Settled, Out, RemovedMeansGone
<1> QED
  BY InitRows, LinkStep, <1>1, PTL DEF Spec
-----------------------------------------------------------------------------
(* The number of children.  In a family that nobody raced or counted while *)
(* a child was being added, at most one handler is adding a child, and it  *)
(* counted fewer than the limit.                                           *)

Adding(w, f) == work[w].kind \in {"addChild", "child", "childWrite"} /\ work[w].fam = f

Bounded(f) ==
    /\ IsFiniteSet(Children(f)) /\ Cardinality(Children(f)) <= MaxChildren
    /\ \A w \in Workers : Adding(w, f) =>
          /\ Cardinality(Children(f)) < MaxChildren
          /\ \A v \in Workers : Adding(v, f) => v = w

LimitInv == \A f \in families \ (raced \cup crowded) : Bounded(f)

\* Without new children and new adders a family stays bounded.
LEMMA StaysBounded ==
    ASSUME NEW f, Bounded(f), Children(f)' \subseteq Children(f),
           \A w \in Workers : Adding(w, f)' => Adding(w, f)
    PROVE  Bounded(f)'
<1>1. /\ IsFiniteSet(Children(f)') /\ Cardinality(Children(f)') <= Cardinality(Children(f))
      /\ Cardinality(Children(f)) \in Nat /\ Cardinality(Children(f)') \in Nat
  BY FS_Subset, FS_CardinalityType DEF Bounded
<1> QED
  BY <1>1, LimitsAssumption DEF Bounded

\* Of a family that stays unraced, only adding a child makes the children more.
LEMMA ChildrenGrow ==
    ASSUME LinkInv, [Next]_vars, NEW f \in families \ raced', raced \subseteq raced'
    PROVE  \/ Children(f)' \subseteq Children(f)
           \/ \E w \in Workers : WriteChild(w) /\ work[w].fam = f
<1> USE DEF tables, past
<1>1. ASSUME links' \subseteq links PROVE Children(f)' \subseteq Children(f)
  BY <1>1 DEF Children
<1>2. ASSUME NEW w \in Workers, SetHead(w) PROVE Children(f)' \subseteq Children(f)
  BY <1>2, NullsAssumption DEF SetHead, Children
<1>3. ASSUME NEW w \in Workers, WriteJoin(w) PROVE Children(f)' \subseteq Children(f)
  <2>1. CASE UNCHANGED links
    BY <1>1, <2>1
  <2>2. CASE work[w].fam = f /\ work[w].fam \in families
    <3>1. work[w].kind = "joinWrite" /\ Settled(f)
      BY <1>3 DEF WriteJoin, LinkInv, RowsInv
    <3>2. work[w].seen = Children(f)
      BY <2>2, <3>1 DEF Settled, UpToDate, Writing
    <3>3. \A l \in links' : l \in links \/ l[3] \in Children(f) \cup {NoChild}
      BY <1>3, <3>2 DEF WriteJoin
    <3> QED
      BY <3>3, NullsAssumption DEF Children
  <2>3. CASE work[w].fam # f
    <3>1. \A l \in links' : l \in links \/ l[1] # f
      BY <1>3, <2>3 DEF WriteJoin
    <3> QED
      BY <3>1 DEF Children
  <2> QED
    BY <1>3, <2>1, <2>2, <2>3 DEF WriteJoin
<1>4. ASSUME NEW w \in Workers, WriteChild(w), work[w].fam # f
      PROVE  Children(f)' \subseteq Children(f)
  <2>1. \A l \in links' : l \in links \/ l[1] # f
    BY <1>4 DEF WriteChild
  <2> QED
    BY <2>1 DEF Children
<1>5. CASE Restart
  <2>1. links' \subseteq links \cup {<<g, head[g], NoChild>> : g \in families}
    BY <1>5 DEF Restart
  <2> QED
    BY <2>1, NullsAssumption DEF Children
<1>6. ASSUME NEW w \in Workers,
             \/ UseInvite(w) \/ ReadChildren(w) \/ ReadParents(w) \/ RemoveDeletes(w)
             \/ HandlerFails(w) \/ \E s \in Students : AddStudent(w, s)
             \/ \E p \in Parents : ShareContact(w, p) \/ \E i \in Invites : OpenInvite(w, p, i)
      PROVE  links' \subseteq links
  BY <1>6 DEF UseInvite, ReadChildren, ReadParents, RemoveDeletes, HandlerFails, AddStudent,
              ShareContact, OpenInvite
<1>7. ASSUME NEW w \in Workers, NEW g \in Families,
             \/ CountChildren(w, g) \/ DeleteFamily(w, g)
             \/ \E p \in Parents :
                   CreateFamily(w, g, p) \/ AddMember(w, g, p) \/ RemoveReads(w, g, p)
             \/ \E s \in Students : RemoveChild(w, g, s)
             \/ \E i \in Invites : CreateInvite(w, i, g)
      PROVE  links' \subseteq links
  BY <1>7 DEF CountChildren, DeleteFamily, CreateFamily, AddMember, RemoveReads,
              RemoveChild, CreateInvite
<1>8. ASSUME \/ \E i \in Invites : Expire(i) \/ CleanInvite(i)
             \/ \E s \in Students : YearIsKnown(s)
             \/ UNCHANGED vars
      PROVE  links' \subseteq links
  BY <1>8 DEF Expire, CleanInvite, YearIsKnown, vars
<1> QED
  BY <1>1, <1>2, <1>3, <1>4, <1>5, <1>6, <1>7, <1>8 DEF Next, Handler

\* No family is new, nobody starts to add a child, and what is noted of races and
\* crowds is not forgotten.
AddersKept ==
    /\ raced \subseteq raced' /\ crowded \subseteq crowded' /\ families' \subseteq families
    /\ \A w \in Workers, f \in Families : Adding(w, f)' => Adding(w, f)

\* Only creating a family and counting its children do otherwise.
LEMMA AddersGrow ==
    ASSUME LinkInv, [Next]_vars
    PROVE  \/ AddersKept
           \/ \E w \in Workers, f \in Families :
                 CountChildren(w, f) \/ \E p \in Parents : CreateFamily(w, f, p)
<1> USE DEF tables, past
<1>1. ASSUME UNCHANGED <<families, crowded>>, raced \subseteq raced',
             \A w \in Workers :
                 \/ work'[w] = work[w]
                 \/ work'[w].kind \notin {"addChild", "child", "childWrite"}
                 \/ /\ work[w].kind \in {"addChild", "child", "childWrite"}
                    /\ work'[w].fam = work[w].fam
      PROVE  AddersKept
  BY <1>1 DEF AddersKept, Adding
<1>2. ASSUME NEW w \in Workers, UseInvite(w) \/ ReadChildren(w) \/ HandlerFails(w)
      PROVE  AddersKept
  BY <1>1, <1>2 DEF UseInvite, ReadChildren, HandlerFails, Begin, End, Idle, LinkInv,
                    TypeInv, TypeOK
<1>3. ASSUME NEW w \in Workers,
             SetHead(w) \/ WriteJoin(w) \/ WriteChild(w) \/ RemoveDeletes(w)
      PROVE  AddersKept
  <2>1. UNCHANGED <<families, crowded>> /\ raced \subseteq raced'
    BY <1>3 DEF SetHead, WriteJoin, WriteChild, RemoveDeletes, Race
  <2>2. \A v \in Workers : \/ work'[v] = work[v]
                           \/ work'[v].kind \notin {"addChild", "child", "childWrite"}
    BY <1>3 DEF SetHead, WriteJoin, WriteChild, RemoveDeletes, Begin, End, Idle, LinkInv,
                TypeInv, TypeOK
  <2> QED
    BY <1>1, <2>1, <2>2
<1>4. ASSUME NEW w \in Workers, ReadParents(w) \/ \E s \in Students : AddStudent(w, s)
      PROVE  AddersKept
  BY <1>1, <1>4 DEF ReadParents, AddStudent, Begin, LinkInv, TypeInv, TypeOK
<1>5. ASSUME NEW w \in Workers, NEW p \in Parents,
             \/ ShareContact(w, p) \/ \E i \in Invites : OpenInvite(w, p, i)
             \/ \E f \in Families : AddMember(w, f, p) \/ RemoveReads(w, f, p)
      PROVE  AddersKept
  BY <1>1, <1>5 DEF ShareContact, OpenInvite, AddMember, RemoveReads, Begin, LinkInv, TypeInv, TypeOK
<1>6. ASSUME NEW w \in Workers, NEW f \in Families,
             \/ \E s \in Students : RemoveChild(w, f, s)
             \/ \E i \in Invites : CreateInvite(w, i, f)
      PROVE  AddersKept
  BY <1>1, <1>6 DEF RemoveChild, CreateInvite, Race
<1>7. ASSUME NEW w \in Workers, NEW f \in Families, DeleteFamily(w, f)
      PROVE  AddersKept
  BY <1>7 DEF DeleteFamily, AddersKept, Adding
<1>8. ASSUME \/ \E i \in Invites : Expire(i) \/ CleanInvite(i)
             \/ \E s \in Students : YearIsKnown(s)
      PROVE  AddersKept
  BY <1>1, <1>8 DEF Expire, CleanInvite, YearIsKnown
<1>9. CASE Restart
  BY <1>1, <1>9 DEF Restart, Idle
<1>10. CASE UNCHANGED vars
  BY <1>1, <1>10 DEF vars
<1> QED
  BY <1>2, <1>3, <1>4, <1>5, <1>6, <1>7, <1>8, <1>9, <1>10 DEF Next, Handler

\* The child that is added is one, to fewer than the limit, by the only adder.
LEMMA ChildFits ==
    ASSUME TypeOK, NEW w \in Workers, WriteChild(w), NEW f \in Families, work[w].fam = f,
           Bounded(f), \A v \in Workers : Adding(v, f)' => Adding(v, f)
    PROVE  Bounded(f)'
<1> SUFFICES ASSUME NEW s, s = work[w].stu PROVE Bounded(f)'
  OBVIOUS
<1>1. Adding(w, f)
  BY DEF WriteChild, Adding
<1>2. Children(f)' \subseteq Children(f) \cup {s}
  BY DEF WriteChild, Children
<1>3. \A v \in Workers : ~Adding(v, f)'
  <2>1. ~Adding(w, f)'
    BY DEF WriteChild, End, Adding, Idle, TypeOK
  <2> QED
    BY <1>1, <2>1 DEF Bounded
<1>4. /\ IsFiniteSet(Children(f)) /\ Cardinality(Children(f)) < MaxChildren
      /\ Cardinality(Children(f)) \in Nat
  BY <1>1, FS_CardinalityType DEF Bounded
<1>5. /\ IsFiniteSet(Children(f) \cup {s})
      /\ Cardinality(Children(f) \cup {s}) <= Cardinality(Children(f)) + 1
      /\ Cardinality(Children(f) \cup {s}) \in Nat
  <2>1. /\ IsFiniteSet(Children(f) \cup {s})
        /\ \/ Cardinality(Children(f) \cup {s}) = Cardinality(Children(f))
           \/ Cardinality(Children(f) \cup {s}) = Cardinality(Children(f)) + 1
    BY <1>4, FS_AddElement
  <2> QED
    BY <1>4, <2>1
<1>6. /\ IsFiniteSet(Children(f)')
      /\ Cardinality(Children(f)') <= Cardinality(Children(f) \cup {s})
      /\ Cardinality(Children(f)') \in Nat
  BY <1>2, <1>5, FS_Subset, FS_CardinalityType
<1>7. Cardinality(Children(f)') <= MaxChildren
  BY <1>4, <1>5, <1>6, LimitsAssumption
<1> QED
  BY <1>3, <1>6, <1>7 DEF Bounded

\* Every step keeps unraced and uncrowded families within the limit.
LEMMA LimitStep == LinkInv /\ LimitInv /\ [Next]_vars => LimitInv'
<1> SUFFICES ASSUME LinkInv, LimitInv, [Next]_vars,
                    NEW f \in families' \ (raced' \cup crowded')
             PROVE  Bounded(f)'
  BY DEF LimitInv
<1>1. CASE AddersKept
  <2>1. f \in families \ (raced \cup crowded) /\ f \in Families /\ Bounded(f)
    BY <1>1 DEF AddersKept, LimitInv, LinkInv, TypeInv, TypeOK
  <2>2. \A w \in Workers : Adding(w, f)' => Adding(w, f)
    BY <1>1, <2>1 DEF AddersKept
  <2>3. CASE Children(f)' \subseteq Children(f)
    BY <2>1, <2>2, <2>3, StaysBounded
  <2>4. ASSUME NEW w \in Workers, WriteChild(w), work[w].fam = f PROVE Bounded(f)'
    BY <2>1, <2>2, <2>4, ChildFits DEF LinkInv, TypeInv
  <2> QED
    BY <1>1, <2>1, <2>3, <2>4, ChildrenGrow DEF AddersKept
<1>2. ASSUME NEW w \in Workers, NEW g \in Families, CountChildren(w, g) PROVE Bounded(f)'
  <2>1. /\ UNCHANGED <<families, links, raced>>
        /\ crowded' = IF BeingAdded(w, g) THEN crowded \cup {g} ELSE crowded
        /\ Cardinality(Children(g)) < MaxChildren
        /\ \A v \in Workers \ {w} : work'[v] = work[v]
        /\ work'[w].fam = g
    BY <1>2 DEF CountChildren, Begin, tables, past, LinkInv, TypeInv, TypeOK
  <2>2. Bounded(f) /\ Children(f)' = Children(f)
    BY <2>1 DEF LimitInv, Children
  <2>3. CASE f # g
    <3>1. \A v \in Workers : Adding(v, f)' => Adding(v, f)
      BY <2>1, <2>3 DEF Adding
    <3> QED
      BY <2>2, <3>1, StaysBounded
  <2>4. CASE f = g
    <3>1. \A v \in Workers \ {w} : ~Adding(v, f)'
      BY <2>1, <2>4 DEF BeingAdded, Adding
    <3> QED
      BY <2>1, <2>2, <2>4, <3>1 DEF Bounded
  <2> QED
    BY <2>3, <2>4
<1>3. ASSUME NEW w \in Workers, NEW g \in Families, NEW p \in Parents, CreateFamily(w, g, p)
      PROVE  Bounded(f)'
  <2>1. /\ families' = families \cup {g} /\ UNCHANGED <<links, raced, crowded>>
        /\ g \notin everMade
        /\ \A v \in Workers : work'[v] = work[v] \/ work'[v].kind = "join"
    BY <1>3 DEF CreateFamily, Begin, past, LinkInv, TypeInv, TypeOK
  <2>2. Children(f)' = Children(f) /\ \A v \in Workers : Adding(v, f)' => Adding(v, f)
    BY <2>1 DEF Children, Adding
  <2>3. CASE f # g
    <3>1. Bounded(f)
      BY <2>1, <2>3 DEF LimitInv
    <3> QED
      BY <2>2, <3>1, StaysBounded
  <2>4. CASE f = g
    <3>1. Children(f)' = {} /\ \A v \in Workers : ~Adding(v, f)
      <4>1. f \notin everMade /\ f \notin families
        BY <2>1, <2>4 DEF LinkInv, HeadLinked
      <4>2. Children(f) = {}
        BY <4>1 DEF Children, LinkInv, TypeInv, TypeOK, RowsInv, FamiliesKnown
      <4>3. \A v \in Workers : ~Adding(v, f)
        BY <4>1 DEF Adding, LinkInv, TypeInv, TypeOK, RowsInv, FamiliesKnown
      <4> QED
        BY <2>2, <4>2, <4>3
    <3> QED
      BY <2>2, <3>1, FS_EmptySet, LimitsAssumption DEF Bounded
  <2> QED
    BY <2>3, <2>4
<1> QED
  BY <1>1, <1>2, <1>3, AddersGrow

\* A family has at most MaxChildren children, although they are counted long
\* before the child is added, unless two handlers count or write at once.
THEOREM LimitKept == Spec => []ChildrenWithinLimit
<1>1. Init => LimitInv
  BY DEF Init, LimitInv
<1>2. LimitInv => ChildrenWithinLimit
  BY DEF LimitInv, Bounded, ChildrenWithinLimit
<1> QED
  BY InitRows, LinkStep, <1>1, LimitStep, <1>2, PTL DEF Spec
=============================================================================
