----------------------------- MODULE Households -----------------------------
(***************************************************************************)
(* Families, members, children and invitations: src/src/db/families.py,    *)
(* db/invites.py, db/maintenance.py and the handlers that call them.  Each *)
(* db function is a transaction of its own (READ COMMITTED), a handler is  *)
(* several of them, and the bot runs handlers in two worker threads: what  *)
(* a handler read may be stale when it writes.  The functions that link a  *)
(* parent or a child read the other side of the family first and then      *)
(* insert one row per pair, and the one that removes a parent reads the    *)
(* head first: they take two steps here.                                   *)
(*                                                                         *)
(* Rows of family_links are a set: a repeated row reads like a single one. *)
(* Ids are never given out twice.  An administrator may use every handler. *)
(***************************************************************************)
EXTENDS Naturals, FiniteSets

CONSTANTS
    Families, Parents, Students, Invites,
    Workers,      \* handler threads of the bot
    Nobody, NoChild, NoInvite,  \* NULL
    MaxChildren,  \* MAX_CHILDREN_PER_FAMILY
    MaxAdds,      \* bound: members added by hand
    MaxFaults,    \* bound: failed statements and crashes
    MaxEvents     \* bound: both together

ASSUME NullsAssumption ==
    Nobody \notin Parents /\ NoChild \notin Students /\ NoInvite \notin Invites
ASSUME LimitsAssumption ==
    MaxChildren \in Nat /\ MaxAdds \in Nat /\ MaxFaults \in Nat /\ MaxEvents \in Nat

VARIABLES
    families,    \* rows of families
    head,        \* families.head_id
    parents,     \* rows of parents
    students,    \* rows of students
    dated,       \* students with a row in student_years
    links,       \* family_links: <<family, parent or Nobody, student or NoChild>>
    invites,     \* [Invites -> [family, status]]
    expired,     \* invites past expires_at
    pending,     \* user_states: the invite an unknown user came with
    everMade,    \* families and students whose id is used up
    work,        \* what each worker thread is in the middle of
    adds, faults,
    \* history
    guests,      \* [Invites -> SUBSET Parents], who joined with it
    removed,     \* <<family, parent>> taken out and not let in again
    unseated,    \* families whose head was made head while being taken out
    raced,       \* families changed between the read and the write of a handler
    crowded,     \* families whose children were counted while one was being added
    refused      \* the database refused to delete a child or a family

tables == <<families, head, parents, students, dated, links, invites, expired>>
past == <<guests, removed, unseated, raced, crowded, refused>>
vars == <<tables, pending, everMade, work, adds, faults, past>>

Idle == [kind |-> "idle"]
IsIdle(w) == work[w] = Idle
NoFamily == "none"

\* Every row a worker may be busy with.
Busy ==
    [kind : {"use"}, fam : Families, par : Parents, inv : Invites] \cup
    [kind : {"join"}, fam : Families, par : Parents, inv : Invites \cup {NoInvite},
     makeHead : BOOLEAN] \cup
    [kind : {"joinWrite"}, fam : Families, par : Parents, inv : Invites \cup {NoInvite},
     makeHead : BOOLEAN, seen : SUBSET Students] \cup
    [kind : {"head", "remove"}, fam : Families, par : Parents] \cup
    [kind : {"addChild"}, fam : Families] \cup
    [kind : {"child"}, fam : Families, stu : Students] \cup
    [kind : {"childWrite"}, fam : Families, stu : Students,
     seen : SUBSET (Parents \cup {Nobody})]

TypeOK ==
    /\ families \in SUBSET Families
    /\ head \in [Families -> Parents \cup {Nobody}]
    /\ parents \in SUBSET Parents
    /\ students \in SUBSET Students /\ dated \in SUBSET students
    /\ links \in SUBSET (families \X (Parents \cup {Nobody}) \X (students \cup {NoChild}))
    /\ invites \in [Invites -> [family : Families \cup {NoFamily},
                                status : {"none", "open", "used", "gone"}]]
    /\ expired \in SUBSET Invites
    /\ pending \in [Parents -> Invites \cup {NoInvite}]
    /\ everMade \in SUBSET (Families \cup Students)
    /\ work \in [Workers -> Busy \cup {Idle}]
    /\ adds \in 0..MaxAdds /\ faults \in 0..MaxFaults
    /\ guests \in [Invites -> SUBSET Parents]
    /\ removed \in SUBSET (Families \X Parents)
    /\ unseated \in SUBSET Families
    /\ raced \in SUBSET Families /\ crowded \in SUBSET Families
    /\ refused \in BOOLEAN

Init ==
    /\ families = {} /\ head = [f \in Families |-> Nobody]
    /\ parents \in SUBSET Parents \ {{}}
    /\ students = {} /\ dated = {} /\ links = {}
    /\ invites = [i \in Invites |-> [family |-> NoFamily, status |-> "none"]]
    /\ expired = {} /\ pending = [p \in Parents |-> NoInvite]
    /\ everMade = {}
    /\ work = [w \in Workers |-> Idle]
    /\ adds = 0 /\ faults = 0
    /\ guests = [i \in Invites |-> {}] /\ removed = {} /\ raced = {}
    /\ unseated = {} /\ crowded = {} /\ refused = FALSE

MayHappen == adds + faults < MaxEvents
Fault == faults < MaxFaults /\ MayHappen /\ faults' = faults + 1

Members(f) == {p \in Parents : \E s \in Students \cup {NoChild} : <<f, p, s>> \in links}
Children(f) == {s \in Students : \E p \in Parents \cup {Nobody} : <<f, p, s>> \in links}

Begin(w, job) == work' = [work EXCEPT ![w] = job]
End(w) == work' = [work EXCEPT ![w] = Idle]

\* Another handler has read this family and not yet written what it will.
Overtakes(w, f) ==
    \E v \in Workers \ {w} :
        work[v].kind \in {"joinWrite", "childWrite", "head"} /\ work[v].fam = f
\* Another handler has counted the children and is still adding its own.
BeingAdded(w, f) ==
    \E v \in Workers \ {w} :
        work[v].kind \in {"addChild", "child", "childWrite"} /\ work[v].fam = f
\* Another handler is taking this parent out: it has seen that the head is not he.
Unseats(w, f, p) ==
    \E v \in Workers \ {w} :
        work[v].kind = "remove" /\ work[v].fam = f /\ work[v].par = p
Race(w, f) == raced' = IF Overtakes(w, f) THEN raced \cup {f} ELSE raced
-----------------------------------------------------------------------------
(* Creating a family: add_family, link_parent_to_family, set_family_head.  *)

CreateFamily(w, f, p) ==
    /\ IsIdle(w) /\ f \notin everMade /\ p \in parents
    /\ families' = families \cup {f} /\ everMade' = everMade \cup {f}
    /\ Begin(w, [kind |-> "join", fam |-> f, par |-> p, inv |-> NoInvite, makeHead |-> TRUE])
    /\ UNCHANGED <<head, parents, students, dated, links, invites, expired, pending,
                   adds, faults, past>>

SetHead(w) ==
    /\ work[w].kind = "head"
    /\ LET f == work[w].fam  p == work[w].par
       IN IF f \in families
          THEN /\ head' = [head EXCEPT ![f] = p]
               /\ links' = links \cup {<<f, p, NoChild>>}
               /\ unseated' = IF Unseats(w, f, p) THEN unseated \cup {f} ELSE unseated
               /\ raced' = IF Overtakes(w, f) \/ Unseats(w, f, p)
                           THEN raced \cup {f} ELSE raced
          ELSE UNCHANGED <<head, links, unseated, raced>>
    /\ End(w)
    /\ UNCHANGED <<families, parents, students, dated, invites, expired, pending, everMade,
                   adds, faults, guests, removed, refused, crowded>>
-----------------------------------------------------------------------------
(* Invitations. *)

\* get_invite: unused, not past expires_at, of an existing family.
Valid(i) == invites[i].status = "open" /\ i \notin expired /\ invites[i].family \in families

CreateInvite(w, i, f) ==
    /\ IsIdle(w) /\ invites[i].status = "none"
    /\ f \in families
    /\ invites' = [invites EXCEPT ![i] = [family |-> f, status |-> "open"]]
    /\ UNCHANGED <<families, head, parents, students, dated, links, expired, pending,
                   everMade, work, adds, faults, past>>

\* A used invite may expire as well: nothing looks at it any more.
Expire(i) ==
    /\ invites[i].status = "open" /\ i \notin expired
    /\ expired' = expired \cup {i}
    /\ UNCHANGED <<families, head, parents, students, dated, links, invites, pending,
                   everMade, work, adds, faults, past>>

\* The weekly cleanup_expired_invites.
CleanInvite(i) ==
    /\ i \in expired /\ invites[i].status # "gone"
    /\ invites' = [invites EXCEPT ![i].status = "gone"]
    /\ UNCHANGED <<families, head, parents, students, dated, links, expired, pending,
                   everMade, work, adds, faults, past>>

\* handle_invite_deeplink: a user the bot knows goes on, another one is asked
\* for a phone number first.
OpenInvite(w, p, i) ==
    /\ IsIdle(w) /\ Valid(i)
    /\ IF p \in parents
       THEN /\ Begin(w, [kind |-> "use", fam |-> invites[i].family, par |-> p, inv |-> i])
            /\ UNCHANGED pending
       ELSE pending' = [pending EXCEPT ![p] = i] /\ UNCHANGED work
    /\ UNCHANGED <<tables, everMade, adds, faults, past>>

\* process_invite_after_contact: the invite is read again, the parent added.
ShareContact(w, p) ==
    /\ IsIdle(w) /\ pending[p] # NoInvite
    /\ pending' = [pending EXCEPT ![p] = NoInvite]
    /\ LET i == pending[p]
       IN IF Valid(i)
          THEN /\ parents' = parents \cup {p}
               /\ Begin(w, [kind |-> "use", fam |-> invites[i].family, par |-> p, inv |-> i])
          ELSE UNCHANGED <<parents, work>>
    /\ UNCHANGED <<families, head, students, dated, links, invites, expired, everMade,
                   adds, faults, past>>

\* Mutant: use_invite without its guard is_used = 0.
UseInviteAgain(w) ==
    /\ work[w].kind = "use"
    /\ LET i == work[w].inv
       IN IF invites[i].status \in {"open", "used"}
          THEN /\ invites' = [invites EXCEPT ![i].status = "used"]
               /\ Begin(w, [kind |-> "join", fam |-> work[w].fam, par |-> work[w].par,
                            inv |-> i, makeHead |-> FALSE])
          ELSE End(w) /\ UNCHANGED invites
    /\ UNCHANGED <<families, head, parents, students, dated, links, expired, pending,
                   everMade, adds, faults, past>>

\* use_invite: one UPDATE guarded by is_used = 0; it does not look at
\* expires_at again.
UseInvite(w) ==
    /\ work[w].kind = "use"
    /\ LET i == work[w].inv
       IN IF invites[i].status = "open"
          THEN /\ invites' = [invites EXCEPT ![i].status = "used"]
               /\ Begin(w, [kind |-> "join", fam |-> work[w].fam, par |-> work[w].par,
                            inv |-> i, makeHead |-> FALSE])
          ELSE End(w) /\ UNCHANGED invites
    /\ UNCHANGED <<families, head, parents, students, dated, links, expired, pending,
                   everMade, adds, faults, past>>
-----------------------------------------------------------------------------
(* link_parent_to_family. *)

\* The head or an administrator adds a member by phone number.
AddMember(w, f, p) ==
    /\ IsIdle(w) /\ adds < MaxAdds /\ MayHappen /\ f \in families
    /\ adds' = adds + 1
    /\ parents' = parents \cup {p}
    /\ Begin(w, [kind |-> "join", fam |-> f, par |-> p, inv |-> NoInvite, makeHead |-> FALSE])
    /\ UNCHANGED <<families, head, students, dated, links, invites, expired, pending,
                   everMade, faults, past>>

ReadChildren(w) ==
    /\ work[w].kind = "join"
    /\ Begin(w, [kind |-> "joinWrite", fam |-> work[w].fam, par |-> work[w].par,
                 inv |-> work[w].inv, makeHead |-> work[w].makeHead,
                 seen |-> Children(work[w].fam)])
    /\ UNCHANGED <<tables, pending, everMade, adds, faults, past>>

\* One row per child that was read, or a placeholder; a foreign key that has
\* gone meanwhile fails the whole transaction.
WriteJoin(w) ==
    /\ work[w].kind = "joinWrite"
    /\ LET f == work[w].fam  p == work[w].par  seen == work[w].seen  i == work[w].inv
           children == IF seen = {} THEN {NoChild} ELSE seen
       IN IF f \in families /\ seen \subseteq students
          THEN /\ links' = links \cup {<<f, p, s>> : s \in children}
               /\ guests' = IF i = NoInvite THEN guests
                            ELSE [guests EXCEPT ![i] = @ \cup {p}]
               /\ removed' = removed \ {<<f, p>>}
               /\ Race(w, f)
               /\ IF work[w].makeHead
                  THEN Begin(w, [kind |-> "head", fam |-> f, par |-> p])
                  ELSE End(w)
          ELSE End(w) /\ UNCHANGED <<links, guests, removed, raced>>
    /\ UNCHANGED <<families, head, parents, students, dated, invites, expired, pending,
                   everMade, adds, faults, unseated, refused, crowded>>
-----------------------------------------------------------------------------
(* process_add_child_step and link_student_to_family. *)

\* Mutant: the limit is tested with <=.
CountChildrenOffByOne(w, f) ==
    /\ IsIdle(w) /\ f \in families
    /\ Cardinality(Children(f)) <= MaxChildren
    /\ Begin(w, [kind |-> "addChild", fam |-> f])
    /\ crowded' = IF BeingAdded(w, f) THEN crowded \cup {f} ELSE crowded
    /\ UNCHANGED <<tables, pending, everMade, adds, faults, guests, removed, unseated, raced,
                   refused>>

\* The limit is checked, then the title of the sheet is fetched.
CountChildren(w, f) ==
    /\ IsIdle(w) /\ f \in families
    /\ Cardinality(Children(f)) < MaxChildren
    /\ Begin(w, [kind |-> "addChild", fam |-> f])
    /\ crowded' = IF BeingAdded(w, f) THEN crowded \cup {f} ELSE crowded
    /\ UNCHANGED <<tables, pending, everMade, adds, faults, guests, removed, unseated, raced,
                   refused>>

AddStudent(w, s) ==
    /\ work[w].kind = "addChild" /\ s \notin everMade
    /\ students' = students \cup {s} /\ everMade' = everMade \cup {s}
    /\ Begin(w, [kind |-> "child", fam |-> work[w].fam, stu |-> s])
    /\ UNCHANGED <<families, head, parents, dated, links, invites, expired, pending,
                   adds, faults, past>>

\* Mutant: only the head is linked to a new child.
ReadParentsHeadOnly(w) ==
    /\ work[w].kind = "child"
    /\ LET f == work[w].fam
       IN Begin(w, [kind |-> "childWrite", fam |-> f, stu |-> work[w].stu,
                    seen |-> {head[f]}])
    /\ UNCHANGED <<tables, pending, everMade, adds, faults, past>>

ReadParents(w) ==
    /\ work[w].kind = "child"
    /\ LET f == work[w].fam
       IN Begin(w, [kind |-> "childWrite", fam |-> f, stu |-> work[w].stu,
                    seen |-> {p \in Parents \cup {Nobody} :
                                \E s \in Students \cup {NoChild} : <<f, p, s>> \in links}])
    /\ UNCHANGED <<tables, pending, everMade, adds, faults, past>>

WriteChild(w) ==
    /\ work[w].kind = "childWrite"
    /\ LET f == work[w].fam  s == work[w].stu  seen == work[w].seen
           those == IF seen = {} THEN {Nobody} ELSE seen
       IN IF f \in families
          THEN links' = links \cup {<<f, p, s>> : p \in those} /\ Race(w, f)
          ELSE UNCHANGED <<links, raced>>
    /\ End(w)
    /\ UNCHANGED <<families, head, parents, students, dated, invites, expired, pending,
                   everMade, adds, faults, guests, removed, unseated, refused, crowded>>

\* set_student_academic_year leaves a snapshot of the year in student_years,
\* which references students.
YearIsKnown(s) ==
    /\ s \in students \ dated
    /\ dated' = dated \cup {s}
    /\ UNCHANGED <<families, head, parents, students, links, invites, expired, pending,
                   everMade, work, adds, faults, past>>
-----------------------------------------------------------------------------
(* Removing people. *)

\* Mutant: delete_parent_from_family forgets who the head is.
RemoveAnyParent(w, f, p) ==
    /\ IsIdle(w) /\ p \in Members(f)
    /\ Begin(w, [kind |-> "remove", fam |-> f, par |-> p])
    /\ UNCHANGED <<tables, pending, everMade, adds, faults, past>>

\* delete_parent_from_family reads the head, whom it does not delete ...
RemoveReads(w, f, p) ==
    /\ IsIdle(w) /\ p \in Members(f) /\ head[f] # p
    /\ Begin(w, [kind |-> "remove", fam |-> f, par |-> p])
    /\ UNCHANGED <<tables, pending, everMade, adds, faults, past>>

\* Mutant: only the placeholder row of the parent is deleted.
RemovePlaceholder(w) ==
    /\ work[w].kind = "remove"
    /\ LET f == work[w].fam  p == work[w].par
       IN /\ links' = links \ {<<f, p, NoChild>>}
          /\ removed' = removed \cup {<<f, p>>}
          /\ Race(w, f)
    /\ End(w)
    /\ UNCHANGED <<families, head, parents, students, dated, invites, expired, pending,
                   everMade, adds, faults, guests, unseated, refused, crowded>>

\* ... and deletes by a statement that does not look at head_id again.
RemoveDeletes(w) ==
    /\ work[w].kind = "remove"
    /\ LET f == work[w].fam  p == work[w].par
       IN /\ links' = {l \in links : ~(l[1] = f /\ l[2] = p)}
          /\ removed' = removed \cup {<<f, p>>}
          /\ Race(w, f)
    /\ End(w)
    /\ UNCHANGED <<families, head, parents, students, dated, invites, expired, pending,
                   everMade, adds, faults, guests, unseated, refused, crowded>>

\* delete_student_from_family: the links, and the student once no link is
\* left; a student_years row refuses that, and the links come back with it.
RemoveChild(w, f, s) ==
    /\ IsIdle(w) /\ s \in Children(f)
    /\ LET rest == {l \in links : ~(l[1] = f /\ l[3] = s)}
           orphan == \A l \in rest : l[3] # s
       IN IF orphan /\ s \in dated
          THEN refused' = TRUE /\ UNCHANGED <<links, students, raced>>
          ELSE /\ links' = rest
               /\ students' = IF orphan THEN students \ {s} ELSE students
               /\ Race(w, f)
               /\ UNCHANGED refused
    /\ UNCHANGED <<families, head, parents, dated, invites, expired, pending, everMade,
                   work, adds, faults, guests, removed, unseated, crowded>>

\* Mutant: the links of the family are forgotten.
DeleteFamilyKeepsLinks(w, f) ==
    /\ IsIdle(w) /\ f \in families
    /\ families' = families \ {f}
    /\ invites' = [i \in Invites |-> IF invites[i].family = f
                                    THEN [invites[i] EXCEPT !.status = "gone"] ELSE invites[i]]
    /\ UNCHANGED <<head, parents, students, dated, links, expired, pending, everMade, work,
                   adds, faults, past>>

\* delete_family_cascade, an administrator's.
DeleteFamily(w, f) ==
    /\ IsIdle(w) /\ f \in families
    /\ LET rest == {l \in links : l[1] # f}
           orphans == {s \in Children(f) : \A l \in rest : l[3] # s}
       IN IF orphans \cap dated # {}
          THEN refused' = TRUE /\ UNCHANGED <<families, links, students, invites>>
          ELSE /\ families' = families \ {f}
               /\ links' = rest
               /\ students' = students \ orphans
               /\ invites' = [i \in Invites |->
                                IF invites[i].family = f
                                THEN [invites[i] EXCEPT !.status = "gone"] ELSE invites[i]]
               /\ UNCHANGED refused
    /\ UNCHANGED <<head, parents, dated, expired, pending, everMade, work, adds, faults,
                   guests, removed, unseated, raced, crowded>>
-----------------------------------------------------------------------------
(* Failures. *)

\* A statement fails: the handler gives up, what it committed stays.
HandlerFails(w) ==
    /\ ~IsIdle(w) /\ Fault
    /\ End(w)
    /\ UNCHANGED <<tables, pending, everMade, adds, past>>

\* The process dies; init_db links every head that has no row at all.
Restart ==
    /\ Fault
    /\ work' = [w \in Workers |-> Idle]
    /\ links' = links \cup {<<f, head[f], NoChild>> :
                              f \in {g \in families : head[g] # Nobody /\ head[g] \notin Members(g)}}
    /\ UNCHANGED <<families, head, parents, students, dated, invites, expired, pending,
                   everMade, adds, past>>

Handler(w) ==
    \/ SetHead(w) \/ UseInvite(w) \/ ReadChildren(w) \/ WriteJoin(w)
    \/ ReadParents(w) \/ WriteChild(w) \/ RemoveDeletes(w) \/ HandlerFails(w)
    \/ \E f \in Families :
          \/ CountChildren(w, f) \/ DeleteFamily(w, f)
          \/ \E p \in Parents : CreateFamily(w, f, p) \/ AddMember(w, f, p) \/ RemoveReads(w, f, p)
          \/ \E s \in Students : RemoveChild(w, f, s)
          \/ \E i \in Invites : CreateInvite(w, i, f)
    \/ \E s \in Students : AddStudent(w, s)
    \/ \E p \in Parents : ShareContact(w, p) \/ (\E i \in Invites : OpenInvite(w, p, i))

Next ==
    \/ \E w \in Workers : Handler(w)
    \/ \E i \in Invites : Expire(i) \/ CleanInvite(i)
    \/ \E s \in Students : YearIsKnown(s)
    \/ Restart

Spec == Init /\ [][Next]_vars
-----------------------------------------------------------------------------
(* Properties *)

\* families 241-266, 435-447: the head of a family is always one of its
\* members, whatever is removed, refused or raced: otherwise monitor_engine
\* would not notify the head, whom no handler can link again.  The exception is
\* who was made head between the two statements of his own removal, although
\* families 436 says that the head cannot be deleted.
HeadIsMember ==
    \A f \in families \ unseated : head[f] # Nobody => head[f] \in Members(f)

\* families 269-316: every member is linked to every child and so is told of
\* every grade (grades 546-557), whichever joined first; only two handlers of
\* one family at work at the same time can leave a pair out.
MembersSeeChildren ==
    \A f \in families \ raced : \A p \in Members(f), s \in Children(f) : <<f, p, s>> \in links

\* families 435-447: a parent taken out of a family stays out until let in
\* again, unless a child was being added meanwhile.
RemovedMeansGone ==
    \A f \in families \ raced : \A p \in Parents : <<f, p>> \in removed => p \notin Members(f)

\* invites 4-5 and 47-55: an invitation lets one parent in, however many users
\* open the link at the same time.
OneGuestPerInvite == \A i \in Invites : Cardinality(guests[i]) <= 1

\* handlers/family 286-290: the limit is checked long before the child is
\* added; only handlers of one family that count at the same time exceed it.
ChildrenWithinLimit ==
    \A f \in families \ (raced \cup crowded) : Cardinality(Children(f)) <= MaxChildren

\* families 451 and maintenance 136: a child or a family an administrator or
\* head deletes is deleted.
DeletionsSucceed == ~refused
=============================================================================
