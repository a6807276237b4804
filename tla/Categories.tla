----------------------------- MODULE Categories -----------------------------
(***************************************************************************)
(* The directory of works and machines as moderators edit it while the     *)
(* service runs: creating, moving, hiding and showing a category, and the  *)
(* tree that everybody reads.  A handler checks with some statements and   *)
(* writes with another; two moderators may be at work together.            *)
(*                                                                         *)
(* A slug is the name of a category here; texts, icons, templates and the  *)
(* order are left out, requests that fail their validation are not made.   *)
(* Rows are never removed.                                                 *)
(***************************************************************************)
EXTENDS Naturals, FiniteSets, TLC

CONSTANTS
    Requests,   \* requests of moderators in flight together
    Slugs,      \* 1..n, the categories there may be
    Seeded      \* the categories the migration has made, all of one kind

ASSUME CategorySets == Slugs \subseteq Nat \ {0} /\ IsFiniteSet(Slugs) /\ Seeded \subseteq Slugs

Kinds == {"work", "unit"}
Root == 0
Parents == Slugs \cup {Root}
Category == [there : BOOLEAN, kind : Kinds, parent : Parents, active : BOOLEAN]
NoRow == [there |-> FALSE, kind |-> "work", parent |-> Root, active |-> TRUE]

VARIABLES
    cats,   \* the rows
    pc,     \* next statement of each request
    loc     \* the category it is about and what it will write

vars == <<cats, pc, loc>>

NoLocal == [slug |-> Root, kind |-> "work", parent |-> Root, active |-> TRUE]

(* Rows and requests have their shape; what was never created is blank.    *)
TypeOK ==
    /\ \A s \in Slugs : ~cats[s].there => cats[s] = NoRow
    /\ cats \in [Slugs -> Category]
    /\ pc \in [Requests -> {"idle", "insert", "update", "setActive"}]
    /\ loc \in [Requests -> [slug : Parents, kind : Kinds, parent : Parents, active : BOOLEAN]]

Init ==
    /\ cats = [s \in Slugs |-> [NoRow EXCEPT !.there = s \in Seeded]]
    /\ pc = [p \in Requests |-> "idle"]
    /\ loc = [p \in Requests |-> NoLocal]

-----------------------------------------------------------------------------
Goto(p, label, l) == pc' = [pc EXCEPT ![p] = label] /\ loc' = [loc EXCEPT ![p] = l]
Return(p) == Goto(p, "idle", NoLocal)

SlugTaken(s) == cats[s].there

(* AnyByID finds hidden categories too.                                    *)
AnyByID(s) == cats[s].there

HasChildren(s) == \E c \in Slugs : cats[c].there /\ cats[c].parent = s

(* Mutant: the branch of the parent is not compared.                       *)
checkParent_AnyKind(parent, kind, self) ==
    parent # Root => parent # self /\ cats[parent].there

(* checkParent: AnyByID, so a hidden parent will do.                       *)
checkParent(parent, kind, self) ==
    parent # Root => /\ parent # self
                     /\ AnyByID(parent)
                     /\ cats[parent].kind = kind

createCategory(p, s, kind, parent) ==
    /\ pc[p] = "idle"
    /\ ~SlugTaken(s) /\ checkParent(parent, kind, Root)
    /\ Goto(p, "insert", [NoLocal EXCEPT !.slug = s, !.kind = kind, !.parent = parent])
    /\ UNCHANGED cats

(* The slug is unique: a second INSERT fails.                              *)
CreateCategory(p) ==
    /\ pc[p] = "insert"
    /\ LET l == loc[p] IN
       cats' = IF SlugTaken(l.slug) THEN cats
               ELSE [cats EXCEPT ![l.slug] = [there |-> TRUE, kind |-> l.kind,
                                              parent |-> l.parent, active |-> TRUE]]
    /\ Return(p)

(* The kind and the slug stay; the parent of the request is checked.       *)
updateCategory(p, s, parent) ==
    /\ pc[p] = "idle"
    /\ AnyByID(s) /\ checkParent(parent, cats[s].kind, s)
    /\ Goto(p, "update", [NoLocal EXCEPT !.slug = s, !.kind = cats[s].kind,
                                         !.parent = parent])
    /\ UNCHANGED cats

UpdateCategory(p) ==
    /\ pc[p] = "update"
    /\ cats' = [cats EXCEPT ![loc[p].slug].parent = loc[p].parent]
    /\ Return(p)

(* Only a category without children is hidden, when it is looked at.       *)
toggleCategory(p, s, active) ==
    /\ pc[p] = "idle" /\ AnyByID(s)
    /\ active \/ ~HasChildren(s)
    /\ Goto(p, "setActive", [NoLocal EXCEPT !.slug = s, !.active = active])
    /\ UNCHANGED cats

SetCategoryActive(p) ==
    /\ pc[p] = "setActive"
    /\ cats' = [cats EXCEPT ![loc[p].slug].active = loc[p].active]
    /\ Return(p)

Next ==
    \E p \in Requests :
        \/ \E s \in Slugs, parent \in Parents :
             \/ \E kind \in Kinds : createCategory(p, s, kind, parent)
             \/ updateCategory(p, s, parent)
        \/ \E s \in Slugs, active \in BOOLEAN : toggleCategory(p, s, active)
        \/ CreateCategory(p) \/ UpdateCategory(p) \/ SetCategoryActive(p)

Spec == Init /\ [][Next]_vars

-----------------------------------------------------------------------------
(* What is read: list, List and BuildTree.                                 *)

(* The rows of List: visible ones, of one kind or of both.                 *)
List(kinds) == {s \in Slugs : cats[s].there /\ cats[s].active /\ cats[s].kind \in kinds}

(* Mutant: only rows without a parent are roots.                           *)
Roots_NoParent(flat) == {s \in flat : cats[s].parent = Root}

(* A row whose parent is not in the list moves to the root.                *)
Roots(flat) == {s \in flat : cats[s].parent \notin flat}

(* The rows that the tree shows, level by level; no branch is longer than  *)
(* the list.                                                               *)
BuildTree(flat) ==
    LET level[n \in 0..Cardinality(flat)] ==
            IF n = 0 THEN Roots(flat)
            ELSE level[n - 1] \cup {s \in flat : cats[s].parent \in level[n - 1]}
    IN level[Cardinality(flat)]

(* The categories above s, s included.                                     *)
Above(s) ==
    LET up[n \in 0..Cardinality(Slugs)] ==
            IF n = 0 THEN {s}
            ELSE up[n - 1] \cup {cats[c].parent : c \in up[n - 1] \ {Root}}
    IN up[Cardinality(Slugs)]

-----------------------------------------------------------------------------
(***************************************************************************)
(* The two branches never mix: whatever two moderators do at once, a       *)
(* category hangs under an existing one of its own kind.                   *)
(***************************************************************************)
SameBranch ==
    \A s \in Slugs :
        cats[s].there /\ cats[s].parent # Root
            => cats[cats[s].parent].there /\ cats[cats[s].parent].kind = cats[s].kind

(***************************************************************************)
(* Hiding, moving and filtering by kind lose nothing: a visible category   *)
(* is in the tree that BuildTree makes unless moderators have put it into  *)
(* a circle, that is, unless its way up never comes to a root.             *)
(***************************************************************************)
TreeShowsTheRest ==
    \A kinds \in SUBSET Kinds : \A s \in List(kinds) :
        Root \in Above(s) => s \in BuildTree(List(kinds))

-----------------------------------------------------------------------------
(* The inductive invariant of the proofs: what a request has checked still *)
(* holds when it writes, because rows are never removed nor change kind.   *)
GoodParent(parent, kind) ==
    parent # Root => cats[parent].there /\ cats[parent].kind = kind

CheckedBefore(p) ==
    /\ pc[p] # "idle" => loc[p].slug \in Slugs
    /\ pc[p] \in {"insert", "update"} => GoodParent(loc[p].parent, loc[p].kind)
    /\ pc[p] \in {"update", "setActive"} => cats[loc[p].slug].there
    /\ pc[p] = "update" => cats[loc[p].slug].kind = loc[p].kind

BranchInv == TypeOK /\ SameBranch /\ \A p \in Requests : CheckedBefore(p)

=============================================================================
