------------------------- MODULE MemberDialogsProofs -------------------------
(***************************************************************************)
(* Proofs about MemberDialogs, for any groups and users, and any number of *)
(* saves under way and of steps of the other clients.                      *)
(***************************************************************************)
EXTENDS MemberDialogs, TLAPS

-----------------------------------------------------------------------------
(* The invariant in pieces: the screen, the tables, and each save.          *)

ScreenTypes ==
  /\ tab \in {"groups", "users"}
  /\ dialog \in Dialog
  /\ list \in Listing
  /\ fetch \in Listing
  /\ dialog.kind = "create" => dialog.ticks \subseteq PairsOf(dialog.of)

TableTypes ==
  /\ groups \subseteq Groups
  /\ users \subseteq Users
  /\ links \subseteq Pairs
  /\ pushed \subseteq Pairs
  /\ others \in 0..MaxOthers
  /\ overlapped \subseteq Pairs

(* A save that is as it should be in the tables there are.                  *)
IsApt(o) ==
  /\ o \in Save
  /\ o.op = "create" => o.add \subseteq PairsOf(o.of)
  /\ \A p \in o.read \ overlapped : HasEndsFor(o, p)

(* The same in the tables after a step.                                     *)
IsAptNext(o) ==
  /\ o \in Save
  /\ o.op = "create" => o.add \subseteq PairsOf(o.of)
  /\ \A p \in o.read \ overlapped' :
       p[2] \in users' /\ (p[1] \in groups' \/ (o.op = "create" /\ p[1] = o.of))

(* MemberInv in pieces.                                                     *)
LEMMA Parts ==
  ASSUME MemberInv
  PROVE  /\ ScreenTypes /\ TableTypes /\ LinksHaveEnds
         /\ saves \in [Saves -> Save]
         /\ \A s \in Saves : IsApt(saves[s])
  BY DEF MemberInv, TypeOK, ReadsHaveEnds, TicksAreOwn, ScreenTypes, TableTypes, IsApt

(* The pieces after a step make MemberInv again, each save taken by itself. *)
LEMMA WholeAgain ==
  ASSUME ScreenTypes', TableTypes', LinksHaveEnds',
         saves' = [s \in Saves |-> saves'[s]],
         \A s \in Saves : IsAptNext(saves'[s])
  PROVE  MemberInv'
<1>1. saves' \in [Saves -> Save]
  BY DEF IsAptNext
<1>2. TypeOK'
  BY <1>1 DEF TypeOK, ScreenTypes, TableTypes
<1>3. ReadsHaveEnds'
  BY DEF ReadsHaveEnds, HasEndsFor, IsAptNext
<1>4. TicksAreOwn'
  BY DEF TicksAreOwn, ScreenTypes, IsAptNext, PairsOf
<1> QED
  BY <1>2, <1>3, <1>4 DEF MemberInv

(* A pair is of a group and an account; nothing shown and no dialog are of  *)
(* their types.                                                             *)
LEMMA PairFacts ==
  /\ \A p \in Pairs : p[1] \in Groups /\ p[2] \in Users
  /\ \A x : PairsOf(x) \subseteq Pairs
  /\ NoList \in Listing /\ NoDialog \in Dialog
  /\ NoDialog.kind = "none"
<1>1. \A p \in Pairs : p[1] \in Groups /\ p[2] \in Users
  BY DEF Pairs
<1>2. \A x : PairsOf(x) \subseteq Pairs
  BY DEF PairsOf
<1>3. NoList \in Listing /\ NoDialog \in Dialog /\ NoDialog.kind = "none"
  BY DEF NoList, Listing, NoDialog, Dialog
<1> QED
  BY <1>1, <1>2, <1>3

(* What GET /groups and GET /users answer is a listing.                     *)
LEMMA ListedTypes ==
  ASSUME TableTypes
  PROVE  Listed \in Listing
  BY DEF TableTypes, Listed, Listing

(* A save that failed is a record of a save, which reads what it read.      *)
LEMMA FailedIsSave ==
  ASSUME NEW o \in Save
  PROVE  /\ Failed(o) \in Save
         /\ Failed(o).op = "edit"
         /\ Failed(o).read = o.read
  BY DEF Failed, FreeSave, Save

-----------------------------------------------------------------------------
(* Steps that leave the tables alone, or only let them grow.                *)
Grows ==
  /\ groups \subseteq groups' /\ users \subseteq users'
  /\ overlapped \subseteq overlapped'

Calm == UNCHANGED <<tables, overlapped>>

(* A step that leaves the tables alone keeps their types and the ends of    *)
(* associations.                                                            *)
LEMMA CalmTables ==
  ASSUME MemberInv, Calm, others' \in 0..MaxOthers
  PROVE  TableTypes' /\ LinksHaveEnds' /\ Grows
<1>1. TableTypes /\ LinksHaveEnds
  BY Parts
<1>2. /\ groups' = groups /\ users' = users /\ links' = links
      /\ pushed' = pushed /\ overlapped' = overlapped
  BY DEF Calm, tables
<1> QED
  BY <1>1, <1>2 DEF TableTypes, LinksHaveEnds, HasEnds, Grows

(* A step that leaves the screen alone keeps its types.                     *)
LEMMA CalmScreen ==
  ASSUME MemberInv, UNCHANGED screen
  PROVE  ScreenTypes'
<1>1. ScreenTypes
  BY Parts
<1>2. tab' = tab /\ dialog' = dialog /\ list' = list /\ fetch' = fetch
  BY DEF screen, cache
<1> QED
  BY <1>1, <1>2 DEF ScreenTypes, PairsOf

(* A save that asks for less than before, in tables that only grew, is as   *)
(* it should be.                                                            *)
LEMMA AptStays ==
  ASSUME Grows, NEW o, NEW n, IsApt(o), n \in Save,
         n.op = o.op, n.of = o.of, n.add \subseteq o.add, n.read \subseteq o.read
  PROVE  IsAptNext(n)
  BY DEF Grows, IsApt, IsAptNext, HasEndsFor

(* A failed save keeps only what an edit does.                              *)
LEMMA FailedIsApt ==
  ASSUME Grows, NEW o, NEW n \in Save, IsApt(o), o.op = "edit",
         n.read \subseteq o.read
  PROVE  IsAptNext(Failed(n))
<1>1. Failed(n) \in Save /\ Failed(n).op = "edit" /\ Failed(n).read = n.read
  BY FailedIsSave
<1> QED
  BY <1>1 DEF Grows, IsApt, IsAptNext, HasEndsFor

(* So is one that has read nothing yet.                                     *)
LEMMA EmptyIsApt ==
  ASSUME NEW o \in Save, o.read = {}, o.op = "create" => o.add \subseteq PairsOf(o.of)
  PROVE  IsAptNext(o)
  BY DEF IsAptNext

(* What other requests change under a save leaves the rest of its record    *)
(* alone.                                                                   *)
LEMMA TouchedSame ==
  ASSUME NEW P, saves \in [Saves -> Save], NEW s \in Saves
  PROVE  /\ Touched(P)[s] \in Save
         /\ Touched(P)[s].op = saves[s].op
         /\ Touched(P)[s].of = saves[s].of
         /\ Touched(P)[s].add = saves[s].add
         /\ Touched(P)[s].read = saves[s].read
<1> DEFINE o == saves[s]
<1> DEFINE n == [o EXCEPT !.in = @ \ P, !.out = @ \ P]
<1>1. o \in Save
  OBVIOUS
<1>2. Touched(P)[s] = n
  BY DEF Touched
<1>3. o.in \ P \in SUBSET Pairs /\ o.out \ P \in SUBSET Pairs
  BY <1>1 DEF Save
<1> HIDE DEF o
<1>4. n = [o EXCEPT !.in = o.in \ P, !.out = o.out \ P]
  BY <1>1 DEF Save
<1>5. /\ n \in Save
      /\ n.op = o.op /\ n.of = o.of /\ n.add = o.add /\ n.read = o.read
  BY <1>1, <1>3, <1>4 DEF Save
<1> QED
  BY <1>2, <1>5 DEF o

(* The others keep what matters, whatever one save does.                    *)
LEMMA OnlyOneChanges ==
  ASSUME MemberInv, NEW s \in Saves, NEW local, NEW P,
         Changes(s, local) \/ Becomes(s, local, P)
  PROVE  /\ saves' = [t \in Saves |-> saves'[t]]
         /\ saves'[s] = local
         /\ \A t \in Saves : t # s =>
              /\ saves'[t] \in Save
              /\ saves'[t].op = saves[t].op /\ saves'[t].of = saves[t].of
              /\ saves'[t].add = saves[t].add /\ saves'[t].read = saves[t].read
<1>1. saves \in [Saves -> Save]
  BY Parts
<1>2. CASE Changes(s, local)
  BY <1>1, <1>2 DEF Changes
<1>3. CASE Becomes(s, local, P)
  <2>1. Touched(P) = [t \in Saves |-> Touched(P)[t]]
    BY DEF Touched
  <2>2. /\ saves' = [t \in Saves |-> saves'[t]]
        /\ saves'[s] = local
        /\ \A t \in Saves : t # s => saves'[t] = Touched(P)[t]
    BY <1>3, <2>1 DEF Becomes
  <2> QED
    BY <1>1, <2>2, TouchedSame
<1> QED
  BY <1>2, <1>3

(* When one save goes on and is as it should be, so are the others.         *)
LEMMA OneGoesOn ==
  ASSUME MemberInv, Grows, NEW s \in Saves, NEW local, NEW P,
         IsAptNext(local), Changes(s, local) \/ Becomes(s, local, P)
  PROVE  /\ saves' = [t \in Saves |-> saves'[t]]
         /\ \A t \in Saves : IsAptNext(saves'[t])
<1>1. \A t \in Saves : IsApt(saves[t])
  BY Parts
<1>2. /\ saves' = [t \in Saves |-> saves'[t]]
      /\ saves'[s] = local
      /\ \A t \in Saves : t # s =>
           /\ saves'[t] \in Save
           /\ saves'[t].op = saves[t].op /\ saves'[t].of = saves[t].of
           /\ saves'[t].add = saves[t].add /\ saves'[t].read = saves[t].read
  BY OnlyOneChanges
<1>3. \A t \in Saves : t # s => IsAptNext(saves'[t])
  BY <1>1, <1>2, AptStays
<1> QED
  BY <1>2, <1>3

(* A step of one save that leaves the tables and the screen alone.          *)
LEMMA CalmStep ==
  ASSUME MemberInv, Calm, UNCHANGED <<screen, others>>,
         NEW s \in Saves, NEW local, IsAptNext(local), Changes(s, local)
  PROVE  MemberInv'
<1>1. others' \in 0..MaxOthers
  BY Parts DEF TableTypes
<1>2. TableTypes' /\ LinksHaveEnds' /\ Grows
  BY <1>1, CalmTables
<1>3. ScreenTypes'
  BY CalmScreen
<1>4. /\ saves' = [t \in Saves |-> saves'[t]]
      /\ \A t \in Saves : IsAptNext(saves'[t])
  BY <1>2, OneGoesOn
<1> QED
  BY <1>2, <1>3, <1>4, WholeAgain

-----------------------------------------------------------------------------
(* The browser.                                                             *)

(* The steps of the tabs, which tell every save who waits for it.           *)
LEMMA Browsing ==
  ASSUME MemberInv, Browse
  PROVE  MemberInv'
<1>1. /\ ScreenTypes /\ TableTypes /\ saves \in [Saves -> Save]
      /\ \A s \in Saves : IsApt(saves[s])
  BY Parts
<1>2. /\ Calm /\ others' = others
      /\ \/ saves' = saves
         \/ saves' = [s \in Saves |-> [saves[s] EXCEPT !.from = "elsewhere"]]
  BY DEF Browse, Calm, ShowTab, Refetch, ListArrives, OpenGroupEdit, OpenNewGroup,
         OpenGroupDeletion, OpenUserEdit, OpenNewUser, OpenUserDeletion, Opens,
         CloseDialog, ToggleMember, ToggleNewMember, ToggleGroup, Toggle, tables
<1>3. TableTypes' /\ LinksHaveEnds' /\ Grows
  BY <1>1, <1>2, CalmTables DEF TableTypes
<1>4. /\ saves' = [s \in Saves |-> saves'[s]]
      /\ \A s \in Saves : IsAptNext(saves'[s])
  <2>1. CASE saves' = saves
    BY <1>1, <1>3, <2>1, AptStays DEF IsApt
  <2>2. CASE saves' = [s \in Saves |-> [saves[s] EXCEPT !.from = "elsewhere"]]
    <3>1. ASSUME NEW s \in Saves, NEW o \in Save
          PROVE  LET n == [o EXCEPT !.from = "elsewhere"]
                 IN  /\ n \in Save
                     /\ n.op = o.op /\ n.of = o.of /\ n.add = o.add /\ n.read = o.read
      BY DEF Save
    <3>2. ASSUME NEW s \in Saves
          PROVE  IsAptNext(saves'[s])
      <4>1. saves[s] \in Save /\ saves'[s] = [saves[s] EXCEPT !.from = "elsewhere"]
        BY <1>1, <2>2
      <4>2. /\ saves'[s] \in Save
            /\ saves'[s].op = saves[s].op /\ saves'[s].of = saves[s].of
            /\ saves'[s].add = saves[s].add /\ saves'[s].read = saves[s].read
        BY <3>1, <4>1
      <4> QED
        BY <1>1, <1>3, <4>2, AptStays
    <3> QED
      BY <2>2, <3>2
  <2> QED
    BY <1>2, <2>1, <2>2
<1>5. ScreenTypes'
  <2>1. ASSUME NEW t \in {"groups", "users"}, ShowTab(t)
        PROVE  ScreenTypes'
    BY <1>1, <2>1, PairFacts DEF ShowTab, ScreenTypes, cache
  <2>2. CASE Refetch \/ ListArrives
    BY <1>1, <2>2, PairFacts, ListedTypes DEF Refetch, ListArrives, ScreenTypes, PairsOf
  <2>3. ASSUME NEW g \in Groups, OpenGroupEdit(g)
        PROVE  ScreenTypes'
    <3>1. list.links \cap PairsOf(g) \subseteq Pairs
      BY PairFacts
    <3>2. dialog' \in Dialog /\ dialog'.kind = "edit"
      BY <2>3, <3>1 DEF OpenGroupEdit, Dialog
    <3> QED
      BY <1>1, <2>3, <3>2 DEF OpenGroupEdit, ScreenTypes, cache
  <2>4. ASSUME NEW u \in Users, OpenUserEdit(u)
        PROVE  ScreenTypes'
    <3>1. list.links \cap PairsOf(u) \subseteq Pairs
      BY PairFacts
    <3>2. dialog' \in Dialog /\ dialog'.kind = "edit"
      BY <2>4, <3>1 DEF OpenUserEdit, Dialog
    <3> QED
      BY <1>1, <2>4, <3>2 DEF OpenUserEdit, ScreenTypes, cache
  <2>5. ASSUME NEW x \in Groups \cup Users, NEW k \in {"create", "delete"}, Opens(k, x)
        PROVE  ScreenTypes'
    <3>1. dialog' \in Dialog /\ dialog'.ticks = {}
      BY <2>5 DEF Opens, NoDialog, Dialog
    <3> QED
      BY <1>1, <2>5, <3>1 DEF Opens, ScreenTypes, cache
  <2>6. CASE CloseDialog
    BY <1>1, <2>6, PairFacts DEF CloseDialog, ScreenTypes, cache
  <2>7. ASSUME NEW p \in Pairs, Toggle(p)
        PROVE  ScreenTypes'
    <3>1. dialog' \in Dialog /\ dialog'.kind = dialog.kind /\ dialog'.of = dialog.of
      BY <1>1, <2>7 DEF Toggle, ScreenTypes, Dialog
    <3>2. dialog'.ticks \subseteq dialog.ticks \cup {p} /\ p \in PairsOf(dialog.of)
      BY <1>1, <2>7 DEF Toggle, ScreenTypes, Dialog
    <3>3. dialog'.kind = "create" => dialog'.ticks \subseteq PairsOf(dialog'.of)
      BY <1>1, <3>1, <3>2 DEF ScreenTypes
    <3> QED
      BY <1>1, <2>7, <3>1, <3>3 DEF Toggle, ScreenTypes, cache, PairsOf
  <2> QED
    BY <2>1, <2>2, <2>3, <2>4, <2>5, <2>6, <2>7
    DEF Browse, OpenNewGroup, OpenGroupDeletion, OpenNewUser, OpenUserDeletion,
        ToggleMember, ToggleNewMember, ToggleGroup
<1> QED
  BY <1>3, <1>4, <1>5, WholeAgain

(* So is a save that has just been sent.                                    *)
LEMMA SentIsApt ==
  ASSUME ScreenTypes, NEW op \in {"edit", "create", "delete"},
         NEW add \in SUBSET Pairs, NEW remove \in SUBSET Pairs,
         op = "create" => add \subseteq PairsOf(dialog.of)
  PROVE  IsAptNext(Sent(op, add, remove))
<1>1. dialog.of \in Groups \cup Users \cup {Nobody}
  BY DEF ScreenTypes, Dialog
<1>2. Sent(op, add, remove) \in Save
  BY <1>1 DEF Sent, FreeSave, Save
<1>3. /\ Sent(op, add, remove).read = {} /\ Sent(op, add, remove).op = op
      /\ Sent(op, add, remove).add = add /\ Sent(op, add, remove).of = dialog.of
  BY DEF Sent, FreeSave
<1> QED
  BY <1>2, <1>3, EmptyIsApt

(* Sending a save keeps the invariant ...                                   *)
LEMMA Sending ==
  ASSUME MemberInv, NEW s \in Saves, Send(s)
  PROVE  MemberInv'
<1>1. ScreenTypes
  BY Parts
<1>2. /\ dialog.ticks \in SUBSET Pairs /\ dialog.before \in SUBSET Pairs
      /\ list.links \in SUBSET Pairs /\ {} \in SUBSET Pairs
  BY <1>1 DEF ScreenTypes, Dialog, Listing
<1>3. Calm /\ UNCHANGED <<screen, others>>
  BY DEF Send, Calm, SaveMembers, SaveGroups, CreateGroup, CreateUser, DeleteGroup,
         DeleteUser
<1>4. PICK op \in {"edit", "create", "delete"}, add \in SUBSET Pairs,
          remove \in SUBSET Pairs :
        /\ op = "create" => add \subseteq PairsOf(dialog.of)
        /\ Changes(s, Sent(op, add, remove))
  <2>1. CASE SaveMembers(s)
    BY <1>2, <2>1 DEF SaveMembers
  <2>2. CASE SaveGroups(s)
    BY <1>2, <2>2 DEF SaveGroups
  <2>3. CASE CreateGroup(s)
    BY <1>1, <1>2, <2>3 DEF CreateGroup, CanSend, ScreenTypes
  <2>4. CASE CreateUser(s)
    BY <1>2, <2>4 DEF CreateUser
  <2>5. CASE DeleteGroup(s) \/ DeleteUser(s)
    BY <1>2, <2>5 DEF DeleteGroup, DeleteUser
  <2> QED
    BY <2>1, <2>2, <2>3, <2>4, <2>5 DEF Send
<1>5. IsAptNext(Sent(op, add, remove))
  BY <1>1, <1>4, SentIsApt
<1> QED
  BY <1>3, <1>4, <1>5, CalmStep

(* ... so does dealing with its answer ...                                  *)
LEMMA Settling ==
  ASSUME MemberInv, NEW s \in Saves, Settle(s)
  PROVE  MemberInv'
<1>1. /\ ScreenTypes /\ TableTypes /\ saves[s] \in Save
  BY Parts
<1>2. Settles(s) /\ (GroupSaved \/ GroupTaken(saves[s].of) \/ UserSaved)
  BY DEF Settle
<1>3. Calm /\ others' \in 0..MaxOthers
  BY <1>1, <1>2 DEF Settles, Calm, TableTypes
<1>4. TableTypes' /\ LinksHaveEnds' /\ Grows
  BY <1>3, CalmTables
<1>5. Saved(saves[s]) \in Save /\ Saved(saves[s]).read = {} /\ Saved(saves[s]).op = "edit"
  BY <1>1 DEF Saved, FreeSave, Save
<1>6. IsAptNext(Saved(saves[s]))
  BY <1>5, EmptyIsApt
<1>7. /\ saves' = [t \in Saves |-> saves'[t]]
      /\ \A t \in Saves : IsAptNext(saves'[t])
  BY <1>2, <1>4, <1>6, OneGoesOn DEF Settles
<1>8. list' \in Listing /\ fetch' \in Listing
  BY <1>1, <1>2, ListedTypes
  DEF GroupSaved, GroupTaken, UserSaved, cache, ScreenTypes, Listing
<1>9. ScreenTypes'
  BY <1>1, <1>2, <1>8, PairFacts DEF Settles, ScreenTypes, PairsOf
<1> QED
  BY <1>4, <1>7, <1>9, WholeAgain

-----------------------------------------------------------------------------
(* The service.                                                             *)

(* ... the reads of a request that adds a member ...                        *)
LEMMA Reading ==
  ASSUME MemberInv, NEW s \in Saves, NEW g \in Groups, AddReads(s, g)
  PROVE  MemberInv'
<1> DEFINE o     == saves[s]
           asked == o.add \cap PairsOf(g)
           new   == {p \in asked \ links : p[2] \in users}
           on    == [o EXCEPT !.add = o.add \ asked]
           found == [o EXCEPT !.add = o.add \ asked, !.read = o.read \cup new]
<1>1. IsApt(o) /\ o \in Save /\ o.op = "edit"
  BY Parts DEF AddReads, IsApt
<1>2. o.add \ asked \in SUBSET Pairs /\ o.read \cup new \in SUBSET Pairs
  BY <1>1 DEF Save
<1>3. /\ Calm /\ UNCHANGED <<screen, others>>
      /\ Changes(s, IF g \in groups THEN found ELSE Failed(on))
  BY <1>1 DEF AddReads, Calm, Save
<1>4. Grows
  BY <1>3 DEF Calm, Grows, tables
<1>5. \A p \in new : p[2] \in users /\ p[1] = g
  <2>1. \A p \in new : p \in PairsOf(g) /\ p[2] \in users
    OBVIOUS
  <2>2. \A p \in PairsOf(g) : p[1] = g
    BY PairFacts, MemberAssumption DEF PairsOf
  <2> QED
    BY <2>1, <2>2
<1> HIDE DEF asked, new
<1>6. on \in Save /\ on.read = o.read
  BY <1>1, <1>2 DEF Save
<1>7. /\ found \in Save /\ found.op = "edit"
      /\ found.read = o.read \cup new
  BY <1>1, <1>2 DEF Save
<1>8. IsAptNext(Failed(on))
  BY <1>1, <1>4, <1>6, FailedIsApt
<1>9. ASSUME g \in groups
      PROVE  IsAptNext(found)
  <2>1. \A p \in found.read \ overlapped : p[2] \in users /\ p[1] \in groups
    BY <1>1, <1>5, <1>7, <1>9 DEF IsApt, HasEndsFor
  <2> QED
    BY <2>1, <1>4, <1>7 DEF Grows, IsAptNext
<1>10. PICK local : IsAptNext(local) /\ Changes(s, local)
  BY <1>3, <1>8, <1>9
<1> QED
  BY <1>3, <1>10, CalmStep

(* New associations: the old ones keep their ends, and what was read has    *)
(* its own.                                                                 *)
LEMMA Adding ==
  ASSUME MemberInv, NEW s \in Saves, NEW g \in Groups, AddCommits(s, g)
  PROVE  MemberInv'
<1> DEFINE o   == saves[s]
           new == o.read \cap PairsOf(g)
           on  == [o EXCEPT !.read = o.read \ new]
<1>1. IsApt(o) /\ o \in Save /\ o.op = "edit" /\ TableTypes /\ LinksHaveEnds
  BY Parts DEF AddCommits, IsApt
<1>2. o.read \ new \in SUBSET Pairs /\ new \in SUBSET Pairs
  BY <1>1 DEF Save
<1>3. /\ UNCHANGED <<groups, users, pushed, screen, others, overlapped>>
      /\ \/ Changes(s, Failed(on)) /\ links' = links
         \/ /\ Becomes(s, IF g \in groups THEN on ELSE Failed(on), new)
            /\ links' = links \cup new
  BY <1>1 DEF AddCommits, Save
<1>4. Grows
  BY <1>3 DEF Grows
<1>5. \A p \in new \ overlapped : HasEnds(p)
  BY <1>1 DEF IsApt, HasEndsFor, HasEnds
<1>6. TableTypes' /\ LinksHaveEnds'
  BY <1>1, <1>2, <1>3, <1>5 DEF TableTypes, LinksHaveEnds, HasEnds
<1> HIDE DEF new
<1>7. /\ on \in Save /\ on.read \subseteq o.read /\ on.op = o.op
      /\ on.of = o.of /\ on.add = o.add
  BY <1>1, <1>2 DEF Save
<1>8. IsAptNext(on)
  BY <1>1, <1>4, <1>7, AptStays
<1>9. IsAptNext(Failed(on))
  BY <1>1, <1>4, <1>7, FailedIsApt
<1>10. PICK local : IsAptNext(local) /\ (Changes(s, local) \/ Becomes(s, local, new))
  BY <1>3, <1>8, <1>9
<1>11. /\ saves' = [t \in Saves |-> saves'[t]]
       /\ \A t \in Saves : IsAptNext(saves'[t])
  BY <1>4, <1>10, OneGoesOn
<1>12. ScreenTypes'
  BY <1>3, CalmScreen
<1> QED
  BY <1>6, <1>11, <1>12, WholeAgain

(* ... a request that removes one ...                                       *)
LEMMA Removing ==
  ASSUME MemberInv, NEW s \in Saves, NEW p \in Pairs, RemoveMember(s, p)
  PROVE  MemberInv'
<1> DEFINE o  == saves[s]
           on == [o EXCEPT !.remove = o.remove \ {p}]
<1>1. /\ IsApt(o) /\ o \in Save /\ o.op = "edit" /\ TableTypes /\ LinksHaveEnds
  BY Parts DEF RemoveMember, IsApt
<1>2. o.remove \ {p} \in SUBSET Pairs
  BY <1>1 DEF Save
<1>3. /\ UNCHANGED <<groups, users, pushed, screen, others, overlapped>>
      /\ links' \subseteq links
      /\ \/ Changes(s, on)
         \/ Becomes(s, on, {p})
         \/ Changes(s, Failed(on))
  BY <1>1 DEF RemoveMember, Save
<1>4. Grows
  BY <1>3 DEF Grows
<1>5. TableTypes' /\ LinksHaveEnds'
  BY <1>1, <1>3 DEF TableTypes, LinksHaveEnds, HasEnds
<1>6. /\ on \in Save /\ on.read = o.read /\ on.op = o.op
      /\ on.of = o.of /\ on.add = o.add
  BY <1>1, <1>2 DEF Save
<1>7. IsAptNext(on)
  BY <1>1, <1>4, <1>6, AptStays
<1>8. IsAptNext(Failed(on))
  BY <1>1, <1>4, <1>6, FailedIsApt
<1>9. PICK local : IsAptNext(local) /\ (Changes(s, local) \/ Becomes(s, local, {p}))
  BY <1>3, <1>7, <1>8
<1>10. /\ saves' = [t \in Saves |-> saves'[t]]
       /\ \A t \in Saves : IsAptNext(saves'[t])
  BY <1>4, <1>9, OneGoesOn
<1>11. ScreenTypes'
  BY <1>3, CalmScreen
<1> QED
  BY <1>5, <1>10, <1>11, WholeAgain

(* ... the reads of a request that creates a group with members ...         *)
LEMMA CreateReading ==
  ASSUME MemberInv, NEW s \in Saves, CreateReads(s)
  PROVE  MemberInv'
<1> DEFINE o    == saves[s]
           seen == {p \in o.add : p[2] \in users}
           on   == [o EXCEPT !.at = "read", !.add = {}, !.read = seen]
<1>1. IsApt(o) /\ o \in Save /\ o.op = "create" /\ o.of \in Groups
  BY Parts DEF CreateReads, IsApt
<1>2. seen \in SUBSET Pairs
  BY <1>1 DEF Save
<1>3. Calm /\ UNCHANGED <<screen, others>> /\ Changes(s, on)
  BY DEF CreateReads, Calm
<1>4. Grows
  BY <1>3 DEF Calm, Grows, tables
<1>5. \A p \in seen : p[2] \in users /\ p[1] = o.of
  <2>1. \A p \in seen : p \in PairsOf(o.of) /\ p[2] \in users
    BY <1>1 DEF IsApt
  <2>2. \A p \in PairsOf(o.of) : p[1] = o.of
    BY <1>1, PairFacts, MemberAssumption DEF PairsOf
  <2> QED
    BY <2>1, <2>2
<1> HIDE DEF seen
<1>6. /\ on \in Save /\ on.op = "create" /\ on.of = o.of
      /\ on.add = {} /\ on.read = seen
  BY <1>1, <1>2 DEF Save
<1>7. IsAptNext(on)
  BY <1>4, <1>5, <1>6 DEF Grows, IsAptNext
<1> QED
  BY <1>3, <1>7, CalmStep

(* ... its commit ...                                                       *)
LEMMA CreateCommitting ==
  ASSUME MemberInv, NEW s \in Saves, CreateCommits(s)
  PROVE  MemberInv'
<1> DEFINE o  == saves[s]
           on == [o EXCEPT !.at = "done", !.read = {}]
<1>1. /\ IsApt(o) /\ o \in Save /\ o.op = "create" /\ o.of \in Groups
      /\ TableTypes /\ LinksHaveEnds /\ o.read \subseteq Pairs
  BY Parts DEF CreateCommits, IsApt, Save
<1>2. /\ UNCHANGED <<users, pushed, screen, others, overlapped>>
      /\ \/ Changes(s, Failed(on)) /\ UNCHANGED <<groups, links>>
         \/ /\ Becomes(s, on, PairsOf(o.of))
            /\ groups' = groups \cup {o.of}
            /\ links' = links \cup o.read
  BY DEF CreateCommits
<1>3. Grows
  BY <1>2 DEF Grows
<1>4. \A p \in o.read \ overlapped : p[2] \in users /\ p[1] \in groups \cup {o.of}
  BY <1>1 DEF IsApt, HasEndsFor
<1>5. TableTypes' /\ LinksHaveEnds'
  BY <1>1, <1>2, <1>4 DEF TableTypes, LinksHaveEnds, HasEnds
<1>6. /\ on \in Save /\ on.read = {} /\ on.op = o.op
      /\ on.of = o.of /\ on.add = o.add
  BY <1>1 DEF Save
<1>7. IsAptNext(on)
  BY <1>1, <1>3, <1>6, AptStays
<1>8. IsAptNext(Failed(on))
  <2>1. /\ Failed(on) \in Save /\ Failed(on).op = "edit" /\ Failed(on).read = {}
    BY <1>6, FailedIsSave
  <2> QED
    BY <2>1, EmptyIsApt
<1>9. PICK local :
        IsAptNext(local) /\ (Changes(s, local) \/ Becomes(s, local, PairsOf(o.of)))
  BY <1>2, <1>7, <1>8
<1>10. /\ saves' = [t \in Saves |-> saves'[t]]
       /\ \A t \in Saves : IsAptNext(saves'[t])
  BY <1>3, <1>9, OneGoesOn
<1>11. ScreenTypes'
  BY <1>2, CalmScreen
<1> QED
  BY <1>5, <1>10, <1>11, WholeAgain

(* What is new in its table takes no end from an association.               *)
LEMMA Entering ==
  ASSUME MemberInv, NEW x, Enters(x), UNCHANGED overlapped,
         others' \in 0..MaxOthers
  PROVE  TableTypes' /\ LinksHaveEnds' /\ Grows
<1>1. TableTypes /\ LinksHaveEnds
  BY Parts
<1>2. Grows /\ links' = links /\ pushed' = pushed
  BY DEF Grows, Enters
<1>3. groups' \subseteq Groups /\ users' \subseteq Users
  BY <1>1 DEF Enters, TableTypes
<1> QED
  BY <1>1, <1>2, <1>3 DEF TableTypes, LinksHaveEnds, HasEnds, Grows

(* What goes takes its associations along, and those that are about to be   *)
(* inserted are remembered.                                                 *)
LEMMA Going ==
  ASSUME MemberInv, NEW x, Goes(x), others' \in 0..MaxOthers
  PROVE  /\ TableTypes' /\ LinksHaveEnds'
         /\ \A s \in Saves : \A n \in Save :
              (/\ n.op = saves[s].op /\ n.of = saves[s].of
               /\ n.add = saves[s].add /\ n.read = saves[s].read)
              => IsAptNext(n)
<1>1. /\ TableTypes /\ LinksHaveEnds
      /\ \A s \in Saves : IsApt(saves[s])
  BY Parts
<1>2. /\ groups' = groups \ {x} /\ users' = users \ {x}
      /\ links' = links \ PairsOf(x) /\ pushed' = pushed
      /\ overlapped' = overlapped \cup (UnderWay \cap PairsOf(x))
  BY DEF Goes
<1>3. UnderWay \cap PairsOf(x) \subseteq Pairs
  BY PairFacts
<1>4. TableTypes'
  BY <1>1, <1>2, <1>3 DEF TableTypes
<1>5. \A p \in Pairs \ PairsOf(x) : p[1] # x /\ p[2] # x
  BY DEF PairsOf
<1>6. LinksHaveEnds'
  BY <1>1, <1>2, <1>5 DEF LinksHaveEnds, HasEnds, TableTypes
<1>7. ASSUME NEW s \in Saves, NEW n \in Save,
             n.op = saves[s].op, n.of = saves[s].of,
             n.add = saves[s].add, n.read = saves[s].read
      PROVE  IsAptNext(n)
  <2>1. n.read \subseteq Pairs /\ n.read \subseteq UnderWay
    BY <1>7 DEF Save, UnderWay
  <2>2. \A p \in n.read \ overlapped' : p \notin overlapped /\ p[1] # x /\ p[2] # x
    BY <2>1, <1>2, <1>5
  <2>3. \A p \in n.read \ overlapped :
          p[2] \in users /\ (p[1] \in groups \/ (n.op = "create" /\ p[1] = n.of))
    BY <1>1, <1>7 DEF IsApt, HasEndsFor
  <2>4. n.op = "create" => n.add \subseteq PairsOf(n.of)
    BY <1>1, <1>7 DEF IsApt
  <2> QED
    BY <1>2, <2>2, <2>3, <2>4 DEF IsAptNext
<1> QED
  BY <1>4, <1>6, <1>7

(* ... the creation of an account ...                                       *)
LEMMA Adopting ==
  ASSUME MemberInv, NEW s \in Saves, AddUser(s)
  PROVE  MemberInv'
<1> DEFINE o  == saves[s]
           on == [o EXCEPT !.at = "done"]
<1>1. IsApt(o) /\ o \in Save /\ TableTypes
  BY Parts DEF IsApt
<1>2. /\ Enters(o.of) /\ UNCHANGED <<screen, others, overlapped>>
      /\ Becomes(s, on, PairsOf(o.of))
  BY DEF AddUser
<1>3. TableTypes' /\ LinksHaveEnds' /\ Grows
  BY <1>1, <1>2, Entering DEF TableTypes
<1>4. /\ on \in Save /\ on.read = o.read /\ on.op = o.op
      /\ on.of = o.of /\ on.add = o.add
  BY <1>1 DEF Save
<1>5. IsAptNext(on)
  BY <1>1, <1>3, <1>4, AptStays
<1>6. /\ saves' = [t \in Saves |-> saves'[t]]
      /\ \A t \in Saves : IsAptNext(saves'[t])
  BY <1>2, <1>3, <1>5, OneGoesOn
<1>7. ScreenTypes'
  BY <1>2, CalmScreen
<1> QED
  BY <1>3, <1>6, <1>7, WholeAgain

(* ... the deletion, or the mark, of a group or an account ...              *)
LEMMA Deleting ==
  ASSUME MemberInv, NEW s \in Saves, ServeDelete(s)
  PROVE  MemberInv'
<1> DEFINE o  == saves[s]
           on == [o EXCEPT !.at = "done"]
<1>1. IsApt(o) /\ o \in Save /\ o.op = "delete" /\ TableTypes
  BY Parts DEF ServeDelete, IsApt
<1>2. UNCHANGED <<screen, others>> /\ others' \in 0..MaxOthers
  BY <1>1 DEF ServeDelete, TableTypes
<1>3. /\ on \in Save /\ on.read = o.read /\ on.op = o.op
      /\ on.of = o.of /\ on.add = o.add
  BY <1>1 DEF Save
<1>4. CASE Goes(o.of) /\ Becomes(s, on, PairsOf(o.of))
  <2>1. /\ TableTypes' /\ LinksHaveEnds'
        /\ \A t \in Saves : \A n \in Save :
             (/\ n.op = saves[t].op /\ n.of = saves[t].of
              /\ n.add = saves[t].add /\ n.read = saves[t].read)
             => IsAptNext(n)
    BY <1>2, <1>4, Going
  <2>2. /\ saves' = [t \in Saves |-> saves'[t]]
        /\ saves'[s] = on
        /\ \A t \in Saves : t # s =>
             /\ saves'[t] \in Save
             /\ saves'[t].op = saves[t].op /\ saves'[t].of = saves[t].of
             /\ saves'[t].add = saves[t].add /\ saves'[t].read = saves[t].read
    BY <1>4, OnlyOneChanges
  <2>3. \A t \in Saves : IsAptNext(saves'[t])
    BY <1>3, <2>1, <2>2
  <2>4. ScreenTypes'
    BY <1>2, CalmScreen
  <2> QED
    BY <2>1, <2>2, <2>3, <2>4, WholeAgain
<1>5. CASE /\ Changes(s, IF o.of \in groups \cup users THEN on ELSE Failed(on))
           /\ UNCHANGED <<tables, overlapped>>
  <2>1. Calm /\ Grows
    BY <1>5 DEF Calm, Grows, tables
  <2>2. IsAptNext(on)
    BY <1>1, <1>3, <2>1, AptStays
  <2>3. IsAptNext(Failed(on))
    <3>1. Failed(on) \in Save /\ Failed(on).op = "edit" /\ Failed(on).read = on.read
      BY <1>3, FailedIsSave
    <3> QED
      BY <1>1, <1>3, <2>2, <3>1 DEF IsAptNext
  <2>4. PICK local : IsAptNext(local) /\ Changes(s, local)
    BY <1>5, <2>2, <2>3
  <2> QED
    BY <1>2, <2>1, <2>4, CalmStep
<1> QED
  BY <1>4, <1>5 DEF ServeDelete

(* ... whatever request of a save is served ...                             *)
LEMMA Serving ==
  ASSUME MemberInv, NEW s \in Saves, Serve(s)
  PROVE  MemberInv'
  BY Reading, Adding, Removing, CreateReading, CreateCommitting, Adopting, Deleting
  DEF Serve

(* ... and the end of a request half-way.                                   *)
LEMMA Breaking ==
  ASSUME MemberInv, BreakOff
  PROVE  MemberInv'
<1>1. /\ TableTypes /\ saves \in [Saves -> Save]
      /\ \A s \in Saves : IsApt(saves[s])
  BY Parts
<1>2. Calm /\ UNCHANGED screen /\ others' \in 0..MaxOthers
  BY <1>1 DEF BreakOff, Calm, TableTypes
<1>3. TableTypes' /\ LinksHaveEnds' /\ Grows
  BY <1>2, CalmTables
<1>4. saves' = [s \in Saves |-> saves'[s]]
  BY DEF BreakOff
<1>5. ASSUME NEW s \in Saves
      PROVE  IsAptNext(saves'[s])
  <2>1. CASE Served(s)
    <3>1. saves'[s] = saves[s]
      BY <1>1, <2>1 DEF BreakOff
    <3> QED
      BY <1>1, <1>3, <3>1, AptStays DEF IsApt
  <2>2. CASE ~Served(s)
    <3> DEFINE o == saves[s]
               n == [o EXCEPT !.add = {}, !.read = {}, !.remove = {}]
    <3>1. n \in Save /\ n.read = {}
      BY <1>1 DEF Save
    <3>2. saves'[s] = Failed(n)
      BY <2>2 DEF BreakOff
    <3>3. Failed(n) \in Save /\ Failed(n).op = "edit" /\ Failed(n).read = {}
      BY <3>1, FailedIsSave
    <3> QED
      BY <3>2, <3>3, EmptyIsApt
  <2> QED
    BY <2>1, <2>2
<1>6. ScreenTypes'
  BY <1>2, CalmScreen
<1> QED
  BY <1>3, <1>4, <1>5, <1>6, WholeAgain

-----------------------------------------------------------------------------
(* The other clients.                                                       *)
LEMMA OthersStep ==
  ASSUME MemberInv, Others
  PROVE  MemberInv'
<1>1. /\ TableTypes /\ LinksHaveEnds /\ saves \in [Saves -> Save]
      /\ \A s \in Saves : IsApt(saves[s])
  BY Parts
<1>2. others' \in 0..MaxOthers /\ UNCHANGED screen
  BY <1>1, MemberAssumption DEF Others, TableTypes
<1>3. ScreenTypes'
  BY <1>2, CalmScreen
<1>4. ASSUME NEW P, saves' = Touched(P)
      PROVE  /\ saves' = [s \in Saves |-> saves'[s]]
             /\ \A s \in Saves :
                  /\ saves'[s] \in Save
                  /\ saves'[s].op = saves[s].op /\ saves'[s].of = saves[s].of
                  /\ saves'[s].add = saves[s].add /\ saves'[s].read = saves[s].read
  <2>1. Touched(P) = [s \in Saves |-> Touched(P)[s]]
    BY DEF Touched
  <2> QED
    BY <1>1, <1>4, <2>1, TouchedSame
<1>5. ASSUME NEW P, saves' = Touched(P), Grows
      PROVE  \A s \in Saves : IsAptNext(saves'[s])
  BY <1>1, <1>4, <1>5, AptStays
<1>6. ASSUME NEW x \in Groups \cup Users, Enters(x), UNCHANGED overlapped,
             saves' = Touched(PairsOf(x))
      PROVE  MemberInv'
  BY <1>2, <1>3, <1>4, <1>5, <1>6, Entering, WholeAgain
<1>7. ASSUME NEW x \in Groups \cup Users, Goes(x), saves' = Touched(PairsOf(x))
      PROVE  MemberInv'
  <2>1. /\ TableTypes' /\ LinksHaveEnds'
        /\ \A s \in Saves : \A n \in Save :
             (/\ n.op = saves[s].op /\ n.of = saves[s].of
              /\ n.add = saves[s].add /\ n.read = saves[s].read)
             => IsAptNext(n)
    BY <1>2, <1>7, Going
  <2> QED
    BY <1>3, <1>4, <1>7, <2>1, WholeAgain
<1>8. ASSUME NEW p \in Pairs, HasEnds(p),
             links' = IF p \in links THEN links \ {p} ELSE links \cup {p},
             saves' = Touched({p}), UNCHANGED <<groups, users, pushed, overlapped>>
      PROVE  MemberInv'
  <2>1. TableTypes' /\ LinksHaveEnds' /\ Grows
    BY <1>1, <1>2, <1>8 DEF TableTypes, LinksHaveEnds, HasEnds, Grows
  <2> QED
    BY <1>3, <1>4, <1>5, <1>8, <2>1, WholeAgain
<1>9. ASSUME NEW g \in groups, NEW P \in SUBSET (links \cap PairsOf(g)),
             pushed' = pushed \cup P,
             UNCHANGED <<groups, users, links, saves, overlapped>>
      PROVE  MemberInv'
  <2>1. TableTypes' /\ LinksHaveEnds' /\ Grows
    BY <1>1, <1>2, <1>9, PairFacts DEF TableTypes, LinksHaveEnds, HasEnds, Grows
  <2>2. \A s \in Saves : IsAptNext(saves'[s])
    BY <1>1, <1>9, <2>1, AptStays DEF IsApt
  <2> QED
    BY <1>1, <1>3, <1>9, <2>1, <2>2, WholeAgain
<1> QED
  BY <1>6, <1>7, <1>8, <1>9 DEF Others

(* A row of a membership is thrown away.                                    *)
LEMMA DiscardStep ==
  ASSUME MemberInv, NEW p \in Pairs, DiscardRow(p)
  PROVE  MemberInv'
<1>1. /\ TableTypes /\ LinksHaveEnds /\ saves \in [Saves -> Save]
      /\ \A s \in Saves : IsApt(saves[s])
  BY Parts
<1>2. /\ saves' = Touched({p}) /\ pushed' = pushed \ {p}
      /\ UNCHANGED <<groups, users, links, screen, others, overlapped>>
  BY DEF DiscardRow
<1>3. TableTypes' /\ LinksHaveEnds' /\ Grows
  BY <1>1, <1>2 DEF TableTypes, LinksHaveEnds, HasEnds, Grows
<1>4. ScreenTypes'
  BY <1>2, CalmScreen
<1>5. Touched({p}) = [s \in Saves |-> Touched({p})[s]]
  BY DEF Touched
<1>6. \A s \in Saves : IsAptNext(saves'[s])
  BY <1>1, <1>2, <1>3, TouchedSame, AptStays
<1> QED
  BY <1>2, <1>3, <1>4, <1>5, <1>6, WholeAgain

-----------------------------------------------------------------------------
(* The invariant holds at first ...                                         *)
LEMMA InitMemberInv == Init => MemberInv
<1> SUFFICES ASSUME Init PROVE MemberInv
  OBVIOUS
<1>1. FreeSave \in Save /\ FreeSave.read = {} /\ FreeSave.op = "edit"
  BY DEF FreeSave, Save
<1>2. saves \in [Saves -> Save] /\ \A s \in Saves : saves[s] = FreeSave
  BY <1>1 DEF Init
<1>3. TypeOK
  BY <1>2, PairFacts, MemberAssumption DEF Init, TypeOK, Listing
<1>4. LinksHaveEnds
  BY DEF Init, LinksHaveEnds
<1>5. ReadsHaveEnds /\ TicksAreOwn
  BY <1>1, <1>2, PairFacts DEF Init, ReadsHaveEnds, TicksAreOwn
<1> QED
  BY <1>3, <1>4, <1>5 DEF MemberInv

(* ... and every step keeps it.                                             *)
LEMMA NextMemberInv == MemberInv /\ [Next]_vars => MemberInv'
<1> SUFFICES ASSUME MemberInv, [Next]_vars PROVE MemberInv'
  OBVIOUS
<1>1. CASE Browse
  BY <1>1, Browsing
<1>2. ASSUME NEW s \in Saves, Send(s) \/ Serve(s) \/ Settle(s)
      PROVE  MemberInv'
  BY <1>2, Sending, Serving, Settling
<1>3. CASE BreakOff
  BY <1>3, Breaking
<1>4. CASE Others
  BY <1>4, OthersStep
<1>5. ASSUME NEW p \in Pairs, DiscardRow(p) PROVE MemberInv'
  BY <1>5, DiscardStep
<1>6. CASE UNCHANGED vars
  BY <1>6 DEF vars, tables, screen, cache, MemberInv, TypeOK, LinksHaveEnds, HasEnds,
              ReadsHaveEnds, HasEndsFor, TicksAreOwn, PairsOf
<1> QED
  BY <1>1, <1>2, <1>3, <1>4, <1>5, <1>6 DEF Next

(* The inductive invariant: types, ends of what is stored and of what is    *)
(* read and not stored yet, and ticks that belong to their dialog.          *)
THEOREM Invariant == Spec => []MemberInv
<1>1. Init => MemberInv
  BY InitMemberInv
<1>2. MemberInv /\ [Next]_vars => MemberInv'
  BY NextMemberInv
<1> QED
  BY <1>1, <1>2, PTL DEF Spec

(* The tables, the tabs and the requests stay of their types: the dialogs   *)
(* of both tabs share their state and their requests.                       *)
THEOREM TypeCorrect == Spec => []TypeOK
<1>1. MemberInv => TypeOK
  BY DEF MemberInv
<1> QED
  BY <1>1, Invariant, PTL

(* No association outlives its group or its user, whatever is created,      *)
(* deleted and broken off in between, but for those whose end was deleted   *)
(* between the reads and the commit of the request that inserts them.       *)
THEOREM MembershipsHaveEnds == Spec => []LinksHaveEnds
<1>1. MemberInv => LinksHaveEnds
  BY DEF MemberInv
<1> QED
  BY <1>1, Invariant, PTL

-----------------------------------------------------------------------------
(* What saves have asked for is kept, and shown.                            *)

(* Every change asked for is still to be made, or made: who was to become a *)
(* member has no row yet, or is one; who was to be no member is none, or    *)
(* waits for a reversal.                                                    *)
IsKept(o) ==
  /\ \A p \in o.in : p \in o.add \cup o.read \/ p[2] \notin users \/ p \in links
  /\ \A p \in o.out : p \in o.remove \/ p \notin links \/ p \in pushed

(* The same in the tables after a step.                                     *)
IsKeptNext(o) ==
  /\ \A p \in o.in : p \in o.add \cup o.read \/ p[2] \notin users' \/ p \in links'
  /\ \A p \in o.out : p \in o.remove \/ p \notin links' \/ p \in pushed'

(* No save undoes with one request what it asked for with another; only     *)
(* edits and new groups ask for members, and a save that was answered well  *)
(* has no request left.                                                     *)
IsClear(o) ==
  /\ o.in \cap o.remove = {} /\ o.out \cap (o.add \cup o.read) = {}
  /\ o.op = "create" => o.read \subseteq PairsOf(o.of) /\ o.out = {}
  /\ o.op = "create" /\ o.at = "sent" => o.read = {}
  /\ o.op = "create" /\ o.of \in Users => o.in = {}
  /\ o.op = "delete" => o.in = {} /\ o.out = {}
  /\ o.phase = "saved" => /\ o.add = {} /\ o.read = {} /\ o.remove = {}
                          /\ o.op = "edit"

DialogIsOwn == dialog.kind = "create" /\ tab = "groups" => dialog.of \in Groups

SavesAreKept == \A s \in Saves : IsKept(saves[s]) /\ IsClear(saves[s])

KeptInv == MemberInv /\ DialogIsOwn /\ SavesAreKept

(* Outside of P no end appears, no association changes, and what was pushed *)
(* stays so.                                                                *)
ChangesOnly(P) ==
  /\ pushed \ P \subseteq pushed'
  /\ \A p \in Pairs \ P : /\ p \in links' <=> p \in links
                          /\ p[1] \in groups' => p[1] \in groups
                          /\ p[2] \in users' => p[2] \in users

(* Save t counts on no more than before, and on nothing of P.               *)
CountsOnLess(t, P) ==
  /\ saves'[t].phase = saves[t].phase /\ saves'[t].at = saves[t].at
  /\ saves'[t].op = saves[t].op /\ saves'[t].of = saves[t].of
  /\ saves'[t].add = saves[t].add /\ saves'[t].read = saves[t].read
  /\ saves'[t].remove = saves[t].remove
  /\ saves'[t].in = saves[t].in \ P /\ saves'[t].out = saves[t].out \ P

(* A step of save s, which changes nothing but P in the tables and tells    *)
(* the other saves so.                                                      *)
StepOf(s, local, P) ==
  \/ Changes(s, local) /\ ChangesOnly({})
  \/ Becomes(s, local, P) /\ ChangesOnly(P)

(* A save under which P is changed no longer counts on P.                   *)
LEMMA TouchedLess ==
  ASSUME NEW P, saves \in [Saves -> Save], NEW t \in Saves,
         saves'[t] = Touched(P)[t]
  PROVE  CountsOnLess(t, P)
<1> DEFINE o == saves[t]
<1> DEFINE n == [o EXCEPT !.in = @ \ P, !.out = @ \ P]
<1>1. o \in Save
  OBVIOUS
<1>2. saves'[t] = n
  BY DEF Touched
<1> HIDE DEF o
<1>3. n = [o EXCEPT !.in = o.in \ P, !.out = o.out \ P]
  BY <1>1 DEF Save
<1>4. /\ n.phase = o.phase /\ n.at = o.at
      /\ n.op = o.op /\ n.of = o.of /\ n.add = o.add
      /\ n.read = o.read /\ n.remove = o.remove
      /\ n.in = o.in \ P /\ n.out = o.out \ P
  BY <1>1, <1>3 DEF Save
<1> QED
  BY <1>2, <1>4 DEF CountsOnLess, o

(* A step of one save leaves the others counting on what it did not change. *)
LEMMA OthersCount ==
  ASSUME saves \in [Saves -> Save], NEW s \in Saves, NEW local, NEW P,
         StepOf(s, local, P)
  PROVE  /\ saves'[s] = local
         /\ \E Q : /\ ChangesOnly(Q)
                   /\ \A t \in Saves \ {s} : CountsOnLess(t, Q)
<1>1. CASE Changes(s, local) /\ ChangesOnly({})
  <2>1. saves'[s] = local /\ \A t \in Saves \ {s} : saves'[t] = saves[t]
    BY <1>1 DEF Changes
  <2>2. \A t \in Saves \ {s} : CountsOnLess(t, {})
    BY <2>1 DEF CountsOnLess
  <2> QED
    BY <1>1, <2>1, <2>2
<1>2. CASE Becomes(s, local, P) /\ ChangesOnly(P)
  <2>1. Touched(P) = [t \in Saves |-> Touched(P)[t]]
    BY DEF Touched
  <2>2. /\ saves'[s] = local
        /\ \A t \in Saves \ {s} : saves'[t] = Touched(P)[t]
    BY <1>2, <2>1 DEF Becomes
  <2>3. \A t \in Saves \ {s} : CountsOnLess(t, P)
    BY <2>2, TouchedLess
  <2> QED
    BY <1>2, <2>2, <2>3
<1> QED
  BY <1>1, <1>2 DEF StepOf

(* A save nobody interferes with keeps what it has.                         *)
LEMMA KeptStays ==
  ASSUME KeptInv, NEW Q, ChangesOnly(Q), NEW t \in Saves, CountsOnLess(t, Q)
  PROVE  IsKeptNext(saves'[t]) /\ IsClear(saves'[t])
<1> DEFINE o == saves[t]
           n == saves'[t]
<1>1. IsKept(o) /\ IsClear(o) /\ o.in \subseteq Pairs /\ o.out \subseteq Pairs
  BY Parts DEF KeptInv, SavesAreKept, Save
<1>2. /\ n.phase = o.phase /\ n.at = o.at
      /\ n.op = o.op /\ n.of = o.of /\ n.add = o.add
      /\ n.read = o.read /\ n.remove = o.remove
      /\ n.in = o.in \ Q /\ n.out = o.out \ Q
  BY DEF CountsOnLess
<1> HIDE DEF o, n
<1>3. IsKeptNext(n)
  BY <1>1, <1>2 DEF IsKept, IsKeptNext, ChangesOnly
<1>4. IsClear(n)
  BY <1>1, <1>2 DEF IsClear
<1> QED
  BY <1>3, <1>4 DEF n

(* A step that leaves the tables alone changes no pair.                     *)
LEMMA CalmChanges ==
  ASSUME UNCHANGED tables
  PROVE  ChangesOnly({})
  BY DEF ChangesOnly, tables

(* A save that failed counts on nothing.                                    *)
LEMMA FailedIsKept ==
  ASSUME NEW o
  PROVE  IsKeptNext(Failed(o)) /\ IsClear(Failed(o)) /\ Failed(o).phase = "failed"
  BY DEF Failed, FreeSave, IsKeptNext, IsClear

(* What a step of the service makes of save s.                              *)
ServedWell(s) ==
  \E local, P : /\ StepOf(s, local, P)
                /\ IsKeptNext(local) /\ IsClear(local) /\ local.phase # "saved"

(* What is asked of the service: a save that has a request left is not      *)
(* saved, and all it asks for are pairs.                                    *)
LEMMA SaveFacts ==
  ASSUME KeptInv, NEW s \in Saves
  PROVE  /\ saves[s] \in Save /\ IsApt(saves[s]) /\ IsKept(saves[s]) /\ IsClear(saves[s])
         /\ saves[s].add \subseteq Pairs /\ saves[s].read \subseteq Pairs
         /\ saves[s].remove \subseteq Pairs /\ saves[s].in \subseteq Pairs
         /\ saves[s].out \subseteq Pairs
         /\ saves[s].phase = "saved" => /\ saves[s].add = {} /\ saves[s].read = {}
                                        /\ saves[s].remove = {} /\ saves[s].op = "edit"
  BY Parts DEF KeptInv, SavesAreKept, Save, IsClear

(* Serving a request keeps what saves asked for: the reads of an addition   *)
(* ...                                                                      *)
LEMMA ReadingKeeps ==
  ASSUME KeptInv, NEW s \in Saves, NEW g \in Groups, AddReads(s, g)
  PROVE  ServedWell(s)
<1> DEFINE o     == saves[s]
           asked == o.add \cap PairsOf(g)
           new   == {p \in asked \ links : p[2] \in users}
           found == [o EXCEPT !.add = o.add \ asked, !.read = o.read \cup new]
           on    == [o EXCEPT !.add = o.add \ asked]
<1>1. /\ o \in Save /\ IsKept(o) /\ IsClear(o) /\ o.op = "edit" /\ asked # {}
      /\ o.phase # "saved" /\ o.in \subseteq Pairs /\ o.out \subseteq Pairs
  BY SaveFacts DEF AddReads
<1>2. /\ UNCHANGED tables
      /\ Changes(s, IF g \in groups THEN found ELSE Failed(on))
  BY <1>1 DEF AddReads, Save
<1>3. ChangesOnly({}) /\ users' = users /\ links' = links /\ pushed' = pushed
  BY <1>2, CalmChanges DEF tables
<1>5. \A p \in asked : p \in new \/ p[2] \notin users \/ p \in links
  OBVIOUS
<1>6. new \subseteq asked /\ asked \subseteq o.add
  OBVIOUS
<1> HIDE DEF asked, new
<1>7. /\ found.at = o.at /\ found.phase = o.phase
      /\ found.op = o.op /\ found.of = o.of
      /\ found.add = o.add \ asked /\ found.read = o.read \cup new
      /\ found.remove = o.remove /\ found.in = o.in /\ found.out = o.out
  BY <1>1 DEF Save
<1> HIDE DEF o, found, on
<1>8. IsKeptNext(found)
  BY <1>1, <1>3, <1>5, <1>7 DEF IsKept, IsKeptNext
<1>9. IsClear(found) /\ found.phase # "saved"
  BY <1>1, <1>6, <1>7 DEF IsClear
<1>10. PICK local : /\ Changes(s, local) /\ IsKeptNext(local) /\ IsClear(local)
                    /\ local.phase # "saved"
  BY <1>2, <1>8, <1>9, FailedIsKept
<1> QED
  BY <1>3, <1>10 DEF ServedWell, StepOf

(* ... its commit ...                                                       *)
LEMMA AddingKeeps ==
  ASSUME KeptInv, NEW s \in Saves, NEW g \in Groups, AddCommits(s, g)
  PROVE  ServedWell(s)
<1> DEFINE o   == saves[s]
           new == o.read \cap PairsOf(g)
           on  == [o EXCEPT !.read = o.read \ new]
<1>1. /\ o \in Save /\ IsKept(o) /\ IsClear(o) /\ o.op = "edit" /\ new # {}
      /\ o.phase # "saved" /\ o.in \subseteq Pairs /\ o.out \subseteq Pairs
  BY SaveFacts DEF AddCommits
<1>2. /\ UNCHANGED <<groups, users, pushed>>
      /\ \/ Changes(s, Failed(on)) /\ links' = links
         \/ /\ Becomes(s, IF g \in groups THEN on ELSE Failed(on), new)
            /\ links' = links \cup new
  BY <1>1 DEF AddCommits, Save
<1>3. new \subseteq o.read
  OBVIOUS
<1> HIDE DEF new
<1>4. /\ on.at = o.at /\ on.phase = o.phase
      /\ on.op = o.op /\ on.of = o.of /\ on.add = o.add
      /\ on.read = o.read \ new
      /\ on.remove = o.remove /\ on.in = o.in /\ on.out = o.out
  BY <1>1 DEF Save
<1> HIDE DEF o, on
<1>5. CASE Changes(s, Failed(on)) /\ links' = links
  <2>1. ChangesOnly({})
    BY <1>2, <1>5 DEF ChangesOnly
  <2> QED
    BY <1>5, <2>1, FailedIsKept DEF ServedWell, StepOf
<1>6. CASE /\ Becomes(s, IF g \in groups THEN on ELSE Failed(on), new)
           /\ links' = links \cup new
  <2>1. ChangesOnly(new)
    BY <1>2, <1>6 DEF ChangesOnly
  <2>2. IsKeptNext(on)
    BY <1>1, <1>2, <1>3, <1>4, <1>6 DEF IsKept, IsKeptNext, IsClear
  <2>3. IsClear(on) /\ on.phase # "saved"
    BY <1>1, <1>4 DEF IsClear
  <2>4. PICK local : /\ Becomes(s, local, new) /\ IsKeptNext(local) /\ IsClear(local)
                     /\ local.phase # "saved"
    BY <1>6, <2>2, <2>3, FailedIsKept
  <2> QED
    BY <2>1, <2>4 DEF ServedWell, StepOf
<1> QED
  BY <1>2, <1>5, <1>6

(* ... a removal, or the mark that stands for one ...                       *)
LEMMA RemovingKeeps ==
  ASSUME KeptInv, NEW s \in Saves, NEW p \in Pairs, RemoveMember(s, p)
  PROVE  ServedWell(s)
<1> DEFINE o  == saves[s]
           on == [o EXCEPT !.remove = o.remove \ {p}]
<1>1. /\ o \in Save /\ IsKept(o) /\ IsClear(o) /\ o.op = "edit" /\ p \in o.remove
      /\ o.phase # "saved" /\ o.in \subseteq Pairs /\ o.out \subseteq Pairs
  BY SaveFacts DEF RemoveMember
<1>2. /\ UNCHANGED <<groups, users, pushed>>
      /\ \/ p \in pushed /\ Changes(s, on) /\ links' = links
         \/ Becomes(s, on, {p}) /\ links' = links \ {p}
         \/ Changes(s, Failed(on)) /\ links' = links
  BY <1>1 DEF RemoveMember, Save
<1>3. /\ on.at = o.at /\ on.phase = o.phase
      /\ on.op = o.op /\ on.of = o.of /\ on.add = o.add
      /\ on.read = o.read /\ on.remove = o.remove \ {p}
      /\ on.in = o.in /\ on.out = o.out
  BY <1>1 DEF Save
<1> HIDE DEF o, on
<1>4. IsClear(on) /\ on.phase # "saved"
  BY <1>1, <1>3 DEF IsClear
<1>5. CASE p \in pushed /\ Changes(s, on) /\ links' = links
  <2>1. ChangesOnly({})
    BY <1>2, <1>5 DEF ChangesOnly
  <2>2. IsKeptNext(on)
    BY <1>1, <1>2, <1>3, <1>5 DEF IsKept, IsKeptNext
  <2> QED
    BY <1>4, <1>5, <2>1, <2>2 DEF ServedWell, StepOf
<1>6. CASE Becomes(s, on, {p}) /\ links' = links \ {p}
  <2>1. ChangesOnly({p})
    BY <1>2, <1>6 DEF ChangesOnly
  <2>2. p \notin o.in
    BY <1>1 DEF IsClear
  <2>3. IsKeptNext(on)
    BY <1>1, <1>2, <1>3, <1>6, <2>2 DEF IsKept, IsKeptNext
  <2> QED
    BY <1>4, <1>6, <2>1, <2>3 DEF ServedWell, StepOf
<1>7. CASE Changes(s, Failed(on)) /\ links' = links
  <2>1. ChangesOnly({})
    BY <1>2, <1>7 DEF ChangesOnly
  <2> QED
    BY <1>7, <2>1, FailedIsKept DEF ServedWell, StepOf
<1> QED
  BY <1>2, <1>5, <1>6, <1>7

(* ... the reads of a creation ...                                          *)
LEMMA CreateReadingKeeps ==
  ASSUME KeptInv, NEW s \in Saves, CreateReads(s)
  PROVE  ServedWell(s)
<1> DEFINE o    == saves[s]
           seen == {p \in o.add : p[2] \in users}
           on   == [o EXCEPT !.at = "read", !.add = {}, !.read = seen]
<1>1. /\ o \in Save /\ IsApt(o) /\ IsKept(o) /\ IsClear(o)
      /\ o.op = "create" /\ o.of \in Groups /\ o.at = "sent" /\ o.phase # "saved"
  BY SaveFacts DEF CreateReads
<1>2. UNCHANGED tables /\ Changes(s, on)
  BY DEF CreateReads
<1>3. ChangesOnly({}) /\ users' = users /\ links' = links /\ pushed' = pushed
  BY <1>2, CalmChanges DEF tables
<1>4. /\ seen \subseteq o.add
      /\ \A p \in o.add : p \in seen \/ p[2] \notin users
  OBVIOUS
<1> HIDE DEF seen
<1>5. /\ on.at = "read" /\ on.phase = o.phase
      /\ on.op = o.op /\ on.of = o.of /\ on.add = {}
      /\ on.read = seen
      /\ on.remove = o.remove /\ on.in = o.in /\ on.out = o.out
  BY <1>1 DEF Save
<1> HIDE DEF o, on
<1>6. IsKeptNext(on)
  BY <1>1, <1>3, <1>4, <1>5 DEF IsKept, IsKeptNext, IsClear
<1>7. IsClear(on) /\ on.phase # "saved"
  BY <1>1, <1>4, <1>5 DEF IsClear, IsApt
<1> QED
  BY <1>2, <1>3, <1>6, <1>7 DEF ServedWell, StepOf

(* ... its commit ...                                                       *)
LEMMA CreateCommittingKeeps ==
  ASSUME KeptInv, NEW s \in Saves, CreateCommits(s)
  PROVE  ServedWell(s)
<1> DEFINE o  == saves[s]
           on == [o EXCEPT !.at = "done", !.read = {}]
<1>1. /\ o \in Save /\ IsKept(o) /\ IsClear(o) /\ o.op = "create" /\ o.of \in Groups
      /\ o.phase # "saved" /\ o.read \subseteq PairsOf(o.of)
  BY SaveFacts DEF CreateCommits, IsClear
<1>2. /\ UNCHANGED <<users, pushed>>
      /\ \/ Changes(s, Failed(on)) /\ groups' = groups /\ links' = links
         \/ /\ Becomes(s, on, PairsOf(o.of))
            /\ groups' = groups \cup {o.of}
            /\ links' = links \cup o.read
  BY DEF CreateCommits
<1>3. \A p \in Pairs \ PairsOf(o.of) : p[1] # o.of
  BY DEF PairsOf
<1>4. /\ on.at = "done" /\ on.phase = o.phase
      /\ on.op = o.op /\ on.of = o.of /\ on.add = o.add
      /\ on.read = {} /\ on.remove = o.remove /\ on.in = o.in /\ on.out = o.out
  BY <1>1 DEF Save
<1> HIDE DEF o, on
<1>5. CASE Changes(s, Failed(on)) /\ groups' = groups /\ links' = links
  <2>1. ChangesOnly({})
    BY <1>2, <1>5 DEF ChangesOnly
  <2> QED
    BY <1>5, <2>1, FailedIsKept DEF ServedWell, StepOf
<1>6. CASE /\ Becomes(s, on, PairsOf(o.of))
           /\ groups' = groups \cup {o.of}
           /\ links' = links \cup o.read
  <2>1. ChangesOnly(PairsOf(o.of))
    BY <1>1, <1>2, <1>3, <1>6 DEF ChangesOnly
  <2>2. IsKeptNext(on)
    BY <1>1, <1>2, <1>4, <1>6 DEF IsKept, IsKeptNext, IsClear
  <2>3. IsClear(on) /\ on.phase # "saved"
    BY <1>1, <1>4 DEF IsClear
  <2> QED
    BY <1>6, <2>1, <2>2, <2>3 DEF ServedWell, StepOf
<1> QED
  BY <1>2, <1>5, <1>6

(* Who enters or goes changes no pair but its own.                          *)
LEMMA EntersOnly ==
  ASSUME NEW x, Enters(x)
  PROVE  ChangesOnly(PairsOf(x))
  BY DEF Enters, ChangesOnly, PairsOf

(* What goes takes its own associations along, and no others.               *)
LEMMA GoesOnly ==
  ASSUME NEW x, Goes(x)
  PROVE  ChangesOnly(PairsOf(x))
  BY DEF Goes, ChangesOnly

(* ... the creation of an account, which has no associations yet ...        *)
LEMMA AdoptingKeeps ==
  ASSUME KeptInv, NEW s \in Saves, AddUser(s)
  PROVE  ServedWell(s)
<1> DEFINE o  == saves[s]
           on == [o EXCEPT !.at = "done"]
<1>1. /\ o \in Save /\ IsClear(o) /\ o.op = "create" /\ o.phase # "saved"
      /\ Enters(o.of) /\ o.of \in Users /\ Becomes(s, on, PairsOf(o.of))
  BY SaveFacts DEF AddUser
<1>2. /\ on.at = "done" /\ on.phase = o.phase
      /\ on.op = o.op /\ on.of = o.of /\ on.add = o.add
      /\ on.read = o.read /\ on.remove = o.remove /\ on.in = o.in /\ on.out = o.out
  BY <1>1 DEF Save
<1> HIDE DEF o, on
<1>3. IsClear(on) /\ on.phase # "saved"
  BY <1>1, <1>2 DEF IsClear
<1>4. IsKeptNext(on)
  BY <1>1, <1>2 DEF IsKeptNext, IsClear
<1> QED
  BY <1>1, <1>3, <1>4, EntersOnly DEF ServedWell, StepOf

(* ... a deletion ...                                                       *)
LEMMA DeletingKeeps ==
  ASSUME KeptInv, NEW s \in Saves, ServeDelete(s)
  PROVE  ServedWell(s)
<1> DEFINE o  == saves[s]
           on == [o EXCEPT !.at = "done"]
<1>1. /\ o \in Save /\ IsClear(o) /\ o.op = "delete" /\ o.phase # "saved"
      /\ \/ Goes(o.of) /\ Becomes(s, on, PairsOf(o.of))
         \/ /\ Changes(s, IF o.of \in groups \cup users THEN on ELSE Failed(on))
            /\ UNCHANGED tables
  BY SaveFacts DEF ServeDelete
<1>2. /\ on.at = "done" /\ on.phase = o.phase
      /\ on.op = o.op /\ on.of = o.of /\ on.add = o.add
      /\ on.read = o.read /\ on.remove = o.remove /\ on.in = o.in /\ on.out = o.out
  BY <1>1 DEF Save
<1> HIDE DEF o, on
<1>3. IsClear(on) /\ on.phase # "saved"
  BY <1>1, <1>2 DEF IsClear
<1>4. IsKeptNext(on)
  BY <1>1, <1>2 DEF IsKeptNext, IsClear
<1>5. CASE Goes(o.of) /\ Becomes(s, on, PairsOf(o.of))
  BY <1>3, <1>4, <1>5, GoesOnly DEF ServedWell, StepOf
<1>6. CASE /\ Changes(s, IF o.of \in groups \cup users THEN on ELSE Failed(on))
           /\ UNCHANGED tables
  <2>1. PICK local : /\ Changes(s, local) /\ IsKeptNext(local) /\ IsClear(local)
                     /\ local.phase # "saved"
    BY <1>3, <1>4, <1>6, FailedIsKept
  <2> QED
    BY <1>6, <2>1, CalmChanges DEF ServedWell, StepOf
<1> QED
  BY <1>1, <1>5, <1>6

(* ... and so each of them, which also leaves the screen alone.             *)
LEMMA ServingKeeps ==
  ASSUME KeptInv, NEW s \in Saves, Serve(s)
  PROVE  ServedWell(s) /\ UNCHANGED screen
<1>1. ServedWell(s)
  BY ReadingKeeps, AddingKeeps, RemovingKeeps, CreateReadingKeeps,
     CreateCommittingKeeps, AdoptingKeeps, DeletingKeeps DEF Serve
<1>2. UNCHANGED screen
  BY DEF Serve, AddReads, AddCommits, RemoveMember, CreateReads, CreateCommits,
         AddUser, ServeDelete
<1> QED
  BY <1>1, <1>2

-----------------------------------------------------------------------------
(* The other steps, and the invariant.                                      *)

(* When one save goes on and what it asked for is kept, so is what the      *)
(* others asked for.                                                        *)
LEMMA OneKeeps ==
  ASSUME KeptInv, NEW s \in Saves, NEW local, NEW P, StepOf(s, local, P),
         IsKeptNext(local), IsClear(local)
  PROVE  SavesAreKept'
<1>1. saves \in [Saves -> Save]
  BY Parts DEF KeptInv
<1>2. PICK Q : /\ ChangesOnly(Q)
               /\ \A t \in Saves \ {s} : CountsOnLess(t, Q)
  BY <1>1, OthersCount
<1>3. \A t \in Saves : IsKeptNext(saves'[t]) /\ IsClear(saves'[t])
  BY <1>1, <1>2, OthersCount, KeptStays
<1> QED
  BY <1>3 DEF SavesAreKept, IsKept, IsKeptNext, IsClear, PairsOf

(* What is sent is still to be made, and asks for no pair twice.            *)
LEMMA SendingKeeps ==
  ASSUME KeptInv, NEW s \in Saves, Send(s)
  PROVE  /\ UNCHANGED <<tables, screen>>
         /\ \E local : /\ Changes(s, local) /\ IsKeptNext(local) /\ IsClear(local)
                       /\ local.phase # "saved"
<1>1. UNCHANGED <<tables, screen>>
  BY DEF Send, SaveMembers, SaveGroups, CreateGroup, CreateUser, DeleteGroup, DeleteUser
<1>2. ASSUME NEW op, NEW add, NEW remove, add \cap remove = {}
      PROVE  LET o == Sent(op, add, remove)
             IN  /\ o.phase = "running" /\ o.op = op /\ o.of = dialog.of /\ o.add = add
                 /\ o.read = {} /\ o.remove = remove /\ o.in = add /\ o.out = remove
                 /\ IsKeptNext(o)
  BY <1>2 DEF Sent, FreeSave, IsKeptNext
<1>3. CASE SaveMembers(s)
  <2> DEFINE o == Sent("edit", dialog.ticks \ dialog.before, dialog.before \ dialog.ticks)
  <2>1. (dialog.ticks \ dialog.before) \cap (dialog.before \ dialog.ticks) = {}
    OBVIOUS
  <2>2. /\ o.phase = "running" /\ o.op = "edit" /\ IsKeptNext(o)
        /\ o.add = o.in /\ o.read = {} /\ o.remove = o.out /\ o.in \cap o.out = {}
    BY <1>2, <2>1
  <2>3. Changes(s, o)
    BY <1>3 DEF SaveMembers
  <2> HIDE DEF o
  <2>4. IsClear(o)
    BY <2>2 DEF IsClear
  <2> QED
    BY <1>1, <2>2, <2>3, <2>4
<1>4. CASE SaveGroups(s)
  <2> DEFINE now == list.links \cap PairsOf(dialog.of)
             o   == Sent("edit", dialog.ticks \ now, now \ dialog.ticks)
  <2>1. (dialog.ticks \ now) \cap (now \ dialog.ticks) = {}
    OBVIOUS
  <2>2. /\ o.phase = "running" /\ o.op = "edit" /\ IsKeptNext(o)
        /\ o.add = o.in /\ o.read = {} /\ o.remove = o.out /\ o.in \cap o.out = {}
    BY <1>2, <2>1
  <2>3. Changes(s, o)
    BY <1>4 DEF SaveGroups
  <2> HIDE DEF o
  <2>4. IsClear(o)
    BY <2>2 DEF IsClear
  <2> QED
    BY <1>1, <2>2, <2>3, <2>4
<1>5. CASE CreateGroup(s)
  <2> DEFINE o == Sent("create", dialog.ticks, {})
  <2>1. /\ o.phase = "running" /\ o.op = "create" /\ IsKeptNext(o) /\ o.of = dialog.of
        /\ o.add = o.in /\ o.read = {} /\ o.remove = {} /\ o.out = {}
    BY <1>2
  <2>2. Changes(s, o) /\ dialog.of \in Groups
    BY <1>5 DEF CreateGroup, CanSend, KeptInv, DialogIsOwn
  <2> HIDE DEF o
  <2>3. IsClear(o)
    BY <2>1, <2>2, MemberAssumption DEF IsClear
  <2> QED
    BY <1>1, <2>1, <2>2, <2>3
<1>6. ASSUME NEW op \in {"create", "delete"}, Changes(s, Sent(op, {}, {}))
      PROVE  \E local : /\ Changes(s, local) /\ IsKeptNext(local) /\ IsClear(local)
                        /\ local.phase # "saved"
  <2> DEFINE o == Sent(op, {}, {})
  <2>1. /\ o.phase = "running" /\ o.op = op /\ IsKeptNext(o)
        /\ o.add = {} /\ o.read = {} /\ o.remove = {} /\ o.in = {} /\ o.out = {}
    BY <1>2
  <2> HIDE DEF o
  <2>2. IsClear(o)
    BY <2>1 DEF IsClear
  <2> QED
    BY <1>6, <2>1, <2>2 DEF o
<1>7. CASE CreateUser(s) \/ DeleteGroup(s) \/ DeleteUser(s)
  BY <1>1, <1>6, <1>7 DEF CreateUser, DeleteGroup, DeleteUser
<1> QED
  BY <1>3, <1>4, <1>5, <1>7 DEF Send

(* A save that is answered well keeps what it asked for.                    *)
LEMMA SettlingKeeps ==
  ASSUME KeptInv, NEW s \in Saves, Settles(s)
  PROVE  LET o == saves[s]
             n == Saved(o)
         IN  /\ UNCHANGED <<tables, tab>> /\ Changes(s, n)
             /\ dialog' \in {NoDialog, dialog}
             /\ IsKeptNext(n) /\ IsClear(n) /\ n.in = o.in /\ n.out = o.out
<1> DEFINE o == saves[s]
           n == Saved(o)
<1>1. /\ o \in Save /\ IsKept(o) /\ IsClear(o)
      /\ o.add = {} /\ o.read = {} /\ o.remove = {}
      /\ UNCHANGED <<tables, tab>> /\ Changes(s, n) /\ dialog' \in {NoDialog, dialog}
  BY SaveFacts DEF Settles, Served
<1>2. /\ n.phase = "saved" /\ n.op = "edit" /\ n.add = {} /\ n.read = {}
      /\ n.remove = {} /\ n.in = o.in /\ n.out = o.out
  BY DEF Saved, FreeSave
<1>3. links' = links /\ users' = users /\ pushed' = pushed
  BY <1>1 DEF tables
<1> HIDE DEF o, n
<1>4. IsKeptNext(n) /\ IsClear(n)
  BY <1>1, <1>2, <1>3 DEF IsKept, IsKeptNext, IsClear
<1> QED
  BY <1>1, <1>2, <1>4 DEF o, n

(* The tabs only change who waits for a save.                               *)
LEMMA BrowsingKeeps ==
  ASSUME KeptInv, Browse
  PROVE  /\ UNCHANGED tables /\ DialogIsOwn'
         /\ \A t \in Saves : CountsOnLess(t, {})
<1>1. /\ UNCHANGED tables
      /\ \/ saves' = saves
         \/ saves' = [s \in Saves |-> [saves[s] EXCEPT !.from = "elsewhere"]]
  BY DEF Browse, ShowTab, Refetch, ListArrives, OpenGroupEdit, OpenNewGroup,
         OpenGroupDeletion, OpenUserEdit, OpenNewUser, OpenUserDeletion, Opens,
         CloseDialog, ToggleMember, ToggleNewMember, ToggleGroup, Toggle
<1>2. \A t \in Saves : CountsOnLess(t, {})
  <2>1. CASE saves' = saves
    BY <2>1 DEF CountsOnLess
  <2>2. CASE saves' = [s \in Saves |-> [saves[s] EXCEPT !.from = "elsewhere"]]
    <3> SUFFICES ASSUME NEW t \in Saves PROVE CountsOnLess(t, {})
      OBVIOUS
    <3> DEFINE o == saves[t]
               n == [o EXCEPT !.from = "elsewhere"]
    <3>1. o \in Save /\ saves'[t] = n
      BY <2>2, SaveFacts
    <3> HIDE DEF o
    <3>2. /\ n.phase = o.phase /\ n.at = o.at /\ n.op = o.op /\ n.of = o.of
          /\ n.add = o.add /\ n.read = o.read /\ n.remove = o.remove
          /\ n.in = o.in /\ n.out = o.out
      BY <3>1 DEF Save
    <3> QED
      BY <3>1, <3>2 DEF CountsOnLess, o
  <2> QED
    BY <1>1, <2>1, <2>2
<1>3. DialogIsOwn /\ dialog \in Dialog
  BY Parts DEF KeptInv, ScreenTypes
<1>4. ASSUME \/ \E t \in {"groups", "users"} : ShowTab(t)
             \/ Refetch \/ ListArrives \/ CloseDialog
      PROVE  DialogIsOwn'
  BY <1>3, <1>4, PairFacts DEF ShowTab, Refetch, ListArrives, CloseDialog, DialogIsOwn
<1>5. ASSUME NEW g \in Groups,
             OpenGroupEdit(g) \/ OpenNewGroup(g) \/ OpenGroupDeletion(g)
      PROVE  DialogIsOwn'
  <2>1. ASSUME NEW k, Opens(k, g) PROVE dialog'.of = g
    BY <2>1 DEF Opens, NoDialog
  <2>2. OpenGroupEdit(g) => dialog'.of = g
    BY DEF OpenGroupEdit
  <2>3. dialog'.of = g
    BY <1>5, <2>1, <2>2 DEF OpenNewGroup, OpenGroupDeletion
  <2> QED
    BY <2>3 DEF DialogIsOwn
<1>6. ASSUME NEW u \in Users,
             OpenUserEdit(u) \/ OpenNewUser(u) \/ OpenUserDeletion(u)
      PROVE  DialogIsOwn'
  BY <1>6 DEF OpenUserEdit, OpenNewUser, OpenUserDeletion, Opens, DialogIsOwn
<1>7. ASSUME NEW p \in Pairs, Toggle(p)
      PROVE  DialogIsOwn'
  <2>1. dialog'.kind = dialog.kind /\ dialog'.of = dialog.of /\ tab' = tab
    BY <1>3, <1>7 DEF Toggle, Dialog
  <2> QED
    BY <1>3, <2>1 DEF DialogIsOwn
<1> QED
  BY <1>1, <1>2, <1>4, <1>5, <1>6, <1>7
  DEF Browse, ToggleMember, ToggleNewMember, ToggleGroup

(* A save whose requests break off counts on nothing.                       *)
LEMMA BreakingKeeps ==
  ASSUME KeptInv, BreakOff
  PROVE  /\ UNCHANGED <<tables, screen>>
         /\ \A t \in Saves :
              \/ CountsOnLess(t, {})
              \/ /\ IsKeptNext(saves'[t]) /\ IsClear(saves'[t])
                 /\ saves'[t].phase # "saved"
<1> SUFFICES ASSUME NEW t \in Saves
             PROVE  \/ CountsOnLess(t, {})
                    \/ /\ IsKeptNext(saves'[t]) /\ IsClear(saves'[t])
                       /\ saves'[t].phase # "saved"
  BY DEF BreakOff
<1>1. CASE Served(t)
  BY <1>1 DEF BreakOff, CountsOnLess
<1>2. CASE ~Served(t)
  <2>1. \E o : saves'[t] = Failed(o)
    BY <1>2 DEF BreakOff
  <2> QED
    BY <2>1, FailedIsKept
<1> QED
  BY <1>1, <1>2

(* What the other clients touch, no save counts on.                         *)
LEMMA OthersKeep ==
  ASSUME KeptInv, Others
  PROVE  /\ UNCHANGED screen
         /\ \E Q : ChangesOnly(Q) /\ \A t \in Saves : CountsOnLess(t, Q)
<1>1. saves \in [Saves -> Save] /\ UNCHANGED screen
  BY Parts DEF KeptInv, Others
<1>2. ASSUME NEW Q, ChangesOnly(Q), saves' = Touched(Q)
      PROVE  \E R : ChangesOnly(R) /\ \A t \in Saves : CountsOnLess(t, R)
  BY <1>1, <1>2, TouchedLess
<1>3. ASSUME NEW x \in Groups \cup Users, Enters(x) \/ Goes(x),
             saves' = Touched(PairsOf(x))
      PROVE  \E R : ChangesOnly(R) /\ \A t \in Saves : CountsOnLess(t, R)
  BY <1>2, <1>3, EntersOnly, GoesOnly
<1>4. ASSUME NEW p \in Pairs,
             links' = IF p \in links THEN links \ {p} ELSE links \cup {p},
             saves' = Touched({p}), UNCHANGED <<groups, users, pushed>>
      PROVE  \E R : ChangesOnly(R) /\ \A t \in Saves : CountsOnLess(t, R)
  <2>1. ChangesOnly({p})
    BY <1>4 DEF ChangesOnly
  <2> QED
    BY <1>2, <1>4, <2>1
<1>5. ASSUME NEW P, pushed' = pushed \cup P, UNCHANGED <<groups, users, links, saves>>
      PROVE  \E R : ChangesOnly(R) /\ \A t \in Saves : CountsOnLess(t, R)
  <2>1. ChangesOnly({}) /\ \A t \in Saves : CountsOnLess(t, {})
    BY <1>5 DEF ChangesOnly, CountsOnLess
  <2> QED
    BY <2>1
<1> QED
  BY <1>1, <1>3, <1>4, <1>5 DEF Others

(* No save counts on a pair whose row is thrown away.                       *)
LEMMA DiscardKeeps ==
  ASSUME KeptInv, NEW p \in Pairs, DiscardRow(p)
  PROVE  /\ UNCHANGED screen
         /\ ChangesOnly({p}) /\ \A t \in Saves : CountsOnLess(t, {p})
<1>1. saves \in [Saves -> Save] /\ saves' = Touched({p}) /\ UNCHANGED screen
  BY Parts DEF KeptInv, DiscardRow
<1>2. ChangesOnly({p})
  BY DEF DiscardRow, ChangesOnly
<1> QED
  BY <1>1, <1>2, TouchedLess

(* Every step keeps what saves asked for ...                                *)
LEMMA KeptStep == KeptInv /\ [Next]_vars => DialogIsOwn' /\ SavesAreKept'
<1> SUFFICES ASSUME KeptInv, [Next]_vars PROVE DialogIsOwn' /\ SavesAreKept'
  OBVIOUS
<1>1. ASSUME UNCHANGED screen PROVE DialogIsOwn'
  BY <1>1 DEF KeptInv, DialogIsOwn, screen
<1>2. ASSUME \A t \in Saves : IsKeptNext(saves'[t]) /\ IsClear(saves'[t])
      PROVE  SavesAreKept'
  BY <1>2 DEF SavesAreKept, IsKept, IsKeptNext, IsClear, PairsOf
<1>3. ASSUME NEW Q, ChangesOnly(Q), \A t \in Saves : CountsOnLess(t, Q)
      PROVE  SavesAreKept'
  BY <1>2, <1>3, KeptStays
<1>4. CASE Browse
  BY <1>3, <1>4, BrowsingKeeps, CalmChanges
<1>5. ASSUME NEW s \in Saves, Send(s) PROVE DialogIsOwn' /\ SavesAreKept'
  BY <1>1, <1>5, SendingKeeps, OneKeeps, CalmChanges DEF StepOf
<1>6. ASSUME NEW s \in Saves, Serve(s) PROVE DialogIsOwn' /\ SavesAreKept'
  BY <1>1, <1>6, ServingKeeps, OneKeeps DEF ServedWell
<1>7. ASSUME NEW s \in Saves, Settle(s) PROVE DialogIsOwn' /\ SavesAreKept'
  <2>1. Settles(s)
    BY <1>7 DEF Settle
  <2>2. SavesAreKept'
    BY <2>1, SettlingKeeps, OneKeeps, CalmChanges DEF StepOf
  <2>3. DialogIsOwn'
    BY <2>1, SettlingKeeps, PairFacts DEF KeptInv, DialogIsOwn
  <2> QED
    BY <2>2, <2>3
<1>8. CASE BreakOff
  <2>1. ChangesOnly({}) /\ UNCHANGED screen
    BY <1>8, BreakingKeeps, CalmChanges
  <2>2. \A t \in Saves : IsKeptNext(saves'[t]) /\ IsClear(saves'[t])
    BY <1>8, <2>1, BreakingKeeps, KeptStays
  <2> QED
    BY <1>1, <1>2, <2>1, <2>2
<1>9. CASE Others
  BY <1>1, <1>3, <1>9, OthersKeep
<1>10. ASSUME NEW p \in Pairs, DiscardRow(p) PROVE DialogIsOwn' /\ SavesAreKept'
  BY <1>1, <1>3, <1>10, DiscardKeeps
<1>11. CASE UNCHANGED vars
  BY <1>11 DEF vars, tables, screen, KeptInv, DialogIsOwn, SavesAreKept, IsKept,
               IsClear, PairsOf
<1> QED
  BY <1>4, <1>5, <1>6, <1>7, <1>8, <1>9, <1>10, <1>11 DEF Next

(* ... in every reachable state.                                            *)
LEMMA KeptHolds == Spec => []KeptInv
<1>1. Init => DialogIsOwn /\ SavesAreKept
  <2> SUFFICES ASSUME Init PROVE DialogIsOwn /\ SavesAreKept
    OBVIOUS
  <2>1. dialog.kind = "none"
    BY PairFacts DEF Init
  <2>2. \A s \in Saves : saves[s] = FreeSave
    BY DEF Init
  <2>3. IsKept(FreeSave) /\ IsClear(FreeSave)
    BY DEF IsKept, IsClear, FreeSave
  <2> QED
    BY <2>1, <2>2, <2>3 DEF DialogIsOwn, SavesAreKept
<1> QED
  BY <1>1, KeptStep, Invariant, PTL DEF KeptInv, Spec

(* What a save that was answered well asked for is in the table, however    *)
(* many saves overlapped, failed or broke off, and whatever was done to     *)
(* other associations and their rows.                                       *)
THEOREM SavesAreStored == Spec => []SavedIsStored
<1>1. KeptInv => SavedIsStored
  <2> SUFFICES ASSUME KeptInv, NEW s \in Saves, saves[s].phase = "saved"
               PROVE  /\ \A p \in saves[s].in : HasEnds(p) => p \in links
                      /\ \A p \in saves[s].out : p \in links => p \in pushed
    BY DEF SavedIsStored
  <2> QED
    BY SaveFacts DEF IsKept, HasEnds
<1> QED
  BY <1>1, KeptHolds, PTL

-----------------------------------------------------------------------------
(* What the list shows of a save.                                           *)

(* List L shows what save o asked for.                                      *)
IsShown(L, o) ==
  /\ \A p \in o.in : HasEnds(p) /\ p[1] \in L.groups => p \in L.links
  /\ \A p \in o.out : p \in L.links => p \in pushed

(* The list as it will be when no fetch is under way.                       *)
Coming == IF fetch = NoList THEN list ELSE fetch

(* What is fetched shows every save that was answered by now, if it is not  *)
(* in the list already: what OwnSaveIsShown needs of a fetch under way.     *)
ShownInv == \A s \in Saves : saves[s].phase = "saved" => IsShown(Coming, saves[s])

(* A step that answers no save and leaves the list alone.                   *)
LEMMA ShownStays ==
  ASSUME KeptInv, ShownInv, UNCHANGED cache, NEW Q, ChangesOnly(Q),
         \A t \in Saves : CountsOnLess(t, Q) \/ saves'[t].phase # "saved"
  PROVE  ShownInv'
<1> SUFFICES ASSUME NEW t \in Saves, (saves[t].phase = "saved")'
             PROVE  IsShown(Coming, saves[t])'
  BY DEF ShownInv
<1> DEFINE o == saves[t]
           n == saves'[t]
<1>1. /\ IsShown(Coming, o) /\ o.in \subseteq Pairs /\ o.out \subseteq Pairs
      /\ n.in = o.in \ Q /\ n.out = o.out \ Q
  BY SaveFacts DEF CountsOnLess, ShownInv
<1>2. Coming' = Coming
  BY DEF Coming, cache
<1> HIDE DEF o, n, Coming
<1>3. /\ \A p \in n.in : (HasEnds(p))' /\ p[1] \in Coming.groups => p \in Coming.links
      /\ \A p \in n.out : p \in Coming.links => p \in pushed'
  BY <1>1 DEF IsShown, HasEnds, ChangesOnly
<1> QED
  BY <1>2, <1>3 DEF IsShown, HasEnds, n

(* A step that leaves the tables and what is saved alone, after which the   *)
(* list to come is as the tables are.                                       *)
LEMMA ListedIsShown ==
  ASSUME KeptInv, UNCHANGED tables, SavesAreKept', Coming'.links = Listed.links,
         NEW t \in Saves, (saves[t].phase = "saved")'
  PROVE  IsShown(Coming, saves[t])'
<1> DEFINE n == saves'[t]
<1>1. /\ n.add = {} /\ n.read = {} /\ n.remove = {}
      /\ \A p \in n.in : p \in n.add \cup n.read \/ p[2] \notin users' \/ p \in links'
      /\ \A p \in n.out : p \in n.remove \/ p \notin links' \/ p \in pushed'
  BY DEF SavesAreKept, IsKept, IsClear
<1>2. /\ groups' = groups /\ users' = users /\ links' = links /\ pushed' = pushed
  BY DEF tables
<1>3. Listed.links = {p \in links : HasEnds(p)}
  BY DEF Listed
<1> HIDE DEF n
<1>4. /\ \A p \in n.in : HasEnds(p) => p \in Listed.links
      /\ \A p \in n.out : p \in Listed.links => p \in pushed
  BY <1>1, <1>2, <1>3 DEF HasEnds
<1>5. \A p : (HasEnds(p))' = HasEnds(p)
  BY <1>2 DEF HasEnds
<1> QED
  BY <1>2, <1>4, <1>5 DEF IsShown, n

(* An answer with nothing in it is no answer only if there is nothing to    *)
(* list: then it makes no difference.                                       *)
LEMMA FetchedIsComing ==
  ASSUME TableTypes, fetch' = Listed
  PROVE  Coming'.links = Listed.links \/ Pairs = {}
<1>1. CASE Listed = NoList
  <2>1. groups = {} /\ {p \in links : HasEnds(p)} = Pairs
    BY <1>1 DEF Listed, NoList
  <2>2. Pairs = {}
    BY <2>1 DEF HasEnds
  <2> QED
    BY <2>2
<1>2. CASE Listed # NoList
  BY <1>2 DEF Coming
<1> QED
  BY <1>1, <1>2

(* A fetch begins, or a save is answered by one.                            *)
LEMMA FetchShows ==
  ASSUME KeptInv, KeptInv', UNCHANGED tables, fetch' = Listed
  PROVE  ShownInv'
<1> SUFFICES ASSUME NEW t \in Saves, (saves[t].phase = "saved")'
             PROVE  IsShown(Coming, saves[t])'
  BY DEF ShownInv
<1>1. CASE Coming'.links = Listed.links
  BY <1>1, ListedIsShown DEF KeptInv
<1>2. CASE Pairs = {}
  <2>1. saves' \in [Saves -> Save]
    BY DEF KeptInv, MemberInv, TypeOK
  <2>2. saves'[t].in = {} /\ saves'[t].out = {}
    BY <1>2, <2>1 DEF Save
  <2> QED
    BY <2>2 DEF IsShown
<1> QED
  BY <1>1, <1>2, FetchedIsComing, Parts DEF KeptInv

(* A group that was deleted takes its members off the list, and a user that *)
(* was created or deleted changes no list.                                  *)
LEMMA SettlingShows ==
  ASSUME KeptInv, KeptInv', ShownInv, NEW s \in Saves, Settle(s)
  PROVE  ShownInv'
<1> DEFINE o == saves[s]
<1>1. /\ Settles(s) /\ UNCHANGED tables /\ saves \in [Saves -> Save]
      /\ Changes(s, Saved(o)) /\ Saved(o).in = o.in /\ Saved(o).out = o.out
      /\ IsClear(o) /\ ScreenTypes
  BY SettlingKeeps, SaveFacts, Parts DEF Settle, KeptInv
<1>2. /\ groups' = groups /\ users' = users /\ pushed' = pushed
      /\ \A t \in Saves : t # s => saves'[t] = saves[t]
      /\ saves'[s].in = o.in /\ saves'[s].out = o.out
  BY <1>1 DEF tables, Changes
<1>3. CASE GroupSaved
  BY <1>1, <1>3, FetchShows DEF GroupSaved
<1>4. ASSUME o.in = {}, o.out = {},
             \A t \in Saves : IsShown(Coming, saves[t]) => IsShown(Coming', saves[t])
      PROVE  ShownInv'
  <2> SUFFICES ASSUME NEW t \in Saves, (saves[t].phase = "saved")'
               PROVE  IsShown(Coming, saves[t])'
    BY DEF ShownInv
  <2>1. CASE t = s
    BY <1>2, <1>4, <2>1 DEF IsShown
  <2>2. CASE t # s
    <3>1. saves'[t] = saves[t] /\ IsShown(Coming', saves[t])
      BY <1>2, <1>4, <2>2 DEF ShownInv
    <3> QED
      BY <1>2, <3>1 DEF IsShown, HasEnds
  <2> QED
    BY <2>1, <2>2
<1>5. CASE o.op = "delete" /\ o.of \in Groups /\ GroupTaken(o.of)
  <2>1. o.in = {} /\ o.out = {}
    BY <1>1, <1>5 DEF IsClear
  <2>2. ASSUME NEW t \in Saves, IsShown(Coming, saves[t])
        PROVE  IsShown(Coming', saves[t])
    <3>1. saves[t].in \subseteq Pairs
      BY SaveFacts
    <3>2. CASE fetch = NoList
      <4>1. /\ Coming = list
            /\ Coming'.groups = list.groups \ {o.of}
            /\ Coming'.links = list.links \ PairsOf(o.of)
        BY <1>5, <3>2 DEF Coming, GroupTaken
      <4>2. \A p \in Pairs : p[1] # o.of => p \notin PairsOf(o.of)
        BY <1>5, PairFacts, MemberAssumption DEF PairsOf
      <4> QED
        BY <2>2, <3>1, <4>1, <4>2 DEF IsShown
    <3>3. CASE fetch # NoList
      <4>1. Coming' = Coming
        BY <1>5, <3>3 DEF Coming, GroupTaken
      <4> QED
        BY <2>2, <4>1
    <3> QED
      BY <3>2, <3>3
  <2> QED
    BY <1>4, <2>1, <2>2
<1>6. CASE o.op # "edit" /\ o.of \in Users /\ UserSaved
  <2>1. o.in = {} /\ o.out = {}
    BY <1>1, <1>6, SaveFacts DEF IsClear, Save
  <2>2. Coming' = Coming
    BY <1>6 DEF UserSaved, cache, Coming
  <2> QED
    BY <1>4, <2>1, <2>2
<1> QED
  BY <1>3, <1>5, <1>6 DEF Settle

(* Every step keeps what the list shows, or is about to show.               *)
LEMMA ShownStep == KeptInv /\ KeptInv' /\ ShownInv /\ [Next]_vars => ShownInv'
<1> SUFFICES ASSUME KeptInv, KeptInv', ShownInv, [Next]_vars PROVE ShownInv'
  OBVIOUS
<1>1. ASSUME UNCHANGED screen PROVE UNCHANGED cache
  BY <1>1 DEF screen
<1>2. CASE Browse
  <2>1. UNCHANGED tables /\ ChangesOnly({}) /\ \A t \in Saves : CountsOnLess(t, {})
    BY <1>2, BrowsingKeeps, CalmChanges
  <2>2. CASE Refetch
    BY <2>1, <2>2, FetchShows DEF Refetch
  <2>3. CASE ListArrives
    <3>1. Coming' = Coming
      BY <2>3 DEF ListArrives, Coming
    <3>2. saves' = saves /\ UNCHANGED tables
      BY <2>3 DEF ListArrives
    <3> QED
      BY <3>1, <3>2 DEF ShownInv, IsShown, HasEnds, tables
  <2>4. CASE UNCHANGED cache
    BY <2>1, <2>4, ShownStays
  <2> QED
    BY <1>2, <2>2, <2>3, <2>4
    DEF Browse, ShowTab, OpenGroupEdit, OpenNewGroup, OpenGroupDeletion, OpenUserEdit,
        OpenNewUser, OpenUserDeletion, Opens, CloseDialog, ToggleMember,
        ToggleNewMember, ToggleGroup, Toggle
<1>3. ASSUME NEW s \in Saves, NEW local, NEW P, StepOf(s, local, P),
             local.phase # "saved", UNCHANGED screen
      PROVE  ShownInv'
  <2>1. saves \in [Saves -> Save]
    BY Parts DEF KeptInv
  <2>2. /\ saves'[s] = local
        /\ \E Q : /\ ChangesOnly(Q)
                  /\ \A t \in Saves \ {s} : CountsOnLess(t, Q)
    BY <1>3, <2>1, OthersCount
  <2> QED
    BY <1>1, <1>3, <2>2, ShownStays
<1>4. ASSUME NEW s \in Saves, Send(s) PROVE ShownInv'
  BY <1>3, <1>4, SendingKeeps, CalmChanges DEF StepOf
<1>5. ASSUME NEW s \in Saves, Serve(s) PROVE ShownInv'
  BY <1>3, <1>5, ServingKeeps DEF ServedWell
<1>6. ASSUME NEW s \in Saves, Settle(s) PROVE ShownInv'
  BY <1>6, SettlingShows
<1>7. CASE BreakOff
  BY <1>1, <1>7, BreakingKeeps, CalmChanges, ShownStays
<1>8. CASE Others
  BY <1>1, <1>8, OthersKeep, ShownStays
<1>9. ASSUME NEW p \in Pairs, DiscardRow(p) PROVE ShownInv'
  BY <1>1, <1>9, DiscardKeeps, ShownStays
<1>10. CASE UNCHANGED vars
  <2>1. UNCHANGED <<tables, cache, saves>>
    BY <1>10 DEF vars, screen
  <2>2. \A t \in Saves : CountsOnLess(t, {})
    BY <2>1 DEF CountsOnLess
  <2> QED
    BY <2>1, <2>2, CalmChanges, ShownStays
<1> QED
  BY <1>2, <1>4, <1>5, <1>6, <1>7, <1>8, <1>9, <1>10 DEF Next

(* The list shows every save that was answered well, once no fetch is under *)
(* way: also when a fetch that began before the answer came in after it, and*)
(* when several saves are answered in any order.                            *)
THEOREM SavesAreShown == Spec => []OwnSaveIsShown
<1>1. Init => ShownInv
  <2> SUFFICES ASSUME Init PROVE ShownInv
    OBVIOUS
  <2>1. \A s \in Saves : saves[s].phase = "free"
    BY DEF Init, FreeSave
  <2> QED
    BY <2>1 DEF ShownInv
<1>2. ShownInv => OwnSaveIsShown
  BY DEF ShownInv, Coming, IsShown, OwnSaveIsShown
<1> QED
  BY <1>1, <1>2, ShownStep, KeptHolds, PTL DEF Spec

=============================================================================
