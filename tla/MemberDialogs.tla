---------------------------- MODULE MemberDialogs ----------------------------
(***************************************************************************)
(* Who is a member of which group: the two tabs of a project that edit it  *)
(* from either side (GroupsTab: the members of a group, UsersTab: the      *)
(* groups of a user), the list of groups both keep in one cache, and the   *)
(* requests that write to the tables of users, groups and associations.    *)
(*                                                                         *)
(* One browser is modelled; other clients, and the deployment, do to the   *)
(* tables what they may at any moment.  A request of the browser that      *)
(* inserts associations reads first and commits later, so that others come *)
(* between; what is read and written in one flush is one step.             *)
(*                                                                         *)
(* The accounts the dialogs offer come from lists of their own that may be *)
(* old: any account may be ticked.                                         *)
(***************************************************************************)
EXTENDS Naturals, FiniteSets

CONSTANTS
  Groups, Users,  \* ids, each with its name
  Nobody,
  Saves,          \* the mutations of the browser that may be under way at a time
  MaxOthers       \* bound: steps of the other clients

ASSUME MemberAssumption ==
  /\ Groups \cap Users = {}
  /\ Nobody \notin Groups \cup Users
  /\ MaxOthers \in Nat

VARIABLES
  groups, users,  \* ids in the tables
  links,          \* group_users
  pushed,         \* pairs with a row of add_group_members
  tab,            \* the tab shown
  dialog,         \* its dialog, see Dialog
  list, fetch,    \* the cached list of groups, and the one on its way
  saves,          \* the mutations, see Save
  others,         \* steps of the other clients so far
  overlapped      \* history: pairs an end of which was deleted while they were
                  \* about to be inserted

tables == <<groups, users, links, pushed>>
cache  == <<list, fetch>>
screen == <<tab, dialog, cache>>
vars   == <<tables, screen, saves, others, overlapped>>

Pairs == Groups \X Users

PairsOf(x) == {p \in Pairs : p[1] = x \/ p[2] = x}

(* What GET /groups/ answers: the groups, and the members that exist.       *)
Listing == [groups : SUBSET Groups, links : SUBSET Pairs]
NoList  == [groups |-> {}, links |-> Pairs]

Dialog ==
  [kind   : {"none", "edit", "create", "delete"},
   of     : Groups \cup Users \cup {Nobody},
   ticks  : SUBSET Pairs,
   before : SUBSET Pairs]   \* what was ticked when it was opened

Save ==
  [phase  : {"free", "running", "failed", "saved"},
   op     : {"edit", "create", "delete"},
   from   : {"page", "elsewhere"},  \* whether the tab as it is now waits for it
   of     : Groups \cup Users \cup {Nobody},
   at     : {"sent", "read", "done"},   \* the one request of another op than edit
   add    : SUBSET Pairs,           \* left to ask the service to insert
   read   : SUBSET Pairs,           \* about to be inserted by it
   remove : SUBSET Pairs,           \* left to ask the service to remove
   in     : SUBSET Pairs,           \* what was asked for, less what others
   out    : SUBSET Pairs]           \* have touched since

NoDialog == [kind |-> "none", of |-> Nobody, ticks |-> {}, before |-> {}]
FreeSave ==
  [phase |-> "free", op |-> "edit", from |-> "elsewhere", of |-> Nobody,
   at |-> "done", add |-> {}, read |-> {}, remove |-> {}, in |-> {}, out |-> {}]

TypeOK ==
  /\ groups \subseteq Groups
  /\ users \subseteq Users
  /\ links \subseteq Pairs
  /\ pushed \subseteq Pairs
  /\ tab \in {"groups", "users"}
  /\ dialog \in Dialog
  /\ list \in Listing
  /\ fetch \in Listing
  /\ saves \in [Saves -> Save]
  /\ others \in 0..MaxOthers
  /\ overlapped \subseteq Pairs

Init ==
  /\ groups = {} /\ users = {} /\ links = {} /\ pushed = {}
  /\ tab \in {"groups", "users"}
  /\ dialog = NoDialog
  /\ list = [groups |-> {}, links |-> {}]
  /\ fetch = NoList
  /\ saves = [s \in Saves |-> FreeSave]
  /\ others = 0
  /\ overlapped = {}

-----------------------------------------------------------------------------
HasEnds(p) == p[1] \in groups /\ p[2] \in users

Listed == [groups |-> groups, links |-> {p \in links : HasEnds(p)}]

(* The pairs P, or their rows, are changed: no save counts on them any more,*)
(* but for s when it changes them itself and goes on as `local`.            *)
Touched(P) ==
  [s \in Saves |->
     [saves[s] EXCEPT !.in = @ \ P, !.out = @ \ P]]

Becomes(s, local, P) == saves' = [Touched(P) EXCEPT ![s] = local]

Changes(s, local) == saves' = [saves EXCEPT ![s] = local]

(* Pairs that a request of the browser has read and not yet inserted.       *)
UnderWay == UNION {saves[s].read : s \in Saves}

Pending(op) ==
  \E s \in Saves : /\ saves[s].phase = "running"
                   /\ saves[s].from = "page"
                   /\ saves[s].op = op

-----------------------------------------------------------------------------
(* The tabs.                                                                *)

(* The other tab is shown, or this one again: it starts anew, and what it   *)
(* sent goes on without it.                                                 *)
ShowTab(t) ==
  /\ tab' = t
  /\ dialog' = NoDialog
  /\ saves' = [s \in Saves |-> [saves[s] EXCEPT !.from = "elsewhere"]]
  /\ UNCHANGED <<tables, cache, others, overlapped>>

(* The window gets the focus back, or a tab finds the list too old.         *)
Refetch ==
  /\ fetch = NoList
  /\ fetch' = Listed
  /\ UNCHANGED <<tables, tab, dialog, list, saves, others, overlapped>>

ListArrives ==
  /\ fetch # NoList
  /\ list' = fetch /\ fetch' = NoList
  /\ UNCHANGED <<tables, tab, dialog, saves, others, overlapped>>

OpenGroupEdit(g) ==
  /\ tab = "groups" /\ dialog.kind = "none"
  /\ g \in list.groups
  /\ dialog' = [kind |-> "edit", of |-> g, ticks |-> list.links \cap PairsOf(g),
                before |-> list.links \cap PairsOf(g)]
  /\ UNCHANGED <<tables, tab, cache, saves, others, overlapped>>

(* Faulty variant: what is ticked are groups, not members of them.          *)
OpenUserEdit_Groups(u) ==
  /\ tab = "users" /\ dialog.kind = "none"
  /\ dialog' = [kind |-> "edit", of |-> u,
                ticks |-> {p[1] : p \in list.links \cap PairsOf(u)},
                before |-> list.links \cap PairsOf(u)]
  /\ UNCHANGED <<tables, tab, cache, saves, others, overlapped>>

OpenUserEdit(u) ==
  /\ tab = "users" /\ dialog.kind = "none"
  /\ dialog' = [kind |-> "edit", of |-> u, ticks |-> list.links \cap PairsOf(u),
                before |-> list.links \cap PairsOf(u)]
  /\ UNCHANGED <<tables, tab, cache, saves, others, overlapped>>

(* The dialog of a new group opens with nothing ticked; the one of a user   *)
(* keeps its fields, which no property is about.                            *)
Opens(kind, x) ==
  /\ dialog.kind = "none"
  /\ dialog' = [NoDialog EXCEPT !.kind = kind, !.of = x]
  /\ UNCHANGED <<tables, tab, cache, saves, others, overlapped>>

OpenNewGroup(g) == tab = "groups" /\ Opens("create", g)
OpenNewUser(u)  == tab = "users" /\ Opens("create", u)

OpenGroupDeletion(g) == tab = "groups" /\ g \in list.groups /\ Opens("delete", g)
OpenUserDeletion(u)  == tab = "users" /\ Opens("delete", u)

(* A dialog can be closed while its request is under way.                   *)
CloseDialog ==
  /\ dialog.kind # "none"
  /\ dialog' = NoDialog
  /\ UNCHANGED <<tables, tab, cache, saves, others, overlapped>>

(* A box is ticked or cleared, in a dialog that waits for an answer as well.*)
Toggle(p) ==
  /\ p \in PairsOf(dialog.of)
  /\ dialog' = [dialog EXCEPT !.ticks = IF p \in @ THEN @ \ {p} ELSE @ \cup {p}]
  /\ UNCHANGED <<tables, tab, cache, saves, others, overlapped>>

ToggleNewMember(p) == dialog.kind = "create" /\ tab = "groups" /\ Toggle(p)
ToggleMember(p)    == dialog.kind = "edit" /\ tab = "groups" /\ Toggle(p)
ToggleGroup(p) ==
  /\ dialog.kind = "edit" /\ tab = "users"
  /\ p[1] \in list.groups
  /\ Toggle(p)

(* None of the requests of a save is left.                                  *)
Served(s) ==
  /\ saves[s].at = "done"
  /\ saves[s].add = {} /\ saves[s].read = {} /\ saves[s].remove = {}

CanSend(s, op) ==
  /\ dialog.kind = op
  /\ saves[s].phase # "running" /\ Served(s)
  /\ ~Pending(op)

Saved(o) == [FreeSave EXCEPT !.phase = "saved", !.in = o.in, !.out = o.out]

Sent(op, add, remove) ==
  [FreeSave EXCEPT !.phase = "running", !.op = op, !.from = "page",
                   !.of = dialog.of, !.at = IF op = "edit" THEN "done" ELSE "sent",
                   !.add = add, !.remove = remove,
                   !.in = add, !.out = remove]

(* GroupsTab compares the ticks with the group as it was when its dialog    *)
(* was opened: one request for the new members and one for each other.      *)
SaveMembers(s) ==
  /\ tab = "groups" /\ CanSend(s, "edit")
  /\ Changes(s, Sent("edit", dialog.ticks \ dialog.before,
                     dialog.before \ dialog.ticks))
  /\ UNCHANGED <<tables, screen, others, overlapped>>

(* UsersTab compares them with the list as it is when they are sent.        *)
SaveGroups(s) ==
  /\ tab = "users" /\ CanSend(s, "edit")
  /\ list.groups # {}
  /\ LET now == list.links \cap PairsOf(dialog.of)
     IN  Changes(s, Sent("edit", dialog.ticks \ now, now \ dialog.ticks))
  /\ UNCHANGED <<tables, screen, others, overlapped>>

CreateGroup(s) ==
  /\ tab = "groups" /\ CanSend(s, "create")
  /\ Changes(s, Sent("create", dialog.ticks, {}))
  /\ UNCHANGED <<tables, screen, others, overlapped>>

CreateUser(s) ==
  /\ tab = "users" /\ CanSend(s, "create")
  /\ Changes(s, Sent("create", {}, {}))
  /\ UNCHANGED <<tables, screen, others, overlapped>>

DeleteGroup(s) ==
  /\ tab = "groups" /\ CanSend(s, "delete")
  /\ Changes(s, Sent("delete", {}, {}))
  /\ UNCHANGED <<tables, screen, others, overlapped>>

DeleteUser(s) ==
  /\ tab = "users" /\ CanSend(s, "delete")
  /\ Changes(s, Sent("delete", {}, {}))
  /\ UNCHANGED <<tables, screen, others, overlapped>>

(* What a success does to the cached list: it is fetched anew, in place of  *)
(* a fetch on its way; a group that was deleted is only taken off it; of    *)
(* users there are lists of their own.                                      *)
GroupSaved    == fetch' = Listed /\ UNCHANGED list
GroupTaken(g) ==
  /\ list' = [groups |-> list.groups \ {g}, links |-> list.links \ PairsOf(g)]
  /\ UNCHANGED fetch
UserSaved     == UNCHANGED cache

(* When all requests of a save are answered well, the dialog of its         *)
(* operation is closed, whatever it shows by then.                          *)
Settles(s) ==
  LET o == saves[s]
  IN  /\ o.phase = "running" /\ Served(s)
      /\ Changes(s, Saved(o))
      /\ dialog' = IF o.from = "page" /\ dialog.kind = o.op THEN NoDialog ELSE dialog
      /\ UNCHANGED <<tables, tab, others, overlapped>>

(* Faulty variant: a fetch that is on its way already is thought to do.     *)
Settle_KeepsFetch(s) ==
  /\ Settles(s)
  /\ fetch' = IF fetch = NoList THEN Listed ELSE fetch
  /\ UNCHANGED list

(* The first answer that is an error ends a save instead, see Failed.       *)
Settle(s) ==
  LET o == saves[s]
  IN  /\ Settles(s)
      /\ \/ (o.op = "edit" \/ (o.op = "create" /\ o.of \in Groups)) /\ GroupSaved
         \/ o.op = "delete" /\ o.of \in Groups /\ GroupTaken(o.of)
         \/ o.op # "edit" /\ o.of \in Users /\ UserSaved

-----------------------------------------------------------------------------
(* The service.                                                             *)

(* A failed save: its other requests go on unattended.                      *)
Failed(o) ==
  [FreeSave EXCEPT !.phase = "failed", !.add = o.add, !.read = o.read,
                   !.remove = o.remove]

(* add_membership looks the group up, leaves out those who are members and  *)
(* finds the accounts that exist; who does not is left out without a word.  *)
AddReads(s, g) ==
  LET o     == saves[s]
      asked == o.add \cap PairsOf(g)
      new   == {p \in asked \ links : p[2] \in users}
  IN  /\ o.op = "edit" /\ asked # {}
      /\ Changes(s, IF g \in groups
                    THEN [o EXCEPT !.add = @ \ asked, !.read = @ \cup new]
                    ELSE Failed([o EXCEPT !.add = @ \ asked]))
      /\ UNCHANGED <<tables, screen, others, overlapped>>

(* Faulty variant: an association that is there already is no error.        *)
AddCommits_Forgives(s, g) ==
  LET o   == saves[s]
      new == o.read \cap PairsOf(g)
      on  == [o EXCEPT !.read = @ \ new]
  IN  /\ o.op = "edit" /\ new # {}
      /\ IF new \cap links # {}
         THEN Changes(s, on) /\ UNCHANGED links
         ELSE /\ Becomes(s, IF g \in groups THEN on ELSE Failed(on), new)
              /\ links' = links \cup new
      /\ UNCHANGED <<groups, users, pushed, screen, others, overlapped>>

(* ... and commits: an association that was made meanwhile breaks the whole *)
(* request; for a group that is gone they are made, and the request fails.  *)
AddCommits(s, g) ==
  LET o   == saves[s]
      new == o.read \cap PairsOf(g)
      on  == [o EXCEPT !.read = @ \ new]
  IN  /\ o.op = "edit" /\ new # {}
      /\ IF new \cap links # {}
         THEN Changes(s, Failed(on)) /\ UNCHANGED links
         ELSE /\ Becomes(s, IF g \in groups THEN on ELSE Failed(on), new)
              /\ links' = links \cup new
      /\ UNCHANGED <<groups, users, pushed, screen, others, overlapped>>

(* delete_user_membership: a member with a row is only marked for reversal, *)
(* and who is no member cannot be removed.                                  *)
RemoveMember(s, p) ==
  LET o  == saves[s]
      on == [o EXCEPT !.remove = @ \ {p}]
  IN  /\ o.op = "edit" /\ p \in o.remove
      /\ IF HasEnds(p) /\ p \in pushed
         THEN Changes(s, on) /\ UNCHANGED links
         ELSE IF HasEnds(p) /\ p \in links
         THEN Becomes(s, on, {p}) /\ links' = links \ {p}
         ELSE Changes(s, Failed(on)) /\ UNCHANGED links
      /\ UNCHANGED <<groups, users, pushed, screen, others, overlapped>>

(* add_group finds the accounts that exist, then inserts the group with     *)
(* them; a name in use, or an association it finds made, breaks it.         *)
CreateReads(s) ==
  LET o == saves[s]
  IN  /\ o.op = "create" /\ o.of \in Groups /\ o.at = "sent"
      /\ Changes(s, [o EXCEPT !.at = "read", !.add = {},
                              !.read = {p \in o.add : p[2] \in users}])
      /\ UNCHANGED <<tables, screen, others, overlapped>>

CreateCommits(s) ==
  LET o  == saves[s]
      on == [o EXCEPT !.at = "done", !.read = {}]
  IN  /\ o.op = "create" /\ o.of \in Groups /\ o.at = "read"
      /\ IF o.of \in groups \/ o.read \cap links # {}
         THEN Changes(s, Failed(on)) /\ UNCHANGED <<groups, links>>
         ELSE /\ Becomes(s, on, PairsOf(o.of))
              /\ groups' = groups \cup {o.of}
              /\ links' = links \cup o.read
      /\ UNCHANGED <<users, pushed, screen, others, overlapped>>

(* A user or a group that is new in its table.                              *)
Enters(x) ==
  /\ x \notin groups \cup users
  /\ groups' = groups \cup ({x} \cap Groups)
  /\ users' = users \cup ({x} \cap Users)
  /\ UNCHANGED <<links, pushed>>

(* Faulty variant: the associations of what is deleted stay.                *)
Goes_KeepsLinks(x) ==
  /\ x \in groups \cup users
  /\ groups' = groups \ {x} /\ users' = users \ {x}
  /\ overlapped' = overlapped \cup (UnderWay \cap PairsOf(x))
  /\ UNCHANGED <<links, pushed>>

(* A user or a group goes, with its associations; the rows of the tracking  *)
(* table stay.                                                              *)
Goes(x) ==
  /\ x \in groups \cup users
  /\ groups' = groups \ {x} /\ users' = users \ {x}
  /\ links' = links \ PairsOf(x)
  /\ overlapped' = overlapped \cup (UnderWay \cap PairsOf(x))
  /\ UNCHANGED pushed

AddUser(s) ==
  LET o == saves[s]
  IN  /\ o.op = "create" /\ o.at = "sent"
      /\ Enters(o.of) /\ o.of \in Users
      /\ Becomes(s, [o EXCEPT !.at = "done"], PairsOf(o.of))
      /\ UNCHANGED <<screen, others, overlapped>>

(* delete_group and delete_user: what has a row is only marked, and goes at *)
(* a deployment; what is not there cannot be deleted.                       *)
ServeDelete(s) ==
  LET o  == saves[s]
      on == [o EXCEPT !.at = "done"]
  IN  /\ o.op = "delete" /\ o.at = "sent"
      /\ \/ Goes(o.of) /\ Becomes(s, on, PairsOf(o.of))
         \/ /\ Changes(s, IF o.of \in groups \cup users THEN on ELSE Failed(on))
            /\ UNCHANGED <<tables, overlapped>>
      /\ UNCHANGED <<screen, others>>

(* The service is restarted or cannot be reached: the requests of the       *)
(* browser break off.                                                       *)
BreakOff ==
  /\ saves' = [s \in Saves |->
       IF Served(s) THEN saves[s]
       ELSE Failed([saves[s] EXCEPT !.add = {}, !.read = {}, !.remove = {}])]
  /\ UNCHANGED <<tables, screen, others, overlapped>>

-----------------------------------------------------------------------------
(* The other clients.                                                       *)
Others ==
  /\ others < MaxOthers
  /\ others' = others + 1
  /\ UNCHANGED screen
  /\ \/ \E x \in Groups \cup Users :
          /\ \/ Enters(x) /\ UNCHANGED overlapped
             \/ Goes(x)
          /\ saves' = Touched(PairsOf(x))
     \/ \E p \in Pairs :
          /\ HasEnds(p)
          /\ links' = IF p \in links THEN links \ {p} ELSE links \cup {p}
          /\ p \in links => p \notin pushed
          /\ saves' = Touched({p})
          /\ UNCHANGED <<groups, users, pushed, overlapped>>
     \/ \E g \in groups : \E P \in SUBSET (links \cap PairsOf(g)) :
          \* A deployment pushes the group with some of its members.
          /\ pushed' = pushed \cup P
          /\ UNCHANGED <<groups, users, links, saves, overlapped>>

(* DELETE /vulnerabilities/{id}: the project's list of templates shows the  *)
(* rows of memberships as well, with a bin, and any of them can be deleted: *)
(* the association stays, and no reversal is to come any more.              *)
DiscardRow(p) ==
  /\ p \in pushed
  /\ pushed' = pushed \ {p}
  /\ saves' = Touched({p})
  /\ UNCHANGED <<groups, users, links, screen, others, overlapped>>

-----------------------------------------------------------------------------
Browse ==
  \/ \E t \in {"groups", "users"} : ShowTab(t)
  \/ Refetch \/ ListArrives
  \/ \E g \in Groups : OpenGroupEdit(g) \/ OpenNewGroup(g) \/ OpenGroupDeletion(g)
  \/ \E u \in Users : OpenUserEdit(u) \/ OpenNewUser(u) \/ OpenUserDeletion(u)
  \/ CloseDialog
  \/ \E p \in Pairs : ToggleMember(p) \/ ToggleNewMember(p) \/ ToggleGroup(p)

Send(s) ==
  \/ SaveMembers(s) \/ SaveGroups(s)
  \/ CreateGroup(s) \/ CreateUser(s) \/ DeleteGroup(s) \/ DeleteUser(s)

Serve(s) ==
  \/ \E g \in Groups : AddReads(s, g) \/ AddCommits(s, g)
  \/ \E p \in Pairs : RemoveMember(s, p)
  \/ CreateReads(s) \/ CreateCommits(s) \/ AddUser(s) \/ ServeDelete(s)

Next ==
  \/ Browse
  \/ \E s \in Saves : Send(s) \/ Serve(s) \/ Settle(s)
  \/ BreakOff
  \/ Others
  \/ \E p \in Pairs : DiscardRow(p)

Spec == Init /\ [][Next]_vars

-----------------------------------------------------------------------------
(* An association has both its ends, whatever was deleted, created again    *)
(* with the same id or broken off: but for those an end of which was        *)
(* deleted between the reads and the commit of the request that made them.  *)
LinksHaveEnds == \A p \in links \ overlapped : HasEnds(p)

(* What the proof of it needs besides: what a request has read and is about *)
(* to insert has its ends, but for a group that it creates itself.          *)
HasEndsFor(o, p) ==
  p[2] \in users /\ (p[1] \in groups \/ (o.op = "create" /\ p[1] = o.of))

ReadsHaveEnds ==
  \A s \in Saves : \A p \in saves[s].read \ overlapped : HasEndsFor(saves[s], p)

TicksAreOwn ==
  /\ dialog.kind = "create" => dialog.ticks \subseteq PairsOf(dialog.of)
  /\ \A s \in Saves : saves[s].op = "create" => saves[s].add \subseteq PairsOf(saves[s].of)

MemberInv == TypeOK /\ LinksHaveEnds /\ ReadsHaveEnds /\ TicksAreOwn

(* What a save that was answered well asked for is in the table, as long as *)
(* nobody has touched the association or thrown its row away since the save *)
(* was sent: who was ticked is a member, who was cleared is not, or was     *)
(* pushed and waits for its reversal.  A row thrown away after the mark     *)
(* leaves a member that was cleared where it is, with nothing to come.      *)
SavedIsStored ==
  \A s \in Saves : saves[s].phase = "saved" =>
    /\ \A p \in saves[s].in : HasEnds(p) => p \in links
    /\ \A p \in saves[s].out : p \in links => p \in pushed

(* The list shows such a save once no fetch is under way, also when a fetch *)
(* that began before the save was answered came in after it.  A group whose *)
(* deletion was answered is off the list with its members, also when it was *)
(* only marked and others have added to it meanwhile.                       *)
OwnSaveIsShown ==
  fetch = NoList =>
    \A s \in Saves : saves[s].phase = "saved" =>
      /\ \A p \in saves[s].in :
           HasEnds(p) /\ p[1] \in list.groups => p \in list.links
      /\ \A p \in saves[s].out : p \in list.links => p \in pushed

=============================================================================
