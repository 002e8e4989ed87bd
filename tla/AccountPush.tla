----------------------------- MODULE AccountPush -----------------------------
(***************************************************************************)
(* The second half of a project deployment, for one kind of account: the   *)
(* users (_step_add_users) or the groups (_step_add_groups) not yet pushed *)
(* are created in the directory of their domain, then the rows marked for  *)
(* reversal are undone (_step_reverse_templates).  Beside it, the requests *)
(* by which an operator creates, deletes and pushes single accounts, and   *)
(* those that act on any row of the tracking table: the Vulnerabilites tab *)
(* lists them all, each with a bin.                                        *)
(*                                                                         *)
(* Every row of this model belongs to the creation template of the kind;   *)
(* memberships and vulnerabilities have tables of their own, each with its *)
(* own ids.  The accounts and the rows may be those of several projects:   *)
(* both tables are shared.                                                 *)
(***************************************************************************)
EXTENDS AppliedTemplates, FiniteSets

CONSTANTS
  Kind,               \* "users" or "groups"
  Deploys,            \* the request threads that may deploy a project
  Projects,
  TargetOf,           \* the project each deploys
  Domains,            \* ids of the domains, each with its own directory
  ProjectOf,          \* the project of each
  Reachable,          \* domains with a controller that has an IP
  RootDc,             \* of get_root_dc: "missing", "no_ip" or "ok"
  Names,
  EditsDuringDeploy,  \* what the operator may do while a deployment runs
  MaxAccounts,        \* bound: account ids
  MaxRows,            \* bound: rows
  MaxDiscards         \* bound: rows the operator discards

ASSUME LabAssumption ==
  /\ Kind \in {"users", "groups"}
  /\ Domains \subseteq Nat \ {0}
  /\ TargetOf \in [Deploys -> Projects]
  /\ ProjectOf \in [Domains -> Projects]
  /\ Reachable \subseteq Domains
  /\ RootDc \in [Domains -> {"missing", "no_ip", "ok"}]
  /\ \A dm \in Domains : RootDc[dm] = "ok" => dm \in Reachable
  /\ EditsDuringDeploy \subseteq {"create", "delete", "push", "rows"}

ASSUME BoundAssumption ==
  MaxAccounts \in Nat /\ MaxRows \in Nat /\ MaxDiscards \in Nat

VARIABLES
  accounts,    \* the users or the groups table
  rows,        \* the add_users or add_groups rows of applied_templates
  directory,   \* the accounts that exist, as <<domain, name>>
  edit,        \* the DELETE request under way, see Edits
  run,         \* the local state of each deployment, see RunState
  byHand,      \* history: what was pushed by POST /users/{id}
  discarded    \* history: the rows an operator removed or overwrote

vars == <<accounts, rows, directory, edit, run, byHand, discarded>>

AccountIds == 1..MaxAccounts
RowIds     == 1..MaxRows
Account    == [name : Names, domain : Domains]
PushRow    == [account : AccountIds, name : Names, domain : Domains,
               status : TemplateStatus]
Listing    == [id : AccountIds, name : Names, domain : Domains]
Discard    == [row : RowIds, account : AccountIds, place : Domains \X Names]
Stopped    == {"idle", "passed", "failed"}
Phase      == Stopped \cup {"plan", "push", "track", "run", "record",
                            "reverse", "script", "forget", "close"}

RunState ==
  [phase     : Phase,
   view      : {"held", "expired"},   \* of the session's objects since a commit
   listed    : SUBSET Listing,        \* the accounts to push, as read at the start
   visits    : SUBSET Domains,        \* domains the present step has yet to visit
   domain    : Domains \cup {0},      \* the one it is in
   toTrack   : SUBSET Listing,        \* accounts without a row of this request yet
   names     : SUBSET Names,          \* what the playbook is asked to create
   mine      : SUBSET RowIds,         \* applied_list, less what was updated
   outcome   : {"unknown", "done", "failed"},
   marked    : SUBSET RowIds,         \* pending_reversed_templates
   toReverse : SUBSET RowIds,         \* those left in this domain
   failure   : {"no", "yes"}]         \* has_failure

NotRunning(p) ==
  [phase |-> p, view |-> "held", listed |-> {}, visits |-> {}, domain |-> 0,
   toTrack |-> {}, names |-> {}, mine |-> {}, outcome |-> "unknown",
   marked |-> {}, toReverse |-> {}, failure |-> "no"]

(* A DELETE request between its reads and its commit: the account, the row  *)
(* it found (0 for none) and that row's status as read.                     *)
NoEdit == [account |-> 0, row |-> 0, status |-> "pending"]
Edits  == [account : AccountIds, row : RowIds \cup {0}, status : TemplateStatus]

TypeOK ==
  /\ DOMAIN accounts \subseteq AccountIds
  /\ \A a \in DOMAIN accounts : accounts[a] \in Account
  /\ DOMAIN rows \subseteq RowIds
  /\ \A i \in DOMAIN rows : rows[i] \in PushRow
  /\ directory \subseteq Domains \X Names
  /\ edit \in Edits \cup {NoEdit}
  /\ run \in [Deploys -> RunState]
  /\ byHand \subseteq Domains \X Names
  /\ discarded \subseteq Discard

Init ==
  /\ accounts = [a \in {} |-> 0]
  /\ rows = [i \in {} |-> 0]
  /\ directory = {}
  /\ edit = NoEdit
  /\ run = [d \in Deploys |-> NotRunning("idle")]
  /\ byHand = {}
  /\ discarded = {}

-----------------------------------------------------------------------------
IsFirst(n, S) == n \in S /\ \A m \in S : n <= m

Own(d) == {dm \in Domains : ProjectOf[dm] = TargetOf[d]}

Becomes(d, local) == run' = [run EXCEPT ![d] = local]

Ends(d, p) == Becomes(d, NotRunning(p))

Quiet == \A d \in Deploys : run[d].phase \in Stopped

MayEdit(what) == Quiet \/ what \in EditsDuringDeploy

Place(i) == <<rows[i].domain, rows[i].name>>

(* The places whose row an operator discarded at some time.                 *)
DiscardedPlaces == {t.place : t \in discarded}

(* Faulty variant: a row created by a request that died counts as pushed.   *)
Settled_Pending ==
  {"pending", "applied", "error", "reverted_applied", "reverted_pending"}

(* The statuses that keep an account from being pushed again: a failed      *)
(* group is tried again, a failed user is not.                              *)
Settled ==
  IF Kind = "users"
  THEN {"applied", "error", "reverted_applied", "reverted_pending"}
  ELSE {"applied", "reverted_applied", "reverted_pending"}

(* get_users_not_push_by_domain and get_groups_not_push_by_domain compare   *)
(* names, not ids.                                                          *)
NotPushed(d) ==
  {l \in Listing :
     /\ l.id \in DOMAIN accounts
     /\ l.name = accounts[l.id].name
     /\ l.domain = accounts[l.id].domain
     /\ l.domain \in Own(d)
     /\ \A i \in RowsWith(rows, Settled) : Place(i) # <<l.domain, l.name>>}

-----------------------------------------------------------------------------
(* The operator.                                                            *)

(* POST /users/ and POST /groups/.  A group's name is unique, a username,   *)
(* made of the first name's initial and the last name, is not.              *)
CreateAccount(n, dm) ==
  /\ MayEdit("create")
  /\ Kind = "groups" => \A a \in DOMAIN accounts : accounts[a].name # n
  /\ \E a \in AccountIds :
       /\ IsNextId(accounts, a)
       /\ accounts' = CreateRow(accounts, a, [name |-> n, domain |-> dm])
  /\ UNCHANGED <<rows, directory, edit, run, byHand, discarded>>

(* Faulty variant: only rows that are APPLIED are looked for.               *)
LookUpDeleted_Applied(a) ==
  LET tracked == {i \in RowsWith(rows, {"applied"}) : rows[i].account = a}
  IN  /\ MayEdit("delete")
      /\ edit = NoEdit
      /\ a \in DOMAIN accounts
      /\ \/ /\ tracked = {}
            /\ edit' = [account |-> a, row |-> 0, status |-> "pending"]
         \/ \E i \in tracked :
              /\ IsFirst(i, tracked)
              /\ edit' = [account |-> a, row |-> i, status |-> "applied"]
      /\ UNCHANGED <<accounts, rows, directory, run, byHand, discarded>>

(* DELETE /users/{id} and DELETE /groups/{id}: the account's first row is   *)
(* looked up ...                                                            *)
LookUpDeleted(a) ==
  LET tracked == {i \in DOMAIN rows : rows[i].account = a}
  IN  /\ MayEdit("delete")
      /\ edit = NoEdit
      /\ a \in DOMAIN accounts
      /\ \/ /\ tracked = {}
            /\ edit' = [account |-> a, row |-> 0, status |-> "pending"]
         \/ \E i \in tracked :
              /\ IsFirst(i, tracked)
              /\ edit' = [account |-> a, row |-> i, status |-> rows[i].status]
      /\ UNCHANGED <<accounts, rows, directory, run, byHand, discarded>>

(* ... and marked, if there is one; otherwise the account is deleted.  A    *)
(* status that was already the mark when read is not written again, and the *)
(* update of a row removed since fails, so that nothing is changed.         *)
CommitDelete ==
  /\ edit # NoEdit
  /\ IF edit.row = 0
     THEN /\ accounts' = [a \in DOMAIN accounts \ {edit.account} |-> accounts[a]]
          /\ UNCHANGED rows
     ELSE /\ rows' = IF edit.status = "reverted_pending" THEN rows
                     ELSE UpdateStatus(rows, edit.row, "reverted_pending")
          /\ UNCHANGED accounts
  /\ edit' = NoEdit
  /\ UNCHANGED <<directory, run, byHand, discarded>>

(* POST /users/{id}: a user is pushed by itself, without a row.             *)
DeployUser(a) ==
  /\ Kind = "users"
  /\ MayEdit("push")
  /\ a \in DOMAIN accounts
  /\ LET place == <<accounts[a].domain, accounts[a].name>>
     IN  /\ RootDc[accounts[a].domain] = "ok"
         /\ directory' = directory \cup {place}
         /\ byHand' = byHand \cup {place}
  /\ UNCHANGED <<accounts, rows, edit, run, discarded>>

NoteDiscard(i) ==
  /\ Cardinality(discarded) < MaxDiscards
  /\ discarded' = discarded \cup
       {[row |-> i, account |-> rows[i].account, place |-> Place(i)]}

(* DELETE /vulnerabilities/{id}: the row is gone, whatever it stood for.    *)
RemoveRow(i) ==
  /\ MayEdit("rows")
  /\ i \in DOMAIN rows
  /\ rows' = DeleteRow(rows, i)
  /\ NoteDiscard(i)
  /\ UNCHANGED <<accounts, directory, edit, run, byHand>>

(* POST /vulnerabilities/{id} runs the template's content as one script     *)
(* more.  Those of accounts are loops over a list that is not theirs there, *)
(* so the script fails, does nothing, and the row becomes ERROR.            *)
OverwriteRow(i) ==
  /\ MayEdit("rows")
  /\ i \in DOMAIN rows
  /\ RootDc[rows[i].domain] # "missing"
  /\ rows[i].status # "error"
  /\ rows' = UpdateStatus(rows, i, "error")
  /\ NoteDiscard(i)
  /\ UNCHANGED <<accounts, directory, edit, run, byHand>>

-----------------------------------------------------------------------------
(* The push.                                                                *)

(* A deployment starts: the accounts to push are read while the step list   *)
(* is built, and not read again.  Only a commit of the request makes it     *)
(* reload what it holds of them; the steps before this one may have made one.*)
Start(d) ==
  /\ run[d].phase \in Stopped
  /\ edit = NoEdit \/ "delete" \in EditsDuringDeploy
  /\ \E view \in {"held", "expired"} :
       Becomes(d, [NotRunning("plan") EXCEPT
         !.view = view,
         !.listed = NotPushed(d),
         !.visits = IF NotPushed(d) = {} THEN {}
                    ELSE IF Kind = "users"
                    THEN {accounts[a].domain : a \in DOMAIN accounts} \cap Own(d)
                    ELSE {l.domain : l \in NotPushed(d)}])
  /\ UNCHANGED <<accounts, rows, directory, edit, byHand, discarded>>

(* The rows to reverse are read next: those of every project.               *)
Plan(d) ==
  /\ run[d].phase = "plan"
  /\ Becomes(d, [run[d] EXCEPT !.phase = "push",
                              !.marked = RowsWith(rows, {"reverted_pending"})])
  /\ UNCHANGED <<accounts, rows, directory, edit, byHand, discarded>>

SkipDomain(d) ==
  /\ run[d].phase = "push"
  /\ \E dm \in run[d].visits \ Reachable :
       /\ IsFirst(dm, run[d].visits)
       /\ Becomes(d, [run[d] EXCEPT !.visits = @ \ {dm}])
  /\ UNCHANGED <<accounts, rows, directory, edit, byHand, discarded>>

(* What the session sees of an account it listed.                           *)
Seen(d, l) ==
  IF run[d].view = "held" THEN l ELSE [l EXCEPT !.name = accounts[l.id].name]

(* An object deleted by another request cannot be reloaded.                 *)
Visible(d, l) == run[d].view = "held" \/ l.id \in DOMAIN accounts

(* The next domain: the playbook's list is made of what the session sees.   *)
EnterDomain(d) ==
  /\ run[d].phase = "push"
  /\ \E dm \in run[d].visits \cap Reachable :
       LET here == {l \in run[d].listed : l.domain = dm}
       IN  /\ IsFirst(dm, run[d].visits)
           /\ IF \A l \in here : Visible(d, l)
              THEN Becomes(d, [run[d] EXCEPT !.phase = "track", !.domain = dm,
                     !.toTrack = here, !.names = {Seen(d, l).name : l \in here}])
              ELSE Ends(d, "failed")
  /\ UNCHANGED <<accounts, rows, directory, edit, byHand, discarded>>

(* Every account gets its row, one commit each, before the directory is     *)
(* touched.                                                                 *)
TrackAccount(d) ==
  /\ run[d].phase = "track"
  /\ \E l \in run[d].toTrack :
       /\ IsFirst(l.id, {t.id : t \in run[d].toTrack})
       /\ \/ /\ Visible(d, l)
             /\ \E i \in RowIds :
                  /\ IsNextId(rows, i)
                  /\ rows' = CreateRow(rows, i,
                       [account |-> l.id, name |-> Seen(d, l).name,
                        domain |-> l.domain, status |-> "pending"])
                  /\ Becomes(d, [run[d] EXCEPT !.toTrack = @ \ {l},
                       !.mine = @ \cup {i}, !.view = "expired"])
          \/ /\ ~Visible(d, l)
             /\ Ends(d, "failed")
             /\ UNCHANGED rows
  /\ UNCHANGED <<accounts, directory, edit, byHand, discarded>>

(* Faulty variant: the playbook runs before every account has its row.      *)
RunPush_Early(d) ==
  /\ run[d].phase = "track"
  /\ directory' = directory \cup {<<run[d].domain, n>> : n \in run[d].names}
  /\ Becomes(d, [run[d] EXCEPT !.phase = "record", !.outcome = "done"])
  /\ UNCHANGED <<accounts, rows, edit, byHand, discarded>>

(* One playbook call creates them all; one that fails may have created some.*)
RunPush(d) ==
  LET places(names) == {<<run[d].domain, n>> : n \in names}
  IN  /\ run[d].phase = "track"
      /\ run[d].toTrack = {}
      /\ \/ /\ directory' = directory \cup places(run[d].names)
            /\ Becomes(d, [run[d] EXCEPT !.phase = "record", !.outcome = "done"])
         \/ /\ \E some \in SUBSET run[d].names :
                 directory' = directory \cup places(some)
            /\ Becomes(d, [run[d] EXCEPT !.phase = "record", !.outcome = "failed"])
      /\ UNCHANGED <<accounts, rows, edit, byHand, discarded>>

(* Faulty variant: a push that was sent counts as done.                     *)
RecordPush_Unchecked(d) ==
  /\ run[d].phase = "record"
  /\ \E i \in run[d].mine :
       /\ IsFirst(i, run[d].mine)
       /\ i \in DOMAIN rows
       /\ rows' = UpdateStatus(rows, i, "applied")
       /\ Becomes(d, [run[d] EXCEPT !.mine = @ \ {i}, !.view = "expired"])
  /\ UNCHANGED <<accounts, directory, edit, byHand, discarded>>

(* Faulty variant: a status of its own for a failed push.                   *)
RecordPush_OwnStatus(d) ==
  /\ run[d].phase = "record"
  /\ \E i \in run[d].mine :
       /\ IsFirst(i, run[d].mine)
       /\ i \in DOMAIN rows
       /\ rows' = UpdateStatus(rows, i,
                    IF run[d].outcome = "done" THEN "applied" ELSE "failed")
       /\ Becomes(d, [run[d] EXCEPT !.mine = @ \ {i}, !.view = "expired"])
  /\ UNCHANGED <<accounts, directory, edit, byHand, discarded>>

(* The rows of the call take its result, one commit each.  The update of a  *)
(* row that was removed raises: see Abort.                                  *)
RecordPush(d) ==
  /\ run[d].phase = "record"
  /\ \E i \in run[d].mine :
       /\ IsFirst(i, run[d].mine)
       /\ i \in DOMAIN rows
       /\ rows' = UpdateStatus(rows, i,
                    IF run[d].outcome = "done" THEN "applied" ELSE "error")
       /\ Becomes(d, [run[d] EXCEPT !.mine = @ \ {i}, !.view = "expired"])
  /\ UNCHANGED <<accounts, directory, edit, byHand, discarded>>

(* A failed call ends the deployment.                                       *)
LeaveDomain(d) ==
  /\ run[d].phase = "record"
  /\ run[d].mine = {}
  /\ IF run[d].outcome = "done"
     THEN Becomes(d, [run[d] EXCEPT !.phase = "push", !.names = {},
                        !.outcome = "unknown", !.domain = 0,
                        !.visits = @ \ {run[d].domain}])
     ELSE Ends(d, "failed")
  /\ UNCHANGED <<accounts, rows, directory, edit, byHand, discarded>>

-----------------------------------------------------------------------------
(* The reversal.                                                            *)

(* Every marked row is reversed in every domain of the deployed project.    *)
EndPush(d) ==
  /\ run[d].phase = "push"
  /\ run[d].visits = {}
  /\ IF run[d].marked = {}
     THEN Ends(d, "passed")
     ELSE Becomes(d, [run[d] EXCEPT !.phase = "reverse", !.listed = {},
                                   !.visits = Own(d)])
  /\ UNCHANGED <<accounts, rows, directory, edit, byHand, discarded>>

EnterReversal(d) ==
  /\ run[d].phase = "reverse"
  /\ \E dm \in run[d].visits :
       /\ IsFirst(dm, run[d].visits)
       /\ CASE RootDc[dm] = "missing" -> Ends(d, "failed")
            [] RootDc[dm] = "no_ip"   -> Becomes(d, [run[d] EXCEPT
                 !.visits = @ \ {dm}, !.failure = "yes"])
            [] RootDc[dm] = "ok"      -> Becomes(d, [run[d] EXCEPT
                 !.phase = "script", !.domain = dm, !.toReverse = run[d].marked])
  /\ UNCHANGED <<accounts, rows, directory, edit, byHand, discarded>>

(* The rows a session may see under an id: the one there is, or, if it was  *)
(* removed but is still held, one that was.  One that has to be read again  *)
(* raises: see Abort.                                                       *)
SeenRows(d, i) ==
  IF i \in DOMAIN rows
  THEN {[row |-> i, account |-> rows[i].account, place |-> Place(i)]}
  ELSE {t \in discarded : t.row = i /\ run[d].view = "held"}

(* Faulty variant: the row is closed whatever the script reports.           *)
RunReversal_Unchecked(d) ==
  /\ run[d].phase = "script"
  /\ \E i \in run[d].toReverse : \E t \in SeenRows(d, i) :
       /\ IsFirst(i, run[d].toReverse)
       /\ directory' \in {directory, directory \ {<<run[d].domain, t.place[2]>>}}
       /\ Becomes(d, [run[d] EXCEPT !.phase = "forget"])
  /\ UNCHANGED <<accounts, rows, edit, byHand, discarded>>

(* Faulty variant: a failure is written to the row, which loses its mark    *)
(* (the statement is in the code, commented out).                           *)
RunReversal_MarksError(d) ==
  /\ run[d].phase = "script"
  /\ \E i \in run[d].toReverse :
       /\ IsFirst(i, run[d].toReverse)
       /\ rows' = UpdateStatus(rows, i, "error")
       /\ Becomes(d, [run[d] EXCEPT !.toReverse = @ \ {i}, !.failure = "yes"])
  /\ UNCHANGED <<accounts, directory, edit, byHand, discarded>>

(* The reverse script removes the account of that name from this domain, and *)
(* succeeds where there is none.  A failure leaves the row as it is.        *)
RunReversal(d) ==
  /\ run[d].phase = "script"
  /\ \E i \in run[d].toReverse : \E t \in SeenRows(d, i) :
       LET gone == directory \ {<<run[d].domain, t.place[2]>>}
       IN  /\ IsFirst(i, run[d].toReverse)
           /\ \/ /\ directory' = gone
                 /\ Becomes(d, [run[d] EXCEPT !.phase = "forget"])
              \/ /\ directory' \in {directory, gone}
                 /\ Becomes(d, [run[d] EXCEPT !.toReverse = @ \ {i},
                                             !.failure = "yes"])
  /\ UNCHANGED <<accounts, rows, edit, byHand, discarded>>

(* The account the row points to now is deleted, if there is one ...        *)
ForgetAccount(d) ==
  /\ run[d].phase = "forget"
  /\ \E i \in run[d].toReverse : \E t \in SeenRows(d, i) :
       /\ IsFirst(i, run[d].toReverse)
       /\ accounts' = [a \in DOMAIN accounts \ {t.account} |-> accounts[a]]
  /\ Becomes(d, [run[d] EXCEPT !.phase = "close", !.view = "expired"])
  /\ UNCHANGED <<rows, directory, edit, byHand, discarded>>

(* ... then the row is closed.                                              *)
CloseReversal(d) ==
  /\ run[d].phase = "close"
  /\ \E i \in run[d].toReverse :
       /\ IsFirst(i, run[d].toReverse)
       /\ i \in DOMAIN rows
       /\ rows' = UpdateStatus(rows, i, "reverted_applied")
       /\ Becomes(d, [run[d] EXCEPT !.phase = "script", !.toReverse = @ \ {i}])
  /\ UNCHANGED <<accounts, directory, edit, byHand, discarded>>

LeaveReversal(d) ==
  /\ run[d].phase = "script"
  /\ run[d].toReverse = {}
  /\ Becomes(d, [run[d] EXCEPT !.phase = "reverse", !.domain = 0,
                              !.visits = @ \ {run[d].domain}])
  /\ UNCHANGED <<accounts, rows, directory, edit, byHand, discarded>>

(* Faulty variant: the failures on the way are forgotten.                   *)
EndReversal_Passes(d) ==
  /\ run[d].phase = "reverse"
  /\ run[d].visits = {}
  /\ Ends(d, "passed")
  /\ UNCHANGED <<accounts, rows, directory, edit, byHand, discarded>>

(* A failure in any domain, or a domain skipped, fails the deployment.      *)
EndReversal(d) ==
  /\ run[d].phase = "reverse"
  /\ run[d].visits = {}
  /\ Ends(d, IF run[d].failure = "yes" THEN "failed" ELSE "passed")
  /\ UNCHANGED <<accounts, rows, directory, edit, byHand, discarded>>

(* An exception, as of a session that uses a row removed by others, or the  *)
(* end of the process: what was committed stays.                            *)
Abort(d) ==
  /\ run[d].phase \notin Stopped
  /\ Ends(d, "failed")
  /\ UNCHANGED <<accounts, rows, directory, edit, byHand, discarded>>

-----------------------------------------------------------------------------
Operator ==
  \/ \E n \in Names, dm \in Domains : CreateAccount(n, dm)
  \/ \E a \in AccountIds : LookUpDeleted(a) \/ DeployUser(a)
  \/ CommitDelete
  \/ \E i \in RowIds : RemoveRow(i) \/ OverwriteRow(i)

Deploy(d) ==
  \/ Start(d) \/ Plan(d)
  \/ SkipDomain(d) \/ EnterDomain(d) \/ TrackAccount(d)
  \/ RunPush(d) \/ RecordPush(d) \/ LeaveDomain(d)
  \/ EndPush(d) \/ EnterReversal(d) \/ RunReversal(d)
  \/ ForgetAccount(d) \/ CloseReversal(d) \/ LeaveReversal(d)
  \/ EndReversal(d) \/ Abort(d)

Next == Operator \/ \E d \in Deploys : Deploy(d)

Spec == Init /\ [][Next]_vars

-----------------------------------------------------------------------------
(* What has no row by the operator's own doing: pushed by POST /users/{id}, *)
(* or with a row that was discarded.                                        *)
Excused == byHand \cup DiscardedPlaces

(* Whatever a deployment put in a directory was tracked first: a row names  *)
(* it, and the row was committed before the playbook ran, so that neither a *)
(* failure nor a crash nor a second deployment leaves an account nobody     *)
(* knows of.  What POST /users/{id} pushes has no row, and an operator may  *)
(* throw a row away.                                                        *)
DirectoryIsNamed ==
  \A p \in directory \ Excused : \E i \in DOMAIN rows : Place(i) = p

(* With one domain in reach, and edits or a second deployment but not both, *)
(* that row is still open: a row is closed only when the account has left   *)
(* the directory, so what is there can still be marked and reversed.        *)
DirectoryIsTracked ==
  \A p \in directory \ Excused :
    \E i \in DOMAIN rows : Place(i) = p /\ rows[i].status # "reverted_applied"

(* A row becomes APPLIED only when its account is in the directory, although*)
(* one call pushes a whole domain, may fail half-way, and has its result    *)
(* written row by row.                                                      *)
AppliedIsReal ==
  [][\A i \in DOMAIN rows' :
       rows'[i].status = "applied" /\ (i \in DOMAIN rows => rows[i].status # "applied")
         => Place(i)' \in directory]_vars

(* A row marked for reversal keeps its mark until the reversal is done,     *)
(* through failures, crashes and retries, when the operator waits for the   *)
(* end of a deployment before deleting anything.  Only he can take the mark *)
(* away, with the row or by overwriting its status.                         *)
MarkIsCarriedOut ==
  [][\A i \in RowsWith(rows, {"reverted_pending"}) :
       \/ /\ i \in DOMAIN rows'
          /\ rows'[i].status \in {"reverted_pending", "reverted_applied"}
       \/ RemoveRow(i) \/ OverwriteRow(i)]_vars

(* As long as no id served for two names, in the rows there are and those   *)
(* that were discarded.                                                     *)
Traces ==
  discarded \cup
    {[row |-> i, account |-> rows[i].account, place |-> Place(i)] : i \in DOMAIN rows}

IdsAreDistinct ==
  \A s, t \in Traces : s.account = t.account => s.place = t.place

(* An account leaves the database only after it left the directory, whether *)
(* it is deleted at once or by a reversal, under the same discipline, if it *)
(* has no namesake, its id served for no other name, and no row of it was   *)
(* discarded: without one, a deletion no longer knows of the directory.     *)
LeavesDirectoryFirst ==
  [][\A a \in DOMAIN accounts \ DOMAIN accounts' :
       LET place == <<accounts[a].domain, accounts[a].name>>
       IN  /\ IdsAreDistinct
           /\ \A b \in DOMAIN accounts \ {a} : accounts[b] # accounts[a]
           /\ place \notin Excused
           => place \notin directory]_vars

(* A deployment passes only when each account of its domains is in their    *)
(* directory, after any number of failed or interrupted ones, but for the   *)
(* names the code gives up on: those it reversed once or is about to, the   *)
(* users it failed to push once, and those of which a row was discarded:    *)
(* another may still say that the name was pushed.                          *)
PassedIsPushed ==
  [][\A d \in Deploys :
       run[d].phase \notin Stopped /\ run'[d].phase = "passed" =>
         \A a \in DOMAIN accounts' :
           LET place == <<accounts'[a].domain, accounts'[a].name>>
           IN  \/ place \in directory'
               \/ accounts'[a].domain \notin Reachable \cap Own(d)
               \/ place \in DiscardedPlaces'
               \/ \E i \in DOMAIN rows' :
                    /\ Place(i)' = place
                    /\ \/ rows'[i].status \in {"reverted_pending", "reverted_applied"}
                       \/ Kind = "users" /\ rows'[i].status = "error"]_vars

(* A deployment that passes has left no row marked: a reversal that failed  *)
(* somewhere fails it, and the next one finds the mark again.               *)
PassedIsReversed ==
  [][\A d \in Deploys :
       run[d].phase \notin Stopped /\ run'[d].phase = "passed" =>
         RowsWith(rows', {"reverted_pending"}) = {}]_vars

-----------------------------------------------------------------------------
(* Why every account in a directory is named by a row, when none is created *)
(* during a deployment, in a form every step preserves.                     *)

(* What a running deployment listed still has the name it was listed with.  *)
ListsStand ==
  \A d \in Deploys : run[d].phase \notin Stopped =>
    \A l \in run[d].listed \cup run[d].toTrack :
      l.id \in DOMAIN accounts => accounts[l.id].name = l.name

(* What its next playbook call is to create has a row, is yet to get one, or*)
(* lost it to the operator.                                                 *)
CallsAreTracked ==
  \A d \in Deploys : run[d].phase = "track" =>
    /\ run[d].domain \in Domains
    /\ \A n \in run[d].names :
         \/ \E i \in DOMAIN rows : Place(i) = <<run[d].domain, n>>
         \/ \E l \in run[d].toTrack : l.name = n /\ l.domain = run[d].domain
         \/ <<run[d].domain, n>> \in DiscardedPlaces

(* The inductive invariant of the module AccountPushProofs.                 *)
NamedInv ==
  /\ TypeOK
  /\ ListsStand
  /\ CallsAreTracked
  /\ DirectoryIsNamed

-----------------------------------------------------------------------------
(* "The deletion will be effective at the next deployment", the interface   *)
(* says: when the last deployment of each project passed, an account the    *)
(* database no longer has is in no directory.  The code does not keep this. *)
DeletionIsEffective ==
  (\A d \in Deploys : run[d].phase = "passed") =>
    \A p \in directory \ Excused :
      \E a \in DOMAIN accounts : <<accounts[a].domain, accounts[a].name>> = p

=============================================================================
