-------------------------- MODULE AccountPushProofs --------------------------
(***************************************************************************)
(* Proofs about AccountPush, for every lab and any number of racing, dying *)
(* and repeated deployments: its types, whatever an operator does          *)
(* meanwhile, and that nothing enters a directory unnamed, if the operator *)
(* creates no account while they run.                                      *)
(***************************************************************************)
EXTENDS AccountPush, AppliedTemplatesLemmas

-----------------------------------------------------------------------------
(* Facts about the local state of a deployment.                             *)

(* A deployment that is not running has a well-formed local state.          *)
LEMMA NotRunningType ==
  ASSUME NEW p \in Phase
  PROVE  NotRunning(p) \in RunState
  BY DEF NotRunning, RunState

(* A step gives one deployment a new local state and no other.              *)
LEMMA BecomesType ==
  ASSUME run \in [Deploys -> RunState], NEW d \in Deploys,
         NEW local \in RunState, Becomes(d, local)
  PROVE  /\ run' \in [Deploys -> RunState]
         /\ run'[d] = local
         /\ \A e \in Deploys \ {d} : run'[e] = run[e]
  BY DEF Becomes

(* A deployment that ends keeps nothing.                                    *)
LEMMA EndsType ==
  ASSUME run \in [Deploys -> RunState], NEW d \in Deploys,
         NEW p \in Phase, Ends(d, p)
  PROVE  /\ run' \in [Deploys -> RunState]
         /\ run'[d] = NotRunning(p)
         /\ \A e \in Deploys \ {d} : run'[e] = run[e]
  BY NotRunningType, BecomesType DEF Ends

(* Ids are numbers.                                                         *)
LEMMA IdsAreNumbers == AccountIds \subseteq Nat \ {0} /\ RowIds \subseteq Nat \ {0}
  BY BoundAssumption DEF AccountIds, RowIds

-----------------------------------------------------------------------------
(* Every variable keeps its type.                                           *)

(* The playbook is called for a domain, not for the 0 of a deployment that  *)
(* is in none: what keeps the type of the directory.                        *)
CallsHaveDomain ==
  \A d \in Deploys : run[d].phase = "track" => run[d].domain \in Domains

(* A step of a deployment keeps the type of its local state.                *)
LEMMA RunType ==
  ASSUME TypeOK, NEW d \in Deploys, Deploy(d)
  PROVE  run' \in [Deploys -> RunState]
<1> DEFINE r == run[d]
<1>0. run \in [Deploys -> RunState] /\ r \in RunState
  BY DEF TypeOK
<1> SUFFICES \/ \E p \in Phase : Ends(d, p)
             \/ \E local \in RunState : Becomes(d, local)
  BY <1>0, EndsType, BecomesType
<1>a. {"passed", "failed"} \subseteq Phase
  BY DEF Phase, Stopped
<1>1. CASE Start(d)
  <2> DEFINE local(view, visits) ==
        [NotRunning("plan") EXCEPT !.view = view, !.listed = NotPushed(d), !.visits = visits]
  <2>1. NotPushed(d) \subseteq Listing
    BY DEF NotPushed
  <2>2. ASSUME NEW view \in {"held", "expired"}, NEW visits \in SUBSET Domains
        PROVE  local(view, visits) \in RunState
    BY <2>1 DEF NotRunning, RunState, Phase
  <2>3. {l.domain : l \in NotPushed(d)} \subseteq Domains
    BY <2>1 DEF Listing
  <2>4. {accounts[a].domain : a \in DOMAIN accounts} \cap Own(d) \subseteq Domains
    BY DEF Own
  <2> DEFINE visits == IF NotPushed(d) = {} THEN {}
                       ELSE IF Kind = "users"
                       THEN {accounts[a].domain : a \in DOMAIN accounts} \cap Own(d)
                       ELSE {l.domain : l \in NotPushed(d)}
  <2>5. visits \in SUBSET Domains
    BY <2>3, <2>4
  <2>6. \E view \in {"held", "expired"} : Becomes(d, local(view, visits))
    BY <1>1 DEF Start
  <2> HIDE DEF local, visits
  <2> QED
    BY <2>2, <2>5, <2>6
<1>2. CASE Plan(d)
  <2>1. RowsWith(rows, {"reverted_pending"}) \subseteq RowIds
    BY DEF RowsWith, TypeOK
  <2>2. [r EXCEPT !.phase = "push", !.marked = RowsWith(rows, {"reverted_pending"})] \in RunState
    BY <1>0, <2>1 DEF RunState, Phase
  <2> QED
    BY <1>2, <2>2 DEF Plan
<1>3. CASE SkipDomain(d)
  <2>1. ASSUME NEW dm PROVE [r EXCEPT !.visits = @ \ {dm}] \in RunState
    BY <1>0 DEF RunState
  <2> QED
    BY <1>3, <2>1 DEF SkipDomain
<1>4. CASE EnterDomain(d)
  <2>1. ASSUME NEW dm \in Domains, NEW here \in SUBSET r.listed, \A l \in here : Visible(d, l)
        PROVE  [r EXCEPT !.phase = "track", !.domain = dm, !.toTrack = here,
                         !.names = {Seen(d, l).name : l \in here}] \in RunState
    <3>1. here \subseteq Listing
      BY <1>0 DEF RunState
    <3>2. {Seen(d, l).name : l \in here} \subseteq Names
      <4> SUFFICES ASSUME NEW l \in here PROVE Seen(d, l).name \in Names
        OBVIOUS
      <4>1. l \in Listing /\ Visible(d, l)
        BY <2>1, <3>1
      <4>2. l.id \in DOMAIN accounts => accounts[l.id].name \in Names
        BY DEF TypeOK, Account
      <4> QED
        BY <4>1, <4>2 DEF Seen, Visible, Listing
    <3> DEFINE names == {Seen(d, l).name : l \in here}
    <3> HIDE DEF names
    <3>3. names \subseteq Names
      BY <3>2 DEF names
    <3>4. [r EXCEPT !.phase = "track", !.domain = dm, !.toTrack = here,
                    !.names = names] \in RunState
      BY <1>0, <3>1, <3>3 DEF RunState, Phase
    <3> QED
      BY <3>4 DEF names
  <2>2. PICK dm \in r.visits \cap Reachable :
          LET here == {l \in r.listed : l.domain = dm}
          IN  IF \A l \in here : Visible(d, l)
              THEN Becomes(d, [r EXCEPT !.phase = "track", !.domain = dm,
                     !.toTrack = here, !.names = {Seen(d, l).name : l \in here}])
              ELSE Ends(d, "failed")
    BY <1>4 DEF EnterDomain
  <2>3. dm \in Domains
    BY <1>0 DEF RunState
  <2> DEFINE here == {l \in r.listed : l.domain = dm}
  <2>4. here \in SUBSET r.listed
    OBVIOUS
  <2> QED
    BY <1>a, <2>1, <2>2, <2>3, <2>4
<1>5. CASE TrackAccount(d)
  <2>1. ASSUME NEW l, NEW i \in RowIds
        PROVE  [r EXCEPT !.toTrack = @ \ {l}, !.mine = @ \cup {i}, !.view = "expired"] \in RunState
    BY <1>0 DEF RunState
  <2> QED
    BY <1>5, <1>a, <2>1 DEF TrackAccount
<1>6. CASE RunPush(d)
  <2>1. ASSUME NEW o \in {"done", "failed"}
        PROVE  [r EXCEPT !.phase = "record", !.outcome = o] \in RunState
    BY <1>0 DEF RunState, Phase
  <2> QED
    BY <1>6, <2>1 DEF RunPush
<1>7. CASE RecordPush(d)
  <2>1. ASSUME NEW i PROVE [r EXCEPT !.mine = @ \ {i}, !.view = "expired"] \in RunState
    BY <1>0 DEF RunState
  <2> QED
    BY <1>7, <2>1 DEF RecordPush
<1>8. CASE LeaveDomain(d)
  <2>1. [r EXCEPT !.phase = "push", !.names = {}, !.outcome = "unknown",
                  !.domain = 0, !.visits = @ \ {r.domain}] \in RunState
    BY <1>0 DEF RunState, Phase
  <2> QED
    BY <1>8, <1>a, <2>1 DEF LeaveDomain
<1>9. CASE EndPush(d)
  <2>1. [r EXCEPT !.phase = "reverse", !.listed = {}, !.visits = Own(d)] \in RunState
    BY <1>0 DEF RunState, Phase, Own
  <2> QED
    BY <1>9, <1>a, <2>1 DEF EndPush
<1>10. CASE EnterReversal(d)
  <2>1. ASSUME NEW dm
        PROVE  [r EXCEPT !.visits = @ \ {dm}, !.failure = "yes"] \in RunState
    BY <1>0 DEF RunState
  <2>2. ASSUME NEW dm \in Domains
        PROVE  [r EXCEPT !.phase = "script", !.domain = dm, !.toReverse = r.marked] \in RunState
    BY <1>0 DEF RunState, Phase
  <2>3. r.visits \subseteq Domains
    BY <1>0 DEF RunState
  <2>4. PICK dm \in r.visits :
          CASE RootDc[dm] = "missing" -> Ends(d, "failed")
            [] RootDc[dm] = "no_ip"   -> Becomes(d, [r EXCEPT !.visits = @ \ {dm}, !.failure = "yes"])
            [] RootDc[dm] = "ok"      -> Becomes(d, [r EXCEPT
                 !.phase = "script", !.domain = dm, !.toReverse = r.marked])
    BY <1>10 DEF EnterReversal
  <2>5. dm \in Domains /\ RootDc[dm] \in {"missing", "no_ip", "ok"}
    BY <2>3, LabAssumption
  <2>6. CASE RootDc[dm] = "missing"
    BY <1>a, <2>4, <2>6
  <2>7. CASE RootDc[dm] = "no_ip"
    BY <2>1, <2>4, <2>7
  <2>8. CASE RootDc[dm] = "ok"
    BY <2>2, <2>4, <2>5, <2>8
  <2> QED
    BY <2>5, <2>6, <2>7, <2>8
<1>11. CASE RunReversal(d)
  <2>1. ASSUME NEW i
        PROVE  /\ [r EXCEPT !.phase = "forget"] \in RunState
               /\ [r EXCEPT !.toReverse = @ \ {i}, !.failure = "yes"] \in RunState
    BY <1>0 DEF RunState, Phase
  <2> QED
    BY <1>11, <2>1 DEF RunReversal
<1>12. CASE ForgetAccount(d)
  <2>1. [r EXCEPT !.phase = "close", !.view = "expired"] \in RunState
    BY <1>0 DEF RunState, Phase
  <2> QED
    BY <1>12, <2>1 DEF ForgetAccount
<1>13. CASE CloseReversal(d)
  <2>1. ASSUME NEW i
        PROVE  [r EXCEPT !.phase = "script", !.toReverse = @ \ {i}] \in RunState
    BY <1>0 DEF RunState, Phase
  <2> QED
    BY <1>13, <2>1 DEF CloseReversal
<1>14. CASE LeaveReversal(d)
  <2>1. [r EXCEPT !.phase = "reverse", !.domain = 0, !.visits = @ \ {r.domain}] \in RunState
    BY <1>0 DEF RunState, Phase
  <2> QED
    BY <1>14, <2>1 DEF LeaveReversal
<1>15. CASE EndReversal(d) \/ Abort(d)
  BY <1>15, <1>a DEF EndReversal, Abort
<1> QED
  BY <1>1, <1>2, <1>3, <1>4, <1>5, <1>6, <1>7, <1>8, <1>9, <1>10, <1>11, <1>12,
     <1>13, <1>14, <1>15 DEF Deploy

(* What an operator discards stays on record, as a row that there was.      *)
LEMMA DiscardStep ==
  ASSUME TypeOK, NEW i \in RowIds, i \in DOMAIN rows, NoteDiscard(i)
  PROVE  discarded \subseteq discarded' /\ discarded' \subseteq Discard
         /\ Place(i) \in DiscardedPlaces'
<1> DEFINE t == [row |-> i, account |-> rows[i].account, place |-> Place(i)]
<1>1. discarded' = discarded \cup {t}
  BY DEF NoteDiscard
<1>2. t \in Discard
  BY DEF TypeOK, PushRow, Discard, Place
<1>3. t.place = Place(i)
  OBVIOUS
<1> HIDE DEF t
<1>4. t \in discarded'
  BY <1>1
<1> QED
  BY <1>1, <1>2, <1>3, <1>4 DEF TypeOK, DiscardedPlaces

(* The rows a step leaves: those there were, each with its place, but for   *)
(* what the operator discards, and perhaps one more.                        *)
LEMMA RowsGrow ==
  ASSUME TypeOK, [Next]_vars
  PROVE  /\ DOMAIN rows' \subseteq RowIds
         /\ \A i \in DOMAIN rows' : rows'[i] \in PushRow
         /\ \A i \in DOMAIN rows : \/ i \in DOMAIN rows' /\ Place(i)' = Place(i)
                                  \/ Place(i) \in DiscardedPlaces'
         /\ discarded \subseteq discarded'
         /\ discarded' \subseteq Discard
         /\ DiscardedPlaces \subseteq DiscardedPlaces'
<1> DEFINE Typed == /\ DOMAIN rows' \subseteq RowIds
                    /\ \A i \in DOMAIN rows' : rows'[i] \in PushRow
           Stays(i) == /\ i \in DOMAIN rows'
                       /\ rows'[i].domain = rows[i].domain
                       /\ rows'[i].name = rows[i].name
           Good == /\ Typed
                   /\ \A i \in DOMAIN rows : Stays(i)
           Left == /\ Typed
                   /\ \A i \in DOMAIN rows : Stays(i) \/ Place(i) \in DiscardedPlaces'
                   /\ discarded \subseteq discarded'
                   /\ discarded' \subseteq Discard
<1>0. /\ DOMAIN rows \subseteq RowIds
      /\ \A i \in DOMAIN rows : rows[i] \in PushRow
      /\ discarded \subseteq Discard
  BY DEF TypeOK
<1> SUFFICES Left
  BY DEF Place, DiscardedPlaces
<1>1. ASSUME NEW i \in RowIds, NEW st \in TemplateStatus, rows' = UpdateStatus(rows, i, st)
      PROVE  Good
  <2>1. /\ DOMAIN rows' = DOMAIN rows
        /\ \A j \in DOMAIN rows :
             rows'[j] = rows[j] \/ rows'[j] = [rows[j] EXCEPT !.status = st]
    BY <1>1 DEF UpdateStatus
  <2>2. \A j \in DOMAIN rows :
          /\ [rows[j] EXCEPT !.status = st] \in PushRow
          /\ [rows[j] EXCEPT !.status = st].domain = rows[j].domain
          /\ [rows[j] EXCEPT !.status = st].name = rows[j].name
    BY <1>0 DEF PushRow
  <2> QED
    BY <1>0, <2>1, <2>2
<1>2. ASSUME NEW i \in RowIds, NEW row \in PushRow, IsNextId(rows, i),
             rows' = CreateRow(rows, i, row)
      PROVE  Good
  <2>1. i \notin DOMAIN rows
    BY <1>2, IdsAreNumbers, NextIdIsNew
  <2>2. /\ DOMAIN rows' = DOMAIN rows \cup {i}
        /\ rows'[i] = row
        /\ \A j \in DOMAIN rows : rows'[j] = rows[j]
    BY <1>2, <2>1 DEF CreateRow
  <2> QED
    BY <1>0, <1>2, <2>2
<1>3. ASSUME UNCHANGED rows PROVE Good
  BY <1>0, <1>3
<1>9. ASSUME Good, UNCHANGED discarded PROVE Left
  BY <1>0, <1>9
<1>10. ASSUME NEW i \in RowIds, OverwriteRow(i) PROVE Left
  <2>1. rows' = UpdateStatus(rows, i, "error") /\ NoteDiscard(i) /\ i \in DOMAIN rows
    BY <1>10 DEF OverwriteRow
  <2>2. Good
    BY <1>1, <2>1 DEF TemplateStatus
  <2> HIDE DEF Typed, Stays
  <2> QED
    BY <2>1, <2>2, DiscardStep
<1>11. ASSUME NEW i \in RowIds, RemoveRow(i) PROVE Left
  <2>1. rows' = DeleteRow(rows, i) /\ NoteDiscard(i) /\ i \in DOMAIN rows
    BY <1>11 DEF RemoveRow
  <2>2. /\ DOMAIN rows' = DOMAIN rows \ {i}
        /\ \A j \in DOMAIN rows \ {i} : rows'[j] = rows[j]
    BY <2>1, DeletedRow
  <2>3. Typed /\ \A j \in DOMAIN rows \ {i} : Stays(j)
    BY <1>0, <2>2
  <2> HIDE DEF Typed, Stays
  <2> QED
    BY <2>1, <2>3, DiscardStep
<1> HIDE DEF Good, Left
<1>4. ASSUME CommitDelete PROVE Good
  <2>1. CASE edit.row = 0 \/ edit.status = "reverted_pending"
    BY <1>3, <1>4, <2>1 DEF CommitDelete
  <2>2. CASE edit.row # 0 /\ edit.status # "reverted_pending"
    <3>1. edit.row \in RowIds
      BY <1>4, <2>2 DEF CommitDelete, TypeOK, Edits
    <3>2. rows' = UpdateStatus(rows, edit.row, "reverted_pending")
      BY <1>4, <2>2 DEF CommitDelete
    <3> QED
      BY <1>1, <3>1, <3>2 DEF TemplateStatus
  <2> QED
    BY <2>1, <2>2
<1>5. ASSUME NEW d \in Deploys, TrackAccount(d) PROVE Good
  <2>1. run[d].toTrack \subseteq Listing
    BY DEF TypeOK, RunState
  <2>2. PICK l \in run[d].toTrack :
          \/ /\ Visible(d, l)
             /\ \E i \in RowIds :
                  /\ IsNextId(rows, i)
                  /\ rows' = CreateRow(rows, i,
                       [account |-> l.id, name |-> Seen(d, l).name,
                        domain |-> l.domain, status |-> "pending"])
          \/ UNCHANGED rows
    BY <1>5 DEF TrackAccount
  <2>3. Visible(d, l) => Seen(d, l).name \in Names
    <3>1. l.id \in DOMAIN accounts => accounts[l.id].name \in Names
      BY DEF TypeOK, Account
    <3> QED
      BY <2>1, <3>1 DEF Seen, Visible, Listing
  <2> DEFINE row == [account |-> l.id, name |-> Seen(d, l).name,
                     domain |-> l.domain, status |-> "pending"]
  <2>4. Visible(d, l) => row \in PushRow
    BY <2>1, <2>3 DEF PushRow, Listing, TemplateStatus
  <2> HIDE DEF row
  <2>5. \/ Visible(d, l) /\ \E i \in RowIds : IsNextId(rows, i) /\ rows' = CreateRow(rows, i, row)
        \/ UNCHANGED rows
    BY <2>2 DEF row
  <2> QED
    BY <1>2, <1>3, <2>4, <2>5
<1>6. ASSUME NEW d \in Deploys, RecordPush(d) \/ CloseReversal(d) PROVE Good
  <2>1. run[d].mine \subseteq RowIds /\ run[d].toReverse \subseteq RowIds
    BY DEF TypeOK, RunState
  <2>2. \E i \in RowIds, st \in TemplateStatus : rows' = UpdateStatus(rows, i, st)
    BY <1>6, <2>1 DEF RecordPush, CloseReversal, TemplateStatus
  <2> QED
    BY <1>1, <2>2
<1>7. \/ UNCHANGED <<rows, discarded>>
      \/ CommitDelete /\ UNCHANGED discarded
      \/ \E d \in Deploys : /\ TrackAccount(d) \/ RecordPush(d) \/ CloseReversal(d)
                           /\ UNCHANGED discarded
      \/ \E i \in RowIds : RemoveRow(i) \/ OverwriteRow(i)
  BY DEF Next, Operator, Deploy, CreateAccount, LookUpDeleted, CommitDelete,
         DeployUser, Start, Plan, SkipDomain, EnterDomain, TrackAccount, RunPush,
         RecordPush, LeaveDomain, EndPush, EnterReversal, RunReversal,
         ForgetAccount, CloseReversal, LeaveReversal, EndReversal, Abort, vars
<1> QED
  BY <1>3, <1>4, <1>5, <1>6, <1>7, <1>9, <1>10, <1>11

(* The accounts a step leaves: the same but for removals, or, with no       *)
(* deployment running or creations allowed, one more.                       *)
LEMMA AccountsChange ==
  ASSUME TypeOK, [Next]_vars
  PROVE  /\ DOMAIN accounts' \subseteq AccountIds
         /\ \A a \in DOMAIN accounts' : accounts'[a] \in Account
         /\ \/ \A a \in DOMAIN accounts' : a \in DOMAIN accounts /\ accounts'[a] = accounts[a]
            \/ MayEdit("create") /\ UNCHANGED run
<1>0. /\ DOMAIN accounts \subseteq AccountIds
      /\ \A a \in DOMAIN accounts : accounts[a] \in Account
  BY DEF TypeOK
<1>1. ASSUME NEW n \in Names, NEW dm \in Domains, CreateAccount(n, dm)
      PROVE  /\ DOMAIN accounts' \subseteq AccountIds
             /\ \A a \in DOMAIN accounts' : accounts'[a] \in Account
             /\ MayEdit("create") /\ UNCHANGED run
  <2> DEFINE row == [name |-> n, domain |-> dm]
  <2>1. row \in Account
    BY DEF Account
  <2> HIDE DEF row
  <2>2. PICK a \in AccountIds : IsNextId(accounts, a) /\ accounts' = CreateRow(accounts, a, row)
    BY <1>1 DEF CreateAccount, row
  <2>3. a \notin DOMAIN accounts
    BY <2>2, IdsAreNumbers, NextIdIsNew
  <2>4. /\ DOMAIN accounts' = DOMAIN accounts \cup {a}
        /\ accounts'[a] = row
        /\ \A b \in DOMAIN accounts : accounts'[b] = accounts[b]
    BY <2>2, <2>3 DEF CreateRow
  <2>5. MayEdit("create") /\ UNCHANGED run
    BY <1>1 DEF CreateAccount
  <2> QED
    BY <1>0, <2>1, <2>4, <2>5
<1>2. ASSUME NEW gone, accounts' = [a \in DOMAIN accounts \ gone |-> accounts[a]]
      PROVE  \A a \in DOMAIN accounts' : a \in DOMAIN accounts /\ accounts'[a] = accounts[a]
  BY <1>2
<1>3. \/ UNCHANGED accounts
      \/ \E gone : accounts' = [a \in DOMAIN accounts \ gone |-> accounts[a]]
      \/ \E n \in Names, dm \in Domains : CreateAccount(n, dm)
  <2>1. CommitDelete => \/ UNCHANGED accounts
                        \/ \E gone : accounts' = [a \in DOMAIN accounts \ gone |-> accounts[a]]
    BY DEF CommitDelete
  <2>2. ASSUME NEW d \in Deploys, ForgetAccount(d)
        PROVE  \E gone : accounts' = [a \in DOMAIN accounts \ gone |-> accounts[a]]
    BY <2>2 DEF ForgetAccount
  <2>3. \/ UNCHANGED accounts
        \/ CommitDelete
        \/ \E n \in Names, dm \in Domains : CreateAccount(n, dm)
        \/ \E d \in Deploys : ForgetAccount(d)
    BY DEF Next, Operator, Deploy, LookUpDeleted, DeployUser, RemoveRow, OverwriteRow,
           Start, Plan, SkipDomain, EnterDomain, TrackAccount, RunPush, RecordPush,
           LeaveDomain, EndPush, EnterReversal, RunReversal, CloseReversal,
           LeaveReversal, EndReversal, Abort, vars
  <2> QED
    BY <2>1, <2>2, <2>3
<1> QED
  BY <1>0, <1>1, <1>2, <1>3

(* What enters a directory, and how.                                        *)
LEMMA DirectoryChange ==
  ASSUME TypeOK, CallsHaveDomain, [Next]_vars
  PROVE  /\ directory' \subseteq Domains \X Names
         /\ byHand' \subseteq Domains \X Names
         /\ byHand \subseteq byHand'
         /\ \A p \in directory' \ directory :
              \/ p \in byHand'
              \/ \E d \in Deploys : /\ RunPush(d)
                                   /\ \E n \in run[d].names : p = <<run[d].domain, n>>
<1>0. directory \subseteq Domains \X Names /\ byHand \subseteq Domains \X Names
  BY DEF TypeOK
<1>1. ASSUME NEW a \in AccountIds, DeployUser(a)
      PROVE  \E p \in Domains \X Names :
               directory' = directory \cup {p} /\ byHand' = byHand \cup {p}
  BY <1>1 DEF DeployUser, TypeOK, Account
<1>2. ASSUME NEW d \in Deploys, RunPush(d)
      PROVE  /\ UNCHANGED byHand
             /\ directory' \subseteq Domains \X Names
             /\ \A p \in directory' \ directory :
                  \E n \in run[d].names : p = <<run[d].domain, n>>
  <2>1. run[d].domain \in Domains /\ run[d].names \subseteq Names
    BY <1>2 DEF RunPush, CallsHaveDomain, TypeOK, RunState
  <2>2. PICK some \in SUBSET run[d].names :
          directory' = directory \cup {<<run[d].domain, n>> : n \in some}
    BY <1>2 DEF RunPush
  <2> QED
    BY <1>0, <1>2, <2>1, <2>2 DEF RunPush
<1>3. ASSUME NEW d \in Deploys, RunReversal(d)
      PROVE  directory' \subseteq directory /\ UNCHANGED byHand
  BY <1>3 DEF RunReversal
<1>4. \/ UNCHANGED <<directory, byHand>>
      \/ \E a \in AccountIds : DeployUser(a)
      \/ \E d \in Deploys : RunPush(d) \/ RunReversal(d)
  BY DEF Next, Operator, Deploy, CreateAccount, LookUpDeleted, CommitDelete,
         RemoveRow, OverwriteRow, Start, Plan, SkipDomain, EnterDomain, TrackAccount, RecordPush,
         LeaveDomain, EndPush, EnterReversal, ForgetAccount, CloseReversal,
         LeaveReversal, EndReversal, Abort, vars
<1>5. CASE UNCHANGED <<directory, byHand>>
  BY <1>0, <1>5
<1>6. CASE \E a \in AccountIds : DeployUser(a)
  BY <1>0, <1>1, <1>6
<1>7. CASE \E d \in Deploys : RunPush(d) \/ RunReversal(d)
  BY <1>0, <1>2, <1>3, <1>7
<1> QED
  BY <1>4, <1>5, <1>6, <1>7

(* No step leaves a variable without its type.                              *)
LEMMA TypeStep == TypeOK /\ CallsHaveDomain /\ [Next]_vars => TypeOK'
<1> SUFFICES ASSUME TypeOK, CallsHaveDomain, [Next]_vars PROVE TypeOK'
  OBVIOUS
<1>1. edit' \in Edits \cup {NoEdit}
  <2>1. ASSUME NEW a \in AccountIds, LookUpDeleted(a) PROVE edit' \in Edits
    <3>1. [account |-> a, row |-> 0, status |-> "pending"] \in Edits
      BY DEF Edits, TemplateStatus
    <3>2. ASSUME NEW i \in DOMAIN rows
          PROVE  [account |-> a, row |-> i, status |-> rows[i].status] \in Edits
      BY DEF Edits, TypeOK, PushRow
    <3> QED
      BY <2>1, <3>1, <3>2 DEF LookUpDeleted
  <2>2. \/ UNCHANGED edit
        \/ edit' = NoEdit
        \/ \E a \in AccountIds : LookUpDeleted(a)
    BY DEF Next, Operator, Deploy, CreateAccount, CommitDelete, DeployUser,
           RemoveRow, OverwriteRow, Start, Plan, SkipDomain, EnterDomain, TrackAccount, RunPush,
           RecordPush, LeaveDomain, EndPush, EnterReversal, RunReversal,
           ForgetAccount, CloseReversal, LeaveReversal, EndReversal, Abort, vars
  <2> QED
    BY <2>1, <2>2 DEF TypeOK
<1>2. run' \in [Deploys -> RunState]
  <2>1. UNCHANGED run \/ \E d \in Deploys : Deploy(d)
    BY DEF Next, Operator, CreateAccount, LookUpDeleted, CommitDelete,
           DeployUser, RemoveRow, OverwriteRow, vars
  <2> QED
    BY <2>1, RunType DEF TypeOK
<1>3. /\ DOMAIN rows' \subseteq RowIds
      /\ \A i \in DOMAIN rows' : rows'[i] \in PushRow
      /\ discarded' \subseteq Discard
  BY RowsGrow
<1>4. /\ DOMAIN accounts' \subseteq AccountIds
      /\ \A a \in DOMAIN accounts' : accounts'[a] \in Account
  BY AccountsChange
<1>5. directory' \subseteq Domains \X Names /\ byHand' \subseteq Domains \X Names
  BY DirectoryChange
<1> QED
  BY <1>1, <1>2, <1>3, <1>4, <1>5 DEF TypeOK

-----------------------------------------------------------------------------
(* What happens to the lists of a deployment.                               *)

(* After a step, a deployment has stopped, was just started, or has in its  *)
(* lists only what it had; what it has yet to track it had listed, or had   *)
(* yet to track.  It is tracking only if that step was one of two.          *)
LEMMA ListsAfter ==
  ASSUME TypeOK, NEW d \in Deploys, Deploy(d)
  PROVE  \/ run'[d].phase \in Stopped
         \/ Start(d) /\ run'[d].listed = NotPushed(d) /\ run'[d].toTrack = {}
         \/ /\ run[d].phase \notin Stopped
            /\ run'[d].listed \cup run'[d].toTrack \subseteq run[d].listed \cup run[d].toTrack
            /\ run'[d].phase = "track" => EnterDomain(d) \/ TrackAccount(d)
<1>0. run \in [Deploys -> RunState] /\ run[d] \in RunState
  BY DEF TypeOK
<1>1. ASSUME NEW p \in {"passed", "failed"}, Ends(d, p) PROVE run'[d].phase \in Stopped
  <2>1. run'[d] = NotRunning(p)
    BY <1>0, <1>1 DEF Ends, Becomes
  <2> QED
    BY <2>1 DEF NotRunning, Stopped
<1>2. ASSUME NEW local, Becomes(d, local) PROVE run'[d] = local
  BY <1>0, <1>2 DEF Becomes
<1> DEFINE Kept == /\ run[d].phase \notin Stopped
                   /\ run'[d].listed \cup run'[d].toTrack \subseteq run[d].listed \cup run[d].toTrack
                   /\ run'[d].phase = "track" => EnterDomain(d) \/ TrackAccount(d)
<1> SUFFICES \/ run'[d].phase \in Stopped
             \/ Start(d) /\ run'[d].listed = NotPushed(d) /\ run'[d].toTrack = {}
             \/ Kept
  OBVIOUS
<1>3. CASE Start(d)
  <2>1. PICK view, visits :
          Becomes(d, [NotRunning("plan") EXCEPT !.view = view, !.listed = NotPushed(d),
                                                !.visits = visits])
    BY <1>3 DEF Start
  <2>2. run'[d] = [NotRunning("plan") EXCEPT !.view = view, !.listed = NotPushed(d),
                                             !.visits = visits]
    BY <1>2, <2>1
  <2>3. run'[d].listed = NotPushed(d) /\ run'[d].toTrack = {}
    BY <2>2 DEF NotRunning
  <2> QED
    BY <1>3, <2>3
<1>4. CASE EnterDomain(d)
  <2>1. run[d].phase \notin Stopped
    BY <1>4 DEF EnterDomain, Stopped
  <2>2. PICK dm :
          \/ Becomes(d, [run[d] EXCEPT !.phase = "track", !.domain = dm,
                 !.toTrack = {l \in run[d].listed : l.domain = dm},
                 !.names = {Seen(d, l).name : l \in {k \in run[d].listed : k.domain = dm}}])
          \/ Ends(d, "failed")
    BY <1>4 DEF EnterDomain
  <2>3. ASSUME NEW here \in SUBSET run[d].listed, NEW names,
               Becomes(d, [run[d] EXCEPT !.phase = "track", !.domain = dm,
                             !.toTrack = here, !.names = names])
        PROVE  Kept
    <3>1. run'[d] = [run[d] EXCEPT !.phase = "track", !.domain = dm,
                                   !.toTrack = here, !.names = names]
      BY <1>2, <2>3
    <3>2. run'[d].listed = run[d].listed /\ run'[d].toTrack = here
      BY <1>0, <3>1 DEF RunState
    <3> QED
      BY <1>4, <2>1, <3>2
  <2>4. {l \in run[d].listed : l.domain = dm} \in SUBSET run[d].listed
    OBVIOUS
  <2> HIDE DEF Kept
  <2>5. CASE Ends(d, "failed")
    BY <1>1, <2>5
  <2> QED
    BY <2>2, <2>3, <2>4, <2>5
<1>5. CASE TrackAccount(d)
  <2>1. run[d].phase \notin Stopped
    BY <1>5 DEF TrackAccount, Stopped
  <2>2. PICK l, i :
          \/ Becomes(d, [run[d] EXCEPT !.toTrack = @ \ {l}, !.mine = @ \cup {i},
                                       !.view = "expired"])
          \/ Ends(d, "failed")
    BY <1>5 DEF TrackAccount
  <2>3. CASE Becomes(d, [run[d] EXCEPT !.toTrack = @ \ {l}, !.mine = @ \cup {i},
                                      !.view = "expired"])
    <3>1. run'[d] = [run[d] EXCEPT !.toTrack = @ \ {l}, !.mine = @ \cup {i},
                                   !.view = "expired"]
      BY <1>2, <2>3
    <3>2. run'[d].listed = run[d].listed /\ run'[d].toTrack = run[d].toTrack \ {l}
      BY <1>0, <3>1 DEF RunState
    <3> QED
      BY <1>5, <2>1, <3>2
  <2>4. CASE Ends(d, "failed")
    BY <1>1, <2>4
  <2> QED
    BY <2>2, <2>3, <2>4
<1>6. ASSUME NEW local, Becomes(d, local), run[d].phase \notin Stopped,
             local.listed \subseteq run[d].listed, local.toTrack = run[d].toTrack,
             local.phase # "track"
      PROVE  Kept
  BY <1>2, <1>6
<1> HIDE DEF Kept
<1>7. CASE Plan(d)
  <2>1. ASSUME NEW m
        PROVE  /\ [run[d] EXCEPT !.phase = "push", !.marked = m].listed = run[d].listed
               /\ [run[d] EXCEPT !.phase = "push", !.marked = m].toTrack = run[d].toTrack
               /\ [run[d] EXCEPT !.phase = "push", !.marked = m].phase # "track"
    BY <1>0, <1>7 DEF Plan, RunState
  <2>2. run[d].phase \notin Stopped
    BY <1>7 DEF Plan, Stopped
  <2>3. \E m : Becomes(d, [run[d] EXCEPT !.phase = "push", !.marked = m])
    BY <1>7 DEF Plan
  <2> QED
    BY <1>6, <2>1, <2>2, <2>3
<1>8. CASE SkipDomain(d)
  <2>1. ASSUME NEW dm
        PROVE  /\ [run[d] EXCEPT !.visits = @ \ {dm}].listed = run[d].listed
               /\ [run[d] EXCEPT !.visits = @ \ {dm}].toTrack = run[d].toTrack
               /\ [run[d] EXCEPT !.visits = @ \ {dm}].phase # "track"
    BY <1>0, <1>8 DEF SkipDomain, RunState
  <2>2. run[d].phase \notin Stopped
    BY <1>8 DEF SkipDomain, Stopped
  <2>3. \E dm : Becomes(d, [run[d] EXCEPT !.visits = @ \ {dm}])
    BY <1>8 DEF SkipDomain
  <2> QED
    BY <1>6, <2>1, <2>2, <2>3
<1>9. CASE RunPush(d)
  <2>1. ASSUME NEW o
        PROVE  /\ [run[d] EXCEPT !.phase = "record", !.outcome = o].listed = run[d].listed
               /\ [run[d] EXCEPT !.phase = "record", !.outcome = o].toTrack = run[d].toTrack
               /\ [run[d] EXCEPT !.phase = "record", !.outcome = o].phase # "track"
    BY <1>0, <1>9 DEF RunPush, RunState
  <2>2. run[d].phase \notin Stopped
    BY <1>9 DEF RunPush, Stopped
  <2>3. \E o : Becomes(d, [run[d] EXCEPT !.phase = "record", !.outcome = o])
    BY <1>9 DEF RunPush
  <2> QED
    BY <1>6, <2>1, <2>2, <2>3
<1>10. CASE RecordPush(d)
  <2>1. ASSUME NEW i
        PROVE  /\ [run[d] EXCEPT !.mine = @ \ {i}, !.view = "expired"].listed = run[d].listed
               /\ [run[d] EXCEPT !.mine = @ \ {i}, !.view = "expired"].toTrack = run[d].toTrack
               /\ [run[d] EXCEPT !.mine = @ \ {i}, !.view = "expired"].phase # "track"
    BY <1>0, <1>10 DEF RecordPush, RunState
  <2>2. run[d].phase \notin Stopped
    BY <1>10 DEF RecordPush, Stopped
  <2>3. \E i : Becomes(d, [run[d] EXCEPT !.mine = @ \ {i}, !.view = "expired"])
    BY <1>10 DEF RecordPush
  <2> QED
    BY <1>6, <2>1, <2>2, <2>3
<1>11. CASE LeaveDomain(d)
  <2> DEFINE local == [run[d] EXCEPT !.phase = "push", !.names = {}, !.outcome = "unknown",
                         !.domain = 0, !.visits = @ \ {run[d].domain}]
  <2>1. local.listed = run[d].listed /\ local.toTrack = run[d].toTrack /\ local.phase # "track"
    BY <1>0, <1>11 DEF LeaveDomain, RunState
  <2>2. run[d].phase \notin Stopped
    BY <1>11 DEF LeaveDomain, Stopped
  <2>3. Becomes(d, local) \/ \E p \in {"passed", "failed"} : Ends(d, p)
    BY <1>11 DEF LeaveDomain
  <2> HIDE DEF local
  <2> QED
    BY <1>1, <1>6, <2>1, <2>2, <2>3
<1>12. CASE EndPush(d)
  <2> DEFINE local == [run[d] EXCEPT !.phase = "reverse", !.listed = {}, !.visits = Own(d)]
  <2>1. local.listed = {} /\ local.toTrack = run[d].toTrack /\ local.phase # "track"
    BY <1>0, <1>12 DEF EndPush, RunState
  <2>2. run[d].phase \notin Stopped
    BY <1>12 DEF EndPush, Stopped
  <2>3. Becomes(d, local) \/ \E p \in {"passed", "failed"} : Ends(d, p)
    BY <1>12 DEF EndPush
  <2> HIDE DEF local
  <2> QED
    BY <1>1, <1>6, <2>1, <2>2, <2>3
<1>13. CASE ForgetAccount(d)
  <2> DEFINE local == [run[d] EXCEPT !.phase = "close", !.view = "expired"]
  <2>1. local.listed = run[d].listed /\ local.toTrack = run[d].toTrack /\ local.phase # "track"
    BY <1>0, <1>13 DEF ForgetAccount, RunState
  <2>2. run[d].phase \notin Stopped
    BY <1>13 DEF ForgetAccount, Stopped
  <2>3. Becomes(d, local)
    BY <1>13 DEF ForgetAccount
  <2> HIDE DEF local
  <2> QED
    BY <1>1, <1>6, <2>1, <2>2, <2>3
<1>14. CASE CloseReversal(d)
  <2>1. ASSUME NEW i
        PROVE  /\ [run[d] EXCEPT !.phase = "script", !.toReverse = @ \ {i}].listed = run[d].listed
               /\ [run[d] EXCEPT !.phase = "script", !.toReverse = @ \ {i}].toTrack = run[d].toTrack
               /\ [run[d] EXCEPT !.phase = "script", !.toReverse = @ \ {i}].phase # "track"
    BY <1>0, <1>14 DEF CloseReversal, RunState
  <2>2. run[d].phase \notin Stopped
    BY <1>14 DEF CloseReversal, Stopped
  <2>3. \E i : Becomes(d, [run[d] EXCEPT !.phase = "script", !.toReverse = @ \ {i}])
    BY <1>14 DEF CloseReversal
  <2> QED
    BY <1>6, <2>1, <2>2, <2>3
<1>15. CASE LeaveReversal(d)
  <2> DEFINE local == [run[d] EXCEPT !.phase = "reverse", !.domain = 0,
                         !.visits = @ \ {run[d].domain}]
  <2>1. local.listed = run[d].listed /\ local.toTrack = run[d].toTrack /\ local.phase # "track"
    BY <1>0, <1>15 DEF LeaveReversal, RunState
  <2>2. run[d].phase \notin Stopped
    BY <1>15 DEF LeaveReversal, Stopped
  <2>3. Becomes(d, local)
    BY <1>15 DEF LeaveReversal
  <2> HIDE DEF local
  <2> QED
    BY <1>1, <1>6, <2>1, <2>2, <2>3
<1>16. CASE RunReversal(d)
  <2>1. ASSUME NEW i
        PROVE  /\ [run[d] EXCEPT !.phase = "forget"].listed = run[d].listed
               /\ [run[d] EXCEPT !.phase = "forget"].toTrack = run[d].toTrack
               /\ [run[d] EXCEPT !.toReverse = @ \ {i}, !.failure = "yes"].listed = run[d].listed
               /\ [run[d] EXCEPT !.toReverse = @ \ {i}, !.failure = "yes"].toTrack = run[d].toTrack
               /\ [run[d] EXCEPT !.phase = "forget"].phase # "track"
               /\ [run[d] EXCEPT !.toReverse = @ \ {i}, !.failure = "yes"].phase # "track"
    BY <1>0, <1>16 DEF RunReversal, RunState
  <2>2. run[d].phase \notin Stopped
    BY <1>16 DEF RunReversal, Stopped
  <2>3. \E i : \/ Becomes(d, [run[d] EXCEPT !.phase = "forget"])
               \/ Becomes(d, [run[d] EXCEPT !.toReverse = @ \ {i}, !.failure = "yes"])
    BY <1>16 DEF RunReversal
  <2> QED
    BY <1>6, <2>1, <2>2, <2>3
<1>17. CASE EnterReversal(d)
  <2>1. PICK dm \in run[d].visits :
          CASE RootDc[dm] = "missing" -> Ends(d, "failed")
            [] RootDc[dm] = "no_ip"   -> Becomes(d, [run[d] EXCEPT
                 !.visits = @ \ {dm}, !.failure = "yes"])
            [] RootDc[dm] = "ok"      -> Becomes(d, [run[d] EXCEPT
                 !.phase = "script", !.domain = dm, !.toReverse = run[d].marked])
    BY <1>17 DEF EnterReversal
  <2>2. RootDc[dm] \in {"missing", "no_ip", "ok"}
    BY <1>0, LabAssumption DEF RunState
  <2> DEFINE skip == [run[d] EXCEPT !.visits = @ \ {dm}, !.failure = "yes"]
             go   == [run[d] EXCEPT !.phase = "script", !.domain = dm, !.toReverse = run[d].marked]
  <2>3. Ends(d, "failed") \/ Becomes(d, skip) \/ Becomes(d, go)
    BY <2>1, <2>2
  <2>4. /\ skip.listed = run[d].listed /\ skip.toTrack = run[d].toTrack
        /\ go.listed = run[d].listed /\ go.toTrack = run[d].toTrack
        /\ skip.phase # "track" /\ go.phase # "track"
    BY <1>0, <1>17 DEF EnterReversal, RunState
  <2>5. run[d].phase \notin Stopped
    BY <1>17 DEF EnterReversal, Stopped
  <2> HIDE DEF skip, go
  <2> QED
    BY <1>1, <1>6, <2>3, <2>4, <2>5
<1>18. CASE EndReversal(d) \/ Abort(d)
  BY <1>1, <1>18 DEF EndReversal, Abort
<1> QED
  BY <1>3, <1>4, <1>5, <1>7, <1>8, <1>9, <1>10, <1>11, <1>12, <1>13, <1>14, <1>15, <1>16, <1>17, <1>18 DEF Deploy

(* A step of one deployment leaves the others alone.                        *)
LEMMA OthersStay ==
  ASSUME TypeOK, NEW d \in Deploys, Deploy(d)
  PROVE  \A e \in Deploys \ {d} : run'[e] = run[e]
<1>1. ASSUME NEW local, Becomes(d, local)
      PROVE  \A e \in Deploys \ {d} : run'[e] = run[e]
  BY <1>1 DEF Becomes, TypeOK
<1>2. ASSUME NEW p, Ends(d, p)
      PROVE  \A e \in Deploys \ {d} : run'[e] = run[e]
  BY <1>1, <1>2 DEF Ends
<1>3. CASE EnterReversal(d)
  <2>1. PICK dm \in run[d].visits :
          CASE RootDc[dm] = "missing" -> Ends(d, "failed")
            [] RootDc[dm] = "no_ip"   -> Becomes(d, [run[d] EXCEPT
                 !.visits = @ \ {dm}, !.failure = "yes"])
            [] RootDc[dm] = "ok"      -> Becomes(d, [run[d] EXCEPT
                 !.phase = "script", !.domain = dm, !.toReverse = run[d].marked])
    BY <1>3 DEF EnterReversal
  <2>2. RootDc[dm] \in {"missing", "no_ip", "ok"}
    BY LabAssumption DEF TypeOK, RunState
  <2> QED
    BY <1>1, <1>2, <2>1, <2>2
<1>4. ASSUME ~EnterReversal(d)
      PROVE  (\E local : Becomes(d, local)) \/ (\E p : Ends(d, p))
  BY <1>4 DEF Deploy, Start, Plan, SkipDomain, EnterDomain, TrackAccount, RunPush,
              RecordPush, LeaveDomain, EndPush, RunReversal, ForgetAccount,
              CloseReversal, LeaveReversal, EndReversal, Abort
<1> QED
  BY <1>1, <1>2, <1>3, <1>4

(* A deployment reaches the playbook's call only from a domain it visits.   *)
LEMMA CallsDomainStep ==
  ASSUME TypeOK, CallsHaveDomain, [Next]_vars
  PROVE  CallsHaveDomain'
<1> SUFFICES ASSUME NEW d \in Deploys, run'[d].phase = "track"
             PROVE  run'[d].domain \in Domains
  BY DEF CallsHaveDomain
<1>0. run \in [Deploys -> RunState] /\ run[d] \in RunState
  BY DEF TypeOK
<1>1. ASSUME NEW local, Becomes(d, local) PROVE run'[d] = local
  BY <1>0, <1>1 DEF Becomes
<1>2. ASSUME NEW p \in {"passed", "failed"} PROVE ~Ends(d, p)
  <2>1. Ends(d, p) => run'[d] = NotRunning(p)
    BY <1>1 DEF Ends
  <2> QED
    BY <2>1 DEF NotRunning
<1>3. CASE EnterDomain(d)
  <2>0. PICK dm \in run[d].visits : \E here, names :
          Becomes(d, [run[d] EXCEPT !.phase = "track", !.domain = dm,
                        !.toTrack = here, !.names = names])
    BY <1>2, <1>3 DEF EnterDomain
  <2>1. PICK here, names :
          Becomes(d, [run[d] EXCEPT !.phase = "track", !.domain = dm,
                        !.toTrack = here, !.names = names])
    BY <2>0
  <2>2. run'[d] = [run[d] EXCEPT !.phase = "track", !.domain = dm,
                                 !.toTrack = here, !.names = names]
    BY <1>1, <2>1
  <2> QED
    BY <1>0, <2>2 DEF RunState
<1>4. CASE TrackAccount(d)
  <2>1. PICK l, i :
          Becomes(d, [run[d] EXCEPT !.toTrack = @ \ {l}, !.mine = @ \cup {i},
                                    !.view = "expired"])
    BY <1>2, <1>4 DEF TrackAccount
  <2>2. run'[d] = [run[d] EXCEPT !.toTrack = @ \ {l}, !.mine = @ \cup {i},
                                 !.view = "expired"]
    BY <1>1, <2>1
  <2>3. run'[d].domain = run[d].domain
    BY <1>0, <2>2 DEF RunState
  <2> QED
    BY <1>4, <2>3 DEF CallsHaveDomain, TrackAccount
<1>5. ~Start(d)
  <2> SUFFICES ASSUME Start(d) PROVE run'[d].phase = "plan"
    OBVIOUS
  <2>1. PICK view, listed, visits :
          Becomes(d, [NotRunning("plan") EXCEPT !.view = view, !.listed = listed,
                                                !.visits = visits])
    BY DEF Start
  <2>2. run'[d] = [NotRunning("plan") EXCEPT !.view = view, !.listed = listed,
                                             !.visits = visits]
    BY <1>1, <2>1
  <2> QED
    BY <2>2 DEF NotRunning
<1>6. Deploy(d) => EnterDomain(d) \/ TrackAccount(d)
  BY <1>5, ListsAfter DEF Stopped
<1>7. Deploy(d) \/ run'[d] = run[d]
  <2>1. UNCHANGED run \/ \E e \in Deploys : Deploy(e)
    BY DEF Next, Operator, CreateAccount, LookUpDeleted, CommitDelete, DeployUser,
           RemoveRow, OverwriteRow, vars
  <2> QED
    BY <2>1, OthersStay
<1> QED
  BY <1>3, <1>4, <1>6, <1>7 DEF CallsHaveDomain

(* The types, with what keeps the directory's.                              *)
TypeInv == TypeOK /\ CallsHaveDomain

(* They hold at first ...                                                   *)
LEMMA InitType == Init => TypeInv
<1> SUFFICES ASSUME Init PROVE TypeInv
  OBVIOUS
<1>1. NotRunning("idle") \in RunState
  BY NotRunningType DEF Phase, Stopped
<1>2. \A d \in Deploys : run[d].phase = "idle"
  BY DEF Init, NotRunning
<1> QED
  BY <1>1, <1>2 DEF Init, TypeInv, TypeOK, CallsHaveDomain

(* ... and whatever an operator does.                                       *)
LEMMA TypesHold == Spec => []TypeInv
<1>1. TypeInv /\ [Next]_vars => TypeInv'
  BY TypeStep, CallsDomainStep DEF TypeInv
<1> QED
  BY <1>1, InitType, PTL DEF Spec

(* Statuses, phases, ids and lists stay what their columns and variables    *)
(* can hold, through every request, failure and race.                       *)
THEOREM TypeCorrect == Spec => []TypeOK
<1>1. TypeInv => TypeOK
  BY DEF TypeInv
<1> QED
  BY <1>1, TypesHold, PTL

-----------------------------------------------------------------------------
(* The invariant is kept.                                                   *)

(* Without creations while a deployment runs, what it listed keeps its name.*)
LEMMA ListsStep ==
  ASSUME TypeOK, ListsStand, "create" \notin EditsDuringDeploy, [Next]_vars
  PROVE  ListsStand'
<1> SUFFICES ASSUME NEW d \in Deploys, run'[d].phase \notin Stopped,
                    NEW l \in run'[d].listed \cup run'[d].toTrack,
                    l.id \in DOMAIN accounts'
             PROVE  accounts'[l.id].name = l.name
  BY DEF ListsStand
<1>1. CASE Start(d) /\ run'[d].listed = NotPushed(d) /\ run'[d].toTrack = {}
  <2>1. l \in NotPushed(d)
    BY <1>1
  <2> QED
    BY <1>1, <2>1 DEF NotPushed, Start
<1>2. CASE /\ run[d].phase \notin Stopped
           /\ l \in run[d].listed \cup run[d].toTrack
  <2>1. ~MayEdit("create")
    BY <1>2 DEF MayEdit, Quiet
  <2>2. l.id \in DOMAIN accounts /\ accounts'[l.id] = accounts[l.id]
    BY <2>1, AccountsChange
  <2> QED
    BY <1>2, <2>2 DEF ListsStand
<1>3. CASE Deploy(d)
  BY <1>1, <1>2, <1>3, ListsAfter
<1>4. CASE run'[d] = run[d]
  BY <1>2, <1>4
<1>5. Deploy(d) \/ run'[d] = run[d]
  <2>1. \/ UNCHANGED run
        \/ \E e \in Deploys : Deploy(e)
    BY DEF Next, Operator, CreateAccount, LookUpDeleted, CommitDelete, DeployUser,
           RemoveRow, OverwriteRow, vars
  <2> QED
    BY <2>1, OthersStay
<1> QED
  BY <1>3, <1>4, <1>5

(* Each row a call is to create stands for a name of the playbook's list.   *)
LEMMA CallsStep ==
  ASSUME TypeOK, ListsStand, CallsAreTracked, [Next]_vars
  PROVE  CallsAreTracked'
<1> DEFINE Named(p) == (\E i \in DOMAIN rows' : Place(i)' = p) \/ p \in DiscardedPlaces'
           Good(d) == /\ run'[d].domain \in Domains
                      /\ \A n \in run'[d].names :
                           \/ Named(<<run'[d].domain, n>>)
                           \/ \E l \in run'[d].toTrack : l.name = n /\ l.domain = run'[d].domain
<1> SUFFICES ASSUME NEW d \in Deploys, run'[d].phase = "track" PROVE Good(d)
  BY DEF CallsAreTracked
<1>0. run \in [Deploys -> RunState] /\ run[d] \in RunState
  BY DEF TypeOK
<1>1. ASSUME NEW p, (\E i \in DOMAIN rows : Place(i) = p) \/ p \in DiscardedPlaces
      PROVE  Named(p)
  BY <1>1, RowsGrow
<1>2. ASSUME NEW local, Becomes(d, local) PROVE run'[d] = local
  BY <1>0, <1>2 DEF Becomes
<1>3. run'[d].phase \notin Stopped
  BY DEF Stopped
<1>4. CASE EnterDomain(d)
  <2>1. PICK dm \in run[d].visits :
          LET here == {l \in run[d].listed : l.domain = dm}
          IN  \/ /\ \A l \in here : Visible(d, l)
                 /\ Becomes(d, [run[d] EXCEPT !.phase = "track", !.domain = dm,
                      !.toTrack = here, !.names = {Seen(d, l).name : l \in here}])
              \/ Ends(d, "failed")
    BY <1>4 DEF EnterDomain
  <2> DEFINE here  == {l \in run[d].listed : l.domain = dm}
             names == {Seen(d, l).name : l \in here}
  <2>2. ~Ends(d, "failed")
    <3>1. ASSUME Ends(d, "failed") PROVE run'[d] = NotRunning("failed")
      BY <1>2, <3>1 DEF Ends
    <3> QED
      BY <3>1 DEF NotRunning
  <2>3. \A l \in here : Seen(d, l).name = l.name
    <3> SUFFICES ASSUME NEW l \in here PROVE Seen(d, l).name = l.name
      OBVIOUS
    <3>1. l \in Listing /\ Visible(d, l)
      BY <1>0, <2>1, <2>2 DEF RunState
    <3>2. l.id \in DOMAIN accounts => accounts[l.id].name = l.name
      BY <1>4 DEF ListsStand, EnterDomain, Stopped
    <3> QED
      BY <3>1, <3>2 DEF Seen, Visible, Listing
  <2>4. \A n \in names : \E l \in here : l.name = n /\ l.domain = dm
    BY <2>3
  <2>5. run'[d] = [run[d] EXCEPT !.phase = "track", !.domain = dm,
                                 !.toTrack = here, !.names = names]
    BY <1>2, <2>1, <2>2
  <2> HIDE DEF here, names
  <2>6. /\ run'[d].domain = dm /\ run'[d].toTrack = here /\ run'[d].names = names
        /\ dm \in Domains
    BY <1>0, <2>5 DEF RunState
  <2> QED
    BY <2>4, <2>6
<1>5. CASE TrackAccount(d)
  <2>1. PICK l \in run[d].toTrack :
          \/ /\ Visible(d, l)
             /\ \E i \in RowIds :
                  /\ IsNextId(rows, i)
                  /\ rows' = CreateRow(rows, i,
                       [account |-> l.id, name |-> Seen(d, l).name,
                        domain |-> l.domain, status |-> "pending"])
                  /\ Becomes(d, [run[d] EXCEPT !.toTrack = @ \ {l},
                       !.mine = @ \cup {i}, !.view = "expired"])
          \/ Ends(d, "failed")
    BY <1>5 DEF TrackAccount
  <2>2. ~Ends(d, "failed")
    <3>1. ASSUME Ends(d, "failed") PROVE run'[d] = NotRunning("failed")
      BY <1>2, <3>1 DEF Ends
    <3> QED
      BY <3>1 DEF NotRunning
  <2>3. PICK i \in RowIds :
          /\ rows' = CreateRow(rows, i,
               [account |-> l.id, name |-> Seen(d, l).name,
                domain |-> l.domain, status |-> "pending"])
          /\ Becomes(d, [run[d] EXCEPT !.toTrack = @ \ {l},
               !.mine = @ \cup {i}, !.view = "expired"])
    BY <2>1, <2>2
  <2>4. Seen(d, l).name = l.name
    <3>1. l \in Listing /\ Visible(d, l)
      BY <1>0, <2>1, <2>2 DEF RunState
    <3>2. l.id \in DOMAIN accounts => accounts[l.id].name = l.name
      BY <1>5 DEF ListsStand, TrackAccount, Stopped
    <3> QED
      BY <3>1, <3>2 DEF Seen, Visible, Listing
  <2>5. Named(<<l.domain, l.name>>)
    <3>1. i \in DOMAIN rows' /\ rows'[i].domain = l.domain /\ rows'[i].name = l.name
      BY <2>3, <2>4 DEF CreateRow
    <3> QED
      BY <3>1 DEF Place
  <2>6. run'[d] = [run[d] EXCEPT !.toTrack = @ \ {l}, !.mine = @ \cup {i}, !.view = "expired"]
    BY <1>2, <2>3
  <2>7. /\ run'[d].domain = run[d].domain
        /\ run'[d].names = run[d].names
        /\ run'[d].toTrack = run[d].toTrack \ {l}
    BY <1>0, <2>6 DEF RunState
  <2>8. /\ run[d].domain \in Domains
        /\ \A n \in run[d].names :
             \/ \E j \in DOMAIN rows : Place(j) = <<run[d].domain, n>>
             \/ \E k \in run[d].toTrack : k.name = n /\ k.domain = run[d].domain
             \/ <<run[d].domain, n>> \in DiscardedPlaces
    BY <1>5 DEF CallsAreTracked, TrackAccount
  <2> HIDE DEF Named
  <2> QED
    BY <1>1, <2>5, <2>7, <2>8
<1>6. CASE run'[d] = run[d]
  <2>1. /\ run[d].domain \in Domains
        /\ \A n \in run[d].names :
             \/ \E j \in DOMAIN rows : Place(j) = <<run[d].domain, n>>
             \/ \E k \in run[d].toTrack : k.name = n /\ k.domain = run[d].domain
             \/ <<run[d].domain, n>> \in DiscardedPlaces
    BY <1>6 DEF CallsAreTracked
  <2> HIDE DEF Named
  <2> QED
    BY <1>1, <1>6, <2>1
<1>7. Deploy(d) => EnterDomain(d) \/ TrackAccount(d)
  <2>1. ~Start(d)
    <3>1. ASSUME Start(d) PROVE run'[d].phase = "plan"
      <4>1. PICK view, listed, visits :
              Becomes(d, [NotRunning("plan") EXCEPT !.view = view, !.listed = listed,
                                                    !.visits = visits])
        BY <3>1 DEF Start
      <4>2. run'[d] = [NotRunning("plan") EXCEPT !.view = view, !.listed = listed,
                                                 !.visits = visits]
        BY <1>2, <4>1
      <4> QED
        BY <4>2 DEF NotRunning
    <3> QED
      BY <3>1
  <2> QED
    BY <1>3, <2>1, ListsAfter
<1>8. Deploy(d) \/ run'[d] = run[d]
  <2>1. \/ UNCHANGED run
        \/ \E e \in Deploys : Deploy(e)
    BY DEF Next, Operator, CreateAccount, LookUpDeleted, CommitDelete, DeployUser,
           RemoveRow, OverwriteRow, vars
  <2> QED
    BY <2>1, OthersStay
<1> QED
  BY <1>4, <1>5, <1>6, <1>7, <1>8

(* What a playbook creates was named before it ran.                         *)
LEMMA NamedStep ==
  ASSUME TypeOK, CallsAreTracked, DirectoryIsNamed, [Next]_vars
  PROVE  DirectoryIsNamed'
<1>0. CallsHaveDomain
  BY DEF CallsAreTracked, CallsHaveDomain
<1> SUFFICES ASSUME NEW p \in directory' \ Excused'
             PROVE  \E i \in DOMAIN rows' : Place(i)' = p
  BY DEF DirectoryIsNamed
<1>1. p \notin byHand' /\ p \notin DiscardedPlaces' /\ p \notin Excused
  BY <1>0, DirectoryChange, RowsGrow DEF Excused
<1>2. \E i \in DOMAIN rows : Place(i) = p
  <2>1. CASE p \in directory
    BY <1>1, <2>1 DEF DirectoryIsNamed
  <2>2. CASE p \notin directory
    <3>1. PICK d \in Deploys : RunPush(d) /\ \E n \in run[d].names : p = <<run[d].domain, n>>
      BY <1>0, <1>1, <2>2, DirectoryChange
    <3>2. run[d].phase = "track" /\ run[d].toTrack = {}
      BY <3>1 DEF RunPush
    <3> QED
      BY <1>1, <3>1, <3>2 DEF CallsAreTracked, Excused
  <2> QED
    BY <2>1, <2>2
<1> QED
  BY <1>1, <1>2, RowsGrow

-----------------------------------------------------------------------------
(* The deployment lists nothing it has not read, tracks what it pushes, and *)
(* every variable keeps its type, in every reachable state, if no account is*)
(* created while a deployment runs.                                         *)
THEOREM Invariant ==
  ASSUME "create" \notin EditsDuringDeploy
  PROVE  Spec => []NamedInv
<1>1. Init => NamedInv
  <2> SUFFICES ASSUME Init PROVE NamedInv
    OBVIOUS
  <2>1. NotRunning("idle") \in RunState
    BY NotRunningType DEF Phase, Stopped
  <2>2. \A d \in Deploys : run[d].phase = "idle"
    BY DEF Init, NotRunning
  <2>3. TypeOK
    BY <2>1 DEF Init, TypeOK
  <2> QED
    BY <2>2, <2>3 DEF Init, NamedInv, ListsStand, CallsAreTracked, DirectoryIsNamed, Stopped
<1>2. NamedInv /\ [Next]_vars => NamedInv'
  BY TypeStep, ListsStep, CallsStep, NamedStep DEF NamedInv, CallsAreTracked, CallsHaveDomain
<1> QED
  BY <1>1, <1>2, PTL DEF Spec

(* Whatever a deployment put in a directory is named by a row, however many *)
(* deployments race, fail or die, until an operator throws such a row away, *)
(* at any time, if no account is created while a deployment runs.           *)
THEOREM NothingUntracked ==
  ASSUME "create" \notin EditsDuringDeploy
  PROVE  Spec => []DirectoryIsNamed
<1>1. NamedInv => DirectoryIsNamed
  BY DEF NamedInv
<1> QED
  BY <1>1, Invariant, PTL

=============================================================================
