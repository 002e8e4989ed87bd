----------------------- MODULE VulnerabilityPushProofs -----------------------
(***************************************************************************)
(* Proofs about VulnerabilityPush, for every project, any number of        *)
(* operators and of racing, dying and repeated deployments.                *)
(***************************************************************************)
EXTENDS VulnerabilityPush, AppliedTemplatesLemmas

-----------------------------------------------------------------------------
(* Facts about ids, rows and local states.                                  *)

(* Ids are numbers, and a new row's is not in use.                          *)
LEMMA IdsAreNumbers == RowIds \subseteq Nat \ {0}
  BY BoundAssumption DEF RowIds

(* A row read from the table is not the mark of one that was let go of.     *)
LEMMA RowsAreRead == \A row \in Row : row # Expired
  BY LabAssumption DEF Row, Expired

(* The status a result stands for is one a row can have.                    *)
LEMMA StatusForType == \A o : StatusFor(o) \in {"applied", "error"}
  BY DEF StatusFor

(* A push that is not running has a well-formed local state.                *)
LEMMA NotRunningType ==
  ASSUME NEW p \in Stopped \cup {"domain", "row", "script", "record"}
  PROVE  /\ NotRunning(p) \in RunState
         /\ NotRunning(p).phase = p
  BY DEF NotRunning, RunState, Outcome

(* A step gives one deployment a new local state and no other.              *)
LEMMA BecomesType ==
  ASSUME run \in [Deploys -> RunState], NEW d \in Deploys,
         NEW local \in RunState, Becomes(d, local)
  PROVE  /\ run' \in [Deploys -> RunState]
         /\ run'[d] = local
         /\ \A e \in Deploys \ {d} : run'[e] = run[e]
  BY DEF Becomes

(* A push that ends keeps nothing.                                          *)
LEMMA EndsType ==
  ASSUME run \in [Deploys -> RunState], NEW d \in Deploys,
         NEW p \in Stopped, Ends(d, p)
  PROVE  /\ run' \in [Deploys -> RunState]
         /\ run'[d].phase = p
         /\ \A e \in Deploys \ {d} : run'[e] = run[e]
  BY NotRunningType, BecomesType DEF Ends

(* A step gives one operator something to do and no other.                  *)
LEMMA DoesType ==
  ASSUME ops \in [Operators -> Operation], NEW o \in Operators,
         NEW local \in Operation, Does(o, local)
  PROVE  /\ ops' \in [Operators -> Operation]
         /\ ops'[o] = local
         /\ \A q \in Operators \ {o} : ops'[q] = ops[q]
  BY DEF Does

(* An operator at rest is well-formed.                                      *)
LEMMA RestingType == Resting \in Operation /\ Resting.doing = "nothing"
  BY DEF Resting, Operation, Outcome

-----------------------------------------------------------------------------
(* What a step does to the table and to the domains.                        *)

(* A commit of a status changes at most the status of its row.              *)
LEMMA CommitChanges ==
  ASSUME DOMAIN rows \subseteq RowIds, \A j \in DOMAIN rows : rows[j] \in Row,
         NEW i, NEW seen, NEW o, CommitStatus(i, seen, o)
  PROVE  /\ DOMAIN rows' = DOMAIN rows
         /\ \A j \in DOMAIN rows :
              /\ rows'[j] \in Row
              /\ rows'[j].vuln = rows[j].vuln
              /\ \/ rows'[j].status = rows[j].status
                 \/ j = i /\ rows'[j].status = StatusFor(o)
<1>1. CASE seen.status = StatusFor(o)
  BY <1>1 DEF CommitStatus
<1>2. CASE seen.status # StatusFor(o)
  <2>1. rows' = UpdateStatus(rows, i, StatusFor(o))
    BY <1>2 DEF CommitStatus
  <2>2. StatusFor(o) \in TemplateStatus
    BY StatusForType DEF TemplateStatus
  <2> DEFINE st == StatusFor(o)
  <2> HIDE DEF st
  <2>3. /\ DOMAIN rows' = DOMAIN rows
        /\ \A j \in DOMAIN rows \ {i} : rows'[j] = rows[j]
        /\ i \in DOMAIN rows => rows'[i] = [rows[i] EXCEPT !.status = st]
    BY <2>1, UpdatedStatus DEF st
  <2>4. \A j \in DOMAIN rows :
          /\ [rows[j] EXCEPT !.status = st] \in Row
          /\ [rows[j] EXCEPT !.status = st].vuln = rows[j].vuln
          /\ [rows[j] EXCEPT !.status = st].status = st
    BY <2>2 DEF Row, st
  <2> QED
    BY <2>3, <2>4 DEF st
<1> QED
  BY <1>1, <1>2

(* The row an operator inserts is pending; no other row changes.            *)
LEMMA InsertChanges ==
  ASSUME TypeOK, DoneIsReal, NEW o \in Operators, InsertRow(o)
  PROVE  \E i \in RowIds :
           /\ i \notin DOMAIN rows
           /\ DOMAIN rows' = DOMAIN rows \cup {i}
           /\ rows'[i] \in Row /\ rows'[i].status = "pending"
           /\ \A j \in DOMAIN rows : rows'[j] = rows[j]
           /\ swapped' = IF IsHeld(i) THEN swapped \cup {i} ELSE swapped
<1> DEFINE row == ops[o].seen
<1>1. row \in Row /\ row.status = "pending"
  BY DEF TypeOK, Operation, DoneIsReal, InsertRow
<1> HIDE DEF row
<1>2. PICK i \in RowIds : /\ IsNextId(rows, i)
                         /\ rows' = CreateRow(rows, i, row)
                         /\ swapped' = IF IsHeld(i) THEN swapped \cup {i} ELSE swapped
  BY DEF InsertRow, row
<1>3. i \notin DOMAIN rows
  BY <1>2, IdsAreNumbers, NextIdIsNew
<1>4. /\ DOMAIN rows' = DOMAIN rows \cup {i}
      /\ rows'[i] = row
      /\ \A j \in DOMAIN rows : rows'[j] = rows[j]
  BY <1>2, <1>3 DEF CreateRow
<1> QED
  BY <1>1, <1>2, <1>3, <1>4

(* A row keeps its vulnerability for as long as it has its id, and the id   *)
(* of a removed row goes to one no push knows of, or to one that is marked. *)
LEMMA RowsChange ==
  ASSUME AppliedInv, [Next]_vars
  PROVE  /\ DOMAIN rows' \subseteq RowIds
         /\ swapped' \subseteq RowIds
         /\ \A i \in DOMAIN rows' : rows'[i] \in Row
         /\ \A i \in DOMAIN rows' \ swapped' :
              \/ i \in DOMAIN rows \ swapped /\ rows'[i].vuln = rows[i].vuln
              \/ ~IsHeld(i) /\ rows'[i].status = "pending"
<1> DEFINE Good == /\ DOMAIN rows' \subseteq RowIds
                   /\ swapped' \subseteq RowIds
                   /\ \A i \in DOMAIN rows' : rows'[i] \in Row
                   /\ \A i \in DOMAIN rows' \ swapped' :
                        \/ i \in DOMAIN rows \ swapped /\ rows'[i].vuln = rows[i].vuln
                        \/ ~IsHeld(i) /\ rows'[i].status = "pending"
<1> SUFFICES Good
  OBVIOUS
<1>0. /\ TypeOK /\ DoneIsReal
      /\ DOMAIN rows \subseteq RowIds /\ swapped \subseteq RowIds
      /\ \A i \in DOMAIN rows : rows[i] \in Row
  BY DEF AppliedInv, TypeOK
<1>1. ASSUME NEW i, NEW seen, NEW o, CommitStatus(i, seen, o), UNCHANGED swapped
      PROVE  Good
  BY <1>0, <1>1, CommitChanges
<1>2. CASE UNCHANGED <<rows, swapped>>
  BY <1>0, <1>2
<1>3. ASSUME NEW o \in Operators, InsertRow(o) PROVE Good
  <2>1. PICK i \in RowIds :
           /\ i \notin DOMAIN rows
           /\ DOMAIN rows' = DOMAIN rows \cup {i}
           /\ rows'[i] \in Row /\ rows'[i].status = "pending"
           /\ \A j \in DOMAIN rows : rows'[j] = rows[j]
           /\ swapped' = IF IsHeld(i) THEN swapped \cup {i} ELSE swapped
    BY <1>0, <1>3, InsertChanges
  <2> QED
    BY <1>0, <2>1
<1>4. ASSUME NEW o \in Operators, ConfirmRemoval(o) PROVE Good
  <2>1. /\ rows' = [i \in DOMAIN rows \ {ops[o].row} |-> rows[i]]
        /\ swapped' = swapped \ {ops[o].row}
    BY <1>4 DEF ConfirmRemoval
  <2> QED
    BY <1>0, <2>1
<1> HIDE DEF Good
<1>5. ASSUME NEW o \in Operators, RecordOne(o) PROVE Good
  BY <1>1, <1>5 DEF RecordOne
<1>6. ASSUME NEW d \in Deploys, RecordRow(d) PROVE Good
  BY <1>1, <1>2, <1>6 DEF RecordRow
<1>7. \/ UNCHANGED <<rows, swapped>>
      \/ \E o \in Operators : InsertRow(o) \/ ConfirmRemoval(o) \/ RecordOne(o)
      \/ \E d \in Deploys : RecordRow(d)
  BY DEF Next, Operate, Push, CheckAttach, OpenRemoval, ReadOne, RunOne, GiveUp,
         Begin, EnterDomain, ReadRow, RunScript, LeaveDomain, Finish, Abort, vars
<1> QED
  BY <1>2, <1>3, <1>4, <1>5, <1>6, <1>7

(* What a deployment is about to run is a vulnerability it read.            *)
LEMMA HeldRows ==
  ASSUME AppliedInv, NEW d \in Deploys, run[d].phase \in {"script", "record"},
         NEW i, IsFirst(i, run[d].toApply)
  PROVE  /\ run[d].held[i] \in Row
         /\ run[d].domain \in Domains
         /\ <<run[d].domain, run[d].held[i].vuln>> \in Domains \X Vulns
<1>1. i \in run[d].toApply
  BY DEF IsFirst
<1>2. run[d] \in RunState
  BY DEF AppliedInv, TypeOK
<1>3. i \in RowIds /\ run[d].held[i] \in Row \cup {Expired}
  BY <1>1, <1>2 DEF RunState
<1>4. run[d].domain \in Domains /\ run[d].held[i] # Expired
  BY <1>1 DEF AppliedInv, DoneIsReal
<1> QED
  BY <1>3, <1>4 DEF Row

(* What a single push is about to run is a vulnerability it read.           *)
LEMMA SeenRows ==
  ASSUME AppliedInv, NEW o \in Operators, ops[o].doing \in {"attach", "script", "record"}
  PROVE  ops[o].seen \in Row /\ <<ops[o].seen.domain, ops[o].seen.vuln>> \in Domains \X Vulns
<1>1. ops[o].seen \in Row \cup {Expired}
  BY DEF AppliedInv, TypeOK, Operation
<1>2. ops[o].seen # Expired
  BY DEF AppliedInv, DoneIsReal
<1> QED
  BY <1>1, <1>2 DEF Row

(* Nothing undoes what a script did.                                        *)
LEMMA DomainsChange ==
  ASSUME AppliedInv, [Next]_vars
  PROVE  injected \subseteq injected' /\ injected' \subseteq Domains \X Vulns
<1>0. injected \subseteq Domains \X Vulns
  BY DEF AppliedInv, TypeOK
<1>1. ASSUME NEW o \in Operators, RunOne(o)
      PROVE  injected \subseteq injected' /\ injected' \subseteq Domains \X Vulns
  <2> DEFINE pair == <<ops[o].seen.domain, ops[o].seen.vuln>>
  <2>1. pair \in Domains \X Vulns
    BY <1>1, SeenRows DEF RunOne
  <2> HIDE DEF pair
  <2>2. injected' = injected \/ injected' = injected \cup {pair}
    BY <1>1 DEF RunOne, pair
  <2> QED
    BY <1>0, <2>1, <2>2
<1>2. ASSUME NEW d \in Deploys, RunScript(d)
      PROVE  injected \subseteq injected' /\ injected' \subseteq Domains \X Vulns
  <2>1. PICK i : /\ IsFirst(i, run[d].toApply)
                 /\ \/ injected' = injected
                    \/ injected' = injected \cup {<<run[d].domain, run[d].held[i].vuln>>}
    BY <1>2 DEF RunScript
  <2> DEFINE pair == <<run[d].domain, run[d].held[i].vuln>>
  <2>2. pair \in Domains \X Vulns
    BY <1>2, <2>1, HeldRows DEF RunScript
  <2> HIDE DEF pair
  <2>3. injected' = injected \/ injected' = injected \cup {pair}
    BY <2>1 DEF pair
  <2> QED
    BY <1>0, <2>2, <2>3
<1>3. \/ UNCHANGED injected
      \/ \E o \in Operators : RunOne(o)
      \/ \E d \in Deploys : RunScript(d)
  BY DEF Next, Operate, Push, CheckAttach, InsertRow, OpenRemoval, ConfirmRemoval,
         ReadOne, RecordOne, GiveUp, Begin, EnterDomain, ReadRow, RecordRow,
         LeaveDomain, Finish, Abort, vars
<1> QED
  BY <1>0, <1>1, <1>2, <1>3

-----------------------------------------------------------------------------
(* The operators.                                                           *)

(* The part of the invariant about one operator, with what it reads given.  *)
OpStands(local, tbl, marked, done) ==
  /\ local.doing \in {"script", "record"} /\ local.row \in DOMAIN tbl \ marked =>
       local.seen.vuln = tbl[local.row].vuln
  /\ local.doing \in {"attach", "script", "record"} => local.seen # Expired
  /\ local.doing = "attach" => local.seen.status = "pending"
  /\ local.doing = "record" /\ local.outcome = "done" =>
       \E dm \in Domains : <<dm, local.seen.vuln>> \in done

(* What an operator does leaves it well-formed, and knowing what it read.   *)
LEMMA OperatorStep ==
  ASSUME AppliedInv, [Next]_vars, NEW o \in Operators, Operate(o)
  PROVE  /\ ops' \in [Operators -> Operation]
         /\ OpStands(ops'[o], rows', swapped', injected')
         /\ \A q \in Operators \ {o} : ops'[q] = ops[q]
<1> DEFINE Good == /\ ops' \in [Operators -> Operation]
                   /\ OpStands(ops'[o], rows', swapped', injected')
                   /\ \A q \in Operators \ {o} : ops'[q] = ops[q]
<1>0. ops \in [Operators -> Operation] /\ ops[o] \in Operation
  BY DEF AppliedInv, TypeOK
<1>1. ASSUME NEW local \in Operation, Does(o, local),
             OpStands(local, rows', swapped', injected')
      PROVE  Good
  BY <1>0, <1>1, DoesType
<1>2. ASSUME Rests(o) PROVE Good
  <2>1. OpStands(Resting, rows', swapped', injected')
    BY RestingType DEF OpStands
  <2> QED
    BY <1>1, <1>2, <2>1, RestingType DEF Rests
<1> SUFFICES Good
  OBVIOUS
<1> HIDE DEF Good
<1>3. ASSUME NEW v \in Vulns, NEW dm \in Domains, CheckAttach(o, v, dm) PROVE Good
  <2> DEFINE row   == [vuln |-> v, domain |-> dm, status |-> "pending"]
             local == [Resting EXCEPT !.doing = "attach", !.seen = row]
  <2>1. row \in Row /\ row.status = "pending"
    BY DEF Row, TemplateStatus
  <2>2. row # Expired
    BY <2>1, RowsAreRead
  <2>3. Does(o, local)
    BY <1>3 DEF CheckAttach
  <2> HIDE DEF row
  <2>4. local \in Operation /\ local.doing = "attach" /\ local.seen = row
    BY <2>1 DEF Resting, Operation, Outcome
  <2> HIDE DEF local
  <2>5. OpStands(local, rows', swapped', injected')
    BY <2>1, <2>2, <2>4 DEF OpStands
  <2> QED
    BY <1>1, <2>3, <2>4, <2>5
<1>4. ASSUME NEW i \in RowIds, OpenRemoval(o, i) PROVE Good
  <2> DEFINE local == [Resting EXCEPT !.doing = "remove", !.row = i]
  <2>1. local \in Operation /\ local.doing = "remove"
    BY DEF Resting, Operation, Outcome
  <2>2. Does(o, local)
    BY <1>4 DEF OpenRemoval
  <2> HIDE DEF local
  <2>3. OpStands(local, rows', swapped', injected')
    BY <2>1 DEF OpStands
  <2> QED
    BY <1>1, <2>1, <2>2, <2>3
<1>5. ASSUME NEW i \in RowIds, ReadOne(o, i) PROVE Good
  <2> DEFINE row   == rows[i]
             local == [Resting EXCEPT !.doing = "script", !.row = i, !.seen = row]
  <2>1. row \in Row /\ UNCHANGED <<rows, swapped>>
    BY <1>5 DEF ReadOne, AppliedInv, TypeOK
  <2>2. row # Expired
    BY <2>1, RowsAreRead
  <2>3. Does(o, local)
    BY <1>5 DEF ReadOne
  <2>4. rows'[i] = row
    BY <2>1
  <2> HIDE DEF row
  <2>5. /\ local \in Operation /\ local.doing = "script"
        /\ local.seen = row /\ local.row = i
    BY <2>1 DEF Resting, Operation, Outcome
  <2> HIDE DEF local
  <2>6. OpStands(local, rows', swapped', injected')
    BY <2>2, <2>4, <2>5 DEF OpStands
  <2> QED
    BY <1>1, <2>3, <2>5, <2>6
<1>6. ASSUME RunOne(o) PROVE Good
  <2>1. PICK result \in {"done", "failed"} :
          /\ Does(o, [ops[o] EXCEPT !.doing = "record", !.outcome = result])
          /\ result = "done" =>
               <<ops[o].seen.domain, ops[o].seen.vuln>> \in injected'
    BY <1>6 DEF RunOne
  <2> DEFINE local == [ops[o] EXCEPT !.doing = "record", !.outcome = result]
  <2>2. /\ local \in Operation /\ local.doing = "record" /\ local.outcome = result
        /\ local.seen = ops[o].seen /\ local.row = ops[o].row
    BY <1>0 DEF Operation, Outcome
  <2>3. Does(o, local)
    BY <2>1
  <2> HIDE DEF local
  <2>4. ops[o].seen \in Row /\ ops[o].seen # Expired /\ ops[o].seen.domain \in Domains
    BY <1>6, SeenRows, RowsAreRead DEF RunOne, Row
  <2>5. ops[o].row \in DOMAIN rows \ swapped => ops[o].seen.vuln = rows[ops[o].row].vuln
    BY <1>6 DEF RunOne, AppliedInv, ReadsStand
  <2>6. UNCHANGED <<rows, swapped>>
    BY <1>6 DEF RunOne
  <2>7. OpStands(local, rows', swapped', injected')
    BY <2>1, <2>2, <2>4, <2>5, <2>6 DEF OpStands
  <2> QED
    BY <1>1, <2>2, <2>3, <2>7
<1>7. ASSUME InsertRow(o) \/ ConfirmRemoval(o) \/ RecordOne(o) \/ GiveUp(o) PROVE Good
  BY <1>2, <1>7 DEF InsertRow, ConfirmRemoval, RecordOne, GiveUp
<1> QED
  BY <1>3, <1>4, <1>5, <1>6, <1>7 DEF Operate

(* What the others do does not change what an operator knows.               *)
LEMMA OperatorWaits ==
  ASSUME AppliedInv, [Next]_vars, NEW o \in Operators, ops'[o] = ops[o]
  PROVE  OpStands(ops'[o], rows', swapped', injected')
<1>1. ops[o].doing \in {"script", "record"} => IsHeld(ops[o].row)
  BY DEF IsHeld
<1>2. OpStands(ops[o], rows, swapped, injected)
  BY DEF OpStands, AppliedInv, ReadsStand, DoneIsReal
<1>3. \A i \in DOMAIN rows' \ swapped' :
        \/ i \in DOMAIN rows \ swapped /\ rows'[i].vuln = rows[i].vuln
        \/ ~IsHeld(i)
  BY RowsChange
<1>4. injected \subseteq injected'
  BY DomainsChange
<1> QED
  BY <1>1, <1>2, <1>3, <1>4 DEF OpStands

-----------------------------------------------------------------------------
(* The deployments.                                                         *)

(* The part of the invariant about one deployment.                          *)
RunStands(local, tbl, marked, done) ==
  /\ local.phase \notin Stopped =>
       /\ local.toApply \subseteq local.listed
       /\ \A i \in (local.listed \cap DOMAIN tbl) \ marked :
            local.held[i] # Expired => local.held[i].vuln = tbl[i].vuln
  /\ local.phase \in {"row", "script", "record"} => local.domain \in Domains
  /\ local.phase \in {"script", "record"} =>
       \A i \in local.toApply : IsFirst(i, local.toApply) =>
            /\ local.held[i] # Expired
            /\ local.phase = "record" /\ local.outcome = "done" =>
                 \E dm \in Domains : <<dm, local.held[i].vuln>> \in done

(* A step of a push leaves it well-formed, and knowing its rows.            *)
LEMMA PushStep ==
  ASSUME AppliedInv, [Next]_vars, NEW d \in Deploys, Push(d) \/ Abort(d)
  PROVE  /\ run' \in [Deploys -> RunState]
         /\ RunStands(run'[d], rows', swapped', injected')
         /\ \A e \in Deploys \ {d} : run'[e] = run[e]
<1> DEFINE r == run[d]
           Good == /\ run' \in [Deploys -> RunState]
                   /\ RunStands(run'[d], rows', swapped', injected')
                   /\ \A e \in Deploys \ {d} : run'[e] = run[e]
<1>0. /\ run \in [Deploys -> RunState] /\ r \in RunState
      /\ DOMAIN rows \subseteq RowIds
      /\ \A i \in DOMAIN rows : rows[i] \in Row
  BY DEF AppliedInv, TypeOK
<1>1. ASSUME NEW local \in RunState, Becomes(d, local),
             RunStands(local, rows', swapped', injected')
      PROVE  Good
  BY <1>0, <1>1, BecomesType
<1>2. ASSUME NEW p \in Stopped, Ends(d, p) PROVE Good
  <2>1. NotRunning(p) \in RunState /\ NotRunning(p).phase = p
    BY NotRunningType
  <2>2. RunStands(NotRunning(p), rows', swapped', injected')
    BY <2>1 DEF RunStands, Stopped
  <2> QED
    BY <1>1, <1>2, <2>1, <2>2 DEF Ends
<1>a. {"passed", "failed", "aborted"} \subseteq Stopped
  BY DEF Stopped
<1>b. RunStands(r, rows, swapped, injected)
  BY DEF RunStands, AppliedInv, ReadsStand, DoneIsReal
<1> SUFFICES Good
  OBVIOUS
<1> HIDE DEF Good
<1>3. CASE Begin(d)
  <2> DEFINE listed == RowsWith(rows, {"pending", "modified"})
             held   == [i \in RowIds |-> IF i \in listed THEN rows[i] ELSE Expired]
             local  == [NotRunning("domain") EXCEPT
                          !.listed = listed, !.visits = Domains, !.held = held]
  <2>1. /\ Ends(d, "passed") \/ Becomes(d, local)
        /\ UNCHANGED <<rows, swapped>>
    BY <1>3 DEF Begin
  <2>2. listed \subseteq DOMAIN rows
    BY DEF RowsWith
  <2> HIDE DEF listed
  <2>3. /\ held \in [RowIds -> Row \cup {Expired}]
        /\ \A i \in listed : held[i] = rows[i]
    BY <1>0, <2>2
  <2> HIDE DEF held
  <2>4. /\ local \in RunState /\ local.phase = "domain" /\ local.listed = listed
        /\ local.held = held /\ local.toApply = {}
    BY <1>0, <2>2, <2>3 DEF NotRunning, RunState, Outcome
  <2> HIDE DEF local
  <2>5. RunStands(local, rows', swapped', injected')
    BY <2>1, <2>3, <2>4 DEF RunStands
  <2> QED
    BY <1>1, <1>2, <1>a, <2>1, <2>4, <2>5
<1>4. CASE EnterDomain(d)
  <2>1. PICK dm \in r.visits :
          CASE rootDc[dm] = "missing" -> Ends(d, "aborted")
            [] rootDc[dm] = "no_ip"   -> Becomes(d, [r EXCEPT
                 !.visits = @ \ {dm}, !.failure = "yes"])
            [] rootDc[dm] = "ok"      -> Becomes(d, [r EXCEPT
                 !.phase = "row", !.domain = dm, !.toApply = r.listed])
    BY <1>4 DEF EnterDomain
  <2>2. dm \in Domains /\ rootDc[dm] \in {"missing", "no_ip", "ok"}
    BY <1>0, LabAssumption DEF RunState, AppliedInv, TypeOK
  <2> DEFINE skip == [r EXCEPT !.visits = @ \ {dm}, !.failure = "yes"]
             go   == [r EXCEPT !.phase = "row", !.domain = dm, !.toApply = r.listed]
  <2>3. Ends(d, "aborted") \/ Becomes(d, skip) \/ Becomes(d, go)
    BY <2>1, <2>2
  <2>4. /\ skip \in RunState /\ skip.phase = "domain" /\ skip.listed = r.listed
        /\ skip.held = r.held /\ skip.toApply = r.toApply
        /\ go \in RunState /\ go.phase = "row" /\ go.listed = r.listed
        /\ go.held = r.held /\ go.toApply = r.listed /\ go.domain = dm
    BY <1>0, <1>4, <2>2 DEF EnterDomain, RunState
  <2>5. r.phase \notin Stopped /\ UNCHANGED <<rows, swapped>>
    BY <1>4 DEF EnterDomain, Stopped
  <2> HIDE DEF skip, go
  <2>6. /\ RunStands(skip, rows', swapped', injected')
        /\ RunStands(go, rows', swapped', injected')
    BY <1>b, <2>2, <2>4, <2>5 DEF RunStands
  <2> QED
    BY <1>1, <1>2, <1>a, <2>3, <2>4, <2>6
<1>5. CASE ReadRow(d)
  <2>1. PICK i \in r.toApply :
          /\ IsFirst(i, r.toApply)
          /\ \/ r.held[i] # Expired /\ Becomes(d, [r EXCEPT !.phase = "script"])
             \/ /\ i \in DOMAIN rows
                /\ Becomes(d, [r EXCEPT !.phase = "script", !.held[i] = rows[i]])
             \/ Ends(d, "aborted")
    BY <1>5 DEF ReadRow
  <2> DEFINE keep == [r EXCEPT !.phase = "script"]
             load == [r EXCEPT !.phase = "script", !.held[i] = rows[i]]
  <2>2. r.phase \notin Stopped /\ UNCHANGED <<rows, swapped>>
    BY <1>5 DEF ReadRow, Stopped
  <2>3. i \in RowIds /\ r.toApply \subseteq RowIds
    BY <1>0 DEF RunState
  <2>4. \A j \in r.toApply : IsFirst(j, r.toApply) => j = i
    <3>1. \A m, n \in Nat : m <= n /\ n <= m => m = n
      OBVIOUS
    <3> QED
      BY <2>1, <2>3, <3>1, IdsAreNumbers DEF IsFirst
  <2>d. r.domain \in Domains
    BY <1>5, <1>b DEF ReadRow, RunStands
  <2>5. CASE r.held[i] # Expired /\ Becomes(d, keep)
    <3>1. /\ keep \in RunState /\ keep.phase = "script" /\ keep.listed = r.listed
          /\ keep.held = r.held /\ keep.toApply = r.toApply /\ keep.domain = r.domain
      BY <1>0 DEF RunState
    <3> HIDE DEF keep
    <3>2. RunStands(keep, rows', swapped', injected')
      BY <1>b, <2>2, <2>4, <2>5, <2>d, <3>1 DEF RunStands
    <3> QED
      BY <1>1, <2>5, <3>1, <3>2
  <2>6. CASE i \in DOMAIN rows /\ Becomes(d, load)
    <3> DEFINE row == rows[i]
    <3>1. row \in Row /\ row # Expired
      BY <1>0, <2>6, RowsAreRead
    <3> DEFINE held == [r.held EXCEPT ![i] = row]
    <3>2. /\ held \in [RowIds -> Row \cup {Expired}] /\ held[i] = row
          /\ \A j \in RowIds \ {i} : held[j] = r.held[j]
      BY <1>0, <2>3, <3>1 DEF RunState
    <3>3. load = [r EXCEPT !.phase = "script", !.held = held]
      BY <1>0 DEF RunState
    <3> HIDE DEF held, load
    <3>4. /\ load \in RunState /\ load.phase = "script" /\ load.listed = r.listed
          /\ load.held = held /\ load.toApply = r.toApply /\ load.domain = r.domain
      BY <1>0, <3>2, <3>3 DEF RunState
    <3>5. r.listed \subseteq RowIds
      BY <1>0 DEF RunState
    <3>6. \A j \in (load.listed \cap DOMAIN rows') \ swapped' :
            load.held[j] # Expired => load.held[j].vuln = rows'[j].vuln
      BY <1>b, <2>2, <3>2, <3>4, <3>5 DEF RunStands
    <3>7. RunStands(load, rows', swapped', injected')
      BY <1>b, <2>2, <2>4, <2>d, <3>1, <3>2, <3>4, <3>6 DEF RunStands
    <3> QED
      BY <1>1, <2>6, <3>4, <3>7
  <2> QED
    BY <1>2, <1>a, <2>1, <2>5, <2>6
<1>6. CASE RunScript(d)
  <2>1. PICK i \in r.toApply, result \in {"done", "failed"} :
          /\ IsFirst(i, r.toApply)
          /\ result = "done" => <<r.domain, r.held[i].vuln>> \in injected'
          /\ Becomes(d, [r EXCEPT !.phase = "record", !.outcome = result])
    BY <1>6 DEF RunScript, IsFirst
  <2> DEFINE local == [r EXCEPT !.phase = "record", !.outcome = result]
  <2>2. /\ r.phase \notin Stopped /\ r.phase = "script"
        /\ UNCHANGED <<rows, swapped>>
    BY <1>6 DEF RunScript, Stopped
  <2>3. r.toApply \subseteq RowIds
    BY <1>0 DEF RunState
  <2>4. \A j \in r.toApply : IsFirst(j, r.toApply) => j = i
    <3>1. \A m, n \in Nat : m <= n /\ n <= m => m = n
      OBVIOUS
    <3> QED
      BY <2>1, <2>3, <3>1, IdsAreNumbers DEF IsFirst
  <2>5. /\ local \in RunState /\ local.phase = "record" /\ local.outcome = result
        /\ local.listed = r.listed /\ local.held = r.held
        /\ local.toApply = r.toApply /\ local.domain = r.domain
    BY <1>0 DEF RunState, Outcome
  <2>6. Becomes(d, local)
    BY <2>1
  <2> HIDE DEF local
  <2>7. RunStands(local, rows', swapped', injected')
    BY <1>b, <2>1, <2>2, <2>4, <2>5 DEF RunStands
  <2> QED
    BY <1>1, <2>5, <2>6, <2>7
<1>7. CASE RecordRow(d)
  <2>1. PICK i \in r.toApply, failure \in {"no", "yes"} :
          \/ i \in DOMAIN rows /\ Becomes(d, AfterCommit(d, i, failure))
          \/ Ends(d, "aborted")
    BY <1>0, <1>7 DEF RecordRow, RunState
  <2>2. CASE i \in DOMAIN rows /\ Becomes(d, AfterCommit(d, i, failure))
    <3> DEFINE held  == [j \in RowIds |-> IF j = i THEN rows'[i] ELSE Expired]
               local == [r EXCEPT !.phase = "row", !.outcome = "unknown",
                           !.toApply = @ \ {i}, !.failure = failure, !.held = held]
    <3>1. DOMAIN rows' = DOMAIN rows
      <4>1. ASSUME NEW k, NEW seen, NEW o, CommitStatus(k, seen, o)
            PROVE  DOMAIN rows' = DOMAIN rows
        BY <1>0, <4>1, CommitChanges
      <4> QED
        BY <1>7, <4>1 DEF RecordRow
    <3>2. rows'[i] \in Row /\ i \in RowIds
      BY <1>0, <2>2, <3>1, RowsChange
    <3>3. /\ held \in [RowIds -> Row \cup {Expired}]
          /\ \A j \in RowIds : held[j] # Expired => held[j] = rows'[j]
      BY <3>2
    <3>4. Becomes(d, local)
      BY <2>2 DEF AfterCommit
    <3> HIDE DEF held
    <3>5. /\ local \in RunState /\ local.phase = "row" /\ local.listed = r.listed
          /\ local.held = held /\ local.toApply = r.toApply \ {i}
          /\ local.domain = r.domain
      BY <1>0, <3>3 DEF RunState, Outcome
    <3> HIDE DEF local
    <3>6. r.listed \subseteq RowIds /\ r.toApply \subseteq r.listed
      BY <1>0, <1>7, <1>b DEF RunState, RecordRow, RunStands, Stopped
    <3>d. r.domain \in Domains
      BY <1>7, <1>b DEF RecordRow, RunStands
    <3>7. RunStands(local, rows', swapped', injected')
      BY <3>3, <3>5, <3>6, <3>d DEF RunStands
    <3> QED
      BY <1>1, <3>4, <3>5, <3>7
  <2> QED
    BY <1>2, <1>a, <2>1, <2>2
<1>8. CASE LeaveDomain(d)
  <2> DEFINE local == [r EXCEPT !.phase = "domain", !.domain = 0,
                                !.visits = @ \ {r.domain}]
  <2>1. /\ local \in RunState /\ local.phase = "domain" /\ local.listed = r.listed
        /\ local.held = r.held /\ local.toApply = r.toApply
    BY <1>0 DEF RunState
  <2>2. r.phase \notin Stopped /\ UNCHANGED <<rows, swapped>> /\ Becomes(d, local)
    BY <1>8 DEF LeaveDomain, Stopped
  <2> HIDE DEF local
  <2>3. RunStands(local, rows', swapped', injected')
    BY <1>b, <2>1, <2>2 DEF RunStands
  <2> QED
    BY <1>1, <2>1, <2>2, <2>3
<1>9. CASE Finish(d) \/ Abort(d)
  BY <1>2, <1>9, <1>a DEF Finish, Abort
<1> QED
  BY <1>3, <1>4, <1>5, <1>6, <1>7, <1>8, <1>9 DEF Push

(* What the others do does not change what a push knows.                    *)
LEMMA PushWaits ==
  ASSUME AppliedInv, [Next]_vars, NEW d \in Deploys, run'[d] = run[d]
  PROVE  RunStands(run'[d], rows', swapped', injected')
<1>1. run[d].phase \notin Stopped => \A i \in run[d].listed : IsHeld(i)
  BY DEF IsHeld
<1>2. RunStands(run[d], rows, swapped, injected)
  BY DEF RunStands, AppliedInv, ReadsStand, DoneIsReal
<1>3. \A i \in DOMAIN rows' \ swapped' :
        \/ i \in DOMAIN rows \ swapped /\ rows'[i].vuln = rows[i].vuln
        \/ ~IsHeld(i)
  BY RowsChange
<1>4. injected \subseteq injected'
  BY DomainsChange
<1> QED
  BY <1>1, <1>2, <1>3, <1>4 DEF RunStands

-----------------------------------------------------------------------------
(* The invariant is kept.                                                   *)

(* Every step is one operator's or one deployment's.                        *)
LEMMA EveryoneStands ==
  ASSUME AppliedInv, [Next]_vars
  PROVE  /\ ops' \in [Operators -> Operation] /\ run' \in [Deploys -> RunState]
         /\ \A o \in Operators : OpStands(ops'[o], rows', swapped', injected')
         /\ \A d \in Deploys : RunStands(run'[d], rows', swapped', injected')
<1>0. ops \in [Operators -> Operation] /\ run \in [Deploys -> RunState]
  BY DEF AppliedInv, TypeOK
<1>1. ASSUME UNCHANGED ops
      PROVE  \A o \in Operators : OpStands(ops'[o], rows', swapped', injected')
  BY <1>1, OperatorWaits
<1>2. ASSUME UNCHANGED run
      PROVE  \A d \in Deploys : RunStands(run'[d], rows', swapped', injected')
  BY <1>2, PushWaits
<1>3. ASSUME NEW o \in Operators, Operate(o), UNCHANGED run
      PROVE  /\ ops' \in [Operators -> Operation]
             /\ \A q \in Operators : OpStands(ops'[q], rows', swapped', injected')
  BY <1>3, OperatorStep, OperatorWaits
<1>4. ASSUME NEW d \in Deploys, Push(d) \/ Abort(d), UNCHANGED ops
      PROVE  /\ run' \in [Deploys -> RunState]
             /\ \A e \in Deploys : RunStands(run'[e], rows', swapped', injected')
  BY <1>4, PushStep, PushWaits
<1>5. \/ UNCHANGED ops /\ UNCHANGED run
      \/ UNCHANGED run /\ \E o \in Operators : Operate(o)
      \/ UNCHANGED ops /\ \E d \in Deploys : Push(d) \/ Abort(d)
  BY DEF Next, Operate, Push, CheckAttach, InsertRow, OpenRemoval, ConfirmRemoval,
         ReadOne, RunOne, RecordOne, GiveUp, Begin, EnterDomain, ReadRow, RunScript,
         RecordRow, LeaveDomain, Finish, Abort, vars
<1> QED
  BY <1>0, <1>1, <1>2, <1>3, <1>4, <1>5

(* A row comes to say APPLIED only from a push whose script succeeded for   *)
(* the vulnerability the row has now.                                       *)
LEMMA AppliedStep ==
  ASSUME AppliedInv, [Next]_vars
  PROVE  AppliedIsReal'
<1> SUFFICES ASSUME NEW i \in DOMAIN rows', rows'[i].status = "applied", i \notin swapped'
             PROVE  \E dm \in Domains : <<dm, rows'[i].vuln>> \in injected'
  BY DEF AppliedIsReal, RowsWith
<1>0. /\ DOMAIN rows \subseteq RowIds
      /\ \A j \in DOMAIN rows : rows[j] \in Row
      /\ injected \subseteq injected'
  BY DomainsChange DEF AppliedInv, TypeOK
<1>1. i \in DOMAIN rows \ swapped /\ rows'[i].vuln = rows[i].vuln
  BY RowsChange
<1>2. CASE rows[i].status = "applied"
  <2>1. \E dm \in Domains : <<dm, rows[i].vuln>> \in injected
    BY <1>1, <1>2 DEF AppliedInv, AppliedIsReal, RowsWith
  <2> QED
    BY <1>0, <1>1, <2>1
<1>3. ASSUME NEW k, NEW seen, NEW o, CommitStatus(k, seen, o), rows[i].status # "applied"
      PROVE  k = i /\ o = "done"
  <2>1. k = i /\ rows'[i].status = StatusFor(o)
    BY <1>0, <1>1, <1>3, CommitChanges
  <2> QED
    BY <2>1 DEF StatusFor
<1>4. ASSUME NEW o \in Operators, RecordOne(o), rows[i].status # "applied"
      PROVE  \E dm \in Domains : <<dm, rows'[i].vuln>> \in injected'
  <2>1. ops[o].row = i /\ ops[o].outcome = "done" /\ ops[o].doing = "record"
    BY <1>3, <1>4 DEF RecordOne
  <2>2. ops[o].seen.vuln = rows[i].vuln
    BY <1>1, <2>1 DEF AppliedInv, ReadsStand
  <2>3. \E dm \in Domains : <<dm, ops[o].seen.vuln>> \in injected
    BY <2>1 DEF AppliedInv, DoneIsReal
  <2> QED
    BY <1>0, <1>1, <2>2, <2>3
<1>5. ASSUME NEW d \in Deploys, RecordRow(d), rows[i].status # "applied"
      PROVE  \E dm \in Domains : <<dm, rows'[i].vuln>> \in injected'
  <2>1. PICK k \in run[d].toApply :
          /\ IsFirst(k, run[d].toApply)
          /\ CommitStatus(k, run[d].held[k], run[d].outcome) \/ UNCHANGED rows
    BY <1>5 DEF RecordRow
  <2>2. k = i /\ run[d].outcome = "done"
    BY <1>3, <1>5, <2>1
  <2>3. run[d].phase = "record" /\ run[d].phase \notin Stopped
    BY <1>5 DEF RecordRow, Stopped
  <2>4. /\ run[d].held[i] # Expired
        /\ \E dm \in Domains : <<dm, run[d].held[i].vuln>> \in injected
    BY <2>1, <2>2, <2>3 DEF AppliedInv, DoneIsReal
  <2>5. run[d].held[i].vuln = rows[i].vuln
    BY <1>1, <2>1, <2>2, <2>3, <2>4 DEF AppliedInv, ReadsStand
  <2> QED
    BY <1>0, <1>1, <2>4, <2>5
<1>6. ASSUME NEW o \in Operators, InsertRow(o) PROVE rows[i].status = "applied"
  BY <1>1, <1>6, InsertChanges DEF AppliedInv
<1>7. ASSUME NEW o \in Operators, ConfirmRemoval(o) PROVE rows[i].status = "applied"
  BY <1>7 DEF ConfirmRemoval
<1>8. \/ UNCHANGED rows
      \/ \E o \in Operators : InsertRow(o) \/ ConfirmRemoval(o) \/ RecordOne(o)
      \/ \E d \in Deploys : RecordRow(d)
  BY DEF Next, Operate, Push, CheckAttach, OpenRemoval, ReadOne, RunOne, GiveUp,
         Begin, EnterDomain, ReadRow, RunScript, LeaveDomain, Finish, Abort, vars
<1> QED
  BY <1>2, <1>4, <1>5, <1>6, <1>7, <1>8

(* The lab stays what it is.                                                *)
LEMMA LabStays ==
  ASSUME [Next]_vars
  PROVE  UNCHANGED rootDc
  BY DEF Next, Operate, Push, CheckAttach, InsertRow, OpenRemoval, ConfirmRemoval,
         ReadOne, RunOne, RecordOne, GiveUp, Begin, EnterDomain, ReadRow, RunScript,
         RecordRow, LeaveDomain, Finish, Abort, vars

-----------------------------------------------------------------------------
(* Every push under way knows its rows by what they are, a script that      *)
(* reported success did its work, and every variable keeps its type, in     *)
(* every reachable state.                                                   *)
THEOREM Invariant == Spec => []AppliedInv
<1>1. Init => AppliedInv
  <2> SUFFICES ASSUME Init PROVE AppliedInv
    OBVIOUS
  <2>1. /\ NotRunning("idle") \in RunState
        /\ \A d \in Deploys : run[d].phase = "idle"
    BY NotRunningType DEF Init, Stopped
  <2>2. \A o \in Operators : ops[o].doing = "nothing"
    BY RestingType DEF Init
  <2>3. TypeOK
    BY <2>1, RestingType, LabAssumption DEF Init, TypeOK
  <2> QED
    BY <2>1, <2>2, <2>3
    DEF Init, AppliedInv, ReadsStand, DoneIsReal, AppliedIsReal, RowsWith, Stopped
<1>2. AppliedInv /\ [Next]_vars => AppliedInv'
  <2> SUFFICES ASSUME AppliedInv, [Next]_vars PROVE AppliedInv'
    OBVIOUS
  <2>1. TypeOK'
    BY RowsChange, DomainsChange, LabStays, EveryoneStands DEF AppliedInv, TypeOK
  <2>2. ReadsStand' /\ DoneIsReal'
    BY EveryoneStands DEF ReadsStand, DoneIsReal, RunStands, OpStands
  <2> QED
    BY <2>1, <2>2, AppliedStep DEF AppliedInv
<1> QED
  BY <1>1, <1>2, PTL DEF Spec

(* Statuses, phases, ids and what a session holds stay what their columns   *)
(* and variables can hold, through every request, failure and race.         *)
THEOREM TypeCorrect == Spec => []TypeOK
<1>1. AppliedInv => TypeOK
  BY DEF AppliedInv
<1> QED
  BY <1>1, Invariant, PTL

(* Of a row that says APPLIED, some script of the project succeeded, however*)
(* many pushes, removals and insertions raced, unless its id is one that was*)
(* given out again under a push.                                            *)
THEOREM AppliedWasApplied == Spec => []AppliedIsReal
<1>1. AppliedInv => AppliedIsReal
  BY DEF AppliedInv
<1> QED
  BY <1>1, Invariant, PTL

-----------------------------------------------------------------------------
(* What a push that passes has achieved.                                    *)

(* What a push has achieved so far, with what it reads given: as long as    *)
(* nothing failed, each of its rows that is still itself has been injected  *)
(* in every domain that was left, and in this one if it is not still to be  *)
(* applied here; its status then says that a script ran.                    *)
RunServes(local, tbl, marked, done) ==
  /\ local.phase \in {"row", "script", "record"} => local.domain \in local.visits
  /\ local.phase \notin Stopped =>
       \A i \in (local.listed \cap DOMAIN tbl) \ marked :
         /\ local.held[i] # Expired /\ local.held[i].status # "pending" =>
              tbl[i].status # "pending"
         /\ local.failure = "no" =>
              /\ \A dm \in Domains \ local.visits : <<dm, tbl[i].vuln>> \in done
              /\ local.visits # Domains => tbl[i].status # "pending"
              /\ local.phase \in {"row", "script", "record"} /\ i \notin local.toApply =>
                   <<local.domain, tbl[i].vuln>> \in done /\ tbl[i].status # "pending"
  /\ local.phase = "record" /\ local.outcome = "done" =>
       \A i \in local.toApply : IsFirst(i, local.toApply) =>
         <<local.domain, local.held[i].vuln>> \in done

ServedInv == \A d \in Deploys : RunServes(run[d], rows, swapped, injected)

(* A row that is there does not become pending again.                       *)
LEMMA StatusStays ==
  ASSUME AppliedInv, [Next]_vars, NEW i \in DOMAIN rows \cap DOMAIN rows'
  PROVE  rows'[i].status \in {rows[i].status, "applied", "error"}
<1>0. /\ DOMAIN rows \subseteq RowIds /\ \A j \in DOMAIN rows : rows[j] \in Row
  BY DEF AppliedInv, TypeOK
<1>1. ASSUME NEW k, NEW seen, NEW o, CommitStatus(k, seen, o)
      PROVE  rows'[i].status \in {rows[i].status, "applied", "error"}
  BY <1>0, <1>1, CommitChanges, StatusForType
<1>2. ASSUME NEW o \in Operators, InsertRow(o) PROVE rows'[i] = rows[i]
  BY <1>2, InsertChanges DEF AppliedInv
<1>3. ASSUME NEW o \in Operators, ConfirmRemoval(o) PROVE rows'[i] = rows[i]
  BY <1>3 DEF ConfirmRemoval
<1>4. \/ UNCHANGED rows
      \/ \E o \in Operators : InsertRow(o) \/ ConfirmRemoval(o) \/ RecordOne(o)
      \/ \E d \in Deploys : RecordRow(d)
  BY DEF Next, Operate, Push, CheckAttach, OpenRemoval, ReadOne, RunOne, GiveUp,
         Begin, EnterDomain, ReadRow, RunScript, LeaveDomain, Finish, Abort, vars
<1> QED
  BY <1>1, <1>2, <1>3, <1>4 DEF RecordOne, RecordRow

(* The rows of a push, as far as they are still themselves, were so before. *)
LEMMA ListedStay ==
  ASSUME AppliedInv, [Next]_vars, NEW d \in Deploys, run[d].phase \notin Stopped,
         NEW i \in (run[d].listed \cap DOMAIN rows') \ swapped'
  PROVE  /\ i \in (run[d].listed \cap DOMAIN rows) \ swapped
         /\ rows'[i].vuln = rows[i].vuln
         /\ rows'[i].status \in {rows[i].status, "applied", "error"}
<1>1. IsHeld(i)
  BY DEF IsHeld
<1>2. i \in DOMAIN rows \ swapped /\ rows'[i].vuln = rows[i].vuln
  BY <1>1, RowsChange
<1> QED
  BY <1>2, StatusStays

(* What others do takes nothing from what a push has achieved.              *)
LEMMA ServedWaits ==
  ASSUME AppliedInv, ServedInv, [Next]_vars, NEW d \in Deploys, run'[d] = run[d]
  PROVE  RunServes(run'[d], rows', swapped', injected')
<1> DEFINE r == run[d]
<1>1. RunServes(r, rows, swapped, injected) /\ injected \subseteq injected'
  BY DomainsChange DEF ServedInv
<1>2. r.phase \notin Stopped =>
        \A i \in (r.listed \cap DOMAIN rows') \ swapped' :
          /\ i \in (r.listed \cap DOMAIN rows) \ swapped
          /\ rows'[i].vuln = rows[i].vuln
          /\ rows'[i].status \in {rows[i].status, "applied", "error"}
  BY ListedStay
<1> HIDE DEF r
<1>3. RunServes(r, rows', swapped', injected')
  BY <1>1, <1>2 DEF RunServes
<1> QED
  BY <1>3 DEF r

(* A step of a push keeps what it has achieved, and adds to it.             *)
LEMMA ServedStep ==
  ASSUME AppliedInv, ServedInv, [Next]_vars, NEW d \in Deploys, Push(d) \/ Abort(d)
  PROVE  RunServes(run'[d], rows', swapped', injected')
<1> DEFINE r == run[d]
           Good == RunServes(run'[d], rows', swapped', injected')
<1> SUFFICES Good
  OBVIOUS
<1>0. /\ run \in [Deploys -> RunState] /\ r \in RunState
      /\ DOMAIN rows \subseteq RowIds
      /\ \A i \in DOMAIN rows : rows[i] \in Row
      /\ injected \subseteq injected'
  BY DomainsChange DEF AppliedInv, TypeOK
<1>1. \A local : Becomes(d, local) => run'[d] = local
  BY <1>0 DEF Becomes
<1>2. ASSUME NEW local, Becomes(d, local), RunServes(local, rows', swapped', injected')
      PROVE  Good
  BY <1>1, <1>2
<1>3. ASSUME NEW p \in Stopped, Ends(d, p) PROVE Good
  <2>1. NotRunning(p).phase = p
    BY DEF NotRunning
  <2>2. RunServes(NotRunning(p), rows', swapped', injected')
    BY <2>1 DEF RunServes, Stopped
  <2> QED
    BY <1>2, <1>3, <2>2 DEF Ends
<1>a. {"passed", "failed", "aborted"} \subseteq Stopped
  BY DEF Stopped
<1>b. /\ RunStands(r, rows, swapped, injected)
      /\ RunServes(r, rows, swapped, injected)
  BY DEF RunStands, AppliedInv, ReadsStand, DoneIsReal, ServedInv
<1> HIDE DEF Good
<1>4. CASE Begin(d)
  <2> DEFINE listed == RowsWith(rows, {"pending", "modified"})
             held   == [i \in RowIds |-> IF i \in listed THEN rows[i] ELSE Expired]
             local  == [NotRunning("domain") EXCEPT
                          !.listed = listed, !.visits = Domains, !.held = held]
  <2>1. /\ Ends(d, "passed") \/ Becomes(d, local)
        /\ UNCHANGED <<rows, swapped, injected>>
    BY <1>4 DEF Begin
  <2>2. listed \subseteq DOMAIN rows
    BY DEF RowsWith
  <2> HIDE DEF listed
  <2>3. \A i \in listed : held[i] = rows[i]
    BY <1>0, <2>2
  <2> HIDE DEF held
  <2>4. /\ local.phase = "domain" /\ local.listed = listed
        /\ local.held = held /\ local.visits = Domains
    BY DEF NotRunning
  <2> HIDE DEF local
  <2>5. RunServes(local, rows', swapped', injected')
    BY <2>1, <2>3, <2>4 DEF RunServes
  <2> QED
    BY <1>2, <1>3, <1>a, <2>1, <2>5
<1>5. CASE EnterDomain(d)
  <2>1. PICK dm \in r.visits :
          CASE rootDc[dm] = "missing" -> Ends(d, "aborted")
            [] rootDc[dm] = "no_ip"   -> Becomes(d, [r EXCEPT
                 !.visits = @ \ {dm}, !.failure = "yes"])
            [] rootDc[dm] = "ok"      -> Becomes(d, [r EXCEPT
                 !.phase = "row", !.domain = dm, !.toApply = r.listed])
    BY <1>5 DEF EnterDomain
  <2>2. dm \in Domains /\ rootDc[dm] \in {"missing", "no_ip", "ok"}
    BY <1>0, LabAssumption DEF RunState, AppliedInv, TypeOK
  <2> DEFINE skip == [r EXCEPT !.visits = @ \ {dm}, !.failure = "yes"]
             go   == [r EXCEPT !.phase = "row", !.domain = dm, !.toApply = r.listed]
  <2>3. Ends(d, "aborted") \/ Becomes(d, skip) \/ Becomes(d, go)
    BY <2>1, <2>2
  <2>4. /\ skip.phase = "domain" /\ skip.listed = r.listed
        /\ skip.held = r.held /\ skip.failure = "yes"
        /\ go.phase = "row" /\ go.listed = r.listed /\ go.visits = r.visits
        /\ go.held = r.held /\ go.toApply = r.listed /\ go.domain = dm
        /\ go.failure = r.failure
    BY <1>0, <1>5 DEF EnterDomain, RunState
  <2>5. r.phase = "domain" /\ UNCHANGED <<rows, swapped, injected>>
    BY <1>5 DEF EnterDomain
  <2> HIDE DEF skip, go
  <2>6. RunServes(skip, rows', swapped', injected')
    BY <1>b, <2>4, <2>5 DEF RunServes, Stopped
  <2>7. RunServes(go, rows', swapped', injected')
    BY <1>b, <2>1, <2>4, <2>5 DEF RunServes, Stopped
  <2> QED
    BY <1>2, <1>3, <1>a, <2>3, <2>6, <2>7
<1>6. CASE ReadRow(d)
  <2>1. PICK i \in r.toApply :
          \/ Becomes(d, [r EXCEPT !.phase = "script"])
          \/ /\ i \in DOMAIN rows
             /\ Becomes(d, [r EXCEPT !.phase = "script", !.held[i] = rows[i]])
          \/ Ends(d, "aborted")
    BY <1>6 DEF ReadRow
  <2> DEFINE keep == [r EXCEPT !.phase = "script"]
             load == [r EXCEPT !.phase = "script", !.held[i] = rows[i]]
  <2>2. r.phase = "row" /\ UNCHANGED <<rows, swapped, injected>>
    BY <1>6 DEF ReadRow
  <2>3. i \in RowIds /\ r.listed \subseteq RowIds
    BY <1>0 DEF RunState
  <2>4. CASE Becomes(d, keep)
    <3>1. /\ keep.phase = "script" /\ keep.listed = r.listed
          /\ keep.held = r.held /\ keep.toApply = r.toApply /\ keep.domain = r.domain
          /\ keep.visits = r.visits /\ keep.failure = r.failure
      BY <1>0 DEF RunState
    <3> HIDE DEF keep
    <3>2. RunServes(keep, rows', swapped', injected')
      BY <1>b, <2>2, <3>1 DEF RunServes, Stopped
    <3> QED
      BY <1>2, <2>4, <3>2
  <2>5. CASE i \in DOMAIN rows /\ Becomes(d, load)
    <3> DEFINE held == [r.held EXCEPT ![i] = rows[i]]
    <3>1. /\ held[i] = rows[i]
          /\ \A j \in RowIds \ {i} : held[j] = r.held[j]
      BY <1>0, <2>3 DEF RunState
    <3>2. load = [r EXCEPT !.phase = "script", !.held = held]
      BY <1>0 DEF RunState
    <3> HIDE DEF held, load
    <3>3. /\ load.phase = "script" /\ load.listed = r.listed
          /\ load.held = held /\ load.toApply = r.toApply /\ load.domain = r.domain
          /\ load.visits = r.visits /\ load.failure = r.failure
      BY <1>0, <3>2 DEF RunState
    <3>4. \A j \in (r.listed \cap DOMAIN rows) \ swapped :
            held[j] # Expired /\ held[j].status # "pending" => rows[j].status # "pending"
      BY <1>b, <2>2, <2>3, <3>1 DEF RunServes, Stopped
    <3>5. RunServes(load, rows', swapped', injected')
      BY <1>b, <2>2, <3>3, <3>4 DEF RunServes, Stopped
    <3> QED
      BY <1>2, <2>5, <3>5
  <2> QED
    BY <1>3, <1>a, <2>1, <2>4, <2>5
<1>7. CASE RunScript(d)
  <2>1. PICK i \in r.toApply, result \in {"done", "failed"} :
          /\ IsFirst(i, r.toApply)
          /\ result = "done" => <<r.domain, r.held[i].vuln>> \in injected'
          /\ Becomes(d, [r EXCEPT !.phase = "record", !.outcome = result])
    BY <1>7 DEF RunScript, IsFirst
  <2> DEFINE local == [r EXCEPT !.phase = "record", !.outcome = result]
  <2>2. r.phase = "script" /\ UNCHANGED <<rows, swapped>>
    BY <1>7 DEF RunScript
  <2>3. r.toApply \subseteq RowIds
    BY <1>0 DEF RunState
  <2>4. \A j \in r.toApply : IsFirst(j, r.toApply) => j = i
    <3>1. \A m, n \in Nat : m <= n /\ n <= m => m = n
      OBVIOUS
    <3> QED
      BY <2>1, <2>3, <3>1, IdsAreNumbers DEF IsFirst
  <2>5. /\ local.phase = "record" /\ local.outcome = result
        /\ local.listed = r.listed /\ local.held = r.held
        /\ local.toApply = r.toApply /\ local.domain = r.domain
        /\ local.visits = r.visits /\ local.failure = r.failure
    BY <1>0 DEF RunState
  <2>6. Becomes(d, local)
    BY <2>1
  <2> HIDE DEF local
  <2>7. RunServes(local, rows', swapped', injected')
    BY <1>0, <1>b, <2>1, <2>2, <2>4, <2>5 DEF RunServes, Stopped
  <2> QED
    BY <1>2, <2>6, <2>7
<1>8. CASE RecordRow(d)
  <2>1. /\ r.phase = "record" /\ r.phase \notin Stopped /\ UNCHANGED <<swapped, injected>>
        /\ r.toApply \subseteq r.listed /\ r.listed \subseteq RowIds
    BY <1>0, <1>8, <1>b DEF RecordRow, Stopped, RunStands, RunState
  <2>2. PICK i \in r.toApply :
          /\ IsFirst(i, r.toApply)
          /\ \/ /\ i \in DOMAIN rows
                /\ CommitStatus(i, r.held[i], r.outcome)
                /\ Becomes(d, AfterCommit(d, i, IF r.outcome = "done"
                                                THEN r.failure ELSE "yes"))
             \/ Ends(d, "aborted")
    BY <1>8 DEF RecordRow
  <2>3. CASE /\ i \in DOMAIN rows
             /\ CommitStatus(i, r.held[i], r.outcome)
             /\ Becomes(d, AfterCommit(d, i, IF r.outcome = "done"
                                             THEN r.failure ELSE "yes"))
    <3> DEFINE failure == IF r.outcome = "done" THEN r.failure ELSE "yes"
               held  == [j \in RowIds |-> IF j = i THEN rows'[i] ELSE Expired]
               local == [r EXCEPT !.phase = "row", !.outcome = "unknown",
                           !.toApply = @ \ {i}, !.failure = failure, !.held = held]
    <3>1. /\ DOMAIN rows' = DOMAIN rows
          /\ \A j \in DOMAIN rows : rows'[j].vuln = rows[j].vuln
      BY <1>0, <2>3, CommitChanges
    <3>2. \A j \in DOMAIN rows :
            rows[j].status # "pending" => rows'[j].status # "pending"
      BY <3>1, StatusStays
    <3>3. \A j \in RowIds : held[j] # Expired => held[j] = rows'[j]
      OBVIOUS
    <3>4. Becomes(d, local)
      BY <2>3 DEF AfterCommit
    <3> HIDE DEF held
    <3>5. /\ local.phase = "row" /\ local.listed = r.listed
          /\ local.held = held /\ local.toApply = r.toApply \ {i}
          /\ local.domain = r.domain /\ local.visits = r.visits
          /\ local.failure = failure
      BY <1>0 DEF RunState
    <3> HIDE DEF local
    <3>6. failure = "no" => r.failure = "no" /\ r.outcome = "done"
      OBVIOUS
    <3> HIDE DEF failure
    \* The row of this round: its script did its work here, and says so.
    <3>7. ASSUME failure = "no", i \notin swapped
          PROVE  <<r.domain, rows'[i].vuln>> \in injected /\ rows'[i].status # "pending"
      <4>1. r.held[i] # Expired /\ r.outcome = "done"
        BY <1>b, <2>1, <2>2, <3>6, <3>7 DEF RunStands
      <4>2. r.held[i].vuln = rows[i].vuln
        BY <1>b, <2>1, <2>3, <3>7, <4>1 DEF RunStands
      <4>3. <<r.domain, r.held[i].vuln>> \in injected
        BY <1>b, <2>1, <2>2, <4>1 DEF RunServes
      <4>4. rows'[i].status # "pending"
        <5>1. StatusFor(r.outcome) = "applied"
          BY <4>1 DEF StatusFor
        <5>2. CASE r.held[i].status = "applied"
          <6>1. rows[i].status # "pending"
            BY <1>b, <2>1, <2>3, <3>7, <4>1, <5>2 DEF RunServes
          <6> QED
            BY <2>3, <3>2, <6>1
        <5>3. CASE r.held[i].status # "applied"
          <6>1. rows' = UpdateStatus(rows, i, "applied")
            BY <2>3, <5>1, <5>3 DEF CommitStatus
          <6>2. rows[i] \in Row
            BY <1>0, <2>3
          <6>3. rows'[i] = [rows[i] EXCEPT !.status = "applied"]
            BY <2>3, <6>1, UpdatedStatus
          <6> QED
            BY <6>2, <6>3 DEF Row
        <5> QED
          BY <5>2, <5>3
      <4> QED
        BY <2>3, <3>1, <4>2, <4>3, <4>4
    <3>8. RunServes(local, rows', swapped', injected')
      <4>1. local.domain \in local.visits
        BY <1>b, <2>1, <3>5 DEF RunServes
      <4>2. ASSUME NEW j \in (local.listed \cap DOMAIN rows') \ swapped'
            PROVE  /\ local.held[j] # Expired /\ local.held[j].status # "pending" =>
                        rows'[j].status # "pending"
                   /\ local.failure = "no" =>
                        /\ \A dm \in Domains \ local.visits :
                             <<dm, rows'[j].vuln>> \in injected'
                        /\ local.visits # Domains => rows'[j].status # "pending"
                        /\ j \notin local.toApply =>
                             /\ <<local.domain, rows'[j].vuln>> \in injected'
                             /\ rows'[j].status # "pending"
        <5>1. /\ j \in (r.listed \cap DOMAIN rows) \ swapped /\ j \in RowIds
              /\ rows'[j].vuln = rows[j].vuln
              /\ rows[j].status # "pending" => rows'[j].status # "pending"
          BY <2>1, <3>1, <3>2, <3>5, <4>2
        <5>2. local.held[j] # Expired /\ local.held[j].status # "pending" =>
                rows'[j].status # "pending"
          BY <3>3, <3>5, <5>1
        <5>3. ASSUME local.failure = "no"
              PROVE  /\ \A dm \in Domains \ local.visits :
                             <<dm, rows'[j].vuln>> \in injected'
                     /\ local.visits # Domains => rows'[j].status # "pending"
                     /\ j \notin local.toApply =>
                             /\ <<local.domain, rows'[j].vuln>> \in injected'
                             /\ rows'[j].status # "pending"
          <6>1. /\ \A dm \in Domains \ r.visits : <<dm, rows[j].vuln>> \in injected
                /\ r.visits # Domains => rows[j].status # "pending"
                /\ j \notin r.toApply =>
                     <<r.domain, rows[j].vuln>> \in injected /\ rows[j].status # "pending"
            BY <1>b, <2>1, <3>5, <3>6, <5>1, <5>3 DEF RunServes
          <6> QED
            BY <2>1, <3>5, <3>7, <5>1, <5>3, <6>1
        <5> QED
          BY <5>2, <5>3
      <4> QED
        BY <3>5, <4>1, <4>2 DEF RunServes
    <3> QED
      BY <1>2, <3>4, <3>8
  <2> QED
    BY <1>3, <1>a, <2>2, <2>3
<1>9. CASE LeaveDomain(d)
  <2> DEFINE local == [r EXCEPT !.phase = "domain", !.domain = 0,
                                !.visits = @ \ {r.domain}]
  <2>1. /\ local.phase = "domain" /\ local.listed = r.listed
        /\ local.held = r.held /\ local.visits = r.visits \ {r.domain}
        /\ local.failure = r.failure
    BY <1>0 DEF RunState
  <2>2. /\ r.phase = "row" /\ r.toApply = {}
        /\ UNCHANGED <<rows, swapped, injected>> /\ Becomes(d, local)
    BY <1>9 DEF LeaveDomain
  <2> HIDE DEF local
  <2>3. RunServes(local, rows', swapped', injected')
    BY <1>b, <2>1, <2>2 DEF RunServes, Stopped
  <2> QED
    BY <1>2, <2>2, <2>3
<1>10. CASE Finish(d) \/ Abort(d)
  BY <1>3, <1>10, <1>a DEF Finish, Abort
<1> QED
  BY <1>4, <1>5, <1>6, <1>7, <1>8, <1>9, <1>10 DEF Push

(* Both parts of the invariant hold of every reachable state.               *)
LEMMA ServedHolds == Spec => [](AppliedInv /\ ServedInv)
<1>1. Init => ServedInv
  <2> SUFFICES ASSUME Init PROVE ServedInv
    OBVIOUS
  <2>1. \A d \in Deploys : run[d].phase = "idle"
    BY DEF Init, NotRunning
  <2> QED
    BY <2>1 DEF ServedInv, RunServes, Stopped
<1>2. AppliedInv /\ ServedInv /\ [Next]_vars => ServedInv'
  <2> SUFFICES ASSUME AppliedInv, ServedInv, [Next]_vars, NEW d \in Deploys
               PROVE  RunServes(run'[d], rows', swapped', injected')
    BY DEF ServedInv
  <2>0. run \in [Deploys -> RunState]
    BY DEF AppliedInv, TypeOK
  <2>1. \/ run'[d] = run[d]
        \/ Push(d) \/ Abort(d)
    <3>1. ASSUME NEW e \in Deploys, e # d, Push(e) \/ Abort(e) PROVE run'[d] = run[d]
      BY <2>0, <3>1, PushStep
    <3> QED
      BY <3>1 DEF Next, Operate, CheckAttach, InsertRow, OpenRemoval, ConfirmRemoval,
                  ReadOne, RunOne, RecordOne, GiveUp, vars
  <2> QED
    BY <2>1, ServedWaits, ServedStep
<1> QED
  BY <1>1, <1>2, Invariant, PTL DEF Spec

(* A push passes only when each row it listed is no longer pending and its  *)
(* vulnerability is in every domain of the project, however many pushes and *)
(* edits raced with it, unless the id of the row was given out again under  *)
(* it.                                                                      *)
THEOREM PassingInjectsAll == Spec => PassedIsInjected
<1>1. AppliedInv /\ ServedInv /\ [Next]_vars =>
        [\A d \in Deploys :
           run[d].phase \notin Stopped /\ run'[d].phase = "passed" =>
             \A i \in (run[d].listed \cap DOMAIN rows) \ swapped :
               /\ rows[i].status # "pending"
               /\ \A dm \in Domains : <<dm, rows[i].vuln>> \in injected]_vars
  <2> SUFFICES ASSUME AppliedInv, ServedInv, [Next]_vars, NEW d \in Deploys,
                      run[d].phase \notin Stopped, run'[d].phase = "passed",
                      NEW i \in (run[d].listed \cap DOMAIN rows) \ swapped
               PROVE  /\ rows[i].status # "pending"
                      /\ \A dm \in Domains : <<dm, rows[i].vuln>> \in injected
    OBVIOUS
  <2> DEFINE r == run[d]
  <2>1. run \in [Deploys -> RunState] /\ r \in RunState
    BY DEF AppliedInv, TypeOK
  <2>2. \A local : Becomes(d, local) => run'[d] = local
    BY <2>1 DEF Becomes
  <2>3. \A p : Ends(d, p) => p = "passed"
    BY <2>2 DEF Ends, NotRunning
  <2>4. Finish(d)
    <3>1. ASSUME NEW e \in Deploys, e # d, Push(e) \/ Abort(e) PROVE FALSE
      BY <2>1, <3>1, PushStep DEF Stopped
    <3>2. Push(d)
      BY <2>3, <3>1 DEF Next, Operate, CheckAttach, InsertRow, OpenRemoval,
                        ConfirmRemoval, ReadOne, RunOne, RecordOne, GiveUp, Abort, vars,
                        Stopped
    <3>3. ~Begin(d)
      BY DEF Begin
    <3>4. ~EnterDomain(d)
      <4>1. ASSUME EnterDomain(d) PROVE FALSE
        <5>1. PICK dm \in r.visits :
                CASE rootDc[dm] = "missing" -> Ends(d, "aborted")
                  [] rootDc[dm] = "no_ip"   -> Becomes(d, [r EXCEPT
                       !.visits = @ \ {dm}, !.failure = "yes"])
                  [] rootDc[dm] = "ok"      -> Becomes(d, [r EXCEPT
                       !.phase = "row", !.domain = dm, !.toApply = r.listed])
          BY <4>1 DEF EnterDomain
        <5>2. rootDc[dm] \in {"missing", "no_ip", "ok"}
          BY <2>1, LabAssumption DEF RunState, AppliedInv, TypeOK
        <5>3. \/ Ends(d, "aborted")
              \/ run'[d] = [r EXCEPT !.visits = @ \ {dm}, !.failure = "yes"]
              \/ run'[d] = [r EXCEPT !.phase = "row", !.domain = dm, !.toApply = r.listed]
          BY <2>2, <5>1, <5>2
        <5>4. r.phase = "domain"
          BY <4>1 DEF EnterDomain
        <5> QED
          BY <2>1, <2>3, <5>3, <5>4 DEF RunState
      <4> QED
        BY <4>1
    <3>5. ~ReadRow(d) /\ ~RunScript(d) /\ ~LeaveDomain(d)
      BY <2>1, <2>2, <2>3 DEF ReadRow, RunScript, LeaveDomain, RunState
    <3>6. ~RecordRow(d)
      BY <2>1, <2>2, <2>3 DEF RecordRow, AfterCommit, RunState
    <3> QED
      BY <3>2, <3>3, <3>4, <3>5, <3>6 DEF Push
  <2>5. r.phase = "domain" /\ r.visits = {} /\ r.failure = "no"
    BY <2>1, <2>3, <2>4 DEF Finish, RunState
  <2>6. Domains # {}
    <3>1. rows[i] \in Row
      BY DEF AppliedInv, TypeOK
    <3>2. rows[i].domain \in Domains
      BY <3>1 DEF Row
    <3> QED
      BY <3>2
  <2>7. RunServes(r, rows, swapped, injected)
    BY DEF ServedInv
  <2> QED
    BY <2>5, <2>6, <2>7 DEF RunServes, Stopped
<1> QED
  BY <1>1, ServedHolds, PTL DEF Spec, PassedIsInjected

=============================================================================
