------------------------- MODULE ServerBringUpProofs -------------------------
(***************************************************************************)
(* Proofs about ServerBringUp, for every project and any number of racing, *)
(* dying and repeated requests.                                            *)
(***************************************************************************)
EXTENDS ServerBringUp, AppliedTemplatesLemmas

-----------------------------------------------------------------------------
(* Facts about the local state of a request.                                *)

(* A request that is not running has a local state of the right type.       *)
LEMMA NotRunningType ==
  ASSUME NEW p \in Phase
  PROVE  NotRunning(p) \in RunState
  BY DEF NotRunning, RunState, NoClones

(* Replacing the local state of one request by another keeps the type of run. *)
LEMMA BecomesType ==
  ASSUME run \in [Deploys -> RunState], NEW d \in Deploys,
         NEW local \in RunState, Becomes(d, local)
  PROVE  /\ run' \in [Deploys -> RunState]
         /\ run'[d] = local
         /\ \A e \in Deploys \ {d} : run'[e] = run[e]
  BY DEF Becomes

(* So does ending a request.                                                *)
LEMMA EndsType ==
  ASSUME run \in [Deploys -> RunState], NEW d \in Deploys,
         NEW p \in Phase, Ends(d, p)
  PROVE  /\ run' \in [Deploys -> RunState]
         /\ run'[d] = NotRunning(p)
         /\ \A e \in Deploys \ {d} : run'[e] = run[e]
  BY NotRunningType, BecomesType DEF Ends

(* The two ways a request ends are phases.                                  *)
LEMMA StoppedPhases == {"passed", "failed"} \subseteq Phase
  BY DEF Phase, Stopped

-----------------------------------------------------------------------------
(* Every variable keeps its type: statuses and phases stay among those the  *)
(* code knows, ids are ids, and lists name servers of the project.          *)

(* What a request does to itself keeps the type of its local state.         *)
LEMMA StepType ==
  ASSUME TypeOK, NEW d \in Deploys, Start(d) \/ Step(d) \/ Abort(d)
  PROVE  run' \in [Deploys -> RunState]
<1> DEFINE r == run[d]
<1>0. run \in [Deploys -> RunState] /\ r \in RunState
  BY DEF TypeOK
<1> SUFFICES \/ \E p \in Phase : Ends(d, p)
             \/ \E local \in RunState : Becomes(d, local)
             \/ UNCHANGED run
  BY <1>0, EndsType, BecomesType
<1>1. CASE Start(d)
  <2> DEFINE pending == {s \in Servers : status[s] # "applied"}
  <2>1. [r EXCEPT !.phase = "plan", !.batch = pending, !.toClone = pending] \in RunState
    BY <1>0 DEF RunState, Phase
  <2> QED
    BY <1>1, <2>1 DEF Start
<1>2. CASE Plan(d)
  <2> DEFINE dcs == DCs \ Promoted
             p   == IF r.batch # {} THEN "clone" ELSE "promote"
  <2>1. [r EXCEPT !.phase = p, !.toPromote = dcs, !.left = dcs] \in RunState
    BY <1>0 DEF RunState, Phase
  <2> QED
    BY <1>2, <2>1, StoppedPhases DEF Plan
<1>3. CASE CloneVm(d)
  <2>1. ASSUME NEW s \in Servers, NEW vm \in Nat
        PROVE  /\ [r EXCEPT !.toClone = @ \ {s}, !.cloned = [@ EXCEPT ![s] = vm]] \in RunState
               /\ [r EXCEPT !.toClone = @ \ {s}] \in RunState
    BY <1>0 DEF RunState
  <2>2. r.toClone \subseteq Servers
    BY <1>0 DEF RunState
  <2>3. Len(vms) + 1 \in Nat
    BY DEF TypeOK
  <2> QED
    BY <1>3, <2>1, <2>2, <2>3 DEF CloneVm
<1>4. CASE RecordClones(d)
  <2>1. [r EXCEPT !.phase = "promote", !.batch = {}, !.cloned = NoClones] \in RunState
    BY <1>0 DEF RunState, Phase, NoClones
  <2> QED
    BY <1>4, <2>1, StoppedPhases DEF RecordClones
<1>5. CASE BeginPromotion(d)
  <2>1. RowIds \subseteq Nat
    BY BoundAssumption DEF RowIds
  <2>2. ASSUME NEW i \in Nat
        PROVE  [r EXCEPT !.phase = "run", !.current = i] \in RunState
    BY <1>0 DEF RunState, Phase
  <2> QED
    BY <1>5, <2>1, <2>2 DEF BeginPromotion
<1>6. CASE SkipPromotion(d)
  <2>1. ASSUME NEW s PROVE [r EXCEPT !.left = @ \ {s}] \in RunState
    BY <1>0 DEF RunState
  <2> QED
    BY <1>6, <2>1 DEF SkipPromotion
<1>7. CASE RunPromotion(d)
  <2>1. ASSUME NEW ok \in BOOLEAN
        PROVE  [r EXCEPT !.phase = "record", !.outcome = ok] \in RunState
    BY <1>0 DEF RunState, Phase
  <2> QED
    BY <1>7, <2>1 DEF RunPromotion
<1>8. CASE RecordPromotion(d)
  <2>1. ASSUME NEW s
        PROVE  [r EXCEPT !.phase = "promote", !.left = @ \ {s}, !.current = 0,
                         !.outcome = FALSE] \in RunState
    BY <1>0 DEF RunState, Phase
  <2> QED
    BY <1>8, <2>1, StoppedPhases DEF RecordPromotion, NextPromotion
<1>9. CASE EndPromotions(d)
  <2>1. [r EXCEPT !.phase = "await", !.toAwait = r.toPromote \cap Addressed] \in RunState
    BY <1>0 DEF RunState, Phase
  <2> QED
    BY <1>9, <2>1 DEF EndPromotions
<1>10. CASE SeeReady(d)
  <2>1. ASSUME NEW s PROVE [r EXCEPT !.toAwait = @ \ {s}] \in RunState
    BY <1>0 DEF RunState
  <2> QED
    BY <1>10, <2>1 DEF SeeReady
<1>11. CASE GiveUpWaiting(d) \/ Pass(d) \/ Abort(d)
  BY <1>11, StoppedPhases DEF GiveUpWaiting, Pass, Abort
<1> QED
  BY <1>1, <1>2, <1>3, <1>4, <1>5, <1>6, <1>7, <1>8, <1>9, <1>10, <1>11 DEF Step

(* Every step keeps the type of the tracking table.                         *)
LEMMA RowsType ==
  ASSUME TypeOK, [Next]_vars
  PROVE  /\ DOMAIN rows' \subseteq RowIds
         /\ \A i \in DOMAIN rows' : rows'[i] \in PromotionRow
<1> DEFINE Goal == /\ DOMAIN rows' \subseteq RowIds
                   /\ \A i \in DOMAIN rows' : rows'[i] \in PromotionRow
<1>0. /\ DOMAIN rows \subseteq RowIds
      /\ \A i \in DOMAIN rows : rows[i] \in PromotionRow
  BY DEF TypeOK
<1>1. ASSUME NEW d \in Deploys, BeginPromotion(d) PROVE Goal
  <2>1. PICK s \in run[d].left \cap Addressed, i \in RowIds :
          /\ IsNextId(rows, i)
          /\ rows' = CreateRow(rows, i, [server |-> s, status |-> "pending"])
    BY <1>1 DEF BeginPromotion
  <2>2. i \in Nat /\ s \in DCs
    BY BoundAssumption DEF RowIds, TypeOK, RunState
  <2>3. i \notin DOMAIN rows
    BY <2>1, <2>2, NextIdIsNew
  <2> DEFINE row == [server |-> s, status |-> "pending"]
  <2>4. row \in PromotionRow
    BY <2>2 DEF PromotionRow, TemplateStatus
  <2>5. /\ DOMAIN rows' = DOMAIN rows \cup {i}
        /\ rows'[i] = row
        /\ \A j \in DOMAIN rows : rows'[j] = rows[j]
    <3> HIDE DEF row
    <3>1. rows' = CreateRow(rows, i, row)
      BY <2>1 DEF row
    <3> QED
      BY <2>3, <3>1 DEF CreateRow
  <2> HIDE DEF row
  <2> QED
    BY <1>0, <2>4, <2>5
<1>2. ASSUME NEW d \in Deploys, RecordPromotion(d) PROVE Goal
  <2> DEFINE i == run[d].current
  <2>1. PICK st \in TemplateStatus : rows' = UpdateStatus(rows, i, st)
    BY <1>2 DEF RecordPromotion, TemplateStatus
  <2>2. \A j \in DOMAIN rows : [rows[j] EXCEPT !.status = st] \in PromotionRow
    BY DEF TypeOK, PromotionRow
  <2>3. /\ DOMAIN rows' = DOMAIN rows
        /\ \A j \in DOMAIN rows :
             rows'[j] = rows[j] \/ rows'[j] = [rows[j] EXCEPT !.status = st]
    <3> HIDE DEF i
    <3> QED
      BY <2>1 DEF UpdateStatus
  <2> QED
    BY <1>0, <2>2, <2>3
<1>3. ASSUME NEW i, RemoveRow(i) PROVE Goal
  <2>1. DOMAIN rows' = DOMAIN rows \ {i} /\ \A j \in DOMAIN rows' : rows'[j] = rows[j]
    BY <1>3, DeletedRow DEF RemoveRow
  <2> QED
    BY <1>0, <2>1
<1>4. ASSUME UNCHANGED rows PROVE Goal
  BY <1>0, <1>4
<1>5. \/ UNCHANGED rows
      \/ \E d \in Deploys : BeginPromotion(d) \/ RecordPromotion(d)
      \/ \E i : RemoveRow(i)
  BY DEF Next, Step, Start, Plan, CloneVm, RecordClones, SkipPromotion,
         RunPromotion, EndPromotions, SeeReady, GiveUpWaiting, Pass, Abort,
         BecomeReady, vars, db
<1> HIDE DEF Goal
<1>6. Goal
  BY <1>1, <1>2, <1>3, <1>4, <1>5
<1> QED
  BY <1>6 DEF Goal

(* Every step keeps the type of the servers table.                          *)
LEMMA ServersType ==
  ASSUME TypeOK, [Next]_vars
  PROVE  /\ status' \in [Servers -> ServerStatus]
         /\ vmId' \in [Servers -> Nat]
<1>1. ASSUME NEW d \in Deploys, RecordClones(d)
      PROVE  /\ status' \in [Servers -> ServerStatus]
             /\ vmId' \in [Servers -> Nat]
  <2>1. run[d].cloned \in [Servers -> Nat]
    BY DEF TypeOK, RunState
  <2> QED
    BY <1>1, <2>1 DEF RecordClones, TypeOK, ServerStatus
<1>2. \/ UNCHANGED <<status, vmId>>
      \/ \E d \in Deploys : RecordClones(d)
  BY DEF Next, Step, Start, Plan, CloneVm, BeginPromotion, RecordPromotion,
         SkipPromotion, RunPromotion, EndPromotions, SeeReady, GiveUpWaiting,
         Pass, Abort, BecomeReady, RemoveRow, vars, db
<1> QED
  BY <1>1, <1>2 DEF TypeOK

(* What a step does to the machines: none, a new clone that is no           *)
(* controller yet, a promotion, or a controller that answers.               *)
LEMMA WorldSteps ==
  ASSUME TypeOK, [Next]_vars
  PROVE  \/ UNCHANGED vms
         \/ \E d \in Deploys, s \in Servers :
              /\ CloneVm(d)
              /\ s \in run[d].toClone
              /\ vms' = Append(vms, [server |-> s, role |-> "none", ready |-> FALSE])
         \/ \E d \in Deploys, n \in DOMAIN vms, role \in Role :
              /\ RunPromotion(d)
              /\ vms[n].role = "none"
              /\ vms' = [vms EXCEPT ![n].role = role]
         \/ \E n \in DOMAIN vms :
              /\ BecomeReady(n)
              /\ vms' = [vms EXCEPT ![n].ready = TRUE]
<1>1. ASSUME NEW d \in Deploys, CloneVm(d)
      PROVE  \/ UNCHANGED vms
             \/ \E s \in Servers :
                  /\ s \in run[d].toClone
                  /\ vms' = Append(vms, [server |-> s, role |-> "none", ready |-> FALSE])
  <2>1. run[d].toClone \subseteq Servers
    BY DEF TypeOK, RunState
  <2> QED
    BY <1>1, <2>1 DEF CloneVm
<1>2. ASSUME NEW d \in Deploys, RunPromotion(d)
      PROVE  \/ UNCHANGED vms
             \/ \E n \in DOMAIN vms, role \in Role :
                  vms[n].role = "none" /\ vms' = [vms EXCEPT ![n].role = role]
  <2>1. \A s : RoleOf(d, s) \in Role
    BY DEF RoleOf, Role
  <2> QED
    BY <1>2, <2>1 DEF RunPromotion, CanPromote
<1>3. ASSUME NEW n \in DOMAIN vms, BecomeReady(n)
      PROVE  vms' = [vms EXCEPT ![n].ready = TRUE]
  BY <1>3 DEF BecomeReady
<1>4. \/ UNCHANGED vms
      \/ \E d \in Deploys : CloneVm(d) \/ RunPromotion(d)
      \/ \E n \in DOMAIN vms : BecomeReady(n)
  BY DEF Next, Step, Start, Plan, RecordClones, BeginPromotion,
         RecordPromotion, SkipPromotion, EndPromotions, SeeReady,
         GiveUpWaiting, Pass, Abort, RemoveRow, vars, db
<1>5. CASE \E d \in Deploys : CloneVm(d)
  BY <1>1, <1>5
<1>6. CASE \E d \in Deploys : RunPromotion(d)
  BY <1>2, <1>6
<1> QED
  BY <1>3, <1>4, <1>5, <1>6

(* A machine stays its server's, a controller stays what it is, and goes on *)
(* answering.                                                               *)
Lasts(n) ==
  /\ n \in DOMAIN vms'
  /\ vms'[n].server = vms[n].server
  /\ vms[n].role # "none" => vms'[n].role = vms[n].role
  /\ vms[n].ready => vms'[n].ready

(* Every step keeps the machines' types, and what they are.                 *)
LEMMA WorldLasts ==
  ASSUME TypeOK, [Next]_vars
  PROVE  vms' \in Seq(Machine) /\ \A n \in DOMAIN vms : Lasts(n)
<1>0. /\ vms \in Seq(Machine)
      /\ \A n \in DOMAIN vms : vms[n] \in Machine
  BY DEF TypeOK
<1>1. CASE UNCHANGED vms
  BY <1>0, <1>1 DEF Lasts
<1>2. ASSUME NEW s \in Servers,
             vms' = Append(vms, [server |-> s, role |-> "none", ready |-> FALSE])
      PROVE  vms' \in Seq(Machine) /\ \A n \in DOMAIN vms : Lasts(n)
  <2> DEFINE m == [server |-> s, role |-> "none", ready |-> FALSE]
  <2>1. m \in Machine
    BY DEF Machine
  <2> HIDE DEF m
  <2>2. vms' = Append(vms, m)
    BY <1>2 DEF m
  <2>3. vms' \in Seq(Machine)
    BY <1>0, <2>1, <2>2
  <2>4. \A n \in DOMAIN vms : n \in DOMAIN vms' /\ vms'[n] = vms[n]
    BY <1>0, <2>1, <2>2
  <2> QED
    BY <2>3, <2>4 DEF Lasts
<1>3. ASSUME NEW n \in DOMAIN vms, NEW m \in Machine, vms' = [vms EXCEPT ![n] = m],
             m.server = vms[n].server,
             vms[n].role # "none" => m.role = vms[n].role, vms[n].ready => m.ready
      PROVE  vms' \in Seq(Machine) /\ \A k \in DOMAIN vms : Lasts(k)
  <2>1. vms' \in Seq(Machine)
    BY <1>0, <1>3
  <2> QED
    BY <1>0, <1>3, <2>1 DEF Lasts
<1>4. ASSUME NEW n \in DOMAIN vms, NEW role \in Role, vms[n].role = "none",
             vms' = [vms EXCEPT ![n].role = role]
      PROVE  vms' \in Seq(Machine) /\ \A k \in DOMAIN vms : Lasts(k)
  <2> DEFINE m == [vms[n] EXCEPT !.role = role]
  <2>1. m \in Machine /\ m.server = vms[n].server /\ m.ready = vms[n].ready
    BY <1>0 DEF Machine
  <2>2. vms' = [vms EXCEPT ![n] = m]
    BY <1>4
  <2> HIDE DEF m
  <2> QED
    BY <1>3, <1>4, <2>1, <2>2
<1>5. ASSUME NEW n \in DOMAIN vms, vms' = [vms EXCEPT ![n].ready = TRUE]
      PROVE  vms' \in Seq(Machine) /\ \A k \in DOMAIN vms : Lasts(k)
  <2> DEFINE m == [vms[n] EXCEPT !.ready = TRUE]
  <2>1. m \in Machine /\ m.server = vms[n].server /\ m.role = vms[n].role /\ m.ready
    BY <1>0 DEF Machine
  <2>2. vms' = [vms EXCEPT ![n] = m]
    BY <1>5
  <2> HIDE DEF m
  <2> QED
    BY <1>3, <2>1, <2>2
<1> QED
  BY <1>1, <1>2, <1>4, <1>5, WorldSteps

(* What that says of the servers.                                           *)
LEMMA ControllersLast ==
  ASSUME TypeOK, [Next]_vars
  PROVE  /\ \A s : ControllersAt(s) \subseteq ControllersAt(s)'
         /\ \A s : Answers(s) => Answers(s)'
         /\ \A s, role : HasRole(s, role) => HasRole(s, role)'
         /\ Controllers \subseteq Controllers'
<1>1. \A n \in DOMAIN vms : Lasts(n)
  BY WorldLasts
<1>2. ASSUME NEW s PROVE ControllersAt(s) \subseteq ControllersAt(s)'
  BY <1>1 DEF ControllersAt, Lasts
<1>3. ASSUME NEW s, Answers(s) PROVE Answers(s)'
  <2>1. PICK n \in ControllersAt(s) : vms[n].ready
    BY <1>3 DEF Answers
  <2> QED
    BY <1>1, <1>2, <2>1 DEF Answers, ControllersAt, Lasts
<1>4. ASSUME NEW s, NEW role, HasRole(s, role) PROVE HasRole(s, role)'
  <2>1. PICK n \in ControllersAt(s) : vms[n].role = role
    BY <1>4 DEF HasRole
  <2> QED
    BY <1>1, <1>2, <2>1 DEF HasRole, ControllersAt, Lasts
<1>5. Controllers \subseteq Controllers'
  BY <1>2 DEF Controllers
<1> QED
  BY <1>2, <1>3, <1>4, <1>5

(* Every step keeps the types.                                              *)
LEMMA TypeStep == TypeOK /\ [Next]_vars => TypeOK'
<1> SUFFICES ASSUME TypeOK, [Next]_vars PROVE TypeOK'
  OBVIOUS
<1>1. run' \in [Deploys -> RunState]
  <2>1. CASE UNCHANGED run
    BY <2>1 DEF TypeOK
  <2>2. CASE \E d \in Deploys : Start(d) \/ Step(d) \/ Abort(d)
    BY <2>2, StepType
  <2> QED
    BY <2>1, <2>2 DEF Next, BecomeReady, RemoveRow, vars
<1>2. starts' \in Nat
  <2>1. UNCHANGED starts \/ starts' = starts + 1
    BY DEF Next, Step, Start, Plan, CloneVm, RecordClones, BeginPromotion,
       RecordPromotion, SkipPromotion, RunPromotion, EndPromotions, SeeReady,
       GiveUpWaiting, Pass, Abort, BecomeReady, RemoveRow, vars
  <2> QED
    BY <2>1 DEF TypeOK
<1>3. crossed' \subseteq DCs
  <2>1. ASSUME NEW d \in Deploys, BeginPromotion(d) PROVE crossed' \subseteq DCs
    <3>1. run[d].left \subseteq DCs
      BY DEF TypeOK, RunState
    <3> QED
      BY <2>1, <3>1 DEF BeginPromotion, TypeOK
  <2>2. UNCHANGED crossed \/ \E d \in Deploys : BeginPromotion(d)
    BY DEF Next, Step, Start, Plan, CloneVm, RecordClones, RecordPromotion,
       SkipPromotion, RunPromotion, EndPromotions, SeeReady, GiveUpWaiting, Pass,
       Abort, BecomeReady, RemoveRow, vars
  <2> QED
    BY <2>1, <2>2 DEF TypeOK
<1> QED
  BY <1>1, <1>2, <1>3, RowsType, ServersType, WorldLasts DEF TypeOK

-----------------------------------------------------------------------------
(* What each action does to the parts of the state the invariant is about.  *)

(* Only the request that acts changes.                                      *)
Frame(d) == \A e \in Deploys \ {d} : run'[e] = run[e]

(* Lists of servers have one head.                                          *)
LEMMA OneHead ==
  ASSUME NEW S \in SUBSET DCs, NEW s, NEW t, IsHead(s, S), IsHead(t, S)
  PROVE  s = t
<1>1. s \in Servers /\ t \in Servers
  BY ProjectAssumption DEF IsHead
<1>2. s \in Nat /\ t \in Nat /\ DomainOf[s] \in Nat /\ DomainOf[t] \in Nat
  BY <1>1, ProjectAssumption
<1> QED
  BY <1>2 DEF IsHead, Precedes

(* Beginning a promotion: what is new in the request and in the table.      *)
LEMMA AfterBegin ==
  ASSUME TypeOK, NEW d \in Deploys, BeginPromotion(d)
  PROVE  /\ Frame(d)
         /\ UNCHANGED vms
         /\ run[d].phase = "promote"
         /\ run'[d].phase = "run"
         /\ run'[d].left = run[d].left
         /\ run'[d].toPromote = run[d].toPromote
         /\ run'[d].current \in RowIds \ DOMAIN rows
         /\ DOMAIN rows' = DOMAIN rows \cup {run'[d].current}
         /\ \A j \in DOMAIN rows : rows'[j] = rows[j]
         /\ \E s \in run[d].left \cap Addressed :
              /\ IsHead(s, run[d].left)
              /\ rows'[run'[d].current] = [server |-> s, status |-> "pending"]
              /\ crossed' = IF \E e \in Deploys : Busy(e) /\ run[e].current = run'[d].current
                            THEN crossed \cup {s} ELSE crossed
<1>1. PICK s \in run[d].left \cap Addressed, i \in RowIds :
        /\ IsHead(s, run[d].left)
        /\ IsNextId(rows, i)
        /\ rows' = CreateRow(rows, i, [server |-> s, status |-> "pending"])
        /\ Becomes(d, [run[d] EXCEPT !.phase = "run", !.current = i])
        /\ crossed' = IF \E e \in Deploys : Busy(e) /\ run[e].current = i
                      THEN crossed \cup {s} ELSE crossed
  BY DEF BeginPromotion
<1>2. run'[d] = [run[d] EXCEPT !.phase = "run", !.current = i]
      /\ \A e \in Deploys \ {d} : run'[e] = run[e]
  BY <1>1 DEF Becomes, TypeOK
<1>3. /\ run'[d].phase = "run"
      /\ run'[d].left = run[d].left
      /\ run'[d].toPromote = run[d].toPromote
      /\ run'[d].current = i
  BY <1>2 DEF TypeOK, RunState
<1>4. i \notin DOMAIN rows
  BY <1>1, BoundAssumption, NextIdIsNew DEF RowIds
<1>5. /\ DOMAIN rows' = DOMAIN rows \cup {i}
      /\ \A j \in DOMAIN rows : rows'[j] = rows[j]
      /\ rows'[i] = [server |-> s, status |-> "pending"]
  BY <1>1, <1>4 DEF CreateRow
<1>6. /\ run[d].phase = "promote"
      /\ UNCHANGED vms
  BY DEF BeginPromotion
<1> QED
  BY <1>1, <1>2, <1>3, <1>4, <1>5, <1>6 DEF Frame

(* Running the playbook: what it changes in the request and in the world.   *)
LEMMA AfterRun ==
  ASSUME TypeOK, NEW d \in Deploys, RunPromotion(d)
  PROVE  /\ Frame(d)
         /\ UNCHANGED <<rows, crossed>>
         /\ run[d].phase = "run"
         /\ run'[d].phase = "record"
         /\ run'[d].left = run[d].left
         /\ run'[d].toPromote = run[d].toPromote
         /\ run'[d].current = run[d].current
         /\ \/ UNCHANGED vms /\ run'[d].outcome = FALSE
            \/ \E s \in run[d].left, n \in DOMAIN vms :
                 /\ IsHead(s, run[d].left)
                 /\ vms[n].server = s
                 /\ vms[n].role = "none"
                 /\ vms' = [vms EXCEPT ![n].role = RoleOf(d, s)]
<1>1. PICK ok \in BOOLEAN :
        /\ Becomes(d, [run[d] EXCEPT !.phase = "record", !.outcome = ok])
        /\ \/ UNCHANGED vms /\ ok = FALSE
           \/ \E s \in run[d].left, n \in DOMAIN vms :
                /\ IsHead(s, run[d].left)
                /\ vms[n].server = s
                /\ vms[n].role = "none"
                /\ vms' = [vms EXCEPT ![n].role = RoleOf(d, s)]
  BY DEF RunPromotion, CanPromote
<1>2. run'[d] = [run[d] EXCEPT !.phase = "record", !.outcome = ok]
      /\ \A e \in Deploys \ {d} : run'[e] = run[e]
  BY <1>1 DEF Becomes, TypeOK
<1>3. /\ run'[d].phase = "record"
      /\ run'[d].left = run[d].left
      /\ run'[d].toPromote = run[d].toPromote
      /\ run'[d].current = run[d].current
      /\ run'[d].outcome = ok
  BY <1>2 DEF TypeOK, RunState
<1>4. /\ run[d].phase = "run"
      /\ UNCHANGED <<rows, crossed>>
  BY DEF RunPromotion, db
<1> QED
  BY <1>1, <1>2, <1>3, <1>4 DEF Frame

(* Recording an outcome: what changes in the request and in the table.      *)
LEMMA AfterRecord ==
  ASSUME TypeOK, NEW d \in Deploys, RecordPromotion(d)
  PROVE  /\ Frame(d)
         /\ UNCHANGED <<vms, crossed>>
         /\ run[d].phase = "record"
         /\ rows' = UpdateStatus(rows, run[d].current,
                                 IF run[d].outcome THEN "applied" ELSE "error")
         /\ \/ /\ run[d].outcome
               /\ run[d].current \in DOMAIN rows
               /\ run'[d].phase = "promote"
               /\ run'[d].toPromote = run[d].toPromote
               /\ \E s \in run[d].left : /\ IsHead(s, run[d].left)
                                         /\ run'[d].left = run[d].left \ {s}
            \/ run'[d] = NotRunning("failed")
<1> DEFINE i == run[d].current
<1>1. PICK s \in run[d].left :
        /\ IsHead(s, run[d].left)
        /\ IF run[d].outcome /\ i \in DOMAIN rows
           THEN NextPromotion(d, s) ELSE Ends(d, "failed")
  BY DEF RecordPromotion
<1>2. /\ run[d].phase = "record"
      /\ UNCHANGED <<vms, crossed>>
      /\ rows' = UpdateStatus(rows, i, IF run[d].outcome THEN "applied" ELSE "error")
  BY DEF RecordPromotion
<1>3. CASE run[d].outcome /\ i \in DOMAIN rows
  <2>1. Becomes(d, [run[d] EXCEPT !.phase = "promote", !.left = @ \ {s},
                                  !.current = 0, !.outcome = FALSE])
    BY <1>1, <1>3 DEF NextPromotion
  <2>2. run'[d] = [run[d] EXCEPT !.phase = "promote", !.left = @ \ {s},
                                 !.current = 0, !.outcome = FALSE]
        /\ \A e \in Deploys \ {d} : run'[e] = run[e]
    BY <2>1 DEF Becomes, TypeOK
  <2>3. /\ run'[d].phase = "promote"
        /\ run'[d].left = run[d].left \ {s}
        /\ run'[d].toPromote = run[d].toPromote
    BY <2>2 DEF TypeOK, RunState
  <2> QED
    BY <1>1, <1>2, <1>3, <2>2, <2>3 DEF Frame
<1>4. CASE ~(run[d].outcome /\ i \in DOMAIN rows)
  <2>1. Becomes(d, NotRunning("failed"))
    BY <1>1, <1>4 DEF Ends
  <2>2. run'[d] = NotRunning("failed") /\ \A e \in Deploys \ {d} : run'[e] = run[e]
    BY <2>1 DEF Becomes, TypeOK
  <2> QED
    BY <1>2, <2>2 DEF Frame
<1> QED
  BY <1>3, <1>4

(* Every other step of a request leaves the tracking table alone and takes  *)
(* it outside of a promotion.                                               *)
Elsewhere(d) ==
  \/ Start(d) \/ Plan(d) \/ CloneVm(d) \/ RecordClones(d) \/ SkipPromotion(d)
  \/ EndPromotions(d) \/ SeeReady(d) \/ GiveUpWaiting(d) \/ Pass(d) \/ Abort(d)

(* Any other step of a request: what it leaves alone.                       *)
LEMMA AfterElsewhere ==
  ASSUME TypeOK, NEW d \in Deploys, Elsewhere(d)
  PROVE  /\ Frame(d)
         /\ UNCHANGED <<rows, crossed>>
         /\ \/ \E p \in {"passed", "failed"} :
                 /\ run'[d] = NotRunning(p)
                 /\ p = "passed" =>
                      \/ run[d].phase = "plan" /\ DCs \ Promoted = {}
                      \/ run[d].phase = "clone" /\ run[d].toPromote = {}
                      \/ run[d].phase = "await"
            \/ /\ run'[d].phase = "plan"
               /\ run'[d].left = run[d].left
               /\ run'[d].toPromote = run[d].toPromote
            \/ /\ run'[d].phase \in {"clone", "promote"}
               /\ run'[d].left = DCs \ Promoted
               /\ run'[d].toPromote = DCs \ Promoted
            \/ /\ run[d].phase \in {"clone", "promote"}
               /\ run'[d].phase \in {"clone", "promote"}
               /\ \/ run'[d].left = run[d].left
                  \/ \E s \in run[d].left \ Addressed : run'[d].left = run[d].left \ {s}
               /\ run'[d].toPromote = run[d].toPromote
            \/ /\ run[d].phase = "promote"
               /\ run[d].left = {}
               /\ run'[d].phase = "await"
               /\ run'[d].left = run[d].left
               /\ run'[d].toPromote = run[d].toPromote
               /\ run'[d].toAwait = run[d].toPromote \cap Addressed
            \/ /\ run[d].phase = "await"
               /\ run'[d].phase = "await"
               /\ run'[d].left = run[d].left
               /\ run'[d].toPromote = run[d].toPromote
               /\ \E s \in run[d].toAwait :
                    Answers(s) /\ run'[d].toAwait = run[d].toAwait \ {s}
<1> DEFINE r == run[d]
<1>1. /\ UNCHANGED <<rows, crossed>>
      /\ \E local : Becomes(d, local)
  BY DEF Elsewhere, Start, Plan, CloneVm, RecordClones, SkipPromotion, EndPromotions,
         SeeReady, GiveUpWaiting, Pass, Abort, Ends, db
<1>2. Frame(d)
  BY <1>1 DEF Becomes, Frame, TypeOK
<1>3. ASSUME NEW local, Becomes(d, local) PROVE run'[d] = local
  BY <1>3 DEF Becomes, TypeOK
<1>4. r \in RunState
  BY DEF TypeOK
<1>5. CASE Start(d)
  <2> DEFINE pending == {s \in Servers : status[s] # "applied"}
  <2>1. run'[d] = [r EXCEPT !.phase = "plan", !.batch = pending, !.toClone = pending]
    BY <1>3, <1>5 DEF Start
  <2> HIDE DEF pending
  <2>2. /\ run'[d].phase = "plan"
        /\ run'[d].left = run[d].left
        /\ run'[d].toPromote = run[d].toPromote
    BY <1>4, <2>1 DEF RunState
  <2> QED
    BY <1>1, <1>2, <2>2
<1>6. CASE Plan(d)
  <2> DEFINE dcs == DCs \ Promoted
             p   == IF r.batch # {} THEN "clone" ELSE "promote"
  <2>1. \/ run'[d] = NotRunning("passed") /\ dcs = {}
        \/ run'[d] = [r EXCEPT !.phase = p, !.toPromote = dcs, !.left = dcs]
    BY <1>3, <1>6 DEF Plan, Ends
  <2>2. p \in {"clone", "promote"}
    OBVIOUS
  <2>3. ASSUME run'[d] = [r EXCEPT !.phase = p, !.toPromote = dcs, !.left = dcs]
        PROVE  run'[d].phase = p /\ run'[d].left = dcs /\ run'[d].toPromote = dcs
    <3> HIDE DEF p, dcs
    <3> QED
      BY <1>4, <2>3 DEF RunState
  <2>4. run[d].phase = "plan"
    BY <1>6 DEF Plan
  <2> HIDE DEF p
  <2> QED
    BY <1>1, <1>2, <2>1, <2>2, <2>3, <2>4
<1>7. CASE CloneVm(d)
  <2>1. PICK s \in r.toClone, vm \in Nat :
          \/ run'[d] = [r EXCEPT !.toClone = @ \ {s}, !.cloned = [@ EXCEPT ![s] = vm]]
          \/ run'[d] = [r EXCEPT !.toClone = @ \ {s}]
    <3>1. Len(vms) + 1 \in Nat
      BY DEF TypeOK
    <3> QED
      BY <1>3, <1>7, <3>1 DEF CloneVm
  <2>2. /\ run'[d].phase = run[d].phase
        /\ run'[d].left = run[d].left
        /\ run'[d].toPromote = run[d].toPromote
    BY <1>4, <2>1 DEF RunState
  <2>3. run[d].phase = "clone"
    BY <1>7 DEF CloneVm
  <2> QED
    BY <1>1, <1>2, <2>2, <2>3
<1>8. CASE RecordClones(d)
  <2>1. \/ run'[d] = NotRunning("passed") /\ r.toPromote = {}
        \/ run'[d] = [r EXCEPT !.phase = "promote", !.batch = {}, !.cloned = NoClones]
    BY <1>3, <1>8 DEF RecordClones, Ends
  <2>2. ASSUME run'[d] = [r EXCEPT !.phase = "promote", !.batch = {}, !.cloned = NoClones]
        PROVE  /\ run'[d].phase = "promote"
               /\ run'[d].left = run[d].left
               /\ run'[d].toPromote = run[d].toPromote
    BY <1>4, <2>2 DEF RunState
  <2>3. run[d].phase = "clone"
    BY <1>8 DEF RecordClones
  <2> QED
    BY <1>1, <1>2, <2>1, <2>2, <2>3
<1>9. CASE SkipPromotion(d)
  <2>1. PICK s \in r.left \ Addressed : run'[d] = [r EXCEPT !.left = @ \ {s}]
    BY <1>3, <1>9 DEF SkipPromotion
  <2>2. /\ run'[d].phase = run[d].phase
        /\ run'[d].left = run[d].left \ {s}
        /\ run'[d].toPromote = run[d].toPromote
    BY <1>4, <2>1 DEF RunState
  <2>3. run[d].phase = "promote"
    BY <1>9 DEF SkipPromotion
  <2> QED
    BY <1>1, <1>2, <2>2, <2>3
<1>10. CASE EndPromotions(d)
  <2>1. run'[d] = [r EXCEPT !.phase = "await", !.toAwait = r.toPromote \cap Addressed]
    BY <1>3, <1>10 DEF EndPromotions
  <2>2. /\ run'[d].phase = "await"
        /\ run'[d].left = run[d].left
        /\ run'[d].toPromote = run[d].toPromote
        /\ run'[d].toAwait = run[d].toPromote \cap Addressed
    BY <1>4, <2>1 DEF RunState
  <2>3. run[d].phase = "promote" /\ run[d].left = {}
    BY <1>10 DEF EndPromotions
  <2> QED
    BY <1>1, <1>2, <2>2, <2>3
<1>11. CASE SeeReady(d)
  <2>1. PICK s \in r.toAwait : Answers(s) /\ run'[d] = [r EXCEPT !.toAwait = @ \ {s}]
    BY <1>3, <1>11 DEF SeeReady
  <2>2. /\ run'[d].phase = run[d].phase
        /\ run'[d].left = run[d].left
        /\ run'[d].toPromote = run[d].toPromote
        /\ run'[d].toAwait = run[d].toAwait \ {s}
    BY <1>4, <2>1 DEF RunState
  <2>3. run[d].phase = "await"
    BY <1>11 DEF SeeReady
  <2> QED
    BY <1>1, <1>2, <2>1, <2>2, <2>3
<1>12. CASE GiveUpWaiting(d) \/ Pass(d) \/ Abort(d)
  <2>1. \/ run'[d] = NotRunning("failed")
        \/ run'[d] = NotRunning("passed") /\ run[d].phase = "await"
    BY <1>3, <1>12 DEF GiveUpWaiting, Pass, Abort, Ends
  <2> QED
    BY <1>1, <1>2, <2>1
<1> QED
  BY <1>5, <1>6, <1>7, <1>8, <1>9, <1>10, <1>11, <1>12 DEF Elsewhere

(* Every step is one of the above, or leaves the requests alone: a machine  *)
(* becomes ready, or a row is removed.                                      *)
LEMMA NextCases ==
  ASSUME Next
  PROVE  \/ \E d \in Deploys : \/ BeginPromotion(d) \/ RunPromotion(d)
                               \/ RecordPromotion(d) \/ Elsewhere(d)
         \/ UNCHANGED <<rows, run, crossed>>
         \/ /\ \E i \in DOMAIN rows : rows' = DeleteRow(rows, i)
            /\ UNCHANGED <<vms, run, crossed>>
  BY DEF Next, Step, Elsewhere, BecomeReady, RemoveRow, db

-----------------------------------------------------------------------------
(* The inductive invariant, conjunct by conjunct.                           *)

(* A removal leaves the other rows what they were.                          *)
LEMMA RemovedRow ==
  ASSUME NEW i, rows' = DeleteRow(rows, i), UNCHANGED crossed
  PROVE  \A j \in Uncrossed' : j \in Uncrossed /\ rows'[j] = rows[j]
<1>1. DOMAIN rows' = DOMAIN rows \ {i} /\ \A j \in DOMAIN rows' : rows'[j] = rows[j]
  BY DeletedRow
<1> QED
  BY <1>1 DEF Uncrossed

(* What RowsAreOwned says of one request.                                   *)
Owned(d) ==
  Busy(d) =>
    \E s \in run[d].left \cap Addressed :
      /\ IsHead(s, run[d].left)
      /\ run[d].current \in Uncrossed =>
           rows[run[d].current] = [server |-> s, status |-> "pending"]

(* A promotion's row, if it is known to be its own, is PENDING.             *)
LEMMA OwnRow ==
  ASSUME BringUpInv, NEW d \in Deploys, Busy(d), run[d].current \in Uncrossed
  PROVE  /\ rows[run[d].current].status = "pending"
         /\ \E s \in run[d].left : IsHead(s, run[d].left) /\ rows[run[d].current].server = s
<1>1. PICK s \in run[d].left :
        /\ IsHead(s, run[d].left)
        /\ rows[run[d].current] = [server |-> s, status |-> "pending"]
  BY DEF BringUpInv, RowsAreOwned
<1> QED
  BY <1>1

(* Owned stays true while the request's list, and its row if still there,  *)
(* stay.                                                                    *)
LEMMA OwnedKept ==
  ASSUME NEW d \in Deploys, Owned(d),
         Busy(d)' => /\ Busy(d)
                     /\ run'[d].left = run[d].left
                     /\ run'[d].current \in Uncrossed' =>
                          /\ run[d].current \in Uncrossed
                          /\ rows'[run'[d].current] = rows[run[d].current]
  PROVE  Owned(d)'
<1> SUFFICES ASSUME Busy(d)' PROVE Owned(d)'
  BY DEF Owned
<1>1. PICK s \in run[d].left \cap Addressed :
        /\ IsHead(s, run[d].left)
        /\ run[d].current \in Uncrossed =>
             rows[run[d].current] = [server |-> s, status |-> "pending"]
  BY DEF Owned
<1>2. IsHead(s, run'[d].left)
  BY <1>1
<1>3. s \in run'[d].left \cap Addressed
  BY <1>1
<1>4. run'[d].current \in Uncrossed' =>
        rows'[run'[d].current] = [server |-> s, status |-> "pending"]
  BY <1>1
<1> QED
  BY <1>2, <1>3, <1>4 DEF Owned, IsHead, Precedes

(* Every step keeps the rows of promotions under way their owners'.         *)
LEMMA OwnedStep ==
  ASSUME BringUpInv, Next
  PROVE  RowsAreOwned'
<1> USE DEF BringUpInv
<1>0. \A e \in Deploys : Owned(e)
  BY DEF RowsAreOwned, Owned
<1>1. ASSUME NEW d \in Deploys, BeginPromotion(d) PROVE RowsAreOwned'
  <2> DEFINE i == run'[d].current
  <2>1. /\ \A e \in Deploys \ {d} : run'[e] = run[e]
        /\ i \notin DOMAIN rows
        /\ DOMAIN rows' = DOMAIN rows \cup {i}
        /\ \A j \in DOMAIN rows : rows'[j] = rows[j]
        /\ run'[d].left = run[d].left
        /\ ~Busy(d)
    BY <1>1, AfterBegin DEF Frame, Busy
  <2>2. PICK s \in run[d].left \cap Addressed :
          /\ IsHead(s, run[d].left)
          /\ rows'[i] = [server |-> s, status |-> "pending"]
          /\ crossed' = IF \E e \in Deploys : Busy(e) /\ run[e].current = i
                        THEN crossed \cup {s} ELSE crossed
    BY <1>1, AfterBegin
  <2>3. rows'[i].server = s
    BY <2>2
  <2>4. ASSUME NEW e \in Deploys \ {d}, Busy(e)', run'[e].current \in Uncrossed'
        PROVE  Busy(e) /\ run[e].current # i /\ run[e].current \in Uncrossed
    <3>1. run'[e] = run[e] /\ Busy(e)
      BY <2>1, <2>4 DEF Busy
    <3>2. run[e].current # i
      BY <2>2, <2>3, <2>4, <3>1 DEF Uncrossed
    <3> QED
      BY <2>1, <2>2, <2>4, <3>1, <3>2 DEF Uncrossed
  <2>5. Owned(d)'
    BY <2>1, <2>2 DEF Owned, IsHead, Precedes
  <2>6. ASSUME NEW e \in Deploys \ {d} PROVE Owned(e)'
    <3>1. run'[e] = run[e]
      BY <2>1
    <3>2. Busy(e)' => Busy(e)
      BY <3>1 DEF Busy
    <3>3. Busy(e) /\ run[e].current \in Uncrossed => run[e].current \in DOMAIN rows
      BY DEF Uncrossed
    <3> QED
      BY <1>0, <2>1, <2>4, <3>1, <3>2, <3>3, OwnedKept
  <2>7. ASSUME NEW e \in Deploys, NEW f \in Deploys, Busy(e)', Busy(f)',
               run'[e].current = run'[f].current, run'[e].current \in Uncrossed'
        PROVE  e = f
    BY <2>1, <2>4, <2>7 DEF RowsAreOwned
  <2> QED
    BY <2>5, <2>6, <2>7 DEF RowsAreOwned, Owned
<1>2. ASSUME NEW d \in Deploys, RunPromotion(d) PROVE RowsAreOwned'
  <2>1. /\ \A e \in Deploys \ {d} : run'[e] = run[e]
        /\ rows' = rows /\ crossed' = crossed
        /\ Busy(d)
        /\ run'[d].left = run[d].left
        /\ run'[d].current = run[d].current
    BY <1>2, AfterRun DEF Frame, Busy
  <2>2. \A e \in Deploys : /\ Busy(e)' => Busy(e)
                           /\ run'[e].left = run[e].left
                           /\ run'[e].current = run[e].current
    BY <2>1 DEF Busy
  <2>3. Uncrossed' = Uncrossed
    BY <2>1 DEF Uncrossed
  <2>4. \A e \in Deploys : Owned(e)'
    BY <1>0, <2>1, <2>2, <2>3, OwnedKept
  <2> QED
    BY <2>2, <2>3, <2>4 DEF RowsAreOwned, Owned
<1>3. ASSUME NEW d \in Deploys, RecordPromotion(d) PROVE RowsAreOwned'
  <2> DEFINE i == run[d].current
  <2>1. /\ \A e \in Deploys \ {d} : run'[e] = run[e]
        /\ crossed' = crossed
        /\ Busy(d) /\ ~Busy(d)'
        /\ DOMAIN rows' = DOMAIN rows
        /\ \A j \in DOMAIN rows \ {i} : rows'[j] = rows[j]
        /\ \A j \in DOMAIN rows : rows'[j].server = rows[j].server
    <3>1. /\ \A e \in Deploys \ {d} : run'[e] = run[e]
          /\ crossed' = crossed
          /\ Busy(d) /\ ~Busy(d)'
      BY <1>3, AfterRecord DEF Frame, Busy, NotRunning
    <3>2. PICK st : rows' = UpdateStatus(rows, i, st)
      BY <1>3, AfterRecord
    <3>3. \A j \in DOMAIN rows : [rows[j] EXCEPT !.status = st].server = rows[j].server
      BY DEF TypeOK, PromotionRow
    <3> HIDE DEF i
    <3> QED
      BY <3>1, <3>2, <3>3 DEF UpdateStatus
  <2>2. Uncrossed' = Uncrossed
    BY <2>1 DEF Uncrossed
  <2>3. ASSUME NEW e \in Deploys, Busy(e)'
        PROVE  /\ e # d /\ run'[e] = run[e] /\ Busy(e)
               /\ run[e].current \in Uncrossed =>
                    rows'[run'[e].current] = rows[run[e].current]
    <3>1. e # d /\ run'[e] = run[e] /\ Busy(e)
      BY <2>1, <2>3 DEF Busy
    <3>2. run[e].current \in Uncrossed => run[e].current # i
      BY <2>1, <3>1 DEF RowsAreOwned
    <3>3. Uncrossed \subseteq DOMAIN rows
      BY DEF Uncrossed
    <3> QED
      BY <2>1, <3>1, <3>2, <3>3
  <2>4. ASSUME NEW e \in Deploys PROVE Owned(e)'
    BY <1>0, <2>2, <2>3, OwnedKept
  <2>5. ASSUME NEW e \in Deploys, NEW f \in Deploys, Busy(e)', Busy(f)',
               run'[e].current = run'[f].current, run'[e].current \in Uncrossed'
        PROVE  e = f
    BY <2>2, <2>3, <2>5 DEF RowsAreOwned
  <2> QED
    BY <2>4, <2>5 DEF RowsAreOwned, Owned
<1>4. ASSUME NEW d \in Deploys, Elsewhere(d) PROVE RowsAreOwned'
  <2>1. /\ \A e \in Deploys \ {d} : run'[e] = run[e]
        /\ rows' = rows /\ crossed' = crossed
        /\ ~Busy(d)'
    BY <1>4, AfterElsewhere DEF Frame, Busy, NotRunning
  <2>2. ASSUME NEW e \in Deploys, Busy(e)' PROVE run'[e] = run[e] /\ Busy(e)
    BY <2>1, <2>2 DEF Busy
  <2>3. Uncrossed' = Uncrossed
    BY <2>1 DEF Uncrossed
  <2>4. \A e \in Deploys : Owned(e)'
    BY <1>0, <2>1, <2>2, <2>3, OwnedKept
  <2> QED
    BY <2>2, <2>3, <2>4 DEF RowsAreOwned, Owned
<1>5. ASSUME UNCHANGED <<rows, run, crossed>> PROVE RowsAreOwned'
  BY <1>5 DEF RowsAreOwned, Busy, Uncrossed, IsHead, Precedes
<1>6. ASSUME NEW i \in DOMAIN rows, rows' = DeleteRow(rows, i),
             UNCHANGED <<run, crossed>>
      PROVE  RowsAreOwned'
  <2>1. \A j \in Uncrossed' : j \in Uncrossed /\ rows'[j] = rows[j]
    BY <1>6, RemovedRow
  <2>2. \A e \in Deploys : Busy(e)' <=> Busy(e)
    BY <1>6 DEF Busy
  <2>3. \A e \in Deploys : Owned(e)'
    BY <1>0, <1>6, <2>1, <2>2, OwnedKept
  <2> QED
    BY <1>6, <2>1, <2>2, <2>3 DEF RowsAreOwned, Owned
<1> QED
  BY <1>1, <1>2, <1>3, <1>4, <1>5, <1>6, NextCases

(* Every step keeps the claims true and distinct.                           *)
LEMMA ClaimsStep ==
  ASSUME BringUpInv, Next
  PROVE  ClaimsAreTrue'
<1> USE DEF BringUpInv
<1>0. \A s : ControllersAt(s) \subseteq ControllersAt(s)'
  BY ControllersLast
<1>1. ASSUME \A i \in Claims' : i \in Claims /\ rows'[i].server = rows[i].server
      PROVE  ClaimsAreTrue'
  BY <1>0, <1>1 DEF ClaimsAreTrue
<1>2. ASSUME NEW d \in Deploys, BeginPromotion(d) PROVE ClaimsAreTrue'
  <2> DEFINE i == run'[d].current
  <2>1. /\ \A e \in Deploys \ {d} : run'[e] = run[e]
        /\ run'[d].phase = "run"
        /\ i \notin DOMAIN rows
        /\ DOMAIN rows' = DOMAIN rows \cup {i}
        /\ \A j \in DOMAIN rows : rows'[j] = rows[j]
    BY <1>2, AfterBegin DEF Frame
  <2>2. PICK s :
          /\ rows'[i] = [server |-> s, status |-> "pending"]
          /\ crossed' = IF \E e \in Deploys : Busy(e) /\ run[e].current = i
                        THEN crossed \cup {s} ELSE crossed
    BY <1>2, AfterBegin
  <2>3. rows'[i].server = s /\ rows'[i].status = "pending"
    BY <2>2
  <2>4. ASSUME NEW e \in Deploys, Succeeded(e)', run'[e].current \in Uncrossed'
        PROVE  Succeeded(e) /\ run[e].current = run'[e].current /\ run'[e].current # i
    <3>1. e # d /\ run'[e] = run[e] /\ Succeeded(e)
      BY <2>1, <2>4 DEF Succeeded
    <3>2. Busy(e)
      BY <3>1 DEF Succeeded, Busy
    <3> QED
      BY <2>2, <2>3, <2>4, <3>1, <3>2 DEF Uncrossed
  <2>5. ASSUME NEW j \in Claims' PROVE j \in Claims /\ rows'[j].server = rows[j].server
    <3>1. j \in Uncrossed' /\ j # i
      BY <2>3, <2>4 DEF Claims
    <3>2. j \in Uncrossed /\ rows'[j] = rows[j]
      BY <2>1, <2>2, <3>1 DEF Uncrossed
    <3> QED
      BY <2>4, <3>1, <3>2 DEF Claims
  <2> QED
    BY <1>1, <2>5
<1>3. ASSUME NEW d \in Deploys, RunPromotion(d) PROVE ClaimsAreTrue'
  <2> DEFINE i == run[d].current
  <2>1. /\ \A e \in Deploys \ {d} : run'[e] = run[e]
        /\ rows' = rows /\ crossed' = crossed
        /\ Busy(d)
        /\ run'[d].current = i
    BY <1>3, AfterRun DEF Frame, Busy
  <2>2. \A e \in Deploys \ {d} : Succeeded(e)' => Succeeded(e)
    BY <2>1 DEF Succeeded
  <2>3. Claims' \subseteq Claims \cup {i} /\ Uncrossed' = Uncrossed
    BY <2>1, <2>2 DEF Claims, Uncrossed
  <2>4. CASE run'[d].outcome = FALSE
    <3>1. ~Succeeded(d)'
      BY <2>4 DEF Succeeded
    <3>2. Claims' \subseteq Claims
      BY <2>1, <2>2, <2>3, <3>1 DEF Claims
    <3> QED
      BY <1>1, <2>1, <3>2
  <2>5. ASSUME NEW s \in run[d].left, NEW n \in DOMAIN vms,
               IsHead(s, run[d].left), vms[n].server = s, vms[n].role = "none",
               vms' = [vms EXCEPT ![n].role = RoleOf(d, s)]
        PROVE  ClaimsAreTrue'
    <3>1. n \in ControllersAt(s)' /\ n \notin ControllersAt(s)
      <4>1. vms[n] \in Machine /\ RoleOf(d, s) # "none"
        BY DEF TypeOK, RoleOf
      <4>2. vms'[n] = [vms[n] EXCEPT !.role = RoleOf(d, s)] /\ DOMAIN vms' = DOMAIN vms
        BY <2>5 DEF TypeOK
      <4>3. vms'[n].server = s /\ vms'[n].role # "none"
        BY <2>5, <4>1, <4>2 DEF Machine
      <4> QED
        BY <2>5, <4>2, <4>3 DEF ControllersAt
    <3>2. i \in Uncrossed => rows[i].server = s
      <4>1. PICK t \in run[d].left :
              /\ IsHead(t, run[d].left)
              /\ i \in Uncrossed => rows[i] = [server |-> t, status |-> "pending"]
        BY <2>1 DEF RowsAreOwned
      <4>2. s = t
        <5>1. run[d].left \subseteq DCs
          BY DEF TypeOK, RunState
        <5> QED
          BY <2>5, <4>1, <5>1, OneHead
      <4> QED
        BY <4>1, <4>2
    <3>3. ASSUME NEW j \in Claims' PROVE ControllersAt(rows[j].server)' # {}
      <4>1. CASE j = i
        BY <2>1, <2>3, <3>1, <3>2, <3>3, <4>1 DEF Claims
      <4>2. CASE j \in Claims
        BY <1>0, <2>1, <4>2 DEF ClaimsAreTrue
      <4> QED
        BY <2>3, <4>1, <4>2
    <3>4. ASSUME NEW j \in Claims, i \in Claims', rows[j].server = rows[i].server
          PROVE  \E m, k \in ControllersAt(rows[j].server)' : m # k
      <4>1. rows[j].server = s
        BY <2>1, <2>3, <3>2, <3>4 DEF Claims
      <4>2. PICK m : m \in ControllersAt(s)
        BY <4>1 DEF ClaimsAreTrue
      <4>3. m \in ControllersAt(s)' /\ m # n
        BY <1>0, <3>1, <4>2
      <4>4. rows'[j].server = s
        BY <2>1, <4>1
      <4> QED
        BY <3>1, <4>3, <4>4
    <3>5. ASSUME NEW j \in Claims', NEW k \in Claims', j # k,
                 rows'[j].server = rows'[k].server
          PROVE  \E m, q \in ControllersAt(rows[j].server)' : m # q
      <4>1. CASE j \in Claims /\ k \in Claims
        <5>1. \E m, q \in ControllersAt(rows[j].server) : m # q
          BY <2>1, <3>5, <4>1 DEF ClaimsAreTrue
        <5> QED
          BY <1>0, <2>1, <5>1
      <4>2. CASE j \in Claims /\ k = i
        BY <2>1, <3>4, <3>5, <4>2
      <4>3. CASE j = i /\ k \in Claims
        BY <2>1, <3>4, <3>5, <4>3
      <4> QED
        BY <2>3, <3>5, <4>1, <4>2, <4>3
    <3> QED
      BY <3>3, <3>5 DEF ClaimsAreTrue
  <2> QED
    BY <1>3, <2>4, <2>5, AfterRun
<1>4. ASSUME NEW d \in Deploys, RecordPromotion(d) PROVE ClaimsAreTrue'
  <2> DEFINE i == run[d].current
             st == IF run[d].outcome THEN "applied" ELSE "error"
  <2>1. /\ \A e \in Deploys \ {d} : run'[e] = run[e]
        /\ crossed' = crossed
        /\ run[d].phase = "record"
        /\ run'[d].phase # "record"
        /\ rows' = UpdateStatus(rows, i, st)
    BY <1>4, AfterRecord DEF Frame, NotRunning
  <2>2. \A j \in DOMAIN rows : /\ [rows[j] EXCEPT !.status = st].server = rows[j].server
                               /\ [rows[j] EXCEPT !.status = st].status = st
    BY DEF TypeOK, PromotionRow
  <2>3. /\ DOMAIN rows' = DOMAIN rows
        /\ \A j \in DOMAIN rows \ {i} : rows'[j] = rows[j]
        /\ \A j \in DOMAIN rows : rows'[j].server = rows[j].server
        /\ i \in DOMAIN rows => rows'[i].status = st
    <3> HIDE DEF i, st
    <3> QED
      BY <2>1, <2>2 DEF UpdateStatus
  <2>4. Uncrossed' = Uncrossed
    BY <2>1, <2>3 DEF Uncrossed
  <2>5. \A e \in Deploys : Succeeded(e)' => Succeeded(e) /\ run'[e].current = run[e].current
    BY <2>1 DEF Succeeded
  <2>6. st = "applied" => Succeeded(d)
    BY <2>1 DEF Succeeded
  <2> HIDE DEF st
  <2>7. ASSUME NEW j \in Claims' PROVE j \in Claims
    <3>1. j \in Uncrossed /\ j \in DOMAIN rows
      BY <2>4 DEF Claims, Uncrossed
    <3>2. CASE j = i /\ rows'[j].status = "applied"
      BY <2>3, <2>6, <3>1, <3>2 DEF Claims
    <3>3. CASE j # i /\ rows'[j].status = "applied"
      BY <2>3, <3>1, <3>3 DEF Claims
    <3>4. CASE \E e \in Deploys : Succeeded(e)' /\ run'[e].current = j
      BY <2>5, <3>1, <3>4 DEF Claims
    <3> QED
      BY <3>2, <3>3, <3>4 DEF Claims
  <2>8. \A j \in Claims' : rows'[j].server = rows[j].server
    BY <2>3, <2>7 DEF Claims, Uncrossed
  <2> QED
    BY <1>1, <2>7, <2>8
<1>5. ASSUME NEW d \in Deploys, Elsewhere(d) PROVE ClaimsAreTrue'
  <2>1. /\ \A e \in Deploys \ {d} : run'[e] = run[e]
        /\ rows' = rows /\ crossed' = crossed
        /\ run'[d].phase # "record"
    BY <1>5, AfterElsewhere DEF Frame, NotRunning
  <2>2. Claims' \subseteq Claims
    BY <2>1 DEF Claims, Succeeded, Uncrossed
  <2> QED
    BY <1>1, <2>1, <2>2
<1>6. ASSUME UNCHANGED <<rows, run, crossed>> PROVE ClaimsAreTrue'
  <2>1. Claims' = Claims
    BY <1>6 DEF Claims, Succeeded, Uncrossed
  <2> QED
    BY <1>1, <1>6, <2>1
<1>7. ASSUME NEW i \in DOMAIN rows, rows' = DeleteRow(rows, i),
             UNCHANGED <<run, crossed>>
      PROVE  ClaimsAreTrue'
  <2>1. \A j \in Uncrossed' : j \in Uncrossed /\ rows'[j] = rows[j]
    BY <1>7, RemovedRow
  <2>2. ASSUME NEW j \in Claims' PROVE j \in Claims /\ rows'[j].server = rows[j].server
    <3>1. j \in Uncrossed /\ rows'[j] = rows[j]
      BY <2>1 DEF Claims
    <3>2. \/ rows'[j].status = "applied"
          \/ \E e \in Deploys : Succeeded(e)' /\ run'[e].current = j
      BY DEF Claims
    <3>3. \A e \in Deploys : Succeeded(e)' <=> Succeeded(e)
      BY <1>7 DEF Succeeded
    <3> QED
      BY <1>7, <3>1, <3>2, <3>3 DEF Claims
  <2> QED
    BY <1>1, <2>2
<1> QED
  BY <1>2, <1>3, <1>4, <1>5, <1>6, <1>7, NextCases

(* A server recorded as promoted is a controller, or its record is not      *)
(* known to be its own.                                                     *)
LEMMA PromotedIsReal == BringUpInv => Promoted \subseteq Controllers \cup crossed
<1> SUFFICES ASSUME BringUpInv,
                    NEW i \in DOMAIN rows, rows[i].status = "applied",
                    rows[i].server \notin crossed
             PROVE  rows[i].server \in Controllers
  BY DEF Promoted, RowsWith
<1>1. ControllersAt(rows[i].server) # {}
  BY DEF BringUpInv, ClaimsAreTrue, Claims, Uncrossed
<1>2. rows[i].server \in DCs
  BY DEF BringUpInv, TypeOK, PromotionRow
<1> QED
  BY <1>1, <1>2 DEF Controllers

(* What is known of the servers is not lost.                                *)
LEMMA KnownGrows ==
  ASSUME BringUpInv, Next
  PROVE  Controllers \cup crossed \subseteq Controllers' \cup crossed'
<1>1. Controllers \subseteq Controllers'
  BY ControllersLast DEF BringUpInv
<1>2. crossed \subseteq crossed'
  <2>1. TypeOK
    BY DEF BringUpInv
  <2>2. ASSUME NEW d \in Deploys, BeginPromotion(d) PROVE crossed \subseteq crossed'
    BY <2>1, <2>2, AfterBegin
  <2>3. (\A d \in Deploys : ~BeginPromotion(d)) => crossed' = crossed
    BY <2>1, NextCases, AfterRun, AfterRecord, AfterElsewhere
  <2> QED
    BY <2>2, <2>3
<1> QED
  BY <1>1, <1>2

(* A promotion that succeeded made its server a controller.                 *)
LEMMA SucceededIsReal ==
  ASSUME BringUpInv, NEW d \in Deploys, Succeeded(d),
         NEW s \in run[d].left, IsHead(s, run[d].left)
  PROVE  s \in Controllers /\ HasRole(s, RoleOf(d, s))
<1>1. HasRole(s, RoleOf(d, s))
  BY DEF BringUpInv, HandledAsListed
<1>2. s \in DCs
  BY DEF BringUpInv, TypeOK, RunState
<1> QED
  BY <1>1, <1>2 DEF HasRole, Controllers

(* Every step keeps the lists of the running requests complete.             *)
LEMMA ListsStep ==
  ASSUME BringUpInv, Next
  PROVE  ListsAreComplete'
<1> USE DEF BringUpInv
<1> DEFINE Known == Controllers \cup crossed
           Complete(e) ==
             /\ run[e].left \subseteq run[e].toPromote
             /\ run[e].phase \in {"clone", "promote", "run", "record", "await"} =>
                  DCs \cap Addressed \subseteq Known \cup run[e].left
             /\ run[e].phase = "await" => run[e].left = {}
<1>0. Known \subseteq Known'
  BY KnownGrows
<1> HIDE DEF Known
<1>1. \A e \in Deploys : Complete(e)
  BY DEF ListsAreComplete, Known
<1>2. ASSUME NEW e \in Deploys, run'[e] = run[e] PROVE Complete(e)'
  BY <1>0, <1>1, <1>2
<1>3. ASSUME NEW d \in Deploys, BeginPromotion(d) PROVE Complete(d)'
  <2>1. /\ run[d].phase = "promote" /\ run'[d].phase = "run"
        /\ run'[d].left = run[d].left
        /\ run'[d].toPromote = run[d].toPromote
    BY <1>3, AfterBegin
  <2> QED
    BY <1>0, <1>1, <2>1
<1>4. ASSUME NEW d \in Deploys, RunPromotion(d) PROVE Complete(d)'
  <2>1. /\ run[d].phase = "run" /\ run'[d].phase = "record"
        /\ run'[d].left = run[d].left
        /\ run'[d].toPromote = run[d].toPromote
    BY <1>4, AfterRun
  <2> QED
    BY <1>0, <1>1, <2>1
<1>5. ASSUME NEW d \in Deploys, RecordPromotion(d) PROVE Complete(d)'
  <2>1. CASE run'[d] = NotRunning("failed")
    BY <2>1 DEF NotRunning
  <2>2. ASSUME run[d].outcome, run[d].phase = "record",
               run'[d].phase = "promote",
               run'[d].toPromote = run[d].toPromote,
               NEW s \in run[d].left, IsHead(s, run[d].left),
               run'[d].left = run[d].left \ {s}
        PROVE  Complete(d)'
    <3>1. s \in Known
      BY <2>2, SucceededIsReal DEF Succeeded, Known
    <3> QED
      BY <1>0, <1>1, <2>2, <3>1
  <2> QED
    BY <1>5, <2>1, <2>2, AfterRecord
<1>6. ASSUME NEW d \in Deploys, Elsewhere(d) PROVE Complete(d)'
  <2>1. CASE \E p \in {"passed", "failed"} : run'[d] = NotRunning(p)
    BY <2>1 DEF NotRunning
  <2>2. Promoted \subseteq Known
    BY PromotedIsReal DEF Known
  <2>3. TypeOK
    OBVIOUS
  <2> HIDE DEF BringUpInv
  <2> QED
    BY <1>0, <1>1, <1>6, <2>1, <2>2, <2>3, AfterElsewhere
<1>7. ASSUME NEW d \in Deploys, Frame(d), Complete(d)' PROVE ListsAreComplete'
  <2>1. \A e \in Deploys : Complete(e)'
    BY <1>2, <1>7 DEF Frame
  <2> QED
    BY <2>1 DEF ListsAreComplete, Known
<1>8. ASSUME UNCHANGED run PROVE ListsAreComplete'
  <2>1. \A e \in Deploys : Complete(e)'
    BY <1>2, <1>8
  <2> QED
    BY <2>1 DEF ListsAreComplete, Known
<1> QED
  <2> HIDE DEF Complete
  <2> QED
    BY <1>3, <1>4, <1>5, <1>6, <1>7, <1>8, NextCases, AfterBegin, AfterRun,
       AfterRecord, AfterElsewhere

(* Every step keeps what the requests that passed have established.         *)
LEMMA PassedStep ==
  ASSUME BringUpInv, Next
  PROVE  PassedIsPromoted'
<1> USE DEF BringUpInv
<1> DEFINE Known == Controllers \cup crossed
<1>0. Known \subseteq Known'
  BY KnownGrows
<1>1. ASSUME NEW d \in Deploys, Frame(d),
             run'[d].phase = "passed" => DCs \cap Addressed \subseteq Known
      PROVE  PassedIsPromoted'
  <2>1. \A e \in Deploys \ {d} : run'[e].phase = "passed" => run[e].phase = "passed"
    BY <1>1 DEF Frame
  <2> QED
    BY <1>0, <1>1, <2>1 DEF PassedIsPromoted
<1>2. ASSUME NEW d \in Deploys, BeginPromotion(d) PROVE PassedIsPromoted'
  BY <1>1, <1>2, AfterBegin
<1>3. ASSUME NEW d \in Deploys, RunPromotion(d) PROVE PassedIsPromoted'
  BY <1>1, <1>3, AfterRun
<1>4. ASSUME NEW d \in Deploys, RecordPromotion(d) PROVE PassedIsPromoted'
  BY <1>1, <1>4, AfterRecord DEF NotRunning
<1>5. ASSUME NEW d \in Deploys, Elsewhere(d) PROVE PassedIsPromoted'
  <2>1. ASSUME run'[d].phase = "passed"
        PROVE  \/ DCs \ Promoted = {}
               \/ run[d].phase = "clone" /\ run[d].toPromote = {}
               \/ run[d].phase = "await"
    BY <1>5, <2>1, AfterElsewhere DEF NotRunning
  <2>2. run'[d].phase = "passed" => DCs \cap Addressed \subseteq Known
    BY <2>1, PromotedIsReal DEF ListsAreComplete
  <2> QED
    BY <1>1, <1>5, <2>2, AfterElsewhere
<1>6. ASSUME UNCHANGED run PROVE PassedIsPromoted'
  BY <1>0, <1>6 DEF PassedIsPromoted
<1> QED
  BY <1>2, <1>3, <1>4, <1>5, <1>6, NextCases

(* The role a request asks for does not change while it runs.               *)
LEMMA RoleStays ==
  ASSUME NEW e \in Deploys, NEW s, run'[e].toPromote = run[e].toPromote
  PROVE  RoleOf(e, s)' = RoleOf(e, s)
  BY DEF RoleOf, IsFirstDc

(* What HandledAsListed says of one request.                                *)
Done(e) ==
  Succeeded(e) => \A s \in run[e].left :
                    IsHead(s, run[e].left) => HasRole(s, RoleOf(e, s))

Past(e) ==
  \A s \in (run[e].toPromote \ run[e].left) \cap Addressed : HasRole(s, RoleOf(e, s))

Seen(e) ==
  run[e].phase = "await" =>
    \A s \in (run[e].toPromote \cap Addressed) \ run[e].toAwait : Answers(s)

(* Every step keeps what a request has handled as its list said.            *)
LEMMA HandledStep ==
  ASSUME BringUpInv, Next
  PROVE  HandledAsListed'
<1> USE DEF BringUpInv
<1>0. \A e \in Deploys : Done(e) /\ Past(e) /\ Seen(e)
  BY DEF HandledAsListed, Done, Past, Seen
<1>1. SUFFICES ASSUME NEW e \in Deploys PROVE Done(e)' /\ Past(e)' /\ Seen(e)'
  BY DEF HandledAsListed, Done, Past, Seen
<1>2. /\ \A s : Answers(s) => Answers(s)'
      /\ \A s, role : HasRole(s, role) => HasRole(s, role)'
  BY ControllersLast
<1>3. ASSUME run'[e].toPromote = run[e].toPromote,
             NEW s, HasRole(s, RoleOf(e, s))
      PROVE  HasRole(s, RoleOf(e, s))'
  BY <1>2, <1>3, RoleStays
<1>4. ASSUME run'[e].toPromote = run[e].toPromote,
             \A s \in run[e].left \ run'[e].left :
               s \in Addressed => HasRole(s, RoleOf(e, s))
      PROVE  Past(e)'
  BY <1>0, <1>3, <1>4 DEF Past
<1>5. CASE run'[e] = run[e]
  <2>1. Succeeded(e)' => Succeeded(e)
    BY <1>5 DEF Succeeded
  <2>2. Done(e)'
    <3> SUFFICES ASSUME Succeeded(e)', NEW s \in run'[e].left, IsHead(s, run'[e].left)
                 PROVE  HasRole(s, RoleOf(e, s))'
      BY DEF Done, IsHead, Precedes
    <3>1. HasRole(s, RoleOf(e, s))
      BY <1>0, <1>5, <2>1 DEF Done
    <3> QED
      BY <1>3, <1>5, <3>1
  <2>3. Past(e)'
    BY <1>4, <1>5
  <2>4. Seen(e)'
    BY <1>0, <1>2, <1>5 DEF Seen
  <2> QED
    BY <2>2, <2>3, <2>4
<1>6. CASE BeginPromotion(e)
  <2>1. /\ run'[e].phase = "run"
        /\ run'[e].left = run[e].left
        /\ run'[e].toPromote = run[e].toPromote
    BY <1>6, AfterBegin
  <2>2. Past(e)'
    BY <1>4, <2>1
  <2> QED
    BY <2>1, <2>2 DEF Done, Seen, Succeeded
<1>7. CASE RunPromotion(e)
  <2>1. /\ run'[e].phase = "record"
        /\ run'[e].left = run[e].left
        /\ run'[e].toPromote = run[e].toPromote
    BY <1>7, AfterRun
  <2>2. Past(e)'
    BY <1>4, <2>1
  <2>3. Done(e)'
    <3>1. CASE run'[e].outcome = FALSE
      BY <3>1 DEF Done, Succeeded
    <3>2. ASSUME NEW s \in run[e].left, NEW n \in DOMAIN vms,
                 IsHead(s, run[e].left), vms[n].server = s,
                 vms' = [vms EXCEPT ![n].role = RoleOf(e, s)]
          PROVE  Done(e)'
      <4>1. vms[n] \in Machine /\ RoleOf(e, s) # "none"
        BY DEF TypeOK, RoleOf
      <4>2. vms'[n] = [vms[n] EXCEPT !.role = RoleOf(e, s)] /\ n \in DOMAIN vms'
        BY <3>2 DEF TypeOK
      <4>3. vms'[n].server = s /\ vms'[n].role = RoleOf(e, s)
        BY <3>2, <4>1, <4>2 DEF Machine
      <4>4. n \in ControllersAt(s)'
        BY <4>1, <4>2, <4>3 DEF ControllersAt
      <4>5. RoleOf(e, s)' = RoleOf(e, s)
        BY <2>1, RoleStays
      <4>6. HasRole(s, RoleOf(e, s))'
        BY <4>3, <4>4, <4>5 DEF HasRole
      <4>7. ASSUME NEW t \in run'[e].left, IsHead(t, run'[e].left) PROVE t = s
        <5>1. run[e].left \subseteq DCs
          BY DEF TypeOK, RunState
        <5> QED
          BY <2>1, <3>2, <4>7, <5>1, OneHead
      <4> QED
        BY <4>6, <4>7 DEF Done, IsHead, Precedes
    <3> QED
      BY <1>7, <3>1, <3>2, AfterRun
  <2> QED
    BY <2>1, <2>2, <2>3 DEF Seen
<1>8. CASE RecordPromotion(e)
  <2>1. CASE run'[e] = NotRunning("failed")
    BY <2>1 DEF NotRunning, Done, Past, Seen, Succeeded
  <2>2. ASSUME run[e].outcome, run[e].phase = "record",
               run'[e].phase = "promote",
               run'[e].toPromote = run[e].toPromote,
               NEW s \in run[e].left, IsHead(s, run[e].left),
               run'[e].left = run[e].left \ {s}
        PROVE  Done(e)' /\ Past(e)' /\ Seen(e)'
    <3>1. HasRole(s, RoleOf(e, s))
      BY <2>2, SucceededIsReal DEF Succeeded
    <3>2. Past(e)'
      BY <1>4, <2>2, <3>1
    <3> QED
      BY <2>2, <3>2 DEF Done, Seen, Succeeded
  <2> QED
    BY <1>8, <2>1, <2>2, AfterRecord
<1>9. CASE Elsewhere(e)
  <2>0. TypeOK
    OBVIOUS
  <2>1. run'[e].phase \notin {"run", "record"}
    BY <1>9, AfterElsewhere DEF NotRunning
  <2>2. Done(e)'
    BY <2>1 DEF Done, Succeeded
  <2>3. CASE run'[e].toPromote = run'[e].left
    <3>1. Past(e)'
      BY <2>3 DEF Past
    <3>2. Seen(e)'
      BY <1>0, <1>9, <2>1, <2>3, AfterElsewhere DEF NotRunning, ListsAreComplete, Seen
    <3> QED
      BY <2>2, <3>1, <3>2
  <2>4. CASE /\ run'[e].toPromote = run[e].toPromote
             /\ \/ run'[e].left = run[e].left
                \/ \E s \in run[e].left \ Addressed : run'[e].left = run[e].left \ {s}
    <3>1. Past(e)'
      BY <1>4, <2>4
    <3>2. Seen(e)'
      <4> SUFFICES ASSUME run'[e].phase = "await" PROVE Seen(e)'
        BY DEF Seen
      <4>1. CASE run'[e].toAwait = run[e].toPromote \cap Addressed
        BY <2>4, <4>1 DEF Seen
      <4>2. CASE /\ run[e].phase = "await"
                 /\ \E s \in run[e].toAwait :
                      Answers(s) /\ run'[e].toAwait = run[e].toAwait \ {s}
        BY <1>0, <1>2, <2>4, <4>2 DEF Seen
      <4> HIDE DEF BringUpInv
      <4> QED
        BY <1>9, <2>0, <4>1, <4>2, AfterElsewhere DEF NotRunning
    <3> QED
      BY <2>2, <3>1, <3>2
  <2>5. \/ run'[e].toPromote = run'[e].left
        \/ /\ run'[e].toPromote = run[e].toPromote
           /\ \/ run'[e].left = run[e].left
              \/ \E s \in run[e].left \ Addressed : run'[e].left = run[e].left \ {s}
    <3> HIDE DEF BringUpInv
    <3>1. CASE \E p \in {"passed", "failed"} : run'[e] = NotRunning(p)
      BY <3>1 DEF NotRunning
    <3> QED
      BY <1>9, <2>0, <3>1, AfterElsewhere
  <2> QED
    BY <2>3, <2>4, <2>5
<1> QED
  <2>1. ASSUME NEW d \in Deploys, Frame(d), d # e PROVE run'[e] = run[e]
    BY <2>1 DEF Frame
  <2> QED
    BY <1>5, <1>6, <1>7, <1>8, <1>9, <2>1, NextCases, AfterBegin, AfterRun,
       AfterRecord, AfterElsewhere

(* The inductive invariant holds at first ...                               *)
LEMMA InitInv == Init => BringUpInv
<1> SUFFICES ASSUME Init PROVE BringUpInv
  OBVIOUS
<1>1. TypeOK
  <2>1. "idle" \in Phase
    BY DEF Phase, Stopped
  <2> QED
    BY <2>1, NotRunningType DEF Init, TypeOK, ServerStatus
<1>2. /\ DOMAIN rows = {}
      /\ \A d \in Deploys : /\ run[d].phase = "idle"
                            /\ run[d].left = {}
                            /\ run[d].toPromote = {}
  BY DEF Init, NotRunning
<1> QED
  BY <1>1, <1>2 DEF BringUpInv, RowsAreOwned, ClaimsAreTrue, Claims, Uncrossed,
     ListsAreComplete, HandledAsListed, PassedIsPromoted, Busy, Succeeded

(* ... and every step keeps it.                                             *)
LEMMA InvStep == BringUpInv /\ [Next]_vars => BringUpInv'
<1>1. ASSUME BringUpInv, Next PROVE BringUpInv'
  <2>1. TypeOK'
    BY <1>1, TypeStep DEF BringUpInv
  <2> QED
    BY <1>1, <2>1, OwnedStep, ClaimsStep, ListsStep, HandledStep, PassedStep
    DEF BringUpInv
<1>2. ASSUME BringUpInv, UNCHANGED vars PROVE BringUpInv'
  <2> USE <1>2 DEF vars, db
  <2>1. TypeOK'
    BY DEF BringUpInv, TypeOK
  <2>2. RowsAreOwned'
    BY DEF BringUpInv, RowsAreOwned, Busy, Uncrossed, IsHead, Precedes
  <2>3. ClaimsAreTrue'
    BY DEF BringUpInv, ClaimsAreTrue, Claims, Uncrossed, Succeeded, ControllersAt
  <2>4. ListsAreComplete' /\ PassedIsPromoted'
    BY DEF BringUpInv, ListsAreComplete, PassedIsPromoted, Controllers, ControllersAt
  <2>5. HandledAsListed'
    BY DEF BringUpInv, HandledAsListed, Succeeded, HasRole, Answers, ControllersAt,
       RoleOf, IsFirstDc, IsHead, Precedes
  <2> QED
    BY <2>1, <2>2, <2>3, <2>4, <2>5 DEF BringUpInv
<1> QED
  BY <1>1, <1>2

(* The inductive invariant holds of every reachable state.                  *)
THEOREM Invariant == Spec => []BringUpInv
  BY InitInv, InvStep, PTL DEF Spec

(* Every variable keeps its type: statuses and phases stay among those the  *)
(* code knows, ids are ids, and lists name servers of the project.          *)
THEOREM TypeCorrect == Spec => []TypeOK
  BY Invariant, PTL DEF BringUpInv

(* A controller recorded as promoted is one, whatever raced or crashed, but *)
(* for a record that is not known to be its own.                            *)
THEOREM RecordsAreTrue == Spec => []RecordedIsPromoted
<1>1. BringUpInv => RecordedIsPromoted
  BY PromotedIsReal DEF RecordedIsPromoted
<1> QED
  BY <1>1, Invariant, PTL

(* Racing requests or a retry record a controller twice only when they      *)
(* promoted two of its clones.                                              *)
THEOREM RecordsAreDistinct == Spec => []OneMachinePerRecord
<1>1. BringUpInv => OneMachinePerRecord
  BY DEF BringUpInv, ClaimsAreTrue, Claims, Uncrossed, OneMachinePerRecord, RowsWith
<1> QED
  BY <1>1, Invariant, PTL

(* A request that passed left no server with an address unpromoted.         *)
THEOREM PassingIsComplete == Spec => []PassedIsPromoted
<1>1. BringUpInv => PassedIsPromoted
  BY DEF BringUpInv
<1> QED
  BY <1>1, Invariant, PTL

(* A request that promoted its whole list made one root per domain of it.   *)
THEOREM RootsAsListed == Spec => []AwaitedRoots
<1>1. BringUpInv => AwaitedRoots
  BY DEF BringUpInv, HandledAsListed, ListsAreComplete, AwaitedRoots, RoleOf, IsFirstDc
<1> QED
  BY <1>1, Invariant, PTL

(* No step takes a machine away or gives it to another server.              *)
LEMMA MachinesStay ==
  ASSUME TypeOK, [Next]_vars, NEW vm \in DOMAIN vms
  PROVE  vm \in DOMAIN vms' /\ vms'[vm].server = vms[vm].server
  BY WorldLasts DEF Lasts

(* A step changes a request's clones only by one new machine, made for the  *)
(* server it is noted for, or by forgetting them all.                       *)
LEMMA ClonesChange ==
  ASSUME TypeOK, [Next]_vars, NEW d \in Deploys, NEW s \in Servers
  PROVE  LET vm == run'[d].cloned[s]
         IN  \/ vm = run[d].cloned[s]
             \/ vm = 0
             \/ vm \in DOMAIN vms' /\ vms'[vm].server = s
<1> DEFINE Goal == LET vm == run'[d].cloned[s]
                   IN  \/ vm = run[d].cloned[s]
                       \/ vm = 0
                       \/ vm \in DOMAIN vms' /\ vms'[vm].server = s
<1>0. run \in [Deploys -> RunState] /\ run[d] \in RunState
      /\ run[d].cloned \in [Servers -> Nat]
  BY DEF TypeOK, RunState
<1>1. ASSUME CloneVm(d) PROVE Goal
  <2> DEFINE clone(t) == [server |-> t, role |-> "none", ready |-> FALSE]
  <2>1. PICK t \in run[d].toClone :
          \/ /\ vms' = Append(vms, clone(t))
             /\ \E vm \in {0, Len(vms) + 1} :
                  Becomes(d, [run[d] EXCEPT !.toClone = @ \ {t},
                                            !.cloned = [@ EXCEPT ![t] = vm]])
          \/ Becomes(d, [run[d] EXCEPT !.toClone = @ \ {t}])
    BY <1>1 DEF CloneVm
  <2>2. CASE /\ vms' = Append(vms, clone(t))
             /\ \E vm \in {0, Len(vms) + 1} :
                  Becomes(d, [run[d] EXCEPT !.toClone = @ \ {t},
                                            !.cloned = [@ EXCEPT ![t] = vm]])
    <3>1. PICK vm \in {0, Len(vms) + 1} :
            Becomes(d, [run[d] EXCEPT !.toClone = @ \ {t},
                                      !.cloned = [@ EXCEPT ![t] = vm]])
      BY <2>2
    <3>2. run'[d].cloned = [run[d].cloned EXCEPT ![t] = vm]
      BY <1>0, <3>1 DEF Becomes, RunState
    <3>3. vms \in Seq(Machine) /\ clone(t) \in Machine
      BY <1>0 DEF TypeOK, RunState, Machine
    <3>4. Len(vms) + 1 \in DOMAIN vms' /\ vms'[Len(vms) + 1].server = t
      <4>1. clone(t).server = t
        OBVIOUS
      <4>2. vms' = Append(vms, clone(t))
        BY <2>2
      <4> HIDE DEF clone
      <4> QED
        BY <3>3, <4>1, <4>2
    <3>5. run'[d].cloned[s] = IF s = t THEN vm ELSE run[d].cloned[s]
      BY <1>0, <3>2
    <3> QED
      BY <3>1, <3>4, <3>5
  <2>3. CASE Becomes(d, [run[d] EXCEPT !.toClone = @ \ {t}])
    BY <1>0, <2>3 DEF Becomes, RunState
  <2> QED
    BY <2>1, <2>2, <2>3
<1>2. ASSUME NEW p, Ends(d, p) PROVE Goal
  BY <1>0, <1>2 DEF Ends, Becomes, NotRunning, NoClones
<1>3. CASE Start(d) \/ Plan(d)
  BY <1>0, <1>2, <1>3 DEF Start, Plan, Becomes, RunState
<1>4. CASE RecordClones(d)
  <2> DEFINE next == [run[d] EXCEPT !.phase = "promote", !.batch = {}, !.cloned = NoClones]
  <2>1. Ends(d, "passed") \/ Becomes(d, next)
    BY <1>4 DEF RecordClones
  <2>2. ASSUME Becomes(d, next) PROVE Goal
    <3>1. run'[d] = next
      BY <1>0, <2>2 DEF Becomes
    <3>2. next.cloned = NoClones
      BY <1>0 DEF RunState
    <3> QED
      BY <3>1, <3>2 DEF NoClones
  <2> HIDE DEF next
  <2> QED
    BY <1>2, <2>1, <2>2
<1>5. CASE \/ BeginPromotion(d) \/ SkipPromotion(d) \/ RunPromotion(d)
           \/ EndPromotions(d) \/ SeeReady(d)
  <2>1. CASE BeginPromotion(d)
    <3>1. PICK i : Becomes(d, [run[d] EXCEPT !.phase = "run", !.current = i])
      BY <2>1 DEF BeginPromotion
    <3> QED
      BY <1>0, <3>1 DEF Becomes, RunState
  <2>2. CASE SkipPromotion(d)
    BY <1>0, <2>2 DEF SkipPromotion, Becomes, RunState
  <2>3. CASE RunPromotion(d)
    <3>1. PICK ok : Becomes(d, [run[d] EXCEPT !.phase = "record", !.outcome = ok])
      BY <2>3 DEF RunPromotion
    <3> QED
      BY <1>0, <3>1 DEF Becomes, RunState
  <2>4. CASE EndPromotions(d)
    BY <1>0, <2>4 DEF EndPromotions, Becomes, RunState
  <2>5. CASE SeeReady(d)
    BY <1>0, <2>5 DEF SeeReady, Becomes, RunState
  <2> QED
    BY <1>5, <2>1, <2>2, <2>3, <2>4, <2>5
<1>6. CASE RecordPromotion(d)
  BY <1>0, <1>2, <1>6 DEF RecordPromotion, NextPromotion, Becomes, RunState
<1>7. CASE GiveUpWaiting(d) \/ Pass(d) \/ Abort(d)
  BY <1>2, <1>7 DEF GiveUpWaiting, Pass, Abort
<1>8. CASE run'[d] = run[d]
  BY <1>8
<1>9. \/ Start(d) \/ Step(d) \/ Abort(d)
      \/ run'[d] = run[d]
  <2>1. ASSUME NEW e \in Deploys, e # d, Start(e) \/ Step(e) \/ Abort(e)
        PROVE  run'[d] = run[d]
    BY <1>0, <2>1 DEF Start, Step, Abort, Plan, CloneVm, RecordClones,
       BeginPromotion, RecordPromotion, SkipPromotion, RunPromotion, EndPromotions,
       SeeReady, GiveUpWaiting, Pass, NextPromotion, Ends, Becomes
  <2> QED
    BY <2>1 DEF Next, BecomeReady, RemoveRow, vars
<1> HIDE DEF Goal
<1> QED
  <2>1. Goal
    BY <1>1, <1>3, <1>4, <1>5, <1>6, <1>7, <1>8, <1>9 DEF Step, Goal
  <2> QED
    BY <2>1 DEF Goal

(* A server recorded as APPLIED has a machine that was cloned for it, in    *)
(* whatever order the batches of racing requests are committed.             *)
THEOREM RecordedMachines == Spec => []RecordedVmIsOwn
<1> DEFINE Inv == ClonesAreOwn /\ RecordedVmIsOwn
<1>1. Init => Inv
  BY DEF Init, NotRunning, NoClones, ClonesAreOwn, RecordedVmIsOwn
<1>2. BringUpInv /\ Inv /\ [Next]_vars => Inv'
  <2> SUFFICES ASSUME TypeOK, Inv, [Next]_vars PROVE Inv'
    BY DEF BringUpInv
  <2>1. ClonesAreOwn'
    BY MachinesStay, ClonesChange DEF ClonesAreOwn
  <2>2. RecordedVmIsOwn'
    <3> SUFFICES ASSUME NEW s \in Servers, status'[s] = "applied"
                 PROVE  vmId'[s] \in DOMAIN vms' /\ vms'[vmId'[s]].server = s
      BY DEF RecordedVmIsOwn
    <3>1. ASSUME NEW d \in Deploys, RecordClones(d)
          PROVE  \/ status[s] = "applied" /\ vmId'[s] = vmId[s]
                 \/ run[d].cloned[s] # 0 /\ vmId'[s] = run[d].cloned[s]
      BY <3>1 DEF RecordClones
    <3>2. \/ status[s] = "applied" /\ vmId'[s] = vmId[s]
          \/ \E d \in Deploys : run[d].cloned[s] # 0 /\ vmId'[s] = run[d].cloned[s]
      <4>1. UNCHANGED <<status, vmId>> \/ \E d \in Deploys : RecordClones(d)
        BY DEF Next, Step, Start, Plan, CloneVm, BeginPromotion, RecordPromotion,
           SkipPromotion, RunPromotion, EndPromotions, SeeReady, GiveUpWaiting,
           Pass, Abort, BecomeReady, RemoveRow, vars, db
      <4> QED
        BY <3>1, <4>1
    <3>3. vmId'[s] \in DOMAIN vms /\ vms[vmId'[s]].server = s
      BY <3>2 DEF ClonesAreOwn, RecordedVmIsOwn
    <3> QED
      BY <3>3, MachinesStay
  <2> QED
    BY <2>1, <2>2
<1>3. Inv => RecordedVmIsOwn
  OBVIOUS
<1> QED
  BY <1>1, <1>2, <1>3, Invariant, PTL DEF Spec

(* The recorded outcome of a promotion is not rewritten while its row is    *)
(* there, but for a row that got the id of one removed under a promotion.   *)
THEOREM OutcomesAreFinal == Spec => OutcomeIsFinal
<1>1. BringUpInv /\ [Next]_vars =>
        [\A i \in RowsWith(rows, {"applied", "error"}) \cap DOMAIN rows' :
           rows[i].server \notin crossed => rows'[i] = rows[i]]_vars
  <2> SUFFICES ASSUME BringUpInv, Next,
                      NEW i \in DOMAIN rows \cap DOMAIN rows',
                      rows[i].status \in {"applied", "error"},
                      rows[i].server \notin crossed
               PROVE  rows'[i] = rows[i]
    BY DEF RowsWith
  <2>1. ASSUME NEW d \in Deploys, BeginPromotion(d) PROVE rows'[i] = rows[i]
    BY <2>1, AfterBegin DEF BringUpInv
  <2>2. ASSUME NEW d \in Deploys, RecordPromotion(d) PROVE rows'[i] = rows[i]
    <3>1. Busy(d)
      BY <2>2, AfterRecord DEF BringUpInv, Busy
    <3>2. i # run[d].current
      <4>1. i \in Uncrossed
        BY DEF Uncrossed
      <4> QED
        BY <3>1, <4>1, OwnRow
    <3> QED
      BY <2>2, <3>2, AfterRecord DEF BringUpInv, UpdateStatus
  <2>3. ASSUME NEW j \in DOMAIN rows, rows' = DeleteRow(rows, j)
        PROVE  rows'[i] = rows[i]
    BY <2>3 DEF DeleteRow
  <2> QED
    BY <2>1, <2>2, <2>3, NextCases, AfterRun, AfterElsewhere DEF BringUpInv
<1> QED
  BY <1>1, Invariant, PTL DEF Spec, OutcomeIsFinal

(* The wait ends a request well only if each controller it promoted answers. *)
THEOREM WaitIsReal == Spec => PassesOnlyWhenReady
<1>1. BringUpInv /\ [Next]_vars =>
        [\A d \in Deploys :
           run[d].phase = "await" /\ run'[d].phase = "passed" =>
             \A s \in run[d].toPromote \cap Addressed : Answers(s)]_vars
  <2> SUFFICES ASSUME BringUpInv, Next, NEW d \in Deploys,
                      run[d].phase = "await", run'[d].phase = "passed"
               PROVE  \A s \in run[d].toPromote \cap Addressed : Answers(s)
    OBVIOUS
  <2>1. run[d].toAwait = {}
    <3>1. Pass(d)
      <4>1. ASSUME NEW e \in Deploys, Frame(e) PROVE e = d
        BY <4>1 DEF Frame
      <4>2. ~BeginPromotion(d) /\ ~RunPromotion(d) /\ ~RecordPromotion(d)
        BY DEF BeginPromotion, RunPromotion, RecordPromotion
      <4>3. Elsewhere(d)
        BY <4>1, <4>2, NextCases, AfterBegin, AfterRun, AfterRecord, AfterElsewhere
        DEF BringUpInv
      <4>4. ~Start(d) /\ ~Plan(d) /\ ~CloneVm(d) /\ ~RecordClones(d)
            /\ ~SkipPromotion(d) /\ ~EndPromotions(d)
        BY DEF Start, Plan, CloneVm, RecordClones, SkipPromotion, EndPromotions, Stopped
      <4>5. ~SeeReady(d)
        BY DEF SeeReady, Becomes, BringUpInv, TypeOK, RunState
      <4>6. ~GiveUpWaiting(d) /\ ~Abort(d)
        BY DEF GiveUpWaiting, Abort, Ends, Becomes, NotRunning, BringUpInv, TypeOK
      <4> QED
        BY <4>3, <4>4, <4>5, <4>6 DEF Elsewhere
    <3> QED
      BY <3>1 DEF Pass
  <2> QED
    BY <2>1 DEF BringUpInv, HandledAsListed
<1> QED
  BY <1>1, Invariant, PTL DEF Spec, PassesOnlyWhenReady

(* A step of a request leaves it sent.                                      *)
LEMMA StaysSent ==
  ASSUME TypeOK, NEW d \in Deploys, Start(d) \/ Step(d) \/ Abort(d)
  PROVE  Frame(d) /\ run'[d].phase # "idle"
<1>1. CASE BeginPromotion(d)
  BY <1>1, AfterBegin
<1>2. CASE RunPromotion(d)
  BY <1>2, AfterRun
<1>3. CASE RecordPromotion(d)
  BY <1>3, AfterRecord DEF NotRunning
<1>4. CASE Elsewhere(d)
  BY <1>4, AfterElsewhere DEF NotRunning
<1> QED
  BY <1>1, <1>2, <1>3, <1>4 DEF Step, Elsewhere

(* What a request has yet to clone: a start lists servers that are not      *)
(* APPLIED, the commit of the clones finds nothing left, and every other    *)
(* step leaves the servers table alone and lists no more.                   *)
LEMMA ToCloneChange ==
  ASSUME TypeOK, NEW d \in Deploys, Start(d) \/ Step(d) \/ Abort(d)
  PROVE  \/ run'[d].toClone = {}
         \/ /\ status' = status
            /\ \A s \in run'[d].toClone : s \in run[d].toClone \/ status[s] # "applied"
<1> DEFINE r == run[d]
           Goal == \/ run'[d].toClone = {}
                   \/ /\ status' = status
                      /\ \A s \in run'[d].toClone :
                           s \in run[d].toClone \/ status[s] # "applied"
<1>0. run \in [Deploys -> RunState] /\ r \in RunState
  BY DEF TypeOK
<1>1. ASSUME NEW p, Ends(d, p) PROVE Goal
  BY <1>0, <1>1 DEF Ends, Becomes, NotRunning
<1>2. CASE Start(d)
  <2> DEFINE pending == {s \in Servers : status[s] # "applied"}
  <2>1. run'[d] = [r EXCEPT !.phase = "plan", !.batch = pending, !.toClone = pending]
    BY <1>0, <1>2 DEF Start, Becomes
  <2>2. run'[d].toClone = pending
    <3> HIDE DEF pending
    <3> QED
      BY <1>0, <2>1 DEF RunState
  <2> QED
    BY <1>2, <2>2 DEF Start, db
<1>3. CASE Plan(d)
  <2> DEFINE dcs == DCs \ Promoted
             p   == IF r.batch # {} THEN "clone" ELSE "promote"
  <2>1. \/ Ends(d, "passed")
        \/ run'[d] = [r EXCEPT !.phase = p, !.toPromote = dcs, !.left = dcs]
    BY <1>0, <1>3 DEF Plan, Becomes
  <2>2. status' = status
    BY <1>3 DEF Plan, db
  <2> HIDE DEF dcs, p
  <2> QED
    BY <1>0, <1>1, <2>1, <2>2 DEF RunState
<1>4. CASE CloneVm(d)
  <2>1. PICK s \in run[d].toClone :
          \/ \E vm \in {0, Len(vms) + 1} :
               Becomes(d, [run[d] EXCEPT !.toClone = @ \ {s},
                                         !.cloned = [@ EXCEPT ![s] = vm]])
          \/ Becomes(d, [run[d] EXCEPT !.toClone = @ \ {s}])
    BY <1>4 DEF CloneVm
  <2>2. run'[d].toClone = r.toClone \ {s}
    BY <1>0, <2>1 DEF Becomes, RunState
  <2>3. status' = status
    BY <1>4 DEF CloneVm, db
  <2> QED
    BY <2>2, <2>3
<1>5. CASE RecordClones(d)
  <2>1. \/ Ends(d, "passed")
        \/ run'[d] = [r EXCEPT !.phase = "promote", !.batch = {}, !.cloned = NoClones]
    BY <1>0, <1>5 DEF RecordClones, Becomes
  <2>2. r.toClone = {}
    BY <1>5 DEF RecordClones
  <2>3. ASSUME run'[d] = [r EXCEPT !.phase = "promote", !.batch = {}, !.cloned = NoClones]
        PROVE  run'[d].toClone = {}
    BY <1>0, <2>2, <2>3 DEF RunState
  <2> QED
    BY <1>1, <2>1, <2>3
<1>6. CASE BeginPromotion(d)
  <2>1. PICK i : Becomes(d, [r EXCEPT !.phase = "run", !.current = i])
    BY <1>6 DEF BeginPromotion
  <2>2. status' = status
    BY <1>6 DEF BeginPromotion
  <2> QED
    BY <1>0, <2>1, <2>2 DEF Becomes, RunState
<1>7. CASE SkipPromotion(d)
  BY <1>0, <1>7 DEF SkipPromotion, Becomes, RunState, db
<1>8. CASE RunPromotion(d)
  <2>1. PICK ok : Becomes(d, [r EXCEPT !.phase = "record", !.outcome = ok])
    BY <1>8 DEF RunPromotion
  <2>2. status' = status
    BY <1>8 DEF RunPromotion, db
  <2> QED
    BY <1>0, <2>1, <2>2 DEF Becomes, RunState
<1>9. CASE RecordPromotion(d)
  <2>1. \/ Ends(d, "failed")
        \/ \E s : Becomes(d, [r EXCEPT !.phase = "promote", !.left = @ \ {s},
                                      !.current = 0, !.outcome = FALSE])
    BY <1>9 DEF RecordPromotion, NextPromotion
  <2>2. status' = status
    BY <1>9 DEF RecordPromotion
  <2>3. ASSUME NEW s, Becomes(d, [r EXCEPT !.phase = "promote", !.left = @ \ {s},
                                          !.current = 0, !.outcome = FALSE])
        PROVE  run'[d].toClone = run[d].toClone
    BY <1>0, <2>3 DEF Becomes, RunState
  <2> QED
    BY <1>1, <2>1, <2>2, <2>3
<1>10. CASE EndPromotions(d)
  BY <1>0, <1>10 DEF EndPromotions, Becomes, RunState, db
<1>11. CASE SeeReady(d)
  BY <1>0, <1>11 DEF SeeReady, Becomes, RunState, db
<1>12. CASE GiveUpWaiting(d) \/ Pass(d) \/ Abort(d)
  BY <1>1, <1>12 DEF GiveUpWaiting, Pass, Abort
<1> QED
  BY <1>2, <1>3, <1>4, <1>5, <1>6, <1>7, <1>8, <1>9, <1>10, <1>11, <1>12 DEF Step

(* A success that is recorded, in a row known to be its own, adds at most   *)
(* the head of the list to the promoted servers; nothing else adds one.     *)
LEMMA PromotedChange ==
  ASSUME BringUpInv, Next, crossed = {}
  PROVE  \/ Promoted' \subseteq Promoted
         \/ \E d \in Deploys : \E s \in run[d].left :
              /\ RecordPromotion(d)
              /\ IsHead(s, run[d].left)
              /\ Succeeded(d)
              /\ Promoted' \subseteq Promoted \cup {s}
<1> USE DEF BringUpInv
<1>1. ASSUME \A j \in DOMAIN rows' : rows'[j].status = "applied" =>
               j \in DOMAIN rows /\ rows'[j] = rows[j]
      PROVE  Promoted' \subseteq Promoted
  BY <1>1 DEF Promoted, RowsWith
<1>2. ASSUME NEW d \in Deploys, BeginPromotion(d) PROVE Promoted' \subseteq Promoted
  <2>1. /\ DOMAIN rows' = DOMAIN rows \cup {run'[d].current}
        /\ \A j \in DOMAIN rows : rows'[j] = rows[j]
    BY <1>2, AfterBegin
  <2>2. PICK s : rows'[run'[d].current] = [server |-> s, status |-> "pending"]
    BY <1>2, AfterBegin
  <2>3. rows'[run'[d].current].status = "pending"
    BY <2>2
  <2>4. \A j \in DOMAIN rows' : j \in DOMAIN rows \/ rows'[j].status = "pending"
    BY <2>1, <2>3
  <2> QED
    BY <1>1, <2>1, <2>4
<1>3. ASSUME NEW d \in Deploys, RecordPromotion(d)
      PROVE  \/ Promoted' \subseteq Promoted
             \/ \E s \in run[d].left : /\ IsHead(s, run[d].left)
                                       /\ Succeeded(d)
                                       /\ Promoted' \subseteq Promoted \cup {s}
  <2> DEFINE i == run[d].current
             st == IF run[d].outcome THEN "applied" ELSE "error"
  <2>1. /\ Busy(d) /\ run[d].phase = "record"
        /\ rows' = UpdateStatus(rows, i, st)
    BY <1>3, AfterRecord DEF Busy
  <2>2. PICK s \in run[d].left :
          /\ IsHead(s, run[d].left)
          /\ i \in Uncrossed => rows[i] = [server |-> s, status |-> "pending"]
    BY <2>1 DEF RowsAreOwned
  <2>3. i \in DOMAIN rows => i \in Uncrossed
    BY DEF Uncrossed
  <2>4. i \in DOMAIN rows => rows[i].server = s
    BY <2>2, <2>3
  <2>5. \A j \in DOMAIN rows : /\ [rows[j] EXCEPT !.status = st].server = rows[j].server
                               /\ [rows[j] EXCEPT !.status = st].status = st
    BY DEF TypeOK, PromotionRow
  <2>6. /\ DOMAIN rows' = DOMAIN rows
        /\ \A j \in DOMAIN rows \ {i} : rows'[j] = rows[j]
        /\ \A j \in DOMAIN rows : rows'[j].server = rows[j].server
        /\ i \in DOMAIN rows => rows'[i].status = st
    <3> HIDE DEF i, st
    <3> QED
      BY <2>1, <2>5 DEF UpdateStatus
  <2>7. CASE run[d].outcome
    <3>1. Promoted' \subseteq Promoted \cup {s}
      <4> HIDE DEF i
      <4> QED
        BY <2>4, <2>6 DEF Promoted, RowsWith
    <3> QED
      BY <2>1, <2>2, <2>7, <3>1 DEF Succeeded
  <2>8. CASE ~run[d].outcome
    <3>1. st = "error"
      BY <2>8
    <3> HIDE DEF i, st
    <3> QED
      BY <1>1, <2>6, <3>1
  <2> QED
    BY <2>7, <2>8
<1>4. ASSUME NEW i, rows' = DeleteRow(rows, i) PROVE Promoted' \subseteq Promoted
  BY <1>1, <1>4 DEF DeleteRow
<1>5. ASSUME rows' = rows PROVE Promoted' \subseteq Promoted
  BY <1>1, <1>5
<1> QED
  BY <1>2, <1>3, <1>4, <1>5, NextCases, AfterRun, AfterElsewhere

(* What a request has yet to promote stays unrecorded by its own steps: it  *)
(* is read where it is not, and a success records what it takes off it.     *)
LEMMA LeftChange ==
  ASSUME BringUpInv, NEW d \in Deploys, Start(d) \/ Step(d) \/ Abort(d),
         crossed = {}, run[d].left \cap Promoted = {}
  PROVE  run'[d].left \cap Promoted' = {}
<1> USE DEF BringUpInv
<1>0. Next
  BY DEF Next
<1>1. CASE RecordPromotion(d)
  <2>1. CASE run'[d] = NotRunning("failed")
    BY <2>1 DEF NotRunning
  <2>2. ASSUME NEW s \in run[d].left, IsHead(s, run[d].left),
               run'[d].left = run[d].left \ {s}
        PROVE  run'[d].left \cap Promoted' = {}
    <3>1. ASSUME NEW e \in Deploys, RecordPromotion(e) PROVE e = d
      BY <1>1, <3>1, AfterRecord DEF Frame, NotRunning
    <3>2. ASSUME NEW t \in run[d].left, IsHead(t, run[d].left) PROVE t = s
      <4>1. run[d].left \subseteq DCs
        BY DEF TypeOK, RunState
      <4> QED
        BY <2>2, <3>2, <4>1, OneHead
    <3>3. Promoted' \subseteq Promoted \cup {s}
      BY <1>0, <3>1, <3>2, PromotedChange
    <3> QED
      BY <2>2, <3>3
  <2> QED
    BY <1>1, <2>1, <2>2, AfterRecord
<1>2. CASE BeginPromotion(d) \/ RunPromotion(d)
  <2>1. run'[d].left = run[d].left /\ run[d].phase # "record"
    BY <1>2, AfterBegin, AfterRun
  <2>2. ASSUME NEW e \in Deploys, RecordPromotion(e) PROVE FALSE
    <3>1. e # d
      BY <2>1, <2>2, AfterRecord
    <3> QED
      BY <1>2, <2>2, <3>1, AfterBegin, AfterRun, AfterRecord DEF Frame, NotRunning
  <2> QED
    BY <1>0, <2>1, <2>2, PromotedChange
<1>3. CASE Elsewhere(d)
  <2>1. rows' = rows
    BY <1>3, AfterElsewhere
  <2>2. Promoted' = Promoted
    BY <2>1 DEF Promoted, RowsWith
  <2>3. run'[d].left \subseteq run[d].left \/ run'[d].left \cap Promoted = {}
    <3>1. CASE \E p \in {"passed", "failed"} : run'[d] = NotRunning(p)
      BY <3>1 DEF NotRunning
    <3>2. TypeOK
      OBVIOUS
    <3> HIDE DEF BringUpInv
    <3> QED
      BY <1>3, <3>1, <3>2, AfterElsewhere
  <2> QED
    BY <2>2, <2>3
<1> QED
  BY <1>1, <1>2, <1>3 DEF Step, Elsewhere

(* A clone is no controller yet, and no other step outside of a promotion   *)
(* touches a machine.                                                       *)
LEMMA CloneMakesNone ==
  ASSUME TypeOK, NEW d \in Deploys, Elsewhere(d)
  PROVE  Controllers' = Controllers
<1>1. CASE vms' = vms
  BY <1>1 DEF Controllers, ControllersAt
<1>2. ASSUME NEW s \in run[d].toClone,
             vms' = Append(vms, [server |-> s, role |-> "none", ready |-> FALSE])
      PROVE  Controllers' = Controllers
  <2> DEFINE m == [server |-> s, role |-> "none", ready |-> FALSE]
  <2>1. m \in Machine /\ m.role = "none"
    BY DEF TypeOK, RunState, Machine
  <2>2. vms \in Seq(Machine) /\ vms' = Append(vms, m)
    BY <1>2 DEF TypeOK
  <2> HIDE DEF m
  <2>3. /\ \A n \in DOMAIN vms : n \in DOMAIN vms' /\ vms'[n] = vms[n]
        /\ \A n \in DOMAIN vms' : n \in DOMAIN vms \/ vms'[n] = m
    BY <2>1, <2>2
  <2>4. ASSUME NEW t PROVE ControllersAt(t)' = ControllersAt(t)
    BY <2>1, <2>3 DEF ControllersAt
  <2> QED
    BY <2>4 DEF Controllers
<1> QED
  BY <1>1, <1>2 DEF Elsewhere, Start, Plan, CloneVm, RecordClones, SkipPromotion,
     EndPromotions, SeeReady, GiveUpWaiting, Pass, Abort

(* A request sent alone has lists of what is not done, in every state, and  *)
(* no row of its own got the id of another that it still used.              *)
LEMMA FreshLists == Spec => []ListsAreFresh
<1>1. Init => ListsAreFresh
  BY DEF Init, ListsAreFresh, NotRunning
<1>2. BringUpInv /\ ListsAreFresh /\ [Next]_vars => ListsAreFresh'
  <2> SUFFICES ASSUME BringUpInv, ListsAreFresh, [Next]_vars PROVE ListsAreFresh'
    OBVIOUS
  <2>1. ASSUME NEW d \in Deploys, Start(d) \/ Step(d) \/ Abort(d) PROVE ListsAreFresh'
    <3>1. Frame(d) /\ run'[d].phase # "idle"
      BY <2>1, StaysSent DEF BringUpInv
    <3>2. OneSender' => OneSender
      BY <3>1 DEF OneSender, Frame
    <3>3. ASSUME NEW e \in Deploys, run'[e].phase = "idle"
          PROVE  run'[e].toClone = {} /\ run'[e].left = {}
      BY <3>1, <3>3 DEF Frame, ListsAreFresh
    <3>4. ASSUME OneSender', NEW e \in Deploys, e # d
          PROVE  run'[e].phase = "idle" /\ run'[e] = run[e]
      BY <3>1, <3>4 DEF OneSender, Frame
    <3>5. ASSUME OneSender' PROVE \A s \in run'[d].toClone : status'[s] # "applied"
      BY <2>1, <3>2, <3>5, ToCloneChange DEF ListsAreFresh, BringUpInv
    <3>6. ASSUME OneSender' PROVE run'[d].left \cap Promoted' = {}
      BY <2>1, <3>2, <3>6, LeftChange DEF ListsAreFresh
    <3>7. ASSUME OneSender' PROVE crossed' = {}
      <4>1. crossed = {}
        BY <2>1, <3>2, <3>7 DEF ListsAreFresh
      <4>2. CASE BeginPromotion(d)
        <5>1. \A e \in Deploys : ~Busy(e)
          BY <3>4, <3>7, <4>2, AfterBegin DEF Busy, BringUpInv
        <5> QED
          BY <4>1, <4>2, <5>1, AfterBegin DEF BringUpInv
      <4>3. CASE ~BeginPromotion(d)
        BY <2>1, <4>1, <4>3, AfterRun, AfterRecord, AfterElsewhere
        DEF Step, Elsewhere, BringUpInv
      <4> QED
        BY <4>2, <4>3
    <3> QED
      BY <2>1, <3>3, <3>4, <3>5, <3>6, <3>7 DEF ListsAreFresh
  <2>2. ASSUME UNCHANGED <<run, status, crossed>>, Promoted' \subseteq Promoted
        PROVE  ListsAreFresh'
    BY <2>2 DEF ListsAreFresh, OneSender
  <2>3. UNCHANGED rows => Promoted' \subseteq Promoted
    BY DEF Promoted, RowsWith
  <2>4. ASSUME NEW i, RemoveRow(i) PROVE Promoted' \subseteq Promoted
    <3>1. DOMAIN rows' = DOMAIN rows \ {i} /\ \A j \in DOMAIN rows' : rows'[j] = rows[j]
      BY <2>4, DeletedRow DEF RemoveRow
    <3> QED
      BY <3>1 DEF Promoted, RowsWith
  <2> QED
    BY <2>1, <2>2, <2>3, <2>4 DEF Next, BecomeReady, RemoveRow, vars, db
<1> QED
  BY <1>1, <1>2, Invariant, PTL DEF Spec

(* A request sent alone, and sent again after failures and crashes, clones  *)
(* no server recorded as APPLIED and promotes no recorded controller again. *)
THEOREM RetriesLeaveApplied == Spec => AppliedIsLeftAlone
<1>1. BringUpInv /\ ListsAreFresh /\ [Next]_vars =>
        [OneSender =>
           /\ \A n \in DOMAIN vms' \ DOMAIN vms : status[vms'[n].server] # "applied"
           /\ \A i \in DOMAIN rows' \ DOMAIN rows : rows'[i].server \notin Promoted]_vars
  <2> SUFFICES ASSUME BringUpInv, ListsAreFresh, Next, OneSender
               PROVE  /\ \A n \in DOMAIN vms' \ DOMAIN vms :
                           status[vms'[n].server] # "applied"
                      /\ \A i \in DOMAIN rows' \ DOMAIN rows :
                           rows'[i].server \notin Promoted
    OBVIOUS
  <2>1. ASSUME NEW n \in DOMAIN vms' \ DOMAIN vms PROVE status[vms'[n].server] # "applied"
    <3>1. PICK e \in Deploys, s \in Servers :
            /\ s \in run[e].toClone
            /\ vms' = Append(vms, [server |-> s, role |-> "none", ready |-> FALSE])
      BY <2>1, WorldSteps DEF BringUpInv, TypeOK
    <3> DEFINE m == [server |-> s, role |-> "none", ready |-> FALSE]
    <3>2. m \in Machine /\ m.server = s
      BY DEF Machine
    <3>3. vms \in Seq(Machine) /\ vms' = Append(vms, m)
      BY <3>1 DEF BringUpInv, TypeOK
    <3> HIDE DEF m
    <3>4. vms'[n] = m
      BY <2>1, <3>2, <3>3
    <3> QED
      BY <3>1, <3>2, <3>4 DEF ListsAreFresh
  <2>2. ASSUME NEW i \in DOMAIN rows' \ DOMAIN rows PROVE rows'[i].server \notin Promoted
    <3>1. PICK e \in Deploys : BeginPromotion(e)
      <4>1. \A e \in Deploys : RecordPromotion(e) => DOMAIN rows' = DOMAIN rows
        BY AfterRecord DEF BringUpInv, UpdateStatus
      <4>2. \A j : rows' = DeleteRow(rows, j) => DOMAIN rows' \subseteq DOMAIN rows
        BY DEF DeleteRow
      <4> QED
        BY <2>2, <4>1, <4>2, NextCases, AfterRun, AfterElsewhere DEF BringUpInv
    <3>2. i = run'[e].current
      BY <2>2, <3>1, AfterBegin DEF BringUpInv
    <3>3. PICK s \in run[e].left : rows'[i] = [server |-> s, status |-> "pending"]
      BY <3>1, <3>2, AfterBegin DEF BringUpInv
    <3>4. rows'[i].server = s
      BY <3>3
    <3> QED
      BY <3>4 DEF ListsAreFresh
  <2> QED
    BY <2>1, <2>2
<1> QED
  BY <1>1, FreshLists, Invariant, PTL DEF Spec, AppliedIsLeftAlone

(* The promotion step implements the register of controllers: every step    *)
(* makes one controller, records one made before, strikes one off, or       *)
(* changes neither.                                                         *)
THEOREM Refinement == Spec => ImplementsRegistry
<1> DEFINE entered == Promoted \ crossed
           Goal == Registry!Next \/ (Controllers' = Controllers /\ entered' = entered)
<1>1. Init => Registry!Init
  <2> SUFFICES ASSUME Init PROVE Controllers = {} /\ entered = {}
    BY DEF Registry!Init
  <2>1. DOMAIN rows = {} /\ DOMAIN vms = {}
    BY DEF Init
  <2> QED
    BY <2>1 DEF Promoted, RowsWith, Controllers, ControllersAt
<1>2. BringUpInv /\ [Next]_vars => [Registry!Next]_<<Controllers, entered>>
  <2> SUFFICES ASSUME BringUpInv, [Next]_vars PROVE Goal
    OBVIOUS
  <2>0. ASSUME vms' = vms PROVE Controllers' = Controllers
    BY <2>0 DEF Controllers, ControllersAt
  <2>1. ASSUME NEW d \in Deploys, BeginPromotion(d) PROVE Goal
    <3>1. /\ DOMAIN rows' = DOMAIN rows \cup {run'[d].current}
          /\ run'[d].current \notin DOMAIN rows
          /\ \A j \in DOMAIN rows : rows'[j] = rows[j]
          /\ vms' = vms
      BY <2>1, AfterBegin DEF BringUpInv
    <3>2. PICK s \in run[d].left :
            /\ rows'[run'[d].current] = [server |-> s, status |-> "pending"]
            /\ crossed' = crossed \/ crossed' = crossed \cup {s}
      BY <2>1, AfterBegin DEF BringUpInv
    <3>3. rows'[run'[d].current].status = "pending"
      BY <3>2
    <3>4. ASSUME NEW t PROVE t \in Promoted' <=> t \in Promoted
      BY <3>1, <3>3 DEF Promoted, RowsWith
    <3>5. s \in DCs
      BY DEF BringUpInv, TypeOK, RunState
    <3>6. entered' = entered \/ entered' = entered \ {s}
      BY <3>2, <3>4
    <3> QED
      BY <2>0, <3>1, <3>5, <3>6 DEF Registry!Next, Registry!Strike
  <2>2. ASSUME NEW d \in Deploys, RunPromotion(d) PROVE Goal
    <3>1. entered' = entered
      <4>1. rows' = rows /\ crossed' = crossed
        BY <2>2, AfterRun DEF BringUpInv
      <4> QED
        BY <4>1 DEF Promoted, RowsWith
    <3>2. ASSUME NEW s \in run[d].left, NEW n \in DOMAIN vms,
                 vms[n].server = s, vms' = [vms EXCEPT ![n].role = RoleOf(d, s)]
          PROVE  Goal
      <4>1. s \in DCs
        BY DEF BringUpInv, TypeOK, RunState
      <4>2. Controllers \subseteq Controllers'
        BY ControllersLast DEF BringUpInv
      <4>3. ASSUME NEW t \in DCs, t # s, t \in Controllers' PROVE t \in Controllers
        <5>1. PICK m \in DOMAIN vms' : vms'[m].server = t /\ vms'[m].role # "none"
          BY <4>3 DEF Controllers, ControllersAt
        <5>2. DOMAIN vms' = DOMAIN vms /\ \A k \in DOMAIN vms \ {n} : vms'[k] = vms[k]
          BY <3>2 DEF BringUpInv, TypeOK
        <5>3. m # n
          BY <3>2, <4>3, <5>1, WorldLasts DEF BringUpInv, Lasts
        <5> QED
          BY <5>1, <5>2, <5>3 DEF Controllers, ControllersAt
      <4>4. Controllers' \subseteq DCs /\ Controllers \subseteq DCs
        BY DEF Controllers
      <4>5. \/ Controllers' = Controllers
            \/ s \notin Controllers /\ Controllers' = Controllers \cup {s}
        BY <4>2, <4>3, <4>4
      <4> QED
        BY <3>1, <4>1, <4>5 DEF Registry!Next, Registry!Promote
    <3>3. CASE vms' = vms
      BY <2>0, <3>1, <3>3
    <3> HIDE DEF Goal
    <3> QED
      BY <2>2, <3>2, <3>3, AfterRun DEF BringUpInv
  <2>3. ASSUME NEW d \in Deploys, RecordPromotion(d) PROVE Goal
    <3> DEFINE i == run[d].current
               st == IF run[d].outcome THEN "applied" ELSE "error"
    <3>1. /\ vms' = vms /\ crossed' = crossed
          /\ run[d].phase = "record" /\ Busy(d)
          /\ rows' = UpdateStatus(rows, i, st)
      BY <2>3, AfterRecord DEF BringUpInv, Busy
    <3>2. \A j \in DOMAIN rows : /\ [rows[j] EXCEPT !.status = st].server = rows[j].server
                                 /\ [rows[j] EXCEPT !.status = st].status = st
      BY DEF BringUpInv, TypeOK, PromotionRow
    <3>3. /\ DOMAIN rows' = DOMAIN rows
          /\ \A j \in DOMAIN rows \ {i} : rows'[j] = rows[j]
          /\ \A j \in DOMAIN rows : rows'[j].server = rows[j].server
          /\ i \in DOMAIN rows => rows'[i].status = st
      <4> HIDE DEF i, st
      <4> QED
        BY <3>1, <3>2 DEF UpdateStatus
    <3>4. CASE i \in Uncrossed
      <4> DEFINE s == rows[i].server
      <4>1. rows[i].status = "pending" /\ s \notin crossed /\ i \in DOMAIN rows
        BY <3>1, <3>4, OwnRow DEF Uncrossed
      <4>2. CASE run[d].outcome
        <5>1. ASSUME NEW t PROVE t \in Promoted' <=> t \in Promoted \/ t = s
          BY <3>3, <4>1, <4>2 DEF Promoted, RowsWith
        <5>2. entered' = entered \cup {s}
          BY <3>1, <4>1, <5>1
        <5>3. s \in Controllers
          <6>1. i \in Claims
            BY <3>1, <3>4, <4>2 DEF Claims, Succeeded
          <6>2. s \in DCs
            BY <4>1 DEF BringUpInv, TypeOK, PromotionRow
          <6> QED
            BY <6>1, <6>2 DEF BringUpInv, ClaimsAreTrue, Controllers
        <5>4. s \in DCs
          BY <5>3 DEF Controllers
        <5> HIDE DEF s
        <5> QED
          BY <2>0, <3>1, <5>2, <5>3, <5>4 DEF Registry!Next, Registry!Record
      <4>3. CASE ~run[d].outcome
        <5>1. ASSUME NEW t PROVE t \in Promoted' <=> t \in Promoted
          BY <3>3, <4>1, <4>3 DEF Promoted, RowsWith
        <5> QED
          BY <2>0, <3>1, <5>1
      <4> QED
        BY <4>2, <4>3
    <3>5. CASE i \notin Uncrossed
      <4>1. ASSUME NEW t, t \notin crossed PROVE t \in Promoted' <=> t \in Promoted
        <5>1. i \in DOMAIN rows => rows[i].server \in crossed
          BY <3>5 DEF Uncrossed
        <5> HIDE DEF i
        <5> QED
          BY <3>3, <4>1, <5>1 DEF Promoted, RowsWith
      <4> QED
        BY <2>0, <3>1, <4>1
    <3> QED
      BY <3>4, <3>5
  <2>4. ASSUME NEW d \in Deploys, Elsewhere(d) PROVE Goal
    <3>1. entered' = entered
      <4>1. rows' = rows /\ crossed' = crossed
        BY <2>4, AfterElsewhere DEF BringUpInv
      <4> QED
        BY <4>1 DEF Promoted, RowsWith
    <3>2. Controllers' = Controllers
      BY <2>4, CloneMakesNone DEF BringUpInv
    <3> QED
      BY <3>1, <3>2
  <2>5. ASSUME UNCHANGED <<rows, run, crossed>>, NEW n \in DOMAIN vms, BecomeReady(n)
        PROVE  Goal
    <3>1. entered' = entered
      BY <2>5 DEF Promoted, RowsWith
    <3>2. \A m \in DOMAIN vms : vms'[m].server = vms[m].server /\ vms'[m].role = vms[m].role
      BY <2>5 DEF BecomeReady, BringUpInv, TypeOK, Machine
    <3>3. DOMAIN vms' = DOMAIN vms
      BY <2>5 DEF BecomeReady, BringUpInv, TypeOK
    <3>4. Controllers' = Controllers
      BY <3>2, <3>3 DEF Controllers, ControllersAt
    <3> QED
      BY <3>1, <3>4
  <2>6. ASSUME NEW i \in DOMAIN rows, RemoveRow(i) PROVE Goal
    <3>1. /\ DOMAIN rows' = DOMAIN rows \ {i}
          /\ \A j \in DOMAIN rows' : rows'[j] = rows[j]
      BY <2>6, DeletedRow DEF RemoveRow
    <3>2. vms' = vms /\ crossed' = crossed
      BY <2>6 DEF RemoveRow
    <3>3. rows[i].server \in DCs
      BY DEF BringUpInv, TypeOK, PromotionRow
    <3>4. ASSUME NEW t
          PROVE  /\ t \in Promoted' => t \in Promoted
                 /\ t \in Promoted /\ t # rows[i].server => t \in Promoted'
      BY <3>1 DEF Promoted, RowsWith
    <3>5. entered' = entered \/ entered' = entered \ {rows[i].server}
      BY <3>2, <3>4
    <3> QED
      BY <2>0, <3>2, <3>3, <3>5 DEF Registry!Next, Registry!Strike
  <2>7. CASE UNCHANGED vars
    BY <2>0, <2>7 DEF vars, db, Promoted, RowsWith
  <2> HIDE DEF Goal
  <2> QED
    BY <2>1, <2>2, <2>3, <2>4, <2>5, <2>6, <2>7
    DEF Next, Step, Elsewhere, BecomeReady, RemoveRow, db
<1> QED
  BY <1>1, <1>2, Invariant, PTL DEF Spec, ImplementsRegistry, Registry!Spec

=============================================================================
