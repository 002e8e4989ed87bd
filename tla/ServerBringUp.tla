---------------------------- MODULE ServerBringUp ----------------------------
(***************************************************************************)
(* The first half of a project deployment: the virtual machines are cloned *)
(* (_step_clone_vms), then the domain controllers are promoted and awaited *)
(* (_step_promote_dcs).  A deployment is one POST /projects/{id}/deploy    *)
(* handled in a thread of its own; nothing stops a second request for the  *)
(* same project from running next to the first, and a request may die at   *)
(* any point (an exception, a restart of the service) and be sent again.   *)
(*                                                                         *)
(* Three stores are touched: the servers table, the dc_promo rows of the   *)
(* tracking table, and the outside world (the hypervisor's machines and    *)
(* the directory service on them), which no rollback undoes.  At any moment *)
(* an operator may remove a dc_promo row: the list of the vulnerabilities  *)
(* tab shows the rows of every template, each with a bin.                  *)
(***************************************************************************)
EXTENDS AppliedTemplates, FiniteSets, Sequences

CONSTANTS
  Deploys,      \* the request threads that may deploy the project
  Servers,      \* ids of the project's servers
  DCs,          \* those with is_dc
  DomainOf,     \* position of a server's domain in the project
  Addressed,    \* servers that have an IP
  Templated,    \* servers whose VM template has a Proxmox id
  MaxStarts,    \* bound: requests in total
  MaxMachines,  \* bound: clones; beyond it they only fail
  MaxRows       \* bound: dc_promo rows at a time

ASSUME ProjectAssumption ==
  /\ Servers \subseteq Nat
  /\ DCs \subseteq Servers
  /\ DomainOf \in [Servers -> Nat]
  /\ Addressed \subseteq Servers
  /\ Templated \subseteq Servers

ASSUME BoundAssumption == MaxStarts \in Nat /\ MaxMachines \in Nat /\ MaxRows \in Nat

VARIABLES
  \* the database
  status,       \* Server.status
  vmId,         \* Server.vm_id, 0 for NULL
  rows,         \* the dc_promo rows of applied_templates
  \* the outside world
  vms,          \* the clones in order of creation, see Machine
  \* the requests
  run,          \* the local state of each, see RunState
  starts,       \* how many were sent so far
  crossed       \* history: servers whose row got an id that was still in use

db   == <<status, vmId, rows>>
vars == <<db, vms, run, starts, crossed>>

ServerStatus == {"pending", "applied", "modified", "error"}
RowIds       == 1..MaxRows
Role         == {"root", "replica"}
PromotionRow == [server : DCs, status : TemplateStatus]

(* A clone: its server, of which there may be several, all with its address; *)
(* what a promotion made of it; whether its directory service answers.      *)
Machine == [server : Servers, role : {"none"} \cup Role, ready : BOOLEAN]
Stopped      == {"idle", "passed", "failed"}
Phase        == Stopped \cup {"plan", "clone", "promote", "run", "record", "await"}

RunState ==
  [phase     : Phase,
   batch     : SUBSET Servers,    \* servers_to_clone, as read at the start
   toClone   : SUBSET Servers,    \* those of them not tried yet
   cloned    : [Servers -> Nat],  \* clone_results: the new machine, 0 if none
   toPromote : SUBSET DCs,        \* servers_to_promote, as read at the start
   left      : SUBSET DCs,        \* those of them not handled yet
   current   : Nat,               \* the row of the promotion under way
   outcome   : BOOLEAN,           \* what its playbook reported
   toAwait   : SUBSET DCs]        \* controllers not yet seen ready

(* A request that is not running has no local state.                        *)
NoClones == [s \in Servers |-> 0]

NotRunning(p) ==
  [phase |-> p, batch |-> {}, toClone |-> {}, cloned |-> NoClones,
   toPromote |-> {}, left |-> {}, current |-> 0, outcome |-> FALSE,
   toAwait |-> {}]

TypeOK ==
  /\ status \in [Servers -> ServerStatus]
  /\ vmId \in [Servers -> Nat]
  /\ DOMAIN rows \subseteq RowIds
  /\ \A i \in DOMAIN rows : rows[i] \in PromotionRow
  /\ vms \in Seq(Machine)
  /\ run \in [Deploys -> RunState]
  /\ starts \in Nat
  /\ crossed \subseteq DCs

Init ==
  /\ status = [s \in Servers |-> "pending"]
  /\ vmId = [s \in Servers |-> 0]
  /\ rows = [i \in {} |-> 0]
  /\ vms = <<>>
  /\ run = [d \in Deploys |-> NotRunning("idle")]
  /\ starts = 0
  /\ crossed = {}

-----------------------------------------------------------------------------
(* Lists of servers follow the project: domain by domain, in id order.      *)
Precedes(s, t) ==
  \/ DomainOf[s] < DomainOf[t]
  \/ DomainOf[s] = DomainOf[t] /\ s < t

IsHead(s, S) == s \in S /\ \A t \in S \ {s} : Precedes(s, t)

(* Faulty variant: a row of any status will do.                             *)
Promoted_AnyRow == {rows[i].server : i \in DOMAIN rows}

(* is_server_promoted: an APPLIED dc_promo row names the server.            *)
Promoted == {rows[i].server : i \in RowsWith(rows, {"applied"})}

(* The machines at a server's address that are controllers.                 *)
ControllersAt(s) == {n \in DOMAIN vms : vms[n].server = s /\ vms[n].role # "none"}

Controllers == {s \in DCs : ControllersAt(s) # {}}

Answers(s) == \E n \in ControllersAt(s) : vms[n].ready

HasRole(s, role) == \E n \in ControllersAt(s) : vms[n].role = role

(* A request that waits for a promotion, and will write its row.            *)
Busy(d) == run[d].phase \in {"run", "record"}

(* Faulty variant: first of what is left to promote.                        *)
IsFirstDc_OfRest(d, s) ==
  \A t \in run[d].left : DomainOf[t] = DomainOf[s] => s <= t

(* is_first_dc = (i == 0): first of its domain in the list being promoted,  *)
(* servers without an address included.                                    *)
IsFirstDc(d, s) ==
  \A t \in run[d].toPromote : DomainOf[t] = DomainOf[s] => s <= t

(* What is asked of its machine: a new forest, or to join the domain.       *)
RoleOf(d, s) == IF IsFirstDc(d, s) THEN "root" ELSE "replica"

Becomes(d, local) == run' = [run EXCEPT ![d] = local]

Ends(d, p) == Becomes(d, NotRunning(p))

(* The promotion loop goes on after s.                                      *)
NextPromotion(d, s) ==
  Becomes(d, [run[d] EXCEPT !.phase = "promote", !.left = @ \ {s},
                            !.current = 0, !.outcome = FALSE])

(* Faulty variant: every server is cloned again.                            *)
Start_ClonesAll(d) ==
  /\ run[d].phase \in Stopped
  /\ starts < MaxStarts
  /\ starts' = starts + 1
  /\ Becomes(d, [run[d] EXCEPT !.phase = "plan", !.batch = Servers,
                              !.toClone = Servers])
  /\ UNCHANGED <<db, vms, crossed>>

(* A deployment starts: the servers to clone are read now.                  *)
Start(d) ==
  LET pending == {s \in Servers : status[s] # "applied"}
  IN  /\ run[d].phase \in Stopped
      /\ starts < MaxStarts
      /\ starts' = starts + 1
      /\ Becomes(d, [run[d] EXCEPT !.phase = "plan", !.batch = pending,
                                  !.toClone = pending])
      /\ UNCHANGED <<db, vms, crossed>>

(* The controllers to promote are read before anything is cloned, and not   *)
(* read again: get_dcs_to_promote runs while the step list is built.        *)
Plan(d) ==
  LET dcs == DCs \ Promoted
  IN  /\ run[d].phase = "plan"
      /\ IF run[d].batch = {} /\ dcs = {}
         THEN Ends(d, "passed")
         ELSE Becomes(d, [run[d] EXCEPT
                !.phase = IF run[d].batch # {} THEN "clone" ELSE "promote",
                !.toPromote = dcs, !.left = dcs])
      /\ UNCHANGED <<db, vms, starts, crossed>>

(* One turn of deploy_lab: clone_vm, whose exceptions are caught, gives the *)
(* new machine's id or a failure (0).  A failure may leave a machine behind *)
(* (the task times out, cloud-init is refused).                             *)
CloneVm(d) ==
  /\ run[d].phase = "clone"
  /\ \E s \in run[d].toClone :
       /\ IsHead(s, run[d].toClone)
       /\ \/ /\ s \in Templated /\ Len(vms) < MaxMachines
             /\ vms' = Append(vms, [server |-> s, role |-> "none", ready |-> FALSE])
             /\ \E vm \in {0, Len(vms) + 1} :
                  Becomes(d, [run[d] EXCEPT !.toClone = @ \ {s},
                                            !.cloned = [@ EXCEPT ![s] = vm]])
          \/ /\ Becomes(d, [run[d] EXCEPT !.toClone = @ \ {s}])
             /\ UNCHANGED vms
  /\ UNCHANGED <<db, starts, crossed>>

(* Faulty variant: the results are not looked at.                           *)
RecordClones_Unchecked(d) ==
  /\ run[d].phase = "clone"
  /\ run[d].toClone = {}
  /\ status' = [s \in Servers |-> IF s \in run[d].batch THEN "applied" ELSE status[s]]
  /\ vmId' = [s \in Servers |-> IF s \in run[d].batch THEN run[d].cloned[s] ELSE vmId[s]]
  /\ IF run[d].toPromote = {}
     THEN Ends(d, "passed")
     ELSE Becomes(d, [run[d] EXCEPT !.phase = "promote", !.batch = {},
                                    !.cloned = NoClones])
  /\ UNCHANGED <<rows, vms, starts, crossed>>

(* Faulty variant: a failed clone is stored under a status of its own.      *)
RecordClones_OwnStatus(d) ==
  /\ run[d].phase = "clone"
  /\ run[d].toClone = {}
  /\ status' = [s \in Servers |-> IF s \in run[d].batch /\ run[d].cloned[s] = 0
                                  THEN "failed" ELSE status[s]]
  /\ Becomes(d, [run[d] EXCEPT !.phase = "promote"])
  /\ UNCHANGED <<vmId, rows, vms, starts, crossed>>

(* The results are written in one commit once every clone was tried.  A     *)
(* failed clone marks its server and leaves the deployment a success.       *)
RecordClones(d) ==
  LET batch == run[d].batch
      ok    == {s \in batch : run[d].cloned[s] # 0}
  IN  /\ run[d].phase = "clone"
      /\ run[d].toClone = {}
      /\ status' = [s \in Servers |-> IF s \in ok THEN "applied"
                                      ELSE IF s \in batch THEN "error"
                                      ELSE status[s]]
      /\ vmId' = [s \in Servers |-> IF s \in ok THEN run[d].cloned[s] ELSE vmId[s]]
      /\ IF run[d].toPromote = {}
         THEN Ends(d, "passed")
         ELSE Becomes(d, [run[d] EXCEPT !.phase = "promote", !.batch = {},
                                        !.cloned = NoClones])
      /\ UNCHANGED <<rows, vms, starts, crossed>>

(* The next controller gets its tracking row, committed as PENDING ...      *)
BeginPromotion(d) ==
  /\ run[d].phase = "promote"
  /\ \E s \in run[d].left \cap Addressed, i \in RowIds :
       /\ IsHead(s, run[d].left)
       /\ IsNextId(rows, i)
       /\ rows' = CreateRow(rows, i, [server |-> s, status |-> "pending"])
       /\ Becomes(d, [run[d] EXCEPT !.phase = "run", !.current = i])
       /\ crossed' = IF \E e \in Deploys : Busy(e) /\ run[e].current = i
                     THEN crossed \cup {s} ELSE crossed
  /\ UNCHANGED <<status, vmId, vms, starts>>

(* ... or is skipped, for want of an address.                               *)
SkipPromotion(d) ==
  /\ run[d].phase = "promote"
  /\ \E s \in run[d].left \ Addressed :
       /\ IsHead(s, run[d].left)
       /\ Becomes(d, [run[d] EXCEPT !.left = @ \ {s}])
  /\ UNCHANGED <<db, vms, starts, crossed>>

(* What the dc_promo playbook can do to a machine (external).  The first    *)
(* controller creates a forest, another joins a domain that answers; both   *)
(* need a machine that is not a controller yet.                             *)
CanPromote(n, role) ==
  /\ vms[n].role = "none"
  /\ role = "root" \/ \E t \in DCs : DomainOf[t] = DomainOf[vms[n].server] /\ Answers(t)

(* The playbook goes to the server's address, where any of its clones may   *)
(* answer.  The machine reboots at the end, so a promotion that took place  *)
(* may be reported as failed.                                               *)
RunPromotion(d) ==
  LET Reported(ok) == Becomes(d, [run[d] EXCEPT !.phase = "record", !.outcome = ok])
  IN  /\ run[d].phase = "run"
      /\ \/ \E s \in run[d].left, n \in DOMAIN vms :
               /\ IsHead(s, run[d].left)
               /\ vms[n].server = s
               /\ CanPromote(n, RoleOf(d, s))
               /\ vms' = [vms EXCEPT ![n].role = RoleOf(d, s)]
               /\ \E ok \in BOOLEAN : Reported(ok)
         \/ /\ Reported(FALSE)
            /\ UNCHANGED vms
      /\ UNCHANGED <<db, starts, crossed>>

(* Faulty variant: a promotion that was sent counts as done.                *)
RecordPromotion_Unchecked(d) ==
  /\ run[d].phase = "record"
  /\ \E s \in run[d].left :
       /\ IsHead(s, run[d].left)
       /\ rows' = UpdateStatus(rows, run[d].current, "applied")
       /\ NextPromotion(d, s)
  /\ UNCHANGED <<status, vmId, vms, starts, crossed>>

(* Faulty variant: the result is written to every row of the server.        *)
RecordPromotion_ByServer(d) ==
  /\ run[d].phase = "record"
  /\ \E s \in run[d].left :
       /\ IsHead(s, run[d].left)
       /\ rows' = [j \in DOMAIN rows |->
                     IF rows[j].server = s
                     THEN [rows[j] EXCEPT !.status = IF run[d].outcome THEN "applied"
                                                                       ELSE "error"]
                     ELSE rows[j]]
       /\ IF run[d].outcome THEN NextPromotion(d, s) ELSE Ends(d, "failed")
  /\ UNCHANGED <<status, vmId, vms, starts, crossed>>

(* The row takes the playbook's result, and a failure ends the deployment.  *)
(* So does a row that was removed meanwhile: an update that matches no row  *)
(* is an exception.                                                         *)
RecordPromotion(d) ==
  LET i  == run[d].current
      ok == run[d].outcome
  IN  /\ run[d].phase = "record"
      /\ \E s \in run[d].left :
           /\ IsHead(s, run[d].left)
           /\ rows' = UpdateStatus(rows, i, IF ok THEN "applied" ELSE "error")
           /\ IF ok /\ i \in DOMAIN rows THEN NextPromotion(d, s)
                                        ELSE Ends(d, "failed")
      /\ UNCHANGED <<status, vmId, vms, starts, crossed>>

(* Every promotion was sent: the readiness of each is awaited in turn.      *)
EndPromotions(d) ==
  /\ run[d].phase = "promote"
  /\ run[d].left = {}
  /\ Becomes(d, [run[d] EXCEPT !.phase = "await",
                              !.toAwait = run[d].toPromote \cap Addressed])
  /\ UNCHANGED <<db, vms, starts, crossed>>

(* _wait_for_ad_ready saw AD_READY on the next controller ...               *)
SeeReady(d) ==
  /\ run[d].phase = "await"
  /\ \E s \in run[d].toAwait :
       /\ IsHead(s, run[d].toAwait)
       /\ Answers(s)
       /\ Becomes(d, [run[d] EXCEPT !.toAwait = @ \ {s}])
  /\ UNCHANGED <<db, vms, starts, crossed>>

(* Faulty variant: a timeout is logged and the next controller awaited.     *)
GiveUpWaiting_Continues(d) ==
  /\ run[d].phase = "await"
  /\ \E s \in run[d].toAwait :
       /\ IsHead(s, run[d].toAwait)
       /\ Becomes(d, [run[d] EXCEPT !.toAwait = @ \ {s}])
  /\ UNCHANGED <<db, vms, starts, crossed>>

(* ... or gave up on it.                                                    *)
GiveUpWaiting(d) ==
  /\ run[d].phase = "await"
  /\ run[d].toAwait # {}
  /\ Ends(d, "failed")
  /\ UNCHANGED <<db, vms, starts, crossed>>

Pass(d) ==
  /\ run[d].phase = "await"
  /\ run[d].toAwait = {}
  /\ Ends(d, "passed")
  /\ UNCHANGED <<db, vms, starts, crossed>>

(* An exception, or the end of the process: the session is rolled back, and *)
(* everything committed or done outside stays.                              *)
Abort(d) ==
  /\ run[d].phase \notin Stopped
  /\ Ends(d, "failed")
  /\ UNCHANGED <<db, vms, starts, crossed>>

(* A promoted machine finishes its reboot (external).                       *)
BecomeReady(n) ==
  /\ vms[n].role # "none"
  /\ ~vms[n].ready
  /\ vms' = [vms EXCEPT ![n].ready = TRUE]
  /\ UNCHANGED <<db, run, starts, crossed>>

(* DELETE /vulnerabilities/{id}: the operator removes a row, whatever its   *)
(* status, and whoever is about to write it.                                *)
RemoveRow(i) ==
  /\ i \in DOMAIN rows
  /\ rows' = DeleteRow(rows, i)
  /\ UNCHANGED <<status, vmId, vms, run, starts, crossed>>

-----------------------------------------------------------------------------
(* What a request does by itself, once it was started.                      *)
Step(d) ==
  \/ Plan(d) \/ CloneVm(d) \/ RecordClones(d)
  \/ BeginPromotion(d) \/ SkipPromotion(d) \/ RunPromotion(d)
  \/ RecordPromotion(d) \/ EndPromotions(d)
  \/ SeeReady(d) \/ GiveUpWaiting(d) \/ Pass(d)

Next ==
  \/ \E d \in Deploys : Start(d) \/ Step(d) \/ Abort(d)
  \/ \E n \in DOMAIN vms : BecomeReady(n)
  \/ \E i \in RowIds : RemoveRow(i)

Spec == Init /\ [][Next]_vars

-----------------------------------------------------------------------------
(* A server recorded as APPLIED has the id of a machine that was cloned for *)
(* it, whatever failed, and however the commits of two requests interleave  *)
(* (_step_clone_vms writes status and vm_id of a whole batch at the end).   *)
RecordedVmIsOwn ==
  \A s \in Servers : status[s] = "applied" =>
    vmId[s] \in DOMAIN vms /\ vms[vmId[s]].server = s

(* A controller recorded as promoted is one: a row says APPLIED only after  *)
(* a playbook that took effect, across retries, crashes and removals; but   *)
(* for a server whose row got the id of one that was removed under a        *)
(* promotion, and so took that promotion's result.                          *)
RecordedIsPromoted == Promoted \subseteq Controllers \cup crossed

(* A promotion is recorded by one row: of two requests that race for a      *)
(* server, or a retry, each has a row of its own, and two rows say APPLIED  *)
(* only when two of its clones were promoted (with the same exception).     *)
OneMachinePerRecord ==
  \A i, j \in RowsWith(rows, {"applied"}) :
    rows[i].server = rows[j].server /\ rows[i].server \notin crossed /\ i # j =>
      \E m, n \in ControllersAt(rows[i].server) : m # n

(* A request that passed leaves no server with an address unpromoted: what  *)
(* its snapshot left out was a controller by then, the rest it promoted.    *)
(* That the operator removed their rows makes no difference.                *)
PassedIsPromoted ==
  \A d \in Deploys : run[d].phase = "passed" =>
    DCs \cap Addressed \subseteq Controllers \cup crossed

(* A request that got all its promotions through made the first controller  *)
(* of each domain in its list the root of a forest, and the others members. *)
AwaitedRoots ==
  \A d \in Deploys : run[d].phase = "await" =>
    \A s \in run[d].toPromote \cap Addressed :
      HasRole(s, IF \A t \in run[d].toPromote : DomainOf[t] = DomainOf[s] => s <= t
                 THEN "root" ELSE "replica")

(* The result of a promotion is not rewritten while its row is there: a     *)
(* later attempt, of this request or of another, has a row of its own, and  *)
(* one whose row was removed writes nowhere (with the same exception).      *)
OutcomeIsFinal ==
  [][\A i \in RowsWith(rows, {"applied", "error"}) \cap DOMAIN rows' :
       rows[i].server \notin crossed => rows'[i] = rows[i]]_vars

(* One request alone was ever sent, though perhaps again and again.         *)
OneSender ==
  \A d, e \in Deploys : run[d].phase # "idle" /\ run[e].phase # "idle" => d = e

(* As long as one request alone was ever sent, and sent again, it touches   *)
(* nothing a former attempt finished: it neither clones a server recorded   *)
(* as APPLIED nor tracks a new promotion of a recorded controller.          *)
AppliedIsLeftAlone ==
  [][OneSender =>
       /\ \A n \in DOMAIN vms' \ DOMAIN vms : status[vms'[n].server] # "applied"
       /\ \A i \in DOMAIN rows' \ DOMAIN rows : rows'[i].server \notin Promoted]_vars

(* A request passes the wait only when each controller it promoted answers. *)
PassesOnlyWhenReady ==
  [][\A d \in Deploys :
       run[d].phase = "await" /\ run'[d].phase = "passed" =>
         \A s \in run[d].toPromote \cap Addressed : Answers(s)]_vars

(* The promotion step implements the register of controllers.               *)
Registry == INSTANCE ControllerRegistry WITH
  real <- Controllers, recorded <- Promoted \ crossed

ImplementsRegistry == Registry!Spec

-----------------------------------------------------------------------------
(* Why the safety properties hold, in a form every step preserves.          *)

Succeeded(d) == run[d].phase = "record" /\ run[d].outcome

(* Rows that no promotion but their own will write.                         *)
Uncrossed == {i \in DOMAIN rows : rows[i].server \notin crossed}

(* A promotion under way is that of the first server left; its row, if it   *)
(* is there, is PENDING, names that server, and is no other request's.      *)
RowsAreOwned ==
  /\ \A d \in Deploys : Busy(d) =>
       \E s \in run[d].left \cap Addressed :
         /\ IsHead(s, run[d].left)
         /\ run[d].current \in Uncrossed =>
              rows[run[d].current] = [server |-> s, status |-> "pending"]
  /\ \A d, e \in Deploys :
       Busy(d) /\ Busy(e) /\ run[d].current = run[e].current
       /\ run[d].current \in Uncrossed => d = e

(* Rows that are recorded as applied, or are about to be.                   *)
Claims == {i \in Uncrossed :
             \/ rows[i].status = "applied"
             \/ \E d \in Deploys : Succeeded(d) /\ run[d].current = i}

(* Each stands for a promotion of its own that took place.                  *)
ClaimsAreTrue ==
  /\ \A i \in Claims : ControllersAt(rows[i].server) # {}
  /\ \A i, j \in Claims : rows[i].server = rows[j].server /\ i # j =>
       \E m, n \in ControllersAt(rows[i].server) : m # n

(* What a running request has not handled yet covers what is not promoted.  *)
ListsAreComplete ==
  \A d \in Deploys :
    /\ run[d].left \subseteq run[d].toPromote
    /\ run[d].phase \in {"clone", "promote", "run", "record", "await"} =>
         DCs \cap Addressed \subseteq Controllers \cup crossed \cup run[d].left
    /\ run[d].phase = "await" => run[d].left = {}

(* What it has handled was promoted by it, as its list said.                *)
HandledAsListed ==
  \A d \in Deploys :
    /\ Succeeded(d) =>
         \A s \in run[d].left : IsHead(s, run[d].left) => HasRole(s, RoleOf(d, s))
    /\ \A s \in (run[d].toPromote \ run[d].left) \cap Addressed : HasRole(s, RoleOf(d, s))
    /\ run[d].phase = "await" =>
         \A s \in (run[d].toPromote \cap Addressed) \ run[d].toAwait : Answers(s)

(* The inductive invariant of the module ServerBringUpProofs.               *)
BringUpInv ==
  /\ TypeOK
  /\ RowsAreOwned
  /\ ClaimsAreTrue
  /\ ListsAreComplete
  /\ HandledAsListed
  /\ PassedIsPromoted

(* A clone a request has noted but not yet committed is a machine made for   *)
(* that very server: what RecordedVmIsOwn needs to survive RecordClones.     *)
ClonesAreOwn ==
  \A d \in Deploys : \A s \in Servers :
    LET vm == run[d].cloned[s]
    IN  vm # 0 => vm \in DOMAIN vms /\ vms[vm].server = s

(* What a request has yet to do is not done, though its lists were read     *)
(* once: nobody else records a clone or a promotion meanwhile.  A request   *)
(* that was never sent has no lists.  What AppliedIsLeftAlone needs.        *)
ListsAreFresh ==
  \A d \in Deploys :
    /\ run[d].phase = "idle" => run[d].toClone = {} /\ run[d].left = {}
    /\ OneSender => /\ \A s \in run[d].toClone : status[s] # "applied"
                    /\ run[d].left \cap Promoted = {}
                    /\ crossed = {}

-----------------------------------------------------------------------------
(* Claims of the documentation, which the code does not keep.               *)

(* "the system waits until the Active Directory services are fully          *)
(* operational before the next step": every recorded controller answers     *)
(* once a deployment is past this half.                                     *)
ReadyBeforeNextStep ==
  \A d \in Deploys : run[d].phase = "passed" => \A s \in Promoted : Answers(s)

(* "the following servers join the existing domain": a domain has one root. *)
OneRootPerDomain ==
  \A s, t \in DCs :
    HasRole(s, "root") /\ HasRole(t, "root") /\ DomainOf[s] = DomainOf[t] => s = t

=============================================================================
