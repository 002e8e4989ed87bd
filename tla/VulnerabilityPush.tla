-------------------------- MODULE VulnerabilityPush --------------------------
(***************************************************************************)
(* Vulnerabilities of one project: an operator attaches one to a domain,   *)
(* removes it from the list, or pushes it by itself; every deployment      *)
(* pushes those still to be pushed (_step_push_vulnerabilities) on the     *)
(* first controller of EVERY domain of the project, and keeps one status   *)
(* for all of them.                                                        *)
(*                                                                         *)
(* A vulnerability is a template with its parameters; what a script did to *)
(* a domain is the pair <<domain, vulnerability>>.  A deployment works on  *)
(* rows its session holds or reloads by id, while other requests change    *)
(* and delete them.                                                        *)
(***************************************************************************)
EXTENDS AppliedTemplates, FiniteSets

CONSTANTS
  Deploys,    \* the request threads that may deploy the project
  Operators,  \* the browsers and clients that edit the list
  Domains,    \* ids of the project's domains
  Vulns,
  Labs,       \* what get_root_dc may answer in each: "missing", "no_ip" or "ok"
  NoVuln,     \* of a row the session has yet to reload
  MaxRows     \* bound: rows

ASSUME LabAssumption ==
  /\ Domains \subseteq Nat \ {0}
  /\ Labs \subseteq [Domains -> {"missing", "no_ip", "ok"}]
  /\ NoVuln \notin Vulns

ASSUME BoundAssumption == MaxRows \in Nat

VARIABLES
  rows,      \* the vulnerability rows of applied_templates
  injected,  \* what the scripts did, as <<domain, vulnerability>>
  rootDc,    \* the lab; no operation of this module changes it
  ops,       \* what each operator is doing, see Operation
  run,       \* the local state of each deployment, see RunState
  swapped    \* history: the rows whose id a push under way took for another's

vars == <<rows, injected, rootDc, ops, run, swapped>>

RowIds  == 1..MaxRows
Row     == [vuln : Vulns, domain : Domains, status : TemplateStatus]
Expired == [vuln |-> NoVuln, domain |-> 0, status |-> "pending"]
Outcome == {"unknown", "done", "failed"}
Stopped == {"idle", "passed", "failed", "aborted"}

Operation ==
  [doing   : {"nothing", "attach", "remove", "script", "record"},
   row     : RowIds \cup {0},
   seen    : Row \cup {Expired},   \* the row as read, or the one to insert
   outcome : Outcome]

Resting == [doing |-> "nothing", row |-> 0, seen |-> Expired, outcome |-> "unknown"]

RunState ==
  [phase   : Stopped \cup {"domain", "row", "script", "record"},
   listed  : SUBSET RowIds,                     \* vuln_templates
   held    : [RowIds -> Row \cup {Expired}],    \* what the session holds of them
   visits  : SUBSET Domains,                    \* domains yet to be left
   domain  : Domains \cup {0},                  \* the one it is in
   toApply : SUBSET RowIds,                     \* rows left in this domain
   outcome : Outcome,
   failure : {"no", "yes"}]                     \* has_failure

NotRunning(p) ==
  [phase |-> p, listed |-> {}, held |-> [i \in RowIds |-> Expired], visits |-> {},
   domain |-> 0, toApply |-> {}, outcome |-> "unknown", failure |-> "no"]

TypeOK ==
  /\ DOMAIN rows \subseteq RowIds
  /\ \A i \in DOMAIN rows : rows[i] \in Row
  /\ injected \subseteq Domains \X Vulns
  /\ rootDc \in Labs
  /\ ops \in [Operators -> Operation]
  /\ run \in [Deploys -> RunState]
  /\ swapped \subseteq RowIds

Init ==
  /\ rows = [i \in {} |-> 0]
  /\ injected = {}
  /\ rootDc \in Labs
  /\ ops = [o \in Operators |-> Resting]
  /\ run = [d \in Deploys |-> NotRunning("idle")]
  /\ swapped = {}

-----------------------------------------------------------------------------
IsFirst(n, S) == n \in S /\ \A m \in S : n <= m

Becomes(d, local) == run' = [run EXCEPT ![d] = local]

Ends(d, p) == Becomes(d, NotRunning(p))

Does(o, local) == ops' = [ops EXCEPT ![o] = local]

Rests(o) == Does(o, Resting)

(* A push under way will come back to the row of this id.                   *)
IsHeld(i) ==
  \/ \E d \in Deploys : run[d].phase \notin Stopped /\ i \in run[d].listed
  \/ \E o \in Operators : ops[o].doing \in {"script", "record"} /\ ops[o].row = i

-----------------------------------------------------------------------------
(* The operators.                                                           *)

(* POST /vulnerabilities/projects/{id}, its first half: the same one must   *)
(* not be attached to the domain already ...                                *)
CheckAttach(o, v, dm) ==
  /\ ops[o].doing = "nothing"
  /\ rootDc[dm] # "missing"
  /\ \A i \in DOMAIN rows : <<rows[i].domain, rows[i].vuln>> # <<dm, v>>
  /\ Does(o, [Resting EXCEPT !.doing = "attach",
                !.seen = [vuln |-> v, domain |-> dm, status |-> "pending"]])
  /\ UNCHANGED <<rows, injected, rootDc, run, swapped>>

(* ... its second half: the row is inserted.                                *)
InsertRow(o) ==
  /\ ops[o].doing = "attach"
  /\ \E i \in RowIds :
       /\ IsNextId(rows, i)
       /\ rows' = CreateRow(rows, i, ops[o].seen)
       /\ swapped' = IF IsHeld(i) THEN swapped \cup {i} ELSE swapped
  /\ Rests(o)
  /\ UNCHANGED <<injected, rootDc, run>>

(* The list's bin opens a dialog that names the row.  The list shows the    *)
(* rows of every template: what becomes of those that are no vulnerability  *)
(* when they are binned is said where they are kept (ServerBringUp,         *)
(* AccountPush, MemberDialogs).                                             *)
OpenRemoval(o, i) ==
  /\ ops[o].doing = "nothing"
  /\ i \in DOMAIN rows
  /\ Does(o, [Resting EXCEPT !.doing = "remove", !.row = i])
  /\ UNCHANGED <<rows, injected, rootDc, run, swapped>>

(* ... and DELETE /vulnerabilities/{id} deletes the row that has its id.    *)
ConfirmRemoval(o) ==
  /\ ops[o].doing = "remove"
  /\ rows' = [i \in DOMAIN rows \ {ops[o].row} |-> rows[i]]
  /\ swapped' = swapped \ {ops[o].row}
  /\ Rests(o)
  /\ UNCHANGED <<injected, rootDc, run>>

(* POST /vulnerabilities/{id}: the row is read ...                          *)
ReadOne(o, i) ==
  /\ ops[o].doing = "nothing"
  /\ i \in DOMAIN rows
  /\ rootDc[rows[i].domain] # "missing"
  /\ Does(o, [Resting EXCEPT !.doing = "script", !.row = i, !.seen = rows[i]])
  /\ UNCHANGED <<rows, injected, rootDc, run, swapped>>

(* ... its script runs in its domain, and may fail after it took effect ... *)
RunOne(o) ==
  LET seen == ops[o].seen
      done == injected \cup {<<seen.domain, seen.vuln>>}
  IN  /\ ops[o].doing = "script"
      /\ \/ /\ rootDc[seen.domain] = "ok"
            /\ injected' = done
            /\ Does(o, [ops[o] EXCEPT !.doing = "record", !.outcome = "done"])
         \/ /\ injected' \in {injected} \cup (IF rootDc[seen.domain] = "ok" THEN {done} ELSE {})
            /\ Does(o, [ops[o] EXCEPT !.doing = "record", !.outcome = "failed"])
      /\ UNCHANGED <<rows, rootDc, run, swapped>>

StatusFor(outcome) == IF outcome = "done" THEN "applied" ELSE "error"

(* What a commit of a status writes: nothing when the row had it when read, *)
(* nothing when the row is gone, and otherwise the row of that id.          *)
CommitStatus(i, seen, outcome) ==
  rows' = IF seen.status = StatusFor(outcome) THEN rows
          ELSE UpdateStatus(rows, i, StatusFor(outcome))

(* ... and its status is committed.                                         *)
RecordOne(o) ==
  /\ ops[o].doing = "record"
  /\ CommitStatus(ops[o].row, ops[o].seen, ops[o].outcome)
  /\ Rests(o)
  /\ UNCHANGED <<injected, rootDc, run, swapped>>

(* A dialog is cancelled, or a request dies.                                *)
GiveUp(o) ==
  /\ ops[o].doing # "nothing"
  /\ Rests(o)
  /\ UNCHANGED <<rows, injected, rootDc, run, swapped>>

-----------------------------------------------------------------------------
(* The push.                                                                *)

(* The rows to push are read once; a failed one is not among them.          *)
Begin(d) ==
  LET listed == RowsWith(rows, {"pending", "modified"})
  IN  /\ run[d].phase \in Stopped
      /\ IF listed = {} THEN Ends(d, "passed")
         ELSE Becomes(d, [NotRunning("domain") EXCEPT
                !.listed = listed, !.visits = Domains,
                !.held = [i \in RowIds |-> IF i \in listed THEN rows[i] ELSE Expired]])
      /\ UNCHANGED <<rows, injected, rootDc, ops, swapped>>


(* The next domain: no controller is an exception, one without an address   *)
(* a failure that lets the other domains be served.                         *)
EnterDomain(d) ==
  /\ run[d].phase = "domain"
  /\ \E dm \in run[d].visits :
       /\ IsFirst(dm, run[d].visits)
       /\ CASE rootDc[dm] = "missing" -> Ends(d, "aborted")
            [] rootDc[dm] = "no_ip"   -> Becomes(d, [run[d] EXCEPT
                 !.visits = @ \ {dm}, !.failure = "yes"])
            [] rootDc[dm] = "ok"      -> Becomes(d, [run[d] EXCEPT
                 !.phase = "row", !.domain = dm, !.toApply = run[d].listed])
  /\ UNCHANGED <<rows, injected, rootDc, ops, swapped>>

(* The next row: a session that let go of it at a commit reads it again, by *)
(* its id, and fails when it is gone.                                       *)
ReadRow(d) ==
  /\ run[d].phase = "row"
  /\ \E i \in run[d].toApply :
       /\ IsFirst(i, run[d].toApply)
       /\ \/ /\ run[d].held[i] # Expired
             /\ Becomes(d, [run[d] EXCEPT !.phase = "script"])
          \/ /\ run[d].held[i] = Expired
             /\ i \in DOMAIN rows
             /\ Becomes(d, [run[d] EXCEPT !.phase = "script", !.held[i] = rows[i]])
          \/ /\ run[d].held[i] = Expired
             /\ i \notin DOMAIN rows
             /\ Ends(d, "aborted")
  /\ UNCHANGED <<rows, injected, rootDc, ops, swapped>>

(* Its script runs here, whatever domain it was attached to.                *)
RunScript(d) ==
  /\ run[d].phase = "script"
  /\ \E i \in run[d].toApply :
       LET done == injected \cup {<<run[d].domain, run[d].held[i].vuln>>}
       IN  /\ IsFirst(i, run[d].toApply)
           /\ \/ /\ injected' = done
                 /\ Becomes(d, [run[d] EXCEPT !.phase = "record", !.outcome = "done"])
              \/ /\ injected' \in {injected, done}
                 /\ Becomes(d, [run[d] EXCEPT !.phase = "record", !.outcome = "failed"])
  /\ UNCHANGED <<rows, rootDc, ops, swapped>>

(* After the commit, the log line reloads the row; the others are let go of.*)
AfterCommit(d, i, failure) ==
  [run[d] EXCEPT !.phase = "row", !.outcome = "unknown", !.toApply = @ \ {i},
     !.failure = failure,
     !.held = [j \in RowIds |-> IF j = i THEN rows'[i] ELSE Expired]]

(* Faulty variant: a script that was sent counts as done.                   *)
RecordRow_Unchecked(d) ==
  /\ run[d].phase = "record"
  /\ \E i \in run[d].toApply :
       /\ IsFirst(i, run[d].toApply)
       /\ i \in DOMAIN rows
       /\ CommitStatus(i, run[d].held[i], "done")
       /\ Becomes(d, AfterCommit(d, i, run[d].failure))
  /\ UNCHANGED <<injected, rootDc, ops, swapped>>

(* Faulty variant: a success makes up for the failures before it.           *)
RecordRow_Forgives(d) ==
  /\ run[d].phase = "record"
  /\ \E i \in run[d].toApply :
       /\ IsFirst(i, run[d].toApply)
       /\ i \in DOMAIN rows
       /\ CommitStatus(i, run[d].held[i], run[d].outcome)
       /\ Becomes(d, AfterCommit(d, i, IF run[d].outcome = "done" THEN "no" ELSE "yes"))
  /\ UNCHANGED <<injected, rootDc, ops, swapped>>

(* Faulty variant: a status of its own for a failed script.                 *)
RecordRow_OwnStatus(d) ==
  /\ run[d].phase = "record"
  /\ \E i \in run[d].toApply :
       /\ IsFirst(i, run[d].toApply)
       /\ i \in DOMAIN rows
       /\ rows' = UpdateStatus(rows, i,
                    IF run[d].outcome = "done" THEN "applied" ELSE "failed")
       /\ Becomes(d, AfterCommit(d, i, "yes"))
  /\ UNCHANGED <<injected, rootDc, ops, swapped>>

(* The row takes the result of this domain, over that of the one before; an *)
(* update that finds no row, or a log line that finds none, is an exception.*)
RecordRow(d) ==
  /\ run[d].phase = "record"
  /\ \E i \in run[d].toApply :
       /\ IsFirst(i, run[d].toApply)
       /\ \/ /\ i \in DOMAIN rows
             /\ CommitStatus(i, run[d].held[i], run[d].outcome)
             /\ Becomes(d, AfterCommit(d, i, IF run[d].outcome = "done"
                                             THEN run[d].failure ELSE "yes"))
          \/ /\ i \notin DOMAIN rows
             /\ Ends(d, "aborted")
             /\ UNCHANGED rows
  /\ UNCHANGED <<injected, rootDc, ops, swapped>>

LeaveDomain(d) ==
  /\ run[d].phase = "row"
  /\ run[d].toApply = {}
  /\ Becomes(d, [run[d] EXCEPT !.phase = "domain", !.domain = 0,
                              !.visits = @ \ {run[d].domain}])
  /\ UNCHANGED <<rows, injected, rootDc, ops, swapped>>

(* A failure anywhere fails the deployment.                                 *)
Finish(d) ==
  /\ run[d].phase = "domain"
  /\ run[d].visits = {}
  /\ Ends(d, IF run[d].failure = "yes" THEN "failed" ELSE "passed")
  /\ UNCHANGED <<rows, injected, rootDc, ops, swapped>>

(* The end of the process, or a database error: what was committed stays.   *)
Abort(d) ==
  /\ run[d].phase \notin Stopped
  /\ Ends(d, "aborted")
  /\ UNCHANGED <<rows, injected, rootDc, ops, swapped>>

-----------------------------------------------------------------------------
Operate(o) ==
  \/ \E v \in Vulns, dm \in Domains : CheckAttach(o, v, dm)
  \/ \E i \in RowIds : OpenRemoval(o, i) \/ ReadOne(o, i)
  \/ InsertRow(o) \/ ConfirmRemoval(o)
  \/ RunOne(o) \/ RecordOne(o) \/ GiveUp(o)

Push(d) ==
  \/ Begin(d) \/ EnterDomain(d) \/ ReadRow(d) \/ RunScript(d)
  \/ RecordRow(d) \/ LeaveDomain(d) \/ Finish(d)

Next ==
  \/ \E o \in Operators : Operate(o)
  \/ \E d \in Deploys : Push(d) \/ Abort(d)

Spec == Init /\ [][Next]_vars

(* The project is deployed again and again, and a script is given a bounded *)
(* time; nothing is asked of the operators.                                 *)
FairSpec == Spec /\ \A d \in Deploys : WF_vars(Push(d))

-----------------------------------------------------------------------------
(* A row that says APPLIED was applied somewhere in the project, although   *)
(* scripts run for minutes between the read of a row and the write of its   *)
(* status, several requests write the one status, and rows are removed      *)
(* meanwhile; but for a row that got the id of a removed one while a push   *)
(* still knew it, and whose status was written in its place.                *)
AppliedIsReal ==
  \A i \in RowsWith(rows, {"applied"}) \ swapped :
    \E dm \in Domains : <<dm, rows[i].vuln>> \in injected

(* A push passes only when each row it listed is no longer pending and its  *)
(* vulnerability is in every domain of the project, whatever the others did *)
(* to the rows meanwhile, with the same exception.                          *)
PassedIsInjected ==
  [][\A d \in Deploys :
       run[d].phase \notin Stopped /\ run'[d].phase = "passed" =>
         \A i \in (run[d].listed \cap DOMAIN rows) \ swapped :
           /\ rows[i].status # "pending"
           /\ \A dm \in Domains : <<dm, rows[i].vuln>> \in injected]_vars

(* An attached vulnerability does not stay pending for ever, when some      *)
(* domain is reachable, every domain has a controller and the pushes stop   *)
(* being aborted: a domain that cannot be reached does not keep the others  *)
(* from being served.                                                       *)
Waits(i) ==
  /\ i \in RowsWith(rows, {"pending"})
  /\ \A dm \in Domains : rootDc[dm] # "missing"
  /\ \E dm \in Domains : rootDc[dm] = "ok"


-----------------------------------------------------------------------------
(* Why a row that says APPLIED was applied, in a form every step preserves. *)

(* A push under way knows its rows by what they are.                        *)
ReadsStand ==
  /\ \A d \in Deploys : run[d].phase \notin Stopped =>
       /\ run[d].toApply \subseteq run[d].listed
       /\ \A i \in (run[d].listed \cap DOMAIN rows) \ swapped :
            run[d].held[i] # Expired => run[d].held[i].vuln = rows[i].vuln
  /\ \A o \in Operators :
       ops[o].doing \in {"script", "record"}
       /\ ops[o].row \in DOMAIN rows \ swapped =>
         ops[o].seen.vuln = rows[ops[o].row].vuln

(* A script that reported success did its work.                             *)
DoneIsReal ==
  /\ \A d \in Deploys :
       run[d].phase \in {"row", "script", "record"} => run[d].domain \in Domains
  /\ \A d \in Deploys : run[d].phase \in {"script", "record"} =>
       \A i \in run[d].toApply : IsFirst(i, run[d].toApply) =>
         /\ run[d].held[i] # Expired
         /\ run[d].phase = "record" /\ run[d].outcome = "done" =>
              \E dm \in Domains : <<dm, run[d].held[i].vuln>> \in injected
  /\ \A o \in Operators :
       /\ ops[o].doing \in {"attach", "script", "record"} => ops[o].seen # Expired
       /\ ops[o].doing = "attach" => ops[o].seen.status = "pending"
       /\ ops[o].doing = "record" /\ ops[o].outcome = "done" =>
            \E dm \in Domains : <<dm, ops[o].seen.vuln>> \in injected

(* The inductive invariant of the module VulnerabilityPushProofs.           *)
AppliedInv ==
  /\ TypeOK
  /\ ReadsStand
  /\ DoneIsReal
  /\ AppliedIsReal

-----------------------------------------------------------------------------
(* The status of a vulnerability attached to a domain tells its state, the  *)
(* documentation says: when no push is under way and the last one was not   *)
(* interrupted, a row that says APPLIED was applied in its own domain.  The *)
(* code does not keep this.                                                 *)
Quiet ==
  /\ \A d \in Deploys : run[d].phase \in Stopped \ {"aborted"}
  /\ \A o \in Operators : ops[o].doing \notin {"script", "record"}

AppliedInItsDomain ==
  Quiet => \A i \in RowsWith(rows, {"applied"}) :
             <<rows[i].domain, rows[i].vuln>> \in injected

=============================================================================
