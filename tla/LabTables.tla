------------------------------ MODULE LabTables ------------------------------
(***************************************************************************)
(* The structure of the labs: projects, their forests, the domains of a    *)
(* forest, the servers of a domain.  A row is created by a request that    *)
(* looks its parent up and inserts the row later; deleting a project reads *)
(* what is below it, and later deletes what it has read.  SQLite checks no *)
(* foreign key here, and gives the ids of deleted rows out again.          *)
(*                                                                         *)
(* An id has one parent in the model, so that a row whose parent is gone   *)
(* is the child of the next row to get its parent's id.  Each row bears    *)
(* the lab it was made for.                                                *)
(***************************************************************************)
EXTENDS Naturals

CONSTANTS
  Nodes,      \* ids of projects, forests, domains and servers
  Kind,       \* the table of each
  Parent,     \* the parent of each, a project's is itself
  NoNode,
  Requests,   \* requests that may be under way at a time
  MaxLabs     \* bound: projects created

Labs  == 1..MaxLabs   \* one for each project created
NoLab == 0

Kinds == {"project", "forest", "domain", "server"}

KindOfParent ==
  [k \in Kinds |-> CASE k = "project" -> "project" [] k = "forest" -> "project"
                      [] k = "domain" -> "forest"   [] k = "server" -> "domain"]

ASSUME LabAssumption ==
  /\ NoNode \notin Nodes
  /\ Kind \in [Nodes -> Kinds]
  /\ Parent \in [Nodes -> Nodes]
  /\ \A n \in Nodes : Kind[Parent[n]] = KindOfParent[Kind[n]]
  /\ \A n \in Nodes : Kind[n] = "project" => Parent[n] = n
  /\ MaxLabs \in Nat

VARIABLES
  rows,        \* the lab of each row, NoLab for an id that is free
  requests,    \* see Request
  labs,        \* projects created so far
  overlapped   \* history: rows inserted under a deletion of their parent that had
               \* read its rows already, or after one, on a lookup from before

tables == <<rows, requests, labs, overlapped>>

Row == [Nodes -> Labs \cup {NoLab}]

Request ==
  [phase : {"idle", "sent", "checked", "done", "refused"},
   op    : {"create", "delete"},
   node  : Nodes \cup {NoNode},
   lab   : Labs \cup {NoLab},           \* of the parent it found
   gone  : SUBSET Nodes,                \* the rows it is to delete
   from  : {"dialog", "page", "left", "other"}]
           \* where its answer goes: to a dialog or a page of the browser, to the
           \* browser with the page left, or to another client

Idle == [phase |-> "idle", op |-> "create", node |-> NoNode, lab |-> NoLab,
         gone |-> {}, from |-> "other"]

TablesOK ==
  /\ rows \in Row
  /\ requests \in [Requests -> Request]
  /\ labs \in 0..MaxLabs
  /\ overlapped \subseteq Nodes

TablesInit ==
  /\ rows = [n \in Nodes |-> NoLab]
  /\ requests = [r \in Requests |-> Idle]
  /\ labs = 0
  /\ overlapped = {}

-----------------------------------------------------------------------------
Exists(n) == rows[n] # NoLab

Becomes(r, local) == requests' = [requests EXCEPT ![r] = local]

Send(r, op, n, from) ==
  /\ requests[r].phase = "idle"
  /\ Becomes(r, [Idle EXCEPT !.phase = "sent", !.op = op, !.node = n, !.from = from])

(* The request is answered; the answer to another client ends it.           *)
Answers(r, phase) ==
  Becomes(r, IF requests[r].from = "other" THEN Idle
             ELSE [requests[r] EXCEPT !.phase = phase, !.lab = NoLab, !.gone = {}])

(* The rows a project takes along, table by table.                          *)
ChildrenOf(N) == {n \in Nodes : Exists(n) /\ Parent[n] \in N /\ n # Parent[n]}

Forests(p) == ChildrenOf({p})
Domains(p) == ChildrenOf(Forests(p))
Servers(p) == ChildrenOf(Domains(p))
Below(p)   == Forests(p) \cup Domains(p) \cup Servers(p)

(* create_project: no parent to look up.                                    *)
CreateProject(r) ==
  LET o == requests[r]
  IN  /\ o.phase = "sent" /\ o.op = "create" /\ Kind[o.node] = "project"
      /\ labs < MaxLabs
      /\ ~Exists(o.node)
      /\ rows' = [rows EXCEPT ![o.node] = labs + 1]
      /\ labs' = labs + 1
      /\ Answers(r, "done")
      /\ UNCHANGED overlapped

(* create_forest, create_domain and create_server look the parent up.       *)
LookUpParent(r) ==
  LET o == requests[r]
      l == rows[Parent[o.node]]
  IN  /\ o.phase = "sent" /\ o.op = "create" /\ Kind[o.node] # "project"
      /\ IF l = NoLab THEN Answers(r, "refused")
         ELSE Becomes(r, [o EXCEPT !.phase = "checked", !.lab = l])
      /\ UNCHANGED <<rows, labs, overlapped>>

(* A deletion of the parent of n has read its rows, or came in before: the  *)
(* parent is no longer of the lab l it was found in.                        *)
Overlaps(n, l) ==
  \/ rows[Parent[n]] # l
  \/ \E q \in Requests : Parent[n] \in requests[q].gone

(* ... and insert the row, under an id that is free.                        *)
Insert(r) ==
  LET o == requests[r]
  IN  /\ o.phase = "checked" /\ o.op = "create"
      /\ IF Exists(o.node)
         THEN Answers(r, "refused") /\ UNCHANGED <<rows, overlapped>>
         ELSE /\ Answers(r, "done")
              /\ rows' = [rows EXCEPT ![o.node] = o.lab]
              /\ overlapped' = IF Overlaps(o.node, o.lab)
                               THEN overlapped \cup {o.node} ELSE overlapped
      /\ UNCHANGED labs

(* Faulty variant: the servers of a deleted domain stay.                    *)
ReadCascade_KeepsServers(r) ==
  LET o == requests[r]
      p == o.node
  IN  /\ o.phase = "sent" /\ o.op = "delete"
      /\ IF Exists(p)
         THEN Becomes(r, [o EXCEPT !.phase = "checked",
                                   !.gone = {p} \cup Forests(p) \cup Domains(p)])
         ELSE Answers(r, "refused")
      /\ UNCHANGED <<rows, labs, overlapped>>

(* delete_project reads what the cascades of the models take along ...      *)
ReadCascade(r) ==
  LET o == requests[r]
      p == o.node
  IN  /\ o.phase = "sent" /\ o.op = "delete"
      /\ IF Exists(p)
         THEN Becomes(r, [o EXCEPT !.phase = "checked", !.gone = {p} \cup Below(p)])
         ELSE Answers(r, "refused")
      /\ UNCHANGED <<rows, labs, overlapped>>

(* ... and deletes the rows with these ids, be they others by now.          *)
DeleteProject(r) ==
  LET o == requests[r]
  IN  /\ o.phase = "checked" /\ o.op = "delete"
      /\ rows' = [n \in Nodes |-> IF n \in o.gone THEN NoLab ELSE rows[n]]
      /\ overlapped' = overlapped \ o.gone
      /\ Answers(r, "done")
      /\ UNCHANGED labs

(* The service is restarted: the requests break off.                        *)
BreakOff(r) ==
  /\ requests[r].phase \in {"sent", "checked"}
  /\ Answers(r, "refused")
  /\ UNCHANGED <<rows, labs, overlapped>>

Serve(r) ==
  \/ CreateProject(r) \/ LookUpParent(r) \/ Insert(r)
  \/ ReadCascade(r) \/ DeleteProject(r) \/ BreakOff(r)

(* Another client sends a request.                                          *)
SendElsewhere(r) ==
  /\ \E n \in Nodes :
       \/ Send(r, "create", n, "other")
       \/ Kind[n] = "project" /\ Send(r, "delete", n, "other")
  /\ UNCHANGED <<rows, labs, overlapped>>

(* What GET /projects/{id} answers: the rows it reaches from the project.   *)
Answer(p) ==
  {p} \cup Below(p)

-----------------------------------------------------------------------------
(* A row belongs to the lab of its parent, although ids are given out       *)
(* again: no row of a deleted lab turns up in another one, but for those    *)
(* whose creation overlapped the deletion.                                  *)
RowsAreOwn ==
  \A n \in Nodes \ overlapped :
    Exists(n) /\ Kind[n] # "project" => rows[n] = rows[Parent[n]]

(* What the proof of it needs besides: a request is about an id, only       *)
(* projects are deleted, and a deletion leaves no row behind whose parent   *)
(* it takes, but one that overlapped it.                                    *)
RequestsAreApt ==
  \A r \in Requests :
    LET o == requests[r]
    IN  /\ o.phase # "idle" => o.node \in Nodes
        /\ o.phase # "idle" /\ o.op = "delete" => Kind[o.node] = "project"
        /\ o.phase = "checked" /\ o.op = "create" =>
             o.lab # NoLab /\ Kind[o.node] # "project"
        /\ \A n \in Nodes \ overlapped :
             Exists(n) /\ Kind[n] # "project" /\ Parent[n] \in o.gone => n \in o.gone

TablesInv == TablesOK /\ RowsAreOwn /\ RequestsAreApt

=============================================================================
