------------------------- MODULE ProjectScreenProofs -------------------------
(***************************************************************************)
(* Proofs about ProjectScreen and the modules it composes, for any ids in  *)
(* the tables and any number of requests and projects.                     *)
(***************************************************************************)
EXTENDS ProjectScreen, TLAPS

-----------------------------------------------------------------------------
(* The tables.                                                              *)

(* The parent of a node is of the table above, that of a project the        *)
(* project.                                                                 *)
LEMMA ParentKinds ==
  ASSUME NEW n \in Nodes
  PROVE  /\ Parent[n] \in Nodes /\ Kind[n] \in Kinds /\ Kind[Parent[n]] \in Kinds
         /\ Kind[n] = "project" => Parent[n] = n
         /\ Kind[n] = "forest" => Kind[Parent[n]] = "project"
         /\ Kind[n] = "domain" => Kind[Parent[n]] = "forest"
         /\ Kind[n] = "server" => Kind[Parent[n]] = "domain"
<1>1. /\ KindOfParent["project"] = "project" /\ KindOfParent["forest"] = "project"
      /\ KindOfParent["domain"] = "forest" /\ KindOfParent["server"] = "domain"
  BY DEF KindOfParent, Kinds
<1> QED
  BY <1>1, LabAssumption

(* What a project takes along is of the next table each time.               *)
LEMMA Levels ==
  ASSUME NEW p \in Nodes, Kind[p] = "project"
  PROVE  /\ \A n \in Forests(p) : n \in Nodes /\ Kind[n] = "forest"
         /\ \A n \in Domains(p) : n \in Nodes /\ Kind[n] = "domain"
         /\ \A n \in Servers(p) : n \in Nodes /\ Kind[n] = "server"
<1>1. \A n \in Forests(p) : n \in Nodes /\ Kind[n] = "forest"
  BY ParentKinds DEF Forests, ChildrenOf, Kinds
<1>2. \A n \in Domains(p) : n \in Nodes /\ Kind[n] = "domain"
  BY <1>1, ParentKinds DEF Domains, ChildrenOf, Kinds
<1>3. \A n \in Servers(p) : n \in Nodes /\ Kind[n] = "server"
  BY <1>2, ParentKinds DEF Servers, ChildrenOf, Kinds
<1> QED
  BY <1>1, <1>2, <1>3

(* No row stays behind whose parent goes.                                   *)
LEMMA NoneStaysBehind ==
  ASSUME NEW p \in Nodes, Kind[p] = "project",
         NEW n \in Nodes, Exists(n), Parent[n] \in {p} \cup Below(p)
  PROVE  n \in {p} \cup Below(p)
<1>1. CASE Kind[n] = "project"
  BY <1>1, ParentKinds
<1>2. CASE Kind[n] = "forest"
  <2>1. Parent[n] = p /\ n # p
    BY <1>2, ParentKinds, Levels DEF Below
  <2> QED
    BY <2>1 DEF Below, Forests, ChildrenOf
<1>3. CASE Kind[n] = "domain"
  <2>1. Parent[n] \in Forests(p) /\ n # Parent[n]
    BY <1>3, ParentKinds, Levels DEF Below
  <2> QED
    BY <2>1 DEF Below, Domains, ChildrenOf
<1>4. CASE Kind[n] = "server"
  <2>1. Parent[n] \in Domains(p) /\ n # Parent[n]
    BY <1>4, ParentKinds, Levels DEF Below
  <2> QED
    BY <2>1 DEF Below, Servers, ChildrenOf
<1> QED
  BY <1>1, <1>2, <1>3, <1>4, ParentKinds DEF Kinds

(* One request gets a new local state, the others keep theirs.              *)
LEMMA BecomesType ==
  ASSUME requests \in [Requests -> Request], NEW r \in Requests, NEW local \in Request,
         Becomes(r, local)
  PROVE  /\ requests' \in [Requests -> Request]
         /\ requests'[r] = local
         /\ \A q \in Requests \ {r} : requests'[q] = requests[q]
  BY DEF Becomes

(* What the invariant says of a request by itself ...                       *)
WellFormed(o) ==
  /\ o.phase # "idle" => o.node \in Nodes
  /\ o.phase # "idle" /\ o.op = "delete" => Kind[o.node] = "project"
  /\ o.phase = "checked" /\ o.op = "create" => o.lab # NoLab /\ Kind[o.node] # "project"

(* ... and of the rows it is to delete.                                     *)
Closing(gone, row, late) ==
  \A n \in Nodes \ late :
    row[n] # NoLab /\ Kind[n] # "project" /\ Parent[n] \in gone => n \in gone

(* That is all it says of requests ...                                      *)
LEMMA AptIsBoth ==
  RequestsAreApt <=>
    \A r \in Requests : /\ WellFormed(requests[r])
                        /\ Closing(requests[r].gone, rows, overlapped)
  BY DEF RequestsAreApt, WellFormed, Closing, Exists

(* ... also after a step.                                                   *)
LEMMA BothAreApt ==
  ASSUME \A r \in Requests : /\ WellFormed(requests'[r])
                             /\ Closing(requests'[r].gone, rows', overlapped')
  PROVE  RequestsAreApt'
  BY DEF RequestsAreApt, WellFormed, Closing, Exists

(* A request that is to delete nothing leaves nothing behind.               *)
LEMMA NothingCloses ==
  ASSUME NEW row, NEW late
  PROVE  Closing({}, row, late)
  BY DEF Closing

(* A request that is over stands for nothing.                               *)
LEMMA IdleIsApt == Idle \in Request /\ WellFormed(Idle) /\ Idle.gone = {}
  BY DEF WellFormed, Idle, Request, Labs, NoLab

(* A request after a step that reads nothing.                               *)
StaysApt(old, new) ==
  /\ new \in Request
  /\ WellFormed(new)
  /\ new.gone = old.gone \/ new.gone = {}

(* A step that leaves the tables alone, and after which each request stands *)
(* as it did, keeps the invariant of the tables.                            *)
LEMMA CalmStep ==
  ASSUME TablesInv, UNCHANGED <<rows, labs, overlapped>>,
         requests' = [r \in Requests |-> requests'[r]],
         \A r \in Requests : StaysApt(requests[r], requests'[r])
  PROVE  TablesInv'
<1>1. requests' \in [Requests -> Request]
  BY DEF StaysApt
<1>2. TablesOK'
  BY <1>1 DEF TablesInv, TablesOK
<1>3. RowsAreOwn'
  BY DEF TablesInv, RowsAreOwn, Exists
<1>4. ASSUME NEW r \in Requests
      PROVE  /\ WellFormed(requests'[r])
             /\ Closing(requests'[r].gone, rows', overlapped')
  <2>1. Closing(requests[r].gone, rows, overlapped)
    BY AptIsBoth DEF TablesInv
  <2> QED
    BY <2>1, NothingCloses DEF StaysApt
<1> QED
  BY <1>2, <1>3, <1>4, BothAreApt DEF TablesInv

(* A step of one request keeps the invariant of the tables if it leaves the *)
(* rows in order, itself and for the deletions that are under way.          *)
LEMMA OneGoesOn ==
  ASSUME TablesInv, NEW r \in Requests, NEW local \in Request, WellFormed(local),
         Becomes(r, local),
         rows' \in Row, labs' \in 0..MaxLabs, overlapped' \subseteq Nodes, RowsAreOwn',
         Closing(local.gone, rows', overlapped'),
         \A q \in Requests \ {r} : Closing(requests[q].gone, rows', overlapped')
  PROVE  TablesInv'
<1>1. /\ requests' \in [Requests -> Request]
      /\ requests'[r] = local
      /\ \A q \in Requests \ {r} : requests'[q] = requests[q]
  BY BecomesType DEF TablesInv, TablesOK
<1>2. TablesOK'
  BY <1>1 DEF TablesOK
<1>3. \A q \in Requests : WellFormed(requests[q])
  BY AptIsBoth DEF TablesInv
<1>4. \A q \in Requests : /\ WellFormed(requests'[q])
                          /\ Closing(requests'[q].gone, rows', overlapped')
  BY <1>1, <1>3
<1>5. RequestsAreApt'
  BY <1>4, BothAreApt
<1> QED
  BY <1>2, <1>5 DEF TablesInv

(* One that leaves the rows alone keeps it, if its own deletion is in order.*)
LEMMA OneGoesOnAlone ==
  ASSUME TablesInv, UNCHANGED <<rows, labs, overlapped>>,
         NEW r \in Requests, NEW local \in Request, WellFormed(local),
         Becomes(r, local), Closing(local.gone, rows, overlapped)
  PROVE  TablesInv'
<1>1. /\ rows' \in Row /\ labs' \in 0..MaxLabs /\ overlapped' \subseteq Nodes
      /\ RowsAreOwn'
  BY DEF TablesInv, TablesOK, RowsAreOwn, Exists
<1>2. Closing(local.gone, rows', overlapped')
  OBVIOUS
<1>3. \A q \in Requests : Closing(requests[q].gone, rows', overlapped')
  BY AptIsBoth DEF TablesInv
<1> QED
  BY <1>1, <1>2, <1>3, OneGoesOn

(* A request that is answered is well-formed, and deletes nothing.          *)
LEMMA AnsweredRequest ==
  ASSUME TablesInv, NEW r \in Requests, NEW phase \in {"done", "refused"},
         requests[r].phase # "idle", Answers(r, phase)
  PROVE  \E local \in Request :
           Becomes(r, local) /\ WellFormed(local) /\ local.gone = {}
<1> DEFINE o     == requests[r]
           local == [o EXCEPT !.phase = phase, !.lab = NoLab, !.gone = {}]
<1>1. o \in Request /\ WellFormed(o)
  BY AptIsBoth DEF TablesInv, TablesOK
<1>2. CASE o.from = "other"
  BY <1>2, IdleIsApt DEF Answers
<1>3. CASE o.from # "other"
  <2>1. local \in Request /\ local.gone = {} /\ local.phase = phase
        /\ local.node = o.node /\ local.op = o.op
    BY <1>1 DEF Request
  <2>2. WellFormed(local)
    BY <1>1, <2>1 DEF WellFormed
  <2>3. Becomes(r, local)
    BY <1>3 DEF Answers
  <2> QED
    BY <2>1, <2>2, <2>3
<1> QED
  BY <1>2, <1>3

(* Sending a request keeps the invariant of the tables ...                  *)
LEMMA SendStep ==
  ASSUME TablesInv, UNCHANGED <<rows, labs, overlapped>>,
         NEW r \in Requests, NEW n \in Nodes, NEW op \in {"create", "delete"},
         NEW from \in {"dialog", "page", "left", "other"},
         op = "delete" => Kind[n] = "project",
         Send(r, op, n, from)
  PROVE  TablesInv'
<1> DEFINE local == [Idle EXCEPT !.phase = "sent", !.op = op, !.node = n, !.from = from]
<1>1. local \in Request /\ WellFormed(local) /\ local.gone = {}
  BY DEF WellFormed, Idle, Request, Labs, NoLab
<1>2. Becomes(r, local)
  BY DEF Send
<1>3. Closing(local.gone, rows, overlapped)
  BY <1>1, NothingCloses
<1> HIDE DEF local
<1> QED
  BY <1>1, <1>2, <1>3, OneGoesOnAlone

(* Who waits for an answer has nothing to do with the tables.               *)
LEMMA ReaddressStep ==
  ASSUME TablesInv, UNCHANGED <<rows, labs, overlapped>>,
         requests' = [r \in Requests |-> requests'[r]],
         \A r \in Requests :
           \/ requests'[r] = requests[r]
           \/ \E from \in {"dialog", "page", "left", "other"} :
                requests'[r] = [requests[r] EXCEPT !.from = from]
  PROVE  TablesInv'
<1>1. ASSUME NEW r \in Requests
      PROVE  StaysApt(requests[r], requests'[r])
  <2>1. requests[r] \in Request /\ WellFormed(requests[r])
    BY AptIsBoth DEF TablesInv, TablesOK
  <2>2. CASE requests'[r] = requests[r]
    BY <2>1, <2>2 DEF StaysApt
  <2>3. ASSUME NEW from \in {"dialog", "page", "left", "other"},
               requests'[r] = [requests[r] EXCEPT !.from = from]
        PROVE  StaysApt(requests[r], requests'[r])
    <3>1. /\ requests'[r] \in Request
          /\ requests'[r].phase = requests[r].phase /\ requests'[r].op = requests[r].op
          /\ requests'[r].node = requests[r].node /\ requests'[r].lab = requests[r].lab
          /\ requests'[r].gone = requests[r].gone
      BY <2>1, <2>3 DEF Request
    <3> QED
      BY <2>1, <3>1 DEF StaysApt, WellFormed
  <2> QED
    BY <2>2, <2>3
<1> QED
  BY <1>1, CalmStep

-----------------------------------------------------------------------------
(* The requests, one lemma per step of the service.                         *)

(* ... so does the creation of a project ...                                *)
LEMMA CreateProjectStep ==
  ASSUME TablesInv, NEW r \in Requests, CreateProject(r)
  PROVE  TablesInv'
<1> DEFINE o == requests[r]
           p == o.node
<1>1. /\ p \in Nodes /\ rows[p] = NoLab /\ Kind[p] = "project"
      /\ rows' = [rows EXCEPT ![p] = labs + 1] /\ labs' = labs + 1
      /\ labs + 1 \in Labs /\ labs + 1 # NoLab /\ UNCHANGED overlapped
      /\ Answers(r, "done") /\ o.phase # "idle"
  BY LabAssumption
     DEF CreateProject, TablesInv, TablesOK, RequestsAreApt, Exists, Labs, NoLab
<1>2. PICK local \in Request :
        Becomes(r, local) /\ WellFormed(local) /\ local.gone = {}
  BY <1>1, AnsweredRequest
<1>3. /\ rows \in Row /\ rows' \in Row
      /\ \A n \in Nodes \ {p} : rows'[n] = rows[n]
  BY <1>1 DEF TablesInv, TablesOK, Row
<1>4. labs' \in 0..MaxLabs /\ overlapped' \subseteq Nodes
  BY <1>1, LabAssumption DEF TablesInv, TablesOK, Labs
<1>5. RowsAreOwn'
  <2> SUFFICES ASSUME NEW n \in Nodes, n \notin overlapped, rows'[n] # NoLab,
                      Kind[n] # "project"
               PROVE  rows'[n] = rows'[Parent[n]]
    BY <1>1 DEF RowsAreOwn, Exists
  <2>1. n # p
    BY <1>1
  <2>2. rows[n] # NoLab /\ rows[n] = rows[Parent[n]]
    BY <1>3, <2>1 DEF TablesInv, RowsAreOwn, Exists
  <2> QED
    BY <1>1, <1>3, <2>1, <2>2, ParentKinds
<1>6. ASSUME NEW q \in Requests
      PROVE  Closing(requests[q].gone, rows', overlapped')
  <2>1. Closing(requests[q].gone, rows, overlapped)
    BY AptIsBoth DEF TablesInv
  <2> QED
    BY <1>1, <1>3, <2>1 DEF Closing
<1>7. Closing(local.gone, rows', overlapped')
  BY <1>2, NothingCloses
<1> QED
  BY <1>2, <1>3, <1>4, <1>5, <1>6, <1>7, OneGoesOn

(* ... an answer that changes no row ...                                    *)
LEMMA AnswerStep ==
  ASSUME TablesInv, NEW r \in Requests, NEW phase \in {"done", "refused"},
         requests[r].phase # "idle", Answers(r, phase),
         UNCHANGED <<rows, labs, overlapped>>
  PROVE  TablesInv'
<1>1. PICK local \in Request :
        Becomes(r, local) /\ WellFormed(local) /\ local.gone = {}
  BY AnsweredRequest
<1>2. Closing(local.gone, rows, overlapped)
  BY <1>1, NothingCloses
<1> QED
  BY <1>1, <1>2, OneGoesOnAlone

(* ... the read of a parent ...                                             *)
LEMMA LookUpParentStep ==
  ASSUME TablesInv, NEW r \in Requests, LookUpParent(r)
  PROVE  TablesInv'
<1> DEFINE o == requests[r]
           l == rows[Parent[o.node]]
           local == [o EXCEPT !.phase = "checked", !.lab = l]
<1>1. /\ o \in Request /\ o.node \in Nodes /\ o.op = "create" /\ o.phase # "idle"
      /\ Kind[o.node] # "project"
      /\ Closing(o.gone, rows, overlapped)
      /\ UNCHANGED <<rows, labs, overlapped>>
  BY AptIsBoth DEF LookUpParent, TablesInv, TablesOK, RequestsAreApt
<1>2. l \in Labs \cup {NoLab}
  BY <1>1, ParentKinds DEF TablesInv, TablesOK, Row
<1>3. CASE l = NoLab
  BY <1>1, <1>3, AnswerStep DEF LookUpParent
<1>4. CASE l # NoLab
  <2>1. /\ local \in Request /\ local.gone = o.gone /\ local.lab = l
        /\ local.node = o.node /\ local.op = "create"
    BY <1>1, <1>2 DEF Request
  <2>2. WellFormed(local)
    BY <1>1, <1>4, <2>1 DEF WellFormed
  <2>3. Becomes(r, local) /\ Closing(local.gone, rows, overlapped)
    BY <1>1, <1>4, <2>1 DEF LookUpParent
  <2> HIDE DEF local
  <2> QED
    BY <1>1, <2>1, <2>2, <2>3, OneGoesOnAlone
<1> QED
  BY <1>3, <1>4

(* ... the insertion below it ...                                           *)
LEMMA InsertStep ==
  ASSUME TablesInv, NEW r \in Requests, Insert(r)
  PROVE  TablesInv'
<1> DEFINE o == requests[r]
           n == o.node
<1>1. /\ o \in Request /\ n \in Nodes /\ o.lab \in Labs /\ o.lab # NoLab
      /\ Kind[n] # "project" /\ o.phase # "idle"
      /\ UNCHANGED labs
  BY DEF Insert, TablesInv, TablesOK, RequestsAreApt, Request
<1>2. CASE Exists(n)
  BY <1>1, <1>2, AnswerStep DEF Insert
<1>3. CASE ~Exists(n)
  <2>1. /\ Answers(r, "done")
        /\ rows' = [rows EXCEPT ![n] = o.lab]
        /\ overlapped' = IF Overlaps(n, o.lab) THEN overlapped \cup {n} ELSE overlapped
    BY <1>3 DEF Insert
  <2>2. PICK local \in Request :
          Becomes(r, local) /\ WellFormed(local) /\ local.gone = {}
    BY <1>1, <2>1, AnsweredRequest
  <2>3. /\ rows \in Row /\ rows' \in Row /\ rows[n] = NoLab /\ rows'[n] = o.lab
        /\ \A m \in Nodes \ {n} : rows'[m] = rows[m]
    BY <1>1, <1>3, <2>1 DEF TablesInv, TablesOK, Row, Exists
  <2>4. /\ labs' \in 0..MaxLabs /\ overlapped' \subseteq Nodes
        /\ overlapped \subseteq overlapped'
    BY <1>1, <2>1 DEF TablesInv, TablesOK
  <2>5. n \notin overlapped' =>
          /\ rows[Parent[n]] = o.lab
          /\ \A q \in Requests : Parent[n] \notin requests[q].gone
    BY <2>1 DEF Overlaps
  <2>6. RowsAreOwn'
    <3> SUFFICES ASSUME NEW m \in Nodes, m \notin overlapped', rows'[m] # NoLab,
                        Kind[m] # "project"
                 PROVE  rows'[m] = rows'[Parent[m]]
      BY DEF RowsAreOwn, Exists
    <3>1. CASE m = n
      <4>1. Parent[n] \in Nodes /\ Parent[n] # n
        BY <1>1, ParentKinds DEF Kinds
      <4> QED
        BY <2>3, <2>5, <3>1, <4>1
    <3>2. CASE m # n
      <4>1. rows[m] # NoLab /\ rows[m] = rows[Parent[m]]
        BY <2>3, <2>4, <3>2 DEF TablesInv, RowsAreOwn, Exists
      <4>2. Parent[m] # n
        BY <2>3, <4>1
      <4> QED
        BY <2>3, <3>2, <4>1, <4>2, ParentKinds
    <3> QED
      BY <3>1, <3>2
  <2>7. ASSUME NEW q \in Requests
        PROVE  Closing(requests[q].gone, rows', overlapped')
    <3>1. Closing(requests[q].gone, rows, overlapped)
      BY AptIsBoth DEF TablesInv
    <3> QED
      BY <2>3, <2>4, <2>5, <3>1 DEF Closing
  <2>8. Closing(local.gone, rows', overlapped')
    BY <2>2, NothingCloses
  <2> QED
    BY <2>2, <2>3, <2>4, <2>6, <2>7, <2>8, OneGoesOn
<1> QED
  BY <1>2, <1>3

(* ... the read of what a project takes along ...                           *)
LEMMA ReadCascadeStep ==
  ASSUME TablesInv, NEW r \in Requests, ReadCascade(r)
  PROVE  TablesInv'
<1> DEFINE o == requests[r]
           p == o.node
           local == [o EXCEPT !.phase = "checked", !.gone = {p} \cup Below(p)]
<1>1. /\ o \in Request /\ p \in Nodes /\ Kind[p] = "project" /\ o.op = "delete"
      /\ o.phase # "idle"
      /\ UNCHANGED <<rows, labs, overlapped>>
  BY DEF ReadCascade, TablesInv, TablesOK, RequestsAreApt
<1>2. CASE ~Exists(p)
  BY <1>1, <1>2, AnswerStep DEF ReadCascade
<1>3. CASE Exists(p)
  <2>1. {p} \cup Below(p) \subseteq Nodes
    BY <1>1 DEF Below, Forests, Domains, Servers, ChildrenOf
  <2>2. /\ local \in Request /\ local.gone = {p} \cup Below(p)
        /\ local.node = p /\ local.op = "delete"
    BY <1>1, <2>1 DEF Request
  <2>3. WellFormed(local)
    BY <1>1, <2>2 DEF WellFormed
  <2>4. Closing(local.gone, rows, overlapped)
    BY <1>1, <2>2, NoneStaysBehind DEF Closing, Exists
  <2>5. Becomes(r, local)
    BY <1>3 DEF ReadCascade
  <2> HIDE DEF local
  <2> QED
    BY <1>1, <2>2, <2>3, <2>4, <2>5, OneGoesOnAlone
<1> QED
  BY <1>2, <1>3

(* ... its deletion with all that was read ...                              *)
LEMMA DeleteProjectStep ==
  ASSUME TablesInv, NEW r \in Requests, DeleteProject(r)
  PROVE  TablesInv'
<1> DEFINE gone == requests[r].gone
<1>1. /\ \A n \in Nodes : rows'[n] = IF n \in gone THEN NoLab ELSE rows[n]
      /\ overlapped' = overlapped \ gone
      /\ Answers(r, "done") /\ requests[r].phase # "idle"
      /\ UNCHANGED labs
  BY DEF DeleteProject
<1>2. PICK local \in Request :
        Becomes(r, local) /\ WellFormed(local) /\ local.gone = {}
  BY <1>1, AnsweredRequest
<1>3. rows \in Row /\ rows' \in Row
  BY DEF DeleteProject, TablesInv, TablesOK, Row
<1>4. labs' \in 0..MaxLabs /\ overlapped' \subseteq Nodes
  BY <1>1 DEF TablesInv, TablesOK
<1>5. \A q \in Requests : Closing(requests[q].gone, rows, overlapped)
  BY AptIsBoth DEF TablesInv
<1>6. RowsAreOwn'
  <2> SUFFICES ASSUME NEW n \in Nodes, n \notin overlapped', rows'[n] # NoLab,
                      Kind[n] # "project"
               PROVE  rows'[n] = rows'[Parent[n]]
    BY DEF RowsAreOwn, Exists
  <2>1. n \notin gone /\ rows'[n] = rows[n] /\ rows[n] # NoLab
    BY <1>1
  <2>2. n \notin overlapped
    BY <1>1, <2>1
  <2>3. Parent[n] \notin gone
    BY <1>5, <2>1, <2>2 DEF Closing
  <2>4. rows[n] = rows[Parent[n]]
    BY <2>1, <2>2 DEF TablesInv, RowsAreOwn, Exists
  <2> QED
    BY <1>1, <2>1, <2>3, <2>4, ParentKinds
<1>7. ASSUME NEW q \in Requests
      PROVE  Closing(requests[q].gone, rows', overlapped')
  <2> SUFFICES ASSUME NEW n \in Nodes, n \notin overlapped', rows'[n] # NoLab,
                      Kind[n] # "project", Parent[n] \in requests[q].gone
               PROVE  n \in requests[q].gone
    BY DEF Closing
  <2>1. n \notin gone /\ rows[n] # NoLab
    BY <1>1
  <2>2. n \notin overlapped
    BY <1>1, <2>1
  <2> QED
    BY <1>5, <2>1, <2>2 DEF Closing
<1>8. Closing(local.gone, rows', overlapped')
  BY <1>2, NothingCloses
<1> QED
  BY <1>2, <1>3, <1>4, <1>6, <1>7, <1>8, OneGoesOn

(* ... whatever request is served, or breaks off ...                        *)
LEMMA ServeStep ==
  ASSUME TablesInv, NEW r \in Requests, Serve(r)
  PROVE  TablesInv'
<1>1. CASE BreakOff(r)
  BY <1>1, AnswerStep DEF BreakOff
<1> QED
  BY <1>1, CreateProjectStep, LookUpParentStep, InsertStep, ReadCascadeStep,
     DeleteProjectStep DEF Serve

(* ... and what another client sends.                                       *)
LEMMA OtherStep ==
  ASSUME TablesInv, NEW r \in Requests, SendElsewhere(r)
  PROVE  TablesInv'
<1>1. PICK n \in Nodes, op \in {"create", "delete"} :
        Send(r, op, n, "other") /\ (op = "delete" => Kind[n] = "project")
  BY DEF SendElsewhere
<1> QED
  BY <1>1, SendStep DEF SendElsewhere

-----------------------------------------------------------------------------
(* The screen.                                                              *)

ScreenOK ==
  /\ page \in Page
  /\ page.dialog = "none" <=> page.of = NoNode
  /\ data \subseteq Nodes
  /\ data # {} => Project \in data
  /\ DOMAIN names = Shown("domain")
  /\ \A d \in DOMAIN names : names[d] \in Names
  /\ failed \in BOOLEAN
  /\ wanted \in BOOLEAN
  /\ graph \in Graph
  /\ graph.view # "off" <=> On("dashboard")
  /\ graph.timer = "on" => graph.view # "off"
  /\ form \in Form
  /\ form.step # "closed" => On("vulnerabilities")
  /\ form.filled = "yes" => form.domain \in DOMAIN names /\ form.dn = names[form.domain]

(* ScreenInv is about the tables and about the screen ...                   *)
LEMMA InvIsBoth == ScreenInv <=> TablesInv /\ ScreenOK
  BY DEF ScreenInv, TypeOK, TablesInv, ScreenOK

(* ... also after a step.                                                   *)
LEMMA BothAreInv ==
  ASSUME TablesInv', ScreenOK'
  PROVE  ScreenInv'
  BY DEF ScreenInv, TypeOK, TablesInv, ScreenOK

(* The states pages, graphs and forms begin in are of their types.          *)
LEMMA Constants ==
  /\ ListPage \in Page /\ NoPage \in Page /\ NoGraph \in Graph /\ Mounted \in Graph /\ Closed \in Form
  /\ ListPage.at = "list" /\ ListPage.dialog = "none" /\ ListPage.of = NoNode
  /\ NoPage.at = "closed" /\ NoPage.dialog = "none" /\ NoPage.of = NoNode
  /\ NoGraph.view = "off" /\ NoGraph.timer = "off" /\ Mounted.view # "off"
  /\ Closed.step = "closed" /\ Closed.filled = "no"
  /\ Project \in Nodes /\ Kind[Project] = "project"
  /\ NoNode \notin Nodes
  BY LabAssumption, ScreenAssumption
     DEF ListPage, NoPage, Page, Tabs, NoGraph, Mounted, Graph, Closed, Form

(* A step that leaves the screen alone keeps its invariant.                 *)
LEMMA SameScreen ==
  ASSUME ScreenOK, UNCHANGED screen
  PROVE  ScreenOK'
  BY DEF ScreenOK, screen, cache, On, Watched, Loaded, Shown, Among

(* Leaving a page keeps the invariant of the tables: its requests go on.    *)
LEMMA UnattendedStep ==
  ASSUME TablesInv, UNCHANGED <<rows, labs, overlapped>>, requests' = Unattended
  PROVE  TablesInv'
  BY ReaddressStep DEF Unattended

(* So does a step that leaves the tables alone.                             *)
LEMMA SameTables ==
  ASSUME TablesInv, UNCHANGED tables
  PROVE  TablesInv'
<1>1. \A r \in Requests : StaysApt(requests[r], requests[r])
  BY AptIsBoth DEF StaysApt, TablesInv, TablesOK
<1>2. requests' = [r \in Requests |-> requests'[r]]
  BY DEF tables, TablesInv, TablesOK
<1> QED
  BY <1>1, <1>2, CalmStep DEF tables

(* The list of projects.                                                    *)
LEMMA ListStep ==
  ASSUME ScreenInv,
         \/ OpenNewProject \/ OpenProjectDeletion \/ OpenProject \/ BackToList
         \/ \E r \in Requests : SubmitProject(r) \/ SubmitProjectDeletion(r)
  PROVE  ScreenInv'
<1>1. TablesInv /\ ScreenOK
  BY InvIsBoth
<1>2. CASE OpenNewProject \/ OpenProjectDeletion
  <2>1. PICK what \in {"create", "delete"} :
          page' = [page EXCEPT !.dialog = what, !.of = Project]
    BY <1>2 DEF OpenNewProject, OpenProjectDeletion
  <2>2. /\ UNCHANGED <<tables, data, names, failed, wanted, graph, form>>
        /\ page.at = "list"
    BY <1>2 DEF OpenNewProject, OpenProjectDeletion, cache
  <2>3. page' \in Page /\ page'.at = "list" /\ page'.dialog = what /\ page'.of = Project
    BY <1>1, <2>1, <2>2, Constants DEF ScreenOK, Page
  <2>4. ScreenOK'
    BY <1>1, <2>2, <2>3, Constants DEF ScreenOK, On, Watched, Shown, Among
  <2> QED
    BY <1>1, <2>2, <2>4, SameTables, BothAreInv
<1>3. CASE OpenProject
  <2>1. /\ page' = [ListPage EXCEPT !.at = IF failed' THEN "missing" ELSE "detail"]
        /\ IF data' # {} /\ ~failed' THEN Remounted("dashboard") ELSE Unmounted
        /\ requests' = Unattended /\ UNCHANGED <<rows, labs, overlapped>>
    BY <1>3 DEF OpenProject
  <2>2. /\ data' \subseteq Nodes
        /\ data' # {} => Project \in data'
        /\ failed' \in BOOLEAN
    BY <1>1, <1>3 DEF OpenProject, ScreenOK
  <2>3. wanted' \in BOOLEAN
    BY <1>1, <1>3 DEF OpenProject, ScreenOK
  <2>4. DOMAIN names' = Shown("domain")' /\ \A d \in DOMAIN names' : names'[d] \in Names
    <3>1. CASE UNCHANGED <<data, names, failed>>
      BY <1>1, <3>1 DEF ScreenOK, Shown, Among
    <3>2. CASE data' = {} /\ names' = [d \in {} |-> Unfilled]
      BY <3>2 DEF Shown, Among
    <3> QED
      BY <1>3, <3>1, <3>2 DEF OpenProject
  <2>5. /\ page' \in Page /\ page'.at = IF failed' THEN "missing" ELSE "detail"
        /\ page'.tab = "dashboard" /\ page'.dialog = "none" /\ page'.of = NoNode
    BY <2>1, <2>2 DEF ListPage, Page, Tabs
  <2>6. CASE data' # {} /\ ~failed'
    <3>1. graph' = Mounted /\ form' = Closed
      BY <2>1, <2>6 DEF Remounted
    <3> QED
      BY <1>1, <2>1, <2>2, <2>3, <2>4, <2>5, <2>6, <3>1, Constants, UnattendedStep,
         BothAreInv DEF ScreenOK, On, Watched, Loaded
  <2>7. CASE ~(data' # {} /\ ~failed')
    <3>1. graph' = NoGraph /\ form' = Closed
      BY <2>1, <2>7 DEF Unmounted
    <3>2. ~On("dashboard")'
      BY <2>5, <2>7 DEF On, Watched, Loaded
    <3>3. ScreenOK'
      BY <2>2, <2>3, <2>4, <2>5, <3>1, <3>2, Constants DEF ScreenOK
    <3> QED
      BY <1>1, <2>1, <3>3, UnattendedStep, BothAreInv
  <2> QED
    BY <2>6, <2>7
<1>4. CASE BackToList
  <2>1. ScreenOK'
    BY <1>1, <1>4, Constants
       DEF BackToList, ScreenOK, On, Watched, Unmounted, cache, Shown, Among
  <2> QED
    BY <1>1, <1>4, <2>1, UnattendedStep, BothAreInv DEF BackToList
<1>5. ASSUME NEW r \in Requests, SubmitProject(r) \/ SubmitProjectDeletion(r)
      PROVE  ScreenInv'
  <2>1. PICK op \in {"create", "delete"} : Sends(r, op, Project, "page")
    BY <1>5 DEF SubmitProject, SubmitProjectDeletion
  <2>2. /\ Send(r, op, Project, "page")
        /\ UNCHANGED <<rows, labs, overlapped>> /\ UNCHANGED screen
    BY <2>1 DEF Sends
  <2>3. op = "delete" => Kind[Project] = "project"
    BY Constants
  <2>4. TablesInv'
    BY <1>1, <2>2, <2>3, SendStep, Constants
  <2> QED
    BY <1>1, <2>2, <2>4, SameScreen, BothAreInv
<1> QED
  BY <1>2, <1>3, <1>4, <1>5

(* What the page is told of a lab: rows that exist, and their names.        *)
LEMMA AnswerIsNamed ==
  ASSUME TablesInv, Exists(Project)
  PROVE  /\ Answer(Project) \subseteq Nodes /\ Project \in Answer(Project)
         /\ \A d \in Among(Answer(Project), "domain") : <<d, rows[d]>> \in Names
<1>1. /\ Answer(Project) \subseteq Nodes /\ Project \in Answer(Project)
      /\ \A n \in Answer(Project) : Exists(n)
  BY Constants DEF Answer, Below, Forests, Domains, Servers, ChildrenOf
<1>2. ASSUME NEW d \in Among(Answer(Project), "domain")
      PROVE  <<d, rows[d]>> \in Names
  <2>1. d \in Targets
    BY <1>1, ScreenAssumption DEF Among
  <2>2. rows[d] \in Labs
    BY <1>1 DEF Among, Exists, TablesInv, TablesOK, Row
  <2> QED
    BY <2>1, <2>2, ScreenAssumption
<1> QED
  BY <1>1, <1>2

(* A drawing is moved and changed, but never put away.                      *)
LEMMA MovedType ==
  ASSUME graph \in Graph
  PROVE  /\ Moved(graph.view) \subseteq {"off", "hidden", "shown", "away", "broken"}
         /\ \A v \in Moved(graph.view) : v = "off" <=> graph.view = "off"
         /\ graph.view \in Placed => Moved(graph.view) = Placed
  BY DEF Moved, Placed, Graph

(* A page that shows the lab already is told of it anew.                    *)
LEMMA RefetchStep ==
  ASSUME TablesInv, ScreenOK, Watched, FetchData
  PROVE  ScreenOK'
<1>1. /\ data' = Answer(Project) /\ wanted' = FALSE /\ failed' = FALSE
      /\ names' = [d \in Among(data', "domain") |-> <<d, rows[d]>>]
      /\ page' = [page EXCEPT !.at = "detail"]
      /\ Exists(Project)
      /\ IF page.tab = "dashboard"
         THEN Redrawn(Shown("forest"), Among(data', "forest")) ELSE UNCHANGED graph
      /\ Relisted(names, names')
  BY DEF FetchData
<1>2. /\ data' \subseteq Nodes /\ Project \in data'
      /\ DOMAIN names' = Shown("domain")'
      /\ \A d \in DOMAIN names' : names'[d] \in Names
  BY <1>1, AnswerIsNamed DEF Shown
<1>3. /\ page' \in Page /\ page'.at = "detail" /\ page'.tab = page.tab
      /\ page'.dialog = page.dialog /\ page'.of = page.of
  BY <1>1 DEF ScreenOK, Page
<1>4. /\ On("dashboard") <=> On("dashboard")'
      /\ On("vulnerabilities") <=> On("vulnerabilities")'
  BY <1>2, <1>3 DEF On, Watched, Loaded
<1>5. /\ graph' \in Graph
      /\ graph'.view = "off" <=> graph.view = "off"
      /\ graph'.timer = "on" => graph'.view # "off"
  <2>1. CASE page.tab = "dashboard"
    <3>1. graph.view # "off" /\ graph \in Graph
      BY <2>1 DEF ScreenOK, On
    <3>2. graph' \in [view  : Moved(graph.view), timer : {"off", "on"}]
      BY <1>1, <2>1, <3>1 DEF Redrawn, Graph
    <3> QED
      BY <3>1, <3>2, MovedType DEF Graph
  <2>2. CASE page.tab # "dashboard"
    BY <1>1, <2>2 DEF ScreenOK
  <2> QED
    BY <2>1, <2>2
<1>6. /\ form' \in Form /\ form'.step = form.step
      /\ form'.filled = "yes" =>
           form'.domain \in DOMAIN names' /\ form'.dn = names'[form'.domain]
  <2> DEFINE d    == form.domain
             same == d \in DOMAIN names /\ d \in DOMAIN names' /\ names[d] = names'[d]
  <2>1. form \in Form /\ form' = [form EXCEPT !.filled = IF same THEN @ ELSE "no"]
    BY <1>1 DEF Relisted, ScreenOK
  <2>2. /\ form' \in Form /\ form'.step = form.step /\ form'.domain = d
        /\ form'.dn = form.dn
        /\ form'.filled = "yes" => same /\ form.filled = "yes"
    BY <2>1 DEF Form
  <2> QED
    BY <2>2 DEF ScreenOK
<1> QED
  BY <1>1, <1>2, <1>3, <1>4, <1>5, <1>6 DEF ScreenOK

(* The answer that a page waits for, or another one.                        *)
LEMMA FetchStep ==
  ASSUME ScreenInv, FetchData
  PROVE  ScreenInv'
<1>1. TablesInv /\ ScreenOK /\ UNCHANGED tables
  BY InvIsBoth DEF FetchData
<1>2. CASE Watched
  BY <1>1, <1>2, RefetchStep, SameTables, BothAreInv
<1>3. CASE ~Watched
  <2>1. /\ data' = Answer(Project) /\ wanted' = FALSE /\ failed' = FALSE
        /\ names' = [d \in Among(data', "domain") |-> <<d, rows[d]>>]
        /\ page' = [page EXCEPT !.at = "detail"]
        /\ Exists(Project)
        /\ Remounted(page.tab)
    BY <1>3 DEF FetchData
  <2>2. /\ data' \subseteq Nodes /\ Project \in data'
        /\ DOMAIN names' = Shown("domain")'
        /\ \A d \in DOMAIN names' : names'[d] \in Names
    BY <1>1, <2>1, AnswerIsNamed DEF Shown
  <2>3. /\ page' \in Page /\ page'.at = "detail" /\ page'.tab = page.tab
        /\ page'.dialog = page.dialog /\ page'.of = page.of
    BY <1>1, <2>1 DEF ScreenOK, Page
  <2>4. ScreenOK'
    BY <1>1, <2>1, <2>2, <2>3, Constants DEF ScreenOK, Remounted, On, Watched, Loaded
  <2> QED
    BY <1>1, <2>4, SameTables, BothAreInv
<1> QED
  BY <1>2, <1>3

(* There is none: the tabs are taken away.                                  *)
LEMMA FetchFailsStep ==
  ASSUME ScreenInv, FetchFails
  PROVE  ScreenInv'
<1>1. /\ TablesInv /\ ScreenOK
      /\ wanted' = FALSE /\ failed' = (data # {})
      /\ page' = [page EXCEPT !.at = "missing", !.dialog = "none", !.of = NoNode]
      /\ graph' = NoGraph /\ form' = Closed
      /\ requests' = Unattended
      /\ UNCHANGED <<rows, labs, overlapped, data, names>>
  BY InvIsBoth DEF FetchFails, Unmounted
<1>2. /\ page' \in Page /\ page'.at = "missing"
      /\ page'.dialog = "none" /\ page'.of = NoNode
  BY <1>1 DEF ScreenOK, Page
<1>3. ScreenOK'
  BY <1>1, <1>2, Constants DEF ScreenOK, On, Watched, Shown, Among
<1> QED
  BY <1>1, <1>3, UnattendedStep, BothAreInv

(* Changing the tab keeps the whole invariant ...                           *)
LEMMA ShowTabStep ==
  ASSUME ScreenInv, NEW tab \in Tabs, ShowTab(tab)
  PROVE  ScreenInv'
<1>1. /\ TablesInv /\ ScreenOK /\ Watched
      /\ page' = [page EXCEPT !.tab = tab] /\ Remounted(tab)
      /\ requests' = Unattended
      /\ UNCHANGED <<rows, labs, overlapped, data, names, failed, wanted>>
  BY InvIsBoth DEF ShowTab, cache
<1>2. /\ page' \in Page /\ page'.at = "detail" /\ page'.tab = tab
      /\ page'.dialog = page.dialog /\ page'.of = page.of
  BY <1>1 DEF ScreenOK, Page, Watched
<1>3. ScreenOK'
  BY <1>1, <1>2, Constants
     DEF ScreenOK, Remounted, On, Watched, Loaded, Shown, Among
<1> QED
  BY <1>1, <1>3, UnattendedStep, BothAreInv

(* The dialogs of new rows.                                                 *)
LEMMA DialogStep ==
  ASSUME ScreenInv,
         \/ \E n \in Nodes : OpenNewForest(n) \/ OpenNewDomain(n) \/ OpenNewServer(n)
         \/ \E r \in Requests : SubmitForest(r) \/ SubmitDomain(r) \/ SubmitServer(r)
         \/ CloseDialog
  PROVE  ScreenInv'
<1>1. TablesInv /\ ScreenOK
  BY InvIsBoth
<1>2. ASSUME NEW n \in Nodes, OpenNewForest(n) \/ OpenNewDomain(n) \/ OpenNewServer(n)
      PROVE  ScreenInv'
  <2>1. OpenCreate(n)
    BY <1>2 DEF OpenNewForest, OpenNewDomain, OpenNewServer
  <2>2. /\ page' \in Page /\ page'.at = page.at /\ page'.tab = page.tab
        /\ page'.dialog = "create" /\ page'.of = n
        /\ UNCHANGED <<tables, data, names, failed, wanted, graph, form>>
    BY <1>1, <2>1 DEF OpenCreate, ScreenOK, Page, cache
  <2>3. ScreenOK'
    BY <1>1, <2>2, Constants DEF ScreenOK, On, Watched, Loaded, Shown, Among
  <2> QED
    BY <1>1, <2>2, <2>3, SameTables, BothAreInv
<1>3. ASSUME NEW r \in Requests, SubmitForest(r) \/ SubmitDomain(r) \/ SubmitServer(r)
      PROVE  ScreenInv'
  <2>1. /\ Send(r, "create", page.of, "dialog") /\ page.dialog = "create"
        /\ UNCHANGED <<rows, labs, overlapped>> /\ UNCHANGED screen
    BY <1>3 DEF SubmitForest, SubmitDomain, SubmitServer, Submits, Sends
  <2>2. page.of \in Nodes
    BY <1>1, <2>1 DEF ScreenOK, Page
  <2>3. TablesInv'
    BY <1>1, <2>1, <2>2, SendStep
  <2> QED
    BY <1>1, <2>1, <2>3, SameScreen, BothAreInv
<1>4. CASE CloseDialog
  <2>1. /\ page' \in Page /\ page'.at = page.at /\ page'.tab = page.tab
        /\ page'.dialog = "none" /\ page'.of = NoNode
        /\ UNCHANGED <<rows, labs, overlapped, data, names, failed, wanted, graph, form>>
    BY <1>1, <1>4 DEF CloseDialog, ScreenOK, Page, cache
  <2>2. ScreenOK'
    BY <1>1, <2>1, Constants DEF ScreenOK, On, Watched, Loaded, Shown, Among
  <2>3. ASSUME NEW r \in Requests
        PROVE  \E from \in {"dialog", "page", "left", "other"} :
                 requests'[r] = [requests[r] EXCEPT !.from = from]
    <3> DEFINE from == IF requests[r].from = "dialog" THEN "page" ELSE requests[r].from
    <3>1. requests[r] \in Request
      BY <1>1 DEF TablesInv, TablesOK
    <3>2. from \in {"dialog", "page", "left", "other"}
      BY <3>1 DEF Request
    <3>3. requests'[r] = [requests[r] EXCEPT !.from = from]
      BY <1>4 DEF CloseDialog
    <3> QED
      BY <3>2, <3>3
  <2>4. requests' = [r \in Requests |-> requests'[r]]
    BY <1>4 DEF CloseDialog
  <2>5. TablesInv'
    BY <1>1, <2>1, <2>3, <2>4, ReaddressStep
  <2> QED
    BY <2>2, <2>5, BothAreInv
<1> QED
  BY <1>2, <1>3, <1>4

(* ... so does dealing with an answer ...                                   *)
LEMMA SettleStep ==
  ASSUME ScreenInv, NEW r \in Requests, Settle(r)
  PROVE  ScreenInv'
<1>1. /\ TablesInv /\ ScreenOK /\ Becomes(r, Idle)
      /\ wanted' \in BOOLEAN
      /\ UNCHANGED <<rows, labs, overlapped, data, names, failed, graph, form>>
      /\ page' \in {page, [page EXCEPT !.dialog = "none", !.of = NoNode]}
  BY InvIsBoth DEF Settle
<1>2. /\ page' \in Page /\ page'.at = page.at /\ page'.tab = page.tab
      /\ page'.dialog = "none" <=> page'.of = NoNode
  BY <1>1 DEF ScreenOK, Page
<1>3. ScreenOK'
  BY <1>1, <1>2 DEF ScreenOK, On, Watched, Loaded, Shown, Among
<1>4. Closing(Idle.gone, rows, overlapped)
  BY IdleIsApt, NothingCloses
<1>5. TablesInv'
  BY <1>1, <1>4, IdleIsApt, OneGoesOnAlone
<1> QED
  BY <1>3, <1>5, BothAreInv

(* What is done to a drawing leaves a drawing.                              *)
LEMMA DrawingType ==
  ASSUME graph \in Graph, NEW forests,
         Refit(forests) \/ Zoom(forests) \/ Drag(forests) \/ TimerFires(forests),
         graph.view # "off"
  PROVE  graph' \in Graph /\ graph'.view # "off"
<1>1. CASE Refit(forests) \/ TimerFires(forests)
  BY <1>1 DEF Refit, TimerFires, Fitted, Graph
<1>2. CASE Zoom(forests) \/ Drag(forests)
  <2>1. PICK v \in Moved(graph.view) \cup {"broken"} : graph' = [graph EXCEPT !.view = v]
    BY <1>2 DEF Zoom, Drag
  <2> QED
    BY <2>1, MovedType DEF Graph
<1> QED
  BY <1>1, <1>2

(* The graph.                                                               *)
LEMMA GraphStep ==
  ASSUME ScreenInv, Draw \/ DrawingTimer
  PROVE  ScreenInv'
<1>1. /\ TablesInv /\ ScreenOK
      /\ UNCHANGED <<tables, page, data, names, failed, wanted, form>>
  BY InvIsBoth DEF Draw, DrawingTimer, cache
<1>2. graph.view # "off"
  BY <1>1 DEF Draw, DrawingTimer, Refit, Zoom, Drag, TimerFires, ScreenOK
<1>3. graph' \in Graph /\ graph'.view # "off"
  BY <1>1, <1>2, DrawingType DEF Draw, DrawingTimer, ScreenOK
<1>4. ScreenOK'
  BY <1>1, <1>2, <1>3 DEF ScreenOK, On, Watched, Loaded, Shown, Among
<1> QED
  BY <1>1, <1>4, SameTables, BothAreInv

(* A form that is in order with the names the page shows stays so.          *)
FormOK(f) ==
  /\ f \in Form
  /\ f.filled = "yes" => f.domain \in DOMAIN names /\ f.dn = names[f.domain]

LEMMA ConfigureStep ==
  ASSUME FormOK(form), \A d \in DOMAIN names : d \in Targets /\ names[d] \in Names,
         \/ Open(names) \/ PickVuln(names) \/ Back
         \/ ChangeDomain(names) \/ SetName \/ Submit \/ Close
  PROVE  FormOK(form')
<1>1. CASE Open(names)
  BY <1>1 DEF Open, Closed, Form, FormOK
<1>2. CASE PickVuln(names)
  <2>1. PICK n \in NamesFor(form.domain, names) :
          form' = [form EXCEPT !.step = "configure", !.dn = n,
                     !.filled = IF form.domain \in DOMAIN names THEN "yes" ELSE "no"]
    BY <1>2 DEF PickVuln
  <2>2. /\ n \in Names \cup {Unfilled}
        /\ form.domain \in DOMAIN names => n = names[form.domain]
    BY DEF NamesFor
  <2> QED
    BY <2>1, <2>2 DEF Form, FormOK
<1>3. CASE ChangeDomain(names)
  BY <1>3 DEF ChangeDomain, Form, FormOK
<1>4. CASE Back \/ Close
  <2>1. CASE Back
    <3>1. form' = [step |-> "pick", sent |-> form.sent, domain |-> form.domain,
                   dn |-> Unfilled, filled |-> "no"]
      BY <2>1 DEF Back, Closed
    <3> QED
      BY <3>1 DEF Form, FormOK
  <2>2. CASE Close
    BY <2>2, Constants DEF Close, FormOK
  <2> QED
    BY <1>4, <2>1, <2>2
<1>5. CASE SetName \/ Submit
  BY <1>5 DEF SetName, Submit, Form, FormOK
<1> QED
  BY <1>1, <1>2, <1>3, <1>4, <1>5

(* The dialog of vulnerabilities.                                           *)
LEMMA FormStep ==
  ASSUME ScreenInv, Configure \/ VulnAnswered
  PROVE  ScreenInv'
<1>1. /\ TablesInv /\ ScreenOK /\ wanted' \in BOOLEAN
      /\ UNCHANGED <<tables, page, data, names, failed, graph>>
  BY InvIsBoth DEF Configure, VulnAnswered, ScreenOK, cache
<1>2. /\ FormOK(form)
      /\ \A d \in DOMAIN names : d \in Targets /\ names[d] \in Names
  BY <1>1, ScreenAssumption DEF FormOK, Shown, Among, ScreenOK
<1>3. FormOK(form')
  <2>1. CASE Configure
    BY <1>2, <2>1, ConfigureStep DEF Configure
  <2>2. CASE VulnAnswered
    BY <1>2, <2>2, Constants DEF VulnAnswered, Answered, FormOK, Form
  <2> QED
    BY <2>1, <2>2
<1>4. form'.step # "closed" => On("vulnerabilities")
  <2>1. CASE Configure
    BY <2>1 DEF Configure
  <2>2. CASE VulnAnswered
    BY <1>1, <2>2, Constants DEF VulnAnswered, Answered, ScreenOK, Form
  <2> QED
    BY <2>1, <2>2
<1>5. ScreenOK'
  BY <1>1, <1>3, <1>4 DEF ScreenOK, FormOK, On, Watched, Loaded, Shown, Among
<1> QED
  BY <1>1, <1>5, SameTables, BothAreInv

-----------------------------------------------------------------------------
(* ... and every other step.                                                *)
LEMMA NextStep ==
  ASSUME ScreenInv, [Next]_vars
  PROVE  ScreenInv'
<1>1. CASE Browse
  <2>1. CASE \E tab \in Tabs : ShowTab(tab)
    BY <2>1, ShowTabStep
  <2>2. CASE ClickServer
    BY <2>2, ShowTabStep DEF ClickServer, Tabs
  <2>3. CASE Draw \/ Configure
    BY <2>3, GraphStep, FormStep
  <2> QED
    BY <1>1, <2>1, <2>2, <2>3, ListStep, DialogStep DEF Browse
<1>2. CASE FetchData \/ FetchFails \/ DrawingTimer \/ VulnAnswered
  BY <1>2, FetchStep, FetchFailsStep, GraphStep, FormStep
<1>3. ASSUME NEW r \in Requests,
             \/ (Serve(r) \/ SendElsewhere(r)) /\ UNCHANGED screen
             \/ Settle(r)
      PROVE  ScreenInv'
  <2>1. CASE Settle(r)
    BY <2>1, SettleStep
  <2>2. CASE (Serve(r) \/ SendElsewhere(r)) /\ UNCHANGED screen
    BY <2>2, InvIsBoth, ServeStep, OtherStep, SameScreen, BothAreInv
  <2> QED
    BY <1>3, <2>1, <2>2
<1>4. CASE UNCHANGED vars
  <2>1. UNCHANGED tables /\ UNCHANGED screen
    BY <1>4 DEF vars
  <2> QED
    BY <2>1, InvIsBoth, SameTables, SameScreen, BothAreInv
<1> QED
  BY <1>1, <1>2, <1>3, <1>4 DEF Next

(* The invariant, from the empty tables and the list of projects on.        *)
THEOREM Invariant == Spec => []ScreenInv
<1>1. Init => ScreenInv
  <2> SUFFICES ASSUME Init PROVE ScreenInv
    OBVIOUS
  <2>1. TablesInv
    <3>1. /\ \A r \in Requests : requests[r] = Idle
          /\ \A n \in Nodes : rows[n] = NoLab
      BY DEF Init, TablesInit
    <3>2. TablesOK /\ RowsAreOwn
      BY <3>1, IdleIsApt, LabAssumption
         DEF Init, TablesInit, TablesOK, RowsAreOwn, Exists, Row
    <3>3. RequestsAreApt
      BY <3>1, IdleIsApt, NothingCloses, AptIsBoth
    <3> QED
      BY <3>2, <3>3 DEF TablesInv
  <2>2. ScreenOK
    BY Constants DEF Init, ScreenOK, On, Watched, Loaded, Shown, Among
  <2> QED
    BY <2>1, <2>2, InvIsBoth
<1>2. ScreenInv /\ [Next]_vars => ScreenInv'
  BY NextStep
<1> QED
  BY <1>1, <1>2, PTL DEF Spec

(* Every variable keeps to its type, and the graph and the dialog of        *)
(* vulnerabilities are there with their tabs only: nothing that was begun   *)
(* in a tab outlives it, whatever the page is told meanwhile.               *)
THEOREM TypeCorrect == Spec => []TypeOK
<1>1. ScreenInv => TypeOK
  BY DEF ScreenInv
<1> QED
  BY <1>1, Invariant, PTL

(* A row belongs to the lab of its parent, for any tree of ids that are     *)
(* given out again, any number of creations and deletions at a time, and    *)
(* deletions that read their rows before they delete them: but for the rows *)
(* that were inserted under such a deletion.                                *)
THEOREM NoLabInheritsRows == Spec => []RowsAreOwn
<1>1. ScreenInv => RowsAreOwn
  BY DEF ScreenInv, TablesInv
<1> QED
  BY <1>1, Invariant, PTL

(* A drawing that was fitted keeps its scale and a finite position, however *)
(* it is zoomed and dragged and however the lab changes.                    *)
THEOREM DrawingStays == Spec => KeepsItsScale
<1>1. ScreenInv /\ [Next]_vars =>
        [graph.view \in Placed => graph'.view \in Placed \cup {"off"}]_graph
  <2> SUFFICES ASSUME ScreenInv, [Next]_vars, graph.view \in Placed, graph' # graph
               PROVE  graph'.view \in Placed \cup {"off"}
    OBVIOUS
  <2>1. /\ ScreenOK /\ On("dashboard") /\ graph \in Graph
        /\ Moved(graph.view) = Placed
    BY InvIsBoth, MovedType DEF ScreenOK, Placed
  <2>2. CASE FetchData
    <3>1. graph' \in [view : Moved(graph.view), timer : {graph.timer, "on"}]
      BY <2>1, <2>2 DEF FetchData, On, Redrawn
    <3> QED
      BY <2>1, <3>1
  <2>3. CASE FetchFails \/ BackToList
    BY <2>3, Constants DEF FetchFails, BackToList, Unmounted
  <2>4. CASE Draw \/ DrawingTimer
    <3>1. CASE DrawingTimer \/ Refit(Shown("forest"))
      BY <2>1, <3>1 DEF DrawingTimer, Refit, TimerFires, Fitted, Graph, Placed
    <3>2. CASE Zoom(Shown("forest")) \/ Drag(Shown("forest"))
      BY <2>1, <3>2 DEF Zoom, Drag, Graph, Placed
    <3> QED
      BY <2>4, <3>1, <3>2 DEF Draw
  <2>5. CASE OpenProject
    BY <2>1, <2>5 DEF OpenProject, On, Watched
  <2>6. ASSUME NEW tab \in Tabs, ShowTab(tab)
        PROVE  graph'.view = "off"
    BY <2>1, <2>6, Constants DEF ShowTab, Remounted, On
  <2>7. CASE ClickServer
    BY <2>6, <2>7 DEF ClickServer, Tabs
  <2>8. ASSUME \/ OpenNewProject \/ OpenProjectDeletion \/ CloseDialog \/ Configure
               \/ VulnAnswered
               \/ \E n \in Nodes : OpenNewForest(n) \/ OpenNewDomain(n) \/ OpenNewServer(n)
               \/ \E r \in Requests :
                    \/ SubmitProject(r) \/ SubmitProjectDeletion(r)
                    \/ SubmitForest(r) \/ SubmitDomain(r) \/ SubmitServer(r)
                    \/ (Serve(r) \/ SendElsewhere(r)) /\ UNCHANGED screen
                    \/ Settle(r)
               \/ UNCHANGED vars
        PROVE  FALSE
    BY <2>8
       DEF OpenNewProject, OpenProjectDeletion, CloseDialog, Configure, VulnAnswered,
           OpenNewForest, OpenNewDomain, OpenNewServer, OpenCreate, SubmitProject,
           SubmitProjectDeletion, SubmitForest, SubmitDomain, SubmitServer, Submits,
           Sends, Settle, screen, vars
  <2> QED
    BY <2>2, <2>3, <2>4, <2>5, <2>6, <2>7, <2>8 DEF Next, Browse
<1> QED
  BY <1>1, Invariant, PTL DEF Spec, KeepsItsScale

(* A vulnerability is applied with the name the page shows for its target,  *)
(* for any number of domains and of labs that reuse their ids.              *)
THEOREM AppliedToItsTarget == Spec => AppliedIsConsistent
<1>1. ScreenInv =>
        [form.sent = "no" /\ form'.sent = "yes" /\ form.filled = "yes"
           => form.domain \in DOMAIN names /\ form.dn = names[form.domain]]_vars
  BY DEF ScreenInv
<1> QED
  BY <1>1, Invariant, PTL DEF AppliedIsConsistent

=============================================================================
