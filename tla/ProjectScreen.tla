---------------------------- MODULE ProjectScreen ----------------------------
(***************************************************************************)
(* A browser before the tables of the labs: the page that lists the        *)
(* projects (ProjectsPage) and the one that shows a project               *)
(* (ProjectDetailPage) with its tabs: the dashboard with its graph, the    *)
(* tables of forests, domains and servers with their creation dialogs, and *)
(* the vulnerabilities with theirs.  A tab that is left is gone with all   *)
(* its state; the answers the pages show are kept in a cache.              *)
(*                                                                         *)
(* Other clients send the same requests, with the browser there or not.    *)
(* The pages are about one id, which project after project may bear.       *)
(***************************************************************************)
EXTENDS LabTables, GraphView, ApplyDialog

CONSTANTS
  Project,   \* the id
  Beside     \* bound: requests under way beside a new one, with the browser there

ASSUME ScreenAssumption ==
  /\ Project \in Nodes /\ Kind[Project] = "project"
  /\ Targets = {n \in Nodes : Kind[n] = "domain"}
  /\ Names = Targets \X Labs   \* each lab names its domains after itself
  /\ Beside \in Nat

VARIABLES
  page,         \* see Page
  data,         \* the rows in the cached answer of GET /projects/{id}
  names,        \* the names of the domains among them, as distinguished names
  failed,       \* whether the answer was asked for again in vain
  wanted        \* whether it is to be fetched anew

cache  == <<data, names, failed, wanted>>
screen == <<page, cache, graph, form>>
vars   == <<tables, screen>>

Tabs == {"dashboard", "forest", "domain", "server", "vulnerabilities"}

Page ==
  [at     : {"closed", "list", "detail", "missing"},
            \* closed: there is no browser; missing: Projet introuvable
   tab    : Tabs,
   dialog : {"none", "create", "delete"},
   of     : Nodes \cup {NoNode}]             \* what the dialog is to create

ListPage == [at |-> "list", tab |-> "dashboard", dialog |-> "none", of |-> NoNode]
NoPage   == [ListPage EXCEPT !.at = "closed"]

Init ==
  /\ TablesInit
  /\ page \in {ListPage, NoPage}
  /\ data = {}
  /\ names = [d \in {} |-> Unfilled]
  /\ failed = FALSE
  /\ wanted = FALSE
  /\ graph = NoGraph
  /\ form = Closed

-----------------------------------------------------------------------------
Loaded == Project \in data

Among(N, kind) == {n \in N : Kind[n] = kind}

Shown(kind) == Among(data, kind)

Watched == page.at = "detail" /\ Loaded   \* the tabs are there

On(tab) == Watched /\ page.tab = tab

(* The graph and the dialog are there with their tabs, and only then.       *)
TypeOK ==
  /\ TablesOK
  /\ page \in Page
  /\ page.dialog = "none" <=> page.of = NoNode
  /\ data \subseteq Nodes
  /\ DOMAIN names = Shown("domain")
  /\ \A d \in DOMAIN names : names[d] \in Names
  /\ failed \in BOOLEAN
  /\ wanted \in BOOLEAN
  /\ graph \in Graph
  /\ graph.view # "off" <=> On("dashboard")
  /\ form \in Form
  /\ form.step # "closed" => On("vulnerabilities")

Pending(from, op) ==
  \E r \in Requests : /\ requests[r].from = from /\ requests[r].op = op
                      /\ requests[r].phase # "idle"

UnderWay == {r \in Requests : requests[r].phase # "idle"}

(* A request gets the next place there is.                                  *)
Room(r) ==
  /\ page.at = "closed" \/ Cardinality(UnderWay) <= Beside
  /\ r \notin UnderWay /\ r = CHOOSE q \in Requests : q \notin UnderWay

(* The page sends a request.                                                *)
Sends(r, op, n, from) ==
  /\ Room(r) /\ ~Pending(from, op)
  /\ Send(r, op, n, from)
  /\ UNCHANGED <<rows, labs, overlapped, screen>>

(* What is left goes on without the page.                                   *)
Unattended ==
  [r \in Requests |->
     [requests[r] EXCEPT !.from = IF @ = "other" THEN "other" ELSE "left"]]

(* A tab is mounted anew, or none.                                          *)
Remounted(tab) ==
  /\ graph' = IF tab = "dashboard" THEN Mounted ELSE NoGraph
  /\ form' = Closed

Unmounted == graph' = NoGraph /\ form' = Closed

-----------------------------------------------------------------------------
(* The list of projects.                                                    *)

OpenNewProject ==
  /\ page.at = "list" /\ page.dialog = "none"
  /\ page' = [page EXCEPT !.dialog = "create", !.of = Project]
  /\ UNCHANGED <<tables, cache, graph, form>>

(* The list may be old: what it shows need not be there any more.           *)
OpenProjectDeletion ==
  /\ page.at = "list" /\ page.dialog = "none"
  /\ page' = [page EXCEPT !.dialog = "delete", !.of = Project]
  /\ UNCHANGED <<tables, cache, graph, form>>

SubmitProject(r) ==
  /\ page.at = "list" /\ page.dialog = "create"
  /\ Sends(r, "create", Project, "page")

SubmitProjectDeletion(r) ==
  /\ page.at = "list" /\ page.dialog = "delete"
  /\ Sends(r, "delete", Project, "page")

(* A project of the list is opened, or its address, be there a project or  *)
(* not.  The answer of an earlier visit is shown as long as it is cached,   *)
(* and so is the failure to renew it, until it is fetched.                  *)
OpenProject ==
  /\ page.at = "list" /\ page.dialog = "none"
  /\ \/ UNCHANGED <<data, names, failed>>
     \/ data' = {} /\ names' = [d \in {} |-> Unfilled] /\ failed' = FALSE
  /\ page' = [ListPage EXCEPT !.at = IF failed' THEN "missing" ELSE "detail"]
  /\ IF data' # {} /\ ~failed' THEN Remounted("dashboard") ELSE Unmounted
  /\ wanted' \in {wanted \/ data' = {} \/ failed', TRUE}
  /\ requests' = Unattended
  /\ UNCHANGED <<rows, labs, overlapped>>

-----------------------------------------------------------------------------
(* The page of a project.                                                   *)

BackToList ==
  /\ page.at \in {"detail", "missing"}
  /\ page' = ListPage
  /\ Unmounted
  /\ requests' = Unattended
  /\ UNCHANGED <<rows, labs, overlapped, cache>>

(* The answer arrives, and the tabs go on with what it says.                *)
FetchData ==
  /\ page.at \in {"detail", "missing"} /\ Exists(Project)
  /\ wanted' = FALSE /\ failed' = FALSE
  /\ data' = Answer(Project)
  /\ names' = [d \in Among(data', "domain") |-> <<d, rows[d]>>]
  /\ page' = [page EXCEPT !.at = "detail"]
  /\ IF Watched
     THEN /\ IF page.tab = "dashboard"
             THEN Redrawn(Shown("forest"), Among(data', "forest"))
             ELSE UNCHANGED graph
          /\ Relisted(names, names')
     ELSE Remounted(page.tab)
  /\ UNCHANGED tables

(* There is no project of this id any more, or no answer: the page takes    *)
(* its tabs away, also when it has an earlier answer, which stays cached.   *)
FetchFails ==
  /\ page.at \in {"detail", "missing"}
  /\ wanted' = FALSE /\ failed' = (data # {})
  /\ page' = [page EXCEPT !.at = "missing", !.dialog = "none", !.of = NoNode]
  /\ Unmounted
  /\ requests' = Unattended
  /\ UNCHANGED <<rows, labs, overlapped, data, names>>

(* Faulty variant: a tab is hidden rather than taken away.                  *)
ShowTab_Hides(tab) ==
  /\ Watched /\ tab # page.tab
  /\ page.dialog = "none" /\ form.step = "closed"
  /\ page' = [page EXCEPT !.tab = tab]
  /\ graph' = IF tab = "dashboard" /\ graph = NoGraph THEN Mounted ELSE graph
  /\ UNCHANGED <<tables, form, cache>>

(* A tab is chosen in the bar.                                              *)
ShowTab(tab) ==
  /\ Watched /\ tab # page.tab
  /\ page.dialog = "none" /\ form.step = "closed"
  /\ page' = [page EXCEPT !.tab = tab]
  /\ Remounted(tab)
  /\ requests' = Unattended
  /\ UNCHANGED <<rows, labs, overlapped, cache>>

(* The servers in the drawing, each in the box of its domain, and this in   *)
(* the box of its forest.                                                   *)
BoxesOf(kind, outer) == {n \in Shown(kind) : Parent[n] \in outer}

DrawnServers == BoxesOf("server", BoxesOf("domain", Shown("forest")))

(* A click on a server in the drawing leads to its tab.                     *)
ClickServer ==
  /\ On("dashboard") /\ graph.view = "shown" /\ DrawnServers # {}
  /\ ShowTab("server")

(* A dialog of a new row opens, below a parent that the page shows.         *)
OpenCreate(n) ==
  /\ On(Kind[n]) /\ page.dialog = "none"
  /\ page' = [page EXCEPT !.dialog = "create", !.of = n]
  /\ UNCHANGED <<tables, cache, graph, form>>

OpenNewForest(n) == Kind[n] = "forest" /\ OpenCreate(n)
OpenNewDomain(n) == Kind[n] = "domain" /\ Parent[n] \in Shown("forest") /\ OpenCreate(n)
OpenNewServer(n) == Kind[n] = "server" /\ Parent[n] \in Shown("domain") /\ OpenCreate(n)

Submits(r, kind) ==
  /\ page.at = "detail" /\ page.dialog = "create" /\ Kind[page.of] = kind
  /\ Sends(r, "create", page.of, "dialog")

SubmitForest(r) == Submits(r, "forest")
SubmitDomain(r) == Submits(r, "domain")
SubmitServer(r) == Submits(r, "server")

(* A dialog is closed.  The one of a new row takes its own mutation along,  *)
(* and can be opened and sent again; those of the list do not.              *)
CloseDialog ==
  /\ page.dialog # "none"
  /\ page' = [page EXCEPT !.dialog = "none", !.of = NoNode]
  /\ requests' = [r \in Requests |->
                    [requests[r] EXCEPT !.from = IF @ = "dialog" THEN "page" ELSE @]]
  /\ UNCHANGED <<rows, labs, overlapped, cache, graph, form>>

-----------------------------------------------------------------------------
(* Faulty variant: the page of the project is not told of its new row.      *)
Settle_Silent(r) ==
  LET o == requests[r]
  IN  /\ o.phase \in {"done", "refused"}
      /\ Becomes(r, Idle)
      /\ wanted' = wanted
      /\ page' = IF o.phase = "done" /\ o.from # "left" /\ page.dialog = o.op
                 THEN [page EXCEPT !.dialog = "none", !.of = NoNode] ELSE page
      /\ UNCHANGED <<rows, labs, overlapped, data, names, failed, graph, form>>

(* The answer: after a success the cached answer it makes old is fetched    *)
(* anew, and the dialog that is open is closed, be it a later one.          *)
Settle(r) ==
  LET o == requests[r]
  IN  /\ o.phase \in {"done", "refused"}
      /\ Becomes(r, Idle)
      /\ wanted' = (wanted \/ (o.phase = "done" /\ o.node # Project))
      /\ page' = IF o.phase = "done" /\ o.from # "left" /\ page.dialog = o.op
                 THEN [page EXCEPT !.dialog = "none", !.of = NoNode] ELSE page
      /\ UNCHANGED <<rows, labs, overlapped, data, names, failed, graph, form>>

-----------------------------------------------------------------------------
(* What goes on inside a tab.                                               *)
Draw ==
  /\ On("dashboard")
  /\ \/ Refit(Shown("forest")) \/ Zoom(Shown("forest")) \/ Drag(Shown("forest"))
  /\ UNCHANGED <<tables, page, cache, form>>

DrawingTimer ==
  /\ TimerFires(Shown("forest"))
  /\ UNCHANGED <<tables, page, cache, form>>

Configure ==
  /\ On("vulnerabilities")
  /\ \/ Open(names) \/ PickVuln(names) \/ Back
     \/ ChangeDomain(names) \/ SetName \/ Submit \/ Close
  /\ UNCHANGED <<tables, page, cache, graph>>

(* With a vulnerability the project is fetched anew as well.                *)
VulnAnswered ==
  /\ Answered
  /\ wanted' = (wanted \/ form' = Closed)
  /\ UNCHANGED <<tables, page, data, names, failed, graph>>

-----------------------------------------------------------------------------
Browse ==
  \/ OpenNewProject \/ OpenProjectDeletion \/ OpenProject \/ BackToList \/ CloseDialog
  \/ \E tab \in Tabs : ShowTab(tab)
  \/ ClickServer
  \/ \E n \in Nodes : OpenNewForest(n) \/ OpenNewDomain(n) \/ OpenNewServer(n)
  \/ \E r \in Requests : \/ SubmitProject(r) \/ SubmitProjectDeletion(r)
                         \/ SubmitForest(r) \/ SubmitDomain(r) \/ SubmitServer(r)
  \/ Draw \/ Configure

Next ==
  \/ Browse \/ FetchData \/ FetchFails \/ DrawingTimer \/ VulnAnswered
  \/ \E r \in Requests : \/ Serve(r) /\ UNCHANGED screen
                         \/ Room(r) /\ SendElsewhere(r) /\ UNCHANGED screen
                         \/ Settle(r)

Spec == Init /\ [][Next]_vars

(* What was invalidated is fetched, timers fire and answers are dealt with. *)
FairSpec ==
  /\ Spec
  /\ WF_vars(wanted /\ (FetchData \/ FetchFails))
  /\ WF_vars(DrawingTimer)
  /\ \A r \in Requests : WF_vars(Settle(r))

-----------------------------------------------------------------------------
(* What the proofs need besides.                                            *)
ScreenInv ==
  /\ TypeOK /\ TablesInv
  /\ data # {} => Project \in data
  /\ graph.timer = "on" => graph.view # "off"
  /\ form.filled = "yes" => /\ form.domain \in DOMAIN names
                            /\ form.dn = names[form.domain]

-----------------------------------------------------------------------------
(* A vulnerability is applied with the name that the page shows for its     *)
(* target, however often target and vulnerability were changed, whatever    *)
(* the lab lost meanwhile and whichever ids it reused: unless the name was  *)
(* typed over, the target was gone when the vulnerability was picked, or    *)
(* the page was told since that the id belongs to another domain, or none.  *)
AppliedIsConsistent ==
  [][form.sent = "no" /\ form'.sent = "yes" /\ form.filled = "yes"
       => form.domain \in DOMAIN names /\ form.dn = names[form.domain]]_vars

(* The graph of a lab that has forests comes into sight, also when the user *)
(* zooms a drawing that is not there yet, and again with every change of    *)
(* the number of forests: of the first one, which may arrive while the      *)
(* dashboard is open, as of one that comes after the drawing was dragged    *)
(* out of its frame.                                                        *)
GraphIsShown ==
  On("dashboard") /\ Shown("forest") # {}
    /\ (graph.view \notin Placed \/ graph.timer = "on")
    ~> graph.view = "shown" \/ ~On("dashboard") \/ Shown("forest") = {}

(* A server that the user created is shown once the request has succeeded,  *)
(* whatever dialog, tab or page was left meanwhile: as long as the page of  *)
(* the project is open and the row is in the tables, where the page reaches *)
(* it.  Only a lab that is shown with servers can be deployed.              *)
CreatedIsShown ==
  \A n \in {m \in Nodes : Kind[m] = "server"} :
    (\E r \in Requests : /\ requests[r].phase = "done" /\ requests[r].op = "create"
                         /\ requests[r].node = n)
      ~> n \in data \/ ~Exists(n) \/ n \in overlapped \/ page.at # "detail"

=============================================================================
