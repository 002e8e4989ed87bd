----------------------------- MODULE ImageBuilds -----------------------------
(***************************************************************************)
(* Base images: the page that lists them (VmTemplatesPage), the request    *)
(* that builds one with packer and the guard against two builds of the     *)
(* same image (_running_builds), a set of the process that is read before  *)
(* `packer validate` runs and written after it.                            *)
(*                                                                         *)
(* A build runs in a daemon thread that outlives the request.  When the    *)
(* service is restarted its threads and the set are gone; a packer process *)
(* that goes on by itself is no longer known to it, nor to this model.     *)
(*                                                                         *)
(* The list is what the service seeds when it starts: no operation adds an *)
(* image, and a deletion fails always, see Refuse.  No operation gives an  *)
(* image another status than the UNINSTALL it was seeded with, so its      *)
(* Build button is there always.                                           *)
(***************************************************************************)
EXTENDS Naturals, FiniteSets

CONSTANTS
  Images,     \* ids of the rows of vm_templates
  Posts,      \* the requests that may be under way at a time
  NoImage,
  MaxBuilds   \* bound: builds of one image at a time

ASSUME ImageAssumption == NoImage \notin Images

ASSUME BoundAssumption == MaxBuilds \in Nat

VARIABLES
  page,        \* what the page shows, see Page
  posts,       \* POST /vm-templates/{id}, see Post
  running,     \* _running_builds
  threads,     \* the builds of each image that this process waits for
  overlapped   \* history: images with two requests at once before the mark

server == <<running, threads, overlapped>>
vars   == <<page, posts, server>>

Image == Images \cup {NoImage}

Page ==
  [deploying : Image,   \* deployingId
   dialog    : {"none", "open", "pending", "hidden"}]
                        \* delTarget and deleteMut: closed while pending, too

Post ==
  [phase : {"free", "sent", "validate", "done", "refused"},
   image : Image,
   from  : {"page", "elsewhere"}]   \* whether the page as it is now sent it

Opened == [deploying |-> NoImage, dialog |-> "none"]
Free   == [phase |-> "free", image |-> NoImage, from |-> "elsewhere"]

TypeOK ==
  /\ page \in Page
  /\ posts \in [Posts -> Post]
  /\ running \subseteq Images
  /\ threads \in [Images -> Nat]
  /\ overlapped \subseteq Images

Init ==
  /\ page = Opened
  /\ posts = [p \in Posts |-> Free]
  /\ running = {}
  /\ threads = [i \in Images |-> 0]
  /\ overlapped = {}

Becomes(p, local) == posts' = [posts EXCEPT ![p] = local]

-----------------------------------------------------------------------------
(* The page.                                                                *)

(* The Build button of an image, when no dialog covers it, is disabled for  *)
(* one image at a time: the one clicked last.                               *)
ClickBuild(p, i) ==
  /\ posts[p].phase = "free"
  /\ page.dialog \in {"none", "hidden"}
  /\ page.deploying # i
  /\ page' = [page EXCEPT !.deploying = i]
  /\ Becomes(p, [phase |-> "sent", image |-> i, from |-> "page"])
  /\ UNCHANGED server

(* Faulty variant: only a build that was started gives the button back.     *)
Settle_OnSuccess(p) ==
  /\ posts[p].phase \in {"done", "refused"}
  /\ page' = IF posts[p].from = "page" /\ posts[p].phase = "done"
             THEN [page EXCEPT !.deploying = NoImage] ELSE page
  /\ Becomes(p, Free)
  /\ UNCHANGED server

(* The answer comes back: whatever image it is about, no button is disabled *)
(* any more.                                                                *)
Settle(p) ==
  /\ posts[p].phase \in {"done", "refused"}
  /\ page' = IF posts[p].from = "page"
             THEN [page EXCEPT !.deploying = NoImage] ELSE page
  /\ Becomes(p, Free)
  /\ UNCHANGED server

(* The page is left and comes back as new; its requests go on without it.   *)
Leave ==
  /\ page' = Opened
  /\ posts' = [p \in Posts |-> [posts[p] EXCEPT !.from = "elsewhere"]]
  /\ UNCHANGED server

(* The bin of an image opens a dialog, over a deletion that is still under  *)
(* way as well; it can be cancelled at any time.                            *)
OpenDeletion ==
  /\ page.dialog \in {"none", "hidden"}
  /\ page' = [page EXCEPT !.dialog = IF @ = "none" THEN "open" ELSE "pending"]
  /\ UNCHANGED <<posts, server>>

CancelDeletion ==
  /\ page.dialog \in {"open", "pending"}
  /\ page' = [page EXCEPT !.dialog = IF @ = "open" THEN "none" ELSE "hidden"]
  /\ UNCHANGED <<posts, server>>

ConfirmDeletion ==
  /\ page.dialog = "open"
  /\ page' = [page EXCEPT !.dialog = "pending"]
  /\ UNCHANGED <<posts, server>>

(* The deletion fails, and a dialog that is open stays: an image that       *)
(* servers use is kept, and for another one delete_vm asks the hypervisor   *)
(* for the machine that has the id of the row, a number no machine can have.*)
Refuse ==
  /\ page.dialog \in {"pending", "hidden"}
  /\ page' = [page EXCEPT !.dialog = IF @ = "pending" THEN "open" ELSE "none"]
  /\ UNCHANGED <<posts, server>>

-----------------------------------------------------------------------------
(* The service.                                                             *)

(* Another browser or client sends the same request.                        *)
PostElsewhere(p, i) ==
  /\ posts[p].phase = "free"
  /\ Becomes(p, [phase |-> "sent", image |-> i, from |-> "elsewhere"])
  /\ UNCHANGED <<page, server>>

Validating(i) == {p \in Posts : posts[p].phase = "validate" /\ posts[p].image = i}

(* Faulty variant: the set is not looked at.                                *)
CheckGuard_None(p) ==
  LET i == posts[p].image
  IN  /\ posts[p].phase = "sent"
      /\ Becomes(p, [posts[p] EXCEPT !.phase = "validate"])
      /\ overlapped' = overlapped \cup (IF Validating(i) = {} THEN {} ELSE {i})
      /\ UNCHANGED <<page, running, threads>>

(* An image whose build is marked is refused; otherwise the template is     *)
(* validated first.                                                         *)
CheckGuard(p) ==
  LET i == posts[p].image
  IN  /\ posts[p].phase = "sent"
      /\ IF i \in running
         THEN /\ Becomes(p, [posts[p] EXCEPT !.phase = "refused"])
              /\ UNCHANGED overlapped
         ELSE /\ Becomes(p, [posts[p] EXCEPT !.phase = "validate"])
              /\ overlapped' = overlapped \cup (IF Validating(i) = {} THEN {} ELSE {i})
      /\ UNCHANGED <<page, running, threads>>

(* Faulty variant: the image is marked before it is known to be valid.      *)
Validate_MarksFirst(p) ==
  LET i == posts[p].image
  IN  /\ posts[p].phase = "validate"
      /\ running' = running \cup {i}
      /\ \/ /\ threads[i] < MaxBuilds
            /\ threads' = [threads EXCEPT ![i] = @ + 1]
            /\ Becomes(p, [posts[p] EXCEPT !.phase = "done"])
         \/ /\ Becomes(p, [posts[p] EXCEPT !.phase = "refused"])
            /\ UNCHANGED threads
      /\ UNCHANGED <<page, overlapped>>

(* A valid template is marked and its build starts; the request is answered.*)
Validate(p) ==
  LET i == posts[p].image
  IN  /\ posts[p].phase = "validate"
      /\ \/ /\ threads[i] < MaxBuilds
            /\ running' = running \cup {i}
            /\ threads' = [threads EXCEPT ![i] = @ + 1]
            /\ Becomes(p, [posts[p] EXCEPT !.phase = "done"])
         \/ /\ Becomes(p, [posts[p] EXCEPT !.phase = "refused"])
            /\ UNCHANGED <<running, threads>>
      /\ UNCHANGED <<page, overlapped>>

(* Faulty variant: a build that fails leaves its mark.                      *)
BuildEnds_Marked(i) ==
  /\ threads[i] > 0
  /\ threads' = [threads EXCEPT ![i] = @ - 1]
  /\ running' \in {running, running \ {i}}
  /\ UNCHANGED <<page, posts, overlapped>>

(* A build ends, well or not, and unmarks its image: also when another      *)
(* build of the image goes on.                                              *)
BuildEnds(i) ==
  /\ threads[i] > 0
  /\ threads' = [threads EXCEPT ![i] = @ - 1]
  /\ running' = running \ {i}
  /\ UNCHANGED <<page, posts, overlapped>>

(* Faulty variant: a request that breaks off is in a state of its own.      *)
Restart_OwnPhase ==
  /\ posts' = [p \in Posts |->
       IF posts[p].phase \in {"sent", "validate"}
       THEN [posts[p] EXCEPT !.phase = "broken"] ELSE posts[p]]
  /\ running' = {}
  /\ threads' = [i \in Images |-> 0]
  /\ UNCHANGED <<page, overlapped>>

(* The service is restarted: requests under way break off, the set and the  *)
(* threads are gone.                                                        *)
Restart ==
  /\ posts' = [p \in Posts |->
       IF posts[p].phase \in {"sent", "validate"}
       THEN [posts[p] EXCEPT !.phase = "refused"] ELSE posts[p]]
  /\ running' = {}
  /\ threads' = [i \in Images |-> 0]
  /\ UNCHANGED <<page, overlapped>>

-----------------------------------------------------------------------------
User ==
  \/ \E p \in Posts, i \in Images : ClickBuild(p, i) \/ PostElsewhere(p, i)
  \/ OpenDeletion \/ CancelDeletion \/ ConfirmDeletion
  \/ Leave

Serve(p) == CheckGuard(p) \/ Validate(p) \/ Settle(p)

Next ==
  \/ User
  \/ \E p \in Posts : Serve(p)
  \/ \E i \in Images : BuildEnds(i)
  \/ Refuse
  \/ Restart

Spec == Init /\ [][Next]_vars

(* A request is served to its end and a packer process ends by itself; the  *)
(* user need not do anything, nor must the service be restarted.            *)
FairSpec ==
  /\ Spec
  /\ \A p \in Posts : WF_vars(Serve(p))
  /\ \A i \in Images : WF_vars(BuildEnds(i))

-----------------------------------------------------------------------------
(* The guard does its work when the requests for an image come one after    *)
(* the other: the process never waits for two builds of it, and a build is  *)
(* marked as long as it runs, whatever fails, is left or is restarted.      *)
BuildsAreGuarded ==
  \A i \in Images \ overlapped :
    threads[i] <= 1 /\ (threads[i] = 1 => i \in running)

(* No image stays marked without a build of this process that will unmark   *)
(* it: not after a template that is not valid, not after a restart.         *)
MarksHaveBuilds == \A i \in running : threads[i] > 0

(* An image can be built again, sooner or later.                            *)
MarkIsLifted == \A i \in Images : i \in running ~> i \notin running

(* The button of an image that was clicked comes back, whether its build    *)
(* was started, refused or broken off by a restart.                         *)
ButtonComesBack == \A i \in Images : page.deploying = i ~> page.deploying # i

-----------------------------------------------------------------------------
(* Why the guard does its work, in a form every step preserves: a request   *)
(* that validates an image is alone with it, and finds it unmarked still.   *)
ValidatesAlone(p, i) ==
  p \in Validating(i) => i \notin running /\ \A q \in Validating(i) : q = p

GuardInv ==
  /\ TypeOK
  /\ \A p \in Posts : posts[p].phase # "free" => posts[p].image \in Images
  /\ BuildsAreGuarded
  /\ \A i \in Images \ overlapped, p \in Posts : ValidatesAlone(p, i)
  /\ MarksHaveBuilds

-----------------------------------------------------------------------------
(* "A build is already running for template", the refusal says: two builds  *)
(* of one image never run in the process.  The code does not keep this.     *)
OneBuildPerImage == \A i \in Images : threads[i] <= 1

=============================================================================
