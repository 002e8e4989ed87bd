-------------------------- MODULE ImageBuildsProofs --------------------------
(***************************************************************************)
(* Proofs about ImageBuilds, for any images and any number of requests, of *)
(* pages left half-way and of restarts.                                    *)
(***************************************************************************)
EXTENDS ImageBuilds, TLAPS

-----------------------------------------------------------------------------
(* A step gives one request a new local state and no other.                 *)
LEMMA BecomesType ==
  ASSUME posts \in [Posts -> Post], NEW p \in Posts, NEW local \in Post,
         Becomes(p, local)
  PROVE  /\ posts' \in [Posts -> Post]
         /\ posts'[p] = local
         /\ \A q \in Posts \ {p} : posts'[q] = posts[q]
  BY DEF Becomes

(* What validates an image after a step that validates nothing new did so   *)
(* before.                                                                  *)
Calms ==
  \A p \in Posts : posts'[p].phase = "validate" =>
    posts[p].phase = "validate" /\ posts'[p].image = posts[p].image

(* A step that neither validates, marks nor starts anything leaves what is  *)
(* guarded as it is.                                                        *)
LEMMA CalmStep ==
  ASSUME GuardInv, Calms, UNCHANGED <<running, threads, overlapped>>
  PROVE  /\ BuildsAreGuarded' /\ MarksHaveBuilds'
         /\ \A i \in Images \ overlapped', p \in Posts : ValidatesAlone(p, i)'
  BY DEF GuardInv, BuildsAreGuarded, MarksHaveBuilds, ValidatesAlone, Validating, Calms

-----------------------------------------------------------------------------
(* One lemma per kind of step.                                              *)

(* The user of the page, and the answers that come back to it.              *)
LEMMA PageStep ==
  ASSUME GuardInv, NEW p \in Posts, NEW i \in Images,
         \/ ClickBuild(p, i) \/ PostElsewhere(p, i) \/ Settle(p) \/ Leave
         \/ OpenDeletion \/ CancelDeletion \/ ConfirmDeletion \/ Refuse
         \/ UNCHANGED vars
  PROVE  GuardInv'
<1>1. /\ page' \in Page
      /\ posts' \in [Posts -> Post]
      /\ \A q \in Posts : posts'[q].phase # "free" => posts'[q].image \in Images
      /\ Calms
  <2>1. CASE ClickBuild(p, i) \/ PostElsewhere(p, i)
    <3>1. PICK who \in {"page", "elsewhere"} :
            Becomes(p, [phase |-> "sent", image |-> i, from |-> who])
      BY <2>1 DEF ClickBuild, PostElsewhere
    <3>2. [phase |-> "sent", image |-> i, from |-> who] \in Post
      BY DEF Post, Image
    <3>3. page' \in Page
      BY <2>1 DEF ClickBuild, PostElsewhere, GuardInv, TypeOK, Page, Image
    <3> QED
      BY <3>1, <3>2, <3>3, BecomesType DEF GuardInv, TypeOK, Calms
  <2>2. CASE Settle(p)
    <3>1. Free \in Post /\ Free.phase = "free"
      BY DEF Free, Post, Image
    <3>2. page' \in Page
      BY <2>2 DEF Settle, GuardInv, TypeOK, Page, Image
    <3> QED
      BY <2>2, <3>1, <3>2, BecomesType DEF Settle, GuardInv, TypeOK, Calms
  <2>3. CASE Leave
    <3>1. Opened \in Page
      BY DEF Opened, Page, Image
    <3> QED
      BY <2>3, <3>1 DEF Leave, GuardInv, TypeOK, Post, Calms
  <2>4. CASE \/ OpenDeletion \/ CancelDeletion \/ ConfirmDeletion \/ Refuse
             \/ UNCHANGED vars
    BY <2>4 DEF OpenDeletion, CancelDeletion, ConfirmDeletion, Refuse, vars,
                GuardInv, TypeOK, Page, Calms
  <2> QED
    BY <2>1, <2>2, <2>3, <2>4
<1>2. UNCHANGED <<running, threads, overlapped>>
  BY DEF ClickBuild, PostElsewhere, Settle, Leave, OpenDeletion, CancelDeletion,
         ConfirmDeletion, Refuse, server, vars
<1> QED
  BY <1>1, <1>2, CalmStep DEF GuardInv, TypeOK

(* A request looks at the set.                                              *)
LEMMA CheckStep ==
  ASSUME GuardInv, NEW p \in Posts, CheckGuard(p)
  PROVE  GuardInv'
<1> DEFINE i == posts[p].image
<1>1. i \in Images /\ posts[p] \in Post
  BY DEF CheckGuard, GuardInv, TypeOK
<1>2. PICK to \in {"refused", "validate"} :
        /\ Becomes(p, [posts[p] EXCEPT !.phase = to])
        /\ to = "refused" => UNCHANGED overlapped
        /\ to = "validate" =>
             /\ i \notin running
             /\ overlapped' = overlapped \cup (IF Validating(i) = {} THEN {} ELSE {i})
  BY DEF CheckGuard
<1>3. UNCHANGED <<page, running, threads>>
  BY DEF CheckGuard
<1>4. /\ posts' \in [Posts -> Post]
      /\ posts'[p].phase = to /\ posts'[p].image = i
      /\ \A q \in Posts \ {p} : posts'[q] = posts[q]
  <2>1. [posts[p] EXCEPT !.phase = to] \in Post
    BY <1>1 DEF Post
  <2> QED
    BY <1>1, <1>2, <2>1, BecomesType DEF GuardInv, TypeOK, Post
<1>5. /\ TypeOK'
      /\ \A q \in Posts : posts'[q].phase # "free" => posts'[q].image \in Images
  BY <1>1, <1>2, <1>3, <1>4 DEF GuardInv, TypeOK
<1>6. CASE to = "refused"
  BY <1>2, <1>3, <1>4, <1>5, <1>6, CalmStep DEF Calms, GuardInv
<1>7. CASE to = "validate"
  <2>1. ASSUME NEW j \in Images \ overlapped', NEW q \in Posts
        PROVE  ValidatesAlone(q, j)'
    BY <1>2, <1>3, <1>4, <1>7, <2>1 DEF GuardInv, ValidatesAlone, Validating
  <2>2. BuildsAreGuarded' /\ MarksHaveBuilds'
    BY <1>2, <1>3, <1>7 DEF GuardInv, BuildsAreGuarded, MarksHaveBuilds
  <2> QED
    BY <1>5, <2>1, <2>2 DEF GuardInv
<1> QED
  BY <1>2, <1>6, <1>7

(* A request has validated its image: it is marked, and its build starts.   *)
LEMMA ValidateStep ==
  ASSUME GuardInv, NEW p \in Posts, Validate(p)
  PROVE  GuardInv'
<1> DEFINE i == posts[p].image
<1>1. i \in Images /\ posts[p] \in Post /\ posts[p].phase = "validate"
  BY DEF Validate, GuardInv, TypeOK
<1>2. PICK to \in {"refused", "done"} :
        /\ Becomes(p, [posts[p] EXCEPT !.phase = to])
        /\ to = "refused" => UNCHANGED <<running, threads>>
        /\ to = "done" => /\ running' = running \cup {i}
                          /\ threads' = [threads EXCEPT ![i] = @ + 1]
  BY DEF Validate
<1>3. UNCHANGED <<page, overlapped>>
  BY DEF Validate
<1>4. /\ posts' \in [Posts -> Post]
      /\ posts'[p].phase = to /\ posts'[p].image = i
      /\ \A q \in Posts \ {p} : posts'[q] = posts[q]
  <2>1. [posts[p] EXCEPT !.phase = to] \in Post
    BY <1>1 DEF Post
  <2> QED
    BY <1>1, <1>2, <2>1, BecomesType DEF GuardInv, TypeOK, Post
<1>5. /\ TypeOK'
      /\ \A q \in Posts : posts'[q].phase # "free" => posts'[q].image \in Images
  BY <1>1, <1>2, <1>3, <1>4 DEF GuardInv, TypeOK
<1>6. CASE to = "refused"
  BY <1>2, <1>3, <1>4, <1>5, <1>6, CalmStep DEF Calms, GuardInv
<1>7. CASE to = "done"
  <2>1. threads \in [Images -> Nat] /\ running \subseteq Images
    BY DEF GuardInv, TypeOK
  <2>2. /\ threads'[i] = threads[i] + 1
        /\ \A j \in Images \ {i} : threads'[j] = threads[j]
    BY <1>1, <1>2, <1>7, <2>1
  <2>3. i \notin overlapped => threads[i] = 0
    BY <1>1, <2>1 DEF GuardInv, BuildsAreGuarded, ValidatesAlone, Validating
  <2>4. BuildsAreGuarded'
    BY <1>1, <1>2, <1>3, <1>7, <2>1, <2>2, <2>3 DEF GuardInv, BuildsAreGuarded
  <2>6. MarksHaveBuilds'
    BY <1>1, <1>2, <1>7, <2>1, <2>2 DEF GuardInv, MarksHaveBuilds
  <2>5. ASSUME NEW j \in Images \ overlapped', NEW q \in Posts
        PROVE  ValidatesAlone(q, j)'
    BY <1>1, <1>2, <1>3, <1>4, <1>7, <2>5 DEF GuardInv, ValidatesAlone, Validating
  <2> QED
    BY <1>5, <2>4, <2>5, <2>6 DEF GuardInv
<1> QED
  BY <1>2, <1>6, <1>7

(* A build ends and unmarks its image.                                      *)
LEMMA BuildStep ==
  ASSUME GuardInv, NEW i \in Images, BuildEnds(i)
  PROVE  GuardInv'
<1>1. threads \in [Images -> Nat]
  BY DEF GuardInv, TypeOK
<1>2. /\ threads' \in [Images -> Nat]
      /\ threads'[i] = threads[i] - 1
      /\ \A j \in Images \ {i} : threads'[j] = threads[j]
  BY <1>1 DEF BuildEnds
<1> QED
  BY <1>1, <1>2
  DEF BuildEnds, GuardInv, TypeOK, BuildsAreGuarded, MarksHaveBuilds, ValidatesAlone,
      Validating

(* The service is restarted.                                                *)
LEMMA RestartStep ==
  ASSUME GuardInv, Restart
  PROVE  GuardInv'
<1>1. /\ posts' \in [Posts -> Post]
      /\ \A q \in Posts :
           /\ posts'[q].phase # "validate"
           /\ posts'[q].phase # "free" => posts'[q].image \in Images
  BY DEF Restart, GuardInv, TypeOK, Post
<1> QED
  BY <1>1
  DEF Restart, GuardInv, TypeOK, BuildsAreGuarded, MarksHaveBuilds, ValidatesAlone,
      Validating

-----------------------------------------------------------------------------
(* A request that validates an image is alone with it and finds it unmarked *)
(* still, in every reachable state, unless two passed the check at once.    *)
THEOREM Invariant == Spec => []GuardInv
<1>1. Init => GuardInv
  BY DEF Init, GuardInv, TypeOK, Opened, Page, Image, Free, Post, BuildsAreGuarded,
         ValidatesAlone, Validating, MarksHaveBuilds
<1>2. GuardInv /\ [Next]_vars => GuardInv'
  <2> SUFFICES ASSUME GuardInv, [Next]_vars PROVE GuardInv'
    OBVIOUS
  <2>1. CASE UNCHANGED vars
    BY <2>1 DEF vars, server, GuardInv, TypeOK, BuildsAreGuarded, ValidatesAlone,
                Validating, MarksHaveBuilds
  <2>2. CASE \/ Leave \/ OpenDeletion \/ CancelDeletion \/ ConfirmDeletion \/ Refuse
    <3>1. CASE Posts = {} \/ Images = {}
      BY <2>2, <3>1
      DEF Leave, OpenDeletion, CancelDeletion, ConfirmDeletion, Refuse, server,
          GuardInv, TypeOK, Opened, Page, Image, Post, BuildsAreGuarded,
          ValidatesAlone, Validating, MarksHaveBuilds
    <3> QED
      BY <2>2, <3>1, PageStep
  <2>3. ASSUME NEW p \in Posts, NEW i \in Images,
               ClickBuild(p, i) \/ PostElsewhere(p, i)
        PROVE  GuardInv'
    BY <2>3, PageStep
  <2>4. ASSUME NEW p \in Posts, Serve(p)
        PROVE  GuardInv'
    <3>1. posts[p].image \in Images
      BY <2>4 DEF Serve, CheckGuard, Validate, Settle, GuardInv
    <3> QED
      BY <2>4, <3>1, PageStep, CheckStep, ValidateStep DEF Serve
  <2>5. ASSUME NEW i \in Images, BuildEnds(i)
        PROVE  GuardInv'
    BY <2>5, BuildStep
  <2> QED
    BY <2>1, <2>2, <2>3, <2>4, <2>5, RestartStep DEF Next, User
<1> QED
  BY <1>1, <1>2, PTL DEF Spec

(* The page, the requests, the marks and the builds stay what they can be.  *)
THEOREM TypeCorrect == Spec => []TypeOK
<1>1. GuardInv => TypeOK
  BY DEF GuardInv
<1> QED
  BY <1>1, Invariant, PTL

(* Two builds of an image run at once only after two requests for it were   *)
(* between the check and the mark at once; a build is marked as it runs.    *)
THEOREM OneBuildAtATime == Spec => []BuildsAreGuarded
<1>1. GuardInv => BuildsAreGuarded
  BY DEF GuardInv
<1> QED
  BY <1>1, Invariant, PTL

(* Each mark has a build that will lift it, whatever raced.                 *)
THEOREM NoMarkIsLeft == Spec => []MarksHaveBuilds
<1>1. GuardInv => MarksHaveBuilds
  BY DEF GuardInv
<1> QED
  BY <1>1, Invariant, PTL

=============================================================================
