------------------------- MODULE AccountOutcomeProofs -------------------------
(***************************************************************************)
(* More proofs about AccountPush: that a mark is carried out, that what is *)
(* applied was pushed, that what is in a directory can still be reversed,  *)
(* that an account leaves the directory before the database, and what a    *)
(* deployment that passed has achieved.  Each holds under a discipline of  *)
(* its own, stated as a hypothesis: which requests an operator withholds   *)
(* while a deployment runs, and how many domains are in reach.             *)
(***************************************************************************)
EXTENDS AccountPushProofs

-----------------------------------------------------------------------------
(* What a deployment's step does to its local state, field by field.        *)

Running(d) == run[d].phase \notin Stopped

(* The parts of the local state most steps leave alone.                     *)
SameLists(d) ==
  /\ run'[d].listed = run[d].listed
  /\ run'[d].toTrack = run[d].toTrack
  /\ run'[d].names = run[d].names

SameCall(d) == run'[d].mine = run[d].mine /\ run'[d].outcome = run[d].outcome

SamePlace(d) == run'[d].visits = run[d].visits /\ run'[d].domain = run[d].domain

SameMarks(d) ==
  /\ run'[d].marked = run[d].marked
  /\ run'[d].toReverse = run[d].toReverse
  /\ run'[d].failure = run[d].failure

Ended(d, p) == run'[d] = NotRunning(p)

(* A deployment that ended has empty lists.                                 *)
LEMMA NotRunningIsEmpty ==
  ASSUME NEW p
  PROVE  /\ NotRunning(p).phase = p
         /\ NotRunning(p).listed = {}
         /\ NotRunning(p).visits = {}
         /\ NotRunning(p).domain = 0
         /\ NotRunning(p).toTrack = {}
         /\ NotRunning(p).names = {}
         /\ NotRunning(p).mine = {}
         /\ NotRunning(p).outcome = "unknown"
         /\ NotRunning(p).marked = {}
         /\ NotRunning(p).toReverse = {}
         /\ NotRunning(p).failure = "no"
  BY DEF NotRunning

(* Becoming and ending, as facts about the next state.                      *)
LEMMA BecomesIs ==
  ASSUME TypeOK, NEW d \in Deploys
  PROVE  /\ run \in [Deploys -> RunState] /\ run[d] \in RunState
         /\ \A local : Becomes(d, local) => run'[d] = local
         /\ \A p : Ends(d, p) => Ended(d, p)
  BY DEF TypeOK, Becomes, Ends, Ended

(* The domains a deployment sets out to visit.                              *)
ToVisit(d) ==
  IF NotPushed(d) = {} THEN {}
  ELSE IF Kind = "users" THEN {accounts[a].domain : a \in DOMAIN accounts} \cap Own(d)
  ELSE {l.domain : l \in NotPushed(d)}

(* Starting: the list is read, and everything else is as if never run.      *)
LEMMA AfterStart ==
  ASSUME TypeOK, NEW d \in Deploys, Start(d)
  PROVE  /\ run[d].phase \in Stopped /\ run'[d].phase = "plan"
         /\ run'[d].listed = NotPushed(d)
         /\ run'[d].visits = ToVisit(d)
         /\ run'[d].toTrack = {} /\ run'[d].names = {} /\ run'[d].mine = {}
         /\ run'[d].marked = {} /\ run'[d].toReverse = {} /\ run'[d].failure = "no"
         /\ edit = NoEdit \/ "delete" \in EditsDuringDeploy
         /\ UNCHANGED <<accounts, rows, directory, edit, byHand>>
<1>1. PICK view : Becomes(d, [NotRunning("plan") EXCEPT !.view = view,
                                !.listed = NotPushed(d), !.visits = ToVisit(d)])
  BY DEF Start, ToVisit
<1>2. run'[d] = [NotRunning("plan") EXCEPT !.view = view,
                   !.listed = NotPushed(d), !.visits = ToVisit(d)]
  BY <1>1, BecomesIs
<1> QED
  BY <1>2 DEF NotRunning, Start

(* Planning: the marks are read.                                            *)
LEMMA AfterPlan ==
  ASSUME TypeOK, NEW d \in Deploys, Plan(d)
  PROVE  /\ run[d].phase = "plan" /\ run'[d].phase = "push"
         /\ run'[d].marked = RowsWith(rows, {"reverted_pending"})
         /\ run'[d].toReverse = run[d].toReverse
         /\ run'[d].failure = run[d].failure
         /\ SameLists(d) /\ SameCall(d) /\ SamePlace(d)
         /\ UNCHANGED <<accounts, rows, directory, edit, byHand>>
<1>1. run'[d] = [run[d] EXCEPT !.phase = "push",
                               !.marked = RowsWith(rows, {"reverted_pending"})]
  BY BecomesIs DEF Plan
<1> QED
  BY <1>1, BecomesIs DEF Plan, RunState, SameLists, SameCall, SamePlace

(* A domain out of reach is dropped from the visits.                        *)
LEMMA AfterSkip ==
  ASSUME TypeOK, NEW d \in Deploys, SkipDomain(d)
  PROVE  /\ run[d].phase = "push" /\ run'[d].phase = "push"
         /\ \E dm \in run[d].visits \ Reachable : run'[d].visits = run[d].visits \ {dm}
         /\ run'[d].domain = run[d].domain
         /\ SameLists(d) /\ SameCall(d) /\ SameMarks(d)
         /\ UNCHANGED <<accounts, rows, directory, edit, byHand>>
<1>1. PICK dm \in run[d].visits \ Reachable :
        run'[d] = [run[d] EXCEPT !.visits = @ \ {dm}]
  BY BecomesIs DEF SkipDomain
<1> QED
  BY <1>1, BecomesIs DEF SkipDomain, RunState, SameLists, SameCall, SameMarks

(* A domain is entered with the playbook's list, or the deployment fails.   *)
LEMMA AfterEnter ==
  ASSUME TypeOK, NEW d \in Deploys, EnterDomain(d)
  PROVE  /\ run[d].phase = "push"
         /\ UNCHANGED <<accounts, rows, directory, edit, byHand>>
         /\ \/ Ended(d, "failed")
            \/ /\ run'[d].phase = "track"
               /\ run'[d].domain \in run[d].visits \cap Reachable
               /\ run'[d].visits = run[d].visits
               /\ run'[d].listed = run[d].listed
               /\ run'[d].toTrack = {l \in run[d].listed : l.domain = run'[d].domain}
               /\ run'[d].names = {Seen(d, l).name : l \in run'[d].toTrack}
               /\ \A l \in run'[d].toTrack : Visible(d, l)
               /\ SameCall(d) /\ SameMarks(d)
<1>1. PICK dm \in run[d].visits \cap Reachable :
        LET here == {l \in run[d].listed : l.domain = dm}
        IN  \/ /\ \A l \in here : Visible(d, l)
               /\ Becomes(d, [run[d] EXCEPT !.phase = "track", !.domain = dm,
                    !.toTrack = here, !.names = {Seen(d, l).name : l \in here}])
            \/ Ends(d, "failed")
  BY DEF EnterDomain
<1> DEFINE here  == {l \in run[d].listed : l.domain = dm}
           names == {Seen(d, l).name : l \in here}
<1>2. \/ /\ \A l \in here : Visible(d, l)
         /\ run'[d] = [run[d] EXCEPT !.phase = "track", !.domain = dm,
                                     !.toTrack = here, !.names = names]
      \/ Ended(d, "failed")
  BY <1>1, BecomesIs
<1>3. CASE /\ \A l \in here : Visible(d, l)
           /\ run'[d] = [run[d] EXCEPT !.phase = "track", !.domain = dm,
                                       !.toTrack = here, !.names = names]
  <2>1. /\ run'[d].phase = "track" /\ run'[d].domain = dm
        /\ run'[d].visits = run[d].visits /\ run'[d].listed = run[d].listed
        /\ run'[d].toTrack = here /\ run'[d].names = names
        /\ SameCall(d) /\ SameMarks(d)
    <3> HIDE DEF here, names
    <3> QED
      BY <1>3, BecomesIs DEF RunState, SameCall, SameMarks
  <2> QED
    BY <1>3, <2>1 DEF EnterDomain
<1> QED
  BY <1>2, <1>3 DEF EnterDomain

(* One account gets its row, or the deployment fails.                       *)
LEMMA AfterTrack ==
  ASSUME TypeOK, NEW d \in Deploys, TrackAccount(d)
  PROVE  /\ run[d].phase = "track"
         /\ UNCHANGED <<accounts, directory, edit, byHand>>
         /\ \/ Ended(d, "failed") /\ UNCHANGED rows
            \/ \E l \in run[d].toTrack, i \in RowIds :
                 /\ Visible(d, l)
                 /\ i \notin DOMAIN rows
                 /\ rows' = CreateRow(rows, i,
                              [account |-> l.id, name |-> Seen(d, l).name,
                               domain |-> l.domain, status |-> "pending"])
                 /\ run'[d].phase = "track"
                 /\ run'[d].toTrack = run[d].toTrack \ {l}
                 /\ run'[d].mine = run[d].mine \cup {i}
                 /\ run'[d].listed = run[d].listed
                 /\ run'[d].names = run[d].names
                 /\ run'[d].outcome = run[d].outcome
                 /\ SamePlace(d) /\ SameMarks(d)
<1>1. PICK l \in run[d].toTrack :
        \/ Ends(d, "failed") /\ UNCHANGED rows
        \/ /\ Visible(d, l)
           /\ \E i \in RowIds :
                /\ IsNextId(rows, i)
                /\ rows' = CreateRow(rows, i,
                     [account |-> l.id, name |-> Seen(d, l).name,
                      domain |-> l.domain, status |-> "pending"])
                /\ Becomes(d, [run[d] EXCEPT !.toTrack = @ \ {l},
                     !.mine = @ \cup {i}, !.view = "expired"])
  BY DEF TrackAccount
<1>2. ASSUME NEW i \in RowIds,
             Becomes(d, [run[d] EXCEPT !.toTrack = @ \ {l},
                           !.mine = @ \cup {i}, !.view = "expired"])
      PROVE  /\ run'[d].phase = run[d].phase
             /\ run'[d].toTrack = run[d].toTrack \ {l}
             /\ run'[d].mine = run[d].mine \cup {i}
             /\ run'[d].listed = run[d].listed
             /\ run'[d].names = run[d].names
             /\ run'[d].outcome = run[d].outcome
             /\ SamePlace(d) /\ SameMarks(d)
  <2>1. run'[d] = [run[d] EXCEPT !.toTrack = @ \ {l}, !.mine = @ \cup {i},
                                 !.view = "expired"]
    BY <1>2, BecomesIs
  <2> QED
    BY <2>1, BecomesIs DEF RunState, SamePlace, SameMarks
<1>3. ASSUME NEW i \in RowIds, IsNextId(rows, i) PROVE i \notin DOMAIN rows
  BY <1>3, IdsAreNumbers, NextIdIsNew
<1>4. run[d].phase = "track" /\ UNCHANGED <<accounts, directory, edit, byHand>>
  BY DEF TrackAccount
<1> QED
  BY <1>1, <1>2, <1>3, <1>4, BecomesIs

(* The playbook ran: all its names are there, or some.                      *)
LEMMA AfterPush ==
  ASSUME TypeOK, NEW d \in Deploys, RunPush(d)
  PROVE  /\ run[d].phase = "track" /\ run'[d].phase = "record"
         /\ run[d].toTrack = {}
         /\ run'[d].outcome \in {"done", "failed"}
         /\ \E some \in SUBSET run[d].names :
              /\ directory' = directory \cup {<<run[d].domain, n>> : n \in some}
              /\ run'[d].outcome = "done" => some = run[d].names
         /\ run'[d].mine = run[d].mine
         /\ SameLists(d) /\ SamePlace(d) /\ SameMarks(d)
         /\ UNCHANGED <<accounts, rows, edit, byHand>>
<1>1. PICK some \in SUBSET run[d].names, o \in {"done", "failed"} :
        /\ directory' = directory \cup {<<run[d].domain, n>> : n \in some}
        /\ o = "done" => some = run[d].names
        /\ Becomes(d, [run[d] EXCEPT !.phase = "record", !.outcome = o])
  BY DEF RunPush
<1>2. run'[d] = [run[d] EXCEPT !.phase = "record", !.outcome = o]
  BY <1>1, BecomesIs
<1>3. /\ run'[d].phase = "record" /\ run'[d].outcome = o /\ run'[d].mine = run[d].mine
      /\ SameLists(d) /\ SamePlace(d) /\ SameMarks(d)
  BY <1>2, BecomesIs DEF RunState, SameLists, SamePlace, SameMarks
<1> QED
  BY <1>1, <1>3 DEF RunPush

(* One row of the call takes its result.                                    *)
LEMMA AfterRecordPush ==
  ASSUME TypeOK, NEW d \in Deploys, RecordPush(d)
  PROVE  /\ run[d].phase = "record" /\ run'[d].phase = "record"
         /\ \E i \in run[d].mine :
              /\ rows' = UpdateStatus(rows, i, IF run[d].outcome = "done"
                                               THEN "applied" ELSE "error")
              /\ run'[d].mine = run[d].mine \ {i}
         /\ run'[d].outcome = run[d].outcome
         /\ SameLists(d) /\ SamePlace(d) /\ SameMarks(d)
         /\ UNCHANGED <<accounts, directory, edit, byHand>>
<1>1. PICK i \in run[d].mine :
        /\ rows' = UpdateStatus(rows, i, IF run[d].outcome = "done"
                                         THEN "applied" ELSE "error")
        /\ Becomes(d, [run[d] EXCEPT !.mine = @ \ {i}, !.view = "expired"])
  BY DEF RecordPush
<1>2. run'[d] = [run[d] EXCEPT !.mine = @ \ {i}, !.view = "expired"]
  BY <1>1, BecomesIs
<1>3. /\ run'[d].phase = run[d].phase /\ run'[d].mine = run[d].mine \ {i}
      /\ run'[d].outcome = run[d].outcome
      /\ SameLists(d) /\ SamePlace(d) /\ SameMarks(d)
  BY <1>2, BecomesIs DEF RunState, SameLists, SamePlace, SameMarks
<1> QED
  BY <1>1, <1>3 DEF RecordPush

(* The domain is left behind, or its failed call ends the deployment.       *)
LEMMA AfterLeave ==
  ASSUME TypeOK, NEW d \in Deploys, LeaveDomain(d)
  PROVE  /\ run[d].phase = "record" /\ run[d].mine = {}
         /\ UNCHANGED <<accounts, rows, directory, edit, byHand>>
         /\ \/ Ended(d, "failed")
            \/ /\ run[d].outcome = "done"
               /\ run'[d].phase = "push"
               /\ run'[d].visits = run[d].visits \ {run[d].domain}
               /\ run'[d].listed = run[d].listed
               /\ run'[d].toTrack = run[d].toTrack
               /\ run'[d].names = {}
               /\ run'[d].mine = {}
               /\ SameMarks(d)
<1>1. CASE run[d].outcome = "done"
  <2>1. run'[d] = [run[d] EXCEPT !.phase = "push", !.names = {}, !.outcome = "unknown",
                     !.domain = 0, !.visits = @ \ {run[d].domain}]
    BY <1>1, BecomesIs DEF LeaveDomain
  <2>2. run[d].mine = {}
    BY DEF LeaveDomain
  <2> QED
    BY <1>1, <2>1, <2>2, BecomesIs DEF LeaveDomain, RunState, SameMarks
<1>2. CASE run[d].outcome # "done"
  BY <1>2, BecomesIs DEF LeaveDomain
<1> QED
  BY <1>1, <1>2

(* The push is over: the deployment passes, or goes on to the marks.        *)
LEMMA AfterEndPush ==
  ASSUME TypeOK, NEW d \in Deploys, EndPush(d)
  PROVE  /\ run[d].phase = "push" /\ run[d].visits = {}
         /\ UNCHANGED <<accounts, rows, directory, edit, byHand>>
         /\ \/ run[d].marked = {} /\ Ended(d, "passed")
            \/ /\ run[d].marked # {}
               /\ run'[d].phase = "reverse"
               /\ run'[d].listed = {}
               /\ run'[d].visits = Own(d)
               /\ run'[d].toTrack = run[d].toTrack
               /\ run'[d].names = run[d].names
               /\ SameCall(d) /\ SameMarks(d)
<1>1. CASE run[d].marked # {}
  <2>1. run'[d] = [run[d] EXCEPT !.phase = "reverse", !.listed = {}, !.visits = Own(d)]
    BY <1>1, BecomesIs DEF EndPush
  <2> QED
    BY <1>1, <2>1, BecomesIs DEF EndPush, RunState, SameCall, SameMarks
<1>2. CASE run[d].marked = {}
  BY <1>2, BecomesIs DEF EndPush
<1> QED
  BY <1>1, <1>2

(* A domain is entered to reverse what is marked, passed over for want of   *)
(* an address, or ends the deployment.                                      *)
LEMMA AfterEnterReversal ==
  ASSUME TypeOK, NEW d \in Deploys, EnterReversal(d)
  PROVE  /\ run[d].phase = "reverse"
         /\ UNCHANGED <<accounts, rows, directory, edit, byHand>>
         /\ \/ Ended(d, "failed")
            \/ /\ run'[d].phase = "reverse"
               /\ run'[d].visits \subseteq run[d].visits
               /\ run'[d].failure = "yes"
               /\ run'[d].toReverse = run[d].toReverse
               /\ run'[d].marked = run[d].marked
               /\ SameLists(d) /\ SameCall(d)
            \/ /\ run'[d].phase = "script"
               /\ run'[d].domain \in run[d].visits
               /\ RootDc[run'[d].domain] = "ok"
               /\ run'[d].visits = run[d].visits
               /\ run'[d].toReverse = run[d].marked
               /\ run'[d].marked = run[d].marked
               /\ run'[d].failure = run[d].failure
               /\ SameLists(d) /\ SameCall(d)
<1>0. run[d].visits \subseteq Domains
  BY BecomesIs DEF RunState
<1>1. PICK dm \in run[d].visits :
        CASE RootDc[dm] = "missing" -> Ends(d, "failed")
          [] RootDc[dm] = "no_ip"   -> Becomes(d, [run[d] EXCEPT
               !.visits = @ \ {dm}, !.failure = "yes"])
          [] RootDc[dm] = "ok"      -> Becomes(d, [run[d] EXCEPT
               !.phase = "script", !.domain = dm, !.toReverse = run[d].marked])
  BY DEF EnterReversal
<1>2. RootDc[dm] \in {"missing", "no_ip", "ok"}
  BY <1>0, LabAssumption
<1>3. run[d].phase = "reverse" /\ UNCHANGED <<accounts, rows, directory, edit, byHand>>
  BY DEF EnterReversal
<1>4. CASE RootDc[dm] = "missing"
  BY <1>1, <1>3, <1>4, BecomesIs
<1>5. CASE RootDc[dm] = "no_ip"
  <2>1. run'[d] = [run[d] EXCEPT !.visits = @ \ {dm}, !.failure = "yes"]
    BY <1>1, <1>5, BecomesIs
  <2> QED
    BY <1>3, <2>1, BecomesIs DEF RunState, SameLists, SameCall
<1>6. CASE RootDc[dm] = "ok"
  <2>1. run'[d] = [run[d] EXCEPT !.phase = "script", !.domain = dm,
                                 !.toReverse = run[d].marked]
    BY <1>1, <1>6, BecomesIs
  <2> QED
    BY <1>3, <1>6, <2>1, BecomesIs DEF RunState, SameLists, SameCall
<1> QED
  BY <1>2, <1>4, <1>5, <1>6

(* The reverse script ran for the first row left: the account is gone from  *)
(* this domain, or the failure is noted and the row passed over.            *)
LEMMA AfterReversal ==
  ASSUME TypeOK, NEW d \in Deploys, RunReversal(d)
  PROVE  /\ run[d].phase = "script"
         /\ SameLists(d) /\ SameCall(d) /\ SamePlace(d)
         /\ run'[d].marked = run[d].marked
         /\ UNCHANGED <<accounts, rows, edit, byHand>>
         /\ \E i \in run[d].toReverse : \E n :
              LET gone == directory \ {<<run[d].domain, n>>}
              IN  /\ IsFirst(i, run[d].toReverse)
                  /\ i \in DOMAIN rows => n = rows[i].name
                  /\ \/ /\ directory' = gone
                        /\ run'[d].phase = "forget"
                        /\ run'[d].toReverse = run[d].toReverse
                        /\ run'[d].failure = run[d].failure
                     \/ /\ directory' \in {directory, gone}
                        /\ run'[d].phase = "script"
                        /\ run'[d].toReverse = run[d].toReverse \ {i}
                        /\ run'[d].failure = "yes"
<1>0. PICK i \in run[d].toReverse : \E t \in SeenRows(d, i) :
        LET gone == directory \ {<<run[d].domain, t.place[2]>>}
        IN  /\ IsFirst(i, run[d].toReverse)
            /\ \/ /\ directory' = gone
                  /\ Becomes(d, [run[d] EXCEPT !.phase = "forget"])
               \/ /\ directory' \in {directory, gone}
                  /\ Becomes(d, [run[d] EXCEPT !.toReverse = @ \ {i},
                                              !.failure = "yes"])
  BY DEF RunReversal
<1>1. PICK t \in SeenRows(d, i) :
        LET gone == directory \ {<<run[d].domain, t.place[2]>>}
        IN  /\ IsFirst(i, run[d].toReverse)
            /\ \/ /\ directory' = gone
                  /\ Becomes(d, [run[d] EXCEPT !.phase = "forget"])
               \/ /\ directory' \in {directory, gone}
                  /\ Becomes(d, [run[d] EXCEPT !.toReverse = @ \ {i},
                                              !.failure = "yes"])
  BY <1>0
<1>2. ASSUME Becomes(d, [run[d] EXCEPT !.phase = "forget"])
      PROVE  /\ run'[d].phase = "forget"
             /\ run'[d].toReverse = run[d].toReverse
             /\ run'[d].failure = run[d].failure
             /\ run'[d].marked = run[d].marked
             /\ SameLists(d) /\ SameCall(d) /\ SamePlace(d)
  <2>1. run'[d] = [run[d] EXCEPT !.phase = "forget"]
    BY <1>2, BecomesIs
  <2> QED
    BY <2>1, BecomesIs DEF RunState, SameLists, SameCall, SamePlace
<1>3. ASSUME Becomes(d, [run[d] EXCEPT !.toReverse = @ \ {i}, !.failure = "yes"])
      PROVE  /\ run'[d].phase = run[d].phase
             /\ run'[d].toReverse = run[d].toReverse \ {i}
             /\ run'[d].failure = "yes"
             /\ run'[d].marked = run[d].marked
             /\ SameLists(d) /\ SameCall(d) /\ SamePlace(d)
  <2>1. run'[d] = [run[d] EXCEPT !.toReverse = @ \ {i}, !.failure = "yes"]
    BY <1>3, BecomesIs
  <2> QED
    BY <2>1, BecomesIs DEF RunState, SameLists, SameCall, SamePlace
<1>4. run[d].phase = "script" /\ UNCHANGED <<accounts, rows, edit, byHand>>
  BY DEF RunReversal
<1>5. i \in DOMAIN rows => t.place[2] = rows[i].name
  BY DEF SeenRows, Place
<1> QED
  BY <1>1, <1>2, <1>3, <1>4, <1>5

(* The account of the first row left is deleted.                            *)
LEMMA AfterForget ==
  ASSUME TypeOK, NEW d \in Deploys, ForgetAccount(d)
  PROVE  /\ run[d].phase = "forget" /\ run'[d].phase = "close"
         /\ SameLists(d) /\ SameCall(d) /\ SamePlace(d) /\ SameMarks(d)
         /\ UNCHANGED <<rows, directory, edit, byHand>>
         /\ \E i \in run[d].toReverse : \E b :
              /\ IsFirst(i, run[d].toReverse)
              /\ i \in DOMAIN rows => b = rows[i].account
              /\ accounts' = [a \in DOMAIN accounts \ {b} |-> accounts[a]]
<1>1. run'[d] = [run[d] EXCEPT !.phase = "close", !.view = "expired"]
  BY BecomesIs DEF ForgetAccount
<1>2. /\ run'[d].phase = "close"
      /\ SameLists(d) /\ SameCall(d) /\ SamePlace(d) /\ SameMarks(d)
  BY <1>1, BecomesIs DEF RunState, SameLists, SameCall, SamePlace, SameMarks
<1>3. PICK i \in run[d].toReverse : \E t \in SeenRows(d, i) :
        /\ IsFirst(i, run[d].toReverse)
        /\ accounts' = [a \in DOMAIN accounts \ {t.account} |-> accounts[a]]
  BY DEF ForgetAccount
<1>4. \A t \in SeenRows(d, i) : i \in DOMAIN rows => t.account = rows[i].account
  BY DEF SeenRows
<1> QED
  BY <1>2, <1>3, <1>4 DEF ForgetAccount

(* The first row left is closed.                                            *)
LEMMA AfterClose ==
  ASSUME TypeOK, NEW d \in Deploys, CloseReversal(d)
  PROVE  /\ run[d].phase = "close" /\ run'[d].phase = "script"
         /\ SameLists(d) /\ SameCall(d) /\ SamePlace(d)
         /\ run'[d].marked = run[d].marked
         /\ run'[d].failure = run[d].failure
         /\ UNCHANGED <<accounts, directory, edit, byHand>>
         /\ \E i \in run[d].toReverse :
              /\ IsFirst(i, run[d].toReverse)
              /\ rows' = UpdateStatus(rows, i, "reverted_applied")
              /\ run'[d].toReverse = run[d].toReverse \ {i}
<1>1. PICK i \in run[d].toReverse :
        /\ IsFirst(i, run[d].toReverse)
        /\ rows' = UpdateStatus(rows, i, "reverted_applied")
        /\ Becomes(d, [run[d] EXCEPT !.phase = "script", !.toReverse = @ \ {i}])
  BY DEF CloseReversal
<1>2. run'[d] = [run[d] EXCEPT !.phase = "script", !.toReverse = @ \ {i}]
  BY <1>1, BecomesIs
<1>3. /\ run'[d].phase = "script"
      /\ run'[d].toReverse = run[d].toReverse \ {i}
      /\ run'[d].marked = run[d].marked
      /\ run'[d].failure = run[d].failure
      /\ SameLists(d) /\ SameCall(d) /\ SamePlace(d)
  BY <1>2, BecomesIs DEF RunState, SameLists, SameCall, SamePlace
<1> QED
  BY <1>1, <1>3 DEF CloseReversal

(* The domain is left.                                                      *)
LEMMA AfterLeaveReversal ==
  ASSUME TypeOK, NEW d \in Deploys, LeaveReversal(d)
  PROVE  /\ run[d].phase = "script" /\ run'[d].phase = "reverse"
         /\ run[d].toReverse = {}
         /\ run'[d].visits = run[d].visits \ {run[d].domain}
         /\ SameLists(d) /\ SameCall(d) /\ SameMarks(d)
         /\ UNCHANGED <<accounts, rows, directory, edit, byHand>>
<1>1. run'[d] = [run[d] EXCEPT !.phase = "reverse", !.domain = 0,
                               !.visits = @ \ {run[d].domain}]
  BY BecomesIs DEF LeaveReversal
<1> QED
  BY <1>1, BecomesIs DEF LeaveReversal, RunState, SameLists, SameCall, SameMarks

(* The deployment ends, as it should or by an accident.                     *)
LEMMA AfterEnd ==
  ASSUME TypeOK, NEW d \in Deploys, EndReversal(d) \/ Abort(d)
  PROVE  /\ run[d].phase \notin Stopped
         /\ UNCHANGED <<accounts, rows, directory, edit, byHand>>
         /\ \/ Ended(d, "failed")
            \/ /\ Ended(d, "passed")
               /\ run[d].phase = "reverse" /\ run[d].visits = {}
               /\ run[d].failure # "yes"
<1>1. CASE EndReversal(d)
  BY <1>1, BecomesIs DEF EndReversal, Stopped
<1>2. CASE Abort(d)
  BY <1>2, BecomesIs DEF Abort
<1> QED
  BY <1>1, <1>2

(* A step is a deployment's, or one of the operator's.                      *)
LEMMA WhoActs ==
  ASSUME TypeOK, [Next]_vars
  PROVE  \/ \E d \in Deploys : Deploy(d) /\ \A e \in Deploys \ {d} : run'[e] = run[e]
         \/ Operator /\ UNCHANGED run
         \/ UNCHANGED vars
<1>1. Operator => UNCHANGED run
  BY DEF Operator, CreateAccount, LookUpDeleted, CommitDelete, DeployUser,
         RemoveRow, OverwriteRow
<1> QED
  BY <1>1, OthersStay DEF Next

-----------------------------------------------------------------------------
(* The shape of a deployment: which of its parts are in use in which phase. *)
(* It needs no discipline.                                                  *)

Shape(d) ==
  LET r == run[d]
  IN  /\ r.phase \notin {"plan", "push", "track", "record"} => r.listed = {}
      /\ r.phase # "track" => r.toTrack = {}
      /\ r.phase \notin {"track", "record"} => r.names = {} /\ r.mine = {}
      /\ r.phase \notin {"script", "forget", "close"} => r.toReverse = {}
      /\ r.phase \in Stopped \cup {"plan"} => r.marked = {}
      /\ r.phase \in {"plan", "push", "track", "record"} => r.failure = "no"
      /\ r.visits \subseteq Own(d)
      /\ \A l \in r.listed : l.domain \in Own(d)
      /\ r.toTrack \subseteq {l \in r.listed : l.domain = r.domain}
      /\ r.phase \in {"track", "record"} => r.domain \in r.visits \cap Reachable
      /\ r.phase \in {"script", "forget", "close"} =>
           r.domain \in r.visits /\ RootDc[r.domain] = "ok"

Shapes == \A d \in Deploys : Shape(d)

(* An ended deployment is in shape.                                         *)
LEMMA EndedShape ==
  ASSUME NEW d \in Deploys, NEW p \in Stopped, Ended(d, p)
  PROVE  Shape(d)'
  BY NotRunningIsEmpty DEF Ended, Shape, Stopped

(* What a deployment lists is of its project's domains, and so is what it   *)
(* sets out to visit.                                                       *)
LEMMA ListedIsOwn ==
  ASSUME NEW d \in Deploys
  PROVE  ToVisit(d) \subseteq Own(d) /\ \A l \in NotPushed(d) : l.domain \in Own(d)
  BY DEF ToVisit, NotPushed

(* Every step of a deployment keeps its shape.                              *)
LEMMA ShapeStep ==
  ASSUME TypeOK, NEW d \in Deploys, Shape(d), Deploy(d)
  PROVE  Shape(d)'
<1> USE DEF Shape, SameLists, SameCall, SamePlace, SameMarks, Stopped
<1>0. \A p \in {"passed", "failed"} : Ended(d, p) => Shape(d)'
  BY EndedShape DEF Stopped
<1>1. CASE Start(d)
  BY <1>1, AfterStart, ListedIsOwn
<1>2. CASE Plan(d)
  BY <1>2, AfterPlan
<1>3. CASE SkipDomain(d)
  BY <1>3, AfterSkip
<1>4. CASE EnterDomain(d)
  <2>1. CASE Ended(d, "failed")
    BY <1>0, <2>1
  <2>2. CASE ~Ended(d, "failed")
    BY <1>4, <2>2, AfterEnter
  <2> QED
    BY <2>1, <2>2
<1>5. CASE TrackAccount(d)
  <2>1. CASE Ended(d, "failed")
    BY <1>0, <2>1
  <2>2. CASE ~Ended(d, "failed")
    BY <1>5, <2>2, AfterTrack
  <2> QED
    BY <2>1, <2>2
<1>6. CASE RunPush(d)
  BY <1>6, AfterPush
<1>7. CASE RecordPush(d)
  BY <1>7, AfterRecordPush
<1>8. CASE LeaveDomain(d)
  BY <1>0, <1>8, AfterLeave
<1>9. CASE EndPush(d)
  BY <1>0, <1>9, AfterEndPush
<1>10. CASE EnterReversal(d)
  BY <1>0, <1>10, AfterEnterReversal
<1>11. CASE RunReversal(d)
  BY <1>11, AfterReversal
<1>12. CASE ForgetAccount(d)
  BY <1>12, AfterForget
<1>13. CASE CloseReversal(d)
  BY <1>13, AfterClose
<1>14. CASE LeaveReversal(d)
  BY <1>14, AfterLeaveReversal
<1>15. CASE EndReversal(d) \/ Abort(d)
  BY <1>0, <1>15, AfterEnd
<1> HIDE DEF Shape
<1> QED
  BY <1>1, <1>2, <1>3, <1>4, <1>5, <1>6, <1>7, <1>8, <1>9, <1>10, <1>11, <1>12,
     <1>13, <1>14, <1>15 DEF Deploy

(* What every later invariant starts from.                                  *)
LocalInv == TypeInv /\ Shapes

(* It holds of every reachable state.                                       *)
LEMMA ShapesHold == Spec => []LocalInv
<1>1. Init => LocalInv
  <2> SUFFICES ASSUME Init PROVE LocalInv
    OBVIOUS
  <2>1. \A d \in Deploys : run[d] = NotRunning("idle")
    BY DEF Init
  <2>2. \A d \in Deploys : Shape(d)
    BY <2>1, NotRunningIsEmpty DEF Shape
  <2> QED
    BY <2>2, InitType DEF LocalInv, Shapes
<1>2. TypeInv /\ Shapes /\ [Next]_vars => Shapes'
  <2> SUFFICES ASSUME TypeOK, Shapes, [Next]_vars, NEW d \in Deploys PROVE Shape(d)'
    BY DEF Shapes, TypeInv
  <2>1. CASE run'[d] = run[d]
    BY <2>1 DEF Shapes, Shape
  <2>2. CASE Deploy(d)
    BY <2>2, ShapeStep DEF Shapes
  <2>3. Deploy(d) \/ run'[d] = run[d]
    BY WhoActs DEF vars
  <2> QED
    BY <2>1, <2>2, <2>3
<1> QED
  BY <1>1, <1>2, TypesHold, PTL DEF LocalInv, Spec

-----------------------------------------------------------------------------
(* Who writes the tracking table.                                           *)

Reverted == {"reverted_pending", "reverted_applied"}

(* The statement of _update_template_status, row by row.                    *)
LEMMA AfterUpdate ==
  ASSUME TypeOK, NEW i, NEW st, rows' = UpdateStatus(rows, i, st)
  PROVE  /\ DOMAIN rows' = DOMAIN rows
         /\ \A j \in DOMAIN rows \ {i} : rows'[j] = rows[j]
         /\ i \in DOMAIN rows => rows'[i].status = st
         /\ \A j \in DOMAIN rows : /\ rows'[j].account = rows[j].account
                                   /\ Place(j)' = Place(j)
<1>1. /\ DOMAIN rows' = DOMAIN rows
      /\ \A j \in DOMAIN rows \ {i} : rows'[j] = rows[j]
      /\ i \in DOMAIN rows => rows'[i] = [rows[i] EXCEPT !.status = st]
  BY UpdatedStatus
<1>2. i \in DOMAIN rows =>
        /\ [rows[i] EXCEPT !.status = st].status = st
        /\ [rows[i] EXCEPT !.status = st].account = rows[i].account
        /\ [rows[i] EXCEPT !.status = st].domain = rows[i].domain
        /\ [rows[i] EXCEPT !.status = st].name = rows[i].name
  BY DEF TypeOK, PushRow
<1> QED
  BY <1>1, <1>2 DEF Place

(* A mark is written by the operator's deletion, in one commit.             *)
Marks(i) ==
  /\ edit # NoEdit /\ edit.row = i
  /\ rows' = UpdateStatus(rows, i, "reverted_pending")
  /\ UNCHANGED run

(* A row is thrown away by the operator, or its status is overwritten.      *)
Discards == \E i \in RowIds : RemoveRow(i) \/ OverwriteRow(i)

(* What is left of the rows then, and what is known of the others: they are *)
(* on record.                                                               *)
LEMMA AfterDiscard ==
  ASSUME TypeOK, Discards
  PROVE  /\ MayEdit("rows")
         /\ UNCHANGED <<accounts, directory, edit, run, byHand>>
         /\ discarded \subseteq discarded'
         /\ \A j \in DOMAIN rows' :
              /\ j \in DOMAIN rows
              /\ Place(j)' = Place(j)
              /\ rows'[j].account = rows[j].account
              /\ rows'[j].status \in {rows[j].status, "error"}
         /\ \A j \in DOMAIN rows :
              \/ j \in DOMAIN rows' /\ rows'[j] = rows[j] /\ Place(j)' = Place(j)
              \/ Place(j) \in DiscardedPlaces' /\ (RemoveRow(j) \/ OverwriteRow(j))
<1>1. PICK i \in RowIds : RemoveRow(i) \/ OverwriteRow(i)
  BY DEF Discards
<1>2. /\ i \in DOMAIN rows /\ NoteDiscard(i) /\ MayEdit("rows")
      /\ UNCHANGED <<accounts, directory, edit, run, byHand>>
  BY <1>1 DEF RemoveRow, OverwriteRow
<1>3. discarded \subseteq discarded' /\ Place(i) \in DiscardedPlaces'
  BY <1>2, DiscardStep
<1>4. CASE RemoveRow(i)
  <2>1. /\ DOMAIN rows' = DOMAIN rows \ {i}
        /\ \A j \in DOMAIN rows \ {i} : rows'[j] = rows[j]
    BY <1>4, DeletedRow DEF RemoveRow
  <2> QED
    BY <1>1, <1>2, <1>3, <2>1 DEF Place
<1>5. CASE OverwriteRow(i)
  <2>1. rows' = UpdateStatus(rows, i, "error")
    BY <1>5 DEF OverwriteRow
  <2>2. /\ DOMAIN rows' = DOMAIN rows
        /\ \A j \in DOMAIN rows \ {i} : rows'[j] = rows[j]
        /\ rows'[i].status = "error"
        /\ \A j \in DOMAIN rows : rows'[j].account = rows[j].account /\ Place(j)' = Place(j)
    BY <1>2, <2>1, AfterUpdate
  <2> QED
    BY <1>1, <1>2, <1>3, <2>2
<1> QED
  BY <1>1, <1>4, <1>5

(* When the operator waits with it, no deployment is concerned.             *)
LEMMA DiscardIsIdle ==
  ASSUME TypeOK, Shapes, Discards, "rows" \notin EditsDuringDeploy
  PROVE  /\ Quiet /\ Quiet'
         /\ \A d \in Deploys :
              /\ run'[d] = run[d] /\ run[d].phase \in Stopped
              /\ run[d].mine = {} /\ run[d].toReverse = {}
              /\ run[d].listed = {} /\ run[d].marked = {}
<1>1. Quiet /\ UNCHANGED run
  BY AfterDiscard DEF MayEdit
<1> QED
  BY <1>1 DEF Quiet, Shapes, Shape, Stopped

(* Otherwise the table changes in four ways only.                           *)
LEMMA RowWriters ==
  ASSUME TypeOK, [Next]_vars, ~Discards
  PROVE  \/ UNCHANGED rows
         \/ \E i : Marks(i)
         \/ \E d \in Deploys : TrackAccount(d) \/ RecordPush(d) \/ CloseReversal(d)
<1>1. CommitDelete => UNCHANGED rows \/ Marks(edit.row)
  BY DEF CommitDelete, Marks
<1>2. \/ UNCHANGED rows
      \/ CommitDelete
      \/ \E d \in Deploys : TrackAccount(d) \/ RecordPush(d) \/ CloseReversal(d)
  BY DEF Discards, Next, Operator, Deploy, CreateAccount, LookUpDeleted, DeployUser,
         Start, Plan, SkipDomain, EnterDomain, RunPush, LeaveDomain, EndPush,
         EnterReversal, RunReversal, ForgetAccount, LeaveReversal, EndReversal,
         Abort, vars
<1> QED
  BY <1>1, <1>2

(* Account l of the list gets row i.                                        *)
Tracks(d, l, i) ==
  /\ l \in run[d].toTrack /\ Visible(d, l)
  /\ i \in RowIds \ DOMAIN rows
  /\ DOMAIN rows' = DOMAIN rows \cup {i}
  /\ \A j \in DOMAIN rows : rows'[j] = rows[j] /\ Place(j)' = Place(j)
  /\ rows'[i].account = l.id
  /\ rows'[i].status = "pending"
  /\ Place(i)' = <<l.domain, Seen(d, l).name>>
  /\ run'[d].toTrack = run[d].toTrack \ {l}
  /\ run'[d].mine = run[d].mine \cup {i}
  /\ run'[d].phase = "track"
  /\ run'[d].listed = run[d].listed
  /\ run'[d].names = run[d].names
  /\ run'[d].outcome = run[d].outcome
  /\ SamePlace(d) /\ SameMarks(d)

(* The row a deployment creates, and the others.                            *)
LEMMA TracksOne ==
  ASSUME TypeOK, NEW d \in Deploys, TrackAccount(d)
  PROVE  \/ Ended(d, "failed") /\ UNCHANGED rows
         \/ \E l, i : Tracks(d, l, i)
<1> SUFFICES ASSUME ~(Ended(d, "failed") /\ UNCHANGED rows)
             PROVE  \E l, i : Tracks(d, l, i)
  OBVIOUS
<1> DEFINE row(l) == [account |-> l.id, name |-> Seen(d, l).name,
                      domain |-> l.domain, status |-> "pending"]
<1>1. \A l : /\ row(l).account = l.id /\ row(l).status = "pending"
             /\ row(l).domain = l.domain /\ row(l).name = Seen(d, l).name
  OBVIOUS
<1>2. PICK l \in run[d].toTrack, i \in RowIds :
        /\ Visible(d, l)
        /\ i \notin DOMAIN rows
        /\ rows' = CreateRow(rows, i, row(l))
        /\ run'[d].phase = "track"
        /\ run'[d].toTrack = run[d].toTrack \ {l}
        /\ run'[d].mine = run[d].mine \cup {i}
        /\ run'[d].listed = run[d].listed
        /\ run'[d].names = run[d].names
        /\ run'[d].outcome = run[d].outcome
        /\ SamePlace(d) /\ SameMarks(d)
  BY AfterTrack
<1> HIDE DEF row
<1>3. /\ DOMAIN rows' = DOMAIN rows \cup {i}
      /\ rows'[i] = row(l)
      /\ \A j \in DOMAIN rows : rows'[j] = rows[j]
  BY <1>2 DEF CreateRow
<1>4. /\ \A j \in DOMAIN rows : Place(j)' = Place(j)
      /\ Place(i)' = <<l.domain, Seen(d, l).name>>
  BY <1>1, <1>3 DEF Place
<1>5. rows'[i].account = l.id /\ rows'[i].status = "pending"
  BY <1>1, <1>3
<1>6. Tracks(d, l, i)
  BY <1>2, <1>3, <1>4, <1>5 DEF Tracks
<1> QED
  BY <1>6

(* A row keeps its account and its place until it is discarded.             *)
LEMMA RowsKeep ==
  ASSUME TypeOK, [Next]_vars, ~Discards, NEW i \in DOMAIN rows
  PROVE  /\ i \in DOMAIN rows'
         /\ rows'[i].account = rows[i].account
         /\ Place(i)' = Place(i)
<1> DEFINE Kept == /\ i \in DOMAIN rows'
                   /\ rows'[i].account = rows[i].account
                   /\ Place(i)' = Place(i)
<1>1. CASE UNCHANGED rows
  BY <1>1 DEF Place
<1>2. ASSUME NEW j, NEW st, rows' = UpdateStatus(rows, j, st)
      PROVE  Kept
  BY <1>2, AfterUpdate
<1>3. ASSUME NEW j, Marks(j) PROVE Kept
  BY <1>2, <1>3 DEF Marks
<1>4. ASSUME NEW d \in Deploys, TrackAccount(d) PROVE Kept
  <2>1. i \in DOMAIN rows' /\ rows'[i] = rows[i]
    BY <1>4, TracksOne DEF Tracks
  <2> QED
    BY <2>1 DEF Place
<1>5. ASSUME NEW d \in Deploys, RecordPush(d) PROVE Kept
  BY <1>2, <1>5, AfterRecordPush
<1>6. ASSUME NEW d \in Deploys, CloseReversal(d) PROVE Kept
  BY <1>2, <1>6, AfterClose
<1> QED
  BY <1>1, <1>3, <1>4, <1>5, <1>6, RowWriters

(* A deployment's step adds to its rows at most the one it creates.         *)
LEMMA MineSteps ==
  ASSUME TypeOK, [Next]_vars, NEW d \in Deploys, NEW i \in run'[d].mine
  PROVE  \/ i \in run[d].mine
         \/ /\ TrackAccount(d)
            /\ i \notin DOMAIN rows /\ i \in DOMAIN rows'
            /\ rows'[i].status = "pending"
<1> USE DEF SameCall
<1>1. CASE run'[d] = run[d]
  BY <1>1
<1>2. CASE \E p : Ended(d, p)
  BY <1>2, NotRunningIsEmpty DEF Ended
<1>3. CASE TrackAccount(d) /\ ~Ended(d, "failed")
  <2>1. PICK l, j : Tracks(d, l, j)
    BY <1>3, TracksOne
  <2> QED
    BY <1>3, <2>1 DEF Tracks
<1>4. CASE Start(d) \/ Plan(d) \/ SkipDomain(d) \/ EnterDomain(d) \/ RunPush(d)
  BY <1>2, <1>4, AfterStart, AfterPlan, AfterSkip, AfterEnter, AfterPush
<1>5. CASE RecordPush(d) \/ LeaveDomain(d) \/ EndPush(d) \/ EnterReversal(d)
  BY <1>2, <1>5, AfterRecordPush, AfterLeave, AfterEndPush, AfterEnterReversal
<1>6. CASE RunReversal(d) \/ ForgetAccount(d) \/ CloseReversal(d) \/ LeaveReversal(d)
           \/ EndReversal(d) \/ Abort(d)
  BY <1>2, <1>6, AfterReversal, AfterForget, AfterClose, AfterLeaveReversal, AfterEnd
<1> QED
  BY <1>1, <1>2, <1>3, <1>4, <1>5, <1>6, WhoActs DEF Deploy, vars

(* Nor does it add to the rows it is to reverse, but when it reads them.    *)
LEMMA MarkSteps ==
  ASSUME TypeOK, [Next]_vars, NEW d \in Deploys, NEW i \in run'[d].marked \cup run'[d].toReverse
  PROVE  \/ i \in run[d].marked \cup run[d].toReverse
         \/ Plan(d) /\ UNCHANGED rows /\ i \in RowsWith(rows, {"reverted_pending"})
<1> USE DEF SameMarks
<1>1. CASE run'[d] = run[d]
  BY <1>1
<1>2. CASE \E p : Ended(d, p)
  BY <1>2, NotRunningIsEmpty DEF Ended
<1>3. CASE Plan(d)
  BY <1>3, AfterPlan
<1>4. CASE Start(d) \/ SkipDomain(d) \/ EnterDomain(d) \/ TrackAccount(d) \/ RunPush(d)
  BY <1>2, <1>4, AfterStart, AfterSkip, AfterEnter, AfterTrack, AfterPush
<1>5. CASE RecordPush(d) \/ LeaveDomain(d) \/ EndPush(d) \/ EnterReversal(d)
  BY <1>2, <1>5, AfterRecordPush, AfterLeave, AfterEndPush, AfterEnterReversal
<1>6. CASE RunReversal(d) \/ ForgetAccount(d) \/ CloseReversal(d) \/ LeaveReversal(d)
           \/ EndReversal(d) \/ Abort(d)
  BY <1>2, <1>6, AfterReversal, AfterForget, AfterClose, AfterLeaveReversal, AfterEnd
<1> QED
  BY <1>1, <1>2, <1>3, <1>4, <1>5, <1>6, WhoActs DEF Deploy, vars

(* A row takes another status in three ways only: an operator marks it, the *)
(* call it was created for records its result, or its reversal is closed.   *)
LEMMA StatusSteps ==
  ASSUME TypeOK, [Next]_vars, ~Discards, NEW i \in DOMAIN rows
  PROVE  \/ rows'[i].status = rows[i].status
         \/ Marks(i) /\ rows'[i].status = "reverted_pending"
         \/ \E d \in Deploys :
              /\ RecordPush(d)
              /\ i \in run[d].mine
              /\ run'[d].mine = run[d].mine \ {i}
              /\ rows'[i].status = IF run[d].outcome = "done" THEN "applied" ELSE "error"
         \/ \E d \in Deploys :
              /\ CloseReversal(d)
              /\ i \in run[d].toReverse
              /\ rows'[i].status = "reverted_applied"
<1>1. CASE UNCHANGED rows
  BY <1>1
<1>2. ASSUME NEW j, Marks(j)
      PROVE  \/ rows'[i].status = rows[i].status
             \/ Marks(i) /\ rows'[i].status = "reverted_pending"
  <2>1. rows' = UpdateStatus(rows, j, "reverted_pending")
    BY <1>2 DEF Marks
  <2> QED
    BY <1>2, <2>1, AfterUpdate
<1>3. ASSUME NEW d \in Deploys, TrackAccount(d) PROVE rows'[i].status = rows[i].status
  BY <1>3, TracksOne DEF Tracks
<1>4. ASSUME NEW d \in Deploys, RecordPush(d)
      PROVE  \/ rows'[i].status = rows[i].status
             \/ /\ i \in run[d].mine
                /\ run'[d].mine = run[d].mine \ {i}
                /\ rows'[i].status = IF run[d].outcome = "done" THEN "applied" ELSE "error"
  BY <1>4, AfterRecordPush, AfterUpdate
<1>5. ASSUME NEW d \in Deploys, CloseReversal(d)
      PROVE  \/ rows'[i].status = rows[i].status
             \/ i \in run[d].toReverse /\ rows'[i].status = "reverted_applied"
  BY <1>5, AfterClose, AfterUpdate
<1> QED
  BY <1>1, <1>2, <1>3, <1>4, <1>5, RowWriters

-----------------------------------------------------------------------------
(* When the operator waits for the end of a deployment before deleting.     *)

(* A DELETE request is under way only while no deployment runs.             *)
DeletesWait == edit # NoEdit => Quiet

(* The rows a call is to update are pending, and no other call's.           *)
MineIsPending ==
  /\ \A d \in Deploys : run[d].mine \subseteq RowsWith(rows, {"pending"})
  /\ \A d, e \in Deploys : d # e => run[d].mine \cap run[e].mine = {}

(* What a deployment found marked was marked, and is not pushed again.      *)
MarksAreOld ==
  \A d \in Deploys : run[d].marked \cup run[d].toReverse \subseteq RowsWith(rows, Reverted)

QuietInv == LocalInv /\ DeletesWait /\ MineIsPending /\ MarksAreOld

(* A deployment runs before each of its steps but the first.                *)
LEMMA OnlyStartWakes ==
  ASSUME NEW d \in Deploys, Deploy(d)
  PROVE  Start(d) \/ Running(d)
  BY DEF Deploy, Running, Plan, SkipDomain, EnterDomain, TrackAccount, RunPush,
         RecordPush, LeaveDomain, EndPush, EnterReversal, RunReversal, ForgetAccount,
         CloseReversal, LeaveReversal, EndReversal, Abort, Stopped

(* While no deployment runs, none has rows of its own.                      *)
LEMMA QuietHasNone ==
  ASSUME Shapes, Quiet, NEW d \in Deploys
  PROVE  /\ run[d].mine = {} /\ run[d].toReverse = {} /\ run[d].listed = {}
         /\ run[d].marked = {}
  BY DEF Shapes, Shape, Quiet, Stopped

(* A deletion under way keeps deployments from starting.                    *)
LEMMA DeletesStep ==
  ASSUME TypeOK, DeletesWait, "delete" \notin EditsDuringDeploy, [Next]_vars
  PROVE  DeletesWait'
<1> SUFFICES ASSUME edit' # NoEdit PROVE Quiet'
  BY DEF DeletesWait
<1>1. CASE Operator
  <2>1. \/ UNCHANGED <<edit, run>>
        \/ edit' = NoEdit
        \/ MayEdit("delete") /\ UNCHANGED run
    BY <1>1 DEF Operator, CreateAccount, DeployUser, LookUpDeleted, CommitDelete,
           RemoveRow, OverwriteRow
  <2>2. Quiet /\ UNCHANGED run
    BY <2>1 DEF DeletesWait, MayEdit
  <2> QED
    BY <2>2 DEF Quiet
<1>2. ASSUME NEW d \in Deploys, Deploy(d) PROVE FALSE
  <2>1. UNCHANGED edit
    BY <1>2 DEF Deploy, Start, Plan, SkipDomain, EnterDomain, TrackAccount, RunPush,
           RecordPush, LeaveDomain, EndPush, EnterReversal, RunReversal, ForgetAccount,
           CloseReversal, LeaveReversal, EndReversal, Abort
  <2>2. Quiet
    BY <2>1 DEF DeletesWait
  <2>3. Start(d)
    BY <1>2, <2>2, OnlyStartWakes DEF Running, Quiet
  <2> QED
    BY <2>1, <2>3 DEF Start
<1>3. CASE UNCHANGED vars
  BY <1>3 DEF DeletesWait, Quiet, vars
<1> QED
  BY <1>1, <1>2, <1>3 DEF Next

(* Nobody but its own call changes the status of a pending row, which leaves *)
(* it to nobody then.                                                       *)
LEMMA MineStays ==
  ASSUME TypeOK, QuietInv, [Next]_vars, ~Discards, NEW d \in Deploys,
         NEW i \in run[d].mine, i \in run'[d].mine
  PROVE  i \in DOMAIN rows' /\ rows'[i].status = "pending"
<1>1. i \in DOMAIN rows /\ rows[i].status = "pending"
  BY DEF QuietInv, MineIsPending, RowsWith
<1>2. ~Marks(i)
  <2>1. Marks(i) => Quiet
    BY DEF Marks, QuietInv, DeletesWait
  <2> QED
    BY <2>1, QuietHasNone DEF QuietInv, LocalInv
<1>3. ASSUME NEW e \in Deploys, i \in run[e].mine PROVE e = d
  BY <1>3 DEF QuietInv, MineIsPending
<1>4. ASSUME NEW e \in Deploys PROVE i \notin run[e].toReverse
  BY <1>1 DEF QuietInv, MarksAreOld, RowsWith, Reverted
<1>5. rows'[i].status = rows[i].status
  BY <1>1, <1>2, <1>3, <1>4, StatusSteps
<1> QED
  BY <1>1, <1>5, RowsKeep

(* A row a deployment holds after a step is pending, and only its own.      *)
LEMMA MineStep ==
  ASSUME TypeOK, QuietInv, [Next]_vars, ~Discards
  PROVE  MineIsPending'
<1>1. ASSUME NEW d \in Deploys, NEW i \in run'[d].mine
      PROVE  i \in DOMAIN rows' /\ rows'[i].status = "pending"
  BY MineStays, MineSteps
<1>2. ASSUME NEW d \in Deploys, NEW e \in Deploys, d # e,
             NEW i, i \in run'[d].mine, i \in run'[e].mine
      PROVE  FALSE
  <2>1. \A f \in Deploys : run[f].mine \subseteq DOMAIN rows
    BY DEF QuietInv, MineIsPending, RowsWith
  <2>2. i \in run[d].mine \/ (TrackAccount(d) /\ i \notin DOMAIN rows)
    BY <1>2, MineSteps
  <2>3. i \in run[e].mine \/ (TrackAccount(e) /\ i \notin DOMAIN rows)
    BY <1>2, MineSteps
  <2>4. CASE i \notin DOMAIN rows
    <3>1. Deploy(d) /\ run'[e] = run[e]
      BY <1>2, <2>1, <2>2, <2>4, OthersStay DEF Deploy
    <3> QED
      BY <1>2, <2>1, <2>4, <3>1
  <2>5. CASE i \in DOMAIN rows
    BY <1>2, <2>2, <2>3, <2>5 DEF QuietInv, MineIsPending
  <2> QED
    BY <2>4, <2>5
<1> QED
  BY <1>1, <1>2 DEF MineIsPending, RowsWith

(* A row that was marked or reversed is never anything else again.          *)
LEMMA RevertedStays ==
  ASSUME TypeOK, QuietInv, [Next]_vars, ~Discards, NEW i \in RowsWith(rows, Reverted)
  PROVE  i \in RowsWith(rows', Reverted)
<1>1. i \in DOMAIN rows /\ rows[i].status \in Reverted
  BY DEF RowsWith
<1>2. ASSUME NEW d \in Deploys PROVE i \notin run[d].mine
  BY <1>1 DEF QuietInv, MineIsPending, RowsWith, Reverted
<1>3. rows'[i].status \in Reverted
  BY <1>1, <1>2, StatusSteps DEF Reverted
<1> QED
  BY <1>1, <1>3, RowsKeep DEF RowsWith

(* So is what a deployment holds marked.                                    *)
LEMMA MarksStep ==
  ASSUME TypeOK, QuietInv, [Next]_vars, ~Discards
  PROVE  MarksAreOld'
<1> SUFFICES ASSUME NEW d \in Deploys, NEW i \in run'[d].marked \cup run'[d].toReverse
             PROVE  i \in RowsWith(rows', Reverted)
  BY DEF MarksAreOld
<1>1. CASE i \in run[d].marked \cup run[d].toReverse
  BY <1>1, RevertedStays DEF QuietInv, MarksAreOld
<1>2. CASE UNCHANGED rows /\ i \in RowsWith(rows, {"reverted_pending"})
  BY <1>2 DEF RowsWith, Reverted
<1> QED
  BY <1>1, <1>2, MarkSteps

(* The invariant of a lab whose operator waits.                             *)
LEMMA QuietHolds ==
  ASSUME "delete" \notin EditsDuringDeploy, "rows" \notin EditsDuringDeploy
  PROVE  Spec => []QuietInv
<1>1. Init => DeletesWait /\ MineIsPending /\ MarksAreOld
  <2> SUFFICES ASSUME Init PROVE DeletesWait /\ MineIsPending /\ MarksAreOld
    OBVIOUS
  <2>1. \A d \in Deploys : run[d] = NotRunning("idle")
    BY DEF Init
  <2> QED
    BY <2>1, NotRunningIsEmpty DEF Init, DeletesWait, MineIsPending, MarksAreOld
<1>2. LocalInv /\ DeletesWait /\ MineIsPending /\ MarksAreOld /\ [Next]_vars
        => DeletesWait' /\ MineIsPending' /\ MarksAreOld'
  <2> SUFFICES ASSUME LocalInv, DeletesWait, MineIsPending, MarksAreOld, [Next]_vars
               PROVE  DeletesWait' /\ MineIsPending' /\ MarksAreOld'
    OBVIOUS
  <2>0. TypeOK /\ Shapes /\ QuietInv
    BY DEF QuietInv, LocalInv, TypeInv
  <2>1. CASE Discards
    BY <2>0, <2>1, DiscardIsIdle, DeletesStep DEF MineIsPending, MarksAreOld
  <2>2. CASE ~Discards
    BY <2>0, <2>2, DeletesStep, MineStep, MarksStep
  <2> QED
    BY <2>1, <2>2
<1> QED
  BY <1>1, <1>2, ShapesHold, PTL DEF QuietInv, Spec

(* A row marked for reversal is reversed before it is anything else, however *)
(* many deployments find the mark, fail and die on the way, if the operator *)
(* deletes nothing while one runs, no account and no row: at any other time *)
(* he may throw the very row away, and that alone loses its mark.           *)
THEOREM MarkKept ==
  ASSUME "delete" \notin EditsDuringDeploy, "rows" \notin EditsDuringDeploy
  PROVE  Spec => MarkIsCarriedOut
<1>1. QuietInv /\ [Next]_vars =>
        [\A i \in RowsWith(rows, {"reverted_pending"}) :
           \/ /\ i \in DOMAIN rows'
              /\ rows'[i].status \in {"reverted_pending", "reverted_applied"}
           \/ RemoveRow(i) \/ OverwriteRow(i)]_vars
  <2> SUFFICES ASSUME QuietInv, [Next]_vars, NEW i \in RowsWith(rows, {"reverted_pending"}),
                      ~(RemoveRow(i) \/ OverwriteRow(i))
               PROVE  /\ i \in DOMAIN rows'
                      /\ rows'[i].status \in {"reverted_pending", "reverted_applied"}
    OBVIOUS
  <2>1. i \in RowsWith(rows, Reverted) /\ TypeOK
    BY DEF RowsWith, Reverted, QuietInv, LocalInv, TypeInv
  <2>2. CASE Discards
    BY <2>1, <2>2, AfterDiscard DEF RowsWith, Reverted
  <2>3. CASE ~Discards
    BY <2>1, <2>3, RevertedStays DEF RowsWith, Reverted
  <2> QED
    BY <2>2, <2>3
<1> QED
  BY <1>1, QuietHolds, PTL DEF MarkIsCarriedOut, Spec

-----------------------------------------------------------------------------
(* What a deployment that passed has reversed.                              *)

Pending == RowsWith(rows, {"reverted_pending"})

(* A deployment found every mark there is, once it has looked.              *)
MarksAreSeen ==
  \A d \in Deploys : Running(d) /\ run[d].phase # "plan" => Pending \subseteq run[d].marked

(* What it has not failed to reverse it has reversed, or is about to.       *)
Thorough(d) ==
  run[d].failure = "no" =>
    /\ run[d].phase \in {"script", "forget", "close"} => Pending \subseteq run[d].toReverse
    /\ run[d].phase = "reverse" /\ run[d].visits # Own(d) => Pending = {}

ReversalIsThorough == \A d \in Deploys : Thorough(d)

ReversalInv == QuietInv /\ MarksAreSeen /\ ReversalIsThorough

(* A deployment that ended does not run.                                    *)
LEMMA EndedStops ==
  ASSUME NEW d, NEW p \in {"passed", "failed"}, Ended(d, p)
  PROVE  run'[d].phase = p /\ ~Running(d)'
  BY NotRunningIsEmpty DEF Ended, Running, Stopped

(* The marks a step leaves were there, or the operator just set one.        *)
LEMMA NewMarks ==
  ASSUME TypeOK, QuietInv, [Next]_vars, ~Discards, NEW i \in Pending'
  PROVE  i \in Pending \/ (Quiet /\ UNCHANGED run)
<1>0. i \in DOMAIN rows' /\ rows'[i].status = "reverted_pending"
  BY DEF Pending, RowsWith
<1>1. CASE i \notin DOMAIN rows
  <2>1. \A j : Marks(j) => DOMAIN rows' = DOMAIN rows
    BY AfterUpdate DEF Marks
  <2>2. \A d \in Deploys : RecordPush(d) \/ CloseReversal(d) => DOMAIN rows' = DOMAIN rows
    BY AfterRecordPush, AfterClose, AfterUpdate
  <2>3. \A d \in Deploys : TrackAccount(d) => rows'[i].status = "pending"
    BY <1>0, <1>1, TracksOne DEF Tracks
  <2> QED
    BY <1>0, <1>1, <2>1, <2>2, <2>3, RowWriters
<1>2. CASE i \in DOMAIN rows /\ rows'[i].status = rows[i].status
  BY <1>0, <1>2 DEF Pending, RowsWith
<1>3. Marks(i) => Quiet /\ UNCHANGED run
  BY DEF Marks, QuietInv, DeletesWait
<1> QED
  BY <1>0, <1>1, <1>2, <1>3, StatusSteps

(* What a deployment holds marked it has from its plan.                     *)
LEMMA MarkedKept ==
  ASSUME TypeOK, [Next]_vars, NEW d \in Deploys, Running(d)', run'[d].phase # "plan"
  PROVE  \/ Plan(d) /\ run'[d].marked = Pending
         \/ /\ Running(d) /\ run[d].phase # "plan"
            /\ run'[d].marked = run[d].marked
<1> USE DEF SameMarks
<1>0. \A p \in {"passed", "failed"} : ~Ended(d, p)
  BY EndedStops
<1>1. CASE run'[d] = run[d]
  BY <1>1 DEF Running
<1>2. CASE Start(d) \/ Plan(d)
  BY <1>2, AfterStart, AfterPlan DEF Pending
<1>3. CASE SkipDomain(d) \/ EnterDomain(d) \/ TrackAccount(d) \/ RunPush(d) \/ RecordPush(d)
  BY <1>0, <1>3, AfterSkip, AfterEnter, AfterTrack, AfterPush, AfterRecordPush
     DEF Running, Stopped
<1>4. CASE LeaveDomain(d) \/ EndPush(d) \/ EnterReversal(d) \/ RunReversal(d)
  BY <1>0, <1>4, AfterLeave, AfterEndPush, AfterEnterReversal, AfterReversal
     DEF Running, Stopped
<1>5. CASE ForgetAccount(d) \/ CloseReversal(d) \/ LeaveReversal(d)
           \/ EndReversal(d) \/ Abort(d)
  BY <1>0, <1>5, AfterForget, AfterClose, AfterLeaveReversal, AfterEnd
     DEF Running, Stopped
<1> QED
  BY <1>1, <1>2, <1>3, <1>4, <1>5, WhoActs DEF Deploy, vars

(* The marks are still all seen after a step ...                            *)
LEMMA SeenStep ==
  ASSUME TypeOK, QuietInv, MarksAreSeen, [Next]_vars, ~Discards
  PROVE  MarksAreSeen'
<1> SUFFICES ASSUME NEW d \in Deploys, Running(d)', run'[d].phase # "plan", NEW i \in Pending'
             PROVE  i \in run'[d].marked
  BY DEF MarksAreSeen
<1>1. Running(d)
  BY MarkedKept DEF Running, Plan, Stopped
<1>2. i \in Pending
  BY <1>1, NewMarks DEF Running, Quiet
<1> QED
  BY <1>2, MarkedKept DEF MarksAreSeen

(* ... and reversed or about to be.                                         *)
LEMMA ThoroughStep ==
  ASSUME TypeOK, QuietInv, MarksAreSeen, ReversalIsThorough, [Next]_vars, ~Discards, NEW d \in Deploys
  PROVE  Thorough(d)'
<1>0. Thorough(d) /\ Shape(d)
  BY DEF ReversalIsThorough, QuietInv, LocalInv, Shapes
<1>a. Running(d) => Pending' \subseteq Pending
  BY NewMarks DEF Running, Quiet
<1>b. \A p \in {"passed", "failed"} : Ended(d, p) => Thorough(d)'
  BY EndedStops DEF Thorough, Running, Stopped
<1>1. CASE run'[d] = run[d]
  <2>1. CASE Running(d)
    BY <1>0, <1>1, <1>a, <2>1 DEF Thorough
  <2>2. CASE ~Running(d)
    BY <1>1, <2>2 DEF Running, Stopped, Thorough
  <2> QED
    BY <2>1, <2>2
<1>2. CASE \/ Start(d) \/ Plan(d) \/ SkipDomain(d) \/ EnterDomain(d) \/ TrackAccount(d)
           \/ RunPush(d) \/ RecordPush(d) \/ LeaveDomain(d) \/ EndPush(d)
  <2>1. \/ \E p \in {"passed", "failed"} : Ended(d, p)
        \/ run'[d].phase \in {"plan", "push", "track", "record"}
        \/ run'[d].phase = "reverse" /\ run'[d].visits = Own(d)
    BY <1>2, AfterStart, AfterPlan, AfterSkip, AfterEnter, AfterTrack, AfterPush,
       AfterRecordPush, AfterLeave, AfterEndPush
  <2> QED
    BY <1>b, <2>1 DEF Thorough
<1>3. CASE EnterReversal(d)
  <2>1. Pending \subseteq run[d].marked
    BY <1>3 DEF MarksAreSeen, EnterReversal, Running, Stopped
  <2>2. Pending' = Pending
    BY <1>3, AfterEnterReversal DEF Pending
  <2>3. CASE run'[d].phase = "script" /\ run'[d].toReverse = run[d].marked
    BY <2>1, <2>2, <2>3 DEF Thorough
  <2>4. CASE run'[d].failure = "yes"
    BY <2>4 DEF Thorough
  <2> QED
    BY <1>3, <1>b, <2>3, <2>4, AfterEnterReversal
<1>4. CASE RunReversal(d) \/ ForgetAccount(d)
  <2>1. /\ run[d].phase \in {"script", "forget"}
        /\ run'[d].phase \in {"script", "forget", "close"}
        /\ \/ run'[d].failure = "yes"
           \/ run'[d].failure = run[d].failure /\ run'[d].toReverse = run[d].toReverse
        /\ UNCHANGED rows
    BY <1>4, AfterReversal, AfterForget DEF SameMarks
  <2>2. Pending' = Pending
    BY <2>1 DEF Pending
  <2> QED
    BY <1>0, <2>1, <2>2 DEF Thorough
<1>5. CASE CloseReversal(d)
  <2>1. /\ run[d].phase = "close" /\ run'[d].phase = "script"
        /\ run'[d].failure = run[d].failure
    BY <1>5, AfterClose
  <2>2. PICK i : /\ rows' = UpdateStatus(rows, i, "reverted_applied")
                 /\ run'[d].toReverse = run[d].toReverse \ {i}
    BY <1>5, AfterClose
  <2>3. Pending' \subseteq Pending \ {i}
    BY <2>2, AfterUpdate DEF Pending, RowsWith
  <2> QED
    BY <1>0, <2>1, <2>2, <2>3 DEF Thorough
<1>6. CASE LeaveReversal(d)
  <2>1. /\ run[d].phase = "script" /\ run'[d].phase = "reverse"
        /\ run'[d].failure = run[d].failure
        /\ run[d].toReverse = {} /\ UNCHANGED rows
    BY <1>6, AfterLeaveReversal DEF SameMarks
  <2>2. Pending' = Pending
    BY <2>1 DEF Pending
  <2> QED
    BY <1>0, <2>1, <2>2 DEF Thorough
<1>7. CASE EndReversal(d) \/ Abort(d)
  BY <1>7, <1>b, AfterEnd
<1> QED
  BY <1>1, <1>2, <1>3, <1>4, <1>5, <1>6, <1>7, WhoActs DEF Deploy, vars

(* The invariant, reversal included.                                        *)
LEMMA ReversalHolds ==
  ASSUME "delete" \notin EditsDuringDeploy, "rows" \notin EditsDuringDeploy
  PROVE  Spec => []ReversalInv
<1>1. Init => MarksAreSeen /\ ReversalIsThorough
  <2> SUFFICES ASSUME Init PROVE MarksAreSeen /\ ReversalIsThorough
    OBVIOUS
  <2>1. \A d \in Deploys : run[d] = NotRunning("idle")
    BY DEF Init
  <2> QED
    BY <2>1, NotRunningIsEmpty DEF MarksAreSeen, ReversalIsThorough, Thorough, Running, Stopped
<1>2. QuietInv /\ MarksAreSeen /\ ReversalIsThorough /\ [Next]_vars
        => MarksAreSeen' /\ ReversalIsThorough'
  <2> SUFFICES ASSUME QuietInv, MarksAreSeen, ReversalIsThorough, [Next]_vars
               PROVE  MarksAreSeen' /\ ReversalIsThorough'
    OBVIOUS
  <2>0. TypeOK /\ Shapes
    BY DEF QuietInv, LocalInv, TypeInv
  <2>1. CASE Discards
    <3>1. \A d \in Deploys : run'[d].phase \in Stopped
      BY <2>0, <2>1, DiscardIsIdle
    <3> QED
      BY <3>1 DEF MarksAreSeen, ReversalIsThorough, Thorough, Running, Stopped
  <2>2. CASE ~Discards
    BY <2>0, <2>2, SeenStep, ThoroughStep DEF ReversalIsThorough
  <2> QED
    BY <2>1, <2>2
<1> QED
  BY <1>1, <1>2, QuietHolds, PTL DEF ReversalInv, Spec

(* A deployment passes at the end of its push or of its reversal.           *)
LEMMA PassedEnds ==
  ASSUME TypeOK, [Next]_vars, NEW d \in Deploys, Running(d), run'[d].phase = "passed"
  PROVE  EndPush(d) \/ EndReversal(d) \/ Abort(d)
<1>0. ~Ended(d, "failed") /\ run'[d] # run[d]
  BY EndedStops DEF Running, Stopped
<1>1. ~(Start(d) \/ Plan(d) \/ SkipDomain(d) \/ EnterDomain(d) \/ TrackAccount(d))
  BY <1>0, AfterStart, AfterPlan, AfterSkip, AfterEnter, AfterTrack
<1>2. ~(RunPush(d) \/ RecordPush(d) \/ LeaveDomain(d) \/ EnterReversal(d))
  BY <1>0, AfterPush, AfterRecordPush, AfterLeave, AfterEnterReversal
<1>3. ~(RunReversal(d) \/ ForgetAccount(d) \/ CloseReversal(d) \/ LeaveReversal(d))
  BY AfterReversal, AfterForget, AfterClose, AfterLeaveReversal
<1> QED
  BY <1>0, <1>1, <1>2, <1>3, WhoActs DEF Deploy, vars

(* A deployment that passes leaves no row marked, whatever failed or died   *)
(* before it, if each deployed project has a domain to reverse in and the   *)
(* operator deletes nothing while a deployment runs, accounts or rows.      *)
THEOREM NoMarkLeft ==
  ASSUME "delete" \notin EditsDuringDeploy, "rows" \notin EditsDuringDeploy,
         \A d \in Deploys : Own(d) # {}
  PROVE  Spec => PassedIsReversed
<1>1. ReversalInv /\ [Next]_vars =>
        [\A d \in Deploys :
           run[d].phase \notin Stopped /\ run'[d].phase = "passed" =>
             RowsWith(rows', {"reverted_pending"}) = {}]_vars
  <2> SUFFICES ASSUME ReversalInv, [Next]_vars, NEW d \in Deploys,
                      Running(d), run'[d].phase = "passed"
               PROVE  RowsWith(rows', {"reverted_pending"}) = {}
    BY DEF Running
  <2>0. TypeOK /\ Thorough(d)
    BY DEF ReversalInv, QuietInv, LocalInv, TypeInv, ReversalIsThorough
  <2>1. ~Ended(d, "failed")
    BY EndedStops
  <2>2. EndPush(d) \/ EndReversal(d) \/ Abort(d)
    BY <2>0, PassedEnds
  <2>3. CASE EndPush(d)
    <3>1. Pending \subseteq run[d].marked
      BY <2>3 DEF ReversalInv, MarksAreSeen, EndPush, Running, Stopped
    <3>2. run[d].marked = {} /\ UNCHANGED rows
      BY <2>0, <2>1, <2>3, AfterEndPush
    <3> QED
      BY <3>1, <3>2 DEF Pending
  <2>4. CASE EndReversal(d) \/ Abort(d)
    <3>1. /\ run[d].phase = "reverse" /\ run[d].visits = {}
          /\ run[d].failure # "yes" /\ UNCHANGED rows
      BY <2>0, <2>1, <2>4, AfterEnd
    <3>2. run[d].failure = "no"
      BY <2>0, <3>1 DEF TypeOK, RunState
    <3> QED
      BY <2>0, <3>1, <3>2 DEF Thorough, Pending
  <2> QED
    BY <2>2, <2>3, <2>4
<1> QED
  BY <1>1, ReversalHolds, PTL DEF PassedIsReversed, Spec

-----------------------------------------------------------------------------
(* What a playbook call is about, when no account is created while a        *)
(* deployment runs.                                                         *)

At(l) == <<l.domain, l.name>>

Here(d) == {l \in run[d].listed : l.domain = run[d].domain}

(* It creates the names that were listed for its domain, and its rows name  *)
(* them: those that have none are yet to get one.                           *)
Call(d) ==
  run[d].phase \in {"track", "record"} =>
    /\ run[d].names = {l.name : l \in Here(d)}
    /\ \A i \in run[d].mine :
         /\ i \in DOMAIN rows
         /\ \E l \in Here(d) : Place(i) = At(l) /\ rows[i].account = l.id
    /\ run[d].phase = "track" =>
         \A l \in Here(d) \ run[d].toTrack : \E i \in run[d].mine : Place(i) = At(l)

Calls == \A d \in Deploys : Call(d)

CallInv == LocalInv /\ ListsStand /\ Calls

(* What the session sees of an account is what it listed.                   *)
LEMMA SeenIsListed ==
  ASSUME TypeOK, ListsStand, NEW d \in Deploys, Running(d),
         NEW l \in run[d].listed \cup run[d].toTrack, Visible(d, l)
  PROVE  Seen(d, l).name = l.name
<1>1. l \in Listing
  BY BecomesIs DEF RunState
<1>2. l.id \in DOMAIN accounts => accounts[l.id].name = l.name
  BY DEF ListsStand, Running
<1> QED
  BY <1>1, <1>2 DEF Seen, Visible, Listing

(* What leaves a directory is of the domain and the name being reversed.    *)
LEMMA DirectoryLoses ==
  ASSUME TypeOK, [Next]_vars, NEW p \in directory \ directory'
  PROVE  \E d \in Deploys :
           /\ RunReversal(d)
           /\ \E i \in run[d].toReverse : \E n :
                /\ IsFirst(i, run[d].toReverse)
                /\ i \in DOMAIN rows => n = rows[i].name
                /\ p = <<run[d].domain, n>>
<1>1. \A d \in Deploys : RunPush(d) => directory \subseteq directory'
  BY AfterPush
<1>2. \/ directory \subseteq directory'
      \/ \E d \in Deploys : RunPush(d) \/ RunReversal(d)
  BY DEF Next, Operator, CreateAccount, LookUpDeleted, CommitDelete, DeployUser,
         RemoveRow, OverwriteRow, Deploy, Start, Plan, SkipDomain, EnterDomain, TrackAccount, RecordPush, LeaveDomain,
         EndPush, EnterReversal, ForgetAccount, CloseReversal, LeaveReversal,
         EndReversal, Abort, vars
<1>3. PICK d \in Deploys : RunReversal(d)
  BY <1>1, <1>2
<1> QED
  BY <1>3, AfterReversal

(* The call stays what it is.                                               *)
LEMMA CallStep ==
  ASSUME TypeOK, CallInv, [Next]_vars, ~Discards, NEW d \in Deploys
  PROVE  Call(d)'
<1>0. Call(d) /\ Shape(d)
  BY DEF CallInv, Calls, LocalInv, Shapes
<1>a. \A i \in DOMAIN rows : /\ i \in DOMAIN rows'
                             /\ rows'[i].account = rows[i].account
                             /\ Place(i)' = Place(i)
  BY RowsKeep
<1>b. SUFFICES ASSUME run'[d].phase \in {"track", "record"} PROVE Call(d)'
  BY DEF Call
<1>c. ~Ended(d, "failed") /\ ~Ended(d, "passed")
  BY <1>b, EndedStops
<1>1. CASE run'[d] = run[d]
  <2>1. Here(d)' = Here(d)
    BY <1>1 DEF Here
  <2> QED
    BY <1>0, <1>1, <1>a, <2>1 DEF Call
<1>2. CASE EnterDomain(d)
  <2>1. /\ Here(d)' = run'[d].toTrack
        /\ run'[d].phase = "track"
        /\ run'[d].names = {Seen(d, l).name : l \in run'[d].toTrack}
        /\ run'[d].toTrack \subseteq run[d].listed
        /\ \A l \in run'[d].toTrack : Visible(d, l)
        /\ run'[d].mine = run[d].mine
        /\ run[d].phase = "push"
    BY <1>2, <1>c, AfterEnter DEF Here, SameCall
  <2>2. \A l \in run'[d].toTrack : Seen(d, l).name = l.name
    BY <2>1, SeenIsListed DEF CallInv, Running, Stopped
  <2>3. run'[d].mine = {}
    BY <1>0, <2>1 DEF Shape
  <2> QED
    BY <2>1, <2>2, <2>3 DEF Call
<1>3. CASE TrackAccount(d)
  <2>1. PICK l, i : Tracks(d, l, i)
    BY <1>3, <1>c, TracksOne
  <2>2. l \in Here(d) /\ Here(d)' = Here(d) /\ run[d].phase = "track"
    BY <1>0, <1>3, <2>1 DEF Tracks, Shape, Here, SamePlace, TrackAccount
  <2>3. Seen(d, l).name = l.name
    BY <2>1, <2>2, SeenIsListed DEF CallInv, Tracks, Running, Stopped
  <2>4. i \in DOMAIN rows' /\ Place(i)' = At(l) /\ rows'[i].account = l.id
    BY <2>1, <2>3 DEF Tracks, At
  <2>5. /\ run'[d].mine = run[d].mine \cup {i}
        /\ run'[d].toTrack = run[d].toTrack \ {l}
        /\ run'[d].names = run[d].names
    BY <2>1 DEF Tracks
  <2>6. run'[d].names = {k.name : k \in Here(d)'}
    BY <1>0, <2>2, <2>5 DEF Call
  <2>7. \A j \in run'[d].mine :
          j \in DOMAIN rows' /\ \E k \in Here(d)' : Place(j)' = At(k) /\ rows'[j].account = k.id
    BY <1>0, <1>a, <2>2, <2>4, <2>5 DEF Call
  <2>8. \A k \in Here(d)' \ run'[d].toTrack : \E j \in run'[d].mine : Place(j)' = At(k)
    BY <1>0, <1>a, <2>2, <2>4, <2>5 DEF Call
  <2>9. \A k : At(k)' = At(k)
    BY DEF At
  <2> QED
    BY <2>6, <2>7, <2>8, <2>9 DEF Call
<1>4. CASE RunPush(d) \/ RecordPush(d)
  <2>1. /\ run[d].phase \in {"track", "record"} /\ run'[d].phase = "record"
        /\ run'[d].mine \subseteq run[d].mine /\ run'[d].names = run[d].names
        /\ Here(d)' = Here(d)
    BY <1>4, AfterPush, AfterRecordPush DEF SameLists, SamePlace, Here
  <2>2. \A i \in run'[d].mine :
          i \in DOMAIN rows' /\ \E l \in Here(d) : Place(i)' = At(l) /\ rows'[i].account = l.id
    BY <1>0, <1>a, <2>1 DEF Call
  <2> QED
    BY <1>0, <2>1, <2>2 DEF Call, At
<1>5. ~(Start(d) \/ Plan(d) \/ SkipDomain(d) \/ LeaveDomain(d) \/ EndPush(d))
  BY <1>b, <1>c, AfterStart, AfterPlan, AfterSkip, AfterLeave, AfterEndPush
<1>6. ~(EnterReversal(d) \/ RunReversal(d) \/ ForgetAccount(d) \/ CloseReversal(d))
  BY <1>b, <1>c, AfterEnterReversal, AfterReversal, AfterForget, AfterClose
<1>7. ~(LeaveReversal(d) \/ EndReversal(d) \/ Abort(d))
  BY <1>b, <1>c, AfterLeaveReversal, AfterEnd
<1> QED
  BY <1>1, <1>2, <1>3, <1>4, <1>5, <1>6, <1>7, WhoActs DEF Deploy, vars

(* The invariant of a lab where no account is created meanwhile.            *)
LEMMA CallsHold ==
  ASSUME "create" \notin EditsDuringDeploy, "rows" \notin EditsDuringDeploy
  PROVE  Spec => []CallInv
<1>1. Init => Calls
  <2> SUFFICES ASSUME Init PROVE Calls
    OBVIOUS
  <2>1. \A d \in Deploys : run[d] = NotRunning("idle")
    BY DEF Init
  <2> QED
    BY <2>1, NotRunningIsEmpty DEF Calls, Call
<1>2. LocalInv /\ ListsStand /\ Calls /\ [Next]_vars => Calls'
  <2> SUFFICES ASSUME LocalInv, ListsStand, Calls, [Next]_vars PROVE Calls'
    OBVIOUS
  <2>0. TypeOK /\ Shapes /\ CallInv
    BY DEF CallInv, LocalInv, TypeInv
  <2>1. CASE Discards
    BY <2>0, <2>1, DiscardIsIdle DEF Calls, Call, Stopped
  <2>2. CASE ~Discards
    BY <2>0, <2>2, CallStep DEF Calls
  <2> QED
    BY <2>1, <2>2
<1>3. NamedInv => ListsStand
  BY DEF NamedInv
<1> QED
  BY <1>1, <1>2, <1>3, Invariant, ShapesHold, PTL DEF CallInv, Spec

-----------------------------------------------------------------------------
(* What is applied was pushed.                                              *)

(* A playbook that succeeded has created what its call's rows name.         *)
DoneIsReal ==
  \A d \in Deploys : run[d].phase = "record" /\ run[d].outcome = "done" =>
    \A i \in run[d].mine : Place(i) \in directory

(* It stays so unless another deployment reverses one of those rows' names. *)
LEMMA DoneStep ==
  ASSUME TypeOK, CallInv, DoneIsReal, [Next]_vars, ~Discards,
         \A d, e \in Deploys : d # e /\ RunReversal(e) =>
           \A i \in run[d].mine, j \in run[e].toReverse : \A n :
             /\ IsFirst(j, run[e].toReverse)
             /\ j \in DOMAIN rows => n = rows[j].name
             => Place(i) # <<run[e].domain, n>>
  PROVE  DoneIsReal'
<1> SUFFICES ASSUME NEW d \in Deploys, run'[d].phase = "record", run'[d].outcome = "done",
                    NEW i \in run'[d].mine
             PROVE  Place(i)' \in directory'
  BY DEF DoneIsReal
<1>0. Call(d)
  BY DEF CallInv, Calls
<1>1. ~Ended(d, "failed") /\ ~Ended(d, "passed")
  BY EndedStops
<1>2. CASE RunPush(d)
  <2>1. run[d].phase = "track" /\ i \in run[d].mine /\ UNCHANGED rows
    BY <1>2, AfterPush
  <2>2. \E n \in run[d].names : Place(i) = <<run[d].domain, n>>
    BY <1>0, <2>1 DEF Call, Here, At
  <2>3. \A n \in run[d].names : <<run[d].domain, n>> \in directory'
    BY <1>2, AfterPush
  <2> QED
    BY <2>1, <2>2, <2>3 DEF Place
<1>3. CASE /\ run[d].phase = "record" /\ run[d].outcome = "done"
           /\ i \in run[d].mine
  <2>1. i \in DOMAIN rows /\ Place(i) \in directory
    BY <1>0, <1>3 DEF Call, DoneIsReal
  <2>2. Place(i) \in directory'
    <3> SUFFICES ASSUME Place(i) \notin directory' PROVE FALSE
      OBVIOUS
    <3>1. PICK e \in Deploys :
            /\ RunReversal(e)
            /\ \E j \in run[e].toReverse : \E n :
                 /\ IsFirst(j, run[e].toReverse)
                 /\ j \in DOMAIN rows => n = rows[j].name
                 /\ Place(i) = <<run[e].domain, n>>
      BY <2>1, DirectoryLoses
    <3>2. e # d
      BY <1>3, <3>1 DEF RunReversal
    <3> QED
      BY <1>3, <3>1, <3>2
  <2> QED
    BY <2>1, <2>2, RowsKeep
<1>4. CASE run'[d] = run[d] \/ RecordPush(d)
  BY <1>3, <1>4, AfterRecordPush
<1>5. ~(Start(d) \/ Plan(d) \/ SkipDomain(d) \/ LeaveDomain(d) \/ EndPush(d))
  BY <1>1, AfterStart, AfterPlan, AfterSkip, AfterLeave, AfterEndPush
<1>6. ~(EnterDomain(d) \/ TrackAccount(d))
  BY <1>1, AfterEnter, TracksOne DEF Tracks
<1>7. ~(EnterReversal(d) \/ RunReversal(d) \/ ForgetAccount(d) \/ CloseReversal(d))
  BY <1>1, AfterEnterReversal, AfterReversal, AfterForget, AfterClose
<1>8. ~(LeaveReversal(d) \/ EndReversal(d) \/ Abort(d))
  BY <1>1, AfterLeaveReversal, AfterEnd
<1> QED
  BY <1>2, <1>4, <1>5, <1>6, <1>7, <1>8, WhoActs DEF Deploy, vars

(* A row becomes APPLIED by the record of a call that is done.              *)
LEMMA AppliedStep ==
  ASSUME TypeOK, CallInv, DoneIsReal, [Next]_vars, ~Discards, NEW i \in DOMAIN rows',
         rows'[i].status = "applied", i \in DOMAIN rows => rows[i].status # "applied"
  PROVE  Place(i)' \in directory
<1>1. CASE i \in DOMAIN rows
  <2>1. PICK d \in Deploys : /\ RecordPush(d) /\ i \in run[d].mine
                             /\ run[d].outcome = "done"
    BY <1>1, StatusSteps
  <2>2. Place(i) \in directory
    BY <2>1 DEF DoneIsReal, RecordPush
  <2> QED
    BY <1>1, <2>2, RowsKeep
<1>2. CASE i \notin DOMAIN rows
  <2>1. \A j : Marks(j) => DOMAIN rows' = DOMAIN rows
    BY AfterUpdate DEF Marks
  <2>2. \A d \in Deploys : RecordPush(d) \/ CloseReversal(d) => DOMAIN rows' = DOMAIN rows
    BY AfterRecordPush, AfterClose, AfterUpdate
  <2>3. \A d \in Deploys : TrackAccount(d) => rows'[i].status = "pending" \/ UNCHANGED rows
    BY <1>2, TracksOne DEF Tracks
  <2> QED
    BY <1>2, <2>1, <2>2, <2>3, RowWriters
<1> QED
  BY <1>1, <1>2

(* Nor does the loss of a row make another APPLIED.                         *)
LEMMA NewlyApplied ==
  ASSUME TypeOK, CallInv, DoneIsReal, [Next]_vars, NEW i \in DOMAIN rows',
         rows'[i].status = "applied", i \in DOMAIN rows => rows[i].status # "applied"
  PROVE  Place(i)' \in directory
<1>1. CASE Discards
  BY <1>1, AfterDiscard
<1>2. CASE ~Discards
  BY <1>2, AppliedStep
<1> QED
  BY <1>1, <1>2

(* A row becomes APPLIED only when its account is in the directory: the call*)
(* that pushed it may fail half-way and others may reverse meanwhile, if no *)
(* project is deployed twice at a time and no account is created.           *)
THEOREM AppliedWasPushed ==
  ASSUME "create" \notin EditsDuringDeploy, "rows" \notin EditsDuringDeploy,
         \A d, e \in Deploys : d # e => TargetOf[d] # TargetOf[e]
  PROVE  Spec => AppliedIsReal
<1>1. Init => DoneIsReal
  BY NotRunningIsEmpty DEF Init, DoneIsReal
<1>2. CallInv /\ DoneIsReal /\ [Next]_vars => DoneIsReal'
  <2> SUFFICES ASSUME CallInv, DoneIsReal, [Next]_vars PROVE DoneIsReal'
    OBVIOUS
  <2>1. TypeOK /\ Shapes
    BY DEF CallInv, LocalInv, TypeInv
  <2>2. ASSUME NEW d \in Deploys, NEW e \in Deploys, d # e, RunReversal(e),
               NEW i \in run[d].mine, NEW n
        PROVE  Place(i) # <<run[e].domain, n>>
    <3>1. run[e].domain \in Own(e)
      BY <2>2 DEF CallInv, LocalInv, Shapes, Shape, RunReversal
    <3>2. run[d].phase \in {"track", "record"} /\ Call(d) /\ run[d].domain \in Own(d)
      BY <2>2 DEF CallInv, LocalInv, Shapes, Shape, Calls
    <3>3. \E k : Place(i) = <<run[d].domain, k>>
      BY <3>2 DEF Call, Here, At
    <3>4. run[d].domain # run[e].domain
      BY <2>2, <3>1, <3>2 DEF Own
    <3> QED
      BY <3>3, <3>4
  <2>3. CASE Discards
    BY <2>1, <2>3, DiscardIsIdle DEF DoneIsReal, Stopped
  <2>4. CASE ~Discards
    BY <2>1, <2>2, <2>4, DoneStep
  <2> QED
    BY <2>3, <2>4
<1>3. CallInv /\ DoneIsReal /\ [Next]_vars =>
        [\A i \in DOMAIN rows' :
           rows'[i].status = "applied" /\ (i \in DOMAIN rows => rows[i].status # "applied")
             => Place(i)' \in directory]_vars
  BY NewlyApplied DEF CallInv, LocalInv, TypeInv
<1> QED
  BY <1>1, <1>2, <1>3, CallsHold, PTL DEF AppliedIsReal, Spec

-----------------------------------------------------------------------------
(* Which domains rows, directories and reversals are of.                    *)

(* Only a domain in reach has rows, and what is to be reversed is a row.    *)
Reach ==
  /\ \A i \in DOMAIN rows : rows[i].domain \in Reachable
  /\ \A d \in Deploys : run[d].marked \cup run[d].toReverse \subseteq DOMAIN rows

ReachInv == LocalInv /\ Reach

(* A row is created for the domain that was entered.                        *)
LEMMA ReachStep ==
  ASSUME ReachInv, [Next]_vars, ~Discards
  PROVE  Reach'
<1>0. TypeOK /\ Shapes /\ Reach
  BY DEF ReachInv, LocalInv, TypeInv
<1>1. ASSUME NEW i \in DOMAIN rows' PROVE rows'[i].domain \in Reachable
  <2>1. CASE i \in DOMAIN rows
    <3>1. Place(i)' = Place(i)
      BY <1>0, <2>1, RowsKeep
    <3> QED
      BY <1>0, <2>1, <3>1 DEF Place, Reach
  <2>2. CASE i \notin DOMAIN rows
    <3>1. \A j : Marks(j) => DOMAIN rows' = DOMAIN rows
      BY <1>0, AfterUpdate DEF Marks
    <3>2. \A d \in Deploys : RecordPush(d) \/ CloseReversal(d) => DOMAIN rows' = DOMAIN rows
      BY <1>0, AfterRecordPush, AfterClose, AfterUpdate
    <3>3. PICK d \in Deploys : TrackAccount(d)
      BY <1>0, <2>2, <3>1, <3>2, RowWriters
    <3>4. PICK l, j : Tracks(d, l, j)
      BY <1>0, <2>2, <3>3, TracksOne
    <3>5. j = i /\ Place(i)' = <<l.domain, Seen(d, l).name>> /\ l \in run[d].toTrack
      BY <2>2, <3>4 DEF Tracks
    <3>6. l.domain \in Reachable
      BY <1>0, <3>3, <3>5 DEF Shapes, Shape, TrackAccount
    <3> QED
      BY <3>5, <3>6 DEF Place
  <2> QED
    BY <2>1, <2>2
<1>2. ASSUME NEW d \in Deploys, NEW i \in run'[d].marked \cup run'[d].toReverse
      PROVE  i \in DOMAIN rows'
  <2>1. i \in DOMAIN rows
    BY <1>0, MarkSteps DEF Reach, RowsWith
  <2> QED
    BY <1>0, <2>1, RowsKeep
<1> QED
  BY <1>1, <1>2 DEF Reach

(* It holds of every reachable state, if the operator waits with rows.      *)
LEMMA ReachHolds ==
  ASSUME "rows" \notin EditsDuringDeploy
  PROVE  Spec => []ReachInv
<1>1. Init => Reach
  BY NotRunningIsEmpty DEF Init, Reach
<1>2. LocalInv /\ Reach /\ [Next]_vars => Reach'
  <2> SUFFICES ASSUME LocalInv, Reach, [Next]_vars PROVE Reach'
    OBVIOUS
  <2>0. TypeOK /\ Shapes /\ ReachInv
    BY DEF ReachInv, LocalInv, TypeInv
  <2>1. CASE Discards
    <3>1. \A i \in DOMAIN rows' : i \in DOMAIN rows /\ rows'[i].domain = rows[i].domain
      BY <2>0, <2>1, AfterDiscard DEF Place
    <3>2. \A d \in Deploys : run'[d].marked \cup run'[d].toReverse = {}
      BY <2>0, <2>1, DiscardIsIdle
    <3> QED
      BY <3>1, <3>2 DEF Reach
  <2>2. CASE ~Discards
    BY <2>0, <2>2, ReachStep
  <2> QED
    BY <2>1, <2>2
<1> QED
  BY <1>1, <1>2, ShapesHold, PTL DEF ReachInv, Spec

(* At most one domain of the lab can be reached.                            *)
OneReachable == \A dm, dn \in Reachable : dm = dn

(* With one domain in reach, what a reversal removes is what its row names. *)
LEMMA ReversedPlace ==
  ASSUME ReachInv, OneReachable, NEW d \in Deploys,
         run[d].phase \in {"script", "forget", "close"}, NEW i \in run[d].toReverse
  PROVE  <<run[d].domain, rows[i].name>> = Place(i)
<1>1. RootDc[run[d].domain] = "ok" /\ run[d].domain \in Domains
  BY DEF ReachInv, LocalInv, Shapes, Shape, Own
<1>2. run[d].domain \in Reachable
  BY <1>1, LabAssumption
<1>3. rows[i].domain \in Reachable
  BY DEF ReachInv, Reach
<1> QED
  BY <1>2, <1>3 DEF OneReachable, Place

(* The first of the rows to reverse is one row.                             *)
LEMMA FirstIsOne ==
  ASSUME TypeOK, NEW d \in Deploys, NEW i, NEW j,
         IsFirst(i, run[d].toReverse), IsFirst(j, run[d].toReverse)
  PROVE  i = j
<1>1. run[d].toReverse \subseteq Nat
  BY BecomesIs, IdsAreNumbers DEF RunState
<1>2. i \in Nat /\ j \in Nat /\ i <= j /\ j <= i
  BY <1>1 DEF IsFirst
<1> QED
  BY <1>2

-----------------------------------------------------------------------------
(* What is in a directory can still be reversed.                            *)

(* A reversal closes its row after the account has gone.                    *)
GoneFirst ==
  \A d \in Deploys : run[d].phase \in {"forget", "close"} =>
    \A i \in run[d].toReverse :
      IsFirst(i, run[d].toReverse) => Place(i) \notin directory \ Excused

(* A row is not closed under the call that waits to record in it.           *)
MineIsOpen ==
  \A d \in Deploys : \A i \in run[d].mine :
    i \in DOMAIN rows /\ rows[i].status # "reverted_applied"

TrackedInv ==
  ReachInv /\ CallInv /\ MineIsOpen /\ GoneFirst /\ DirectoryIsTracked

(* What two deployments must not do to one another: reverse what the other  *)
(* is pushing, close the rows of the other's call.                          *)
Apart ==
  \A d, e \in Deploys : d # e =>
    /\ RunPush(e) /\ run[d].phase \in {"forget", "close"} =>
         \A i \in run[d].toReverse, n \in run[e].names : Place(i) # <<run[e].domain, n>>
    /\ run[d].mine \cap run[e].toReverse = {}

(* A row leaves the state it is in, but not for REVERTED_APPLIED.           *)
LEMMA OpenStep ==
  ASSUME TrackedInv, Apart, [Next]_vars, ~Discards
  PROVE  MineIsOpen'
<1>0. TypeOK /\ Shapes
  BY DEF TrackedInv, ReachInv, LocalInv, TypeInv
<1> SUFFICES ASSUME NEW d \in Deploys, NEW i \in run'[d].mine
             PROVE  i \in DOMAIN rows' /\ rows'[i].status # "reverted_applied"
  BY DEF MineIsOpen
<1>1. CASE i \in run[d].mine
  <2>1. i \in DOMAIN rows /\ rows[i].status # "reverted_applied"
    BY <1>1 DEF TrackedInv, MineIsOpen
  <2>2. ASSUME NEW e \in Deploys, CloseReversal(e) PROVE i \notin run[e].toReverse
    <3>1. e = d => run[e].mine = {}
      BY <1>0, <2>2 DEF Shapes, Shape, CloseReversal
    <3> QED
      BY <1>1, <3>1 DEF Apart
  <2>3. rows'[i].status # "reverted_applied"
    BY <1>0, <2>1, <2>2, StatusSteps
  <2> QED
    BY <1>0, <2>1, <2>3, RowsKeep
<1>2. CASE i \in DOMAIN rows' /\ rows'[i].status = "pending"
  BY <1>2
<1> QED
  BY <1>0, <1>1, <1>2, MineSteps

(* What is new in a directory was pushed by hand, or by a call.             *)
LEMMA GoneStep ==
  ASSUME TrackedInv, Apart, OneReachable, [Next]_vars, ~Discards
  PROVE  GoneFirst'
<1>0. TypeOK /\ Shapes /\ CallsHaveDomain /\ Reach /\ GoneFirst
  BY DEF TrackedInv, ReachInv, LocalInv, TypeInv
<1> SUFFICES ASSUME NEW d \in Deploys, run'[d].phase \in {"forget", "close"},
                    NEW i \in run'[d].toReverse, IsFirst(i, run'[d].toReverse),
                    Place(i)' \in directory' \ Excused'
             PROVE  FALSE
  BY DEF GoneFirst
<1>a. ~Ended(d, "failed") /\ ~Ended(d, "passed")
  BY EndedStops
<1>1. CASE RunReversal(d)
  <2>1. PICK j \in run[d].toReverse :
          /\ IsFirst(j, run[d].toReverse)
          /\ directory' = directory \ {<<run[d].domain, rows[j].name>>}
          /\ run'[d].toReverse = run[d].toReverse
          /\ UNCHANGED rows
    BY <1>0, <1>1, AfterReversal DEF Reach
  <2>2. j = i
    BY <1>0, <2>1, FirstIsOne
  <2>3. Place(i) \notin directory'
    BY <1>1, <2>1, <2>2, ReversedPlace DEF TrackedInv, RunReversal
  <2> QED
    BY <2>1, <2>3 DEF Place
<1>2. CASE /\ run[d].phase \in {"forget", "close"}
           /\ run'[d].toReverse = run[d].toReverse
           /\ ~RunPush(d)
  <2>1. Place(i) \notin directory \ Excused
    BY <1>0, <1>2 DEF GoneFirst
  <2>2. Place(i)' = Place(i)
    BY <1>0, <1>2, RowsKeep DEF Reach
  <2>3. Excused \subseteq Excused' /\ byHand' \subseteq Excused'
    BY <1>0, DirectoryChange, RowsGrow DEF Excused
  <2>4. PICK e \in Deploys : RunPush(e) /\ \E n \in run[e].names : Place(i) = <<run[e].domain, n>>
    BY <1>0, <2>1, <2>2, <2>3, DirectoryChange
  <2>5. e # d
    BY <1>2, <2>4
  <2> QED
    BY <1>2, <2>4, <2>5 DEF Apart
<1>3. CASE run'[d] = run[d]
  <2>1. ~RunPush(d)
    BY <1>0, <1>3, AfterPush
  <2> QED
    BY <1>2, <1>3, <2>1
<1>4. CASE ForgetAccount(d)
  BY <1>0, <1>2, <1>4, AfterForget DEF SameMarks, RunPush
<1>5. ~(Start(d) \/ Plan(d) \/ SkipDomain(d) \/ LeaveDomain(d) \/ EndPush(d))
  BY <1>0, <1>a, AfterStart, AfterPlan, AfterSkip, AfterLeave, AfterEndPush
<1>6. ~(EnterDomain(d) \/ TrackAccount(d) \/ RunPush(d) \/ RecordPush(d))
  BY <1>0, <1>a, AfterEnter, TracksOne, AfterPush, AfterRecordPush DEF Tracks
<1>7. ~(EnterReversal(d) \/ CloseReversal(d) \/ LeaveReversal(d) \/ EndReversal(d) \/ Abort(d))
  BY <1>0, <1>a, AfterEnterReversal, AfterClose, AfterLeaveReversal, AfterEnd
<1> QED
  BY <1>0, <1>1, <1>3, <1>4, <1>5, <1>6, <1>7, WhoActs DEF Deploy, vars

(* What is in a directory keeps a row that is open.                         *)
LEMMA OpenRowStep ==
  ASSUME TrackedInv, [Next]_vars, ~Discards
  PROVE  DirectoryIsTracked'
<1>0. TypeOK /\ CallsHaveDomain /\ GoneFirst
  BY DEF TrackedInv, ReachInv, LocalInv, TypeInv
<1> SUFFICES ASSUME NEW p \in directory' \ Excused'
             PROVE  \E i \in DOMAIN rows' :
                      Place(i)' = p /\ rows'[i].status # "reverted_applied"
  BY DEF DirectoryIsTracked
<1>1. CASE p \in directory
  <2>1. p \in directory \ Excused
    BY <1>0, <1>1, DirectoryChange, RowsGrow DEF Excused
  <2>2. PICK i \in DOMAIN rows : Place(i) = p /\ rows[i].status # "reverted_applied"
    BY <2>1 DEF TrackedInv, DirectoryIsTracked
  <2>3. ASSUME NEW d \in Deploys, CloseReversal(d), i \in run[d].toReverse
        PROVE  rows'[i].status # "reverted_applied"
    <3>1. PICK j \in run[d].toReverse : /\ IsFirst(j, run[d].toReverse)
                                        /\ rows' = UpdateStatus(rows, j, "reverted_applied")
      BY <1>0, <2>3, AfterClose
    <3>2. Place(j) \notin directory \ Excused
      BY <1>0, <2>3, <3>1 DEF GoneFirst, CloseReversal
    <3>3. j # i
      BY <2>1, <2>2, <3>2
    <3> QED
      BY <1>0, <2>2, <3>1, <3>3, AfterUpdate
  <2>4. rows'[i].status # "reverted_applied"
    BY <1>0, <2>2, <2>3, StatusSteps
  <2> QED
    BY <1>0, <2>2, <2>4, RowsKeep
<1>2. CASE p \notin directory
  <2>1. PICK d \in Deploys : RunPush(d) /\ \E n \in run[d].names : p = <<run[d].domain, n>>
    BY <1>0, <1>2, DirectoryChange DEF Excused
  <2>2. run[d].phase = "track" /\ run[d].toTrack = {} /\ UNCHANGED rows
    BY <1>0, <2>1, AfterPush
  <2>3. PICK i \in run[d].mine : Place(i) = p
    BY <2>1, <2>2 DEF TrackedInv, CallInv, Calls, Call, Here, At
  <2>4. i \in DOMAIN rows /\ rows[i].status # "reverted_applied"
    BY DEF TrackedInv, MineIsOpen
  <2> QED
    BY <2>2, <2>3, <2>4 DEF Place
<1> QED
  BY <1>1, <1>2

(* The three hold at first.                                                 *)
LEMMA TrackedInit == Init => MineIsOpen /\ GoneFirst /\ DirectoryIsTracked
<1> SUFFICES ASSUME Init PROVE MineIsOpen /\ GoneFirst /\ DirectoryIsTracked
  OBVIOUS
<1>1. \A d \in Deploys : run[d] = NotRunning("idle")
  BY DEF Init
<1> QED
  BY <1>1, NotRunningIsEmpty DEF Init, MineIsOpen, GoneFirst, DirectoryIsTracked

(* What is not excused after a discard was not before it, and keeps its row.*)
LEMMA DiscardIsExcused ==
  ASSUME TypeOK, Discards, NEW p \in directory' \ Excused'
  PROVE  /\ p \in directory \ Excused
         /\ \A i \in DOMAIN rows : Place(i) = p =>
              i \in DOMAIN rows' /\ rows'[i] = rows[i] /\ Place(i)' = p
  BY AfterDiscard DEF Excused, DiscardedPlaces

(* The three survive a discard.                                             *)
LEMMA TrackedDiscard ==
  ASSUME TypeOK, Shapes, DirectoryIsTracked, Discards, "rows" \notin EditsDuringDeploy
  PROVE  MineIsOpen' /\ GoneFirst' /\ DirectoryIsTracked'
<1>1. MineIsOpen' /\ GoneFirst'
  BY DiscardIsIdle DEF MineIsOpen, GoneFirst, Stopped
<1>2. DirectoryIsTracked'
  <2> SUFFICES ASSUME NEW p \in directory' \ Excused'
               PROVE  \E i \in DOMAIN rows' :
                        Place(i)' = p /\ rows'[i].status # "reverted_applied"
    BY DEF DirectoryIsTracked
  <2>1. PICK i \in DOMAIN rows : Place(i) = p /\ rows[i].status # "reverted_applied"
    BY DiscardIsExcused DEF DirectoryIsTracked
  <2> QED
    BY <2>1, DiscardIsExcused
<1> QED
  BY <1>1, <1>2

(* With one domain in reach and one deployment, what is in the directory has*)
(* a row that is open, whatever accounts are deleted meanwhile, unless such *)
(* a row was thrown away between two deployments.                           *)
THEOREM StillTrackedAlone ==
  ASSUME OneReachable, "create" \notin EditsDuringDeploy, "rows" \notin EditsDuringDeploy,
         \A d, e \in Deploys : d = e
  PROVE  Spec => []DirectoryIsTracked
<1>1. ReachInv /\ CallInv /\ MineIsOpen /\ GoneFirst /\ DirectoryIsTracked /\ [Next]_vars
        => MineIsOpen' /\ GoneFirst' /\ DirectoryIsTracked'
  <2> SUFFICES ASSUME TrackedInv, [Next]_vars
               PROVE  MineIsOpen' /\ GoneFirst' /\ DirectoryIsTracked'
    BY DEF TrackedInv
  <2>0. TypeOK /\ Shapes /\ DirectoryIsTracked
    BY DEF TrackedInv, ReachInv, LocalInv, TypeInv
  <2>1. CASE Discards
    BY <2>0, <2>1, TrackedDiscard
  <2>2. CASE ~Discards
    <3>1. Apart
      BY DEF Apart
    <3> QED
      BY <2>2, <3>1, OpenStep, GoneStep, OpenRowStep
  <2> QED
    BY <2>1, <2>2
<1> QED
  BY <1>1, TrackedInit, ReachHolds, CallsHold, PTL DEF Spec

(* What a deployment lists to push is not marked and was not reversed: names *)
(* of such rows are passed over, and marks are not set meanwhile.           *)
ListedIsUnmarked ==
  \A d \in Deploys : \A l \in run[d].listed :
    \A i \in RowsWith(rows, Reverted) : Place(i) # At(l)

(* When neither kind of edit is made during a deployment.                   *)
UnmarkedInv == ReachInv /\ QuietInv /\ CallInv /\ ListedIsUnmarked

(* A list is read once, and only gets shorter.                              *)
LEMMA ListShrinks ==
  ASSUME TypeOK, Shapes, [Next]_vars, NEW d \in Deploys
  PROVE  \/ Start(d) /\ run'[d].listed = NotPushed(d)
         \/ run'[d].listed = {}
         \/ Running(d) /\ run'[d].listed \subseteq run[d].listed
<1>1. CASE run'[d] = run[d]
  BY <1>1 DEF Running, Stopped, Shapes, Shape
<1>2. CASE Deploy(d) /\ run'[d].phase \in Stopped
  <2>1. Shape(d)'
    BY <1>2, ShapeStep DEF Shapes
  <2> QED
    BY <1>2, <2>1 DEF Shape, Stopped
<1>3. CASE Deploy(d) /\ run'[d].phase \notin Stopped /\ ~Start(d)
  <2>1. Running(d)
    BY <1>3, OnlyStartWakes
  <2>2. run'[d].listed \subseteq run[d].listed \cup run[d].toTrack
    BY <1>3, ListsAfter
  <2>3. run[d].toTrack \subseteq run[d].listed
    BY DEF Shapes, Shape
  <2> QED
    BY <2>1, <2>2, <2>3
<1>4. CASE Start(d)
  BY <1>4, AfterStart
<1> QED
  BY <1>1, <1>2, <1>3, <1>4, WhoActs DEF vars

(* A row that is marked or reversed after a step was so before it, or no    *)
(* deployment runs.                                                         *)
LEMMA NewReverted ==
  ASSUME TypeOK, QuietInv, [Next]_vars, ~Discards, NEW i \in RowsWith(rows', Reverted)
  PROVE  i \in RowsWith(rows, Reverted) \/ (Quiet /\ UNCHANGED run)
<1>0. i \in DOMAIN rows' /\ rows'[i].status \in Reverted
  BY DEF RowsWith
<1>1. CASE rows'[i].status = "reverted_pending"
  BY <1>0, <1>1, NewMarks DEF Pending, RowsWith, Reverted
<1>2. CASE rows'[i].status = "reverted_applied"
  <2>1. CASE i \in DOMAIN rows
    <3>1. \A d \in Deploys : i \in run[d].toReverse => rows[i].status \in Reverted
      BY DEF QuietInv, MarksAreOld, RowsWith
    <3>2. rows[i].status \in Reverted
      BY <1>0, <1>2, <2>1, <3>1, StatusSteps
    <3> QED
      BY <2>1, <3>2 DEF RowsWith
  <2>2. CASE i \notin DOMAIN rows
    <3>1. \A j : Marks(j) => DOMAIN rows' = DOMAIN rows
      BY AfterUpdate DEF Marks
    <3>2. \A d \in Deploys : RecordPush(d) \/ CloseReversal(d) => DOMAIN rows' = DOMAIN rows
      BY AfterRecordPush, AfterClose, AfterUpdate
    <3>3. \A d \in Deploys : TrackAccount(d) => rows'[i].status = "pending" \/ UNCHANGED rows
      BY <1>0, <2>2, TracksOne DEF Tracks
    <3> QED
      BY <1>0, <1>2, <2>2, <3>1, <3>2, <3>3, RowWriters
  <2> QED
    BY <2>1, <2>2
<1> QED
  BY <1>0, <1>1, <1>2 DEF Reverted

(* A list stays clear of marks.                                             *)
LEMMA UnmarkedStep ==
  ASSUME UnmarkedInv, [Next]_vars, ~Discards
  PROVE  ListedIsUnmarked'
<1>0. TypeOK /\ Shapes /\ QuietInv
  BY DEF UnmarkedInv, ReachInv, LocalInv, TypeInv
<1> SUFFICES ASSUME NEW d \in Deploys, NEW l \in run'[d].listed,
                    NEW i \in RowsWith(rows', Reverted)
             PROVE  Place(i)' # At(l)
  BY DEF ListedIsUnmarked, At
<1>1. CASE Start(d) /\ run'[d].listed = NotPushed(d)
  <2>1. UNCHANGED rows
    BY <1>1 DEF Start
  <2>2. i \in RowsWith(rows, Settled)
    BY <2>1 DEF RowsWith, Settled, Reverted
  <2> QED
    BY <1>1, <2>1, <2>2 DEF NotPushed, Place, At
<1>2. CASE Running(d) /\ l \in run[d].listed
  <2>1. i \in RowsWith(rows, Reverted)
    BY <1>0, <1>2, NewReverted DEF Running, Quiet
  <2>2. Place(i)' = Place(i)
    BY <1>0, <2>1, RowsKeep DEF RowsWith
  <2> QED
    BY <1>2, <2>1, <2>2 DEF UnmarkedInv, ListedIsUnmarked
<1> QED
  BY <1>0, <1>1, <1>2, ListShrinks

(* The invariant of a lab whose operator waits with both.                   *)
LEMMA UnmarkedHolds ==
  ASSUME "create" \notin EditsDuringDeploy, "delete" \notin EditsDuringDeploy,
         "rows" \notin EditsDuringDeploy
  PROVE  Spec => []UnmarkedInv
<1>1. Init => ListedIsUnmarked
  BY NotRunningIsEmpty DEF Init, ListedIsUnmarked
<1>2. ReachInv /\ QuietInv /\ CallInv /\ ListedIsUnmarked /\ [Next]_vars => ListedIsUnmarked'
  <2> SUFFICES ASSUME UnmarkedInv, [Next]_vars PROVE ListedIsUnmarked'
    BY DEF UnmarkedInv
  <2>0. TypeOK /\ Shapes
    BY DEF UnmarkedInv, ReachInv, LocalInv, TypeInv
  <2>1. CASE Discards
    BY <2>0, <2>1, DiscardIsIdle DEF ListedIsUnmarked
  <2>2. CASE ~Discards
    BY <2>2, UnmarkedStep
  <2> QED
    BY <2>1, <2>2
<1> QED
  BY <1>1, <1>2, ReachHolds, QuietHolds, CallsHold, PTL DEF UnmarkedInv, Spec

(* Deployments that race are kept apart: what one pushes the other does not *)
(* reverse.                                                                 *)
LEMMA UnmarkedIsApart ==
  ASSUME UnmarkedInv
  PROVE  Apart
<1>1. ASSUME NEW d \in Deploys, NEW e \in Deploys, run[e].phase = "track",
             NEW i \in run[d].toReverse, NEW n \in run[e].names
      PROVE  Place(i) # <<run[e].domain, n>>
  <2>1. PICK l \in run[e].listed : At(l) = <<run[e].domain, n>>
    BY <1>1 DEF UnmarkedInv, CallInv, Calls, Call, Here, At
  <2>2. i \in RowsWith(rows, Reverted)
    BY DEF UnmarkedInv, QuietInv, MarksAreOld
  <2> QED
    BY <2>1, <2>2 DEF UnmarkedInv, ListedIsUnmarked
<1>2. ASSUME NEW d \in Deploys, NEW e \in Deploys PROVE run[d].mine \cap run[e].toReverse = {}
  BY DEF UnmarkedInv, QuietInv, MineIsPending, MarksAreOld, RowsWith, Reverted
<1> QED
  BY <1>1, <1>2 DEF Apart, RunPush

(* A lab with one domain in reach, besides.                                 *)
OpenInv == UnmarkedInv /\ MineIsOpen /\ GoneFirst /\ DirectoryIsTracked

(* It holds of every state such a lab reaches.                              *)
LEMMA OpenHolds ==
  ASSUME OneReachable, "create" \notin EditsDuringDeploy, "delete" \notin EditsDuringDeploy,
         "rows" \notin EditsDuringDeploy
  PROVE  Spec => []OpenInv
<1>1. OpenInv /\ [Next]_vars => MineIsOpen' /\ GoneFirst' /\ DirectoryIsTracked'
  <2> SUFFICES ASSUME OpenInv, [Next]_vars
               PROVE  MineIsOpen' /\ GoneFirst' /\ DirectoryIsTracked'
    OBVIOUS
  <2>0. TypeOK /\ Shapes /\ DirectoryIsTracked /\ TrackedInv /\ Apart
    BY UnmarkedIsApart DEF OpenInv, TrackedInv, UnmarkedInv, ReachInv, LocalInv, TypeInv
  <2>1. CASE Discards
    BY <2>0, <2>1, TrackedDiscard
  <2>2. CASE ~Discards
    BY <2>0, <2>2, OpenStep, GoneStep, OpenRowStep
  <2> QED
    BY <2>1, <2>2
<1> QED
  BY <1>1, TrackedInit, UnmarkedHolds, PTL DEF Spec, OpenInv

(* With one domain in reach, what is in the directory has a row that is     *)
(* open, however many deployments race, if the operator waits for their end *)
(* to create or delete an account, or to throw a row away, which takes what *)
(* it names out of the claim.                                               *)
THEOREM StillTracked ==
  ASSUME OneReachable, "create" \notin EditsDuringDeploy, "delete" \notin EditsDuringDeploy,
         "rows" \notin EditsDuringDeploy
  PROVE  Spec => []DirectoryIsTracked
<1>1. OpenInv => DirectoryIsTracked
  BY DEF OpenInv
<1> QED
  BY <1>1, OpenHolds, PTL

(* A call that is done has pushed what it lists, in races too.              *)
LEMMA DoneHolds ==
  ASSUME OneReachable, "create" \notin EditsDuringDeploy, "delete" \notin EditsDuringDeploy,
         "rows" \notin EditsDuringDeploy
  PROVE  Spec => []DoneIsReal
<1>1. Init => DoneIsReal
  BY NotRunningIsEmpty DEF Init, DoneIsReal
<1>2. UnmarkedInv /\ DoneIsReal /\ [Next]_vars => DoneIsReal'
  <2> SUFFICES ASSUME UnmarkedInv, DoneIsReal, [Next]_vars PROVE DoneIsReal'
    OBVIOUS
  <2>1. TypeOK /\ CallInv /\ ReachInv
    BY DEF UnmarkedInv, CallInv, LocalInv, TypeInv
  <2>2. ASSUME NEW d \in Deploys, NEW e \in Deploys, RunReversal(e),
               NEW i \in run[d].mine, NEW j \in run[e].toReverse, NEW n,
               j \in DOMAIN rows => n = rows[j].name
        PROVE  Place(i) # <<run[e].domain, n>>
    <3>1. <<run[e].domain, n>> = Place(j)
      BY <2>1, <2>2, ReversedPlace DEF RunReversal, ReachInv, Reach
    <3>2. \E l \in run[d].listed : Place(i) = At(l)
      BY <2>1 DEF CallInv, LocalInv, Shapes, Shape, Calls, Call, Here
    <3>3. j \in RowsWith(rows, Reverted)
      BY DEF UnmarkedInv, QuietInv, MarksAreOld
    <3> QED
      BY <3>1, <3>2, <3>3 DEF UnmarkedInv, ListedIsUnmarked
  <2>3. CASE Discards
    <3>1. Shapes
      BY <2>1 DEF CallInv, LocalInv
    <3> QED
      BY <2>1, <2>3, <3>1, DiscardIsIdle DEF DoneIsReal, Stopped
  <2>4. CASE ~Discards
    BY <2>1, <2>2, <2>4, DoneStep
  <2> QED
    BY <2>3, <2>4
<1> QED
  BY <1>1, <1>2, UnmarkedHolds, PTL DEF Spec

(* A row becomes APPLIED only when its account is in the directory, also    *)
(* when one project is deployed twice at a time, under the same conditions. *)
THEOREM AppliedWasPushedInRaces ==
  ASSUME OneReachable, "create" \notin EditsDuringDeploy, "delete" \notin EditsDuringDeploy,
         "rows" \notin EditsDuringDeploy
  PROVE  Spec => AppliedIsReal
<1>1. CallInv /\ DoneIsReal /\ [Next]_vars =>
        [\A i \in DOMAIN rows' :
           rows'[i].status = "applied" /\ (i \in DOMAIN rows => rows[i].status # "applied")
             => Place(i)' \in directory]_vars
  BY NewlyApplied DEF CallInv, LocalInv, TypeInv
<1>2. UnmarkedInv => CallInv
  BY DEF UnmarkedInv
<1> QED
  BY <1>1, <1>2, DoneHolds, UnmarkedHolds, PTL DEF AppliedIsReal, Spec

-----------------------------------------------------------------------------
(* An account leaves the directory before the database.                     *)

Alive(a, p) == a \in DOMAIN accounts /\ <<accounts[a].domain, accounts[a].name>> = p

(* What a deployment lists is in the database, unless the id serves another *)
(* name.                                                                    *)
ListedIsAlive ==
  \A d \in Deploys : \A l \in run[d].listed :
    \/ Alive(l.id, At(l))
    \/ \E j \in DOMAIN rows : rows[j].account = l.id /\ Place(j) # At(l)

(* So is what it pushes.                                                    *)
MineIsAlive ==
  IdsAreDistinct => \A d \in Deploys : \A i \in run[d].mine : Alive(rows[i].account, Place(i))

(* So is what is in a directory.                                            *)
DirectoryIsBacked ==
  IdsAreDistinct =>
    \A p \in directory \ Excused :
      \E i \in DOMAIN rows : Place(i) = p /\ Alive(rows[i].account, p)

(* An account about to be deleted at once has no row.                       *)
UntrackedDelete ==
  edit # NoEdit /\ edit.row = 0 => \A i \in DOMAIN rows : rows[i].account # edit.account

BackedInv ==
  OpenInv /\ ListedIsAlive /\ MineIsAlive /\ DirectoryIsBacked /\ UntrackedDelete

(* An account stays as it is, or goes in one of two ways.                   *)
LEMMA AccountGoes ==
  ASSUME TypeOK, [Next]_vars, NEW a \in DOMAIN accounts
  PROVE  \/ a \in DOMAIN accounts' /\ accounts'[a] = accounts[a]
         \/ CommitDelete /\ edit # NoEdit /\ edit.row = 0 /\ edit.account = a
         \/ \E d \in Deploys : /\ ForgetAccount(d)
                               /\ \E i \in run[d].toReverse :
                                    /\ IsFirst(i, run[d].toReverse)
                                    /\ i \in DOMAIN rows => rows[i].account = a
<1>1. ASSUME NEW n, NEW dm, CreateAccount(n, dm)
      PROVE  a \in DOMAIN accounts' /\ accounts'[a] = accounts[a]
  <2> DEFINE new == [name |-> n, domain |-> dm]
  <2>1. PICK b \in AccountIds : IsNextId(accounts, b) /\ accounts' = CreateRow(accounts, b, new)
    BY <1>1 DEF CreateAccount
  <2> HIDE DEF new
  <2>2. b \notin DOMAIN accounts
    BY <2>1, IdsAreNumbers, NextIdIsNew
  <2> QED
    BY <2>1, <2>2 DEF CreateRow
<1>2. CASE CommitDelete
  <2>1. CASE edit.row = 0
    BY <1>2, <2>1 DEF CommitDelete
  <2>2. CASE edit.row # 0
    BY <1>2, <2>2 DEF CommitDelete
  <2> QED
    BY <2>1, <2>2
<1>3. ASSUME NEW d \in Deploys, ForgetAccount(d)
      PROVE  \/ a \in DOMAIN accounts' /\ accounts'[a] = accounts[a]
             \/ \E i \in run[d].toReverse :
                  /\ IsFirst(i, run[d].toReverse)
                  /\ i \in DOMAIN rows => rows[i].account = a
  BY <1>3, AfterForget
<1>4. \/ UNCHANGED accounts
      \/ CommitDelete
      \/ \E n \in Names, dm \in Domains : CreateAccount(n, dm)
      \/ \E d \in Deploys : ForgetAccount(d)
  BY DEF Next, Operator, LookUpDeleted, DeployUser, RemoveRow, OverwriteRow, Deploy,
         Start, Plan, SkipDomain,
         EnterDomain, TrackAccount, RunPush, RecordPush, LeaveDomain, EndPush,
         EnterReversal, RunReversal, CloseReversal, LeaveReversal, EndReversal,
         Abort, vars
<1> QED
  BY <1>1, <1>2, <1>3, <1>4

(* The trace of a row there is.                                             *)
RowTrace(i) == [row |-> i, account |-> rows[i].account, place |-> Place(i)]

(* Rows leave a trace, so ids that serve one name each always have.         *)
LEMMA DistinctBefore ==
  ASSUME TypeOK, [Next]_vars, IdsAreDistinct'
  PROVE  IdsAreDistinct
<1>1. discarded \subseteq discarded'
  BY RowsGrow
<1>2. ASSUME NEW i \in DOMAIN rows PROVE RowTrace(i) \in Traces'
  <2>1. CASE i \in DOMAIN rows' /\ rows'[i].account = rows[i].account /\ Place(i)' = Place(i)
    <3>1. RowTrace(i)' = RowTrace(i)
      BY <2>1 DEF RowTrace
    <3>2. RowTrace(i)' \in Traces'
      BY <2>1 DEF RowTrace, Traces
    <3> QED
      BY <3>1, <3>2
  <2>2. CASE ~Discards
    BY <2>1, <2>2, RowsKeep
  <2>3. CASE Discards
    <3>1. ASSUME RemoveRow(i) \/ OverwriteRow(i) PROVE RowTrace(i) \in discarded'
      BY <3>1 DEF RemoveRow, OverwriteRow, NoteDiscard, RowTrace
    <3>2. ASSUME ~(RemoveRow(i) \/ OverwriteRow(i))
          PROVE  i \in DOMAIN rows' /\ rows'[i] = rows[i] /\ Place(i)' = Place(i)
      BY <2>3, <3>2, AfterDiscard
    <3> QED
      BY <2>1, <3>1, <3>2 DEF Traces
  <2> QED
    BY <2>2, <2>3
<1>3. Traces \subseteq Traces'
  BY <1>1, <1>2 DEF Traces, RowTrace
<1> QED
  BY <1>3 DEF IdsAreDistinct

(* Two rows of one account name one place then.                             *)
LEMMA OnePlace ==
  ASSUME IdsAreDistinct, NEW i \in DOMAIN rows, NEW j \in DOMAIN rows,
         rows[i].account = rows[j].account
  PROVE  Place(i) = Place(j)
<1>1. RowTrace(i) \in Traces /\ RowTrace(j) \in Traces
  BY DEF Traces, RowTrace
<1>2. /\ RowTrace(i).account = rows[i].account /\ RowTrace(i).place = Place(i)
      /\ RowTrace(j).account = rows[j].account /\ RowTrace(j).place = Place(j)
  BY DEF RowTrace
<1> HIDE DEF RowTrace
<1> QED
  BY <1>1, <1>2 DEF IdsAreDistinct

(* While a deployment runs, an account only goes by a reversal.             *)
LEMMA GoesByReversal ==
  ASSUME TypeOK, QuietInv, [Next]_vars, NEW a, NEW p, Alive(a, p), ~Quiet
  PROVE  \/ Alive(a, p)'
         \/ \E d \in Deploys : \E i \in run[d].toReverse : rows[i].account = a
<1>1. ~(CommitDelete /\ edit # NoEdit)
  BY DEF QuietInv, DeletesWait
<1>2. \A d \in Deploys : run[d].toReverse \subseteq DOMAIN rows
  BY DEF QuietInv, MarksAreOld, RowsWith
<1> QED
  BY <1>1, <1>2, AccountGoes DEF Alive

(* A list stays alive ...                                                   *)
LEMMA ListedAliveStep ==
  ASSUME BackedInv, [Next]_vars, ~Discards
  PROVE  ListedIsAlive'
<1>0. /\ TypeOK /\ Shapes /\ QuietInv /\ MarksAreOld
      /\ ListedIsUnmarked /\ ListedIsAlive
  BY DEF BackedInv, OpenInv, UnmarkedInv, ReachInv, LocalInv, TypeInv, QuietInv
<1> DEFINE Elsewhere(l) == \E j \in DOMAIN rows : rows[j].account = l.id /\ Place(j) # At(l)
<1> SUFFICES ASSUME NEW d \in Deploys, NEW l \in run'[d].listed
             PROVE  Alive(l.id, At(l))' \/ Elsewhere(l)'
  BY DEF ListedIsAlive
<1>1. CASE Start(d) /\ run'[d].listed = NotPushed(d)
  <2>1. l \in NotPushed(d) /\ UNCHANGED accounts
    BY <1>1 DEF Start
  <2> QED
    BY <2>1 DEF NotPushed, Alive, At
<1>2. CASE Running(d) /\ l \in run[d].listed
  <2>1. ~Quiet
    BY <1>2 DEF Running, Quiet
  <2>2. Elsewhere(l) => Elsewhere(l)'
    BY <1>0, RowsKeep DEF At
  <2>3. ASSUME NEW e \in Deploys, NEW i \in run[e].toReverse, rows[i].account = l.id
        PROVE  Elsewhere(l)
    <3>1. i \in RowsWith(rows, Reverted)
      BY <1>0 DEF MarksAreOld
    <3>2. Place(i) # At(l)
      BY <1>0, <1>2, <3>1 DEF ListedIsUnmarked
    <3> QED
      BY <2>3, <3>1, <3>2 DEF RowsWith
  <2>4. Alive(l.id, At(l)) => Alive(l.id, At(l))' \/ Elsewhere(l)
    BY <1>0, <2>1, <2>3, GoesByReversal DEF At
  <2>5. Alive(l.id, At(l)) \/ Elsewhere(l)
    BY <1>0, <1>2 DEF ListedIsAlive
  <2> HIDE DEF Elsewhere
  <2> QED
    BY <2>2, <2>4, <2>5
<1> HIDE DEF Elsewhere
<1> QED
  BY <1>0, <1>1, <1>2, ListShrinks

(* ... and so does what is being pushed ...                                 *)
LEMMA MineAliveStep ==
  ASSUME BackedInv, [Next]_vars, ~Discards
  PROVE  MineIsAlive'
<1>0. /\ TypeOK /\ Shapes /\ QuietInv /\ MarksAreOld /\ MineIsPending
      /\ Calls /\ ListsStand /\ ListedIsUnmarked /\ ListedIsAlive
  BY DEF BackedInv, OpenInv, UnmarkedInv, ReachInv, CallInv, LocalInv, TypeInv, QuietInv
<1> SUFFICES ASSUME IdsAreDistinct', NEW d \in Deploys, NEW i \in run'[d].mine
             PROVE  Alive(rows[i].account, Place(i))'
  BY DEF MineIsAlive
<1>1. CASE i \in run[d].mine
  <2>1. Alive(rows[i].account, Place(i))
    BY <1>0, <1>1, DistinctBefore DEF BackedInv, MineIsAlive
  <2>2. i \in DOMAIN rows /\ run[d].phase \in {"track", "record"}
    BY <1>0, <1>1 DEF MineIsPending, RowsWith, Shapes, Shape
  <2>3. PICK l \in run[d].listed : Place(i) = At(l)
    BY <1>0, <1>1, <2>2 DEF Calls, Call, Here
  <2>4. ASSUME NEW e \in Deploys, NEW j \in run[e].toReverse
        PROVE  rows[j].account # rows[i].account
    <3>1. j \in RowsWith(rows, Reverted)
      BY <1>0 DEF MarksAreOld
    <3>2. Place(j) # Place(i)
      BY <1>0, <2>3, <3>1 DEF ListedIsUnmarked
    <3> QED
      BY <1>0, <2>2, <3>1, <3>2, DistinctBefore, OnePlace DEF RowsWith
  <2>5. ~Quiet
    BY <2>2 DEF Quiet, Stopped
  <2>6. \A a, p : Alive(a, p) => Alive(a, p)' \/ \E e \in Deploys : \E j \in run[e].toReverse :
                                                   rows[j].account = a
    BY <1>0, <2>5, GoesByReversal
  <2>7. PICK a, p : a = rows[i].account /\ p = Place(i)
    OBVIOUS
  <2>8. Alive(a, p)'
    BY <2>1, <2>4, <2>6, <2>7
  <2>9. rows'[i].account = a /\ Place(i)' = p
    BY <1>0, <2>2, <2>7, RowsKeep
  <2> QED
    BY <2>8, <2>9 DEF Alive
<1>2. CASE i \notin run[d].mine
  <2>1. TrackAccount(d) /\ ~Ended(d, "failed")
    <3>1. Ended(d, "failed") => run'[d].mine = {}
      BY NotRunningIsEmpty DEF Ended
    <3> QED
      BY <1>0, <1>2, <3>1, MineSteps
  <2>2. PICK l, j : Tracks(d, l, j)
    BY <1>0, <2>1, TracksOne
  <2>3. j = i
    BY <1>2, <2>2 DEF Tracks
  <2>4. l \in run[d].toTrack /\ l \in run[d].listed /\ Running(d) /\ UNCHANGED accounts
    BY <1>0, <2>1, <2>2 DEF Tracks, Shapes, Shape, TrackAccount, Running, Stopped
  <2>5. Seen(d, l).name = l.name
    BY <1>0, <2>2, <2>4, SeenIsListed DEF Tracks
  <2>6. rows'[i].account = l.id /\ Place(i)' = At(l) /\ i \in DOMAIN rows'
    BY <2>2, <2>3, <2>5 DEF Tracks, At
  <2>7. ASSUME NEW k \in DOMAIN rows, rows[k].account = l.id PROVE Place(k) = At(l)
    <3>1. k \in DOMAIN rows' /\ rows'[k].account = l.id /\ Place(k)' = Place(k)
      BY <1>0, <2>7, RowsKeep
    <3>2. RowTrace(k)' \in Traces' /\ RowTrace(i)' \in Traces'
      BY <2>6, <3>1 DEF Traces, RowTrace
    <3>3. /\ RowTrace(k)'.account = rows'[k].account /\ RowTrace(k)'.place = Place(k)'
          /\ RowTrace(i)'.account = rows'[i].account /\ RowTrace(i)'.place = Place(i)'
      BY DEF RowTrace
    <3> HIDE DEF RowTrace
    <3> QED
      BY <2>6, <3>1, <3>2, <3>3 DEF IdsAreDistinct
  <2>8. Alive(l.id, At(l))
    BY <1>0, <2>4, <2>7 DEF ListedIsAlive
  <2> QED
    BY <2>4, <2>6, <2>8 DEF Alive
<1> QED
  BY <1>1, <1>2

(* ... and what is in a directory.                                          *)
LEMMA BackedStep ==
  ASSUME BackedInv, [Next]_vars, ~Discards
  PROVE  DirectoryIsBacked'
<1>0. /\ TypeOK /\ CallsHaveDomain /\ Reach /\ Calls /\ GoneFirst /\ MineIsOpen
      /\ MineIsAlive /\ DirectoryIsBacked /\ UntrackedDelete
  BY DEF BackedInv, OpenInv, UnmarkedInv, ReachInv, CallInv, LocalInv, TypeInv
<1> SUFFICES ASSUME IdsAreDistinct', NEW p \in directory' \ Excused'
             PROVE  \E i \in DOMAIN rows' : Place(i)' = p /\ Alive(rows[i].account, p)'
  BY DEF DirectoryIsBacked, Alive
<1>a. IdsAreDistinct
  BY <1>0, DistinctBefore
<1>b. SUFFICES \E i \in DOMAIN rows : Place(i) = p /\ Alive(rows[i].account, p)
                                      /\ Alive(rows[i].account, p)'
  BY <1>0, RowsKeep DEF Alive
<1>1. CASE p \in directory
  <2>1. p \in directory \ Excused
    BY <1>0, <1>1, DirectoryChange, RowsGrow DEF Excused
  <2>2. PICK i \in DOMAIN rows : Place(i) = p /\ Alive(rows[i].account, p)
    BY <1>0, <1>a, <2>1 DEF DirectoryIsBacked
  <2>3. PICK a : a = rows[i].account
    OBVIOUS
  <2>4. ~(edit # NoEdit /\ edit.row = 0 /\ edit.account = a)
    BY <1>0, <2>3 DEF UntrackedDelete
  <2>5. ASSUME NEW d \in Deploys, ForgetAccount(d), NEW j \in run[d].toReverse,
               IsFirst(j, run[d].toReverse), j \in DOMAIN rows => rows[j].account = a
        PROVE  FALSE
    <3>1. Place(j) = p
      BY <1>0, <1>a, <2>2, <2>3, <2>5, OnePlace DEF Reach
    <3> QED
      BY <1>0, <2>1, <2>5, <3>1 DEF GoneFirst, ForgetAccount
  <2>6. a \in DOMAIN accounts' /\ accounts'[a] = accounts[a]
    BY <1>0, <2>2, <2>3, <2>4, <2>5, AccountGoes DEF Alive
  <2>7. rows'[i].account = a
    BY <1>0, <2>3, RowsKeep
  <2> QED
    BY <2>2, <2>3, <2>6, <2>7 DEF Alive
<1>2. CASE p \notin directory
  <2>1. PICK d \in Deploys : RunPush(d) /\ \E n \in run[d].names : p = <<run[d].domain, n>>
    BY <1>0, <1>2, DirectoryChange DEF Excused
  <2>2. run[d].phase = "track" /\ run[d].toTrack = {} /\ UNCHANGED <<accounts, rows>>
    BY <1>0, <2>1, AfterPush
  <2>3. PICK i \in run[d].mine : Place(i) = p
    BY <1>0, <2>1, <2>2 DEF Calls, Call, Here, At
  <2>4. Alive(rows[i].account, p)
    BY <1>0, <1>a, <2>3 DEF MineIsAlive
  <2> QED
    BY <1>0, <2>2, <2>3, <2>4 DEF MineIsOpen, Alive
<1> QED
  BY <1>1, <1>2

(* No row is created for an account that is being deleted.                  *)
LEMMA UntrackedStep ==
  ASSUME TypeOK, QuietInv, DeletesWait', UntrackedDelete, [Next]_vars, ~Discards
  PROVE  UntrackedDelete'
<1> SUFFICES ASSUME edit' # NoEdit, edit'.row = 0, NEW i \in DOMAIN rows'
             PROVE  rows'[i].account # edit'.account
  BY DEF UntrackedDelete
<1>1. CASE \E a \in AccountIds : LookUpDeleted(a)
  <2>1. PICK a \in AccountIds : LookUpDeleted(a)
    BY <1>1
  <2>2. \A j \in DOMAIN rows : [account |-> a, row |-> j, status |-> rows[j].status].row # 0
    BY IdsAreNumbers DEF TypeOK
  <2>3. \/ /\ {j \in DOMAIN rows : rows[j].account = a} = {}
           /\ edit' = [account |-> a, row |-> 0, status |-> "pending"]
        \/ \E j \in DOMAIN rows : edit' = [account |-> a, row |-> j, status |-> rows[j].status]
    BY <2>1 DEF LookUpDeleted, IsFirst
  <2>4. {j \in DOMAIN rows : rows[j].account = a} = {} /\ edit'.account = a
    BY <2>2, <2>3
  <2> QED
    BY <2>1, <2>4 DEF LookUpDeleted
<1>2. CASE ~\E a \in AccountIds : LookUpDeleted(a)
  <2>1. edit' = edit
    BY <1>2 DEF Next, Operator, CreateAccount, DeployUser, CommitDelete, RemoveRow,
       OverwriteRow, Deploy, Start, Plan, SkipDomain, EnterDomain, TrackAccount, RunPush, RecordPush, LeaveDomain,
       EndPush, EnterReversal, RunReversal, ForgetAccount, CloseReversal, LeaveReversal,
       EndReversal, Abort, vars
  <2>2. Quiet /\ \A j \in DOMAIN rows : rows[j].account # edit.account
    BY <2>1 DEF QuietInv, DeletesWait, UntrackedDelete
  <2>3. \A d \in Deploys : ~TrackAccount(d) /\ ~RecordPush(d) /\ ~CloseReversal(d)
    BY <2>2 DEF Quiet, Stopped, TrackAccount, RecordPush, CloseReversal
  <2>4. DOMAIN rows' = DOMAIN rows
    BY <2>3, RowWriters, AfterUpdate DEF Marks
  <2> QED
    BY <2>1, <2>2, <2>4, RowsKeep
<1> QED
  BY <1>1, <1>2

(* The four survive a discard.                                              *)
LEMMA BackedDiscard ==
  ASSUME BackedInv, [Next]_vars, Discards, "rows" \notin EditsDuringDeploy
  PROVE  ListedIsAlive' /\ MineIsAlive' /\ DirectoryIsBacked' /\ UntrackedDelete'
<1>0. /\ TypeOK /\ Shapes /\ DirectoryIsBacked /\ UntrackedDelete
  BY DEF BackedInv, OpenInv, UnmarkedInv, ReachInv, LocalInv, TypeInv
<1>1. ListedIsAlive' /\ MineIsAlive'
  BY <1>0, DiscardIsIdle DEF ListedIsAlive, MineIsAlive
<1>2. UntrackedDelete'
  BY <1>0, AfterDiscard DEF UntrackedDelete
<1>3. DirectoryIsBacked'
  <2> SUFFICES ASSUME IdsAreDistinct', NEW p \in directory' \ Excused'
               PROVE  \E i \in DOMAIN rows' : Place(i)' = p /\ Alive(rows[i].account, p)'
    BY DEF DirectoryIsBacked, Alive
  <2>1. PICK i \in DOMAIN rows : Place(i) = p /\ Alive(rows[i].account, p)
    BY <1>0, DistinctBefore, DiscardIsExcused DEF DirectoryIsBacked
  <2>2. i \in DOMAIN rows' /\ rows'[i] = rows[i] /\ Place(i)' = p /\ UNCHANGED accounts
    BY <1>0, <2>1, DiscardIsExcused, AfterDiscard
  <2> QED
    BY <2>1, <2>2 DEF Alive
<1> QED
  BY <1>1, <1>2, <1>3

(* The invariant of such a lab, database included.                          *)
LEMMA BackedHolds ==
  ASSUME OneReachable, "create" \notin EditsDuringDeploy, "delete" \notin EditsDuringDeploy,
         "rows" \notin EditsDuringDeploy
  PROVE  Spec => []BackedInv
<1>1. Init => ListedIsAlive /\ MineIsAlive /\ DirectoryIsBacked /\ UntrackedDelete
  BY NotRunningIsEmpty DEF Init, ListedIsAlive, MineIsAlive, DirectoryIsBacked, UntrackedDelete
<1>2. OpenInv /\ OpenInv' /\ ListedIsAlive /\ MineIsAlive /\ DirectoryIsBacked /\ UntrackedDelete
        /\ [Next]_vars
        => ListedIsAlive' /\ MineIsAlive' /\ DirectoryIsBacked' /\ UntrackedDelete'
  <2> SUFFICES ASSUME BackedInv, OpenInv', [Next]_vars
               PROVE  ListedIsAlive' /\ MineIsAlive' /\ DirectoryIsBacked' /\ UntrackedDelete'
    BY DEF BackedInv
  <2>1. TypeOK /\ QuietInv /\ UntrackedDelete
    BY DEF BackedInv, OpenInv, UnmarkedInv, ReachInv, LocalInv, TypeInv
  <2>2. DeletesWait'
    BY DEF OpenInv, UnmarkedInv, QuietInv
  <2>3. CASE Discards
    BY <2>3, BackedDiscard
  <2>4. CASE ~Discards
    BY <2>1, <2>2, <2>4, ListedAliveStep, MineAliveStep, BackedStep, UntrackedStep
  <2> QED
    BY <2>3, <2>4
<1> QED
  BY <1>1, <1>2, OpenHolds, PTL DEF BackedInv, Spec

(* With one domain in reach, an account leaves the database only after it   *)
(* left the directory, deleted at once or by a reversal, however many       *)
(* deployments race, fail and die, if the operator waits for their end to   *)
(* create or delete an account or to throw a row away, and threw none of    *)
(* this account away.                                                       *)
THEOREM DirectoryFirst ==
  ASSUME OneReachable, "create" \notin EditsDuringDeploy, "delete" \notin EditsDuringDeploy,
         "rows" \notin EditsDuringDeploy
  PROVE  Spec => LeavesDirectoryFirst
<1>1. BackedInv /\ [Next]_vars =>
        [\A a \in DOMAIN accounts \ DOMAIN accounts' :
           LET place == <<accounts[a].domain, accounts[a].name>>
           IN  /\ IdsAreDistinct
               /\ \A b \in DOMAIN accounts \ {a} : accounts[b] # accounts[a]
               /\ place \notin Excused
               => place \notin directory]_vars
  <2> SUFFICES ASSUME BackedInv, [Next]_vars,
                      NEW a \in DOMAIN accounts \ DOMAIN accounts', IdsAreDistinct,
                      \A b \in DOMAIN accounts \ {a} : accounts[b] # accounts[a],
                      NEW p, p = <<accounts[a].domain, accounts[a].name>>,
                      p \in directory \ Excused
               PROVE  FALSE
    OBVIOUS
  <2>0. /\ TypeOK /\ Reach /\ GoneFirst /\ DirectoryIsBacked /\ UntrackedDelete
    BY DEF BackedInv, OpenInv, UnmarkedInv, ReachInv, LocalInv, TypeInv
  <2>1. PICK i \in DOMAIN rows : Place(i) = p /\ Alive(rows[i].account, p)
    BY <2>0 DEF DirectoryIsBacked
  <2>2. \A b \in DOMAIN accounts : accounts[b] \in Account
    BY <2>0 DEF TypeOK
  <2>3. rows[i].account = a
    <3>1. /\ rows[i].account \in DOMAIN accounts
          /\ accounts[rows[i].account].domain = accounts[a].domain
          /\ accounts[rows[i].account].name = accounts[a].name
      BY <2>1 DEF Alive
    <3>2. accounts[rows[i].account] = accounts[a]
      BY <2>2, <3>1 DEF Account
    <3> QED
      BY <3>1, <3>2
  <2>4. ~(edit # NoEdit /\ edit.row = 0 /\ edit.account = a)
    BY <2>0, <2>3 DEF UntrackedDelete
  <2>5. PICK d \in Deploys : /\ ForgetAccount(d)
                             /\ \E j \in run[d].toReverse :
                                  IsFirst(j, run[d].toReverse) /\ rows[j].account = a
    BY <2>0, <2>4, AccountGoes DEF Reach
  <2>6. PICK j \in run[d].toReverse : IsFirst(j, run[d].toReverse) /\ rows[j].account = a
    BY <2>5
  <2>7. Place(j) = p
    BY <2>0, <2>1, <2>3, <2>6, OnePlace DEF Reach
  <2> QED
    BY <2>0, <2>5, <2>6, <2>7 DEF GoneFirst, ForgetAccount
<1> QED
  BY <1>1, BackedHolds, PTL DEF LeavesDirectoryFirst, Spec

-----------------------------------------------------------------------------
(* What a deployment that passed has pushed.                                *)

(* A name is in the directory, or given up: marked, or reversed once, or a  *)
(* row of it was thrown away.                                               *)
Present(p) ==
  p \in directory \cup DiscardedPlaces \/ \E i \in RowsWith(rows, Reverted) : Place(i) = p

(* A user that could not be pushed once is given up too.                    *)
Dealt(p) ==
  Present(p) \/ (Kind = "users" /\ \E i \in RowsWith(rows, {"error"}) : Place(i) = p)

AppliedIsPresent == \A i \in RowsWith(rows, {"applied"}) : Present(Place(i))

(* The names of a call that is done are there.                              *)
DoneIsPresent ==
  \A d \in Deploys : run[d].phase = "record" /\ run[d].outcome = "done" =>
    \A l \in Here(d) : Present(At(l))

(* An account of a domain in reach is dealt with, or is yet to be.          *)
AccountsAreDealt ==
  \A d \in Deploys : Running(d) =>
    \A a \in DOMAIN accounts : accounts[a].domain \in Own(d) \cap Reachable =>
      \/ Dealt(<<accounts[a].domain, accounts[a].name>>)
      \/ \E l \in run[d].listed :
           At(l) = <<accounts[a].domain, accounts[a].name>> /\ l.domain \in run[d].visits

DealtInv ==
  /\ UnmarkedInv /\ DoneIsReal
  /\ AppliedIsPresent /\ DoneIsPresent /\ AccountsAreDealt

(* What is there stays there, or was reversed.                              *)
LEMMA PresentStays ==
  ASSUME UnmarkedInv, OneReachable, [Next]_vars, NEW p, Present(p)
  PROVE  Present(p)'
<1>0. TypeOK /\ ReachInv /\ QuietInv
  BY DEF UnmarkedInv, ReachInv, LocalInv, TypeInv
<1>1. ASSUME NEW i \in RowsWith(rows, Reverted), Place(i) = p PROVE Present(p)'
  <2>1. CASE Discards
    BY <1>0, <1>1, <2>1, AfterDiscard DEF Present, RowsWith
  <2>2. CASE ~Discards
    BY <1>0, <1>1, <2>2, RevertedStays, RowsKeep DEF Present, RowsWith
  <2> QED
    BY <2>1, <2>2
<1>2. CASE p \in directory \ directory'
  <2>1. PICK d \in Deploys :
          /\ RunReversal(d)
          /\ \E i \in run[d].toReverse : p = <<run[d].domain, rows[i].name>>
    BY <1>0, <1>2, DirectoryLoses DEF ReachInv, Reach
  <2>2. PICK i \in run[d].toReverse : p = <<run[d].domain, rows[i].name>>
    BY <2>1
  <2>3. Place(i) = p
    BY <1>0, <2>1, <2>2, ReversedPlace DEF RunReversal
  <2> QED
    BY <1>0, <1>1, <2>3 DEF QuietInv, MarksAreOld
<1>3. DiscardedPlaces \subseteq DiscardedPlaces'
  BY <1>0, RowsGrow
<1> QED
  BY <1>1, <1>2, <1>3 DEF Present

(* A name that is dealt with stays so.                                      *)
LEMMA DealtStays ==
  ASSUME UnmarkedInv, OneReachable, [Next]_vars, NEW p, Dealt(p)
  PROVE  Dealt(p)'
<1>0. TypeOK /\ QuietInv
  BY DEF UnmarkedInv, ReachInv, LocalInv, TypeInv
<1>1. ASSUME NEW i \in RowsWith(rows, {"error"}), Place(i) = p
      PROVE  \/ i \in RowsWith(rows', {"error"} \cup Reverted) /\ Place(i)' = p
             \/ p \in DiscardedPlaces'
  <2>1. i \in DOMAIN rows /\ rows[i].status = "error"
    BY DEF RowsWith
  <2>2. \A d \in Deploys : i \notin run[d].mine
    BY <1>0, <2>1 DEF QuietInv, MineIsPending, RowsWith
  <2>3. CASE Discards
    BY <1>0, <1>1, <2>1, <2>3, AfterDiscard DEF RowsWith
  <2>4. CASE ~Discards
    <3>1. rows'[i].status \in {"error"} \cup Reverted
      BY <1>0, <2>1, <2>2, <2>4, StatusSteps DEF Reverted
    <3> QED
      BY <1>0, <1>1, <2>1, <2>4, <3>1, RowsKeep DEF RowsWith
  <2> QED
    BY <2>3, <2>4
<1> QED
  BY <1>1, PresentStays DEF Dealt, Present, RowsWith

(* A row becomes APPLIED for what is there.                                 *)
LEMMA AppliedPresentStep ==
  ASSUME DealtInv, OneReachable, [Next]_vars, ~Discards
  PROVE  AppliedIsPresent'
<1>0. TypeOK /\ CallInv /\ DoneIsReal /\ UnmarkedInv
  BY DEF DealtInv, UnmarkedInv, ReachInv, LocalInv, TypeInv
<1> SUFFICES ASSUME NEW i \in DOMAIN rows', rows'[i].status = "applied"
             PROVE  Present(Place(i))'
  BY DEF AppliedIsPresent, RowsWith
<1>1. PICK p : p = Place(i)'
  OBVIOUS
<1>2. Present(p)
  <2>1. CASE i \in DOMAIN rows /\ rows[i].status = "applied"
    <3>1. Present(Place(i)) /\ Place(i)' = Place(i)
      BY <1>0, <2>1, RowsKeep DEF DealtInv, AppliedIsPresent, RowsWith
    <3> QED
      BY <1>1, <3>1
  <2>2. CASE ~(i \in DOMAIN rows /\ rows[i].status = "applied")
    BY <1>0, <1>1, <2>2, AppliedStep DEF Present
  <2> QED
    BY <2>1, <2>2
<1>3. Present(p)'
  BY <1>0, <1>2, PresentStays
<1> QED
  BY <1>1, <1>3 DEF Present

(* A call that is done has dealt with its domain.                           *)
LEMMA DonePresentStep ==
  ASSUME DealtInv, OneReachable, [Next]_vars, ~Discards
  PROVE  DoneIsPresent'
<1>0. TypeOK /\ Calls /\ UnmarkedInv /\ DoneIsPresent
  BY DEF DealtInv, UnmarkedInv, CallInv, LocalInv, TypeInv
<1> SUFFICES ASSUME NEW d \in Deploys, run'[d].phase = "record", run'[d].outcome = "done",
                    NEW l \in Here(d)'
             PROVE  Present(At(l))'
  BY DEF DoneIsPresent
<1>1. ~Ended(d, "failed") /\ ~Ended(d, "passed")
  BY EndedStops
<1>2. CASE RunPush(d)
  <2>1. Here(d)' = Here(d) /\ run[d].phase = "track"
    BY <1>0, <1>2, AfterPush DEF Here, SameLists, SamePlace
  <2>2. l.name \in run[d].names /\ l.domain = run[d].domain
    BY <1>0, <2>1 DEF Calls, Call, Here
  <2>3. At(l) \in directory'
    BY <1>0, <1>2, <2>2, AfterPush DEF At
  <2> QED
    BY <2>3 DEF Present, At
<1>3. CASE run'[d] = run[d] \/ RecordPush(d)
  <2>1. run[d].phase = "record" /\ run[d].outcome = "done" /\ Here(d)' = Here(d)
    BY <1>0, <1>3, AfterRecordPush DEF Here, SameLists, SamePlace
  <2>2. Present(At(l))
    BY <1>0, <2>1 DEF DoneIsPresent
  <2>3. PICK p : p = At(l)
    OBVIOUS
  <2>4. Present(p)'
    BY <1>0, <2>2, <2>3, PresentStays
  <2> QED
    BY <2>3, <2>4 DEF Present, At
<1>4. ~(Start(d) \/ Plan(d) \/ SkipDomain(d) \/ LeaveDomain(d) \/ EndPush(d))
  BY <1>0, <1>1, AfterStart, AfterPlan, AfterSkip, AfterLeave, AfterEndPush
<1>5. ~(EnterDomain(d) \/ TrackAccount(d))
  BY <1>0, <1>1, AfterEnter, TracksOne DEF Tracks
<1>6. ~(EnterReversal(d) \/ RunReversal(d) \/ ForgetAccount(d) \/ CloseReversal(d))
  BY <1>0, <1>1, AfterEnterReversal, AfterReversal, AfterForget, AfterClose
<1>7. ~(LeaveReversal(d) \/ EndReversal(d) \/ Abort(d))
  BY <1>0, <1>1, AfterLeaveReversal, AfterEnd
<1> QED
  BY <1>0, <1>2, <1>3, <1>4, <1>5, <1>6, <1>7, WhoActs DEF Deploy, vars

(* A deployment that starts lists what is not dealt with.                   *)
LEMMA StartDeals ==
  ASSUME TypeOK, AppliedIsPresent, NEW d \in Deploys, Start(d),
         NEW a \in DOMAIN accounts, accounts[a].domain \in Own(d),
         ~Dealt(<<accounts[a].domain, accounts[a].name>>)
  PROVE  \E l \in run'[d].listed :
           At(l) = <<accounts[a].domain, accounts[a].name>> /\ l.domain \in run'[d].visits
<1> DEFINE l == [id |-> a, name |-> accounts[a].name, domain |-> accounts[a].domain]
<1>1. l.id = a /\ l.name = accounts[a].name /\ l.domain = accounts[a].domain /\ l \in Listing
  BY DEF TypeOK, Account, Listing
<1> HIDE DEF l
<1>2. ASSUME NEW i \in RowsWith(rows, Settled), Place(i) = <<l.domain, l.name>>
      PROVE  FALSE
  <2>1. CASE rows[i].status = "applied"
    BY <1>1, <1>2, <2>1 DEF AppliedIsPresent, Dealt, RowsWith
  <2>2. CASE rows[i].status \in Reverted
    BY <1>1, <1>2, <2>2 DEF Dealt, Present, RowsWith
  <2>3. CASE Kind = "users" /\ rows[i].status = "error"
    BY <1>1, <1>2, <2>3 DEF Dealt, RowsWith
  <2> QED
    BY <2>1, <2>2, <2>3 DEF RowsWith, Settled, Reverted
<1>3. l \in NotPushed(d)
  BY <1>1, <1>2 DEF NotPushed
<1>4. l.domain \in ToVisit(d)
  BY <1>1, <1>3 DEF ToVisit
<1>5. l \in run'[d].listed /\ l.domain \in run'[d].visits
  BY <1>3, <1>4, AfterStart
<1> QED
  BY <1>1, <1>5 DEF At

(* What a running deployment is yet to deal with is dealt with when it      *)
(* leaves the domain.                                                       *)
LEMMA ListDeals ==
  ASSUME TypeOK, Shapes, DoneIsPresent, [Next]_vars, NEW d \in Deploys,
         Running(d), Running(d)',
         NEW l \in run[d].listed, l.domain \in run[d].visits \cap Reachable
  PROVE  Present(At(l)) \/ (l \in run'[d].listed /\ l.domain \in run'[d].visits)
<1> USE DEF SameLists, SamePlace
<1>0. ~Ended(d, "failed") /\ ~Ended(d, "passed")
  BY EndedStops
<1>1. CASE run'[d] = run[d]
  BY <1>1
<1>2. CASE Plan(d) \/ RunPush(d) \/ RecordPush(d) \/ SkipDomain(d)
  BY <1>2, AfterPlan, AfterPush, AfterRecordPush, AfterSkip
<1>3. CASE EnterDomain(d) \/ TrackAccount(d)
  BY <1>0, <1>3, AfterEnter, TracksOne DEF Tracks
<1>4. CASE LeaveDomain(d)
  <2>1. run[d].phase = "record" /\ run[d].outcome = "done"
        /\ run'[d].visits = run[d].visits \ {run[d].domain}
        /\ run'[d].listed = run[d].listed
    BY <1>0, <1>4, AfterLeave
  <2> QED
    BY <2>1 DEF DoneIsPresent, Here
<1>5. CASE EndPush(d)
  BY <1>5, AfterEndPush
<1>6. ~Start(d)
  BY AfterStart DEF Running
<1>7. ASSUME run[d].phase \in {"reverse", "script", "forget", "close"} PROVE FALSE
  BY <1>7 DEF Shapes, Shape
<1>8. ~(EnterReversal(d) \/ RunReversal(d) \/ ForgetAccount(d) \/ CloseReversal(d))
  BY <1>7, AfterEnterReversal, AfterReversal, AfterForget, AfterClose
<1>9. ~(LeaveReversal(d) \/ EndReversal(d) \/ Abort(d))
  <2>1. ~(Ended(d, "failed") \/ Ended(d, "passed"))
    BY <1>0
  <2> QED
    BY <1>7, <2>1, AfterLeaveReversal, AfterEnd
<1> QED
  BY <1>1, <1>2, <1>3, <1>4, <1>5, <1>6, <1>8, <1>9, WhoActs DEF Deploy, vars

(* A running deployment deals with each account.                            *)
LEMMA DealtStep ==
  ASSUME DealtInv, OneReachable, "create" \notin EditsDuringDeploy, [Next]_vars, ~Discards
  PROVE  AccountsAreDealt'
<1>0. TypeOK /\ Shapes /\ UnmarkedInv /\ DoneIsPresent /\ AppliedIsPresent
  BY DEF DealtInv, UnmarkedInv, CallInv, LocalInv, TypeInv
<1> SUFFICES ASSUME NEW d \in Deploys, Running(d)', NEW a \in DOMAIN accounts',
                    accounts'[a].domain \in Own(d) \cap Reachable,
                    NEW p, p = <<accounts'[a].domain, accounts'[a].name>>
             PROVE  \/ Dealt(p)'
                    \/ \E l \in run'[d].listed : At(l) = p /\ l.domain \in run'[d].visits
  BY DEF AccountsAreDealt, Own, At
<1>1. CASE Start(d)
  <2>1. UNCHANGED accounts
    BY <1>1 DEF Start
  <2>2. CASE Dealt(p)
    BY <1>0, <2>2, DealtStays
  <2>3. CASE ~Dealt(p)
    BY <1>0, <1>1, <2>1, <2>3, StartDeals
  <2> QED
    BY <2>2, <2>3
<1>2. CASE Running(d)
  <2>1. ~MayEdit("create")
    BY <1>2 DEF MayEdit, Quiet, Running
  <2>2. a \in DOMAIN accounts /\ accounts'[a] = accounts[a]
    BY <1>0, <2>1, AccountsChange
  <2>3. \/ Dealt(p)
        \/ \E l \in run[d].listed : At(l) = p /\ l.domain \in run[d].visits
    BY <1>2, <2>2 DEF DealtInv, AccountsAreDealt
  <2>4. ASSUME NEW l \in run[d].listed, At(l) = p, l.domain \in run[d].visits
        PROVE  Dealt(p) \/ (l \in run'[d].listed /\ l.domain \in run'[d].visits)
    <3>1. l.domain \in Reachable
      BY <2>4 DEF At
    <3> QED
      BY <1>0, <1>2, <2>4, <3>1, ListDeals DEF Dealt
  <2>5. Dealt(p) => Dealt(p)'
    BY <1>0, DealtStays
  <2> QED
    BY <2>3, <2>4, <2>5
<1>3. Start(d) \/ Running(d)
  <2>1. CASE Deploy(d)
    BY <2>1, OnlyStartWakes
  <2>2. CASE run'[d] = run[d]
    BY <2>2 DEF Running
  <2> QED
    BY <1>0, <2>1, <2>2, WhoActs DEF vars
<1> QED
  BY <1>1, <1>2, <1>3

(* The three survive a discard.                                             *)
LEMMA DealtDiscard ==
  ASSUME DealtInv, OneReachable, [Next]_vars, Discards, "rows" \notin EditsDuringDeploy
  PROVE  AppliedIsPresent' /\ DoneIsPresent' /\ AccountsAreDealt'
<1>0. TypeOK /\ Shapes /\ UnmarkedInv /\ AppliedIsPresent
  BY DEF DealtInv, UnmarkedInv, CallInv, LocalInv, TypeInv
<1>1. DoneIsPresent' /\ AccountsAreDealt'
  BY <1>0, DiscardIsIdle DEF DoneIsPresent, AccountsAreDealt, Running, Stopped
<1>2. AppliedIsPresent'
  <2> SUFFICES ASSUME NEW i \in DOMAIN rows', rows'[i].status = "applied"
               PROVE  Present(Place(i))'
    BY DEF AppliedIsPresent, RowsWith
  <2>1. i \in DOMAIN rows /\ rows[i].status = "applied" /\ Place(i)' = Place(i)
    BY <1>0, AfterDiscard
  <2>2. PICK p : p = Place(i)
    OBVIOUS
  <2>3. Present(p)'
    BY <1>0, <2>1, <2>2, PresentStays DEF AppliedIsPresent, RowsWith
  <2> QED
    BY <2>1, <2>2, <2>3 DEF Present
<1> QED
  BY <1>1, <1>2

(* The invariant, what was pushed included.                                 *)
LEMMA DealtHolds ==
  ASSUME OneReachable, "create" \notin EditsDuringDeploy, "delete" \notin EditsDuringDeploy,
         "rows" \notin EditsDuringDeploy
  PROVE  Spec => []DealtInv
<1>1. Init => AppliedIsPresent /\ DoneIsPresent /\ AccountsAreDealt
  <2> SUFFICES ASSUME Init PROVE AppliedIsPresent /\ DoneIsPresent /\ AccountsAreDealt
    OBVIOUS
  <2>1. \A d \in Deploys : run[d] = NotRunning("idle")
    BY DEF Init
  <2> QED
    BY <2>1, NotRunningIsEmpty DEF Init, AppliedIsPresent, DoneIsPresent, AccountsAreDealt,
       RowsWith, Running, Stopped
<1>2. UnmarkedInv /\ DoneIsReal /\ AppliedIsPresent /\ DoneIsPresent /\ AccountsAreDealt
        /\ [Next]_vars
        => AppliedIsPresent' /\ DoneIsPresent' /\ AccountsAreDealt'
  <2> SUFFICES ASSUME DealtInv, [Next]_vars
               PROVE  AppliedIsPresent' /\ DoneIsPresent' /\ AccountsAreDealt'
    BY DEF DealtInv
  <2>1. CASE Discards
    BY <2>1, DealtDiscard
  <2>2. CASE ~Discards
    BY <2>2, AppliedPresentStep, DonePresentStep, DealtStep
  <2> QED
    BY <2>1, <2>2
<1> QED
  BY <1>1, <1>2, DoneHolds, UnmarkedHolds, PTL DEF DealtInv, Spec

(* With one domain in reach, a deployment passes only when each account of  *)
(* its domains is in their directory or was given up, after any number of   *)
(* failed, interrupted or racing ones, if the operator waits for their end  *)
(* to create or delete an account or to throw a row away.                   *)
THEOREM AllPushed ==
  ASSUME OneReachable, "create" \notin EditsDuringDeploy, "delete" \notin EditsDuringDeploy,
         "rows" \notin EditsDuringDeploy
  PROVE  Spec => PassedIsPushed
<1>1. DealtInv /\ [Next]_vars =>
        [\A d \in Deploys :
           run[d].phase \notin Stopped /\ run'[d].phase = "passed" =>
             \A a \in DOMAIN accounts' :
               LET place == <<accounts'[a].domain, accounts'[a].name>>
               IN  \/ place \in directory'
                   \/ accounts'[a].domain \notin Reachable \cap Own(d)
                   \/ place \in DiscardedPlaces'
                   \/ \E i \in DOMAIN rows' :
                        /\ Place(i)' = place
                        /\ \/ rows'[i].status \in {"reverted_pending", "reverted_applied"}
                           \/ Kind = "users" /\ rows'[i].status = "error"]_vars
  <2> SUFFICES ASSUME DealtInv, [Next]_vars, NEW d \in Deploys,
                      Running(d), run'[d].phase = "passed", NEW a \in DOMAIN accounts',
                      accounts'[a].domain \in Own(d) \cap Reachable,
                      NEW p, p = <<accounts'[a].domain, accounts'[a].name>>,
                      p \notin directory' \cup DiscardedPlaces'
               PROVE  \E i \in DOMAIN rows' :
                        /\ Place(i)' = p
                        /\ \/ rows'[i].status \in {"reverted_pending", "reverted_applied"}
                           \/ Kind = "users" /\ rows'[i].status = "error"
    BY DEF Running
  <2>0. TypeOK /\ Shape(d)
    BY DEF DealtInv, UnmarkedInv, CallInv, LocalInv, TypeInv, Shapes
  <2>1. EndPush(d) \/ EndReversal(d) \/ Abort(d)
    BY <2>0, PassedEnds
  <2>2. ~Ended(d, "failed")
    BY EndedStops
  <2>3. /\ UNCHANGED <<accounts, rows, directory>>
        /\ \/ run[d].phase = "push" /\ run[d].visits = {}
           \/ run[d].phase = "reverse"
    BY <2>0, <2>1, <2>2, AfterEndPush, AfterEnd
  <2>4. run[d].visits = {} \/ run[d].listed = {}
    BY <2>0, <2>3 DEF Shape
  <2>5. Dealt(p)
    BY <2>3, <2>4 DEF DealtInv, AccountsAreDealt
  <2>6. \E i \in DOMAIN rows :
          /\ Place(i) = p
          /\ rows[i].status \in Reverted \/ (Kind = "users" /\ rows[i].status = "error")
    <3>1. DiscardedPlaces \subseteq DiscardedPlaces'
      BY <2>0, RowsGrow
    <3> QED
      BY <2>3, <2>5, <3>1 DEF Dealt, Present, RowsWith
  <2> QED
    BY <2>3, <2>6 DEF Place, Reverted
<1> QED
  BY <1>1, DealtHolds, PTL DEF PassedIsPushed, Spec

=============================================================================
