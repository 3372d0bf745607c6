---------------------------- MODULE BatchPublish ----------------------------
(***************************************************************************)
(* The publish of one batch item (batch/publish.py, batch/resolve.py): the *)
(* tree is read and compared with what the batch planned from, the push is *)
(* refused or leased on that, the lease moves when it lands, the comments  *)
(* are closed out, and the operator answers what was refused.  Around it   *)
(* colleagues push, the operator works in the tree, the driver dies.       *)
(*                                                                         *)
(* A branch is the sequence of its commits; one branch is an ancestor of   *)
(* another if it is a prefix.  A rewritten commit is a new one, which has  *)
(* its predecessor's patch or, after a conflict, a patch of its own, and   *)
(* git's rewrite record still names the work it came from.                 *)
(***************************************************************************)
EXTENDS Naturals, Sequences, FiniteSets, SequencesExt

CONSTANTS
  MaxColleague, MaxOperator, MaxCrashes, MaxFailures,
  MaxCommits,    \* commits made before hooks and closeouts stop adding theirs
  Meddles,       \* the operator may touch the branch while a publish runs
  Unsure         \* git may be unable to say what became of a commit

\* What the constants may be: whoever instantiates this module assumes it.
BoundAssumption ==
  /\ {MaxColleague, MaxOperator, MaxCrashes, MaxFailures, MaxCommits} \subseteq Nat
  /\ {Meddles, Unsure} \subseteq BOOLEAN

VARIABLES
  commits,       \* every commit: its patch and the work it came from
  local, remote,
  item, saved,   \* the item as the driver has it, and as the run on disk has it
  request,       \* the operator's answer, which outlives a dead driver
  pc, closed,    \* where the publish is; how its comments command ended
  mover,         \* who moved the remote last
  asked,         \* commits confirmed, until a saved publish spends them
  lost, strayed, \* unconfirmed work a push of ours took off the remote, or left out
  colleague, operator, crashes, failures

branch == <<commits, local, remote, mover>>
ghosts == <<asked, lost, strayed>>
counts == <<colleague, operator, crashes, failures>>
vars == <<branch, item, saved, request, pc, closed, ghosts, counts>>

Ids == DOMAIN commits
Labels == [id : Nat, unsure : BOOLEAN]
Reasons == {"fetch_failed", "remote_moved", "drafted_dropped", "not_incorporated",
            "not_incorporated_remote", "push_failed", "replies_failed", "none"}
Forceable == {"drafted_dropped", "not_incorporated_remote"}

NoStart == <<>>
Open(kind, reason, labels) == [kind |-> kind, reason |-> reason, labels |-> labels]

Init ==
  /\ commits = <<[patch |-> 1, origin |-> 1]>> /\ local = <<1>> /\ remote = <<1>>
  /\ item = [lease |-> <<1>>, forced |-> {}, start |-> NoStart, drafted |-> {},
             status |-> "drafting", decision |-> Open("none", "none", {})]
  /\ saved = item
  /\ request = "none" /\ pc = "idle" /\ closed = "none" /\ mover = "nobody"
  /\ asked = {} /\ lost = {} /\ strayed = {}
  /\ colleague = 0 /\ operator = 0 /\ crashes = 0 /\ failures = 0

Next1 == Len(commits) + 1
Fresh == [patch |-> Next1, origin |-> Next1]

\* The commits of `on` with no patch-equivalent in `in` (git cherry).
CherryPlus(in, on) ==
  {c \in Range(on) \ Range(in) :
     \A d \in Range(in) : commits[d].patch # commits[c].patch}

(* A rewrite of the commits s, in order: copies with the same patches, but *)
(* those in `conflicts` get a new one.                                     *)
Copies(s, conflicts) ==
  [k \in 1..Len(s) |-> [patch |-> IF s[k] \in conflicts THEN Len(commits) + k
                                  ELSE commits[s[k]].patch,
                        origin |-> commits[s[k]].origin]]
CopyIds(s) == [k \in 1..Len(s) |-> Len(commits) + k]
\* The commits cs of one branch in its order: a later commit has a greater id.
InOrder(cs) == {s \in [1..Cardinality(cs) -> cs] : \A i, j \in 1..Cardinality(cs) : i < j => s[i] < s[j]}
-----------------------------------------------------------------------------
(* The batch's own steps, before the item is offered for publishing.       *)

KeepItemUnsaved(new) == item' = new /\ UNCHANGED saved   \* Mutant: the run is not saved.
KeepItem(new) == item' = new /\ saved' = new

DraftCommit ==
  /\ item.status = "drafting" /\ pc = "idle" /\ item.drafted = {}
  /\ commits' = Append(commits, Fresh) /\ local' = Append(local, Next1)
  /\ KeepItem([item EXCEPT !.drafted = {Next1}])
  /\ UNCHANGED <<remote, mover, request, pc, closed, ghosts, counts>>

DraftRebase ==
  /\ item.status = "drafting" /\ pc = "idle" /\ item.start = NoStart
  /\ \E conflicts \in SUBSET Range(local) :
       commits' = commits \o Copies(local, conflicts)
  /\ local' = CopyIds(local)
  /\ KeepItem([item EXCEPT !.start = local])
  /\ UNCHANGED <<remote, mover, request, pc, closed, ghosts, counts>>

\* _refresh_remote: before a step, while nothing was drafted.
RefreshRemote ==
  /\ item.status = "drafting" /\ pc = "idle" /\ item.drafted = {} /\ item.start = NoStart
  /\ remote # item.lease /\ IsPrefix(item.lease, remote) /\ IsPrefix(remote, local)
  /\ KeepItem([item EXCEPT !.lease = remote])
  /\ UNCHANGED <<branch, request, pc, closed, ghosts, counts>>

\* _close: the steps are done, the item is offered.
Offer ==
  /\ item.status \in {"drafting", "queued"} /\ pc = "idle"
  /\ item.status = "drafting" => item.drafted # {} \/ item.start # NoStart
  /\ KeepItem([item EXCEPT !.status = "ready", !.decision = Open("publish", "none", {})])
  /\ UNCHANGED <<branch, request, pc, closed, ghosts, counts>>

Answer(action) ==
  /\ request = "none" /\ pc = "idle" /\ item.decision.kind # "none"
  /\ \/ action = "publish" /\ item.decision.kind = "publish"
     \/ action = "retry" /\ item.decision.kind = "failed"
     \/ action = "force-publish" /\ item.decision.reason \in Forceable
     \/ action \in {"discard", "drop-pr"}
  /\ request' = action
  /\ UNCHANGED <<branch, item, saved, pc, closed, ghosts, counts>>
-----------------------------------------------------------------------------
(* What a publish reads from the tree, and the plan it makes of it.        *)

StartIncorporated ==
  \/ item.start = NoStart
  \/ IsPrefix(item.lease, item.start) \/ CherryPlus(item.start, item.lease) = {}

(* _carried: on the branch, as a patch-equivalent, or as a recorded        *)
(* replay; git may be unable to say for what only the record can answer.   *)
Shown(c) == c \in Range(local) \/ \E d \in Range(local) : commits[d].patch = commits[c].patch
Replayed(c) == \E d \in Range(local) : commits[d].origin = commits[c].origin
DroppedBy(unsure) ==
  {[id |-> c, unsure |-> TRUE] : c \in {d \in item.drafted \cap unsure : ~Shown(d)}}
  \cup {[id |-> c, unsure |-> FALSE] :
          c \in {d \in item.drafted \ unsure : ~Shown(d) /\ ~Replayed(d)}}

Unincorporated == {[id |-> c, unsure |-> FALSE] : c \in CherryPlus(local, item.lease)}
Diverged == ~IsPrefix(remote, local) /\ ~IsPrefix(local, remote)

ConfirmedForgets(action) ==    \* Mutant: only the last refusal counts.
  IF action = "force-publish" THEN item.decision.labels ELSE {}
Confirmed(action) ==
  item.forced \cup IF action = "force-publish" THEN item.decision.labels ELSE {}

(* plan: the refusals in the code's order, or what to run. *)
PlanTrusting(dropped, confirmed) ==   \* Mutant: a diverged branch is pushed unread.
  IF remote # item.lease THEN "remote_moved" ELSE "none"
PlanUndrafted(dropped, confirmed) ==  \* Mutant: drafted commits are not looked for.
  IF remote # item.lease THEN "remote_moved"
  ELSE IF Diverged /\ ~StartIncorporated THEN "not_incorporated"
  ELSE IF Diverged /\ ~(Unincorporated \subseteq confirmed) THEN "not_incorporated_remote"
  ELSE "none"
Plan(dropped, confirmed) ==
  IF remote # item.lease THEN "remote_moved"
  ELSE IF ~(dropped \subseteq confirmed) THEN "drafted_dropped"
  ELSE IF Diverged /\ ~StartIncorporated THEN "not_incorporated"
  ELSE IF Diverged /\ ~(Unincorporated \subseteq confirmed) THEN "not_incorporated_remote"
  ELSE "none"

\* A refusal or a failure becomes a decision, the request is answered, the run saved.
Fail(old, reason, labels) ==
  /\ KeepItem([old EXCEPT !.status = "awaiting", !.decision = Open("failed", reason, labels)])
  /\ request' = "none" /\ pc' = "idle"

PublishStart ==
  /\ pc = "idle" /\ request \in {"publish", "force-publish"}
  /\ UNCHANGED <<branch, closed, lost, strayed, colleague, operator, crashes>>
  /\ LET confirmed == Confirmed(request)
         now == [item EXCEPT !.forced = confirmed]
         told == asked \cup IF request = "force-publish"
                            THEN {l.id : l \in item.decision.labels} ELSE {}
     IN \/ /\ failures < MaxFailures /\ failures' = failures + 1
           /\ Fail(now, "fetch_failed", {}) /\ asked' = told
        \/ \E unsure \in IF Unsure THEN SUBSET item.drafted ELSE {{}} :
           LET dropped == DroppedBy(unsure)
               refusal == Plan(dropped, confirmed)
           IN /\ UNCHANGED failures /\ asked' = told
              /\ \/ /\ refusal # "none"
                    /\ Fail(now, refusal, CASE refusal = "drafted_dropped" -> dropped
                                            [] refusal = "not_incorporated_remote" -> Unincorporated
                                            [] OTHER -> {})
                 \/ /\ refusal = "none"
                    /\ item' = now
                    /\ pc' = IF IsPrefix(local, remote) THEN "closing" ELSE "pushing"
                    /\ UNCHANGED <<saved, request>>
-----------------------------------------------------------------------------
(* The push command: HEAD, leased on the planned head.  Its landing may    *)
(* commit regenerated files first.                                         *)

LeaseHoldsLoose == TRUE        \* Mutant: pushed without a lease.
LeaseHolds == remote = item.lease

Work(c) == commits[c].origin
Taken(tip) == {c \in Range(remote) \ Range(tip) :
                 \A d \in Range(tip) : Work(d) # Work(c)}
LeftOut(tip) == {c \in item.drafted : c \notin Range(tip) /\ \A d \in Range(tip) : Work(d) # Work(c)}

PushLands ==
  /\ pc = "pushing" /\ LeaseHolds
  /\ \E regen \in BOOLEAN :
       /\ regen => Len(commits) < MaxCommits
       /\ commits' = IF regen THEN Append(commits, Fresh) ELSE commits
       /\ local' = IF regen THEN Append(local, Next1) ELSE local
  /\ remote' = local' /\ mover' = "batch"
  /\ lost' = lost \cup (Taken(local) \ asked)
  /\ strayed' = strayed \cup (LeftOut(local) \ asked)
  /\ pc' = "landed"
  /\ UNCHANGED <<item, saved, request, closed, asked, counts>>

PushFails ==
  /\ pc = "pushing"
  /\ \/ ~LeaseHolds /\ UNCHANGED failures
     \/ failures < MaxFailures /\ failures' = failures + 1
  /\ Fail(item, "push_failed", {})
  /\ UNCHANGED <<branch, closed, ghosts, colleague, operator, crashes>>

LeaseMoves ==
  /\ pc = "landed"
  /\ item' = [item EXCEPT !.lease = local, !.forced = {}]
  /\ pc' = "closing"
  /\ UNCHANGED <<branch, saved, request, closed, ghosts, counts>>

(* pr comments --finish: it may commit and push what was held back, and it *)
(* may fail after or before that.                                          *)
Finish ==
  /\ pc = "closing"
  /\ \/ UNCHANGED branch
     \/ /\ IsPrefix(remote, local) /\ Len(commits) < MaxCommits
        /\ commits' = Append(commits, Fresh) /\ local' = Append(local, Next1)
        /\ remote' = local' /\ mover' = "batch"
  /\ \/ closed' = "ok" /\ UNCHANGED failures
     \/ closed' = "failed" /\ failures < MaxFailures /\ failures' = failures + 1
  /\ pc' = "finished"
  /\ UNCHANGED <<item, saved, request, ghosts, colleague, operator, crashes>>

MovedToLocal == remote # item.lease /\ remote = local
AdoptedNever == item.lease     \* Mutant: the finishing push does not move the lease.
Adopted == IF MovedToLocal THEN remote ELSE item.lease

Conclude ==
  /\ pc = "finished"
  /\ LET now == [item EXCEPT !.lease = Adopted] IN
     \/ /\ closed = "failed" /\ Fail(now, "replies_failed", {})
        /\ asked' = IF item.forced = {} THEN {} ELSE asked
     \/ /\ closed = "ok" /\ asked' = {} /\ request' = "none" /\ pc' = "idle"
        /\ KeepItem([now EXCEPT !.status = "done", !.forced = {},
                                !.decision = Open("none", "none", {})])
  /\ closed' = "none"
  /\ UNCHANGED <<branch, lost, strayed, counts>>
-----------------------------------------------------------------------------
(* The other answers. *)

FastForwarded == IsPrefix(item.lease, remote) /\ IsPrefix(remote, local)
Equivalent == CherryPlus(remote, local) = {}

AdoptNothing == item.lease     \* Mutant: a retry reads nothing.
AdoptOnRetry ==
  IF MovedToLocal \/ (item.decision.reason = "remote_moved" /\ (FastForwarded \/ Equivalent))
  THEN remote ELSE item.lease

RetryPublish ==
  /\ pc = "idle" /\ request = "retry"
  /\ local' = IF item.decision.reason = "remote_moved" /\ remote # item.lease /\ Equivalent
                   /\ ~MovedToLocal /\ ~FastForwarded
              THEN remote ELSE local
  /\ KeepItem([item EXCEPT !.lease = AdoptOnRetry, !.status = "queued",
                           !.decision = Open("none", "none", {})])
  /\ request' = "none"
  /\ UNCHANGED <<commits, remote, mover, pc, closed, ghosts, counts>>

GiveUp ==
  /\ pc = "idle" /\ request \in {"discard", "drop-pr"}
  /\ KeepItem([item EXCEPT !.status = IF request = "discard" THEN "done" ELSE "dropped",
                           !.decision = Open("none", "none", {})])
  /\ request' = "none"
  /\ UNCHANGED <<branch, pc, closed, ghosts, counts>>

Crash ==
  /\ crashes < MaxCrashes /\ pc # "idle" /\ crashes' = crashes + 1
  /\ pc' = "idle" /\ item' = saved /\ closed' = "none"
  /\ UNCHANGED <<branch, saved, request, ghosts, colleague, operator, failures>>
-----------------------------------------------------------------------------
ColleaguePushes ==
  /\ colleague < MaxColleague /\ colleague' = colleague + 1
  /\ \/ commits' = Append(commits, Fresh) /\ remote' = Append(remote, Next1)
     \/ Len(remote) > 1 /\ remote' = Front(remote) /\ UNCHANGED commits
  /\ mover' = "colleague"
  /\ UNCHANGED <<local, item, saved, request, pc, closed, ghosts, operator, crashes, failures>>

OperatorActs ==
  /\ operator < MaxOperator /\ operator' = operator + 1
  /\ Meddles \/ pc = "idle"
  /\ \/ /\ commits' = Append(commits, Fresh) /\ local' = Append(local, Next1)
        /\ UNCHANGED <<remote, mover>>
     \/ /\ Len(local) > 1 /\ local' = Front(local)
        /\ UNCHANGED <<commits, remote, mover>>
     \/ \* git pull --rebase
        \E own \in InOrder(CherryPlus(remote, local)) :
          /\ commits' = commits \o Copies(own, {}) /\ local' = remote \o CopyIds(own)
          /\ UNCHANGED <<remote, mover>>
     \/ /\ IsPrefix(remote, local) /\ remote # local
        /\ remote' = local /\ mover' = "operator" /\ UNCHANGED <<commits, local>>
  /\ UNCHANGED <<item, saved, request, pc, closed, ghosts, colleague, crashes, failures>>

Driver == RefreshRemote \/ DraftCommit \/ DraftRebase \/ Offer \/ PublishStart \/ PushLands \/ PushFails
          \/ LeaseMoves \/ Finish \/ Conclude \/ RetryPublish \/ GiveUp
Actions == {"publish", "retry", "force-publish", "discard", "drop-pr"}
Next == Driver \/ (\E a \in Actions : Answer(a)) \/ Crash \/ ColleaguePushes \/ OperatorActs

Spec == Init /\ [][Next]_vars

\* The operator answers every decision, with what goes on rather than gives up.
Perseveres == Answer("publish") \/ Answer("force-publish")
              \/ (item.decision.reason \notin Forceable /\ Answer("retry"))
FairSpec ==
  /\ Init /\ [][Driver \/ Perseveres \/ Crash \/ ColleaguePushes]_vars
  /\ WF_vars(Driver) /\ WF_vars(Perseveres)
-----------------------------------------------------------------------------
Items == [lease : Seq(Nat), forced : SUBSET Labels, start : Seq(Nat), drafted : SUBSET Nat,
          status : {"drafting", "ready", "queued", "awaiting", "done", "dropped"},
          decision : [kind : {"none", "publish", "failed"}, reason : Reasons,
                      labels : SUBSET Labels]]
OnlyKnown(s) == Range(s) \subseteq Ids
TypeOK ==
  /\ \A c \in Ids : commits[c].patch \in 1..c /\ commits[c].origin \in 1..c
  /\ OnlyKnown(local) /\ OnlyKnown(remote)
  /\ OnlyKnown(item.lease) /\ OnlyKnown(saved.lease) /\ OnlyKnown(item.start)
  /\ item.drafted \cup asked \cup lost \cup strayed \subseteq Ids
  /\ pc \in {"idle", "pushing", "landed", "closing", "finished"}
  /\ request \in Actions \cup {"none"}
  /\ pc = "idle" => item = saved
  /\ item.status = "awaiting" <=> item.decision.kind = "failed"

\* publish.py: what a push of the batch takes off the remote is carried by what it
\* pushes, or was listed in a refusal the operator answered with force-publish.
NothingLost == lost = {}

\* publish.py: no commit a step drafted is left out of a push, short of one listed
\* in a refusal the operator forced past.
DraftsArrive == strayed = {}

\* publish.py: "The lease advances as soon as the push lands, so a failure in the
\* replies after it never strands the item": the batch's own push, or the finishing
\* one's, is never taken for somebody else's, unless the driver died before it saved.
OwnPushIsKnown ==
  item.decision.reason = "remote_moved" /\ mover = "batch" => crashes > 0

\* publish.py: "Confirmations accumulate on the item, so confirming one refusal never
\* reopens the other": a refusal names something not yet confirmed.
ConfirmedStays ==
  request = "none" /\ item.decision.reason \in Forceable => ~({l.id : l \in item.decision.labels} \subseteq asked)

(* The branches are such that no push is a fast-forward and no adoption    *)
(* loses nothing: somebody has to bring them together by hand.             *)
ToReconcile ==
  \/ item.decision.reason = "remote_moved" /\ ~FastForwarded /\ ~MovedToLocal /\ ~Equivalent
  \/ item.decision.reason = "not_incorporated"

\* publish.py, resolve.py: an operator who answers every refusal with the action meant
\* for it gets the item published, unless the branches must be reconciled by hand.
PublishEnds == <>(item.status = "done" \/ ToReconcile)
=============================================================================
