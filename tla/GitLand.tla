------------------------------ MODULE GitLand ------------------------------
(***************************************************************************)
(* One landing (git/land.py): commit the work of a pass, push it, ask the  *)
(* remote what it holds (git/push.py), and recover from a connection that  *)
(* dropped, a push that vanished, a hook that rewrote files, a pre-commit  *)
(* hook that restaged nothing, and an agent that committed on its own.     *)
(*                                                                         *)
(* A commit is its history and its tree; a tree says of each file who      *)
(* wrote what it holds.  Beside the landing, an operator edits files and   *)
(* commits in the worktree, and colleagues push to the branch.             *)
(***************************************************************************)
EXTENDS Naturals, Sequences, FiniteSets

CONSTANTS
  Files,
  MaxEdits,      \* files the operator edits while the landing runs
  MaxCommits,    \* commits the operator makes meanwhile
  MaxOthers,     \* pushes of colleagues
  DropsInHooks   \* a failing hook may read as a dropped connection, or git
                 \* may be killed while its hooks run

\* What the constants may be: whoever instantiates this module assumes it.
BoundAssumption ==
  /\ MaxEdits \in Nat /\ MaxCommits \in Nat /\ MaxOthers \in Nat
  /\ DropsInHooks \in BOOLEAN

Authors == {"base", "pass", "user", "hook"}
Trees == [Files -> Authors]
Kinds == {"base", "pass", "agent", "user", "regen", "other"}

VARIABLES
  commits,       \* every commit made, the first is where it all starts
  head, index, work,   \* the branch checked out, the index, the worktree
  remote,        \* the branch's tip on the remote
  job,           \* what the caller asked for, and how the gate stands
  pc,
  land,          \* the landing: its commit, the files dirty before the push
  push,          \* the push in hand
  result,        \* the LandResult
  held,          \* every commit the remote has ever had in its history
  passed, sent,  \* tips the hooks passed; tips our own pushes delivered
  unheard,       \* tips whose hooks ended without a verdict git could tell
  slipped,       \* commits the operator made between the check of a retry and its git
  edits, others, own

tree == <<commits, head, index, work>>
ghosts == <<held, passed, sent, unheard, slipped>>
bounds == <<edits, others, own>>
vars == <<tree, remote, job, pc, land, push, result, ghosts, bounds>>

Ids == DOMAIN commits
PushStatuses == {"pushed", "held", "refused", "lost", "unverified"}
Statuses == {"pushed", "no_changes", "commit_failed", "push_failed",
             "push_held", "push_lost", "push_unverified"}
(* commit_status: the push owner's answer in the landing's vocabulary. *)
CommitStatus == [pushed |-> "pushed", held |-> "push_held", refused |-> "push_failed",
                 lost |-> "push_lost", unverified |-> "push_unverified"]

NoPush == [sha |-> 0, sending |-> 0, noverify |-> FALSE]
NoResult == [status |-> "none", sha |-> 0]
Landing(sha, round) == [sha |-> sha, round |-> round, dirty |-> {}]

HeadTree == commits[head].tree
Clean == index = HeadTree /\ work = index
(* The files git's status marks " M ": changed in the worktree alone. *)
Modified == {f \in Files : index[f] = HeadTree[f] /\ work[f] # index[f]}
Over(t, fs, u) == [f \in Files |-> IF f \in fs THEN u[f] ELSE t[f]]
Rewrite(fs) == [f \in Files |-> IF f \in fs THEN "hook" ELSE work[f]]

\* Mutant: the branch is read one commit too far.
CommitAstray(kind, t) ==
  /\ commits' = Append(commits, [above |-> commits[head].above \cup {Len(commits) + 1},
                                 parent |-> head, tree |-> t, kind |-> kind])
  /\ head' = Len(commits) + 2

\* A new commit on the branch, with its tree.
Commit(kind, t) ==
  /\ commits' = Append(commits, [above |-> commits[head].above \cup {Len(commits) + 1},
                                 parent |-> head, tree |-> t, kind |-> kind])
  /\ head' = Len(commits) + 1

Init ==
  /\ \E agent \in BOOLEAN, w, i \in Trees :
       LET base == [f \in Files |-> "base"]
           done == [f \in Files |-> "pass"]
           top == IF agent THEN done ELSE base
       IN /\ commits = IF agent
                       THEN <<[above |-> {1}, parent |-> 1, tree |-> base, kind |-> "base"],
                              [above |-> {1, 2}, parent |-> 1, tree |-> done, kind |-> "agent"]>>
                       ELSE <<[above |-> {1}, parent |-> 1, tree |-> base, kind |-> "base"]>>
          /\ head = Len(commits)
          /\ \A f \in Files : w[f] \in {top[f], "pass", "user"}
          /\ \A f \in Files : i[f] \in {top[f]} \cup ({w[f]} \ {"pass"})
          /\ work = w /\ index = i
          /\ \E whole, regen, recover, open \in BOOLEAN :
               job = [whole |-> whole, regen |-> regen, recover |-> recover, open |-> open,
                      paths |-> {f \in Files : w[f] = "pass" /\ ~agent}]
  /\ remote = 1 /\ held = {1} /\ passed = {} /\ sent = {}
  /\ unheard = {} /\ slipped = {}
  /\ pc = "stage" /\ land = Landing(0, "first") /\ push = NoPush /\ result = NoResult
  /\ edits = 0 /\ own = 0 /\ others = 0
-----------------------------------------------------------------------------
(* _commit: stage the scope and commit it.                                 *)

Finish(status, sha) == result' = [status |-> status, sha |-> sha] /\ pc' = "done"

\* No commit was made: an outcome, unless the caller asks for one made elsewhere.
NoCommit(status) ==
  /\ result' = [status |-> status, sha |-> 0]
  /\ pc' = IF job.recover THEN "recover" ELSE "done"

NothingInScope == IF job.whole THEN Clean ELSE job.paths = {}

NothingToCommit ==
  /\ pc = "stage" /\ NothingInScope
  /\ NoCommit("no_changes")
  /\ UNCHANGED <<tree, remote, job, land, push, ghosts, bounds>>

Stage ==
  /\ pc = "stage" /\ ~NothingInScope
  /\ \/ /\ index' = IF job.whole THEN work ELSE Over(index, job.paths, work)
        /\ pc' = "commit"
     \/ pc' = "raised" /\ UNCHANGED index     \* git add failed
  /\ UNCHANGED <<commits, head, work, remote, job, land, push, result, ghosts, bounds>>

\* A pathspec commit takes the worktree's content of its paths and nothing else.
Candidate == IF job.whole THEN index ELSE Over(HeadTree, job.paths, work)
Scope == IF job.whole THEN Files ELSE job.paths

CommitNothing ==
  /\ pc \in {"commit", "recommit"} /\ Candidate = HeadTree
  /\ NoCommit("no_changes")
  /\ UNCHANGED <<tree, remote, job, land, push, ghosts, bounds>>

CommitMade ==
  /\ pc \in {"commit", "recommit"} /\ Candidate # HeadTree
  /\ Commit("pass", Candidate)
  /\ index' = IF job.whole THEN index ELSE Over(index, job.paths, work)
  /\ pc' = "push" /\ land' = Landing(head', "first")
  /\ UNCHANGED <<work, remote, job, push, result, ghosts, bounds>>

(* _retry_after_hook: what the pre-commit hook rewrote in the worktree and *)
(* left staged as it was is staged again, and the commit tried once more.  *)
CommitRefused ==
  /\ pc \in {"commit", "recommit"} /\ Candidate # HeadTree
  /\ \E fs \in SUBSET {f \in Files : Candidate[f] # HeadTree[f]} :
       LET rewritten == {f \in Scope : index[f] # HeadTree[f] /\ work'[f] # index[f]} IN
       /\ work' = Rewrite(fs)
       /\ \/ /\ pc = "commit" /\ rewritten # {}
             /\ pc' = "recommit" /\ index' = Over(index, rewritten, work')
             /\ UNCHANGED result
          \/ /\ pc = "recommit" \/ rewritten = {}
             /\ NoCommit("commit_failed") /\ UNCHANGED index
  /\ UNCHANGED <<commits, head, remote, job, land, push, ghosts, bounds>>
-----------------------------------------------------------------------------
(* _recover: account for a commit made outside the pass.  The remote is    *)
(* asked, and its tip means something only when this repository has it.    *)

RemoteHolds == commits[remote].kind # "other" /\ head \in commits[remote].above

LeftoverUnseen == result.status       \* Mutant: the tree is not looked at.
Leftover == IF result.status = "no_changes" /\ ~Clean THEN "commit_failed" ELSE result.status

Unrecovered ==
  /\ pc = "recover" /\ head = 1
  /\ Finish(Leftover, 0)
  /\ UNCHANGED <<tree, remote, job, land, push, ghosts, bounds>>

Recover ==
  /\ pc = "recover" /\ head # 1
  /\ \/ RemoteHolds /\ Finish("pushed", head) /\ UNCHANGED land
     \/ pc' = "push" /\ land' = Landing(head, "recover") /\ UNCHANGED result
  /\ UNCHANGED <<tree, remote, job, push, ghosts, bounds>>
-----------------------------------------------------------------------------
(* push.push.  What it answers goes to the landing: a refusal may still be *)
(* a hook that regenerated files; a second push that says nothing leaves   *)
(* the first answer standing.                                              *)

Answer(status) ==
  \/ /\ land.round = "first" /\ status = "refused" /\ job.regen
     /\ result' = [status |-> "push_failed", sha |-> land.sha] /\ pc' = "regen"
  \/ /\ land.round # "first" \/ status # "refused" \/ ~job.regen
     /\ Finish(CommitStatus[status], land.sha)
  \/ /\ land.round = "regen" /\ status # "pushed"
     /\ pc' = "done" /\ UNCHANGED result

PushStart ==
  /\ pc = "push"
  /\ land' = [land EXCEPT !.dirty = IF land.round = "first" /\ job.regen THEN Modified ELSE @]
  /\ \/ ~job.open /\ Answer("held") /\ UNCHANGED push
     \/ /\ job.open
        /\ push' = [NoPush EXCEPT !.sha = IF land.round = "regen" THEN head ELSE land.sha]
        /\ pc' = "git" /\ UNCHANGED result
  /\ UNCHANGED <<tree, remote, job, ghosts, bounds>>

\* The owner check answers, or raises; git resolves what it sends as it starts.
GitStarts ==
  /\ pc = "git"
  /\ \/ pc' = "hooks" /\ push' = [push EXCEPT !.sending = head]
     \/ pc' = "raised" /\ UNCHANGED push
  /\ UNCHANGED <<tree, remote, job, land, result, ghosts, bounds>>

HooksPass ==
  /\ pc = "hooks"
  /\ \E fs \in SUBSET Files : work' = Rewrite(fs)
  /\ passed' = passed \cup {push.sending}
  /\ pc' = "transfer"
  /\ UNCHANGED <<commits, head, index, remote, job, land, push, result, held, sent, unheard, slipped, bounds>>

HooksRefuse ==
  /\ pc = "hooks"
  /\ \E fs \in SUBSET Files : work' = Rewrite(fs)
  /\ Answer("refused")
  /\ UNCHANGED <<commits, head, index, remote, job, land, push, ghosts, bounds>>

(* _dropped: a git that took a signal, or whose output names a dropped     *)
(* connection, is verified, wherever in its run that happened.             *)
HooksLookDropped ==
  /\ pc = "hooks" /\ DropsInHooks
  /\ \E fs \in SUBSET Files : work' = Rewrite(fs)
  /\ unheard' = unheard \cup {push.sending}
  /\ pc' = "verify"
  /\ UNCHANGED <<commits, head, index, remote, job, land, push, result, held, passed, sent, slipped, bounds>>

Fresh == remote \in commits[push.sending].above

TransferRefused ==
  /\ pc = "transfer"       \* the remote would not, or was not reached
  /\ Answer("refused")
  /\ UNCHANGED <<tree, remote, job, land, push, ghosts, bounds>>

Arrives ==
  /\ pc = "transfer" /\ Fresh
  /\ remote' = push.sending
  /\ held' = held \cup commits[push.sending].above
  /\ sent' = IF remote = push.sending THEN sent ELSE sent \cup {push.sending}
  /\ pc' = "verify"
  /\ UNCHANGED <<tree, job, land, push, result, passed, unheard, slipped, bounds>>

Vanishes ==
  /\ pc = "transfer"       \* git exits zero or drops, and nothing moved
  /\ pc' = "verify"
  /\ UNCHANGED <<tree, remote, job, land, push, result, ghosts, bounds>>

(* _verify asks the remote; a lost push is tried again, once. *)
LandsAnyway(sha) == TRUE          \* Mutant: what git said is believed.
Lands(sha) == remote = sha
NeverRetried == FALSE             \* Mutant: the retry is not told from the push.
Retried == push.noverify

Verify ==
  /\ pc = "verify"
  /\ \/ Answer("unverified")
     \/ Lands(push.sha) /\ Answer("pushed")
     \/ ~Lands(push.sha) /\ Retried /\ Answer("lost")
     \/ ~Lands(push.sha) /\ ~Retried /\ pc' = "again" /\ UNCHANGED result
  /\ UNCHANGED <<tree, remote, job, land, push, ghosts, bounds>>

(* _retry_lost: _retry_block looks at HEAD, then at the tree, and git is    *)
(* started without the gates; the three are separate commands.             *)
HeadStandsAnywhere == TRUE        \* Mutant: HEAD is not looked at.
HeadStands == head = push.sha

RetryLooksAtHead ==
  /\ pc = "again"
  /\ IF HeadStands THEN pc' = "dirty" /\ UNCHANGED result ELSE Answer("lost")
  /\ UNCHANGED <<tree, remote, job, land, push, ghosts, bounds>>

RetryLooksAtTree ==
  /\ pc = "dirty"
  /\ IF Clean THEN pc' = "resend" /\ UNCHANGED result ELSE Answer("lost")
  /\ UNCHANGED <<tree, remote, job, land, push, ghosts, bounds>>

RetryStarts ==
  /\ pc = "resend" /\ pc' = "transfer"
  /\ push' = [push EXCEPT !.sending = head, !.noverify = TRUE]
  /\ UNCHANGED <<tree, remote, job, land, result, ghosts, bounds>>
-----------------------------------------------------------------------------
(* _retry_after_regen: commit what the pre-push hook rewrote, push again.  *)

RegeneratedAll == Modified        \* Mutant: the snapshot is not subtracted.
Regenerated == Modified \ land.dirty

RegenStops ==
  /\ pc = "regen" /\ pc' = "done"      \* nothing rewritten; git add or commit fails
  /\ \E fs \in {{}, Regenerated} : index' = Over(index, fs, work)
  /\ UNCHANGED <<commits, head, work, remote, job, land, push, result, ghosts, bounds>>

RegenCommits ==
  /\ pc = "regen" /\ Regenerated # {}
  /\ Commit("regen", Over(HeadTree, Regenerated, work))
  /\ index' = Over(index, Regenerated, work)
  /\ pc' = "validate"
  /\ UNCHANGED <<work, remote, job, land, push, result, ghosts, bounds>>

\* _validated: the hooks read the worktree, so it must be what is pushed.
Validate ==
  /\ pc = "validate"
  /\ \/ Clean /\ pc' = "push" /\ land' = [land EXCEPT !.round = "regen"]
     \/ pc' = "done" /\ UNCHANGED land      \* dirty, or unreadable
  /\ UNCHANGED <<tree, remote, job, push, result, ghosts, bounds>>
-----------------------------------------------------------------------------
(* The rest of the world, which acts between any two steps of the landing. *)

Busy == pc \notin {"done", "raised"}
Unguarded == pc \in {"dirty", "resend"}     \* the retry has looked at HEAD

Edit(f) ==
  /\ Busy /\ edits < MaxEdits /\ work[f] # "user"
  /\ work' = [work EXCEPT ![f] = "user"] /\ edits' = edits + 1
  /\ UNCHANGED <<commits, head, index, remote, job, pc, land, push, result, ghosts, others, own>>

OperatorCommits(f) ==
  /\ Busy /\ own < MaxCommits
  /\ index[f] = HeadTree[f] /\ work[f] = index[f] /\ work[f] # "user"
  /\ Commit("user", [HeadTree EXCEPT ![f] = "user"])
  /\ index' = [index EXCEPT ![f] = "user"] /\ work' = [work EXCEPT ![f] = "user"]
  /\ own' = own + 1
  /\ slipped' = IF Unguarded THEN slipped \cup {head'} ELSE slipped
  /\ UNCHANGED <<remote, job, pc, land, push, result, held, passed, sent, unheard, edits, others>>

ColleaguePushes ==
  /\ others < MaxOthers /\ Busy
  /\ commits' = Append(commits, [above |-> commits[remote].above \cup {Len(commits) + 1},
                                 parent |-> remote, tree |-> commits[remote].tree,
                                 kind |-> "other"])
  /\ remote' = Len(commits) + 1
  /\ held' = held \cup {Len(commits) + 1}
  /\ others' = others + 1
  /\ UNCHANGED <<head, index, work, job, pc, land, push, result, passed, sent, unheard, slipped, edits, own>>

Step ==
  \/ NothingToCommit \/ Stage \/ CommitNothing \/ CommitMade \/ CommitRefused
  \/ Unrecovered \/ Recover
  \/ PushStart \/ GitStarts \/ HooksPass \/ HooksRefuse \/ HooksLookDropped
  \/ TransferRefused \/ Arrives \/ Vanishes \/ Verify
  \/ RetryLooksAtHead \/ RetryLooksAtTree \/ RetryStarts
  \/ RegenStops \/ RegenCommits \/ Validate

AllOver == pc \in {"done", "raised"} /\ UNCHANGED vars

Next ==
  \/ Step \/ ColleaguePushes \/ AllOver
  \/ \E f \in Files : Edit(f) \/ OperatorCommits(f)

Spec == Init /\ [][Next]_vars
FairSpec == Spec /\ WF_vars(Step)
-----------------------------------------------------------------------------
CommitType == [above : SUBSET Nat, parent : Nat, tree : Trees, kind : Kinds]

TypeOK ==
  /\ commits \in Seq(CommitType)
  /\ {head, remote} \subseteq Ids
  /\ index \in Trees /\ work \in Trees
  /\ job \in [whole : BOOLEAN, regen : BOOLEAN, recover : BOOLEAN, open : BOOLEAN,
              paths : SUBSET Files]
  /\ pc \in {"stage", "commit", "recommit", "recover", "push", "git", "hooks", "transfer",
             "verify", "again", "dirty", "resend", "regen", "validate", "done", "raised"}
  /\ land \in [sha : Ids \cup {0}, round : {"first", "regen", "recover"}, dirty : SUBSET Files]
  /\ push \in [sha : Ids \cup {0}, sending : Ids \cup {0}, noverify : BOOLEAN]
  /\ result \in [status : Statuses \cup {"none"}, sha : Ids \cup {0}]
  /\ UNION {held, passed, sent, unheard, slipped} \subseteq Ids
  /\ edits \in 0..MaxEdits /\ own \in 0..MaxCommits /\ others \in 0..MaxOthers

\* A commit a caller may cite has been on the remote, through every recovery:
\* the landing reports its own commit for a push that sent one on top of it.
CitedWasHeld == result.status = "pushed" => result.sha \in held

\* "Nothing to commit" is said only when the pass's scope is as the branch has it,
\* and, if the caller asked, no commit was made elsewhere: a hook's refusal is
\* never passed off as a pass that changed nothing.
NothingIsHidden ==
  pc = "done" /\ result.status = "no_changes" =>
    /\ \A f \in job.paths : work[f] = HeadTree[f]
    /\ job.recover => head = 1 /\ Clean

\* The commit of regenerated files carries what the pre-push hook wrote and no
\* edit of the operator's.
RegenIsTheHooks ==
  \A c \in Ids : commits[c].kind = "regen" =>
    \A f \in Files : commits[c].tree[f] # commits[commits[c].parent].tree[f] =>
                       commits[c].tree[f] = "hook"

\* What our pushes delivered was passed by the pre-push hooks, but for the
\* commits an operator slips in between the check of a retry and its git, and
\* for a tip whose hooks ended without a verdict git could tell.
PastTheGates(t) ==
  \E p \in passed \cup unheard :
    p \in commits[t].above /\ commits[t].above \ commits[p].above \subseteq slipped
SentPassedTheGates == \A t \in sent : PastTheGates(t)

\* push.py: "`REFUSED` | git exited non-zero - nothing left the machine".
RefusedLeftNothing == pc = "done" /\ result.status = "push_failed" => result.sha \notin held

\* Every landing ends: a push is retried at most once, a regeneration pushed once.
LandingEnds == <>(pc \in {"done", "raised"})
=============================================================================
