----------------------------- MODULE BranchWork -----------------------------
(*****************************************************************************)
(* The ways a branch changes: a pass lands its work (GitLand), the batch    *)
(* publishes an item (BatchPublish), and a rebase runs over it (Rebase)     *)
(* and stashes what is uncommitted (RebaseStash).  They share no state;     *)
(* part says which of them moves.                                           *)
(*****************************************************************************)

CONSTANTS
  \* GitLand
  Files, MaxEdits, MaxCommits, MaxOthers, DropsInHooks,
  \* BatchPublish
  MaxColleague, MaxOperator, MaxCrashes, MaxFailures, PublishCommits, Meddles, Unsure,
  \* Rebase
  Theirs, RebaseRuns, MaxStops, MaxTurns, Modes, RebaseKills, AbortsFail, Empties, Absent,
  \* RebaseStash
  Worktrees, Edits, StashRuns, StashKills

VARIABLES
  part,   \* the component that moves
  \* GitLand
  landCommits, head, index, work, landRemote, job, landPc, land, push, result, landHeld,
  passed, landSent, unheard, slipped, edits, others, own,
  \* BatchPublish
  publishCommits, publishLocal, publishRemote, item, publishSaved, request, publishPc,
  closed, mover, asked, lost, strayed, colleague, operator, crashes, failures,
  \* Rebase
  rebaseRemote, tracking, rebaseLocal, replay, rebaseSaved, rebasePc, mode, lease,
  tallied, waived, paused, rebaseHeld, turns, rebaseRuns, rebaseSent, since, begun,
  unseen, killed,
  \* RebaseStash
  tree, stack, replaying, stashPc, owes, ref, home, made, excused, stashRuns

landVars == <<landCommits, head, index, work, landRemote, job, landPc, land, push,
  result, landHeld, passed, landSent, unheard, slipped, edits, others, own>>
publishVars == <<publishCommits, publishLocal, publishRemote, item, publishSaved,
  request, publishPc, closed, mover, asked, lost, strayed, colleague, operator, crashes,
  failures>>
rebaseVars == <<rebaseRemote, tracking, rebaseLocal, replay, rebaseSaved, rebasePc, mode,
  lease, tallied, waived, paused, rebaseHeld, turns, rebaseRuns, rebaseSent, since,
  begun, unseen, killed>>
stashVars == <<tree, stack, replaying, stashPc, owes, ref, home, made, excused,
  stashRuns>>
vars == <<part, landVars, publishVars, rebaseVars, stashVars>>

Land == INSTANCE GitLand WITH
  commits <- landCommits, remote <- landRemote, pc <- landPc, held <- landHeld,
  sent <- landSent
Publish == INSTANCE BatchPublish WITH
  MaxCommits <- PublishCommits, commits <- publishCommits, local <- publishLocal,
  remote <- publishRemote, saved <- publishSaved, pc <- publishPc
Rebase == INSTANCE Rebase WITH
  MaxRuns <- RebaseRuns, Kills <- RebaseKills, remote <- rebaseRemote,
  local <- rebaseLocal, saved <- rebaseSaved, pc <- rebasePc, held <- rebaseHeld,
  runs <- rebaseRuns, sent <- rebaseSent
Stash == INSTANCE RebaseStash WITH
  Trees <- Worktrees, MaxRuns <- StashRuns, Kills <- StashKills,
  pc <- stashPc, runs <- stashRuns

ASSUME ConstantsAssumption ==
  /\ Land!BoundAssumption
  /\ Publish!BoundAssumption
  /\ Rebase!RebaseAssumption
  /\ Stash!StashAssumption

Init ==
  /\ part \in {"land", "publish", "rebase", "stash"}
  /\ Land!Init
  /\ Publish!Init
  /\ Rebase!Init
  /\ Stash!Init

Next ==
  \/ part = "land" /\ Land!Next /\ UNCHANGED <<part, publishVars, rebaseVars, stashVars>>
  \/ part = "publish" /\ Publish!Next /\ UNCHANGED <<part, landVars, rebaseVars, stashVars>>
  \/ part = "rebase" /\ Rebase!Next /\ UNCHANGED <<part, landVars, publishVars, stashVars>>
  \/ part = "stash" /\ Stash!Next /\ UNCHANGED <<part, landVars, publishVars, rebaseVars>>

Spec == Init /\ [][Next]_vars
-----------------------------------------------------------------------------
\* push.py: "that is not a gate bypass, because the gates already passed for
\* this exact commit": what is sent without its hooks passed them, but for what
\* the retry's own gap lets in and for hooks nobody heard the end of.
SentPassedTheGates == Land!SentPassedTheGates

\* resolve.py, `_publish`: no commit a colleague pushed is lost to a forced
\* push that nobody confirmed.
NothingLost == Publish!NothingLost

\* publish.py: "The lease advances as soon as the push lands": the batch's
\* own push is not taken for somebody else's.
OwnPushIsKnown == Publish!OwnPushIsKnown

\* lifecycle.py: "nothing reaches the remote until somebody has looked" at a
\* region a stop resolved to one side.
OneSidedHeld == Rebase!OneSidedHeld

\* commands.py, `cmd_start`: a resumed rebase that an operator half resolved
\* is not thrown away.
HandWorkKept == Rebase!HandWorkKept

\* stash.py: no uncommitted work is lost, whether a run stops, is killed or
\* resumes.
WorkKept == Stash!WorkKept
=============================================================================
