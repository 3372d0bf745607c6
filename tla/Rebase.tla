------------------------------- MODULE Rebase -------------------------------
(***************************************************************************)
(* `pr rebase` on one branch in one checkout (rebase/lifecycle.py,         *)
(* lease.py, commands.py, conflict_stop.py): a fresh replay or the resume  *)
(* of a paused one, its stops, and the force-push under a lease, while a   *)
(* colleague pushes, the operator works between the runs, other commands   *)
(* fetch, and runs are killed.                                             *)
(*                                                                         *)
(* A tip is what a branch ref names: which replay wrote it, whose work it  *)
(* holds, and whether a conflict in it was resolved to one side.           *)
(***************************************************************************)
EXTENDS Naturals, FiniteSets

CONSTANTS
  Theirs,         \* the commits a colleague pushes
  MaxRuns, MaxStops,
  MaxTurns,       \* refused continues of one run (MAX_REBASE_STEPS)
  Modes,          \* what the runs are told
  Kills,          \* a run may be killed
  AbortsFail,     \* `git rebase --abort` may fail
  Empties,        \* a resolution may leave its commit empty
  Absent

\* What the constants may be: whoever instantiates this module assumes it.
RebaseAssumption ==
  /\ MaxRuns \in Nat /\ MaxStops \in Nat /\ MaxTurns \in Nat
  /\ Modes \subseteq {"push", "rebase-only", "fix", "fix-no-push"}
  /\ {Kills, AbortsFail, Empties} \subseteq BOOLEAN
  /\ {"mine", "more"} \cap Theirs = {}

VARIABLES
  remote, tracking, local,   \* the branch at origin, origin/<branch>, the branch
  replay,         \* git's rebase in progress
  saved,          \* the rebase record of state.json
  pc, mode,
  lease,          \* what the push will name
  tallied,        \* ResolutionTally.one_sided is not empty
  waived,         \* a resume, or --force
  paused,         \* pause_on_conflict
  held,           \* the publishing gate
  turns, runs,
  sent,           \* history: what the colleague has pushed
  since, begun,   \* history: of that, since the run, since the rebase began
  unseen,         \* history: the last replay took one side somewhere
  killed          \* history: a run died on this replay

refs == <<remote, tracking, local>>
process == <<mode, lease, tallied, waived, paused, held, turns>>
history == <<sent, since, begun, unseen, killed>>
vars == <<refs, replay, saved, pc, process, runs, history>>

Fixes == {"fix", "fix-no-push"}
Reaches == {"fix", "push"}
NoReplay == [on |-> FALSE, left |-> 0, at |-> "none", now |-> FALSE, sided |-> FALSE, hand |-> FALSE]
Work(t) == IF t = Absent THEN {} ELSE t.works
Outcome(status, sided, expect) == [status |-> status, sided |-> sided, lease |-> expect]

Init ==
  /\ local = [gen |-> 0, works |-> {"mine"}, sided |-> FALSE]
  /\ remote \in {local, Absent} /\ tracking = remote
  /\ replay = NoReplay /\ saved = Outcome("none", FALSE, Absent)
  /\ pc = "off" /\ mode = "push" /\ lease = Absent
  /\ tallied = FALSE /\ waived = FALSE /\ paused = FALSE /\ held = FALSE /\ turns = 0 /\ runs = 0
  /\ sent = {} /\ since = {} /\ begun = {} /\ unseen = FALSE /\ killed = FALSE
-----------------------------------------------------------------------------
(* Starting: the tip is remembered before the fetch.                       *)

RememberedTip == IF tracking # Absent THEN tracking ELSE local
ResolvedAfter(track, remembered) == track      \* Mutant: the tip as just fetched.
Resolved(track, remembered) == IF track = Absent THEN Absent ELSE remembered
TalliedAnew == FALSE                           \* Mutant: a resume starts a tally of its own.
ResumedTally == saved.status = "conflicts" /\ saved.sided
WaivedOnResume(f) == f                         \* Mutant: a resume has no waiver of its own.
Waived(f) == replay.on \/ f

StartRun(m, f, stop) ==
  /\ pc = "off" /\ runs < MaxRuns
  /\ runs' = runs + 1 /\ mode' = m /\ held' = FALSE /\ turns' = 0 /\ since' = {}
  /\ waived' = Waived(f) /\ paused' = (stop \/ replay.on)
  /\ UNCHANGED <<refs, replay, saved, sent, unseen, killed>>

Fresh(m, f, stop) ==
  /\ ~replay.on /\ StartRun(m, f, stop)
  /\ pc' = "fetch" /\ lease' = RememberedTip /\ tallied' = FALSE /\ begun' = {}

Resume(m) ==
  /\ replay.on /\ StartRun(m, FALSE, FALSE)
  /\ pc' = "step" /\ lease' = Resolved(tracking, RememberedTip) /\ tallied' = ResumedTally
  /\ UNCHANGED begun

Fetch ==
  /\ pc = "fetch" /\ tracking' \in {remote, tracking}
  /\ lease' = Resolved(tracking', lease)
  /\ pc' = "preflight"
  /\ UNCHANGED <<remote, local, replay, saved, mode, tallied, waived, paused, held, turns, runs, history>>

Ends(outcome) == pc' = "off" /\ saved' = outcome /\ UNCHANGED <<refs, process, runs, history>>

Refuse == pc = "preflight" /\ ~waived /\ Ends(Outcome("refused", FALSE, Absent)) /\ UNCHANGED replay
GitFails == pc = "preflight" /\ Ends(saved) /\ UNCHANGED replay
-----------------------------------------------------------------------------
(* The replay: git goes on by itself until a commit stops it.              *)

Rewritten(oneSided) == [gen |-> runs, works |-> local.works, sided |-> local.sided \/ oneSided]

FinishMidway(oneSided, tip) ==                 \* Mutant: done while git still replays.
  local' = tip /\ unseen' = oneSided /\ UNCHANGED replay /\ pc' = "success" /\ killed' = FALSE

Finish(oneSided, tip) ==
  /\ local' = tip /\ unseen' = oneSided
  /\ replay' = NoReplay /\ pc' = "success" /\ killed' = FALSE

ReplayDone ==
  /\ pc = "preflight"
  /\ \E tip \in {local, Rewritten(FALSE)} : Finish(FALSE, tip)
  /\ UNCHANGED <<remote, tracking, saved, process, runs, sent, since, begun>>

ReplayStops ==
  /\ pc = "preflight"
  /\ \E k \in 1..MaxStops : replay' = [NoReplay EXCEPT !.on = TRUE, !.left = k, !.at = "conflict"]
  /\ pc' = "step"
  /\ UNCHANGED <<refs, saved, process, runs, history>>

InStep(at) == pc = "step" /\ replay.on /\ replay.at = at /\ turns < MaxTurns

\* A stop leaves the replay in the worktree and records what was resolved.
OutcomeOfStopBare(oneSided) == Outcome("conflicts", FALSE, Absent)   \* Mutant: no regions.
OutcomeOfStop(oneSided) == Outcome("conflicts", oneSided, Absent)
Stop == Ends(OutcomeOfStop(tallied)) /\ UNCHANGED replay

ConflictStops == InStep("conflict") /\ (mode \in Fixes \/ paused) /\ Stop

Resolve ==
  /\ InStep("conflict") /\ (mode \in Fixes \/ ~paused)
  /\ \E oneSided \in BOOLEAN : replay' = [replay EXCEPT !.at = "made", !.now = oneSided]
  /\ UNCHANGED <<refs, saved, pc, process, runs, history>>

\* abort_clean: the default mode gives up what it cannot rebuild.
AbortClean ==
  /\ InStep("conflict") /\ mode \notin Fixes /\ ~paused
  /\ \/ replay' = NoReplay /\ Ends(Outcome("aborted", FALSE, Absent))
     \/ AbortsFail /\ UNCHANGED replay /\ Ends(Outcome("conflicts", FALSE, Absent))

OverBudget ==
  /\ InStep("conflict") /\ mode \in Fixes /\ ~waived
  /\ replay' = NoReplay /\ Ends(Outcome("refused", FALSE, Absent))

Staged == InStep("made") \/ InStep("staged")
Notes == tallied \/ replay.now

\* The audit refuses: our own resolution is undone where git can, a person's is kept.
HaltIfDiscarding ==
  /\ Staged /\ tallied' = Notes
  /\ \/ replay.at = "made" /\ replay' = [replay EXCEPT !.at = "conflict", !.now = FALSE]
     \/ replay' = [replay EXCEPT !.at = "staged"]
  /\ pc' = "off" /\ saved' = OutcomeOfStop(Notes)
  /\ UNCHANGED <<refs, mode, lease, waived, paused, held, turns, runs, history>>

NextStop(at) ==
  replay' = [replay EXCEPT !.left = @ - 1, !.at = at, !.now = FALSE, !.sided = @ \/ replay.now]

Continue ==
  /\ Staged /\ tallied' = Notes
  /\ \/ replay.left = 1 /\ Finish(replay.sided \/ replay.now, Rewritten(replay.sided \/ replay.now))
     \/ /\ replay.left > 1
        /\ NextStop("conflict") \/ (Empties /\ NextStop("staged"))
        /\ UNCHANGED <<local, pc, unseen, killed>>
  /\ UNCHANGED <<remote, tracking, saved, mode, lease, waived, paused, held, turns, runs, sent, since, begun>>

\* A hook refuses the commit, or there is nothing to commit: the loop comes round again.
ContinueRefused ==
  /\ Staged /\ tallied' = Notes
  /\ replay' = [replay EXCEPT !.at = "staged"] /\ turns' = turns + 1
  /\ UNCHANGED <<refs, saved, pc, mode, lease, waived, paused, held, runs, history>>

\* The rebase is gone and git says it failed: only the record is left.
ContinueLost ==
  /\ Staged /\ replay' = NoReplay /\ tallied' = Notes
  /\ pc' = "off" /\ saved' = OutcomeOfStop(Notes)
  /\ UNCHANGED <<refs, mode, lease, waived, paused, held, turns, runs, history>>

\* is_empty_patch: `--skip` fails when the next commit stops, and then nothing is recorded.
SkipEmpty ==
  /\ Empties /\ InStep("staged") /\ tallied' = Notes
  /\ \/ replay.left = 1 /\ Finish(replay.sided, Rewritten(replay.sided))
     \/ /\ replay.left > 1 /\ pc' = "off"
        /\ replay' = [replay EXCEPT !.left = @ - 1, !.at = "conflict", !.now = FALSE]
        /\ UNCHANGED <<local, unseen, killed>>
  /\ UNCHANGED <<remote, tracking, saved, mode, lease, waived, paused, held, turns, runs, sent, since, begun>>

CappedNever == FALSE                           \* Mutant: the loop falls out of its cap.
Capped == turns = MaxTurns

RunAway ==
  /\ pc = "step" /\ Capped
  /\ Ends(Outcome("aborted", FALSE, Absent))
  /\ replay' = NoReplay \/ (AbortsFail /\ UNCHANGED replay)
-----------------------------------------------------------------------------
(* rebase_success, and cmd_push in the mode that pushes from there.        *)

Success ==
  /\ pc = "success"
  /\ held' = (held \/ (tallied /\ mode \in Reaches))
  /\ pc' = IF mode = "push" THEN "record" ELSE "land"
  /\ UNCHANGED <<refs, replay, saved, mode, lease, tallied, waived, paused, turns, runs, history>>

LeaseAllows(expect) == remote = expect

Pushed(expect) ==
  /\ \/ LeaseAllows(expect) /\ remote' = local /\ tracking' = local
     \/ UNCHANGED <<remote, tracking>>
  /\ UNCHANGED local

Land ==
  /\ pc = "land" /\ pc' = "record"
  /\ \/ mode \in Reaches /\ ~held /\ Pushed(lease)
     \/ ~(mode \in Reaches /\ ~held) /\ UNCHANGED refs
  /\ UNCHANGED <<replay, saved, process, runs, history>>

Record ==
  /\ pc = "record" /\ saved' = Outcome("completed", tallied, lease)
  /\ pc' = IF mode = "push" /\ ~held THEN "cmd_push" ELSE "off"
  /\ UNCHANGED <<refs, replay, process, runs, history>>

\* An empty lease for a branch that origin has is a record too old to trust.
MayPush == saved.status # "none" /\ ~replay.on /\ (saved.lease = Absent => tracking = Absent)

CmdPush ==
  /\ pc = "cmd_push" /\ pc' = "off"
  /\ \/ MayPush /\ Pushed(saved.lease)
        /\ saved' = IF remote' = local THEN Outcome("completed", FALSE, saved.lease) ELSE saved
     \/ ~MayPush /\ UNCHANGED <<refs, saved>>
  /\ UNCHANGED <<replay, process, runs, history>>
-----------------------------------------------------------------------------
(* Between the runs, and beside them.                                      *)

PushOnly ==
  /\ pc = "off" /\ runs < MaxRuns /\ runs' = runs + 1
  /\ pc' = "cmd_push" /\ mode' = "push-only" /\ held' = FALSE /\ since' = {}
  /\ UNCHANGED <<refs, replay, saved, lease, tallied, waived, paused, turns, sent, begun, unseen, killed>>

AbortCommand ==
  /\ pc = "off" /\ replay.on /\ replay' = NoReplay /\ killed' = FALSE
  /\ saved' = Outcome("aborted", FALSE, Absent)
  /\ UNCHANGED <<refs, pc, process, runs, sent, since, begun, unseen>>

OperatorResolves ==
  /\ pc = "off" /\ replay.on /\ replay.at = "conflict"
  /\ \E oneSided \in BOOLEAN :
       replay' = [replay EXCEPT !.at = "staged", !.now = oneSided, !.hand = TRUE]
  /\ UNCHANGED <<refs, saved, pc, process, runs, history>>

OperatorCommits ==
  /\ pc = "off" /\ ~replay.on /\ local' = [local EXCEPT !.works = @ \cup {"more"}]
  /\ UNCHANGED <<remote, tracking, replay, saved, pc, process, runs, history>>

OperatorPulls ==
  /\ pc = "off" /\ ~replay.on /\ tracking' = remote
  /\ local' = [local EXCEPT !.works = @ \cup Work(remote)]
  /\ UNCHANGED <<remote, replay, saved, pc, process, runs, history>>

\* update_to_remote of another command, an editor's fetch.
Refetch ==
  /\ tracking' = remote
  /\ UNCHANGED <<remote, local, replay, saved, pc, process, runs, history>>

ColleaguePushes(c) ==
  /\ c \notin sent /\ sent' = sent \cup {c}
  /\ remote' = IF remote = Absent THEN [gen |-> 0, works |-> {c}, sided |-> FALSE]
               ELSE [remote EXCEPT !.works = @ \cup {c}]
  /\ since' = since \cup {c} /\ begun' = begun \cup {c}
  /\ UNCHANGED <<tracking, local, replay, saved, pc, process, runs, unseen, killed>>

Kill ==
  /\ Kills /\ pc # "off" /\ pc' = "off" /\ killed' = replay.on
  /\ UNCHANGED <<refs, replay, saved, process, runs, sent, since, begun, unseen>>

RunStep ==
  \/ Fetch \/ Refuse \/ GitFails \/ ReplayDone \/ ReplayStops
  \/ ConflictStops \/ Resolve \/ AbortClean \/ OverBudget \/ HaltIfDiscarding
  \/ Continue \/ ContinueRefused \/ ContinueLost \/ SkipEmpty \/ RunAway
  \/ Success \/ Land \/ Record \/ CmdPush

Next ==
  \/ \E m \in Modes : Resume(m) \/ \E f, stop \in BOOLEAN : Fresh(m, f, stop)
  \/ RunStep \/ PushOnly \/ AbortCommand \/ OperatorResolves \/ OperatorCommits \/ OperatorPulls
  \/ Refetch \/ (\E c \in Theirs : ColleaguePushes(c)) \/ Kill

Spec == Init /\ [][Next]_vars
\* A run that was started goes on until it ends.
FairSpec == Spec /\ WF_vars(RunStep)
-----------------------------------------------------------------------------
Tips == [gen : 0..MaxRuns, works : SUBSET ({"mine", "more"} \cup Theirs), sided : BOOLEAN]

TypeOK ==
  /\ local \in Tips /\ {remote, tracking, lease, saved.lease} \subseteq Tips \cup {Absent}
  /\ replay \in [on : BOOLEAN, left : 0..MaxStops, at : {"none", "conflict", "made", "staged"},
                 now : BOOLEAN, sided : BOOLEAN, hand : BOOLEAN]
  /\ replay.on <=> replay.left > 0
  /\ pc \in {"success", "land", "record", "fetch", "preflight"} => ~replay.on
  /\ saved.status \in {"none", "completed", "conflicts", "aborted", "refused"}
  /\ turns \in 0..MaxTurns /\ runs \in 0..MaxRuns

Overwritten == Work(remote) \ Work(remote')
PushesItself == remote' # remote /\ remote' = local /\ mode # "push-only"

\* rebase.lease: what a colleague pushes while a run goes on is not pushed over by it.
PushedDuringKept == [][Overwritten \cap since = {}]_vars

\* lifecycle.drive_to_completion: a resume still names the tip from before the fetch of
\* the run that began the rebase, so what arrived since then is not pushed over.
PushedSinceKept == [][Overwritten \cap begun = {}]_vars

\* rebase.lease: a colleague's push that was never merged here is not pushed over.
NothingOverwritten == [][Overwritten \subseteq {"mine", "more"}]_vars

\* rebase_success: a replay with a region resolved to one side, in whichever run of it,
\* does not reach the remote by itself.
OneSidedHeld == [][PushesItself => ~unseen]_vars

\* The same of any later run: "until somebody has looked".
OneSidedStays == [][PushesItself => ~local.sided]_vars

\* cmd_start: a resumed rebase that an operator half resolved is aborted by no budget.
HandWorkKept ==
  [][replay.on /\ replay.hand /\ ~replay'.on /\ pc # "off" /\ local' = local
       => turns = MaxTurns \/ saved'.status = "conflicts"]_vars

\* _record_failed, _stopped_outcome: a replay left in the worktree by a run that ended by
\* itself is recorded as one, with the regions it resolved.
StopIsRecorded ==
  pc = "off" /\ replay.on /\ ~killed =>
    saved.status = "conflicts" /\ (replay.sided => saved.sided)

RunEnds == pc # "off" ~> pc = "off"
=============================================================================
