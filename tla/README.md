# otto-workbench: a verification of its Python core

otto-workbench is a developer's command line: shell set-up for a machine
(`bin/`, `lib/`, `zsh/`, ...) and, under `ai/lib`, a Python program `pr` that
rebases, reviews, fixes and publishes pull requests with the help of coding
agents. Most of it is sequential text processing. The parts with a protocol of
their own are where processes, people, git, GitHub and agents meet without a
server between them:

* `pr batch`: a *run* is a set of pull requests (its *items*) worked through by
  a driver process over hours, which others send requests to, resume after a
  crash, share the machine with and delete afterwards;
* the ways a branch changes and reaches its remote: a landing, a batch publish,
  a rebase and its stash;
* a fix pass over a worktree others may be editing, and the rounds, replies and
  summaries by which reviewers hear of it;
* the rounds of a review that several agents write, stop half way and resume;
* locks, claims, child processes and signals, and the watch over an agent's run.

Nothing but files, renames, `flock`, refs, signals and comments coordinates
them. That is what this project models.

The modules are plain TLA+. They are checked with TLC on small instances, and
most of the safety properties the runs check are proved with TLAPS for every value of
the constants.

## 1. The system

### Components

| Component | State it keeps | Operations | Talks to |
|---|---|---|---|
| Run record (`batch/model.py`, `requests.py`, `resolve.py`) | status, cancel, items, step records, decisions of one run | apply a decide / cancel / release, settle, tick, mark interrupted | a session, the scheduler |
| Run session (`batch/store.py`, `inbox.py`) | the run directory: `run.lock`, `state.json`, `requests/`; the plan's refs | open, load, drain, commit, retire, settle, finish, hand off, deliver, collect | processes meet through the directory and the lock |
| Plans and claims (`batch/plan.py`, `gc.py`) | private refs of a plan in each checkout, a claim file naming their owner | claim, fetch, give up, hand over to the run, drop; sweep | session, `pr gc`, git |
| Machine admission (`batch/machine.py`, `admission.py`) | `<run>.lock`, `<run>.json`, `floor.lock` of every driver | register, sync, queue, take the floor, settle, close | drivers read each other's files |
| Scheduler and item holds (`batch/scheduler.py`, `steps.py`, `targets.py`) | live step processes; the target and checkout locks of the items | drain, reap, admit, start, kill, settle; take, give back | session, machine, locks, child processes |
| Publication (`batch/publish.py`, `batch/resolve.py`) | an item's lease, what was confirmed, its decision | read the tree, plan, push, close out, adopt, retry | git, GitHub, the operator |
| Landing (`git/land.py`, `git/push.py`) | index, HEAD, the remote | commit, push, verify, retry, recover | hooks, git, the operator |
| Push records (`pr/push_intent.py`, `gh/landed.py`) | a file of pushes nobody has heard the end of | record, reconcile, report | the pre-push hook, every `pr` command |
| Rebase (`rebase/`) | the replay, the saved outcome, the lease, the stash | start, resume, stop, continue, skip, abort, push, stash, restore | git, agents, the operator |
| Fix engine (`fix/`, `review/fix.py`) | the worktree, the answers, what was recorded | hand over, retry, gate, checks, contain, scope, land, record | agents, sessions of editors |
| Pull request rounds (`pr/fix.py`, `settlement.py`, `thread_replies.py`, `review/closeout.py`) | the saved record; review threads | triage, fix, reply, resolve, close out, settle | GitHub, reviewers, the operator |
| Summaries (`pr/summary_*.py`) | comments on the pull request | scope, carry over, edit, post | GitHub, reviewers, people who edit |
| Exclusive locks (`core/run_lock.py`) | a flock and a holder record per scope | take, pass through, refuse, stamp, drop, probe | every `pr` command |
| Tree and session locks (`core/tree_lock.py`, `session_lock.py`, edit guards and hooks) | a shared flock with lines; a record of sessions | declare, probe; claim, release, refresh, ask | editors, agents, fix passes |
| Child processes and signals (`core/proc.py`, `children.py`, `signal_relay.py`, `job_slots.py`) | process groups, a registry, handlers | spawn, stop, escalate, sweep, relay | the operating system |
| Agent runs (`agent/backend_pi.py`, `stall.py`) | the event stream of one run, the watch | read, count, ask, abort | Pi |
| Review pipeline (`review/`) | `pipeline.json`, the groups' outputs, the review's record, sidecar and page, the prior round's | archive, start, recover, carry over, run groups, merge, synthesise, challenge, sweep | agents, the author who commits meanwhile |
| Evaluation, memory, wiki | text artifacts | pipelines of prompts | agents |
| Configuration, migrations, shell set-up, docs site | dotfiles | install, render | nothing concurrent |

`PROJECT.json` lists every one with its status and the reason when it is not
modelled.

### What is hard in it

* **Interleaving through files.** A request can be written between a driver's
  last look at its inbox and the release of its lock; two hooks rewrite one
  record; a colleague pushes between a reading and a push.
* **Crashes between two writes.** A request is applied, the run saved, the file
  unlinked; a push lands and the lease that names it is not saved; a replay is
  paused and the run that resumes it is another process.
* **Stale information.** The record a refused process reads may be the next
  holder's; a report fetched at the start of a run is minutes old when a reply is
  written on it; a difference between two readings of a worktree is not all one
  author's.
* **Partial failure.** A removal that fails half way, a push whose answer is
  lost, a reply GitHub refuses, a group whose leader went and whose member stays.
* **Fairness without a server.** Drivers must take turns on a machine with room
  for one step; a stop must end a process whose children ignore it; everybody
  who is owed an answer must get it.

### What makes each part correct

* Run record: nothing that was settled is taken back; a cancelled run never
  becomes done.
* Session: one process at a time inside a run; a request that was reported queued
  has somebody who will look at it; a command runs once.
* Plans: nobody takes the refs of a plan or a run that still reads them, and none is left
  where no sweep would find it.
* Machine admission: one step at a time on a starved host; the longest waiter
  goes first; everybody who waits gets a turn.
* Scheduler and holds: an item's locks outlast its last step, and are given back
  only when the saved run says it is over.
* Landing and publication: no push takes anybody's work off the remote; what is
  sent without hooks passed them; the batch knows its own push.
* Rebase: what was resolved to one side is not pushed before somebody has looked;
  work done by hand and uncommitted work are not lost.
* Fix pass: other people's files are not committed; a commit that counts as
  reviewed is the agent's.
* Rounds and summaries: a reviewer is told of a fix only when origin has it, once,
  and what a reviewer or a person wrote is read and kept.
* Review: a review that reads as completed has read every group as it is at the head it
  states, and was challenged.
* Locks and claims: a record that names a live holder tells the truth; a claim
  that was granted is on record; a declared validation is heeded.
* Children: a stop leaves nothing behind; what was shown is in the result; an
  agent run that was cut is said to be.

## 2. The modules

| Module | Models | Kind |
|---|---|---|
| `BatchRun` | the run record as data and what requests and ticks do to it | pure operators |
| `BatchSession` | drivers, submitters and collectors on one run directory | state machine over `BatchRun` |
| `BatchInbox` | what a run promises whoever sends it a request | abstract specification |
| `BatchInboxImpl` | `BatchSession` implements `BatchInbox` | refinement |
| `BatchClaims` | plans, the runs made from them and `pr gc` around a plan's refs | state machine |
| `BatchMachine` | the registry of drivers and the admission pass | state machine |
| `BatchSteps` | one driver from the inside: its tick, step processes and locks | state machine |
| `BatchPublish` | the publish of one item among colleagues, operator and failures | state machine |
| `GitLand` | one landing with all its recoveries | state machine |
| `PushIntent` | the records of pushes, hooks and commands on one file | state machine |
| `Rebase`, `RebaseStash` | runs of `pr rebase` over one branch; its auto-stash | state machines |
| `FixPass` | one fix pass over a shared worktree | state machine |
| `PrCycle` | rounds, closeouts, settlements and replies of one pull request | state machine |
| `PrSummary` | the chain of summary comments | state machine |
| `ReviewRun` | the rounds of a review and what a stopped one leaves to the next | state machine |
| `RunLock`, `TreeLock`, `SessionLock` | the exclusive locks; the shared lock of validators; the record of sessions | state machines |
| `Children`, `ProcRun`, `Relay` | the registry of children and its stop; one relayed call; a wrapper in a wrapper | state machines |
| `PiStream` | one agent run, its stream loop and its stall watch | state machine |
| `CheckoutLocks` | `RunLock`, `TreeLock`, `SessionLock` and `BatchClaims` side by side | composition |
| `ProcessStops` | `Children`, `ProcRun`, `Relay`, `PiStream` and `ReviewRun` side by side | composition |
| `BranchWork` | `GitLand`, `BatchPublish`, `Rebase` and `RebaseStash` side by side | composition |
| `PrWork` | `FixPass` twice, `PrCycle` twice and `PrSummary` side by side | composition |
| `BatchRunProofs`, `BatchSessionProofs`, `BatchMachineProofs`, `BatchStepsProofs` | theorems about one module each | TLAPS |
| `LockProofs`, `StopProofs`, `BranchProofs`, `PrProofs` | theorems about the parts of the four compositions | TLAPS |
| `MCBatchSession`, `MCBatchPromise`, `MCBatchMachine`, `MCBatchSteps` | instances of one module each, and of the refinement | TLC |
| `MCLocks`, `MCStops`, `MCLand`, `MCPr` | instances of the four compositions | TLC |
| `MCEnds` | the liveness of five modules | TLC |

### BatchRun

A run is a record: `status`, `cancel`, the items (`open`, `running`, `terminal`),
`stepping` (the items that have a step record left RUNNING, which a release does
not touch) and decision slots (`absent`, `open`, `released`, or the action that
resolved them). `ApplyOne` gives the possible outcomes of one request: the run
after it, whether it is reported as applied, and whether a command ran on the
way. What a command does (a push, a comment) is reduced to that flag: BatchRun is
about what the record says. `SettleIdle`, `Ticked`, `BlockedStatus` and
`MarkInterrupted` are the scheduler's changes of the record.

### BatchSession

Each process has a program counter, one label per stretch of code that another
process may see the inside of. The lock file is an inode: `lockfile` is the one
the path names, `handle` the one a process opened, and `Locked` says whether a
process holds that inode's flock. `dir` is the run directory: live, renamed to its
tombstone, or gone.

| Code | Actions |
|---|---|
| `store.write_request` | `WriteRequest` |
| `run_lock._claim`, `_on_contention`, `_write_record` | `Open`, `Flock`, `Contend`, `WriteRecord` |
| `store._open` and its entry drain | `Load`, `ApplyNext`, `Commit`, `Retire`, `Unlink`, `Drained`, `Settle` |
| `Session.finish` | `Finish` and the same drain |
| `pr batch resume`, `Scheduler._loop` | `Resume`, `TickDrain`, `Work`, `Blocked` |
| `run_lock._drop`, `store._hand_off` | `NoteRelease`, `Unlock`, `HandOff` |
| `inbox.deliver`, `store._refusal` | `Delivering`, `HandingOff`, `Refused` inside `Open`, `Contend` and `Unlock` |
| `store.reap`, `_reap_held` | `GcLoad`, `GcRename`, `GcScan`, `GcDropRefs`, `GcRemove`, `GcRemoveFails` |
| SIGKILL; an error or Ctrl-C in the loop; any other error | `Crash`; `Interrupt`; `Raise` |

History variables record what the properties speak of and the code does not keep:
`granted` and `saved` (requests retired as applied; whose effect was committed),
`lapsed` (requests whose carrier failed after they arrived) and `ran`/`redone`
(how often a request's command ran, and how often for an attempt that was lost).

### BatchMachine

A driver is its run; the process behind it may be killed and resumed. `lock` is the
inode `<run>.lock` names and `fd` the one the process opened. An entry
(`<run>.json`) says since when its driver waits, how many steps it runs, and
whether it was written within `FRESH_SECONDS`. `clock` stands for `time.time()`
as the order of the stamps taken from it: two stamps may be equal only when they
are taken in passes that overlap (`abreast`). A pass is `BeginPass`, then a read of
each peer (`ReadPeer`, or `RemoveEntry` under the lock of a dead one), then an item
at a time, and `Settle`:

| Code | Actions |
|---|---|
| `machine.register` | `Open`, `Register` |
| `Machine.sync`, `_read_peers`, `_peer` | `BeginPass`, `ReadPeer`, `RemoveEntry`, `ReadFails` |
| `Scheduler._verdict`, `Machine.ahead`, `queue` | `Defer`, `HostAdmits`, `HostRefuses`, `HostStarves` with `Ahead` and `Queue` |
| `Machine.take_floor` | `TakeFloor`, `FloorFails` |
| `Scheduler._confirm`, `_start` | `Start`, `Drop` |
| `Machine.settle` | `Settle` |
| a cancelled run; `Machine.close` | `Cancel`, `Leave`, `CloseEntry`, `CloseLock` |
| a step that exits; SIGKILL; a driver held up for more than `FRESH_SECONDS` | `StepExits`, `Kill`, `Dawdle` |

The host's answer is a free choice at each verdict (`HostAdmits` or `HostRefuses`),
or never yes when `StarvedHost`. A failing write, read or floor lock degrades the
driver to per-run admission, as in the code. The history variables `inpass` and
`before` record which queued peer a driver started a step ahead of, in this pass and in
earlier ones.

`SlowAt` says where a driver may be held up: between passes (`tick`), where drained
requests publish inline, or within one (`items`, `confirm`).

### BatchSteps

BatchSession sees a driver as one of several processes at a run directory,
BatchMachine as one of several on a host; here it is alone with the
processes it starts and the manual `pr` commands that want the locks of its items.
`pc` walks through `Scheduler._once`: each label is a point at which a request may be
written, a step exit, a command start, or the driver be killed or interrupted.

A lock is nobody's, the driver's, a command's or a step's. `kept` and `given` are the
items whose target the driver took, and gave back since (`ItemHolds._keys`). A step process has
an item, the locks it was handed a marker for (`child_env`), what it was sent
(`sig`: nothing, a TERM within or past its grace, a KILL) and a state: still taking the locks it has no marker
for, working, or exited and not yet reaped. `live` is what the scheduler tracks;
a step whose driver went away lives on and is tracked by nobody.

| Code | Actions |
|---|---|
| `store.write_request`, `Session._drain_one` | `Submit`, `Drain` |
| `pr_batch._resume`, `_hold_items`, `mark_interrupted` | `Open`, `HoldItems` |
| `Scheduler._once` up to the admission | `Drained`, `KillTerminalLive`, `ReleaseFinished`, `KillLive`, `Reap`, `Reaped` |
| `_release_stacked`, `_admit_items` | `ReleaseStacked`; `PassOver`, `AskPeople`, `StackedWait`, `AssignTree`, `Close` per item, `Admitted` |
| `_start` | `Spawn`, `Record` |
| the rest of `_once`, `_blocked_status`, `_settle` | `Commit`, `ReleaseFinished`, `Settle` |
| `_on_interrupt`, the unwinding of `ItemHolds` | `Interrupt`, `SaveInterrupted`, `Unwind` |
| `Session.finish` and the way out; SIGKILL | `Finish`; `Crash` |
| a step: its own locks, its end, its grace | `StepLocks`, `StepExit`, `GraceOver` |
| a manual command under `run_lock.hold` | `CommandStarts`, `CommandEnds` |

What a step's exit code says, whether a host admits a step, what a look at a worktree finds are
free choices. An item has work left or has not; which of its steps is next is not told.

`BatchInboxImpl` maps `BatchSession` to `BatchInbox`, a run that loses no request, applies none
`state.json` does not show and is forgotten only when it is over and nothing waits: a
request waits as long as its file is in `requests/`, also while a copy of it lies in
`rejected/`; the saved run is `state.json`, and a run is forgotten once that is gone.
Every step of the session protocol is a step of it or none (`KeepsPromise`, checked and proved).

### GitLand

One landing: commit the work of a pass, push it, ask the remote what it holds, and
recover from a dropped connection, a push that vanished, a hook that rewrote files, a
pre-commit hook that restaged nothing, and an agent that committed on its own. A
commit is its history and its tree; a tree says of each file who wrote what it
holds, so that "is this the hook's own change?" can be asked. Beside the landing an operator edits and
commits, at any step of it, and colleagues push. `_retry_block` is three steps (the look at HEAD, the look at
the tree, the start of the push that skips the hooks) because the operator may commit between them. Two history variables
name the ways past the gates: `unheard` is the tips whose hooks ended without a verdict git could tell, `slipped` the commits
made between a retry's look at HEAD and its git.

| Code | Actions |
|---|---|
| `land.py` `CommitStatus` | `Statuses` |
| `client.py` `is_dirty` | `Clean` |
| *git commit* | `Commit` |
| `land.py` `_landed` | `Finish` |
| `land.py` `land` | `NoCommit` |
| `land.py` `_stage` | `Stage` |
| `land.py` `_commit` | `CommitMade` |
| `land.py` `_hook_rewrites, _retry_after_hook` | `CommitRefused` |
| `land.py` `_moved_head, _recover` | `Recover` |
| `land.py` `_push_and_retry` | `Answer` |
| `push.py` `push` | `PushStart` |
| `push.py` `_run_push` | `GitStarts` |
| *the pre-push hook* | `HooksPass` |
| `push.py` `classify` | `HooksRefuse` |
| `push.py` `_dropped` | `HooksLookDropped`, `Vanishes` |
| *git push: the remote takes the tip* | `Arrives` |
| `push.py` `_verify` | `Verify` |
| `push.py` `_retry_block` | `RetryLooksAtHead`, `RetryLooksAtTree` |
| `push.py` `_retry_lost` | `RetryStarts` |
| `land.py` `_retry_after_regen` | `RegenStops`, `RegenCommits` |
| `land.py` `_validated` | `Validate` |
| *the operator edits a file* | `Edit` |
| *the operator commits* | `OperatorCommits` |
| *a colleague pushes* | `ColleaguePushes` |

### BatchPublish

A branch is the sequence of its commits; a rewritten commit is a new one that has its
predecessor's patch or, after a conflict, a patch of its own, and git's rewrite record
names the work it came from. That is what `_dropped`, `_carried` and `_unincorporated` tell apart.

| Code | Actions |
|---|---|
| *git pull --rebase* | `InOrder` |
| `resolve.py` `apply` | `KeepItem`, `RetryPublish` |
| `scheduler.py` `Scheduler._record_commits` | `DraftCommit` |
| *pr rebase --no-push in a step* | `DraftRebase` |
| `resolve.py` `_validate` | `Answer` |
| `resolve.py` `confirmed_commits` | `Confirmed` |
| `resolve.py` `_publish_failed` | `Fail` |
| `publish.py` `read_tree` | `PublishStart` |
| `commands.py` `push_head` | `PushLands` |
| `commands.py` `cmd_push, cmd_push_head` | `PushFails` |
| `resolve.py` `_publish` | `LeaseMoves`, `Conclude` |
| `publish.py` `_comments_command` | `Finish` |
| `resolve.py` `_effect` | `GiveUp` |
| *the driver is killed* | `Crash` |
| *a colleague pushes* | `ColleaguePushes` |
| *git by hand in the item's worktree* | `OperatorActs` |

### PushIntent

The global pre-push hook writes down what a push is about to send; the next `pr`
command asks the remote about every record and reports what did not land. `above` is
the history of a pushed commit. `LandedElsewhere` is the ladder of `gh/landed.py`.

| Code | Actions |
|---|---|
| `push_intent.py` `PushedRef, parse_refs` | `HookLoads` |
| `push_intent.py` `main` | `HookSaves` |
| `push_intent.py` `record` | `HookSavesDelete` |
| *git push: the transfer* | `PushEnds` |
| *a pull request is merged and its branch deleted* | `Merge` |
| `push_intent.py` `reconcile` | `Load`, `Save` |
| `push_intent.py` `_answer` | `OnBranch` |
| `push_intent.py` `Reconciled` | `Learn` |
| `landed.py` `merged_pr` | `Ask` |
| `push_intent.py` `_report` | `Report` |

### Rebase and RebaseStash

A tip is what a branch ref names: which replay wrote it, whose work it holds, and
whether a conflict in it was resolved to one side. `saved` is the outcome a run leaves
for the next one.

| Code | Actions |
|---|---|
| `commands.py` `_run` | `StartRun` |
| `lifecycle.py` `fresh` | `Fresh`, `Fetch` |
| `lifecycle.py` `drive_to_completion` | `Resume` |
| `types.py` `RebaseOutcome.save` | `Ends` |
| *git finishes the rebase* | `Finish` |
| `lifecycle.py` `_drive_loop` | `ReplayStops`, `RunAway` |
| `lifecycle.py` `_ai_mode_conflicts` | `Resolve` |
| `conflict_stop.py` `abort_clean` | `AbortClean` |
| `lifecycle.py` `_over_budget` | `OverBudget` |
| `lifecycle.py` `_halt_if_discarding` | `HaltIfDiscarding` |
| `lifecycle.py` `rebase_continue` | `NextStop` |
| `lifecycle.py` `step_advance` | `Continue`, `ContinueLost` |
| `lifecycle.py` `_halt_unresolved` | `ContinueRefused` |
| `inspect.py` `is_empty_patch` | `SkipEmpty` |
| `lifecycle.py` `rebase_success` | `Success`, `Record` |
| `commands.py` `push_head` | `Pushed` |
| `land.py` `land_rebased` | `Land` |
| `commands.py` `cmd_push` | `CmdPush` |
| `commands.py` `_select_mode` | `PushOnly` |
| `commands.py` `cmd_abort` | `AbortCommand` |
| *the operator resolves a stop by hand* | `OperatorResolves` |
| *the operator commits* | `OperatorCommits` |
| *the operator pulls* | `OperatorPulls` |
| `sync.py` `update_to_remote` | `Refetch` |
| *a colleague pushes* | `ColleaguePushes` |
| *a run is killed* | `Kill` |

The stash is a stack that every linked worktree of a repository shares; an entry is
the work in it and the name of the run that pushed it.

| Code | Actions |
|---|---|
| `commands.py` `cmd_start` | `To`, `Resume`, `Replay` |
| `stash.py` `auto_stash` | `Fresh` |
| `stash.py` `restore` | `Restore` |
| *git stash pop* | `PoppedFrom` |
| `stash.py` `auto_unstash` | `Pop`, `PopFails`, `PopConflicts`, `Drop` |
| `commands.py` `cmd_abort` | `AbortCommand` |
| *the operator edits* | `Edit` |
| *the operator stashes* | `OwnStash` |
| *the operator stashes in a paused rebase* | `StashPaused` |
| *a run is killed* | `Kill` |

### FixPass

What a file holds is the set of those who wrote it (`before`, `session`, `agent`, `gate`,
`suite`). The pass itself sees only the names of dirty files and, in its snapshots, that
contents differ; the properties see the authors.

| Code | Actions |
|---|---|
| `scope.py` `changed_files` | `ReadInto` |
| `engine.py` `run` | `Refuse`, `RefusedUnread`, `Start` |
| `engine.py` `_invoke` | `HandOver`, `AgentRuns` |
| `engine.py` `_retry` | `Retry` |
| `engine.py` `_record_unevidenced` | `Answered` |
| `containment.py` `take` | `Snapshot` |
| `containment.py` `restore` | `PutBack` |
| `containment.py` `around` | `GateStarts`, `SuitePutsBack`, `Unwound` |
| `gate.py` `verify_claims` | `GateRuns` |
| `containment.py` `_put_back` | `GatePutsBack` |
| `scope.py` `agent_changed` | `ReadScope` |
| `engine.py` `_run_pass` | `SuiteStarts`, `AfterVerify` |
| `publishing.py` `hold` | `Hold` |
| `engine.py` `_verify_suite` | `SuiteRuns` |
| `triage_round.py` `hold_after_verify` | `LastWord` |
| `engine.py` `_land` | `Land` |
| `fix.py` `ReviewFixAdapter.record` | `Record` |
| `engine.py` `_interrupted` | `Interrupted` |
| `convergence.py` `set_aside_leftovers` | `SetAside` |
| *an interactive session opens in the worktree* | `SessionOpens` |
| *a session edits a file* | `SessionEdits` |

### PrCycle and PrSummary

`gh` is GitHub, `report` what a run fetched of it when it began, `rec` the state file,
`mem` the run's copy. Replies are known by the outcome they name. `Races` lets people
write while a run goes on, `Gap` between its fetch and its decision stamp. Three history variables say of a
thread what the code does not keep: `adrift`, that its fix went on record with no commit to carry it; `unread`, that
the decision on record was read from a report without the reviewer's newest word; `overtaken`, that the decision
is one a closeout adopted off a report older than that word.

| Code | Actions |
|---|---|
| `comments.py` `run_pass` | `Forgets`, `Agent` |
| `thread_replies.py` `_post_thread_replies` | `Answered` |
| `comment_threads.py` `run_threads` | `Begin`, `FixCommand` |
| `closeout.py` `finish_deferred_work` | `FinishCommand`, `FinishSave` |
| `triage_round.py` `triage_the_round` | `Triage` |
| `attribution.py` `pass_commit` | `Committed` |
| `comments.py` `CommentFixAdapter.landing` | `Land` |
| `comments.py` `CommentFixAdapter.record` | `RoundSummary` |
| `fix_state.py` `persist` | `Persist` |
| `closeout.py` `push_held_commit` | `PushHeldCommit` |
| `closeout.py` `post_pending_fix_replies` | `DrainStart`, `DrainEnd` |
| `settlement.py` `reconcile_fix_snapshot` | `Reconcile` |
| `deferred_issue.py` `validate_track` | `TrackRefused` |
| `deferred_issue.py` `finalize_deferred` | `Track` |
| `summary_publish.py` `render_deferred_summary` | `FinishSummary` |
| `settlement.py` `record_settlement` | `Settle` |
| `thread_replies.py` `run_reply` | `Reply` |
| *a reviewer writes on a thread* | `Speak` |
| *a thread is resolved on GitHub* | `HandResolve` |
| *git commit by hand* | `OperatorCommits` |
| *git push by hand* | `OperatorPushes` |
| *the run is killed* | `Crash` |

In PrSummary keys are the rows of the table and the reply blocks under it; a cell holds
what it says and whether a person rewrote it.

| Code | Actions |
|---|---|
| `summary_publish.py` `publish` | `Fetch` |
| `comments.py` `find_marker_comments` | `List` |
| `comments.py` `_patch_issue_comment` | `Edit` |
| `comments.py` `post_issue_comment` | `Post` |
| `summary_publish.py` `post_fix_summary` | `GiveUp` |
| *a fix round or --settle of a checkout records an outcome (PrCycle models it)* | `Record` |
| *a reviewer writes on a thread* | `Speak` |
| *anybody comments on the pull request* | `Comment` |
| *a person edits a summary comment* | `HandEdit` |

### BatchClaims

A plan and its namespace `refs/pr-batch/<hex>` are one name. `refs` is the set of checkouts
that hold refs of it, `got` those the plan knows it fetched (`ref_dirs`), `claims` the claim
files, `writers` the planners that are alive, `run` what is saved of the run, `plan` the
process that plans and drives it and `sweep` what each `pr gc` has read so far. A sweep is
a step per thing it reads: claims, runs, checkouts; then, for the owners, claims before runs.

| Code | Actions |
|---|---|
| `plan.py` `write_claim` | `WriteClaim` |
| `plan.py` `fetch_namespace` | `Fetch` |
| `plan.py` `_plan_with_namespace` | `Planned`, `GiveUp` |
| `pr_batch.py` `_start_run` | `FirstCommit` |
| `plan.py` `remove_claim` | `RemoveClaim` |
| `store.py` `Session.commit` | `Commit` |
| `plan.py` `_drop_repo_refs` | `DropOne`, `SweepOne` |
| `plan.py` `drop_refs` | `DropEnds` |
| `pr_batch.py` `_cmd_run` | `Leave` |
| `pr_batch.py` `_cmd_resume` | `Reopen` |
| *the process of a plan or a driver is killed* | `Kill` |
| *git: a fetch whose parent was killed* | `LateFetch` |
| `pr_commands.py` `cmd_gc` | `Begin` |
| `gc.py` `_reap` | `Reap` |
| `gc.py` `_namespace_repos` | `ScanClaims`, `ScanRuns`, `ScanRepos` |
| `plan.py` `load_claims` | `ReadClaims` |
| `gc.py` `_live_namespaces` | `ReadRuns` |
| `gc.py` `gc_namespaces` | `Pick`, `PickEnds`, `End` |
| `store.py` `_reap_held` | `ReapEnds` |
| *a `pr gc` is killed* | `KillSweeper` |

### RunLock, TreeLock, SessionLock

In RunLock scopes are numbered in the order every holder takes them, `depth` is the
process-wide count `_HELD`, `env` the marker a child was started with.

| Code | Actions |
|---|---|
| `locks.py` `hold_declared, claim_declared` | `Begin` |
| `locks.py` `hold_declared` | `Launch` |
| `run_lock.py` `_owns` | `Spawn` |
| *a command waits for the one it started* | `Wait` |
| `run_lock.py` `_holding` | `Taken` |
| `run_lock.py` `_take` | `TakeCounted`, `TakePassed` |
| `run_lock.py` `_claim` | `ClaimGets`, `ClaimContends` |
| `run_lock.py` `_claim, _write_record` | `ClaimRecords` |
| `run_lock.py` `LockBusy` | `Refuse` |
| `run_lock.py` `_on_contention` | `RetryVacated` |
| `run_lock.py` `acquire, hold` | `AllTaken` |
| `run_lock.py` `lock_checkout` | `OpenBlock` |
| `run_lock.py` `claim_for_process` | `KeepForProcess` |
| `run_lock.py` `_register_atexit` | `Leave` |
| `run_lock.py` `_drop` | `DropCounted`, `DropUnlocks` |
| `run_lock.py` `_note_release` | `DropStamps` |
| `run_lock.py` `_release_all` | `Exit` |
| *a kill; the kernel drops the flocks* | `Kill` |
| `run_lock.py` `is_held, _probe` | `Probe` |
| `run_lock.py` `_probe` | `ProbeEnds` |

In TreeLock a validator takes the lock exclusively to prove that no one else holds it,
then shared; the kernel gives the lock up between the two.

| Code | Actions |
|---|---|
| `tree_lock.py` `acquire` | `Nested`, `Start`, `ProveEmpty` |
| `tree_lock.py` `_record` | `ReadLines`, `Truncate`, `WriteLines` |
| *a wrapper is killed* | `Kill` |
| `index.ts` `tool_call` | `Ask` |
| `claude-edit-guard` `_lock_rc` | `ProbeFails` |

In SessionLock a hook is a process of its own; `disk` is the inodes behind the lock
file and its temporary name.

| Code | Actions |
|---|---|
| `session_lock.py` `process_start` | `Asked` |
| `index.ts` `session_start` | `Begin` |
| `index.ts` `session_shutdown` | `Clear`, `End` |
| *a harness process is killed* | `Kill` |
| `detect.ts` `acquireFor` | `Starts` |
| `session_lock_cli.py` `main` | `After` |
| `session_lock_cli.py` `_check` | `Look` |
| `session_lock.py` `holders` | `Read` |
| `session_lock.py` `acquire` | `Ask` |
| `session_lock.py` `release` | `Unlink` |
| `session_lock.py` `_write` | `Open`, `Write`, `Replace`, `Clean` |
| `session_lock.py` `held_by_others` | `PassReads` |
| `engine.py` `run_fix` | `PassAsks` |
| *the fix pass commits (FixPass models it)* | `PassCommits` |

### Children, ProcRun, Relay

Every child leads a process group; a leader may ignore SIGTERM, and what it started may
too and hold a pipe its owner reads. A stop runs its handler on the main thread between
any two of its steps.

| Code | Actions |
|---|---|
| *an agent process exits* | `KidEnds` |
| `children.py` `spawn` | `TakeLock` |
| `children.py` `_start_and_record` | `Start`, `Record` |
| `backend_pi_rpc.py` `_rpc_process` | `Reap` |
| `children.py` `forget` | `Forget` |
| `children.py` `_signal` | `TermAll`, `TimerLooks` |
| `children.py` `_kill` | `KillAll`, `TimerKills` |
| `children.py` `terminate` | `WentInGrace`, `ReapKilled` |
| `children.py` `_abandon` | `Abandon` |
| `proc.py` `install_stop_handler` | `Signal`, `SignalAgain` |
| `children.py` `stop_all` | `Snapshot`, `TermEach` |
| `children.py` `_terminate_survivors` | `Exit` |

ProcRun is one call of `core.proc.run` with a relay: two pumps, a bound, a grace, a join
with a deadline.

| Code | Actions |
|---|---|
| *the child or what it started writes a line* | `Write` |
| *the child exits* | `ChildEnds` |
| *the terminal is stopped or goes on* | `Jam` |
| `proc.py` `_pump` | `ReadLine` |
| `proc.py` `_Tee.copy` | `Keep`, `Show`, `Shown` |
| `proc.py` `_run_relayed` | `WaitEnds` |
| `proc.py` `_terminate` | `Expire`, `Rest`, `WentInGrace` |
| `proc.py` `_reap` | `Kill` |
| `proc.py` `_Tee.detach` | `Detach` |
| `proc.py` `_finish_pumps` | `Note` |
| `proc.py` `_timed_out` | `Return` |

Relay is a suite under its two wrappers: the outer holds the tree lock, the inner the
job slots, and a stop reaches the suite only through their handlers.

| Code | Actions |
|---|---|
| *the suite's group gets a signal* | `Suited` |
| *the default disposition of a signal* | `Dies` |
| `signal_relay.py` `SignalRelay.handle` | `Records` |
| *a stop from the terminal or a supervisor* | `Signal` |
| `job_slots.py` `claim` | `Lock` |
| `signal_relay.py` `forwarding_signals` | `Install`, `Restore` |
| `signal_relay.py` `run_child` | `Spawn` |
| `signal_relay.py` `SignalRelay.forward_to` | `Name`, `Detach`, `ReplayOuter`, `ReplayInner` |
| *the suite ends* | `SuiteEnds` |
| *what the suite left ends* | `HeirEnds` |
| `job_slots.py` `_release` | `Release` |

### PiStream

Pi (external) executes turns and tool calls and writes an event per line; the stream
loop reads them, one event behind; the stall watch, a thread, reads what the loop last
stamped. The waits of the watch elapse only while nothing is being delivered.

| Code | Actions |
|---|---|
| *pi: a prompt command is accepted or refused* | `PiPrompt` |
| *pi: an abort command* | `PiAbort` |
| *pi: a follow_up command is queued* | `PiFollowUp` |
| *pi: tool_execution_start* | `PiStartsTool` |
| *pi: a bash tool starts its detached child* | `PiSpawns` |
| *pi: tool_execution_end* | `PiEndsTool` |
| *pi: a write tool ends, done or refused* | `PiEndsWrite` |
| *pi: turn_end* | `PiEndsTurn` |
| *pi: the queues are drained before agent_end* | `PiDrains` |
| *pi: agent_settled* | `PiSettles` |
| *pi: the process exits* | `PiDies` |
| *pi: one JSONL event on stdout* | `Emit` |
| `backend_pi_rpc.py` `_send` | `Sent`, `SendNext` |
| `backend_pi.py` `_consume_events` | `Read` |
| `stall.py` `sample_subtree` | `SampleBaseline` |
| `stall.py` `StallWatch.arm` | `Arm` |
| `stall.py` `StallWatch.disarm` | `Disarm` |
| `backend_pi.py` `_consume_stream` | `Handle` |
| `stall.py` `StallWatch.stamp` | `GapPasses` |
| `stall.py` `ABSOLUTE_CAP` | `CapPasses` |
| `stall.py` `StallWatch._run` | `Poll` |
| `stall.py` `StallWatch._confirm_stalled` | `Confirm` |
| `stall.py` `StallWatch._abort` | `Decide`, `WatchAborts`, `WatchFollowsUp` |

### ReviewRun

A review goes over the changed files in *groups*, one agent each, then writes one review
of what they found and has it challenged (the *gate*). A version of a group is the commit
that last changed its files; `outputs` is the version each group's findings are about and
`record` the versions the written review is about. `run` is the one run at work: where it
is (`at`), the head it states and the tree it reads, its copy of `pipeline.json` (`st`) and
of the prior round (`base`). Each file it writes is a step, and a kill can come between any
two. `FaultSets` says which faults happen together: `kill`, `fail` (an agent writes
nothing, or what no reader accepts; only at `FailHeads`), `budget`, and three that are off
in the runs (section 4): `push`, a commit between the checkout and the reading of the head;
`unlink`, a look at the directory between the removal of a stale state and the next one;
`gate`, a single agent's review whose challenge failed.

| Code | Actions |
|---|---|
| `run.py` `run_pr_review` | `Start` |
| `paths.py` `archive_review` | `Archive` |
| `store.py` `archive_prior` | `ArchiveRecord` |
| `pipeline.py` `fetch_metadata` | `Collect` |
| `outcome.py` `write_unchanged_review` | `NoOp` |
| `pipeline.py` `run_single_agent` | `SingleAgent`, `SingleFails` |
| `orchestrate.py` `_choose_pipeline` | `Choose` |
| `pipeline.py` `run_multi_phase` | `Begin`, `Unrun`, `ReviewStands` |
| `state.py` `_resolve_recovery` | `Restart`, `AlreadyComplete`, `ResumeAtGate`, `Recover`, `Resume` |
| `steps.py` `_run_holistic_phase` | `Scan` |
| `phases.py` `_review_group` | `Agent`, `Settle` |
| `phases.py` `_run_serial_reviews` | `Abort` |
| `phases.py` `_retry_failed_groups` | `Retry` |
| `steps.py` `_run_group_phase` | `GroupsEnd` |
| `steps.py` `_run_synthesis_or_fallback` | `AllFailed`, `Synthesised` |
| `steps.py` `_phase_synthesis` | `Synthesis` |
| `store.py` `write_review` | `WriteRecord`, `WriteMeta` |
| `state.py` `_inject_failures_and_status` | `Stamp` |
| `steps.py` `_phase_disprove` | `Gate` |
| `steps.py` `_run_disprove_gate` | `GateFails`, `Judged` |
| `gc.py` `cleanup_intermediates` | `Sweep`, `SweepState` |
| `completion.py` `cleanup_prior_review` | `Finish` |
| *the process of a review is killed* | `Kill` |
| *the author pushes to the branch* | `Commit` |

## 3. What the runs show

| Run | Question | Instance |
|---|---|---|
| `session_crash` | a decision and a cancel meet a driver, with one kill anywhere: is a queued request stranded, a settled thing taken back, a command run twice? | 1 driver, 2 submitters, 1 item, 2 decision slots, 1 kill |
| `session_promise` | the same against `pr gc`, with refs that will not delete and removals that fail: exclusion, records; is every step one of `BatchInbox`? | 1 driver, 1 submitter, 1 collector, 1 kill, 1 exceptional exit |
| `machine_queue` | is a queued driver overtaken more than once by the same peer? | 2 drivers, 2 steps each, a pool of 2, 5 stamps, delays between passes |
| `machine_turns` | one step at a time on a starved host; does every waiter get a turn? | 2 drivers, 3 steps, 1 kill, 1 failing registry operation |
| `steps_hold` | do an item's locks outlast its steps, on a target two items share? is a lock given back before the saved run shows why? does a resume find every step? | 2 items, one stacked on the other, 1 target and worktree, 2 steps, 1 command, a release `--kill`, an answer, 1 kill, 1 Ctrl-C |
| `land` | does a push lose anybody's work or skip its gates, does the batch know its own push, is a one-sided resolution held, are hand-made and stashed work kept? | GitLand: 2 files, 1 operator commit at any step, 1 colleague, hooks whose verdict git does not tell. BatchPublish: 1 colleague, 2 operator acts, 1 crash, 1 failure. Rebase: 3 runs, with and without `--fix` and `--no-push`, 2 stops. RebaseStash: 4 runs, 3 pieces of work, kills |
| `locks` | is a record that names a live holder true, a granted claim on record, a declared validation heeded, has a plan its refs while it needs them, is what is left of them known? | RunLock: 2 commands, perhaps parent and child, nested blocks, 2 locks, a prober, kills. SessionLock: 3 sessions, 2 of them with one pid after another, 1 clear. TreeLock: 2 validators, 2 guards, 2 edits, 1 kill, 1 failing probe. BatchClaims: 1 plan over 2 checkouts, one of them registered, 2 sweeps at a time of 3, 1 kill |
| `stops` | does a stop leave a recorded child, is anything shown and not returned, does a suite run on without its locks, is a cut run said to be, does a review that reads as completed miss anything? | Children: 2 workers and the main thread, 2 children. ProcRun: 3 lines. Relay: 2 wrappers, signals of both kinds. PiStream: up to 5 turns, 2 tool calls. ReviewRun: 2 groups, 3 heads, 3 runs, the budget with 1 kill or with agents that fail at the first head |
| `pr` | whose files are committed and counted as reviewed, is a reviewer told of a fix origin lacks, or twice, or over an unread answer, is a row a person wrote kept? | FixPass: 2 files, 2 items, both domains. PrCycle: 2 threads and 2 rounds with failing commits and pushes, an idle agent and kills; 1 thread and 2 rounds with people who write 2 words, hand-overs, deferrals, `--settle` and kills. PrSummary: 2 rows, one of which a reply folds into the other, 1 reply, 2 checkouts, 3 runs, 1 word, 1 edit by hand |
| `ends` | does what must happen in the end happen? | BatchSession: a driver, a submitter, a collector. BatchSteps: 2 stacked items, a release and a cancel, both with `--kill`, no manual command. BatchPublish: 1 colleague, 1 crash, 1 failure. PushIntent: 2 pushes, 2 tries. PrCycle: 1 thread, 1 round, 1 word, a reply by hand |
| `cycle_forgets` *(violation)* | is a reviewer told only of what landed, when a later round commits nothing? | 1 thread, 2 rounds, a failing push |
| `session_release` *(violation)* | does a released item stay dropped? | a driver resuming over a record left RUNNING |

**Modules that share a run.** `CheckoutLocks`, `ProcessStops`, `BranchWork`, `PrWork` and `MCEnds` instantiate
several modules each and a variable `part`, chosen at the start, that says which of them moves. Two
of its parts may use the same variables (two instances of one module do), but only one of them ever
moves, so this is a disjoint union: its behaviours are those of each module alone, with the others at rest in an initial
state, and a property of one module holds in the union just when it holds in the
module. Where an idle module has many initial states, one is picked (`part # "x" => ...`). A
weak fairness of a module's step is stated as `WF_xVars(part = "x" /\ A)`.

**Bounds.** Every hazard listed for a component needs at most one fault and two
processes besides the one it bites: a request raced by a release, a kill between
two writes, a push between a reading and a push. One kill reaches every crash
point at any interleaving. Further:

* BatchSession: `MaxTries` and `MaxWaits` stand for the backoff of `retry_delays`; one pause
  tells "retried" from "gave up". Two decision slots let a failing command leave a new
  decision behind.
* BatchMachine: two items per driver are the fewest with which a driver can be refused
  one and hold another; five stamps are enough for every driver to queue twice. With
  `MaxStarts = 1` a killed driver is not resumed: two processes per run put the liveness
  check beyond reach, and what the proofs say of `OneStepWhenStarved` holds for any number.
* BatchSteps: two items that share a target are the fewest with which one can be over while
  the other's step runs, and two step processes are enough for an orphan beside its
  successor.
* GitLand: two files tell the hook's rewrite from the work; the recoveries bound themselves
  (each is tried once); the operator's one commit may come at any step, a retry's included. BatchPublish: `MaxCommits = 6` is what one draft, a rebase of
  it, a colleague's commit, an operator's and two hooks make.
* Rebase: three runs are start, resume and the run after; two stops are the fewest
  with which one is resolved and the next refused; one refused continue (`MaxTurns`) reaches the cap of the loop. RebaseStash: four runs are a stash, a stop, a
  second stash over it and the end.
* FixPass: two items in two files are one fixed and one deferred; PrCycle: one thread is enough for
  every exchange with a reviewer, two for a round that treats them differently; two rounds let one be saved over
  what another left held or uncommitted. PrSummary: two comments
  with one key on both, and an edit between them; two checkouts, of which each may publish without a row of the
  other's in its record, so that the row has to be carried over from the comment.
* RunLock: two commands over two locks in nested blocks; one may have started the other. SessionLock: three
  sessions of which two have the same pid one after the other. TreeLock: two validators and two guards
  meet in every pair. BatchClaims: namespaces never meet, so one is enough; two sweeps at a time race each other's
  removals, a third comes after both; a registered checkout is found without a claim, the other is not.
* Children: two owners beside the main thread, which a stop interrupts, and two children; ProcRun: three lines are one kept, one late and one lost;
  Relay: two wrappers as in `run-tests`; PiStream: two calls are one that hangs and one after it.
* ReviewRun: two groups are one carried over and one read again, or one failed and one kept; three heads and three
  runs are a round, one that stops, and one that recovers it or starts over at a newer head.

**Deadlock.** BatchSession has an explicit final step (`AllOver`) and BatchSteps can always
start a command; both are checked for deadlock. In the other runs everybody may have left,
and what must still happen is stated as a liveness property.

**Fairness.** Each module states its own in `FairSpec`. BatchSession: weak fairness of each
process's own steps: every wait is a sleep or a blocking `flock` the kernel ends.
BatchMachine adds the exit of its steps. BatchSteps is weaker on steps, and that is the
point: the end of a grace and the exit of a step that was sent SIGKILL are fair; a step that was told nothing, or only
SIGTERM, may go on for ever. BatchPublish: the driver's steps, and an operator who goes
on answering the refusals (`Perseveres`); nothing of colleagues or failures. PushIntent: a push that began
ends, and `pr` commands keep being run. PrCycle: a run goes on, and the operator who may post closes out
again and again (strong fairness, for a round may be running); that a reviewer ever
answers is not assumed.

**Mutants.** Each property of a passing run has a changed definition beside the one it
mutates ("Mutant" in the modules) that breaks it: a commit left to the end of the
drain, a record believed instead of the flock, a lease that is not checked, a stash dropped by
position, and so on.

## 4. Disagreements with the code's own words

Two are runs of their own:

1. **A reviewer is told of a fix origin never got** (`cycle_forgets`). `merge_into` keeps the
   outcomes of earlier rounds and takes commit and status from the new one; a round that
   commits nothing makes the closeout forget that the first one's commit was held.
2. **A released item comes back** (`session_release`). `_interrupt_running` turns every step
   record left RUNNING into an open decision without looking at whether its item is
   terminal.

The modules state further properties that a comment or a doc promises and that TLC
refutes, or that hold only where the instances of section 3 keep a cause away. To see one,
check the module with the property and the constants of its instance changed as in the
last column ("-" for none).

| Module, property | Code | What happens | Constants |
|---|---|---|---|
| BatchSession: `Exclusive` | store.py `_reap_held` | a removal that fails after it unlinked `run.lock` renames the directory back; the next process makes a second lock file while another waits on the first inode | `Survivors` without the lock |
| BatchClaims: `RefsAreOwned` | plan.py `_plan_with_namespace` | a killed planner's `git fetch` works on: a sweep drops refs and claim, then the fetch writes refs nobody names | `FaultSets = {{"kill", "stray"}}` |
| BatchClaims: `RefsAreOwned` | store.py `_reap_held` | refs that did not delete when the run ended, and a `pr gc` killed after it moved the run aside: the tombstone is warned about and names nothing | `FaultSets = {{"sweeper", "drop"}}` |
| BatchClaims: `RefsAreOwned` | pr_batch.py `_start_run` | Ctrl-C after the first commit drops the refs of a run that stays | `FaultSets = {{"interrupt"}}` |
| BatchMachine: `NoBarging` | machine.py `_waiters` | a peer's freshness is judged by the clock at use, on an entry read when the pass began; a pass held up for 30 s finds every waiting peer stale | `SlowAt = {"items"}` |
| BatchSteps: `KilledStepsAreCovered` | scheduler.py `_on_interrupt` | Ctrl-C sends SIGTERM once and the holds are closed at once: a step that takes its time works on while a manual command has its target | - |
| BatchSteps: `WaitsForPeople` | scheduler.py `_release_stacked` | the bases are looked at before the pass that may end them: the run stops to wait with a decision it would answer itself | - |
| GitLand: `sent \subseteq passed` | push.py `_dropped` | a hook's own output may read as a dropped connection, and git may die in the hooks; the push is sent again with `--no-verify`. `SentPassedTheGates` allows for these tips by name (`unheard`) | - |
| GitLand: `sent \subseteq passed` | push.py `_retry_block` | HEAD and tree are looked at, then git is started with `--no-verify`: what the operator commits in between is sent past the hooks. Allowed for by name (`slipped`) | `DropsInHooks = FALSE` |
| GitLand: `RefusedLeftNothing` | push.py `_verify` | a colleague builds on the pushed commit before `ls-remote`: the landing reports a refused push of a commit the remote holds | - |
| GitLand: `RegenIsTheHooks` | land.py `_regenerated` | a file the operator edits while the hook runs is committed as the hook's and pushed | `MaxEdits = 1` |
| PushIntent: `ReportedOnce` | push_intent.py `reconcile` | load, network and save without a lock: two commands both report a push | `Overlap = TRUE`, 2 commands |
| PushIntent: `LandedIsSilent` | push_intent.py `reconcile` | the record is written before git transfers anything: a push in flight is reported as lost | `InFlight = TRUE` |
| PushIntent: `SilentLanded` | landed.py `merged_pr` | the tracker answers by the branch's name: a push lost on a branch that was merged without it is drained as landed | - |
| BatchPublish: `DraftsArrive` | resolve.py `_publish` | the operator resets the branch between the reading of the tree and the push | `Meddles = TRUE` |
| BatchPublish: `OwnPushIsKnown` | resolve.py `_publish` | the lease becomes the local branch as read after the push; moved in between, the batch takes its push for somebody else's | `Meddles = TRUE` |
| BatchPublish: `ConfirmedStays` | publish.py `_unincorporated` | a label of an unverifiable commit differs from its label once it is verified: a confirmed commit is refused again | `Unsure = TRUE` |
| RunLock: `Exclusive` | run_lock.py `_owns` | a child is inside by its marker alone; its parent is killed and a third command takes the freed flock | `Orphans = TRUE`, 3 commands |
| Rebase: `PushedSinceKept` | lifecycle.py `drive_to_completion` | a resume takes the tip its first run fetched for the one it started from, and overwrites it | - |
| Rebase: `NothingOverwritten` | lease.py `remembered_tip` | any fetch between a colleague's push and the run moves the ref the lease is read from | - |
| Rebase: `StopIsRecorded` | lifecycle.py `step_advance` | `git rebase --skip` fails at the next conflict and the run ends with nothing saved | `Empties = TRUE` |
| Rebase: `OneSidedHeld` | lifecycle.py `resumed_tally`, conflict_stop.py `abort_clean` | the tally of one-sided files is saved only when a run stops by itself, and lost when an abort fails | `Kills` or `AbortsFail` `= TRUE` |
| Rebase: `OneSidedStays` | lifecycle.py `rebase_success` | a held push, and `pr rebase` once more: nothing to replay, an empty tally, a push | - |
| RebaseStash: `OwnWorkReturns` | stash.py `auto_stash_ref` | two linked worktrees share a stack and a message: one pops the entry of the other | 2 worktrees |
| RebaseStash: `WorkKept` | stash.py `auto_unstash` | `stash@{n}` is looked up once and dropped later; an entry pushed meanwhile shifts it | 2 worktrees |
| FixPass: `CoveredIsChecked` | engine.py `_run_pass` | a file dirty before the pass is in the tree the checks ran over and in no commit that counts as reviewed | `Review`, `MayBeDirty` `= TRUE` |
| FixPass: `CoveredIsTheAgents`, `SessionsEditsStay` | engine.py `_run_pass`, containment.py `restore` | a session's edit during the pass is committed as the pass's, or put back with the gate's | `MaxEdits = 1` |
| FixPass: `FixedIsCommitted` | review/fix.py `record` | a fix in a file that was dirty before is in no commit and recorded as fixed | `Review`, `MayBeDirty` `= TRUE` |
| FixPass: `ParsedIsRecorded` | engine.py `_retry` | a deferred item whose section the retry's agent dropped is in no outcome | `Review = TRUE` |
| PiStream: `AbortIsCurrent` | stall.py `_abort` | the lock is released before the abort is written: it reaches the next call | - |
| PiStream: `SpinIsLive` | stall.py `arm` | the baseline is sampled after Pi announced the call: its own child counts as older work | - |
| PiStream: `UnwrittenIsAsked` | backend_pi.py `_write_paths` | a write that started and failed counts as the deliverable | - |
| Children: `StopEnds` | children.py `_signal` | a member that ignores TERM holds stderr; the timer skips the reaped leader and the owner waits for the pipe | `Members = {"err"}` |
| Children: `KilledOutright` | children.py `_signal` | a repeated stop between the reaping and the forgetting of a leader leaves its group | - |
| Children: `NoStranger` | children.py `_signal` | the timer looks at the return code and then signals by number | - |
| ProcRun: `ShortIsSaid` | proc.py `_finish_pumps` | the tee is detached before it is asked who is late: a line is dropped without a note | - |
| SessionLock: `EditingIsRecorded` | claude-session-lock `--refresh` | the pid is looked for as text: a longer one that begins with it is taken for it | `Prefix` with a pair |
| SessionLock: `ClaimHolds`, `FileIsWhole` | session_lock.py `acquire`, `_write` | two hooks read, ask and replace at once, under one temporary name | `Overlap = TRUE` |
| SessionLock: `LiveIsKept` | session_lock.py `process_start` | a `ps` that fails is a dead process to the hook that writes next | `PsFails = 1` |
| SessionLock: `CommitIsAlone` | engine.py `run_fix` | the pass asks once, before the agent, and commits much later | - |
| TreeLock: `HoldersAreNamed` | tree_lock.py `_record` | two holders of the shared lock rewrite the file they share | `Overlap = TRUE` |
| TreeLock: `HeldIsValidated` | tree_lock.py `probe` | a probe meets another probe and takes it for a validator | - |
| TreeLock: `NothingEdits` | tree_lock.py `probe` | the guard gives the lock up before the edit it allows | - |
| Relay: `GroupIsGone` | signal_relay.py `run_child` | the leader alone is waited for; what it left runs on without the locks | `Heirs = TRUE` |
| PrCycle: `FixedIsLanded` | attribution.py, fix_state.py, settlement.py | a fix on record that no commit carries is told all the same: a round that commits nothing is saved over a held commit (`cycle_forgets`), a run is killed between its commit and its record, `--settle` says FIXED, or a closeout adopts a reply that says done. `FixedIsCarried` allows for these by name (`adrift`) | 2 rounds, `Crashes = TRUE`, `SettleAs = {"FIXED"}` or `Bodies = {"done"}` |
| PrCycle: `DebtIsRecorded` | closeout.py, comments.py `_replies_pending`, `_replies_delivered` | after a failing push, a failing commit or a refused reply nothing says that a reply is owed | `PushFails`, `CommitFails` or `Refusals` `= TRUE` |
| PrCycle: `SummaryIsCurrent` | fix_state.py `persist` | a round that posts its own summary clears the debt of an earlier one | 2 threads, 2 rounds |
| PrCycle: `SummaryBacked` | deferred_issue.py `filed_this_run` | a thread whose reply a person had written counts as answered | `Bodies = {"hand"}`, 1 word |
| PrCycle: `OneReply` | thread_replies.py `_post_thread_replies` | `--fix --finish --post` answers a thread twice off one report | `Combines`, `PushFails` `= TRUE` |
| PrCycle: `UnderNobody` | thread_replies.py `our_last_reply_id` | our reply is edited under an answer given since the fetch | `Races = TRUE` |
| PrCycle: `ContestedStays` | settlement.py `reconcile_fix_snapshot` | a contest is flipped back to the verdict of the reply it contests | 2 rounds, 1 word |
| PrCycle: `DemandStaysOpen` | closeout.py `post_pending_fix_replies` | the drain resolves threads whose reviewer has written since the decision | 1 word |
| PrCycle: `SettledWasRead` without `overtaken` | settlement.py `adopt_settled_threads` | a closeout adopts an outcome off its report and dates it when it saves: what was written in between counts as read. `SettledWasRead` allows for these by name (`overtaken`) | `Races = TRUE`, 1 word |
| PrCycle: `SettledWasRead` | triage.py `run_triage` | a round's stamp is taken after the fetch: what was written in between counts as read | `Races` and `Gap` `= TRUE` |
| PrSummary: `HandKept` | summary_scope.py `carried_over_rows` | a row a person rewrote is dropped when an older comment has its key | 1 checkout, 3 runs |
| PrSummary: `EveryRowIsReported` | summary_rounds.py `round_scope` | a row that changed between two comments is dropped from the newer one | 3 runs |
| PrSummary: `HandAloneKept` | summary_publish.py `publish` | a failing listing, or an edit saved between listing and PATCH, overwrites a person's row | `ListFails` or `Races` `= TRUE` |
| PrSummary: `RowNeverLost` | summary_publish.py `publish` | two checkouts each write a body without the other's rows | `Races = TRUE` |
| PrSummary: `EditIsLastWord` | summary_publish.py `_answered_since` | an answer after the report or the listing lands above an edit nobody sees | `Races = TRUE` |
| PrSummary: `AskedIsRestated` | summary_rounds.py `round_scope` | a person's correction of the comment makes an older question look answered | 1 edit |
| ReviewRun: `CompletedIsWhole` | collect.py `_delta_head` | a commit between the checkout and the reading of the head: the review states a head its agents did not read, and the next round takes those files for read | `FaultSets = {{"push"}}` |
| ReviewRun: `CompletedIsWhole` | store.py `write_review` | record and sidecar are two writes: a recovery at an older head, killed between them, leaves its record under the newer head | `FaultSets = {{"kill"}}`, 2 kills, 4 runs |
| ReviewRun: `CompletedIsWhole` | state.py `_resolve_recovery` | a recovery of failed groups leaves the gate of before in `done`: killed after the groups, it reads as completed over the old review | `FaultSets = {{"fail", "kill"}}` |
| ReviewRun: `CompletedIsWhole` | state.py `_resolve_recovery` | a second kill, between the unlink of the stale state of a run killed before its gate and the next state: the directory reads as completed | `FaultSets = {{"kill", "unlink"}}`, 2 kills |
| ReviewRun: `CompletedIsWhole` | pipeline.py `run_single_agent` | what the gate says of its own failure is dropped: a review nobody challenged reads as completed | `FaultSets = {{"gate"}}` |
| ReviewRun: `CompletedIsWhole` | phases.py `_touch` | an output of an older head is touched, not emptied: an agent that writes nothing is credited with it | `FailHeads = {1, 2}` |

Other properties the modules state (`CitedWasHeld`, `NothingIsHidden`, `PushedDuringKept`, `NoOwnRefusal`,
`PassHeeds`, `GroupIsGone` of ProcRun, ...) hold under the constants of section 3; they are kept with
the modules and not part of the runs.

## 5. What is proved

All theorems hold for any number of processes, items, requests, drivers and faults.

**BatchRun.** `ApplyOneFaithful`: any request applied to any sound run yields a run of
the right type that keeps what was settled (`Keeps`), leaves the status alone, and shows
the effect of what it granted. Lemmas of the same form cover a tick, an interruption
and the stop of the loop; `KeepsTransitive` chains them.

**BatchSession.** The argument is in layers, each inductive relative to the one below:

1. `TypeInv`: types, and that a process in the middle of a drain has a request in hand and
   a sound run in memory.
2. `PlaceInv`: the lock file, its inodes and the name of the directory. Every handle is the
   one inode there is, and one process at a time holds it. It gives `Exclusive`, which is
   not inductive alone: from a state with two inodes it fails at once.
3. `RecordInv`: whose record is in the lock file, and what is left of it. It gives
   `LiveRecordIsHolder`.
4. `GoneInv`: what a removal has seen and done so far. It gives `GoneHasNoRefs` and
   `LeavesSettled`.
5. `RunInv`: a session's copy of the run keeps what `state.json` has settled, so each save
   keeps it too, and a request about to be retired as applied shows in it. It gives
   `SavedIsKept` and `GrantedIsSaved` (action properties).
6. `InboxInv` and `OnceInv`: what a session has drawn or has in hand is in the inbox, and a decision whose
   command ran once more than it ran in vain has left the inbox, shows in `state.json` or is in somebody's hand:
   nobody runs it again. It gives `RunsOnce`, which says nothing of the request itself.
7. `ReportInv`, and `QueuedIsCarried` with it: a request reported queued lies in a live directory with a run that
   nobody is removing, because it was a drainer's hold that refused its submitter (`DrainerOwes`: the live record
   read there names a holder that still owes the inbox a look). So the carrier that leaves hands over to
   another, takes a hand-off pass, or failed.
8. `SentInv`: a request is in one place, a session and a removal have a run on disk (the removal one that is over),
   nobody who was answered is answered again, and a submitter that lets go of the run normally has looked at its own
   request. It gives `DeliveredHere`.

On them rests `KeepsPromise`, the refinement of `BatchInbox`: one lemma per action of the abstract inbox says when
a step of the session is that action, and each action of the session is shown to be one of them or to change
nothing of it. A save is `Proceed` because of `RunInv`, a retire is `Apply` because the copy it was applied to is what is on disk,
an unlink is `Refuse`, and the removal is `Forget` because of what `GoneInv` and `SentInv` say of it.

All but the types rest on `LockKept`: a removal that fails leaves `run.lock` in place.
It is stated as a hypothesis of the theorems and not as an assumption of the model;
section 4 says what happens without it.

**BatchMachine.** `TypesHold`, and `OneStepWhenStarvedHolds` from `FloorInv`: a driver
counts at least the steps it has; on a starved host it has a step, or is about to start
one, only while it holds the floor, and it is granted one only when it counts none.
The property alone is not inductive: it says nothing of the driver about to start.
`NoBargingHolds` is from `QueueInv`: while d has to let e go first, d is out of the queue or behind e in it, has
e's entry still to read or has read that e waits, and is not at the last look before a step; a driver that has
been granted one in this pass is out of the queue after it. The hypothesis `SlowAt \subseteq {"tick"}` says that no pass
is held up between its reading of the peers and its admission, where what it read goes stale (section 4).

**BatchSteps.** `TypesHold`, and on top of it two layers:

1. `RecordInv`: in the loop the items with a RUNNING record are exactly those with a
   tracked process; an item given away is over in memory and on disk and has no such
   record, so that not even an interrupt revives it; from the commit to the
   next drain what is over, and what runs, is on disk. It gives `GivenAwayIsSaved` and
   `StepsAreRecorded`. Neither is inductive: the first says nothing of the memory the next
   save writes, the second nothing of the ticks in between.
2. `Covered`: a tracked step that is up, of an item the driver took, has the locks of its markers
   held by the driver and, once it works, the rest by itself. It gives `StepsAreCovered`;
   giving back is the step where both layers meet (a tracked item is not given, so its
   target is not among those done).

The assumptions are that items of one worktree have one target, that a worktree's lock is never a
target's, and that names differ (`LockAssumption`, `NameAssumption`).

**Checkout locks** (`LockProofs`, of the parts of `CheckoutLocks`). In each the step of a part is
shown to keep the part's invariant, and the steps of the others to leave its variables alone.

* `RecordsAreTrue`, from `RunInv`: a scope a process counts is one whose flock it has or came with, and no
  record names a process that has not begun; without the latter a stale record comes true of the wrong
  process. No hypothesis.
* `ClaimsAlwaysHold`, from `SessionInv`: one hook is between its reading and its replacement, and what
  it read is what is on disk; a pid is given out again only after its session left. `HooksBehave` is the
  hypothesis: hooks take turns and `ps` answers. The code sees to neither (section 4).
* `DeclaredIsAlwaysHeeded` and `OnlyStaleLinesGo`, from `TreeInv`: the kernel's grants agree, and a
  validator a guard found declared is running or over. No hypothesis.
* `RefsAreAlwaysOwned`, from `ClaimInv`: how a plan's claim, its refs, its run and each sweep's reading
  agree, stage by stage. `FaultsApart` is the hypothesis: no git that outlives its planner, no Ctrl-C after the
  first commit, and where a `pr gc` may die no run dies and no ref stays while its run drops it: the
  three causes of section 4.

**Processes and signals** (`StopProofs`, of the parts of `ProcessStops`). But for the last, no hypothesis
beyond the modules' assumptions on their constants.

* `SuiteIsAlwaysCovered`, from `RelayInv`: the outer wrapper is up while the inner one is, that one while the
  suite runs, and neither heeds a signal itself.
* `ShownIsAlwaysKept`, from `CommandInv`: a line is kept before it is shown, and from the detach on no pump
  begins to show one.
* `NoneIsEverLeft`, from `StopInv`: a child that is not forgotten is in the registry, is quiet, or is about
  to be recorded by an owner that the exit still joins.
* `CutIsAlwaysSaid`, from `AgentInv`: the agent's one run is in one place (asked for, under way, executing,
  over), and whoever aborts it has left the reason where the loop looks before it handles the end.
* `WholeIsAlwaysRead`, from `ReviewInv`. `Sound` says what the files on disk promise: where the state is gone,
  or clean with a synthesis, the record is as new as the head beside it, and a completed one was challenged. It
  holds whenever no run is about to mend the files, and at every step as long as a run may still be killed
  (`SoundInv`). The rest is why: every group's last change exists at every head (`AllChanged`); heads,
  checkout and state agree (`HeadInv`, `PriorInv`); a group is done in the state only with an output as new as the
  head (`WordInv`); which phases are on record at which stage (`StateInv`, `RecordInv`); and that the
  runs before the first kill leave nothing a killed recovery could pass off as complete (`MortalInv`).
  `ReviewBounds` is the hypothesis: agents fail at the first head, or one run is killed, and the
  budget runs out at will; there is a group. Each fault beyond that is refuted in section 4.

**Branches** (`BranchProofs`, of the parts of `BranchWork`).

* `GatesAreAlwaysPassed`, from `LandInv`: HEAD only moves on, what is in transfer has passed the hooks or is on top of
  what has, and a retry sends, of what it looked at, only what its first attempt sent. No hypothesis: the operator commits at any step,
  hooks end without a verdict. The property names what gets past: a tip whose hooks nobody heard of, and
  the commits made between a retry's look at HEAD and its git (section 4).
* `NothingIsEverLost` and `OwnPushIsAlwaysKnown` share two layers: `PatchesTell` (commits with one patch
  have one origin, so a patch found again is the work found again) and `Branches`; every step is shown to
  add commits and change none (`Grown`). On them rest `LossInv` (a planned push takes nothing off its lease that
  it does not bring or that was not asked for) and `OwnInv` (the lease is where the batch left the
  remote, or the next step puts it there). `~Meddles`: the operator leaves the branch alone while a publish
  runs; `OwnPushIsKnown` is refuted without it (section 4). Colleagues, crashes and failures are free.
* `HandWorkIsAlwaysKept`, an action property, from `ReplayInv`: a run that goes on after a person resolved a stop is a
  resume, which waives the budget and pauses. No hypothesis.
* `OneSidedIsAlwaysHeld`, an action property, adds `OnlyPushed` (what a colleague made is on no branch before it is
  pushed) and `SidedInv` (a one-sided region is in the run's tally or in the record the next run reads it
  from). It needs `~RebaseKills`, `~AbortsFail` and `~Empties`, the ways in which section 4 sees the tally lost.
* `WorkIsAlwaysKept`, from `StashInv`: what a conflicted pop is about to drop is in the tree already. For one
  worktree; with two it is refuted.

**Pull requests** (`PrProofs`, of the parts of `PrWork`).

* `OthersWorkAlwaysStays`, from `OthersInv`: a file that was dirty before the pass keeps what was in it, in the
  tree and in what a phase is put back to, and is in no set the pass commits or stashes from. No hypothesis.
* `CoveredIsAlwaysTheAgents`, from `ReviewInv`: the commits hold the agents' writes alone, and while the gate or
  the suite runs there is a snapshot without theirs. `FixEdits = 0` and `MaxUnread = 0`: no session edits the tree
  meanwhile (refuted otherwise, section 4), and git tells the pass what changed.
* `HandAloneIsAlwaysKept`, an action property, from `SummaryInv`: the comments a run is about to rewrite are those on
  GitHub. `~RunsRace` and `~ListFails`.
* `OneReplyAlways`, from `CycleTypes` and `SingleInv`: of a thread a run has still to answer, its report knows who
  spoke last, so that a second reply of ours is an edit. `~Races` and `~Combines`: nobody writes while
  a run goes on, and no run answers twice off one report.
* `FixedIsAlwaysCarried`, an action property, from `CycleTypes` and `LandedInv`: where a fix on record is: at origin, under
  the recorded commit, after a failed commit in the tree or in what the operator committed since, or adrift; and a
  round that landed and has not saved yet speaks for its own threads, of its own commit (`RoundHolds`, `RoundIsOfItsCommit`). No
  hypothesis: any number of rounds and closeouts, idle agents, kills, failing pushes and commits, refusals by GitHub, people
  who write at any time. `FixedIsLanded`, which has no `adrift`, is what `cycle_forgets` refutes.
* `SettledIsAlwaysRead`, from `HeardInv`: what a round has decided and not saved is stamped (`HeardRun`), and an outcome in
  a closeout's hands that it has not stamped is the record's (`WasRead`). No hypothesis: threads are handed over, deferred,
  settled by command and answered by hand, through any number of rounds, and people write at any time after the fetch (`Races` is TRUE
  in this part and `Gap` is FALSE). What a closeout adopts off an overtaken report is the one exception.

Most hypotheses are the switches of the runs' instances: each part is proved for any sets and any bounds under the
switches its instance sets, and what a fault does that is switched off is in section 4.

**Only model-checked.** Every safety property a run checks is stated by a theorem, the two that expect a violation
aside. The liveness properties are only model-checked: they, and what else needs ENABLED, are beyond the prover.

## 6. What is not modelled

* BatchSession: `create()` (the run exists from the start), a failure of the
  best-effort release stamp, the fold of a legacy cancel file, how a malformed request is
  detected, the content of a publish (BatchPublish has it).
* BatchClaims: what the refs are read for, checkouts that vanish or are named by a relative path, a saved run
  that cannot be read.
* BatchMachine: memory and load (`decide`'s arithmetic and the estimates), `PerRun`
  where `flock` is unsupported, Ctrl-C in a pass. The open and the flock of a probe and
  the read of the entry are one step. A killed driver's orphaned steps are dropped with it,
  since nothing in the registry counts them.
* BatchSteps: a request is applied, saved and unlinked in one step (BatchSession has the
  rest); the order and retries of an item's steps, the fetch slot of a repository, items
  without an `origin`. `StepsAreCovered` speaks of items the hold was taken for.
* GitLand: the lease of a force push (Rebase has it), submodules, refs other than one branch.
  BatchPublish: several requests on one item at once, the wording of refusals. PushIntent: worktrees that vanished.
* Rebase: how a conflict is resolved (it is, to one side or not, by hand or not, or is given up),
  fetches that fail, the audit's text. FixPass: CI and pre-push domains, renames, prompts.
* PrCycle and PrSummary: CI failures, the description of the pull request, the GitHub issue for deferred work, what a reply says, paging.
* RunLock: hosts without flock, unwritable lock directories. TreeLock, SessionLock: directories that are no
  repository, an operator's override. Children, ProcRun, Relay: pids reused within a few
  bytecodes. PiStream: budget and steering texts.
* ReviewRun: what a review says and how its findings are posted or fixed; the uncommitted files of a
  self-review, a focus or a grouping that changed between rounds; how an agent is retried.
* Components with status `not_modelled` in `PROJECT.json`, each with its reason: they
  transform text, render, install or parse, and nobody else acts on their state meanwhile.

## 7. Plan

1. PrSummary's and PrCycle's further properties, PushIntent's `LandedIsSilent`.
2. Job grants and the shared backoff of the quota; further faults of ReviewRun.
