------------------------------- MODULE MCEnds -------------------------------
(*****************************************************************************)
(* What must eventually happen: a request in an inbox is retired            *)
(* (BatchSession), a killed run gets rid of its steps (BatchSteps), a       *)
(* publish ends (BatchPublish), a lost push is reported (PushIntent),       *)
(* every reviewer is answered (PrCycle).  They share no state; part says    *)
(* which of them moves, and each is under the fairness its own module       *)
(* states.                                                                  *)
(*****************************************************************************)
EXTENDS TLC

CONSTANTS NoRun, None

OnItem == [d \in {"first", "second"} |-> "item"]
OneRelease == "s1" :> [kind |-> "release", item |-> "item", kill |-> TRUE]
Waiting ==
  [status |-> "waiting", cancel |-> "none", stepping |-> {}, items |-> ("item" :> "open"),
   decisions |-> ("first" :> "open") @@ ("second" :> "absent")]

Pair(first, second) == ("a" :> first) @@ ("b" :> second)
Targets == Pair("target1", "target2")
Trees == Pair("tree1", "tree2")
FirstA == Pair(1, 2)
Stacked == Pair(None, "a")
NoNeeds == [c \in {} |-> {}]
KillRequests == {[kind |-> "release", item |-> "a", kill |-> TRUE], [kind |-> "cancel", kill |-> TRUE]}

VARIABLES
  part,   \* the component that moves
  \* BatchSession
  dir, lockfile, inodes, record, sessionDisk, refs, sessionInbox, rejected, sessionPc,
  handle, passing, stage, leaving, tries, waits, sessionMem, peeked, current, okay,
  outcome, sessionCrashes, errors, granted, lapsed, ran, redone,
  \* BatchSteps
  stepsPc, stepsMem, stepsDisk, stepsInbox, left, live, fresh, kept, given, lock, step,
  stepsCrashes, interrupts,
  \* BatchPublish
  commits, local, publishRemote, item, saved, request, publishPc, closed, mover, asked,
  lost, strayed, colleague, operator, publishCrashes, publishFailures,
  \* PushIntent
  file, intentRemote, trunk, squashed, merged, above, intentPc, copy, ref, fate, answers,
  reports, silent, merges, intentFailures,
  \* PrCycle
  gh, rows, rec, made, cycleRemote, tree, work, cyclePc, post, held, phases, report,
  cycleMem, plan, todo, filed, published, word, ours, stamped, rounds, words, unread, overtaken, adrift

sessionVars == <<dir, lockfile, inodes, record, sessionDisk, refs, sessionInbox,
  rejected, sessionPc, handle, passing, stage, leaving, tries, waits, sessionMem, peeked,
  current, okay, outcome, sessionCrashes, errors, granted, lapsed, ran, redone>>
stepsVars == <<stepsPc, stepsMem, stepsDisk, stepsInbox, left, live, fresh, kept, given,
  lock, step, stepsCrashes, interrupts>>
publishVars == <<commits, local, publishRemote, item, saved, request, publishPc, closed,
  mover, asked, lost, strayed, colleague, operator, publishCrashes, publishFailures>>
intentVars == <<file, intentRemote, trunk, squashed, merged, above, intentPc, copy, ref,
  fate, answers, reports, silent, merges, intentFailures>>
cycleVars == <<gh, rows, rec, made, cycleRemote, tree, work, cyclePc, post, held, phases,
  report, cycleMem, plan, todo, filed, published, word, ours, stamped, rounds, words,
  unread, overtaken, adrift>>
vars == <<part, sessionVars, stepsVars, publishVars, intentVars, cycleVars>>

Session == INSTANCE BatchSession WITH
  Drivers <- {"d1"}, Submitters <- {"s1"},
  Collectors <- {"g1"}, Requests <- {"s1"}, Items <- {"item"},
  Decisions <- {"first", "second"}, Actions <- {"publish", "drop"}, ItemOf <- OnItem,
  Ask <- OneRelease, InitialRuns <- {Waiting}, Survivors <- {{"lock", "state"}},
  Nobody <- "nobody", MaxTries <- 1, MaxWaits <- 1, MaxCrashes <- 0, MaxErrors <- 0,
  disk <- sessionDisk, inbox <- sessionInbox, pc <- sessionPc, mem <- sessionMem,
  crashes <- sessionCrashes
Steps == INSTANCE BatchSteps WITH
  Items <- {"a", "b"}, Steps <- {"p1", "p2"},
  Commands <- {}, Locks <- {"target1", "tree1", "target2", "tree2"},
  TargetOf <- Targets, TreeOf <- Trees, Rank <- FirstA, Base <- Stacked,
  Needs <- NoNeeds, Requests <- KillRequests, Driver <- "driver", MaxCrashes <- 0,
  MaxInterrupts <- 0, pc <- stepsPc, mem <- stepsMem, disk <- stepsDisk,
  inbox <- stepsInbox, crashes <- stepsCrashes
Publish == INSTANCE BatchPublish WITH
  MaxColleague <- 1, MaxOperator <- 0,
  MaxCrashes <- 1, MaxFailures <- 1, MaxCommits <- 6, Meddles <- FALSE, Unsure <- FALSE,
  remote <- publishRemote, pc <- publishPc, crashes <- publishCrashes,
  failures <- publishFailures
Intent == INSTANCE PushIntent WITH
  Pushes <- {"p1", "p2"}, Refs <- {"topic", "other"},
  Commands <- {"c1"}, MaxAttempts <- 2, MaxRecords <- 2, MaxMerges <- 1,
  MaxFailures <- 2, Overlap <- FALSE, InFlight <- FALSE, remote <- intentRemote,
  pc <- intentPc, failures <- intentFailures
Cycle == INSTANCE PrCycle WITH
  Threads <- {"t1"}, MaxRounds <- 1, MaxWords <- 1,
  MaxCommits <- 2,
  Verdicts <- {"fixable", "ALREADY_ADDRESSED", "DISMISSED", "NEEDS_HUMAN"},
  Claims <- {"FIXED", "DEFERRED", "NEEDS_HUMAN"}, SettleAs <- {"DISMISSED"},
  Bodies <- {"hand"}, Combines <- FALSE, Races <- FALSE, Gap <- FALSE,
  Refusals <- FALSE, PushFails <- FALSE, CommitFails <- FALSE, Idle <- FALSE,
  Crashes <- FALSE, remote <- cycleRemote, pc <- cyclePc, mem <- cycleMem

ASSUME ConstantsAssumption ==
  /\ Session!ProcAssumption
  /\ Session!RunAssumption
  /\ Session!BoundAssumption
  /\ Steps!LockAssumption
  /\ Steps!ItemAssumption
  /\ Steps!NameAssumption
  /\ Steps!BoundAssumption
  /\ Publish!BoundAssumption
  /\ Intent!BoundAssumption
  /\ Cycle!CycleAssumption

(* The components that do not move start in one of their initial states.   *)
Init ==
  /\ part \in {"session", "steps", "publish", "intent", "cycle"}
  /\ Session!Init
  /\ Steps!Init
  /\ Publish!Init
  /\ Intent!Init
  /\ Cycle!Init

\* No operator meddles with the branch that is being published.
PublishSteps == Publish!Driver \/ Publish!Perseveres \/ Publish!Crash \/ Publish!ColleaguePushes

Next ==
  \/ part = "session" /\ Session!Next /\ UNCHANGED <<part, stepsVars, publishVars, intentVars, cycleVars>>
  \/ part = "steps" /\ Steps!Next /\ UNCHANGED <<part, sessionVars, publishVars, intentVars, cycleVars>>
  \/ part = "publish" /\ PublishSteps /\ UNCHANGED <<part, sessionVars, stepsVars, intentVars, cycleVars>>
  \/ part = "intent" /\ Intent!Next /\ UNCHANGED <<part, sessionVars, stepsVars, publishVars, cycleVars>>
  \/ part = "cycle" /\ Cycle!Next /\ UNCHANGED <<part, sessionVars, stepsVars, publishVars, intentVars>>

Spec == Init /\ [][Next]_vars

(* What each module assumes of its own steps, of the part that moves.       *)
FairSpec ==
  /\ Spec
  /\ \A p \in {"d1", "s1", "g1"} : WF_sessionVars(part = "session" /\ Session!Step(p))
  /\ WF_stepsVars(part = "steps" /\ Steps!DriverStep)
  /\ \A p \in {"p1", "p2"} : WF_stepsVars(part = "steps" /\ Steps!GraceOver(p))
  /\ \A p \in {"p1", "p2"} : WF_stepsVars(part = "steps" /\ Steps!KilledExit(p))
  /\ WF_publishVars(part = "publish" /\ Publish!Driver)
  /\ WF_publishVars(part = "publish" /\ Publish!Perseveres)
  /\ \A p \in {"p1", "p2"} : WF_intentVars(part = "intent" /\ (Intent!HookSaves(p) \/ Intent!PushEnds(p)))
  /\ \A c \in {"c1"} : WF_intentVars(part = "intent" /\ Intent!Command(c))
  /\ WF_cycleVars(part = "cycle" /\ Cycle!RunStep)
  /\ SF_cycleVars(part = "cycle" /\ Cycle!FinishCommand(TRUE))
-----------------------------------------------------------------------------
\* batch/store.py, `deliver`: a request said to be queued is retired, or the
\* holder that was to retire it failed.
QueuedIsRetired == Session!QueuedIsRetired

\* batch/steps.py: a run cancelled with --kill is rid of its steps.
KilledRunEnds == Steps!KilledRunEnds

\* batch/resolve.py: an operator who goes on answering gets the item
\* published, or is told to reconcile by hand.
PublishEnds == part = "publish" => Publish!PublishEnds

\* push_intent.py: a push that was lost is reported, unless its branch was
\* merged or pushed again.
LostIsTold == Intent!LostIsTold

\* review/closeout.py: under closeouts again and again, every reviewer ends
\* up answered.
EverybodyIsTold == part = "cycle" => Cycle!EverybodyIsTold
=============================================================================
