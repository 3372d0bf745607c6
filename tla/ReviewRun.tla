----------------------------- MODULE ReviewRun -----------------------------
(***************************************************************************)
(* The rounds of review of one branch, and what a run leaves to the next   *)
(* (review/run.py, completion.py, orchestrate.py, pipeline.py, steps.py,   *)
(* phases.py, state.py, gc.py). A run may be killed at any step, its       *)
(* agents may write nothing or something unreadable, its budget may run    *)
(* out, and the author commits meanwhile. The next one recovers the run    *)
(* that stopped, starts afresh, or carries the findings of the last round  *)
(* over the files nobody touched.                                          *)
(*                                                                         *)
(* A version of a group's files is the commit that last changed them, and  *)
(* stands for all that an agent can find there. 0 is nothing.              *)
(***************************************************************************)
EXTENDS Naturals, Sequences, FiniteSets

CONSTANTS
  Groups,
  MaxHead, MaxRuns, MaxKills,
  FaultSets,      \* which of the faults happen together
  FailHeads       \* the heads at which an agent may fail

AllFaults == {"kill", "fail", "budget", "push", "unlink", "gate"}

\* What the constants may be: whoever instantiates this module assumes it.
ReviewAssumption ==
  /\ {MaxHead, MaxRuns, MaxKills} \subseteq Nat /\ IsFiniteSet(Groups)
  /\ FailHeads \subseteq Nat /\ FaultSets \subseteq SUBSET AllFaults

VARIABLES
  commits,        \* the groups each commit of the branch changed
  state,          \* pipeline.json
  outputs,        \* the version each group's output is about
  rejected,       \* the outputs no reader accepts
  spent,          \* the session logs left behind exceed the budget
  record,         \* review.json: the version read of each group, and whether it was challenged
  meta,           \* meta.json: the head, and how the run that wrote it ended
  page,           \* review.md is there
  prior,          \* prior.json, prior-meta.json and prior.md
  run, runs, kills, faults

vars == <<commits, state, outputs, rejected, spent, record, meta, page, prior, run, runs,
  kills, faults>>
disk == <<state, outputs, rejected, spent, record, meta, page, prior>>

Nothing == [g \in Groups |-> 0]
Absent == [head |-> 0, done |-> {}, failed |-> {}, groupsDone |-> {}, groupsFailed |-> {}]
NoRecord == [there |-> FALSE, reads |-> Nothing, judged |-> FALSE]
NoPrior == [there |-> FALSE, page |-> FALSE, reads |-> Nothing, head |-> 0]
Off == [at |-> "off", head |-> 0, tree |-> 0, asks |-> FALSE, base |-> NoPrior, st |-> Absent,
        g |-> [i \in Groups |-> "todo"], atGate |-> FALSE, over |-> FALSE, bad |-> FALSE,
        doc |-> NoRecord, status |-> "", next |-> "off"]

Tip == Len(commits)
\* The commit up to `head` that last changed the group.
Version(head, g) ==
  IF head = 0 THEN 0
  ELSE CHOOSE k \in 1..head : g \in commits[k] /\ \A j \in (k + 1)..head : g \notin commits[j]

Init ==
  /\ commits = <<Groups>> /\ state = Absent /\ outputs = Nothing /\ rejected = {}
  /\ spent = FALSE /\ record = NoRecord /\ meta = [head |-> 0, status |-> ""]
  /\ page = FALSE /\ prior = NoPrior
  /\ run = Off /\ runs = 0 /\ kills = 0 /\ faults \in FaultSets

At(step) == run.at = step
Go(step) == run' = [run EXCEPT !.at = step]
Fails == "fail" \in faults /\ run.head \in FailHeads
-----------------------------------------------------------------------------
(* state.py: what a state file says of the review beside it. *)

Finished(s) == "disprove" \in s.done

Clean(s) == s.groupsFailed = {} /\ s.failed = {}

\* A directory with no state file reads as completed.
Status(s) == IF s = Absent \/ (Clean(s) /\ Finished(s)) THEN "completed" ELSE "partial"

GroupDone(s, g) ==
  [s EXCEPT !.groupsDone = @ \cup {g}, !.groupsFailed = @ \ {g}]
GroupFailed(s, g) == [s EXCEPT !.groupsFailed = @ \cup {g}]
PhaseDone(s, phase, failed) ==
  [s EXCEPT !.done = @ \cup {phase}, !.failed = IF failed THEN @ \cup {phase} ELSE @]

\* Mutant: the state of another head is taken over.
StaleNever(s, head) == FALSE

Stale(s, head) == s.head # head

\* A failed group runs again; a failed phase is no longer done.
Retried(s) == [s EXCEPT !.groupsFailed = {}, !.done = @ \ s.failed, !.failed = {}]
-----------------------------------------------------------------------------
(* run.py, completion.py: what a run starts from. *)

\* The tree is checked out here; the head the review states is read later.
Start(recover) ==
  /\ At("off") /\ runs < MaxRuns
  /\ recover => state # Absent /\ Status(state) # "completed"
  /\ LET pin == IF recover THEN state.head ELSE 0 IN
     run' = [Off EXCEPT
       !.at = IF state = Absent THEN "archive" ELSE "collect",
       !.head = pin, !.tree = IF recover THEN pin ELSE Tip,
       !.asks = IF state = Absent THEN page ELSE prior.page]
  /\ runs' = runs + 1
  /\ UNCHANGED <<commits, disk, kills, faults>>

\* archive_review: the page moves to the archives, a copy stays as prior.md.
Archive ==
  /\ At("archive") /\ page' = FALSE /\ prior' = [prior EXCEPT !.page = @ \/ page]
  /\ Go("archive record")
  /\ UNCHANGED <<commits, state, outputs, rejected, spent, record, meta, runs, kills, faults>>

\* archive_prior: the record moves, the sidecar is copied. No record, no prior.
ArchiveRecord ==
  /\ At("archive record")
  /\ prior' = IF record.there
              THEN [prior EXCEPT !.there = TRUE, !.reads = record.reads, !.head = meta.head]
              ELSE [NoPrior EXCEPT !.page = prior.page]
  /\ record' = NoRecord /\ Go("collect")
  /\ UNCHANGED <<commits, state, outputs, rejected, spent, meta, page, runs, kills, faults>>

\* orchestrate.py, fetch_metadata: the head the review is going to state.
Collect ==
  /\ At("collect")
  /\ run' = [run EXCEPT !.at = "choose", !.head = IF @ = 0 THEN Tip ELSE @,
                        !.base = IF run.asks THEN prior ELSE NoPrior]
  /\ UNCHANGED <<commits, disk, runs, kills, faults>>

\* The round before is built on, unless it already is about this head.
Incremental == run.base.there /\ run.base.head \notin {0, run.head}

Delta == UNION {commits[k] : k \in (run.base.head + 1)..run.tree}

Carried == IF Incremental THEN Groups \ Delta ELSE {}
-----------------------------------------------------------------------------
(* The paths without a pipeline state. *)

Publish(doc, status, next) ==
  run' = [run EXCEPT !.at = "publish", !.doc = doc, !.status = status, !.next = next]

\* write_unchanged_review: the author did nothing, the findings stand.
NoOp ==
  /\ At("choose") /\ Incremental /\ Delta = {}
  /\ Publish([there |-> TRUE, reads |-> run.base.reads, judged |-> TRUE], "", "sweep")
  /\ UNCHANGED <<commits, disk, runs, kills, faults>>

ReadNow(g) == IF g \in Carried THEN run.base.reads[g] ELSE Version(run.tree, g)

\* run_single_agent: one agent reads it all, and its findings are challenged
\* before anything is written. That this failed is not recorded ("gate").
SingleAgent ==
  /\ At("choose")
  /\ \E judged \in {TRUE, "gate" \notin faults} :
       Publish([there |-> TRUE, reads |-> [g \in Groups |-> ReadNow(g)], judged |-> judged], "", "sweep")
  /\ UNCHANGED <<commits, disk, runs, kills, faults>>

SingleFails ==
  /\ At("choose") /\ Fails /\ run' = Off
  /\ UNCHANGED <<commits, disk, runs, kills, faults>>
-----------------------------------------------------------------------------
(* _resolve_recovery: what a pipeline takes over from the one before. *)

Choose ==
  /\ At("choose") /\ Go("plan")
  /\ UNCHANGED <<commits, disk, runs, kills, faults>>

Plan(s, reuse, atGate, over) ==
  run' = [run EXCEPT !.at = "scan", !.st = s, !.atGate = atGate, !.over = over,
            !.g = [g \in Groups |-> IF g \in reuse THEN "reuse"
                                    ELSE IF g \in Carried THEN "carried" ELSE "todo"]]

Fresh == [Absent EXCEPT !.head = run.head]

Begin ==
  /\ At("plan") /\ state = Absent
  /\ state' = Fresh /\ Plan(Fresh, {}, FALSE, FALSE)
  /\ UNCHANGED <<commits, outputs, rejected, spent, record, meta, page, prior, runs, kills, faults>>

\* The stale state is unlinked and, after nothing else, another written in its
\* place: one step, unless "unlink" lets a reader or a kill in between.
Restart ==
  /\ At("plan") /\ state # Absent /\ Stale(state, run.head)
  /\ IF "unlink" \in faults THEN state' = Absent /\ UNCHANGED run
     ELSE state' = Fresh /\ Plan(Fresh, {}, FALSE, FALSE)
  /\ UNCHANGED <<commits, outputs, rejected, spent, record, meta, page, prior, runs, kills, faults>>

AlreadyComplete ==
  /\ At("plan") /\ state # Absent /\ ~Stale(state, run.head)
  /\ "synthesis" \in state.done /\ Clean(state) /\ Finished(state)
  /\ Go("sweep")
  /\ UNCHANGED <<commits, disk, runs, kills, faults>>

\* Only the gate is left to run. The budget may have been raised since.
ResumeAtGate ==
  /\ At("plan") /\ state # Absent /\ ~Stale(state, run.head)
  /\ "synthesis" \in state.done /\ Clean(state) /\ ~Finished(state)
  /\ \E over \in {FALSE, spent} : Plan(state, state.groupsDone, TRUE, over)
  /\ UNCHANGED <<commits, disk, runs, kills, faults>>

Recover ==
  /\ At("plan") /\ state # Absent /\ ~Stale(state, run.head)
  /\ "synthesis" \in state.done /\ ~Clean(state)
  /\ \E over \in {FALSE, spent} : Plan(Retried(state), state.groupsDone, FALSE, over)
  /\ UNCHANGED <<commits, disk, runs, kills, faults>>

Resume ==
  /\ At("plan") /\ state # Absent /\ ~Stale(state, run.head) /\ "synthesis" \notin state.done
  /\ \E over \in {FALSE, spent} : Plan(state, state.groupsDone, FALSE, over)
  /\ UNCHANGED <<commits, disk, runs, kills, faults>>

\* Phase 1, which a run that has scanned does not repeat.
Scan ==
  /\ At("scan")
  /\ LET s == PhaseDone(run.st, "scan", FALSE)
         step == IF run.over THEN "unrun" ELSE "groups"
     IN IF "scan" \in run.st.done THEN Go(step) /\ UNCHANGED state
        ELSE state' = s /\ run' = [run EXCEPT !.at = step, !.st = s]
  /\ UNCHANGED <<commits, outputs, rejected, spent, record, meta, page, prior, runs, kills, faults>>
-----------------------------------------------------------------------------
(* phases.py: the groups, in any order or at once. *)

Is(g, words) == run.g[g] \in words
Mark(g, word) == run' = [run EXCEPT !.g[g] = word]

\* The output is touched, not emptied, before the agent starts.
Agent(g) ==
  /\ At("groups") /\ Is(g, {"todo", "again"})
  /\ \/ outputs' = [outputs EXCEPT ![g] = Version(run.tree, g)] /\ rejected' = rejected \ {g}
     \/ Fails /\ UNCHANGED <<outputs, rejected>>
     \/ Fails /\ outputs' = [outputs EXCEPT ![g] = Version(run.tree, g)] /\ rejected' = rejected \cup {g}
  /\ spent' \in {spent, spent \/ "budget" \in faults}
  /\ Mark(g, IF Is(g, {"todo"}) THEN "ran" ELSE "reran")
  /\ UNCHANGED <<commits, state, record, meta, page, prior, runs, kills, faults>>

HasOutput(g) == outputs[g] # 0 /\ g \notin rejected

Settle(g) ==
  /\ At("groups") /\ Is(g, {"ran", "reran"})
  /\ LET s == IF HasOutput(g) THEN GroupDone(run.st, g) ELSE GroupFailed(run.st, g)
         word == IF HasOutput(g) THEN "ok" ELSE IF Is(g, {"ran"}) THEN "failed" ELSE "lost"
     IN state' = s /\ run' = [run EXCEPT !.st = s, !.g[g] = word]
  /\ UNCHANGED <<commits, outputs, rejected, spent, record, meta, page, prior, runs, kills, faults>>

\* A fault the groups share (no such model) stops those that have not begun.
Abort(g) ==
  /\ At("groups") /\ Is(g, {"todo"}) /\ \E h \in Groups : Is(h, {"failed"})
  /\ Mark(g, "skipped")
  /\ UNCHANGED <<commits, disk, runs, kills, faults>>

Busy == \E g \in Groups : Is(g, {"todo", "ran", "again", "reran"})

\* Once: a failure that may be retried. When nothing fails any more, the groups
\* that were skipped run after all.
Unhindered(g) == Is(g, {"skipped"}) /\ \A h \in Groups : ~Is(h, {"failed", "lost"})

Retry(g) ==
  /\ At("groups") /\ ~Busy /\ (Is(g, {"failed"}) \/ Unhindered(g))
  /\ Mark(g, "again")
  /\ UNCHANGED <<commits, disk, runs, kills, faults>>

GroupsEnd ==
  /\ At("groups") /\ ~Busy /\ \A g \in Groups : ~Unhindered(g)
  /\ \E over \in {run.over, spent} : run' = [run EXCEPT !.at = "synthesis", !.over = over]
  /\ UNCHANGED <<commits, disk, runs, kills, faults>>

\* No agent was run: each group is a failure, none is recorded as one.
Unrun ==
  /\ At("unrun")
  /\ run' = [run EXCEPT !.at = "synthesis",
                        !.g = [g \in Groups |-> IF Is(g, {"carried"}) THEN "left" ELSE "unread"]]
  /\ UNCHANGED <<commits, disk, runs, kills, faults>>

Failed ==
  {g \in Groups : Is(g, {"failed", "lost", "skipped", "left", "unread"}) \/ (Is(g, {"reuse"}) /\ outputs[g] = 0)}
-----------------------------------------------------------------------------
(* steps.py: the merge, the synthesis and the gate. *)

Merged ==
  [g \in Groups |-> IF Is(g, {"carried", "left"}) THEN run.base.reads[g]
                    ELSE IF HasOutput(g) /\ ~Is(g, {"unread"}) THEN outputs[g] ELSE 0]

Unchallenged == [there |-> TRUE, reads |-> Merged, judged |-> FALSE]

ReviewStands ==
  /\ At("synthesis") /\ run.atGate /\ record.there
  /\ Go("gate")
  /\ UNCHANGED <<commits, disk, runs, kills, faults>>

\* The state is written first: the header of the fallback reads it back.
AllFailed ==
  /\ At("synthesis") /\ ~(run.atGate /\ record.there) /\ Failed = Groups
  /\ LET s == PhaseDone(run.st, "synthesis", TRUE) IN
     /\ state' = s
     /\ run' = [run EXCEPT !.at = "publish", !.st = s, !.doc = Unchallenged, !.status = Status(s),
                           !.next = "gate"]
  /\ UNCHANGED <<commits, outputs, rejected, spent, record, meta, page, prior, runs, kills, faults>>

\* An agent's review, the merge because nothing more was asked for, or the merge
\* for want of a budget or an agent.
Synthesis ==
  /\ At("synthesis") /\ ~(run.atGate /\ record.there) /\ Failed # Groups
  /\ \E bad \in {FALSE, TRUE} :
       /\ bad => run.over \/ Fails
       /\ run' = [run EXCEPT !.at = "publish", !.doc = Unchallenged, !.bad = bad,
                    !.status = IF bad /\ ~run.over THEN Status(state) ELSE "",
                    !.next = "synthesised"]
  /\ UNCHANGED <<commits, disk, runs, kills, faults>>

\* write_review: the record, then the sidecar and the page.
WriteRecord ==
  /\ At("publish") /\ record' = run.doc /\ Go("publish meta")
  /\ UNCHANGED <<commits, state, outputs, rejected, spent, meta, page, prior, runs, kills, faults>>

WriteMeta ==
  /\ At("publish meta")
  /\ meta' = [head |-> run.head, status |-> run.status] /\ page' = TRUE /\ Go(run.next)
  /\ UNCHANGED <<commits, state, outputs, rejected, spent, record, prior, runs, kills, faults>>

\* A clean review is not stamped before the gate.
Synthesised ==
  /\ At("synthesised")
  /\ LET s == PhaseDone(run.st, "synthesis", run.bad) IN
     \E step \in {"stamp"} \cup IF run.bad \/ Failed # {} THEN {} ELSE {"gate"} :
       state' = s /\ run' = [run EXCEPT !.at = step, !.st = s, !.next = "gate"]
  /\ UNCHANGED <<commits, outputs, rejected, spent, record, meta, page, prior, runs, kills, faults>>

\* _inject_failures_and_status: the sidecar says what the state says.
Stamp ==
  /\ At("stamp") /\ meta' = [meta EXCEPT !.status = Status(state)] /\ Go(run.next)
  /\ UNCHANGED <<commits, state, outputs, rejected, spent, record, page, prior, runs, kills, faults>>

\* The findings are challenged, or there is nothing new to challenge: a round
\* that found nothing is not held up by the budget.
Gate ==
  /\ At("gate") /\ (run.over => "synthesis" \notin run.st.failed)
  /\ record' = [record EXCEPT !.judged = TRUE] /\ run' = [run EXCEPT !.at = "judged", !.bad = FALSE]
  /\ UNCHANGED <<commits, state, outputs, rejected, spent, meta, page, prior, runs, kills, faults>>

GateFails ==
  /\ At("gate") /\ (run.over \/ Fails)
  /\ run' = [run EXCEPT !.at = "judged", !.bad = TRUE]
  /\ UNCHANGED <<commits, disk, runs, kills, faults>>

Judged ==
  /\ At("judged")
  /\ LET s == PhaseDone(run.st, "disprove", run.bad) IN
     state' = s /\ run' = [run EXCEPT !.at = "stamp", !.st = s, !.next = "sweep"]
  /\ UNCHANGED <<commits, outputs, rejected, spent, record, meta, page, prior, runs, kills, faults>>
-----------------------------------------------------------------------------
(* gc.py, completion.py: what is left of a run that went well. *)

Sweeps(s) == Status(s) = "completed"

Sweep ==
  /\ At("sweep")
  /\ IF Sweeps(state)
     THEN outputs' = Nothing /\ rejected' = {} /\ spent' = FALSE /\ Go("sweep state")
     ELSE Go("finish") /\ UNCHANGED <<outputs, rejected, spent>>
  /\ UNCHANGED <<commits, state, record, meta, page, prior, runs, kills, faults>>

SweepState ==
  /\ At("sweep state") /\ state' = Absent /\ Go("finish")
  /\ UNCHANGED <<commits, outputs, rejected, spent, record, meta, page, prior, runs, kills, faults>>

Finish ==
  /\ At("finish") /\ run' = Off
  /\ prior' = IF run.asks /\ state = Absent THEN NoPrior ELSE prior
  /\ UNCHANGED <<commits, state, outputs, rejected, spent, record, meta, page, runs, kills, faults>>

Kill ==
  /\ "kill" \in faults /\ kills < MaxKills /\ ~At("off")
  /\ run' = Off /\ kills' = kills + 1
  /\ UNCHANGED <<commits, disk, runs, faults>>

\* A commit changes some groups, or none: a merge of the base. That it lands
\* between the checkout and the reading of the head is a fault of its own.
Commit ==
  /\ Tip < MaxHead
  /\ (run.at \in {"archive", "archive record", "collect"} /\ run.head = 0) => "push" \in faults
  /\ \E changed \in SUBSET Groups : commits' = Append(commits, changed)
  /\ UNCHANGED <<disk, run, runs, kills, faults>>
-----------------------------------------------------------------------------
Next ==
  \/ \E recover \in BOOLEAN : Start(recover)
  \/ Archive \/ ArchiveRecord \/ Collect
  \/ NoOp \/ SingleAgent \/ SingleFails
  \/ Choose \/ Restart \/ Begin \/ AlreadyComplete \/ ResumeAtGate \/ Recover \/ Resume
  \/ Scan \/ Unrun \/ GroupsEnd
  \/ \E g \in Groups : Agent(g) \/ Settle(g) \/ Abort(g) \/ Retry(g)
  \/ ReviewStands \/ AllFailed \/ Synthesis
  \/ WriteRecord \/ WriteMeta \/ Synthesised \/ Stamp
  \/ Gate \/ GateFails \/ Judged
  \/ Sweep \/ SweepState \/ Finish
  \/ Kill \/ Commit

Spec == Init /\ [][Next]_vars
-----------------------------------------------------------------------------
\* What a reader of the directory takes for a finished review once no run is at
\* work: its state says so or is gone, and then its header does not say otherwise.
ReadsAsCompleted ==
  /\ At("off") /\ page /\ record.there /\ Status(state) = "completed"
  /\ state = Absent => meta.status # "partial"

\* state.py, `status`: a review that reads as completed has read every group as it
\* was at the head it states, in this round or an earlier one, and was challenged.
CompletedIsWhole ==
  ReadsAsCompleted =>
    record.judged /\ \A g \in Groups : record.reads[g] >= Version(meta.head, g)
=============================================================================
