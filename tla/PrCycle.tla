------------------------------ MODULE PrCycle ------------------------------
(***************************************************************************)
(* One pull request between its reviewers, the operator and                *)
(* `pr comments`: the --fix round (fix/comments.py), the --finish closeout *)
(* (review/closeout.py), --settle and --reply. A run works on the report   *)
(* it fetched when it began; GitHub and the state file move on beside it.  *)
(*                                                                         *)
(* A reply is known by the outcome it names; a reply and the resolve that  *)
(* goes with it are one step. Commits are numbered, and the remote holds a *)
(* prefix of them.                                                         *)
(***************************************************************************)
EXTENDS Naturals, FiniteSets

CONSTANTS
  Threads,
  MaxRounds, MaxWords, MaxCommits,
  Verdicts,       \* what triage may say of a thread
  Claims,         \* what the agent may say of one it was handed
  SettleAs,       \* what the operator records with --settle
  Bodies,         \* what a person's own reply says: a verdict ("done") or anything else
  Combines,       \* `--fix --finish` in one process
  Races,          \* people write while a run goes on
  Gap,            \* also between its fetch and its decision stamp
  Refusals,       \* GitHub may refuse a write
  PushFails, CommitFails,
  Idle,           \* the agent may claim a fix and change nothing
  Crashes

\* What the constants may be: whoever instantiates this module assumes it.
CycleAssumption ==
  /\ {MaxRounds, MaxWords, MaxCommits} \subseteq Nat
  /\ {Combines, Races, Gap, Refusals, PushFails, CommitFails, Idle, Crashes} \subseteq BOOLEAN
  /\ Verdicts \subseteq {"fixable", "ALREADY_ADDRESSED", "DISMISSED", "NEEDS_HUMAN"}
  /\ Claims \subseteq {"FIXED", "DECLINED", "DEFERRED", "NEEDS_HUMAN"}
  /\ SettleAs \subseteq {"FIXED", "DISMISSED", "ALREADY_ADDRESSED"} /\ Bodies \subseteq {"hand", "done"}

VARIABLES
  gh,             \* the review threads on GitHub
  rows,           \* the summary comment: the outcome it gives each thread
  rec,            \* state.json's fix domain
  made, remote,   \* the branch's commits, and how many of them origin has
  tree,           \* fixes in the worktree that no commit carries
  work,           \* history: the commit that carries each thread's fix
  pc, post, held, \* the running command, its --post, and its publishing hold
  phases, report, mem, plan, todo, filed,
  published,      \* the round's summary went out
  word,           \* when in this run a reviewer last wrote, per thread
  ours,           \* the threads written on for us since the run's decision stamp
  stamped,        \* the threads whose decision this run stamps
  rounds, words,
  unread,         \* history: the newest word was in no report a decision read
  overtaken,      \* history: closed out off a report that is older than that word
  adrift          \* history: a fix went on record that no commit of the record carries

github == <<gh, rows>>
branch == <<made, remote, tree, work>>
run == <<post, held, phases, report, mem, plan, todo, filed, published, word, ours, stamped>>
counts == <<rounds, words>>
history == <<unread, overtaken, adrift>>
vars == <<gh, rows, rec, made, remote, tree, work, pc, post, held, phases, report, mem, plan,
          todo, filed, published, word, ours, stamped, rounds, words, unread, overtaken, adrift>>

SETTLE_OUTCOMES == {"FIXED", "DISMISSED", "ALREADY_ADDRESSED"}
NEEDS_A_PERSON == {"NEEDS_HUMAN", "DECLINED"}
UNSETTLED_OUTCOMES == {"DEFERRED", "NEEDS_HUMAN", "DECLINED"}
RecordedFixed(r) == {t \in Threads : r.out[t] = "FIXED"}
NotAtOrigin(ts) == {t \in ts : work[t] \notin 1..remote}
Unpushed(status) == status \in {"PUSH_FAILED", "PUSH_HELD"}
Enabled == post /\ ~held

NewRecord == [out |-> [t \in Threads |-> "none"], sha |-> 0, status |-> "none", head |-> 0,
              pending |-> FALSE, owed |-> FALSE]
With(outcomes) == {t \in Threads : mem.out[t] \in outcomes}

NewThreads == [t \in Threads |-> [mine |-> "none", last |-> "them", resolved |-> FALSE,
                                  stacked |-> FALSE, spoken |-> TRUE, backed |-> FALSE]]

Init ==
  /\ gh = NewThreads
  /\ rows = [t \in Threads |-> "none"] /\ rec = NewRecord
  /\ made = 0 /\ remote = 0 /\ tree = {} /\ work = [t \in Threads |-> 0]
  /\ pc = "off" /\ post = FALSE /\ held = FALSE /\ phases = {} /\ report = NewThreads /\ mem = NewRecord
  /\ plan = [t \in Threads |-> "out"] /\ todo = {} /\ filed = {} /\ published = FALSE
  /\ word = [t \in Threads |-> "no"] /\ ours = {} /\ stamped = {}
  /\ rounds = 0 /\ words = [t \in Threads |-> 0]
  /\ unread = {} /\ overtaken = {} /\ adrift = {}

\* A run that ends leaves nothing in memory.
Forgets ==
  /\ pc' = "off" /\ post' = FALSE /\ held' = FALSE /\ phases' = {} /\ report' = NewThreads
  /\ mem' = NewRecord /\ plan' = [t \in Threads |-> "out"] /\ todo' = {} /\ filed' = {}
  /\ published' = FALSE /\ word' = [t \in Threads |-> "no"] /\ ours' = {} /\ stamped' = {}
-----------------------------------------------------------------------------
(* Writes to GitHub. *)

Refused == IF Refusals THEN BOOLEAN ELSE {FALSE}
HandWritten(thread) == thread.mine \in {"hand", "done"}

\* upsert_thread_reply: our reply is edited while it is the last comment of the report.
EditsAnswered(seen) == seen.mine # "none"      \* Mutant: whoever spoke after it.
EditsNever(seen) == FALSE                      \* Mutant: every reply is a new comment.
Edits(seen) == seen.last = "us"
Upserted(thread, seen, kind) ==
  IF Edits(seen) THEN [thread EXCEPT !.mine = kind, !.backed = TRUE]
  ELSE [thread EXCEPT !.mine = kind, !.last = "us", !.backed = TRUE,
                      !.stacked = @ \/ thread.last = "us"]

MayReplyAlways(seen) == Enabled                \* Mutant: a hand-written reply is a template.
MayReply(seen) == Enabled /\ ~HandWritten(seen)

\* A reply, refused or not, and for the closing kinds the resolve, refused or not.
Answered(t, kind, closes) ==
  \E noReply, noResolve \in Refused :
    /\ LET replied == MayReply(report[t]) /\ ~noReply
           closed == closes /\ Enabled /\ ~report[t].resolved /\ ~noResolve
           thread == IF replied THEN Upserted(gh[t], report[t], kind) ELSE gh[t]
       IN  /\ gh' = [gh EXCEPT ![t] = [thread EXCEPT !.resolved = @ \/ closed]]
           /\ report' = [report EXCEPT ![t].resolved = @ \/ closed]
           /\ ours' = IF replied THEN ours \cup {t} ELSE ours
    /\ todo' = todo \ {t}

Closing == {"FIXED", "ALREADY_ADDRESSED"}
Deliver(at, kindOf, closing) ==
  /\ pc = at
  /\ \E t \in todo : Answered(t, kindOf[t], kindOf[t] \in closing)
  /\ UNCHANGED <<rows, rec, branch, pc, post, held, phases, mem, plan, filed, published, word, stamped, counts, history>>
-----------------------------------------------------------------------------
(* A run begins: the PR is read, and the threads acknowledged are resolved. *)

Verified == {t \in Threads : gh[t].mine # "none" /\ gh[t].last = "ack" /\ ~gh[t].resolved}

Begin(p, ps) ==
  /\ pc = "off" /\ post' = p /\ phases' = ps
  /\ \E closed \in {{}, IF p THEN Verified ELSE {}} :
       /\ Refusals \/ ~p \/ closed = Verified
       /\ gh' = [t \in Threads |-> [gh[t] EXCEPT !.resolved = @ \/ t \in closed]]
  /\ report' = gh'
  /\ UNCHANGED <<rows, rec, branch, held, mem, plan, todo, filed, published, word, ours, stamped, words, history>>

FixCommand(p, ps) ==
  /\ Begin(p, ps) /\ rounds < MaxRounds /\ rounds' = rounds + 1 /\ pc' = "triage"

FinishCommand(p) == Begin(p, {"finish"}) /\ pc' = "push" /\ UNCHANGED rounds
-----------------------------------------------------------------------------
(* The fix round. *)

Settled(r) == {t \in Threads : r.out[t] \in SETTLE_OUTCOMES /\ ~report[t].spoken}
Open == {t \in Threads : ~report[t].resolved /\ report[t].last # "us"} \ Settled(rec)

HoldsNever(outcomes) == held                   \* Mutant: nothing waits for a discussion.
Holds(outcomes) == held \/ outcomes \cap NEEDS_A_PERSON # {}

\* Triage with its own gate: contested threads, questions and verdicts the verify gate
\* falsified are all handed to a person, and the hold is placed before any reply.
Triage ==
  /\ pc = "triage"
  /\ \E v \in [Open -> Verdicts] :
       /\ plan' = [t \in Threads |-> IF t \in Open THEN v[t] ELSE "out"]
       /\ held' = Holds({v[t] : t \in Open})
       /\ todo' = {t \in Open : v[t] \in {"ALREADY_ADDRESSED", "DISMISSED"}}
  /\ stamped' = Open
  /\ pc' = "triage_replies"
  /\ UNCHANGED <<github, rec, branch, post, phases, report, mem, filed, published, word, ours, counts, history>>

\* The model did not answer: nothing is recorded.
TriageFails ==
  /\ pc = "triage" /\ Forgets
  /\ UNCHANGED <<github, rec, branch, counts, history>>

PostTriageReplies == Deliver("triage_replies", plan, Closing)

\* merge_into keeps the outcomes of the threads a round leaves alone, and replaces the rest.
RoundOfBare(outcomes, sha, status) ==          \* Mutant: the status without its commit.
  [NewRecord EXCEPT !.out = outcomes, !.status = status]
RoundOf(outcomes, sha, status) ==
  [NewRecord EXCEPT !.out = outcomes, !.sha = sha, !.status = status]

Committed(outcomes, fixed, status) ==
  /\ made < MaxCommits /\ made' = made + 1
  /\ remote' = IF status = "PUSHED" THEN made + 1 ELSE remote
  /\ work' = [t \in Threads |-> IF t \in fixed \cup tree THEN made + 1 ELSE work[t]] /\ tree' = {}
  /\ mem' = RoundOf(outcomes, made + 1, status)

Land(outcomes, fixed) ==
  \/ /\ fixed = {} \/ Idle
     /\ mem' = RoundOf(outcomes, 0, "NO_CHANGES") /\ UNCHANGED branch
  \/ /\ fixed # {} /\ CommitFails
     /\ mem' = RoundOf(outcomes, 0, "COMMIT_FAILED") /\ tree' = tree \cup fixed
     /\ work' = [t \in Threads |-> IF t \in fixed THEN 0 ELSE work[t]] /\ UNCHANGED <<made, remote>>
  \/ /\ fixed # {}
     /\ \/ post /\ ~held' /\ Committed(outcomes, fixed, "PUSHED")
        \/ post /\ ~held' /\ PushFails /\ Committed(outcomes, fixed, "PUSH_FAILED")
        \/ ~(post /\ ~held') /\ Committed(outcomes, fixed, "PUSH_HELD")

SettlesPushed(status) == TRUE                  \* Mutant: before the commit is on the remote.
Settles(status) == status = "PUSHED"

Agent ==
  /\ pc = "triage_replies" /\ todo = {}
  /\ LET given == {t \in Threads : plan[t] = "fixable"}
     IN  \E r \in [given -> Claims] :
           LET outcomes == [t \in Threads |-> IF t \in given THEN r[t]
                                              ELSE IF plan[t] = "out" THEN "none" ELSE plan[t]]
               fixed == {t \in given : r[t] = "FIXED"}
           IN  /\ held' = Holds({r[t] : t \in given})
               /\ Land(outcomes, fixed)
               /\ todo' = IF Settles(mem'.status) THEN fixed ELSE {}
  /\ pc' = "settle_fixed"
  /\ UNCHANGED <<github, rec, post, phases, report, plan, filed, published, word, ours, stamped, counts, history>>

SettleFixed == Deliver("settle_fixed", [t \in Threads |-> "FIXED"], Closing)

InRound == {t \in Threads : mem.out[t] # "none"}
Unaccounted == {t \in Threads : ~report[t].resolved} \ (InRound \cup Settled(rec))
StillOwed == InRound # {} \/ Unaccounted # {} \/ Unpushed(mem.status)

MayPostSummary == ~Unpushed(mem.status) /\ With(UNSETTLED_OUTCOMES) = {}

\* post_or_defer_summary: a row for each thread of the round, the others carried over.
RoundSummary ==
  /\ pc = "settle_fixed" /\ todo = {}
  /\ \E refused \in Refused :
       LET posted == Enabled /\ MayPostSummary /\ InRound # {} /\ ~refused
       IN  /\ rows' = [t \in Threads |-> IF posted /\ t \in InRound THEN mem.out[t] ELSE rows[t]]
           /\ mem' = [mem EXCEPT !.owed = StillOwed /\ ~posted, !.head = made]
           /\ published' = posted
  /\ pc' = "persist"
  /\ UNCHANGED <<gh, rec, branch, post, held, phases, report, plan, todo, filed, word, ours, stamped, counts, history>>

\* The debt of the round, or of an earlier one, and what discharges it.
PendingNow == ~Enabled /\ With(SETTLE_OUTCOMES) # {}
Delivered == Enabled /\ (With({"FIXED"}) # {} => mem.status = "PUSHED")

Merged(prior, posted) ==
  [out |-> [t \in Threads |-> IF mem.out[t] = "none" THEN prior.out[t] ELSE mem.out[t]],
   sha |-> mem.sha, status |-> mem.status, head |-> mem.head,
   pending |-> ~Delivered /\ (PendingNow \/ prior.pending),
   owed |-> ~posted /\ (mem.owed \/ prior.owed)]

\* The comments a decision is dated against: what came after its stamp.
DatedAtWrite(thread, t) ==                     \* Mutant: stamped by the write, not the read.
  IF t \in stamped THEN [thread EXCEPT !.spoken = FALSE, !.backed = (t \in ours)] ELSE thread
Dated(thread, t) ==
  IF t \in stamped THEN [thread EXCEPT !.spoken = (word[t] = "read"), !.backed = (t \in ours)]
  ELSE thread
DatedAll(threads) == [t \in Threads |-> Dated(threads[t], t)]
UnreadNow == {t \in Threads : IF t \in stamped THEN word[t] # "no" ELSE t \in unread}

\* A round that commits nothing puts its answer in the place of the record's commit.
Persist ==
  /\ pc = "persist" /\ rec' = Merged(rec, published)
  /\ gh' = DatedAll(gh) /\ unread' = UnreadNow /\ overtaken' = overtaken \ stamped
  /\ adrift' = (adrift \ InRound) \cup (IF mem.status = "NO_CHANGES" THEN NotAtOrigin(RecordedFixed(rec')) ELSE {})
  /\ IF "finish" \notin phases THEN Forgets
     ELSE \* The report it goes on with has no comment later than the stamp.
       /\ pc' = "push" /\ stamped' = {} /\ ours' = {}
       /\ report' = [t \in Threads |-> IF t \in stamped THEN [report[t] EXCEPT !.spoken = FALSE, !.backed = FALSE]
                                       ELSE report[t]]
       /\ UNCHANGED <<post, held, phases, mem, plan, todo, filed, published, word>>
  /\ UNCHANGED <<rows, branch, counts>>
-----------------------------------------------------------------------------
(* The closeout. *)

\* landing_of: the commit of the record, or HEAD where it has none.
LandedMoved(r) == r.sha = 0 => r.status # "COMMIT_FAILED"            \* Mutant: a SHA is a landing.
Landed(r) ==
  IF r.sha # 0 THEN r.sha <= remote
  ELSE IF made # r.head THEN made = remote
  ELSE r.status # "COMMIT_FAILED"

PushHeldCommit ==
  /\ pc = "push" /\ pc' = "drain_start"
  /\ \E status \in {rec.status, "PUSHED", "PUSH_FAILED"} :
       /\ IF rec.sha = 0 \/ ~Unpushed(rec.status) THEN status = rec.status /\ UNCHANGED remote
          ELSE IF rec.sha <= remote THEN status = "PUSHED" /\ UNCHANGED remote
          ELSE IF ~Enabled THEN status = rec.status /\ UNCHANGED remote
          ELSE \/ status = "PUSHED" /\ remote' = made
               \/ PushFails /\ status = "PUSH_FAILED" /\ UNCHANGED remote
       /\ mem' = [rec EXCEPT !.status = status]
  /\ UNCHANGED <<github, rec, made, tree, work, post, held, phases, report, plan, todo, filed, published, word,
                 ours, stamped, counts, history>>

OwesReplies == Unpushed(mem.status) \/ mem.pending

DrainStart ==
  /\ pc = "drain_start"
  /\ todo' = IF ~OwesReplies THEN {}
             ELSE With({"ALREADY_ADDRESSED", "DISMISSED"}) \cup (IF Landed(mem) THEN With({"FIXED"}) ELSE {})
  /\ pc' = IF OwesReplies THEN "drain" ELSE "reconcile"
  /\ UNCHANGED <<github, rec, branch, post, held, phases, report, mem, plan, filed, published, word, ours, stamped,
                 counts, history>>

PostPendingFixReplies == Deliver("drain", mem.out, Closing)

DrainedDraft == With({"FIXED"}) # {} => Landed(mem)   \* Mutant: a draft empties the queue.
Drained == Enabled /\ (With({"FIXED"}) # {} => Landed(mem))

DrainEnd ==
  /\ pc = "drain" /\ todo = {} /\ pc' = "reconcile"
  /\ mem' = [mem EXCEPT !.status = IF Enabled /\ Landed(mem) /\ Unpushed(@) THEN "PUSHED" ELSE @,
                        !.pending = @ /\ ~Drained]
  /\ UNCHANGED <<github, rec, branch, post, held, phases, report, plan, todo, filed, published, word, ours, stamped,
                 counts, history>>

\* settlement_for: the verdict of our newest reply, else that the thread reads as settled.
SettlementFor(seen) ==
  IF seen.mine \in SETTLE_OUTCOMES THEN seen.mine
  ELSE IF seen.mine = "done" THEN "FIXED"
  ELSE IF seen.resolved \/ seen.last = "us" THEN "SETTLED_ELSEWHERE"
  ELSE "none"

Flipped == {t \in With(UNSETTLED_OUTCOMES) : SettlementFor(report[t]) # "none"}
Adopted == {t \in With({"none"}) : ~report[t].resolved /\ report[t].last = "us"}

OwedAsBefore(changed) == mem.owed              \* Mutant: a flip owes no new summary.
OwedAfter(changed) == mem.owed \/ changed # {}

Reconcile ==
  /\ pc = "reconcile" /\ pc' = "track"
  /\ LET changed == Flipped \cup Adopted
     IN  /\ mem' = [mem EXCEPT !.out = [t \in Threads |-> IF t \in changed THEN SettlementFor(report[t])
                                                          ELSE @[t]],
                               !.owed = OwedAfter(changed)]
         /\ stamped' = changed /\ ours' = ours \ changed
         /\ word' = [t \in Threads |-> IF t \in changed /\ word[t] # "no" THEN "fetched" ELSE word[t]]
  /\ UNCHANGED <<github, rec, branch, post, held, phases, report, plan, todo, filed, published, counts, history>>

\* A --track that names no such thread.
TrackRefused ==
  /\ pc = "track" /\ pc' = "save"
  /\ UNCHANGED <<github, rec, branch, run, counts, history>>

\* finalize_deferred: once the issue is filed its threads are told of it.
Track ==
  /\ pc = "track" /\ pc' = "file"
  /\ \E named \in SUBSET With({"DEFERRED", "NEEDS_HUMAN"}) :
       LET tracked == IF Enabled THEN named ELSE {}
       IN  todo' = tracked /\ filed' = tracked
  /\ UNCHANGED <<github, rec, branch, post, held, phases, report, mem, plan, published, word, ours, stamped, counts, history>>

PostDeferredReplies == Deliver("file", mem.out, {})

UnansweredNone == {}                           \* Mutant: the summary asks for no answer.
Unanswered ==
  {t \in With(NEEDS_A_PERSON) \ filed : SettlementFor(report[t]) = "none" /\ ~report[t].backed}

FinishSummary ==
  /\ pc = "file" /\ todo = {} /\ pc' = "save"
  /\ LET held_ == Unpushed(mem.status) /\ mem.sha # 0
         renders == mem.owed /\ Unanswered = {} /\ (held_ => Landed(mem)) /\ Enabled
     IN  \E refused \in Refused :
           LET posted == renders /\ ~refused
           IN  /\ rows' = [t \in Threads |-> IF posted /\ mem.out[t] # "none" THEN mem.out[t] ELSE rows[t]]
               /\ mem' = [mem EXCEPT !.status = IF held_ /\ renders THEN "PUSHED" ELSE @,
                                     !.owed = @ /\ ~posted]
  /\ UNCHANGED <<gh, rec, branch, post, held, phases, report, plan, todo, filed, published, word, ours, stamped, counts, history>>

\* What reconcile found answered was answered in the report of the run's beginning.
FinishSave ==
  /\ pc = "save" /\ rec' = mem /\ Forgets
  /\ gh' = DatedAll(gh) /\ unread' = UnreadNow
  /\ overtaken' = (overtaken \ stamped) \cup {t \in stamped : word[t] = "fetched"}
  /\ adrift' = adrift \cup NotAtOrigin(stamped \cap RecordedFixed(mem))
  /\ UNCHANGED <<rows, branch, counts>>
-----------------------------------------------------------------------------
(* The operator's own commands, and people. *)

RearmedHalf(r) == [r EXCEPT !.owed = TRUE]     \* Mutant: re-arms one and skips the other.
Rearm(r) == [r EXCEPT !.pending = TRUE, !.owed = TRUE]

Settle(t, kind) ==
  /\ pc = "off" /\ rec.out[t] \notin {"none", kind}
  /\ rec' = Rearm([rec EXCEPT !.out[t] = kind])
  /\ gh' = [gh EXCEPT ![t].spoken = FALSE, ![t].backed = FALSE] /\ unread' = unread \ {t} /\ overtaken' = overtaken \ {t}
  /\ adrift' = IF kind = "FIXED" THEN adrift \cup NotAtOrigin({t}) ELSE adrift
  /\ UNCHANGED <<rows, branch, pc, run, counts>>

\* --reply --post, or the same typed on GitHub.
Reply(t, body) ==
  /\ pc = "off" \/ Races
  /\ ~(gh[t].last = "us" /\ gh[t].mine = body)
  /\ gh' = [gh EXCEPT ![t] = Upserted(@, @, body)]
  /\ ours' = IF pc = "off" THEN ours ELSE ours \cup {t}
  /\ UNCHANGED <<rows, rec, branch, pc, post, held, phases, report, mem, plan, todo, filed, published, word, stamped,
                 counts, history>>

Speak(t, how, reopens) ==
  /\ pc = "off" \/ (Races /\ (Gap \/ pc # "triage"))
  /\ words[t] < MaxWords /\ words' = [words EXCEPT ![t] = @ + 1]
  /\ gh' = [gh EXCEPT ![t].last = how, ![t].spoken = TRUE, ![t].stacked = FALSE,
                      ![t].resolved = @ /\ ~reopens]
  /\ word' = [word EXCEPT ![t] = IF pc = "off" THEN @ ELSE IF pc = "triage" THEN "fetched" ELSE "read"]
  /\ unread' = unread \cup {t}
  /\ UNCHANGED <<rows, rec, branch, pc, post, held, phases, report, mem, plan, todo, filed, published, ours, stamped, rounds,
                 overtaken, adrift>>

HandResolve(t) ==
  /\ pc = "off" \/ Races
  /\ ~gh[t].resolved /\ gh' = [gh EXCEPT ![t].resolved = TRUE]
  /\ UNCHANGED <<rows, rec, branch, pc, run, counts, history>>

OperatorCommits ==
  /\ pc = "off" /\ tree # {} /\ made < MaxCommits
  /\ made' = made + 1 /\ tree' = {}
  /\ work' = [t \in Threads |-> IF t \in tree THEN made + 1 ELSE work[t]]
  /\ UNCHANGED <<github, rec, remote, pc, run, counts, history>>

OperatorPushes ==
  /\ pc = "off" /\ remote # made /\ remote' = made
  /\ UNCHANGED <<github, rec, made, tree, work, pc, run, counts, history>>

\* Dead between its commit and its record, a round leaves the record it found.
Crash ==
  /\ Crashes /\ pc # "off" /\ Forgets
  /\ adrift' = IF pc \in {"settle_fixed", "persist"}
               THEN adrift \cup NotAtOrigin(RecordedFixed(rec) \cap RecordedFixed(mem)) ELSE adrift
  /\ UNCHANGED <<github, rec, branch, counts, unread, overtaken>>

RunStep ==
  \/ Triage \/ TriageFails \/ PostTriageReplies \/ Agent \/ SettleFixed \/ RoundSummary \/ Persist
  \/ PushHeldCommit \/ DrainStart \/ PostPendingFixReplies \/ DrainEnd \/ Reconcile
  \/ TrackRefused \/ Track \/ PostDeferredReplies \/ FinishSummary \/ FinishSave

Next ==
  \/ \E p \in BOOLEAN : FixCommand(p, {"fix"}) \/ FinishCommand(p)
  \/ (Combines /\ \E p \in BOOLEAN : FixCommand(p, {"fix", "finish"}))
  \/ RunStep
  \/ \E t \in Threads, kind \in SettleAs : Settle(t, kind)
  \/ \E t \in Threads, body \in Bodies : Reply(t, body)
  \/ \E t \in Threads, how \in {"them", "ack"}, reopens \in BOOLEAN : Speak(t, how, reopens)
  \/ \E t \in Threads : HandResolve(t)
  \/ OperatorCommits \/ OperatorPushes \/ Crash

Spec == Init /\ [][Next]_vars
\* A run that was begun ends, and the operator closes out with --post again and again.
FairSpec == Spec /\ WF_vars(RunStep) /\ SF_vars(FinishCommand(TRUE))
-----------------------------------------------------------------------------
Kinds == SETTLE_OUTCOMES \cup UNSETTLED_OUTCOMES
Records == [out : [Threads -> Kinds \cup {"none", "SETTLED_ELSEWHERE"}], sha : 0..MaxCommits,
            status : {"none", "NO_CHANGES", "COMMIT_FAILED", "PUSH_HELD", "PUSH_FAILED", "PUSHED"},
            head : 0..MaxCommits, pending : BOOLEAN, owed : BOOLEAN]
ThreadsOnGitHub ==
  [Threads -> [mine : Kinds \cup {"none", "hand", "done"}, last : {"them", "ack", "us"},
               resolved : BOOLEAN, stacked : BOOLEAN, spoken : BOOLEAN, backed : BOOLEAN]]

TypeOK ==
  /\ {gh, report} \subseteq ThreadsOnGitHub /\ {rec, mem} \subseteq Records
  /\ \A t \in Threads : gh[t].last = "us" => gh[t].mine # "none"
  /\ remote <= made /\ made <= MaxCommits /\ \A t \in tree : work[t] = 0
  /\ Unpushed(rec.status) \/ rec.status = "PUSHED" => rec.sha # 0
  /\ todo \subseteq Threads /\ (pc = "persist" => todo = {})

\* has_hand_written_reply: a reply somebody typed is never replaced by a template, for the
\* life of the pull request.
HandKept == [][\A t \in Threads : HandWritten(gh[t]) => HandWritten(gh'[t])]_vars

\* our_last_reply_id: no reply of ours changes under one that answers it.
UnderNobody ==
  [][\A t \in Threads : gh'[t].mine # gh[t].mine /\ gh[t].last # "us" => gh'[t].last = "us"]_vars

\* One reply per thread: two of ours never stand together.
OneReply == \A t \in Threads : ~gh[t].stacked

\* settle_fixed, post_pending_fix_replies: a reviewer is told of a fix only once origin
\* has the commit that carries it.
TellsFixed(t) ==
  /\ t \in todo /\ gh'[t] # gh[t]
  /\ pc = "settle_fixed" \/ (pc = "drain" /\ mem.out[t] = "FIXED")
FixedIsLanded == [][\A t \in Threads : TellsFixed(t) => work[t] \in 1..remote]_vars

\* The same, but for a fix no commit of the record carries: a round that committed nothing
\* was saved over it, a run died between its commit and its record, or somebody said so
\* without a commit (--settle, a verdict in a reply).
TellsCarried == \A t \in Threads : TellsFixed(t) => work[t] \in 1..remote \/ t \in adrift

HandedBack == {plan[t] : t \in Threads} \cup {mem.out[t] : t \in Threads}
Shown(t) == <<gh[t].mine, gh[t].resolved, rows[t]>>

\* publishing.hold: a round that hands a thread to a person publishes nothing more.
RoundGoesOn == pc \in {"triage_replies", "settle_fixed"}
RoundWaits ==
  [][RoundGoesOn /\ (HandedBack \cup {mem'.out[t] : t \in Threads}) \cap NEEDS_A_PERSON # {}
     => remote' = remote /\ \A t \in Threads : UNCHANGED Shown(t)]_vars

\* _replies_pending: between the runs, a settled thread that was not told so is on record
\* as owed, or waits for its push.
DebtIsRecorded ==
  pc = "off" => \A t \in Threads :
    rec.out[t] \in SETTLE_OUTCOMES /\ gh[t].mine # rec.out[t] /\ ~HandWritten(gh[t])
      => rec.pending \/ Unpushed(rec.status)

\* summary_posted: a record that owes no summary is the one the summary shows.
SummaryIsCurrent ==
  pc = "off" /\ ~rec.owed => \A t \in Threads : rec.out[t] # "none" => rows[t] = rec.out[t]

\* unanswered_handbacks: the summary says a thread is with a person only where something
\* of ours on the thread says so too.
SummaryBacked ==
  [][\A t \in Threads : rows'[t] # rows[t] /\ rows'[t] \in NEEDS_A_PERSON
       => gh[t].backed \/ SettlementFor(gh[t]) # "none"]_vars

\* settled_ids: what the record settles has no word of a reviewer after the report the
\* decision was read from.
\* But for a closeout that takes a reply for the outcome: it dates it when it saves, and
\* what a reviewer wrote since its report was fetched counts as read.
SettledWasRead ==
  pc = "off" => \A t \in Threads :
    rec.out[t] \in SETTLE_OUTCOMES /\ ~gh[t].spoken => t \notin unread \ overtaken

\* reconcile_fix_snapshot: a thread handed to a person is not settled again by the closeout
\* while the reviewer who contested it has the last word.
ContestedStays ==
  [][\A t \in Threads : pc = "reconcile" /\ mem.out[t] \in NEEDS_A_PERSON
       /\ mem'.out[t] \in SETTLE_OUTCOMES => report[t].last # "them"]_vars

\* A resolve of ours closes no thread whose reviewer wrote after the decision.
DemandStaysOpen ==
  [][\A t \in Threads : pc = "drain" /\ ~gh[t].resolved /\ gh'[t].resolved
       => ~(report[t].spoken /\ report[t].last = "them")]_vars

Told(t) == rec.out[t] \notin SETTLE_OUTCOMES \/ HandWritten(gh[t]) \/ gh[t].mine = rec.out[t]

\* Whatever is settled is told to its reviewer in the end.
EverybodyIsTold == \A t \in Threads : []<>Told(t)
=============================================================================
