------------------------------- MODULE PrWork -------------------------------
(*****************************************************************************)
(* What happens to a pull request: a fix pass works in its checkout, over   *)
(* its comments or the findings of a review (FixPass), its threads are      *)
(* triaged, fixed, answered and closed out in rounds, alone or while people  *)
(* write (PrCycle), and every round publishes a summary (PrSummary).  They   *)
(* share no state but the variables of a pass and of a cycle, which one of   *)
(* the two moves; part says which.                                           *)
(*****************************************************************************)

CONSTANTS
  \* FixPass, twice
  Files, FixItems, Work, ChunkSize, Gated, CommentsAnchor, CommentsDirty, ReviewAnchor,
  ReviewDirty, FixEdits, MaxUnread, Unread,
  \* PrCycle, alone
  Threads, MaxRounds, CycleWords, CycleCommits, Verdicts, CycleClaims, SettleAs, Bodies,
  Combines, Races, Gap, Refusals, PushFails, CommitFails, AgentIdles, Crashes,
  \* PrCycle, while people write
  HeardThreads, HeardRounds, HeardWords, HeardCommits, HeardVerdicts, HeardClaims,
  HeardSettles, HeardBodies, HeardFaults,
  \* PrSummary
  SummaryRows, SummaryReplies, Covers, Checkouts, Outcomes, Texts, Limit, MaxRuns,
  SummaryWords, SummaryEdits, MaxRecorded, RunsRace, ListFails, WritesRefused

VARIABLES
  part,   \* the component that moves
  \* FixPass
  commentsTree, head, session, commentsPost, commentsPc, before, commentsTodo, batch,
  batchBefore, retrying, again, answer, scope, verified, snap, changed, suite,
  commentsHeld, landed, commentsRecorded, leftovers, asked, moved, parsed, checked,
  blind, commentsEdits, commentsUnread,
  \* PrCycle
  gh, rows, rec, made, remote, cycleTree, work, cyclePc, cyclePost, cycleHeld, phases,
  report, mem, plan, cycleTodo, filed, published, word, ours, stamped, rounds,
  cycleSpoken, cycleUnread, overtaken, adrift,
  \* PrSummary
  chain, now, otherAt, spoke, know, run, runs, summarySpoken, handEdits,
  summaryRecorded, wrote

commentsVars == <<commentsTree, head, session, commentsPost, commentsPc, before,
  commentsTodo, batch, batchBefore, retrying, again, answer, scope, verified, snap,
  changed, suite, commentsHeld, landed, commentsRecorded, leftovers, asked, moved,
  parsed, checked, blind, commentsEdits, commentsUnread>>
cycleVars == <<gh, rows, rec, made, remote, cycleTree, work, cyclePc, cyclePost,
  cycleHeld, phases, report, mem, plan, cycleTodo, filed, published, word, ours, stamped,
  rounds, cycleSpoken, cycleUnread, overtaken, adrift>>
summaryVars == <<chain, now, otherAt, spoke, know, run, runs, summarySpoken, handEdits,
  summaryRecorded, wrote>>
vars == <<part, commentsVars, cycleVars, summaryVars>>

Comments == INSTANCE FixPass WITH
  Items <- FixItems, Anchor <- CommentsAnchor, Review <- FALSE, MayBeDirty <- CommentsDirty,
  MaxEdits <- FixEdits, tree <- commentsTree, post <- commentsPost, pc <- commentsPc,
  todo <- commentsTodo, held <- commentsHeld, recorded <- commentsRecorded,
  edits <- commentsEdits, unread <- commentsUnread
Review == INSTANCE FixPass WITH
  Items <- FixItems, Anchor <- ReviewAnchor, Review <- TRUE, MayBeDirty <- ReviewDirty,
  MaxEdits <- FixEdits, tree <- commentsTree, post <- commentsPost, pc <- commentsPc,
  todo <- commentsTodo, held <- commentsHeld, recorded <- commentsRecorded,
  edits <- commentsEdits, unread <- commentsUnread
Cycle == INSTANCE PrCycle WITH
  Claims <- CycleClaims, Idle <- AgentIdles,
  MaxWords <- CycleWords, MaxCommits <- CycleCommits, tree <- cycleTree, pc <- cyclePc,
  post <- cyclePost, held <- cycleHeld, todo <- cycleTodo, words <- cycleSpoken,
  unread <- cycleUnread
Heard == INSTANCE PrCycle WITH
  Threads <- HeardThreads, MaxRounds <- HeardRounds, MaxWords <- HeardWords,
  MaxCommits <- HeardCommits, Verdicts <- HeardVerdicts, Claims <- HeardClaims,
  SettleAs <- HeardSettles, Bodies <- HeardBodies, Races <- TRUE, Gap <- FALSE,
  Refusals <- HeardFaults, PushFails <- HeardFaults, CommitFails <- HeardFaults,
  Idle <- HeardFaults, tree <- cycleTree, pc <- cyclePc, post <- cyclePost,
  held <- cycleHeld, todo <- cycleTodo, words <- cycleSpoken, unread <- cycleUnread
Summary == INSTANCE PrSummary WITH
  Rows <- SummaryRows, Replies <- SummaryReplies, MaxWords <- SummaryWords,
  MaxEdits <- SummaryEdits, Races <- RunsRace, Refusals <- WritesRefused,
  words <- summarySpoken, edits <- handEdits, recorded <- summaryRecorded

ASSUME ConstantsAssumption ==
  /\ Comments!FixAssumption
  /\ Review!FixAssumption
  /\ Cycle!CycleAssumption
  /\ Heard!CycleAssumption
  /\ Summary!SummaryAssumption

Init ==
  /\ part \in {"comments", "review", "cycle", "heard", "summary"}
  /\ IF part = "review" THEN Review!Init ELSE Comments!Init
  /\ IF part = "heard" THEN Heard!Init ELSE Cycle!Init
  /\ Summary!Init

Next ==
  \/ part = "comments" /\ Comments!Next /\ UNCHANGED <<part, cycleVars, summaryVars>>
  \/ part = "review" /\ Review!Next /\ UNCHANGED <<part, cycleVars, summaryVars>>
  \/ part = "cycle" /\ Cycle!Next /\ UNCHANGED <<part, commentsVars, summaryVars>>
  \/ part = "heard" /\ Heard!Next /\ UNCHANGED <<part, commentsVars, summaryVars>>
  \/ part = "summary" /\ Summary!Next /\ UNCHANGED <<part, commentsVars, cycleVars>>

Spec == Init /\ [][Next]_vars
-----------------------------------------------------------------------------
\* engine.py: what was dirty before a pass stays out of its commits and in
\* the worktree.
OthersWorkStays == part = "comments" => Comments!OthersWorkStays

\* convergence.py: a commit counted as reviewed holds nothing but the work
\* of the agents.
CoveredIsTheAgents == part = "review" => Review!CoveredIsTheAgents

\* attribution.py, `landing_of`: a thread is answered with a fix only when
\* origin has the commit that carries it, through any number of rounds; but
\* for a fix that went on record without one.
FixedIsCarried == [][part = "cycle" => Cycle!TellsCarried]_vars

\* thread_replies.py: one reply per thread: two of ours never stand
\* together.
OneReply == part = "cycle" => Cycle!OneReply

\* fix_state.py: what is recorded as settled leaves no word of a reviewer
\* unread, through hand-overs and closeouts; but for one that came between a
\* closeout's report and its save.
SettledWasRead == part = "heard" => Heard!SettledWasRead

\* summary_scope.py: a row that a person rewrote stays theirs, whoever
\* publishes and whatever of it their record knows, while one comment has it.
HandAloneKept == Summary!HandAloneKept
=============================================================================
