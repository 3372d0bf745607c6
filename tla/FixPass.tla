------------------------------ MODULE FixPass ------------------------------
(***************************************************************************)
(* One fix pass (fix/engine.py): items are handed to an agent in batches,  *)
(* the deferred ones once more, its claims are held against a verify gate  *)
(* (fix/gate.py) and the repository's own checks (fix/suite.py), what it   *)
(* edited is committed and pushed, and the domain records the outcome.     *)
(* The domains are the review's findings (review/fix.py), which narrows    *)
(* the commit and says whether it counts as reviewed                       *)
(* (review/convergence.py), and a pull request's comments                  *)
(* (fix/comments.py), which holds the push over every open question.       *)
(*                                                                         *)
(* The worktree is somebody's: files may be dirty before the pass, and a   *)
(* session may open and edit while it runs.  What a file holds is the set  *)
(* of those who wrote it; the pass tells its own work from everybody       *)
(* else's by the names of the files that became dirty meanwhile, and       *)
(* undoes what the gate and the checks wrote (fix/containment.py).         *)
(***************************************************************************)
EXTENDS Naturals, Sequences, FiniteSets, SequencesExt

CONSTANTS
  Files, Items,
  Work,          \* the items in the order they are handed over
  Anchor,        \* the file each item points at
  ChunkSize,
  Review,        \* the domain: the review's findings, or the PR's comments
  Gated,         \* the pass has a verify gate
  MayBeDirty,    \* files may be dirty before the pass
  MaxEdits,      \* files a session edits while the pass runs
  MaxUnread,     \* readings of the worktree that fail
  Unread         \* what such a reading gives

\* What the constants may be: whoever instantiates this module assumes it.
FixAssumption ==
  /\ Anchor \in [Items -> Files] /\ Work \in Seq(Items) /\ ChunkSize \in Nat \ {0}
  /\ {Review, Gated, MayBeDirty} \subseteq BOOLEAN
  /\ MaxEdits \in Nat /\ MaxUnread \in Nat
  /\ Unread \notin [Files -> SUBSET {"before", "session", "agent", "gate", "suite"}]

Authors == {"before", "session", "agent", "gate", "suite"}
Contents == [Files -> SUBSET Authors]
Reading == SUBSET Files \cup {Unread}
Answers == {"none", "fixed", "declined", "unreasoned", "deferred", "person"}
Claims == {"fixed", "declined", "deferred", "person"}
SuiteStatuses == {"not_attempted", "green", "partial", "red", "preexisting", "error"}

VARIABLES
  tree, head,      \* what the worktree and the commit checked out hold
  session,         \* an interactive session has the worktree
  post,            \* the run was told to publish
  pc,
  before,          \* the files dirty when the pass began
  todo, batch, batchBefore,
  retrying, again, \* the deferred items a retry is owed
  answer, scope, verified,
  snap,            \* the contents a containment will put back
  changed, suite, held,
  landed,          \* none, or how the commit ended
  recorded,        \* the items the domain records as fixed, and coverage
  leftovers,       \* what a stop recorded as the pass's own edits
  asked, moved, parsed, checked, blind,   \* ghosts, see the properties
  edits, unread

pass == <<before, todo, batch, batchBefore, retrying, again>>
verdicts == <<answer, scope, verified>>
ends == <<landed, recorded, leftovers>>
ghosts == <<asked, moved, parsed, checked, blind>>
vars == <<tree, head, session, post, pc, pass, verdicts, snap, changed, suite, held,
          ends, ghosts, edits, unread>>

Dirty == {f \in Files : tree[f] # head[f]}
Wrote(who, fs) == [f \in Files |-> IF f \in fs THEN tree[f] \cup {who} ELSE tree[f]]

(* scope.changed_files: the dirty files, or nothing known at all.          *)
ReadInto(r, at) ==
  \/ r = {f \in Files : at[f] # head[f]} /\ UNCHANGED unread
  \/ unread < MaxUnread /\ r = Unread /\ unread' = unread + 1

Init ==
  /\ \E fs \in SUBSET Files :
       /\ MayBeDirty \/ fs = {}
       /\ tree = [f \in Files |-> IF f \in fs THEN {"before"} ELSE {}]
  /\ head = [f \in Files |-> {}]
  /\ session \in BOOLEAN /\ post \in BOOLEAN
  /\ pc = "start" /\ before = {} /\ todo = Work /\ batch = <<>> /\ batchBefore = {}
  /\ retrying = FALSE /\ again = <<>>
  /\ answer = [i \in Items |-> "none"] /\ scope = [i \in Items |-> Unread]
  /\ verified = [i \in Items |-> "unset"]
  /\ snap = Unread /\ changed = {} /\ suite = "not_attempted" /\ held = FALSE
  /\ landed = "none" /\ recorded = [fixed |-> {}, covered |-> FALSE]
  /\ leftovers = [f \in {} |-> {}]
  /\ asked = {} /\ moved = {} /\ parsed = {} /\ checked = Unread /\ blind = FALSE
  /\ edits = 0 /\ unread = 0
-----------------------------------------------------------------------------
(* run: what it takes to start.                                            *)

Refuse(why) ==
  /\ why /\ pc' = "refused"
  /\ UNCHANGED <<tree, head, session, post, pass, verdicts, snap, changed, suite, held,
                 ends, ghosts, edits>>

RefusedUnread ==
  /\ pc = "start" /\ unread < MaxUnread /\ unread' = unread + 1
  /\ Refuse(TRUE)

RefusedSession ==
  /\ pc = "start" /\ Refuse(session) /\ UNCHANGED unread

Start ==
  /\ pc = "start" /\ ~session
  /\ before' = Dirty /\ pc' = "batch"
  /\ UNCHANGED <<tree, head, session, post, todo, batch, batchBefore, retrying, again,
                 verdicts, snap, changed, suite, held, ends, ghosts, edits, unread>>
-----------------------------------------------------------------------------
(* _invoke: one batch.                                                     *)

FirstBatch == todo = Work /\ ~retrying
Chunk == SubSeq(todo, 1, IF Len(todo) < ChunkSize THEN Len(todo) ELSE ChunkSize)

HandOver ==
  /\ pc = "batch" /\ todo # <<>>
  /\ batch' = Chunk /\ todo' = SubSeq(todo, Len(Chunk) + 1, Len(todo))
  /\ \/ FirstBatch /\ batchBefore' = before /\ UNCHANGED unread
     \/ ~FirstBatch /\ ReadInto(batchBefore', tree)
  /\ pc' = "agent"
  /\ UNCHANGED <<tree, head, session, post, before, retrying, again, verdicts, snap,
                 changed, suite, held, ends, ghosts, edits>>

Ticked(a) == a \in {"fixed", "declined", "unreasoned", "person"}

Latest(i, seen) == seen       \* Mutant: the later reading alone.
(* _merge_scopes: what was seen of an item's file adds up over its batches. *)
Merged(i, seen) ==
  IF ~retrying THEN seen
  ELSE IF scope[i] = Unread \/ seen = Unread THEN Unread ELSE scope[i] \cup seen

(* _settle: the deferred items of a batch in which something was ticked.   *)
Owed(given) ==
  IF retrying \/ \A i \in Range(batch) : ~Ticked(given[i]) THEN <<>>
  ELSE SelectSeq(batch, LAMBDA i : given[i] = "deferred")

\* The agent edits what it will and ticks what it will; a section it dropped
\* from the tracking file has no answer.
AgentRuns ==
  /\ pc = "agent"
  /\ \E fs \in SUBSET Files, given \in [Range(batch) -> Answers] :
       /\ tree' = Wrote("agent", fs)
       /\ \E after \in Reading :
            /\ ReadInto(after, tree')
            /\ LET seen == IF batchBefore = Unread \/ after = Unread THEN Unread
                           ELSE after \ batchBefore
               IN scope' = [i \in Items |->
                              IF i \in Range(batch) /\ given[i] # "none"
                              THEN Merged(i, seen) ELSE scope[i]]
       /\ answer' = [i \in Items |-> IF i \in Range(batch) THEN given[i] ELSE answer[i]]
       /\ again' = again \o Owed(given)
       /\ parsed' = parsed \cup {i \in Range(batch) : given[i] # "none"}
       /\ moved' = moved \cup {i \in Range(batch) : Anchor[i] \in fs \ Dirty}
  /\ pc' = "batch"
  /\ UNCHANGED <<head, session, post, before, todo, batch, batchBefore, retrying, verified,
                 snap, changed, suite, held, ends, asked, checked, blind, edits>>

RetryForever == todo' = Work /\ again' = <<>> /\ UNCHANGED retrying   \* Mutant: all of it, until nothing is deferred.
\* The deferred remainder has its one retry.
Retry == todo' = again /\ again' = <<>> /\ retrying' = TRUE

Settle ==
  /\ pc = "batch" /\ todo = <<>> /\ ~retrying /\ again # <<>>
  /\ Retry
  /\ UNCHANGED <<tree, head, session, post, pc, before, batch, batchBefore, verdicts, snap,
                 changed, suite, held, ends, ghosts, edits, unread>>

(* _record_unevidenced: a decline owes a reason.                           *)
Answered ==
  /\ pc = "batch" /\ todo = <<>> /\ (retrying \/ again = <<>>)
  /\ answer' = [i \in Items |-> IF answer[i] = "unreasoned" THEN "person" ELSE answer[i]]
  /\ pc' = "gate"
  /\ UNCHANGED <<tree, head, session, post, pass, scope, verified, snap, changed, suite,
                 held, ends, ghosts, edits, unread>>
-----------------------------------------------------------------------------
(* containment.around: a phase's writes are put back, unless one of the    *)
(* two snapshots could not be read.                                        *)

Snapshot ==
  \/ snap' = tree /\ UNCHANGED <<blind, unread>>
  \/ unread < MaxUnread /\ snap' = Unread /\ blind' = TRUE /\ unread' = unread + 1

NothingPutBack == tree' = tree /\ UNCHANGED <<blind, unread>>   \* Mutant
PutBack ==
  \/ snap # Unread /\ tree' = snap /\ UNCHANGED <<blind, unread>>
  \/ snap = Unread /\ UNCHANGED <<tree, blind, unread>>
  \/ unread < MaxUnread /\ UNCHANGED tree /\ blind' = TRUE /\ unread' = unread + 1

GateStarts ==
  /\ pc = "gate" /\ Snapshot /\ pc' = "gating"
  /\ UNCHANGED <<tree, head, session, post, pass, verdicts, changed, suite, held, ends,
                 asked, moved, parsed, checked, edits>>

(* reconcile.contradiction: nothing done, says the item, and its file moved. *)
Contradicted ==
  {i \in Items : /\ answer[i] \in {"deferred", "person"}
                 /\ scope[i] # Unread /\ Anchor[i] \in scope[i]}
Claimed == {i \in Items : answer[i] \in {"fixed", "declined"}} \cup Contradicted

Verdict == {"verified", "broken", "unsure", "silent"}

\* What a verdict makes of an answer: only falsification demotes, and only a
\* contradicted item is promoted.
Judged(i, v) ==
  CASE v = "broken" -> "person"
    [] v = "verified" /\ i \in Contradicted -> "fixed"
    [] OTHER -> answer[i]
VerdictItself(i, v) == v         \* Mutant: the verdict is kept as it came.
VerifiedBy(i, v) ==
  IF v = "verified" THEN "yes"
  ELSE IF i \in Contradicted THEN verified[i] ELSE "no"

(* gate.verify_claims.                                                     *)
GateRuns ==
  /\ pc = "gating"
  /\ \/ /\ Gated /\ Claimed # {}
        /\ \E fs \in SUBSET Files, v \in [Claimed -> Verdict] :
             /\ tree' = Wrote("gate", fs)
             /\ answer' = [i \in Items |-> IF i \in Claimed THEN Judged(i, v[i]) ELSE answer[i]]
             /\ verified' = [i \in Items |-> IF i \in Claimed THEN VerifiedBy(i, v[i])
                                             ELSE verified[i]]
        /\ asked' = Claimed
     \/ /\ ~Gated \/ Claimed = {}
        /\ UNCHANGED <<tree, answer, verified, asked>>
  /\ pc' = "gated"
  /\ UNCHANGED <<head, session, post, pass, scope, snap, changed, suite, held, ends, moved,
                 parsed, checked, blind, edits, unread>>

GatePutsBack ==
  /\ pc = "gated" /\ PutBack /\ pc' = "scope"
  /\ UNCHANGED <<head, session, post, pass, verdicts, snap, changed, suite, held, ends,
                 asked, moved, parsed, checked, edits>>
-----------------------------------------------------------------------------
(* The commit's scope, read between the agent and the commit.              *)

AllDirty(r) == r            \* Mutant: what was dirty before is the pass's too.
AgentChanged(r) == r \ before

ReadScope ==
  /\ pc = "scope"
  /\ \E r \in Reading :
       ReadInto(r, tree) /\ changed' = IF r = Unread THEN Unread ELSE AgentChanged(r)
  /\ pc' = "check"
  /\ UNCHANGED <<tree, head, session, post, pass, verdicts, snap, suite, held, ends,
                 ghosts, edits>>

Anchors == {Anchor[i] : i \in Items}
(* commit_scope: the review keeps to the files its findings name.          *)
Committed ==
  IF changed = Unread THEN {}
  ELSE IF Review THEN changed \cap Anchors ELSE changed
LeftOut == IF changed = Unread THEN {} ELSE changed \ Committed
Fixed == {i \in Items : answer[i] = "fixed"}
-----------------------------------------------------------------------------
(* suite.run, over the tree as it stands.                                  *)

SuiteStarts ==
  /\ pc = "check" /\ Snapshot /\ pc' = "checking"
  /\ UNCHANGED <<tree, head, session, post, pass, verdicts, changed, suite, held, ends,
                 asked, moved, parsed, checked, edits>>

ShouldRun == changed # Unread /\ changed # {} /\ Fixed # {}

GreenAnyway(s) == s                 \* Mutant: green whatever the commit leaves out.
ScopedTo(s) == IF s = "green" /\ LeftOut # {} THEN "partial" ELSE s

HoldOnRed(s) == held' = (held \/ s = "red")    \* Mutant: an inherited red holds nothing.
Hold(s) == held' = (held \/ s \in {"red", "preexisting"})

SuiteRuns ==
  /\ pc = "checking"
  /\ \/ /\ ShouldRun
        /\ \E fs \in SUBSET Files, s \in {"green", "red", "preexisting", "error"} :
             /\ tree' = Wrote("suite", fs)
             /\ suite' = ScopedTo(s) /\ Hold(s)
             /\ verified' = [i \in Items |-> IF s = "red" /\ i \in Fixed THEN "no"
                                             ELSE verified[i]]
        /\ checked' = tree
     \/ ~ShouldRun /\ UNCHANGED <<tree, suite, held, verified, checked>>
  /\ pc' = "checked"
  /\ UNCHANGED <<head, session, post, pass, answer, scope, snap, changed, ends, asked, moved,
                 parsed, blind, edits, unread>>

NeedsAPerson == {i \in Items : answer[i] \in {"person", "declined"}}

SuitePutsBack ==
  /\ pc = "checked" /\ PutBack /\ pc' = "after"
  /\ UNCHANGED <<head, session, post, pass, verdicts, snap, changed, suite, held, ends,
                 asked, moved, parsed, checked, edits>>

Unmoved == held' = held           \* Mutant: the domain has no last word.
(* after_verify: the comments pass holds over every open question.         *)
LastWord == held' = (held \/ (~Review /\ NeedsAPerson # {}))

AfterVerify ==
  /\ pc = "after" /\ LastWord /\ pc' = "land"
  /\ UNCHANGED <<tree, head, session, post, pass, verdicts, snap, changed, suite, ends,
                 ghosts, edits, unread>>
-----------------------------------------------------------------------------
(* _land and record.                                                       *)

Open == post /\ ~held

Land ==
  /\ pc = "land"
  /\ \/ /\ Committed # {}
        /\ head' = [f \in Files |-> IF f \in Committed THEN tree[f] ELSE head[f]]
        /\ landed' \in IF Open THEN {"pushed", "push_failed"} ELSE {"push_held"}
     \/ Committed # {} /\ landed' = "commit_failed" /\ UNCHANGED head
     \/ Committed = {} /\ landed' = "no_changes" /\ UNCHANGED head
  /\ pc' = "record"
  /\ UNCHANGED <<tree, session, post, pass, verdicts, snap, changed, suite, held, recorded,
                 leftovers, ghosts, edits, unread>>

HasCommit == landed \in {"pushed", "push_failed", "push_held"}

(* fix_coverage: the commit counts as reviewed.                            *)
Covered ==
  /\ HasCommit /\ suite = "green"
  /\ Fixed # {} /\ \A i \in Fixed : verified[i] = "yes"
  /\ Committed \subseteq {Anchor[i] : i \in Fixed}
  /\ Committed \cap {Anchor[i] : i \in Items \ Fixed} = {}

RecordAnyway == IF Review /\ changed = Unread THEN {} ELSE Fixed   \* Mutant
\* The review ticks no finding over a commit that was refused.
Persisted == IF Review /\ (changed = Unread \/ landed = "commit_failed") THEN {} ELSE Fixed

Record ==
  /\ pc = "record"
  /\ recorded' = [fixed |-> Persisted, covered |-> Review /\ Covered]
  /\ pc' = "done"
  /\ UNCHANGED <<tree, head, session, post, pass, verdicts, snap, changed, suite, held,
                 landed, leftovers, ghosts, edits, unread>>
-----------------------------------------------------------------------------
(* A stop unwinds: a phase's writes are put back on the way, and what the  *)
(* pass edited and did not commit is recorded.                             *)

Running == {"batch", "agent", "gate", "gating", "gated", "scope", "check", "checking",
            "checked", "after", "land", "record"}

Unwound ==
  IF pc \in {"gating", "gated", "checking", "checked"} /\ snap # Unread
  THEN tree' = snap ELSE tree' = tree

Interrupted ==
  /\ pc \in Running /\ Unwound
  /\ \E r \in Reading :
       /\ ReadInto(r, tree')
       /\ leftovers' = [f \in (IF r = Unread THEN {} ELSE AgentChanged(r)) |-> tree'[f]]
  /\ pc' = "stopped"
  /\ UNCHANGED <<head, session, post, pass, verdicts, snap, changed, suite, held, landed,
                 recorded, ghosts, edits>>

(* set_aside_leftovers, by the next run on the same HEAD: the files nobody *)
(* changed since are stashed, so that the pass can be started over.        *)
SetAside ==
  /\ pc = "stopped" /\ Review /\ ~HasCommit
  /\ tree' = [f \in Files |-> IF f \in DOMAIN leftovers /\ tree[f] = leftovers[f]
                              THEN head[f] ELSE tree[f]]
  /\ pc' = "aside"
  /\ UNCHANGED <<head, session, post, pass, verdicts, snap, changed, suite, held, ends,
                 ghosts, edits, unread>>
-----------------------------------------------------------------------------
(* The session beside the pass.                                            *)

SessionOpens ==
  /\ ~session /\ session' = TRUE /\ edits < MaxEdits
  /\ UNCHANGED <<tree, head, post, pc, pass, verdicts, snap, changed, suite, held, ends,
                 ghosts, edits, unread>>

SessionEdits ==
  /\ session /\ pc \in Running \cup {"stopped"} /\ edits < MaxEdits /\ edits' = edits + 1
  /\ \E f \in Files : "session" \notin tree[f] /\ tree' = Wrote("session", {f})
  /\ UNCHANGED <<head, session, post, pc, pass, verdicts, snap, changed, suite, held, ends,
                 ghosts, unread>>

Over == pc \in {"refused", "done", "aside"} \/ (pc = "stopped" /\ (~Review \/ HasCommit))
Idle == Over /\ UNCHANGED vars

Pass ==
  \/ RefusedUnread \/ RefusedSession \/ Start
  \/ HandOver \/ AgentRuns \/ Settle \/ Answered
  \/ GateStarts \/ GateRuns \/ GatePutsBack \/ ReadScope
  \/ SuiteStarts \/ SuiteRuns \/ SuitePutsBack \/ AfterVerify \/ Land \/ Record
  \/ SetAside

Next == Pass \/ Interrupted \/ SessionOpens \/ SessionEdits \/ Idle

Spec == Init /\ [][Next]_vars
FairSpec == Spec /\ WF_vars(Pass)
-----------------------------------------------------------------------------
TypeOK ==
  /\ tree \in Contents /\ head \in Contents /\ {session, post, retrying, held, blind} \subseteq BOOLEAN
  /\ pc \in Running \cup {"start", "refused", "done", "stopped", "aside"}
  /\ before \subseteq Files /\ batchBefore \in Reading /\ changed \in Reading
  /\ {Range(todo), Range(batch), Range(again), asked, moved, parsed} \subseteq SUBSET Items
  /\ answer \in [Items -> Answers] /\ scope \in [Items -> Reading]
  /\ verified \in [Items -> {"unset", "yes", "no"}]
  /\ snap \in Contents \cup {Unread} /\ checked \in Contents \cup {Unread}
  /\ suite \in SuiteStatuses
  /\ landed \in {"none", "pushed", "push_failed", "push_held", "commit_failed", "no_changes"}
  /\ recorded \in [fixed : SUBSET Items, covered : BOOLEAN]
  /\ DOMAIN leftovers \subseteq Files

\* What was dirty before the pass is somebody else's: neither committed nor
\* recorded as the pass's leftovers and stashed away (fix/scope.py).
OthersWorkStays == \A f \in before : "before" \in tree[f] \ head[f]

\* What the gate or the checks wrote never reaches a commit, nor outlives a
\* stop, unless a snapshot could not be read (fix/containment.py).
ContainedStaysOut ==
  ~blind => /\ \A f \in Files : head[f] \cap {"gate", "suite"} = {}
            /\ pc \in {"scope", "check", "land", "done", "stopped"}
                 => \A f \in Files : tree[f] \cap {"gate", "suite"} = {}

\* An answer of nothing done, given while the item's own file became dirty in
\* one of the item's batches, is put to the gate before anything is committed
\* (fix/engine.py _merge_scopes, fix/reconcile.py).
ContradictionsAsked ==
  (landed # "none" /\ Gated /\ unread = 0)
    => \A i \in moved : answer[i] # "none" => i \in asked

\* Nothing leaves the machine off a red tree, inherited or not, nor, in the
\* comments pass, while an item of the round needs a person.
PushedIsSettled ==
  landed = "pushed" => /\ suite \notin {"red", "preexisting"}
                       /\ Review \/ NeedsAPerson = {}

\* A commit counted as reviewed holds what the repository's checks ran over,
\* every file of it, and nothing the gate or the checks wrote.
CoveredIsChecked == recorded.covered => head = checked

\* It holds no edit but the agent's.
CoveredIsTheAgents ==
  recorded.covered => \A f \in Files : head[f] \subseteq {"agent"}

\* A finding the review records as fixed by edits to its file is in the commit.
FixedIsCommitted ==
  (pc = "done" /\ Review)
    => \A i \in recorded.fixed : "agent" \in tree[Anchor[i]] => "agent" \in head[Anchor[i]]

\* Every answer the pass parsed reaches the record.
ParsedIsRecorded == landed # "none" => \A i \in parsed : answer[i] # "none"

\* An edit made in a session is in the worktree or in the commit, as long as
\* the pass runs.
SessionsEditsStay ==
  pc \notin {"stopped", "aside"} =>
    Cardinality({f \in Files : "session" \in tree[f] \cup head[f]}) = edits

\* A pass that is not stopped ends.
PassEnds == <>Over
=============================================================================
