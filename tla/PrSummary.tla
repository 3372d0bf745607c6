----------------------------- MODULE PrSummary -----------------------------
(***************************************************************************)
(* The chain of summary comments of one pull request: what a round writes, *)
(* what it leaves to an earlier comment and what it keeps of the comment   *)
(* it edits (pr/summary_publish.py, summary_rounds.py, summary_scope.py,   *)
(* summary_replies.py). Checkouts publish from their own records; people   *)
(* answer, and edit the comments on GitHub.                                *)
(*                                                                         *)
(* Keys are the rows of the table and the reply blocks under it. A cell    *)
(* holds what it says and whether a person rewrote it: its marker still    *)
(* declares what we wrote, its text no longer does. Times are the order in *)
(* which things were written.                                              *)
(***************************************************************************)
EXTENDS Naturals, Sequences, FiniteSets

CONSTANTS
  Rows, Replies,
  Covers,         \* pairs <<item, thread>>: the thread's row speaks for the item's
  Checkouts,
  Outcomes, Texts,  \* what a checkout may record of a row, and answer to a review
  Limit,          \* the rows a comment has room for
  MaxRuns, MaxWords, MaxEdits, MaxRecorded,
  Races,          \* runs overlap each other and people's writing
  ListFails, Refusals

\* What the constants may be: whoever instantiates this module assumes it.
SummaryAssumption ==
  /\ {Limit, MaxRuns, MaxWords, MaxEdits, MaxRecorded} \subseteq Nat
  /\ {Races, ListFails, Refusals} \subseteq BOOLEAN /\ Rows \cap Replies = {}

VARIABLES
  chain,          \* the summary comments, oldest first
  now, otherAt,   \* the clock; when the newest other comment of the PR was written
  spoke,          \* when a reviewer last wrote on the thread of a row
  know,           \* what each checkout's record says of each key
  run,            \* the run of each checkout
  runs, words, edits, recorded,
  wrote           \* history: when a run last wrote a summary

vars == <<chain, now, otherAt, spoke, know, run, runs, words, edits, recorded, wrote>>

Keys == Rows \cup Replies
Items == {pair[1] : pair \in Covers}
Blank == [says |-> "none", hand |-> FALSE]
Off == [at |-> "off", seen |-> [k \in Rows |-> 0], found |-> <<>>, other |-> 0, content |-> {}, force |-> {}]

\* An outcome a person settled by hand is published as any other of its name.
Word(x) == IF x = "SETTLED" THEN "ALREADY_ADDRESSED" ELSE x

Init ==
  /\ chain = <<>> /\ now = 1 /\ otherAt = 0 /\ spoke = [k \in Rows |-> 1]
  /\ know = [c \in Checkouts |-> [k \in Keys |-> "none"]]
  /\ run = [c \in Checkouts |-> Off]
  /\ runs = 0 /\ words = 0 /\ edits = 0 /\ recorded = 0 /\ wrote = 0

Holds(marked, i, k) == marked[i].cells[k].says # "none"
HeldBy(marked, k) == {i \in DOMAIN marked : Holds(marked, i, k)}
\* The newest comment that has the key: where a reader finds it.
Newest(marked, k) ==
  IF HeldBy(marked, k) = {} THEN Blank
  ELSE marked[CHOOSE i \in HeldBy(marked, k) : \A j \in HeldBy(marked, k) : j <= i].cells[k]
-----------------------------------------------------------------------------
(* round_scope: what a round may leave to the comments already there. *)

Target(marked) == marked[Len(marked)]
Elsewhere(marked) == {k \in Keys : HeldBy(marked, k) \ {Len(marked)} # {}}
Published(marked) == {k \in Keys : HeldBy(marked, k) # {}}
TargetOwn(marked) == {k \in Keys : Len(marked) \in HeldBy(marked, k)}
TargetKeysAll(marked, answered) == {}           \* Mutant: an edit may leave out what only it holds.
TargetKeys(marked, answered) ==
  IF answered THEN {} ELSE TargetOwn(marked) \ Elsewhere(marked)
Since(marked) == IF marked = <<>> THEN 0 ELSE Target(marked).updated

\* A fix is not reported as no work at all because its line has moved since.
Decayed(before, after) == before = "FIXED" /\ after = "ALREADY_ADDRESSED"

Changed(cell, after) ==
  ~cell.hand /\ cell.says # Word(after) /\ ~Decayed(cell.says, after)

WritesAskedFirst(marked, answered, k, seen, after) ==   \* Mutant: a quiet row is never news.
  k \notin Published(marked) \/ k \in TargetKeys(marked, answered) \/ seen[k] > Since(marked)
WritesChanged(marked, answered, k, seen, after) ==      \* Mutant: only a new outcome is news.
  k \notin Published(marked) \/ k \in TargetKeys(marked, answered) \/ Changed(Newest(marked, k), after)
Writes(marked, answered, k, seen, after) ==
  \/ k \notin Published(marked)
  \/ k \in TargetKeys(marked, answered)
  \/ Changed(Newest(marked, k), after)
  \/ seen[k] > Since(marked)

\* A reply is ours: only what it says decides.
WritesReply(marked, answered, k, text) ==
  \/ k \notin Published(marked)
  \/ k \in TargetKeys(marked, answered)
  \/ Newest(marked, k).says # text
-----------------------------------------------------------------------------
(* _reconcile: the body of one round. *)

\* An item whose thread is in the round has no row; on the comment it is dropped.
FoldedAwayAny(content) == {i \in Items : content \ {i} # {}}   \* Mutant: by any row of the round.
FoldedAway(content) == {i \in Items : \E t \in content : <<i, t>> \in Covers}

Fresh(r, mine, answered) ==
  {k \in (r.content \cap Rows) \ FoldedAway(r.content) : Writes(r.found, answered, k, r.seen, mine[k])}

HandWrittenNone(r, fresh) == {}                 \* Mutant: the renderer writes over a person.
HandWritten(r, fresh) == {k \in fresh : Newest(r.found, k).hand}

CarriedOverNone(r, fresh, answered) == {}       \* Mutant: the local record is the whole record.
CarriedOver(r, fresh, answered) ==
  IF answered \/ r.found = <<>> THEN {}
  ELSE (TargetOwn(r.found) \cap Rows) \ (fresh \cup Elsewhere(r.found) \cup FoldedAway(r.content))

AnswersOf(mine) == {k \in Replies : mine[k] # "none"}

KeptRepliesEdited(r, mine, answered) == {}      \* Mutant: the blocks are ours to rewrite.
KeptReplies(r, mine, answered) ==
  IF answered \/ r.found = <<>> THEN {}
  ELSE {k \in TargetOwn(r.found) \cap Replies :
          \/ Target(r.found).cells[k].hand /\ k \notin r.force
          \/ k \notin AnswersOf(mine) \cup Elsewhere(r.found)}

FreshReplies(r, mine, answered) ==
  {k \in AnswersOf(mine) \ KeptReplies(r, mine, answered) : WritesReply(r.found, answered, k, mine[k])}

Body(r, mine, answered) ==
  LET fresh == Fresh(r, mine, answered)
      replies == FreshReplies(r, mine, answered)
      kept == CarriedOver(r, fresh, answered) \cup KeptReplies(r, mine, answered)
  IN  [k \in Keys |->
         IF k \in HandWritten(r, fresh) THEN Newest(r.found, k)
         ELSE IF k \in fresh \cup replies THEN [says |-> Word(mine[k]), hand |-> FALSE]
         ELSE IF k \in kept THEN Target(r.found).cells[k]
         ELSE Blank]

TooLongNever(body) == FALSE                     \* Mutant: GitHub takes any length.
TooLong(body) == Cardinality({k \in Keys : body[k] # Blank}) > Limit

\* _answered_since: somebody wrote below the comment the round would edit.
AnsweredNever(r) == FALSE                       \* Mutant: always the one comment.
Answered(r) ==
  /\ r.found # <<>>
  /\ \/ r.other > Target(r.found).created
     \/ \E k \in Rows : r.seen[k] > Target(r.found).created
-----------------------------------------------------------------------------
(* A run: it reads the PR, lists the summary comments, and publishes. *)

Idle == \A c \in Checkouts : run[c].at = "off"

Known(c) == {k \in Rows : know[c][k] # "none"}

\* A round has the rows it touched, a closeout and a `--reply` all there are.
Fetch(c) ==
  /\ run[c].at = "off" /\ (Races \/ Idle) /\ runs < MaxRuns /\ runs' = runs + 1
  /\ \E content \in SUBSET Known(c), force \in {{}} \cup {{k} : k \in AnswersOf(know[c])} :
       /\ (content # {} \/ force # {}) /\ (force # {} => content = Known(c))
       /\ run' = [run EXCEPT ![c] = [Off EXCEPT !.at = "list", !.seen = spoke, !.content = content,
                                               !.force = force]]
  /\ UNCHANGED <<chain, now, otherAt, spoke, know, words, edits, recorded, wrote>>

\* find_marker_comments; a listing that fails reads as no comment at all.
List(c) ==
  /\ run[c].at = "list"
  /\ \/ run' = [run EXCEPT ![c].at = "publish", ![c].found = chain, ![c].other = otherAt]
     \/ ListFails /\ run' = [run EXCEPT ![c].at = "publish"]
  /\ UNCHANGED <<chain, now, otherAt, spoke, know, runs, words, edits, recorded, wrote>>

\* Edited in place while nobody has answered it and it has room; else a new comment.
InPlace(r, mine) == r.found # <<>> /\ ~Answered(r) /\ ~TooLong(Body(r, mine, FALSE))
BodyOf(c) == Body(run[c], know[c], run[c].found # <<>> /\ ~InPlace(run[c], know[c]))

EditNote(c, comment) == comment.note             \* a row a person added is carried

Edit(c) ==
  /\ run[c].at = "publish" /\ InPlace(run[c], know[c])
  /\ now' = now + 1
  /\ chain' = [chain EXCEPT ![Len(run[c].found)] =
                 [@ EXCEPT !.cells = BodyOf(c), !.note = EditNote(c, Target(run[c].found)), !.updated = now']]
  /\ wrote' = now' /\ run' = [run EXCEPT ![c] = Off]
  /\ UNCHANGED <<otherAt, spoke, know, runs, words, edits, recorded>>

Post(c) ==
  /\ run[c].at = "publish" /\ ~InPlace(run[c], know[c]) /\ ~TooLong(BodyOf(c))
  /\ now' = now + 1
  /\ chain' = Append(chain, [cells |-> BodyOf(c), note |-> FALSE, created |-> now', updated |-> now'])
  /\ wrote' = now' /\ run' = [run EXCEPT ![c] = Off]
  /\ UNCHANGED <<otherAt, spoke, know, runs, words, edits, recorded>>

\* Too long even by itself, or refused by GitHub: the summary stays owed.
GiveUp(c) ==
  /\ run[c].at = "publish"
  /\ Refusals \/ (~InPlace(run[c], know[c]) /\ TooLong(BodyOf(c)))
  /\ run' = [run EXCEPT ![c] = Off]
  /\ UNCHANGED <<chain, now, otherAt, spoke, know, runs, words, edits, recorded, wrote>>
-----------------------------------------------------------------------------
(* The records of the checkouts, and people. *)

Record(c, k) ==
  /\ run[c].at = "off" /\ (Races \/ Idle) /\ recorded < MaxRecorded /\ recorded' = recorded + 1
  /\ \E x \in (IF k \in Rows THEN Outcomes ELSE Texts) :
       x # know[c][k] /\ know' = [know EXCEPT ![c][k] = x]
  /\ UNCHANGED <<chain, now, otherAt, spoke, run, runs, words, edits, wrote>>

\* A reviewer on a thread, or anybody in a comment of the PR.
Speak(k) ==
  /\ words < MaxWords /\ (Races \/ Idle)
  /\ words' = words + 1 /\ now' = now + 1 /\ spoke' = [spoke EXCEPT ![k] = now']
  /\ UNCHANGED <<chain, otherAt, know, run, runs, edits, recorded, wrote>>

Comment ==
  /\ words < MaxWords /\ (Races \/ Idle)
  /\ words' = words + 1 /\ now' = now + 1 /\ otherAt' = now'
  /\ UNCHANGED <<chain, spoke, know, run, runs, edits, recorded, wrote>>

\* Editing a summary on GitHub: a cell rewritten or taken out, a row added.
HandEdit(i, comment) ==
  /\ edits < MaxEdits /\ (Races \/ Idle)
  /\ edits' = edits + 1 /\ now' = now + 1
  /\ chain' = [chain EXCEPT ![i] = [comment EXCEPT !.updated = now']]
  /\ UNCHANGED <<otherAt, spoke, know, run, runs, words, recorded, wrote>>

Rewrite(i, k) == Holds(chain, i, k) /\ HandEdit(i, [chain[i] EXCEPT !.cells[k].hand = TRUE])
TakeOut(i, k) == Holds(chain, i, k) /\ HandEdit(i, [chain[i] EXCEPT !.cells[k] = Blank])
AddNote(i) == ~chain[i].note /\ HandEdit(i, [chain[i] EXCEPT !.note = TRUE])

Next ==
  \/ \E c \in Checkouts : Fetch(c) \/ List(c) \/ Edit(c) \/ Post(c) \/ GiveUp(c)
  \/ \E c \in Checkouts, k \in Keys : Record(c, k)
  \/ \E k \in Rows \ Items : Speak(k)
  \/ Comment
  \/ \E i \in DOMAIN chain, k \in Keys : Rewrite(i, k) \/ TakeOut(i, k)
  \/ \E i \in DOMAIN chain : AddNote(i)

Spec == Init /\ [][Next]_vars
-----------------------------------------------------------------------------
Comments == [cells : [Keys -> [says : {"none"} \cup Outcomes \cup Texts \cup {"ALREADY_ADDRESSED"}, hand : BOOLEAN]],
             note : BOOLEAN, created : 1..now, updated : 1..now]

TypeOK ==
  /\ chain \in Seq(Comments) /\ Len(chain) <= MaxRuns
  /\ \A i, j \in DOMAIN chain : i < j => chain[i].created < chain[j].created
  /\ \A i \in DOMAIN chain, k \in Keys :
       /\ chain[i].created <= chain[i].updated /\ (chain[i].cells[k].hand => Holds(chain, i, k))
       /\ Cardinality({q \in Keys : Holds(chain, i, q)}) <= Limit
  /\ wrote <= now /\ otherAt <= now

Publishing == {c \in Checkouts : wrote' # wrote /\ run'[c] # run[c]}
Written == {i \in DOMAIN chain' : wrote' # wrote /\ chain'[i].updated = wrote'}

\* publish_summary: the record the PR holds never shrinks. A key some comment has, some
\* comment has after a run; an item's row may give way to its thread's.
RowNeverLost ==
  [][wrote' # wrote =>
       /\ \A k \in Keys : HeldBy(chain, k) # {} =>
            HeldBy(chain', k) # {} \/ \E t \in Rows : <<k, t>> \in Covers /\ HeldBy(chain', t) # {}
       /\ \A i \in DOMAIN chain : chain[i].note => chain'[i].note]_vars

FoldedNow == UNION {FoldedAway(run[c].content) : c \in Publishing}
ForcedNow == UNION {run[c].force : c \in Publishing}
HandStays(k) == Newest(chain, k).hand /\ k \notin FoldedNow => Newest(chain', k).hand

\* hand_written_rows, kept_replies: a row, once a person rewrote it, stays theirs as long
\* as one comment alone has it, and so does the block of a reply on the comment it is on,
\* unless the operator answers that review again. The code promises it "for the life of
\* the PR"; for a row that an older comment has as well that is HandKept, which fails.
HandAloneKept ==
  [][wrote' # wrote =>
       /\ \A k \in Rows : Cardinality(HeldBy(chain, k)) = 1 => HandStays(k)
       /\ \A i \in DOMAIN chain, k \in Replies \ ForcedNow :
            chain[i].cells[k].hand => chain'[i].cells[k].hand]_vars

\* hand_written_rows: a row a person rewrote stays theirs, whatever other comment has the key.
HandKept == [][wrote' # wrote => \A k \in Rows : HandStays(k)]_vars

\* _answered_since: a comment is edited only while nobody has written below it.
EditIsLastWord ==
  [][\A i \in DOMAIN chain \cap Written :
       otherAt < chain[i].created /\ \A k \in Rows : spoke[k] < chain[i].created]_vars

Reported(c, k) ==
  LET cell == Newest(chain', k) IN
  cell.hand \/ cell.says = Word(know[c][k]) \/ Decayed(cell.says, know[c][k])

\* RoundScope.covers: what the round says of a row no two comments have is what a reader finds.
RowIsReported ==
  [][\A c \in Publishing : \A k \in (run[c].content \cap Rows) \ FoldedAway(run[c].content) :
       Cardinality(HeldBy(chain, k)) <= 1 => Reported(c, k)]_vars

\* RoundScope.covers: the same of every row.
EveryRowIsReported ==
  [][\A c \in Publishing : \A k \in (run[c].content \cap Rows) \ FoldedAway(run[c].content) :
       Reported(c, k)]_vars

\* RoundScope.since: a thread of the round on which a reviewer has spoken since the last
\* summary has its row in this one.
AskedIsRestated ==
  [][\A c \in Publishing : \A k \in (run[c].content \cap Rows) \ FoldedAway(run[c].content) :
       run[c].seen[k] > wrote => \A i \in Written : Holds(chain', i, k)]_vars
=============================================================================
