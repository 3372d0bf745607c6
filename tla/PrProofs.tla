----------------------------- MODULE PrProofs -----------------------------
(***************************************************************************)
(* What holds of a pull request for any files, items, threads, rows and    *)
(* checkouts: of the fix passes (FixPass), of the rounds on its threads    *)
(* (PrCycle) and of its summaries (PrSummary).  Each part has an inductive *)
(* invariant of its own; the others' steps leave its variables alone.      *)
(***************************************************************************)
EXTENDS PrWork, Integers, Sequences, FiniteSets, FiniteSetTheorems, SequenceTheorems,
        WellFoundedInduction, TLAPS

LEMMA OnePartMoves ==
  [Next]_vars =>
    /\ part' = part
    /\ part = "comments" => [Comments!Next]_Comments!vars
    /\ part = "review" => [Review!Next]_Review!vars
    /\ part = "cycle" => [Cycle!Next]_Cycle!vars
    /\ part = "heard" => [Heard!Next]_Heard!vars
    /\ [Summary!Next]_Summary!vars
BY DEF Next, vars, commentsVars, cycleVars, summaryVars,
       Comments!vars, Comments!pass, Comments!verdicts, Comments!ends, Comments!ghosts,
       Review!vars, Review!pass, Review!verdicts, Review!ends, Review!ghosts,
       Cycle!vars, Heard!vars, Summary!vars

LEMMA EveryPartStarts ==
  Init => /\ part = "comments" => Comments!Init
          /\ part = "review" => Review!Init
          /\ part = "cycle" => Cycle!Init
          /\ part = "heard" => Heard!Init
          /\ Summary!Init
BY DEF Init
-----------------------------------------------------------------------------
(* The fix pass over a pull request's comments.                            *)

\* Until the pass has read what is dirty, nobody but those before it has
\* written anything.
NotYetBegun ==
  commentsPc = "start" =>
    /\ before = {} /\ changed = {} /\ DOMAIN leftovers = {} /\ snap = Unread
    /\ \A f \in Files : commentsTree[f] \subseteq {"before"} /\ head[f] = {}

\* A file that was dirty before the pass keeps what was in it, in the worktree
\* and in what a phase is put back to, and is in none of the sets from which
\* the pass commits and stashes.
OthersKept ==
  /\ before \subseteq Files /\ before \cap DOMAIN leftovers = {}
  /\ changed # Unread => before \cap changed = {}
  /\ \A f \in before : "before" \in commentsTree[f] /\ "before" \notin head[f]
  /\ snap # Unread => snap \in Comments!Contents /\ \A f \in before : "before" \in snap[f]

OthersInv ==
  /\ commentsTree \in Comments!Contents /\ head \in Comments!Contents
  /\ NotYetBegun /\ OthersKept

LEMMA OthersStart == Comments!Init => OthersInv
<1>1. SUFFICES ASSUME Comments!Init PROVE OthersInv
  OBVIOUS
<1>2. PICK fs \in SUBSET Files : commentsTree = [f \in Files |-> IF f \in fs THEN {"before"} ELSE {}]
  BY <1>1 DEF Comments!Init
<1>3. head = [f \in Files |-> {}] /\ before = {} /\ changed = {} /\ snap = Unread
  BY <1>1 DEF Comments!Init
<1>4. DOMAIN leftovers = {}
  BY <1>1 DEF Comments!Init
<1> QED BY <1>2, <1>3, <1>4 DEF OthersInv, NotYetBegun, OthersKept, Comments!Contents, Comments!Authors

\* A step of the pass after its start that only adds to the worktree.
LEMMA OthersAdded ==
  ASSUME OthersInv, commentsTree' \in Comments!Contents, commentsPc' # "start",
         \A f \in before : "before" \in commentsTree'[f],
         UNCHANGED <<head, before, changed, leftovers, snap>>
  PROVE  OthersInv'
BY DEF OthersInv, NotYetBegun, OthersKept

LEMMA OthersWritten ==
  ASSUME OthersInv, NEW who \in Comments!Authors, NEW fs \in SUBSET Files,
         commentsTree' = Comments!Wrote(who, fs)
  PROVE  /\ commentsTree' \in Comments!Contents
         /\ \A f \in before : "before" \in commentsTree'[f]
<1>1. commentsTree \in [Files -> SUBSET Comments!Authors] /\ before \subseteq Files
  BY DEF OthersInv, OthersKept, Comments!Contents
<1>2. commentsTree' = [f \in Files |-> IF f \in fs THEN commentsTree[f] \cup {who} ELSE commentsTree[f]]
  BY DEF Comments!Wrote
<1>3. commentsTree' \in [Files -> SUBSET Comments!Authors]
  BY <1>1, <1>2
<1>4. \A f \in before : "before" \in commentsTree'[f]
  BY <1>1, <1>2 DEF OthersInv, OthersKept
<1> QED BY <1>3, <1>4 DEF Comments!Contents

LEMMA OthersPutBack ==
  ASSUME OthersInv, Comments!PutBack
  PROVE  commentsTree' \in Comments!Contents /\ \A f \in before : "before" \in commentsTree'[f]
BY DEF OthersInv, OthersKept, Comments!PutBack

LEMMA CommentsCommitted ==
  ASSUME changed # Unread PROVE Comments!Committed = changed
BY DEF Comments!Committed

LEMMA OthersStep == OthersInv /\ [Comments!Next]_Comments!vars => OthersInv'
<1> SUFFICES ASSUME OthersInv, [Comments!Next]_Comments!vars PROVE OthersInv'
  OBVIOUS
<1> USE DEF Comments!pass, Comments!verdicts, Comments!ends, Comments!ghosts
<1>0. "gate" \in Comments!Authors /\ "agent" \in Comments!Authors /\ "suite" \in Comments!Authors
      /\ "session" \in Comments!Authors
  BY DEF Comments!Authors
<1>1. ASSUME Comments!RefusedUnread \/ Comments!RefusedSession PROVE OthersInv'
  BY <1>1 DEF Comments!RefusedUnread, Comments!RefusedSession, Comments!Refuse, OthersInv, NotYetBegun, OthersKept
<1>2. ASSUME Comments!Start PROVE OthersInv'
  <2>1. /\ before' = {f \in Files : commentsTree[f] # head[f]} /\ commentsPc = "start" /\ commentsPc' = "batch"
        /\ UNCHANGED <<commentsTree, head, changed, leftovers, snap>>
    BY <1>2 DEF Comments!Start, Comments!Dirty
  <2>2. \A f \in before' : "before" \in commentsTree[f] /\ head[f] = {}
    BY <2>1 DEF OthersInv, NotYetBegun
  <2> QED BY <2>1, <2>2 DEF OthersInv, NotYetBegun, OthersKept
<1>3. ASSUME Comments!HandOver \/ Comments!Settle \/ Comments!Answered \/ Comments!AfterVerify \/ Comments!Record
      PROVE OthersInv'
  <2>1. UNCHANGED <<commentsTree, head, before, changed, leftovers, snap>> /\ commentsPc' # "start"
    BY <1>3 DEF Comments!HandOver, Comments!Settle, Comments!Answered, Comments!AfterVerify, Comments!Record
  <2> QED BY <2>1 DEF OthersInv, NotYetBegun, OthersKept
<1>4. ASSUME Comments!AgentRuns PROVE OthersInv'
  <2>1. /\ \E fs \in SUBSET Files : commentsTree' = Comments!Wrote("agent", fs)
        /\ UNCHANGED <<head, before, changed, leftovers, snap>> /\ commentsPc' = "batch"
    BY <1>4 DEF Comments!AgentRuns
  <2> QED BY <2>1, <1>0, OthersWritten, OthersAdded
<1>5. ASSUME Comments!GateStarts \/ Comments!SuiteStarts PROVE OthersInv'
  <2>1. /\ UNCHANGED <<commentsTree, head, before, changed, leftovers>>
        /\ snap' = commentsTree \/ snap' = Unread
        /\ commentsPc' # "start"
    BY <1>5 DEF Comments!GateStarts, Comments!SuiteStarts, Comments!Snapshot
  <2> QED BY <2>1 DEF OthersInv, NotYetBegun, OthersKept
<1>6. ASSUME Comments!GateRuns PROVE OthersInv'
  <2>1. /\ (\E fs \in SUBSET Files : commentsTree' = Comments!Wrote("gate", fs)) \/ commentsTree' = commentsTree
        /\ UNCHANGED <<head, before, changed, leftovers, snap>> /\ commentsPc' = "gated"
    BY <1>6 DEF Comments!GateRuns
  <2>2. CASE commentsTree' = commentsTree
    BY <2>1, <2>2 DEF OthersInv, NotYetBegun, OthersKept
  <2> QED BY <2>1, <2>2, <1>0, OthersWritten, OthersAdded
<1>7. ASSUME Comments!SuiteRuns PROVE OthersInv'
  <2>1. /\ (\E fs \in SUBSET Files : commentsTree' = Comments!Wrote("suite", fs)) \/ commentsTree' = commentsTree
        /\ UNCHANGED <<head, before, changed, leftovers, snap>> /\ commentsPc' = "checked"
    BY <1>7 DEF Comments!SuiteRuns
  <2>2. CASE commentsTree' = commentsTree
    BY <2>1, <2>2 DEF OthersInv, NotYetBegun, OthersKept
  <2> QED BY <2>1, <2>2, <1>0, OthersWritten, OthersAdded
<1>8. ASSUME Comments!GatePutsBack \/ Comments!SuitePutsBack PROVE OthersInv'
  <2>1. /\ UNCHANGED <<head, before, changed, leftovers, snap>> /\ commentsPc' # "start" /\ Comments!PutBack
    BY <1>8 DEF Comments!GatePutsBack, Comments!SuitePutsBack
  <2> QED BY <2>1, OthersPutBack, OthersAdded
<1>9. ASSUME Comments!ReadScope PROVE OthersInv'
  <2>1. /\ UNCHANGED <<commentsTree, head, before, leftovers, snap>> /\ commentsPc' = "check"
        /\ \E r : changed' = IF r = Unread THEN Unread ELSE r \ before
    BY <1>9 DEF Comments!ReadScope, Comments!AgentChanged
  <2>2. changed' # Unread => before \cap changed' = {}
    BY <2>1
  <2> QED BY <2>1, <2>2 DEF OthersInv, NotYetBegun, OthersKept
<1>10. ASSUME Comments!Land PROVE OthersInv'
  <2>1. /\ UNCHANGED <<commentsTree, before, changed, leftovers, snap>> /\ commentsPc' = "record"
        /\ \/ head' = [f \in Files |-> IF f \in Comments!Committed THEN commentsTree[f] ELSE head[f]]
              /\ Comments!Committed # {}
           \/ head' = head
    BY <1>10 DEF Comments!Land
  <2>2. CASE head' = head
    BY <2>1, <2>2 DEF OthersInv, NotYetBegun, OthersKept
  <2>3. CASE head' = [f \in Files |-> IF f \in Comments!Committed THEN commentsTree[f] ELSE head[f]]
             /\ Comments!Committed # {}
    <3>1. changed # Unread
      BY <2>3 DEF Comments!Committed
    <3>2. before \cap Comments!Committed = {}
      BY <3>1, CommentsCommitted DEF OthersInv, OthersKept
    <3>3. head' \in Comments!Contents
      BY <2>3 DEF OthersInv, Comments!Contents
    <3>4. \A f \in before : head'[f] = head[f]
      BY <2>3, <3>2 DEF OthersInv, OthersKept
    <3> QED BY <2>1, <3>3, <3>4 DEF OthersInv, NotYetBegun, OthersKept
  <2> QED BY <2>1, <2>2, <2>3
<1>11. ASSUME Comments!Interrupted PROVE OthersInv'
  <2>1. /\ commentsTree' = commentsTree \/ (snap # Unread /\ commentsTree' = snap)
        /\ UNCHANGED <<head, before, changed, snap>> /\ commentsPc' = "stopped"
        /\ \E r : leftovers' = [f \in (IF r = Unread THEN {} ELSE r \ before) |-> commentsTree'[f]]
    BY <1>11 DEF Comments!Interrupted, Comments!Unwound, Comments!AgentChanged
  <2>2. before \cap DOMAIN leftovers' = {}
    BY <2>1
  <2>3. commentsTree' \in Comments!Contents /\ \A f \in before : "before" \in commentsTree'[f]
    BY <2>1 DEF OthersInv, OthersKept
  <2> QED BY <2>1, <2>2, <2>3 DEF OthersInv, NotYetBegun, OthersKept
<1>12. ASSUME Comments!SetAside PROVE OthersInv'
  <2>1. FALSE
    BY <1>12 DEF Comments!SetAside
  <2> QED BY <2>1
<1>13. ASSUME Comments!SessionOpens \/ Comments!Idle PROVE OthersInv'
  <2>1. UNCHANGED <<commentsTree, head, before, changed, leftovers, snap, commentsPc>>
    BY <1>13 DEF Comments!SessionOpens, Comments!Idle, Comments!vars
  <2> QED BY <2>1 DEF OthersInv, NotYetBegun, OthersKept
<1>14. ASSUME Comments!SessionEdits PROVE OthersInv'
  <2>1. /\ \E fs \in SUBSET Files : commentsTree' = Comments!Wrote("session", fs)
        /\ UNCHANGED <<head, before, changed, leftovers, snap, commentsPc>> /\ commentsPc # "start"
    BY <1>14 DEF Comments!SessionEdits, Comments!Running
  <2> QED BY <2>1, <1>0, OthersWritten, OthersAdded
<1>15. CASE UNCHANGED Comments!vars
  BY <1>15 DEF Comments!vars, OthersInv, NotYetBegun, OthersKept
<1> QED
  BY <1>1, <1>2, <1>3, <1>4, <1>5, <1>6, <1>7, <1>8, <1>9, <1>10, <1>11, <1>12, <1>13, <1>14, <1>15
  DEF Comments!Next, Comments!Pass

\* engine.py: what was dirty before a pass stays out of its commits and in the
\* worktree, however many files, items, edits of a session and unreadable
\* worktrees there are.
THEOREM OthersWorkAlwaysStays == Spec => []OthersWorkStays
<1>1. Init => (part = "comments" => OthersInv)
  BY EveryPartStarts, OthersStart
<1>2. (part = "comments" => OthersInv) /\ [Next]_vars => (part = "comments" => OthersInv)'
  BY OnePartMoves, OthersStep
<1>3. (part = "comments" => OthersInv) => OthersWorkStays
  BY DEF OthersInv, OthersKept, OthersWorkStays, Comments!OthersWorkStays
<1> QED BY <1>1, <1>2, <1>3, PTL DEF Spec
-----------------------------------------------------------------------------
(* The fix pass over the findings of a review.                             *)

\* Who may have written in a file: those before the pass in the files they left
\* dirty, the agent anywhere, and a phase that is put back while it lasts.
Mine(f) == IF f \in before THEN {"before", "agent"} ELSE {"agent"}
Phase == {"gating", "gated", "checking", "checked"}
MayHaveWritten(f) == Mine(f) \cup (IF commentsPc \in Phase THEN {"gate", "suite"} ELSE {})

\* The pass has begun: what the commit holds is the agent's, and while a phase
\* runs there is a snapshot without its writes.
AgentsOnly ==
  /\ \A f \in Files : commentsTree[f] \subseteq MayHaveWritten(f) /\ head[f] \subseteq {"agent"}
  /\ commentsPc \in Phase => snap # Unread /\ \A f \in Files : snap[f] \subseteq Mine(f)
  /\ changed # Unread => before \cap changed = {}

Unbegun ==
  /\ changed = {} /\ before = {}
  /\ \A f \in Files : commentsTree[f] \subseteq {"before"} /\ head[f] = {}

ReviewInv ==
  /\ commentsTree \in Review!Contents /\ head \in Review!Contents
  /\ snap # Unread => snap \in Review!Contents
  /\ IF commentsPc \in {"start", "refused"} THEN Unbegun ELSE AgentsOnly

LEMMA ReviewStart == Review!Init => ReviewInv
<1>1. SUFFICES ASSUME Review!Init PROVE ReviewInv
  OBVIOUS
<1>2. PICK fs \in SUBSET Files : commentsTree = [f \in Files |-> IF f \in fs THEN {"before"} ELSE {}]
  BY <1>1 DEF Review!Init
<1>3. head = [f \in Files |-> {}] /\ before = {} /\ changed = {} /\ snap = Unread /\ commentsPc = "start"
  BY <1>1 DEF Review!Init
<1> QED BY <1>2, <1>3 DEF ReviewInv, Unbegun, Review!Contents, Review!Authors

\* A phase's writes: nobody else's are in the worktree while it lasts.
LEMMA PhaseWrites ==
  ASSUME ReviewInv, commentsPc \in Phase, commentsPc' \in Phase, UNCHANGED <<head, before, changed, snap>>,
         NEW who \in {"gate", "suite"}, NEW fs \in SUBSET Files, commentsTree' = Review!Wrote(who, fs)
  PROVE  ReviewInv'
<1>1. commentsTree' = [f \in Files |-> IF f \in fs THEN commentsTree[f] \cup {who} ELSE commentsTree[f]]
  BY DEF Review!Wrote
<1>2. commentsTree' \in Review!Contents
  BY <1>1 DEF ReviewInv, Review!Contents, Review!Authors
<1>3. \A f \in Files : commentsTree'[f] \subseteq MayHaveWritten(f)'
  BY <1>1 DEF ReviewInv, AgentsOnly, MayHaveWritten, Mine, Phase
<1> QED BY <1>2, <1>3 DEF ReviewInv, AgentsOnly, MayHaveWritten, Mine, Phase

\* A step that leaves the worktree, the commit and what is put back alone.
LEMMA ReviewAside ==
  ASSUME ReviewInv, UNCHANGED <<commentsTree, head, before, changed, snap>>,
         commentsPc \notin {"start", "refused"}, commentsPc' \notin {"start", "refused"},
         (commentsPc \in Phase) = (commentsPc' \in Phase)
  PROVE  ReviewInv'
BY DEF ReviewInv, AgentsOnly, MayHaveWritten, Mine

\* A phase begins with a snapshot, and ends with it put back.
LEMMA ReviewPhaseStarts ==
  ASSUME ReviewInv, ConstantsAssumption, snap' = commentsTree,
         UNCHANGED <<commentsTree, head, before, changed>>,
         commentsPc \notin Phase \cup {"start", "refused"}, commentsPc' \in Phase
  PROVE  ReviewInv'
<1>1. snap' # Unread
  BY DEF ConstantsAssumption, Review!FixAssumption, ReviewInv, Review!Contents, Review!Authors
<1>2. \A f \in Files : snap'[f] \subseteq Mine(f) /\ commentsTree[f] \subseteq MayHaveWritten(f)'
  BY DEF ReviewInv, AgentsOnly, MayHaveWritten, Mine
<1> QED BY <1>1, <1>2 DEF ReviewInv, AgentsOnly, Mine, Phase

LEMMA ReviewPhaseEnds ==
  ASSUME ReviewInv, commentsTree' = snap, UNCHANGED <<head, before, changed, snap>>,
         commentsPc \in Phase, commentsPc' \notin Phase \cup {"start", "refused"}
  PROVE  ReviewInv'
BY DEF ReviewInv, AgentsOnly, MayHaveWritten, Mine, Phase

LEMMA ReviewStep ==
  ASSUME ConstantsAssumption, FixEdits = 0, MaxUnread = 0
  PROVE  ReviewInv /\ commentsUnread \in Nat /\ commentsEdits \in Nat /\ [Review!Next]_Review!vars => ReviewInv'
<1> SUFFICES ASSUME ReviewInv, commentsUnread \in Nat, commentsEdits \in Nat, [Review!Next]_Review!vars
             PROVE  ReviewInv'
  OBVIOUS
<1> USE DEF Review!pass, Review!verdicts, Review!ends, Review!ghosts
<1>0. ~(commentsUnread < MaxUnread) /\ ~(commentsEdits < FixEdits)
  OBVIOUS
<1>1. ASSUME Review!RefusedUnread \/ Review!RefusedSession PROVE ReviewInv'
  <2>1. /\ UNCHANGED <<commentsTree, head, before, changed, snap>> /\ commentsPc = "start" /\ commentsPc' = "refused"
    BY <1>1 DEF Review!RefusedUnread, Review!RefusedSession, Review!Refuse
  <2> QED BY <2>1 DEF ReviewInv, Unbegun
<1>2. ASSUME Review!Start PROVE ReviewInv'
  <2>1. /\ before' = {f \in Files : commentsTree[f] # head[f]} /\ commentsPc = "start" /\ commentsPc' = "batch"
        /\ UNCHANGED <<commentsTree, head, changed, snap>>
    BY <1>2 DEF Review!Start, Review!Dirty
  <2>2. \A f \in Files : commentsTree[f] \subseteq Mine(f)' /\ head[f] = {}
    BY <2>1 DEF ReviewInv, Unbegun, Mine
  <2>3. changed = {} /\ "batch" \notin Phase
    BY <2>1 DEF ReviewInv, Unbegun, Phase
  <2> QED BY <2>1, <2>2, <2>3 DEF ReviewInv, AgentsOnly, MayHaveWritten
<1>3. ASSUME Review!HandOver \/ Review!Settle \/ Review!Answered \/ Review!AfterVerify \/ Review!Record
      PROVE ReviewInv'
  <2>1. /\ UNCHANGED <<commentsTree, head, before, changed, snap>>
        /\ commentsPc \in {"batch", "after", "record"} /\ commentsPc' \in {"batch", "agent", "gate", "land", "done"}
    BY <1>3 DEF Review!HandOver, Review!Settle, Review!Answered, Review!AfterVerify, Review!Record
  <2> QED BY <2>1, ReviewAside DEF Phase
<1>4. ASSUME Review!AgentRuns PROVE ReviewInv'
  <2>1. /\ \E fs \in SUBSET Files : commentsTree' = Review!Wrote("agent", fs)
        /\ UNCHANGED <<head, before, changed, snap>> /\ commentsPc = "agent" /\ commentsPc' = "batch"
    BY <1>4 DEF Review!AgentRuns
  <2>2. PICK fs \in SUBSET Files :
          commentsTree' = [f \in Files |-> IF f \in fs THEN commentsTree[f] \cup {"agent"} ELSE commentsTree[f]]
    BY <2>1 DEF Review!Wrote
  <2>3. commentsTree' \in Review!Contents
    BY <2>2 DEF ReviewInv, Review!Contents, Review!Authors
  <2>4. \A f \in Files : commentsTree'[f] \subseteq Mine(f)
    BY <2>1, <2>2 DEF ReviewInv, AgentsOnly, MayHaveWritten, Mine, Phase
  <2> QED BY <2>1, <2>3, <2>4 DEF ReviewInv, AgentsOnly, MayHaveWritten, Mine, Phase
<1>5. ASSUME Review!GateStarts \/ Review!SuiteStarts PROVE ReviewInv'
  <2>1. /\ UNCHANGED <<commentsTree, head, before, changed>> /\ snap' = commentsTree
        /\ commentsPc \in {"gate", "check"} /\ commentsPc' \in {"gating", "checking"}
    BY <1>5, <1>0 DEF Review!GateStarts, Review!SuiteStarts, Review!Snapshot
  <2> QED BY <2>1, ReviewPhaseStarts DEF Phase
<1>6. ASSUME Review!GateRuns \/ Review!SuiteRuns PROVE ReviewInv'
  <2>1. /\ UNCHANGED <<head, before, changed, snap>>
        /\ commentsPc \in {"gating", "checking"} /\ commentsPc' \in {"gated", "checked"}
        /\ \/ \E fs \in SUBSET Files, who \in {"gate", "suite"} : commentsTree' = Review!Wrote(who, fs)
           \/ commentsTree' = commentsTree
    BY <1>6 DEF Review!GateRuns, Review!SuiteRuns
  <2>2. CASE commentsTree' = commentsTree
    BY <2>1, <2>2, ReviewAside DEF Phase
  <2>3. ASSUME NEW fs \in SUBSET Files, NEW who \in {"gate", "suite"}, commentsTree' = Review!Wrote(who, fs)
        PROVE ReviewInv'
    BY <2>1, <2>3, PhaseWrites DEF Phase
  <2> QED BY <2>1, <2>2, <2>3
<1>7. ASSUME Review!GatePutsBack \/ Review!SuitePutsBack PROVE ReviewInv'
  <2>1. /\ UNCHANGED <<head, before, changed, snap>>
        /\ commentsPc \in {"gated", "checked"} /\ commentsPc' \in {"scope", "after"}
        /\ commentsTree' = snap \/ snap = Unread
    BY <1>7, <1>0 DEF Review!GatePutsBack, Review!SuitePutsBack, Review!PutBack
  <2>2. snap # Unread
    BY <2>1 DEF ReviewInv, AgentsOnly, Phase
  <2> QED BY <2>1, <2>2, ReviewPhaseEnds DEF Phase
<1>8. ASSUME Review!ReadScope PROVE ReviewInv'
  <2>1. /\ UNCHANGED <<commentsTree, head, before, snap>> /\ commentsPc = "scope" /\ commentsPc' = "check"
        /\ \E r : changed' = IF r = Unread THEN Unread ELSE r \ before
    BY <1>8 DEF Review!ReadScope, Review!AgentChanged
  <2>2. changed' # Unread => before \cap changed' = {}
    BY <2>1
  <2> QED BY <2>1, <2>2 DEF ReviewInv, AgentsOnly, MayHaveWritten, Mine, Phase
<1>9. ASSUME Review!Land PROVE ReviewInv'
  <2>1. /\ UNCHANGED <<commentsTree, before, changed, snap>> /\ commentsPc = "land" /\ commentsPc' = "record"
        /\ \/ head' = [f \in Files |-> IF f \in Review!Committed THEN commentsTree[f] ELSE head[f]]
              /\ Review!Committed # {}
           \/ head' = head
    BY <1>9 DEF Review!Land
  <2>2. CASE head' = head
    BY <2>1, <2>2, ReviewAside DEF Phase
  <2>3. CASE head' = [f \in Files |-> IF f \in Review!Committed THEN commentsTree[f] ELSE head[f]]
             /\ Review!Committed # {}
    <3>1. before \cap Review!Committed = {}
      BY <2>1, <2>3 DEF ReviewInv, AgentsOnly, Review!Committed
    <3>2. head' \in Review!Contents
      BY <2>3 DEF ReviewInv, Review!Contents
    <3>3. \A f \in Files : head'[f] \subseteq {"agent"}
      BY <2>1, <2>3, <3>1 DEF ReviewInv, AgentsOnly, MayHaveWritten, Mine, Phase
    <3> QED BY <2>1, <3>2, <3>3 DEF ReviewInv, AgentsOnly, MayHaveWritten, Mine, Phase
  <2> QED BY <2>1, <2>2, <2>3
<1>10. ASSUME Review!Interrupted PROVE ReviewInv'
  <2>1. /\ UNCHANGED <<head, before, changed, snap>> /\ commentsPc' = "stopped"
        /\ commentsPc \notin {"start", "refused"}
        /\ IF commentsPc \in Phase /\ snap # Unread THEN commentsTree' = snap ELSE commentsTree' = commentsTree
    BY <1>10 DEF Review!Interrupted, Review!Unwound, Review!Running, Phase
  <2>2. CASE commentsPc \in Phase
    <3>1. snap # Unread
      BY <2>1, <2>2 DEF ReviewInv, AgentsOnly
    <3> QED BY <2>1, <2>2, <3>1, ReviewPhaseEnds DEF Phase
  <2>3. CASE commentsPc \notin Phase
    BY <2>1, <2>3, ReviewAside DEF Phase
  <2> QED BY <2>2, <2>3
<1>11. ASSUME Review!SetAside PROVE ReviewInv'
  <2>1. /\ UNCHANGED <<head, before, changed, snap>> /\ commentsPc = "stopped" /\ commentsPc' = "aside"
        /\ commentsTree' = [f \in Files |-> IF f \in DOMAIN leftovers /\ commentsTree[f] = leftovers[f]
                                            THEN head[f] ELSE commentsTree[f]]
    BY <1>11 DEF Review!SetAside
  <2>2. commentsTree' \in Review!Contents
    BY <2>1 DEF ReviewInv, Review!Contents
  <2>3. \A f \in Files : commentsTree'[f] \subseteq Mine(f)
    BY <2>1 DEF ReviewInv, AgentsOnly, MayHaveWritten, Mine, Phase
  <2> QED BY <2>1, <2>2, <2>3 DEF ReviewInv, AgentsOnly, MayHaveWritten, Mine, Phase
<1>12. ASSUME Review!SessionOpens PROVE ReviewInv'
  BY <1>12, <1>0 DEF Review!SessionOpens
<1>13. ASSUME Review!SessionEdits PROVE ReviewInv'
  BY <1>13, <1>0 DEF Review!SessionEdits
<1>14. ASSUME Review!Idle \/ UNCHANGED Review!vars PROVE ReviewInv'
  BY <1>14 DEF Review!Idle, Review!vars, ReviewInv, Unbegun, AgentsOnly, MayHaveWritten, Mine
<1> QED
  BY <1>1, <1>2, <1>3, <1>4, <1>5, <1>6, <1>7, <1>8, <1>9, <1>10, <1>11, <1>12, <1>13, <1>14
  DEF Review!Next, Review!Pass

LEMMA ReviewCounts ==
  ASSUME MaxUnread = 0
  PROVE  /\ Review!Init => commentsUnread \in Nat /\ commentsEdits \in Nat
         /\ commentsUnread \in Nat /\ commentsEdits \in Nat /\ [Review!Next]_Review!vars
            => (commentsUnread \in Nat /\ commentsEdits \in Nat)'
<1>1. Review!Init => commentsUnread \in Nat /\ commentsEdits \in Nat
  BY DEF Review!Init
<1>2. ASSUME commentsUnread \in Nat, commentsEdits \in Nat, [Review!Next]_Review!vars
      PROVE  (commentsUnread \in Nat /\ commentsEdits \in Nat)'
  <2> USE DEF Review!pass, Review!verdicts, Review!ends, Review!ghosts, Review!vars
  <2>1. commentsUnread' \in {commentsUnread, commentsUnread + 1}
    BY <1>2
    DEF Review!Next, Review!Pass, Review!RefusedUnread, Review!RefusedSession, Review!Refuse, Review!Start,
        Review!HandOver, Review!AgentRuns, Review!Settle, Review!Answered, Review!GateStarts, Review!GateRuns,
        Review!GatePutsBack, Review!ReadScope, Review!SuiteStarts, Review!SuiteRuns, Review!SuitePutsBack,
        Review!AfterVerify, Review!Land, Review!Record, Review!SetAside, Review!Interrupted, Review!SessionOpens,
        Review!SessionEdits, Review!Idle, Review!Snapshot, Review!PutBack, Review!ReadInto
  <2>2. commentsEdits' \in {commentsEdits, commentsEdits + 1}
    BY <1>2
    DEF Review!Next, Review!Pass, Review!RefusedUnread, Review!RefusedSession, Review!Refuse, Review!Start,
        Review!HandOver, Review!AgentRuns, Review!Settle, Review!Answered, Review!GateStarts, Review!GateRuns,
        Review!GatePutsBack, Review!ReadScope, Review!SuiteStarts, Review!SuiteRuns, Review!SuitePutsBack,
        Review!AfterVerify, Review!Land, Review!Record, Review!SetAside, Review!Interrupted, Review!SessionOpens,
        Review!SessionEdits, Review!Idle
  <2> QED BY <1>2, <2>1, <2>2
<1> QED BY <1>1, <1>2

\* convergence.py: a commit counted as reviewed holds nothing but the work of
\* the agents, as long as nobody else edits meanwhile and the worktree can be
\* read; what was dirty before the pass stays out all the same.
THEOREM CoveredIsAlwaysTheAgents ==
  ASSUME FixEdits = 0, MaxUnread = 0 PROVE Spec => []CoveredIsTheAgents
<1> DEFINE Inv == part = "review" => ReviewInv /\ commentsUnread \in Nat /\ commentsEdits \in Nat
<1>1. Init => Inv
  BY EveryPartStarts, ReviewStart, ReviewCounts
<1>2. Inv /\ [Next]_vars => Inv'
  <2>1. SUFFICES ASSUME Inv, [Next]_vars, part' = "review" PROVE Inv'
    OBVIOUS
  <2>2. part = "review" /\ [Review!Next]_Review!vars
    BY <2>1, OnePartMoves
  <2> QED BY <2>1, <2>2, ReviewStep, ReviewCounts, ConstantsAssumption
<1>3. Inv => CoveredIsTheAgents
  BY DEF ReviewInv, Unbegun, AgentsOnly, CoveredIsTheAgents, Review!CoveredIsTheAgents
<1> QED BY <1>1, <1>2, <1>3, PTL DEF Spec
-----------------------------------------------------------------------------
(* The summaries.                                                          *)

Words == {"none", "ALREADY_ADDRESSED"} \cup Outcomes \cup Texts
Cells == [says : Words, hand : BOOLEAN]
SummaryComments == [cells : [Summary!Keys -> Cells], note : BOOLEAN, created : Nat, updated : Nat]
Runs == [at : {"off", "list", "publish"}, seen : [SummaryRows -> Nat], found : Seq(SummaryComments), other : Nat,
         content : SUBSET SummaryRows, force : SUBSET SummaryReplies]

SummaryTypes ==
  /\ chain \in Seq(SummaryComments) /\ {now, otherAt, wrote} \subseteq Nat /\ spoke \in [SummaryRows -> Nat]
  /\ know \in [Checkouts -> [Summary!Keys -> Words]] /\ run \in [Checkouts -> Runs]
  /\ wrote <= now

\* One run at a time, on the comments that are there; a cell that a person
\* rewrote says something.
SummaryInv ==
  /\ SummaryTypes
  /\ \A c, d \in Checkouts : run[c].at # "off" /\ run[d].at # "off" => c = d
  /\ \A c \in Checkouts : run[c].at = "publish" => run[c].found = chain
  /\ \A i \in DOMAIN chain, k \in Summary!Keys : chain[i].cells[k].hand => Summary!Holds(chain, i, k)

LEMMA SetAt ==
  ASSUME NEW C, NEW s \in Seq(C), NEW i \in DOMAIN s, NEW e \in C
  PROVE  /\ [s EXCEPT ![i] = e] \in Seq(C) /\ DOMAIN [s EXCEPT ![i] = e] = DOMAIN s
         /\ Len([s EXCEPT ![i] = e]) = Len(s) /\ [s EXCEPT ![i] = e][i] = e
         /\ \A j \in DOMAIN s : j # i => [s EXCEPT ![i] = e][j] = s[j]
OBVIOUS

LEMMA SetLast ==
  ASSUME NEW C, NEW s \in Seq(C), NEW e \in C
  PROVE  /\ Append(s, e) \in Seq(C) /\ DOMAIN Append(s, e) = 1..(Len(s) + 1)
         /\ Append(s, e)[Len(s) + 1] = e /\ \A j \in DOMAIN s : Append(s, e)[j] = s[j]
OBVIOUS

\* What a reader finds of a key that one comment has.
LEMMA NewestOfOne ==
  ASSUME NEW s, NEW k, NEW i \in Int, Summary!HeldBy(s, k) = {i}
  PROVE  Summary!Newest(s, k) = s[i].cells[k]
<1>1. (CHOOSE j \in {i} : \A l \in {i} : l <= j) = i
  OBVIOUS
<1> QED BY <1>1 DEF Summary!Newest

LEMMA NewestOfTwo ==
  ASSUME NEW s, NEW k, NEW i \in Int, NEW n \in Int, i <= n, Summary!HeldBy(s, k) = {i, n}
  PROVE  Summary!Newest(s, k) = s[n].cells[k]
<1>1. (CHOOSE j \in {i, n} : \A l \in {i, n} : l <= j) = n
  <2>1. n \in {i, n} /\ \A l \in {i, n} : l <= n
    OBVIOUS
  <2>2. \A j \in {i, n} : (\A l \in {i, n} : l <= j) => j = n
    OBVIOUS
  <2> QED BY <2>1, <2>2
<1> QED BY <1>1 DEF Summary!Newest

LEMMA EveryDescentEnds == IsWellFoundedOn({ss \in Nat \X Nat : ss[1] < ss[2]}, Nat)
BY NatLessThanWellFounded DEF OpToRel

LEMMA SomeIsNewest ==
  ASSUME NEW n \in Nat, NEW H \in SUBSET (1..n), H # {}
  PROVE  \E i \in H : \A j \in H : j <= i
<1> DEFINE T == {n - i : i \in H}
           R == {ss \in Nat \X Nat : ss[1] < ss[2]}
<1>0. \A i \in H : i \in 1..n /\ n - i \in Nat
  OBVIOUS
<1>1. T \subseteq Nat /\ T # {}
  BY <1>0
<1>2. \E x \in T : \A y \in T : ~(<<y, x>> \in R)
  <2> HIDE DEF R, T
  <2> QED BY <1>1, EveryDescentEnds, WFMin DEF R
<1>3. PICK x \in T : \A y \in T : ~(<<y, x>> \in R)
  BY <1>2
<1>4. PICK i \in H : x = n - i
  OBVIOUS
<1>5. ASSUME NEW j \in H PROVE j <= i
  <2>1. n - j \in T /\ n - j \in Nat /\ x \in Nat
    BY <1>1
  <2>2. ~(<<n - j, x>> \in R)
    BY <2>1, <1>3
  <2>3. ~(n - j < x)
    BY <2>1, <2>2
  <2> QED BY <2>3, <1>4
<1> QED BY <1>5

LEMMA NewestIsACell ==
  ASSUME NEW s \in Seq(SummaryComments), NEW k \in Summary!Keys
  PROVE  /\ Summary!Newest(s, k) \in Cells
         /\ Summary!Newest(s, k) = Summary!Blank \/ \E i \in DOMAIN s : Summary!Newest(s, k) = s[i].cells[k]
<1> DEFINE H == Summary!HeldBy(s, k)
<1>1. CASE H = {}
  BY <1>1 DEF Summary!Newest, Summary!Blank, Cells, Words
<1>2. CASE H # {}
  <2>1. H \in SUBSET (1..Len(s)) /\ Len(s) \in Nat
    BY DEF Summary!HeldBy
  <2>2. \E i \in H : \A j \in H : j <= i
    BY <2>1, <1>2, SomeIsNewest
  <2>3. (CHOOSE i \in H : \A j \in H : j <= i) \in H
    BY <2>2
  <2> DEFINE i == CHOOSE i \in H : \A j \in H : j <= i
  <2>4. Summary!Newest(s, k) = s[i].cells[k] /\ i \in DOMAIN s
    <3>1. i \in DOMAIN s
      BY <2>1, <2>3
    <3>2. Summary!Newest(s, k) = s[i].cells[k]
      BY <1>2 DEF Summary!Newest
    <3> QED BY <3>1, <3>2
  <2> HIDE DEF i
  <2>5. s[i] \in SummaryComments
    BY <2>4
  <2> QED BY <2>4, <2>5 DEF SummaryComments
<1> QED BY <1>1, <1>2

\* A cell of a round's body is what a reader finds now, ours, one of the comment
\* the round edits, or blank.
LEMMA BodyIsOfCells ==
  ASSUME NEW r \in Runs, NEW mine \in [Summary!Keys -> Words], NEW answered \in BOOLEAN,
         \A i \in DOMAIN r.found, k \in Summary!Keys : r.found[i].cells[k].hand => Summary!Holds(r.found, i, k)
  PROVE  /\ Summary!Body(r, mine, answered) \in [Summary!Keys -> Cells]
         /\ \A k \in Summary!Keys : Summary!Body(r, mine, answered)[k].hand
                                      => Summary!Body(r, mine, answered)[k].says # "none"
<1> DEFINE body == Summary!Body(r, mine, answered)
<1>1. r.found \in Seq(SummaryComments)
  BY DEF Runs
<1>2. ASSUME NEW k \in Summary!Keys PROVE body[k] \in Cells /\ (body[k].hand => body[k].says # "none")
  <2>1. \/ body[k] = Summary!Newest(r.found, k)
        \/ body[k] = [says |-> Summary!Word(mine[k]), hand |-> FALSE]
        \/ r.found # <<>> /\ body[k] = Summary!Target(r.found).cells[k]
        \/ body[k] = Summary!Blank
    BY DEF Summary!Body, Summary!CarriedOver, Summary!KeptReplies
  <2>2. CASE body[k] = Summary!Newest(r.found, k)
    <3>1. body[k] \in Cells
      BY <1>1, <2>2, NewestIsACell
    <3>2. body[k] = Summary!Blank \/ \E i \in DOMAIN r.found : body[k] = r.found[i].cells[k]
      BY <1>1, <2>2, NewestIsACell
    <3> HIDE DEF body
    <3> QED BY <3>1, <3>2 DEF Summary!Holds, Summary!Blank
  <2>3. CASE body[k] = [says |-> Summary!Word(mine[k]), hand |-> FALSE]
    <3> HIDE DEF body
    <3> QED BY <2>3 DEF Cells, Summary!Word, Words
  <2>4. CASE r.found # <<>> /\ body[k] = Summary!Target(r.found).cells[k]
    <3>1. Len(r.found) \in DOMAIN r.found /\ r.found[Len(r.found)] \in SummaryComments
      BY <1>1, <2>4
    <3> HIDE DEF body
    <3> QED BY <2>4, <3>1 DEF Summary!Target, SummaryComments, Summary!Holds
  <2>5. CASE body[k] = Summary!Blank
    <3> HIDE DEF body
    <3> QED BY <2>5 DEF Cells, Words, Summary!Blank
  <2> QED BY <2>1, <2>2, <2>3, <2>4, <2>5
<1>3. body = [k \in Summary!Keys |-> body[k]]
  BY DEF Summary!Body
<1> HIDE DEF body
<1>4. body \in [Summary!Keys -> Cells]
  BY <1>2, <1>3
<1> QED BY <1>2, <1>4 DEF body

LEMMA SummaryStart == Summary!Init => SummaryInv
<1> SUFFICES ASSUME Summary!Init PROVE SummaryInv
  OBVIOUS
<1>1. chain = <<>> /\ run = [c \in Checkouts |-> Summary!Off] /\ Summary!Off \in Runs /\ Summary!Off.at = "off"
  BY DEF Summary!Init, Summary!Off, Runs
<1>2. know = [c \in Checkouts |-> [k \in Summary!Keys |-> "none"]] /\ spoke = [k \in SummaryRows |-> 1]
      /\ now = 1 /\ otherAt = 0 /\ wrote = 0
  BY DEF Summary!Init
<1>3. know \in [Checkouts -> [Summary!Keys -> Words]]
  BY <1>2 DEF Words
<1> QED BY <1>1, <1>2, <1>3 DEF SummaryInv, SummaryTypes

\* A step of a run c that is on, when no other is.
LEMMA RunMoves ==
  ASSUME SummaryInv, NEW c \in Checkouts, NEW r \in Runs, run' = [run EXCEPT ![c] = r],
         run[c].at # "off" \/ \A d \in Checkouts : run[d].at = "off",
         r.at = "publish" => r.found = chain,
         UNCHANGED <<chain, now, otherAt, spoke, know, wrote>>
  PROVE  SummaryInv'
BY DEF SummaryInv, SummaryTypes, Summary!Holds

\* A run c that has written is over: no other was on.
LEMMA RunEnds ==
  ASSUME SummaryInv, NEW c \in Checkouts, run' = [run EXCEPT ![c] = Summary!Off], run[c].at # "off"
  PROVE  run' \in [Checkouts -> Runs] /\ \A d \in Checkouts : run'[d].at = "off"
<1>1. Summary!Off \in Runs /\ Summary!Off.at = "off"
  BY DEF Summary!Off, Runs
<1> QED BY <1>1 DEF SummaryInv, SummaryTypes

\* A comment is written, with no run on.
LEMMA CommentWritten ==
  ASSUME SummaryInv, NEW e \in SummaryComments, \A k \in Summary!Keys : e.cells[k].hand => e.cells[k].says # "none",
         (\E i \in DOMAIN chain : chain' = [chain EXCEPT ![i] = e]) \/ chain' = Append(chain, e),
         now' = now + 1, wrote' \in {wrote, now'}, UNCHANGED <<otherAt, spoke, know>>,
         run' \in [Checkouts -> Runs], \A d \in Checkouts : run'[d].at = "off"
  PROVE  SummaryInv'
<1>1. chain \in Seq(SummaryComments)
  BY DEF SummaryInv, SummaryTypes
<1>2. chain' \in Seq(SummaryComments)
      /\ \A i \in DOMAIN chain' : chain'[i] = e \/ (i \in DOMAIN chain /\ chain'[i] = chain[i])
  <2>1. ASSUME NEW i \in DOMAIN chain, chain' = [chain EXCEPT ![i] = e] PROVE <1>2!1 /\ <1>2!2
    BY <1>1, <2>1, SetAt
  <2>2. ASSUME chain' = Append(chain, e) PROVE <1>2!1 /\ <1>2!2
    BY <1>1, <2>2, SetLast
  <2> QED BY <2>1, <2>2
<1>3. \A i \in DOMAIN chain', k \in Summary!Keys : chain'[i].cells[k].hand => chain'[i].cells[k].says # "none"
  BY <1>2 DEF SummaryInv, Summary!Holds
<1>4. {now', otherAt', wrote'} \subseteq Nat /\ wrote' <= now'
  BY DEF SummaryInv, SummaryTypes
<1> QED BY <1>2, <1>3, <1>4 DEF SummaryInv, SummaryTypes, Summary!Holds

\* A run that edits goes on from the newest comment, and no reader of it has
\* written below; one that posts may leave out what is elsewhere.
LEMMA EditDoes ==
  ASSUME SummaryInv, NEW c \in Checkouts, Summary!Edit(c)
  PROVE  /\ chain # <<>> /\ run[c].found = chain /\ run[c].at = "publish"
         /\ chain' = [chain EXCEPT ![Len(chain)] =
              [chain[Len(chain)] EXCEPT !.cells = Summary!Body(run[c], know[c], FALSE),
                                        !.note = chain[Len(chain)].note, !.updated = now']]
         /\ now' = now + 1 /\ wrote' = now' /\ run' = [run EXCEPT ![c] = Summary!Off]
         /\ UNCHANGED <<otherAt, spoke, know>>
<1>1. run[c].at = "publish" /\ run[c].found = chain
  BY DEF Summary!Edit, SummaryInv
<1>2. Summary!InPlace(run[c], know[c]) /\ run[c].found # <<>>
  BY DEF Summary!Edit, Summary!InPlace
<1>3. Summary!BodyOf(c) = Summary!Body(run[c], know[c], FALSE)
  <2>1. (run[c].found # <<>> /\ ~Summary!InPlace(run[c], know[c])) = FALSE
    BY <1>2
  <2> QED BY <2>1 DEF Summary!BodyOf
<1> QED BY <1>1, <1>2, <1>3 DEF Summary!Edit, Summary!EditNote, Summary!Target

LEMMA PostDoes ==
  ASSUME SummaryInv, NEW c \in Checkouts, Summary!Post(c)
  PROVE  /\ run[c].found = chain /\ run[c].at = "publish"
         /\ chain' = Append(chain, [cells |-> Summary!Body(run[c], know[c], chain # <<>>), note |-> FALSE,
                                    created |-> now', updated |-> now'])
         /\ now' = now + 1 /\ wrote' = now' /\ run' = [run EXCEPT ![c] = Summary!Off]
         /\ UNCHANGED <<otherAt, spoke, know>>
<1>1. run[c].at = "publish" /\ run[c].found = chain
  BY DEF Summary!Post, SummaryInv
<1>2. (run[c].found # <<>> /\ ~Summary!InPlace(run[c], know[c])) = (chain # <<>>)
  BY <1>1 DEF Summary!Post
<1> QED BY <1>1, <1>2 DEF Summary!Post, Summary!BodyOf

\* The cells a run writes.
LEMMA BodyOfARun ==
  ASSUME SummaryInv, NEW c \in Checkouts, run[c].found = chain, NEW answered \in BOOLEAN
  PROVE  /\ Summary!Body(run[c], know[c], answered) \in [Summary!Keys -> Cells]
         /\ \A k \in Summary!Keys : Summary!Body(run[c], know[c], answered)[k].hand
                                      => Summary!Body(run[c], know[c], answered)[k].says # "none"
<1>1. run[c] \in Runs /\ know[c] \in [Summary!Keys -> Words]
  BY DEF SummaryInv, SummaryTypes
<1>2. \A i \in DOMAIN run[c].found, k \in Summary!Keys :
        run[c].found[i].cells[k].hand => Summary!Holds(run[c].found, i, k)
  BY DEF SummaryInv
<1> QED BY <1>1, <1>2, BodyIsOfCells

LEMMA SummaryStep ==
  ASSUME ~RunsRace, ~ListFails
  PROVE  SummaryInv /\ [Summary!Next]_Summary!vars => SummaryInv'
<1> SUFFICES ASSUME SummaryInv, [Summary!Next]_Summary!vars PROVE SummaryInv'
  OBVIOUS
<1>0. /\ chain \in Seq(SummaryComments) /\ run \in [Checkouts -> Runs]
      /\ now \in Nat /\ otherAt \in Nat /\ wrote \in Nat /\ wrote <= now
      /\ know \in [Checkouts -> [Summary!Keys -> Words]] /\ spoke \in [SummaryRows -> Nat]
  BY DEF SummaryInv, SummaryTypes
<1>1. ASSUME NEW c \in Checkouts, Summary!Fetch(c) PROVE SummaryInv'
  <2>1. PICK content \in SUBSET Summary!Known(c),
             force \in {{}} \cup {{k} : k \in Summary!AnswersOf(know[c])} :
          run' = [run EXCEPT ![c] = [Summary!Off EXCEPT !.at = "list", !.seen = spoke, !.content = content,
                                                        !.force = force]]
    BY <1>1 DEF Summary!Fetch
  <2> DEFINE r == [Summary!Off EXCEPT !.at = "list", !.seen = spoke, !.content = content, !.force = force]
  <2>2. content \in SUBSET SummaryRows /\ force \in SUBSET SummaryReplies
    BY DEF Summary!Known, Summary!AnswersOf
  <2>3. r \in Runs /\ r.at = "list"
    <3>1. Summary!Off \in Runs
      BY DEF Summary!Off, Runs
    <3> QED BY <1>0, <2>2, <3>1 DEF Runs
  <2>4. \A d \in Checkouts : run[d].at = "off"
    BY <1>1 DEF Summary!Fetch, Summary!Idle
  <2> HIDE DEF r
  <2> QED BY <2>1, <2>3, <2>4, <1>1, RunMoves DEF Summary!Fetch, r
<1>2. ASSUME NEW c \in Checkouts, Summary!List(c) PROVE SummaryInv'
  <2> DEFINE r == [run[c] EXCEPT !.at = "publish", !.found = chain, !.other = otherAt]
  <2>1. /\ run' = [run EXCEPT ![c] = r] /\ run[c].at = "list"
        /\ UNCHANGED <<chain, now, otherAt, spoke, know, wrote>>
    BY <1>2, <1>0 DEF Summary!List
  <2>2. run[c] \in Runs
    BY <1>0
  <2>3. r \in Runs /\ r.found = chain
    BY <1>0, <2>2 DEF Runs
  <2> HIDE DEF r
  <2> QED BY <2>1, <2>3, RunMoves
<1>3. ASSUME NEW c \in Checkouts, Summary!Edit(c) PROVE SummaryInv'
  <2> DEFINE n == Len(chain)
             body == Summary!Body(run[c], know[c], FALSE)
             e == [chain[n] EXCEPT !.cells = body, !.note = chain[n].note, !.updated = now']
  <2>1. /\ chain # <<>> /\ run[c].found = chain /\ run[c].at = "publish" /\ chain' = [chain EXCEPT ![n] = e]
        /\ now' = now + 1 /\ wrote' = now' /\ run' = [run EXCEPT ![c] = Summary!Off]
        /\ UNCHANGED <<otherAt, spoke, know>>
    BY <1>3, EditDoes
  <2>2. n \in DOMAIN chain /\ chain[n] \in SummaryComments
    BY <1>0, <2>1
  <2>3. body \in [Summary!Keys -> Cells] /\ \A k \in Summary!Keys : body[k].hand => body[k].says # "none"
    BY <2>1, BodyOfARun
  <2> HIDE DEF body
  <2>4. e \in SummaryComments /\ e.cells = body
    <3>1. now' \in Nat
      BY <1>0, <2>1
    <3> QED BY <2>2, <2>3, <3>1 DEF SummaryComments
  <2> HIDE DEF e, n
  <2> QED BY <2>1, <2>2, <2>3, <2>4, RunEnds, CommentWritten
<1>4. ASSUME NEW c \in Checkouts, Summary!Post(c) PROVE SummaryInv'
  <2> DEFINE body == Summary!Body(run[c], know[c], chain # <<>>)
             e == [cells |-> body, note |-> FALSE, created |-> now', updated |-> now']
  <2>1. /\ run[c].found = chain /\ run[c].at = "publish" /\ chain' = Append(chain, e)
        /\ now' = now + 1 /\ wrote' = now' /\ run' = [run EXCEPT ![c] = Summary!Off]
        /\ UNCHANGED <<otherAt, spoke, know>>
    BY <1>4, PostDoes
  <2>2. body \in [Summary!Keys -> Cells] /\ \A k \in Summary!Keys : body[k].hand => body[k].says # "none"
    <3>1. (chain # <<>>) \in BOOLEAN
      OBVIOUS
    <3> QED BY <2>1, <3>1, BodyOfARun
  <2> HIDE DEF body
  <2>3. e \in SummaryComments /\ e.cells = body
    BY <1>0, <2>1, <2>2 DEF SummaryComments
  <2> HIDE DEF e
  <2> QED BY <2>1, <2>2, <2>3, RunEnds, CommentWritten
<1>5. ASSUME NEW c \in Checkouts, Summary!GiveUp(c) PROVE SummaryInv'
  <2>1. Summary!Off \in Runs /\ Summary!Off.at = "off"
    BY DEF Summary!Off, Runs
  <2> QED BY <1>5, <2>1, RunMoves DEF Summary!GiveUp
<1>6. ASSUME NEW c \in Checkouts, NEW k \in Summary!Keys, Summary!Record(c, k) PROVE SummaryInv'
  <2>1. PICK x \in Outcomes \cup Texts : know' = [know EXCEPT ![c][k] = x]
    BY <1>6 DEF Summary!Record
  <2>2. know' \in [Checkouts -> [Summary!Keys -> Words]]
    BY <1>0, <2>1 DEF Words
  <2>3. UNCHANGED <<chain, now, otherAt, spoke, run, wrote>>
    BY <1>6 DEF Summary!Record
  <2> QED BY <2>2, <2>3 DEF SummaryInv, SummaryTypes, Summary!Holds
<1>7. ASSUME Summary!Comment \/ \E k \in SummaryRows \ Summary!Items : Summary!Speak(k) PROVE SummaryInv'
  <2>1. UNCHANGED <<chain, know, run, wrote>> /\ now' = now + 1 /\ otherAt' \in {otherAt, now'}
        /\ spoke' \in [SummaryRows -> Nat]
    BY <1>0, <1>7 DEF Summary!Comment, Summary!Speak
  <2> QED BY <1>0, <2>1 DEF SummaryInv, SummaryTypes, Summary!Holds
<1>8. ASSUME NEW i \in DOMAIN chain, NEW comment \in SummaryComments,
             \A k \in Summary!Keys : comment.cells[k].hand => comment.cells[k].says # "none",
             Summary!HandEdit(i, comment)
      PROVE SummaryInv'
  <2> DEFINE e == [comment EXCEPT !.updated = now']
  <2>1. chain' = [chain EXCEPT ![i] = e] /\ now' = now + 1 /\ UNCHANGED <<otherAt, spoke, know, run, wrote>>
    BY <1>8 DEF Summary!HandEdit
  <2>2. e \in SummaryComments /\ e.cells = comment.cells
    <3>1. now' \in Nat
      BY <1>0, <2>1
    <3> QED BY <3>1 DEF SummaryComments
  <2>3. \A d \in Checkouts : run[d].at = "off"
    BY <1>8 DEF Summary!HandEdit, Summary!Idle
  <2> HIDE DEF e
  <2> QED BY <1>0, <1>8, <2>1, <2>2, <2>3, CommentWritten
<1>9. ASSUME NEW i \in DOMAIN chain, NEW k \in Summary!Keys, Summary!Rewrite(i, k) \/ Summary!TakeOut(i, k)
      PROVE SummaryInv'
  <2>1. /\ chain[i] \in SummaryComments
        /\ \A q \in Summary!Keys : chain[i].cells[q].hand => chain[i].cells[q].says # "none"
    BY <1>0 DEF SummaryInv, Summary!Holds
  <2>2. CASE Summary!Rewrite(i, k)
    <3> DEFINE e == [chain[i] EXCEPT !.cells[k].hand = TRUE]
    <3>1. Summary!HandEdit(i, e) /\ chain[i].cells[k].says # "none"
      BY <2>2 DEF Summary!Rewrite, Summary!Holds
    <3>2. chain[i].cells \in [Summary!Keys -> Cells]
      BY <2>1 DEF SummaryComments
    <3>3. e = [chain[i] EXCEPT !.cells = [chain[i].cells EXCEPT ![k] = [chain[i].cells[k] EXCEPT !.hand = TRUE]]]
      OBVIOUS
    <3>4. [chain[i].cells[k] EXCEPT !.hand = TRUE] \in Cells
          /\ [chain[i].cells[k] EXCEPT !.hand = TRUE].says = chain[i].cells[k].says
      BY <3>2 DEF Cells
    <3>5. e \in SummaryComments /\ e.cells = [chain[i].cells EXCEPT ![k] = [chain[i].cells[k] EXCEPT !.hand = TRUE]]
      BY <2>1, <3>2, <3>3, <3>4 DEF SummaryComments
    <3>6. \A q \in Summary!Keys : e.cells[q].hand => e.cells[q].says # "none"
      BY <2>1, <3>1, <3>2, <3>4, <3>5
    <3> HIDE DEF e
    <3> QED BY <1>8, <3>1, <3>5, <3>6
  <2>3. CASE Summary!TakeOut(i, k)
    <3> DEFINE e == [chain[i] EXCEPT !.cells[k] = Summary!Blank]
    <3>1. Summary!HandEdit(i, e)
      BY <2>3 DEF Summary!TakeOut
    <3>2. chain[i].cells \in [Summary!Keys -> Cells] /\ Summary!Blank \in Cells /\ ~Summary!Blank.hand
      BY <2>1 DEF SummaryComments, Summary!Blank, Cells, Words
    <3>3. e \in SummaryComments /\ e.cells = [chain[i].cells EXCEPT ![k] = Summary!Blank]
      BY <2>1, <3>2 DEF SummaryComments
    <3>4. \A q \in Summary!Keys : e.cells[q].hand => e.cells[q].says # "none"
      BY <2>1, <3>2, <3>3
    <3> HIDE DEF e
    <3> QED BY <1>8, <3>1, <3>3, <3>4
  <2> QED BY <1>9, <2>2, <2>3
<1>10. ASSUME NEW i \in DOMAIN chain, Summary!AddNote(i) PROVE SummaryInv'
  <2> DEFINE e == [chain[i] EXCEPT !.note = TRUE]
  <2>1. /\ chain[i] \in SummaryComments
        /\ \A q \in Summary!Keys : chain[i].cells[q].hand => chain[i].cells[q].says # "none"
    BY <1>0 DEF SummaryInv, Summary!Holds
  <2>2. e \in SummaryComments /\ e.cells = chain[i].cells /\ Summary!HandEdit(i, e)
    BY <1>10, <2>1 DEF SummaryComments, Summary!AddNote
  <2> HIDE DEF e
  <2> QED BY <1>8, <2>1, <2>2
<1>11. CASE UNCHANGED Summary!vars
  BY <1>11 DEF Summary!vars, SummaryInv, SummaryTypes, Summary!Holds
<1> QED
  BY <1>1, <1>2, <1>3, <1>4, <1>5, <1>6, <1>7, <1>9, <1>10, <1>11 DEF Summary!Next

\* A row that one comment has and a person rewrote: a body has that cell, or
\* nothing, and the body that replaces that comment has it.
LEMMA RowOfOne ==
  ASSUME NEW r, r.found \in Seq(SummaryComments), NEW mine, NEW answered \in BOOLEAN,
         NEW k \in SummaryRows, NEW i \in Int, Summary!HeldBy(r.found, k) = {i},
         SummaryRows \cap SummaryReplies = {},
         r.found[i].cells[k].hand, k \notin Summary!FoldedAway(r.content)
  PROVE  /\ Summary!Body(r, mine, answered)[k] \in {r.found[i].cells[k], Summary!Blank}
         /\ ~answered /\ i = Len(r.found) => Summary!Body(r, mine, answered)[k] = r.found[i].cells[k]
<1> DEFINE fresh == Summary!Fresh(r, mine, answered)
           replies == Summary!FreshReplies(r, mine, answered)
           kept == Summary!CarriedOver(r, fresh, answered) \cup Summary!KeptReplies(r, mine, answered)
           cell == r.found[i].cells[k]
<1>0. k \in Summary!Keys /\ k \notin SummaryReplies /\ i \in DOMAIN r.found
  BY DEF Summary!Keys, Summary!HeldBy
<1>1. Summary!Newest(r.found, k) = cell
  BY NewestOfOne
<1>2. k \notin replies /\ k \notin Summary!KeptReplies(r, mine, answered)
  BY <1>0 DEF Summary!FreshReplies, Summary!AnswersOf, Summary!KeptReplies
<1>3. k \in Summary!HandWritten(r, fresh) <=> k \in fresh
  BY <1>1 DEF Summary!HandWritten
<1>4. Summary!Body(r, mine, answered)[k] =
        IF k \in Summary!HandWritten(r, fresh) THEN Summary!Newest(r.found, k)
        ELSE IF k \in fresh \cup replies THEN [says |-> Summary!Word(mine[k]), hand |-> FALSE]
        ELSE IF k \in kept THEN Summary!Target(r.found).cells[k]
        ELSE Summary!Blank
  BY <1>0 DEF Summary!Body
<1>5. k \in Summary!CarriedOver(r, fresh, answered) => i = Len(r.found)
  BY DEF Summary!CarriedOver, Summary!TargetOwn
<1>6. ~answered /\ i = Len(r.found) /\ k \notin fresh => k \in Summary!CarriedOver(r, fresh, answered)
  <2>1. ASSUME i = Len(r.found) PROVE k \in Summary!TargetOwn(r.found) /\ k \notin Summary!Elsewhere(r.found)
    BY <1>0, <2>1 DEF Summary!TargetOwn, Summary!Elsewhere
  <2>2. r.found # <<>>
    BY <1>0
  <2> QED BY <2>1, <2>2 DEF Summary!CarriedOver
<1> HIDE DEF fresh, replies, cell
<1>7. CASE k \in fresh
  BY <1>1, <1>3, <1>4, <1>7 DEF cell
<1>8. CASE k \notin fresh
  BY <1>2, <1>3, <1>4, <1>5, <1>6, <1>8 DEF cell, Summary!Target
<1> QED BY <1>7, <1>8

\* The block of a reply that a person rewrote, on the comment a round edits.
LEMMA ReplyKept ==
  ASSUME NEW r, r.found \in Seq(SummaryComments), r.found # <<>>, NEW mine,
         NEW k \in SummaryReplies, SummaryRows \cap SummaryReplies = {}, k \notin r.force,
         r.found[Len(r.found)].cells[k].hand, Summary!Holds(r.found, Len(r.found), k)
  PROVE  Summary!Body(r, mine, FALSE)[k] = r.found[Len(r.found)].cells[k]
<1> DEFINE fresh == Summary!Fresh(r, mine, FALSE)
           replies == Summary!FreshReplies(r, mine, FALSE)
           kept == Summary!CarriedOver(r, fresh, FALSE) \cup Summary!KeptReplies(r, mine, FALSE)
<1>1. k \in Summary!Keys /\ k \notin fresh /\ k \notin Summary!HandWritten(r, fresh)
  BY DEF Summary!Keys, Summary!Fresh, Summary!HandWritten
<1>2. Len(r.found) \in DOMAIN r.found
  OBVIOUS
<1>3. k \in Summary!KeptReplies(r, mine, FALSE)
  BY <1>1, <1>2 DEF Summary!KeptReplies, Summary!TargetOwn, Summary!HeldBy, Summary!Target
<1>4. k \notin replies
  BY <1>3 DEF Summary!FreshReplies
<1>5. Summary!Body(r, mine, FALSE)[k] =
        IF k \in Summary!HandWritten(r, fresh) THEN Summary!Newest(r.found, k)
        ELSE IF k \in fresh \cup replies THEN [says |-> Summary!Word(mine[k]), hand |-> FALSE]
        ELSE IF k \in kept THEN Summary!Target(r.found).cells[k]
        ELSE Summary!Blank
  BY <1>1 DEF Summary!Body
<1> HIDE DEF fresh, replies
<1> QED BY <1>1, <1>3, <1>4, <1>5 DEF Summary!Target

LEMMA SummaryCount ==
  ASSUME SummaryInv, NEW k, Summary!Cardinality(Summary!HeldBy(chain, k)) = 1
  PROVE  \E i \in DOMAIN chain : Summary!HeldBy(chain, k) = {i}
<1>1. Cardinality(Summary!HeldBy(chain, k)) = 1
  BY DEF Summary!Cardinality, Cardinality
<1>2. Summary!HeldBy(chain, k) \subseteq 1..Len(chain) /\ Len(chain) \in Nat
  BY DEF SummaryInv, SummaryTypes, Summary!HeldBy
<1>3. IsFiniteSet(Summary!HeldBy(chain, k))
  <2>1. IsFiniteSet(1..Len(chain))
    BY <1>2, FS_Interval
  <2> QED BY <1>2, <2>1, FS_Subset
<1>4. PICK i : Summary!HeldBy(chain, k) = {i}
  BY <1>1, <1>3, FS_Singleton
<1> QED BY <1>4 DEF Summary!HeldBy

\* A cell written at n, the last comment or a new one, over a key that only i has.
LEMMA NewestAfter ==
  ASSUME SummaryInv, SummaryInv', NEW k, NEW i \in DOMAIN chain, Summary!HeldBy(chain, k) = {i},
         chain[i].cells[k].hand, chain[i].cells[k].says # "none",
         NEW n \in Nat, DOMAIN chain' = DOMAIN chain \cup {n}, i <= n,
         \A j \in DOMAIN chain : j # n => chain'[j].cells = chain[j].cells,
         chain'[n].cells[k] \in {chain[i].cells[k], Summary!Blank},
         i = n => chain'[n].cells[k] = chain[i].cells[k]
  PROVE  Summary!Newest(chain', k).hand
<1>0. i \in Int /\ n \in Int
  BY DEF SummaryInv, SummaryTypes
<1>1. \A j \in DOMAIN chain : chain[j].cells[k].says # "none" <=> j = i
  BY DEF Summary!HeldBy, Summary!Holds
<1>2. CASE chain'[n].cells[k] = chain[i].cells[k]
  <2>1. Summary!HeldBy(chain', k) = {i, n}
    BY <1>1, <1>2 DEF Summary!HeldBy, Summary!Holds
  <2>2. Summary!Newest(chain', k) = chain'[n].cells[k]
    BY <1>0, <2>1, NewestOfTwo
  <2> QED BY <1>2, <2>2
<1>3. CASE i # n /\ chain'[n].cells[k] = Summary!Blank
  <2>1. Summary!HeldBy(chain', k) = {i}
    BY <1>1, <1>3 DEF Summary!HeldBy, Summary!Holds, Summary!Blank
  <2>2. Summary!Newest(chain', k) = chain'[i].cells[k] /\ chain'[i].cells = chain[i].cells
    BY <1>0, <1>3, <2>1, NewestOfOne
  <2> QED BY <2>2
<1> QED BY <1>2, <1>3

\* What Summary!HandAloneKept says of a step.
HandAloneStays ==
  wrote' # wrote =>
    /\ \A k \in SummaryRows : Summary!Cardinality(Summary!HeldBy(chain, k)) = 1 => Summary!HandStays(k)
    /\ \A i \in DOMAIN chain, k \in SummaryReplies \ Summary!ForcedNow :
         chain[i].cells[k].hand => chain'[i].cells[k].hand

\* The run that writes is the one whose folding and forcing count.
LEMMA WhatCounts ==
  ASSUME NEW c \in Checkouts, SummaryInv, run' = [run EXCEPT ![c] = Summary!Off], run[c].at = "publish", wrote' # wrote
  PROVE  Summary!FoldedAway(run[c].content) \subseteq Summary!FoldedNow /\ run[c].force \subseteq Summary!ForcedNow
<1>1. run'[c] = Summary!Off /\ Summary!Off.at = "off"
  BY DEF SummaryInv, SummaryTypes, Summary!Off
<1>2. c \in Summary!Publishing
  BY <1>1 DEF Summary!Publishing
<1> QED BY <1>2 DEF Summary!FoldedNow, Summary!ForcedNow

LEMMA EditKeepsHands ==
  ASSUME SummaryInv, SummaryInv', NEW c \in Checkouts, Summary!Edit(c), SummaryRows \cap SummaryReplies = {}
  PROVE  HandAloneStays
<1> DEFINE n == Len(chain)
           body == Summary!Body(run[c], know[c], FALSE)
<1>0. SUFFICES ASSUME wrote' # wrote PROVE HandAloneStays
  BY DEF HandAloneStays
<1>1. /\ chain # <<>> /\ run[c].found = chain /\ run[c].at = "publish"
      /\ chain' = [chain EXCEPT ![n] = [chain[n] EXCEPT !.cells = body, !.note = chain[n].note, !.updated = now']]
      /\ run' = [run EXCEPT ![c] = Summary!Off]
  BY EditDoes
<1>2. chain \in Seq(SummaryComments) /\ n \in DOMAIN chain /\ n \in Nat
  BY <1>1 DEF SummaryInv, SummaryTypes
<1>3. DOMAIN chain' = DOMAIN chain /\ \A j \in DOMAIN chain : j # n => chain'[j] = chain[j]
  BY <1>1, <1>2
<1>4. chain'[n].cells = body
  <2>1. chain[n] \in SummaryComments
    BY <1>2
  <2>2. chain'[n] = [chain[n] EXCEPT !.cells = body, !.note = chain[n].note, !.updated = now']
    BY <1>1, <1>2
  <2> HIDE DEF body
  <2> QED BY <2>1, <2>2 DEF SummaryComments
<1>5. Summary!FoldedAway(run[c].content) \subseteq Summary!FoldedNow /\ run[c].force \subseteq Summary!ForcedNow
  BY <1>0, <1>1, WhatCounts
<1>6. ASSUME NEW k \in SummaryRows, Summary!Cardinality(Summary!HeldBy(chain, k)) = 1,
             Summary!Newest(chain, k).hand, k \notin Summary!FoldedNow
      PROVE  Summary!Newest(chain', k).hand
  <2>1. PICK i \in DOMAIN chain : Summary!HeldBy(chain, k) = {i}
    BY <1>6, SummaryCount
  <2>2. i \in Int /\ i <= n
    BY <1>2
  <2>3. chain[i].cells[k].hand /\ chain[i].cells[k].says # "none"
    <3>1. Summary!Newest(chain, k) = chain[i].cells[k]
      BY <2>1, <2>2, NewestOfOne
    <3>2. i \in Summary!HeldBy(chain, k)
      BY <2>1
    <3> QED BY <1>6, <3>1, <3>2 DEF Summary!HeldBy, Summary!Holds
  <2>4. body[k] \in {chain[i].cells[k], Summary!Blank} /\ (i = n => body[k] = chain[i].cells[k])
    <3>1. Summary!HeldBy(run[c].found, k) = {i} /\ run[c].found[i].cells[k].hand
          /\ run[c].found \in Seq(SummaryComments) /\ k \notin Summary!FoldedAway(run[c].content)
      BY <1>1, <1>2, <1>5, <1>6, <2>1, <2>3
    <3>2. /\ body[k] \in {run[c].found[i].cells[k], Summary!Blank}
          /\ i = Len(run[c].found) => body[k] = run[c].found[i].cells[k]
      <4>1. FALSE \in BOOLEAN /\ i \in Int /\ k \in SummaryRows
        BY <2>2
      <4>2. PICK answered \in BOOLEAN : answered = FALSE
        OBVIOUS
      <4>3. body = Summary!Body(run[c], know[c], answered)
        BY <4>2
      <4> HIDE DEF body
      <4>4. body[k] \in {run[c].found[i].cells[k], Summary!Blank}
        BY <4>1, <4>3, <3>1, RowOfOne
      <4>5. i = Len(run[c].found) => body[k] = run[c].found[i].cells[k]
        BY <4>1, <4>2, <4>3, <3>1, RowOfOne
      <4> QED BY <4>4, <4>5
    <3> HIDE DEF body
    <3> QED BY <1>1, <3>2
  <2> HIDE DEF body, n
  <2> QED BY <1>2, <1>3, <1>4, <2>1, <2>2, <2>3, <2>4, NewestAfter
<1>7. ASSUME NEW i \in DOMAIN chain, NEW k \in SummaryReplies \ Summary!ForcedNow, chain[i].cells[k].hand
      PROVE  chain'[i].cells[k].hand
  <2>1. CASE i # n
    BY <1>3, <1>7, <2>1
  <2>2. CASE i = n
    <3>1. Summary!Holds(chain, n, k)
      BY <1>7, <2>2 DEF SummaryInv, Summary!Keys
    <3>2. body[k] = chain[n].cells[k]
      <4>1. /\ run[c].found \in Seq(SummaryComments) /\ run[c].found # <<>> /\ k \notin run[c].force
            /\ run[c].found[Len(run[c].found)].cells[k].hand
            /\ Summary!Holds(run[c].found, Len(run[c].found), k)
        BY <1>1, <1>2, <1>5, <1>7, <2>2, <3>1
      <4>2. body[k] = run[c].found[Len(run[c].found)].cells[k]
        BY <4>1, ReplyKept
      <4> HIDE DEF body
      <4> QED BY <1>1, <4>2
    <3> HIDE DEF body
    <3> QED BY <1>4, <1>7, <2>2, <3>2
  <2> QED BY <2>1, <2>2
<1> QED BY <1>6, <1>7 DEF HandAloneStays, Summary!HandStays

LEMMA PostKeepsHands ==
  ASSUME SummaryInv, SummaryInv', NEW c \in Checkouts, Summary!Post(c), SummaryRows \cap SummaryReplies = {}
  PROVE  HandAloneStays
<1> DEFINE n == Len(chain) + 1
           body == Summary!Body(run[c], know[c], chain # <<>>)
<1>0. SUFFICES ASSUME wrote' # wrote PROVE HandAloneStays
  BY DEF HandAloneStays
<1>1. /\ run[c].found = chain /\ run[c].at = "publish" /\ run' = [run EXCEPT ![c] = Summary!Off]
      /\ chain' = Append(chain, [cells |-> body, note |-> FALSE, created |-> now', updated |-> now'])
  BY PostDoes
<1>2. chain \in Seq(SummaryComments) /\ n \in Nat
  BY DEF SummaryInv, SummaryTypes
<1>3. /\ DOMAIN chain' = DOMAIN chain \cup {n} /\ n \notin DOMAIN chain
      /\ \A j \in DOMAIN chain : chain'[j] = chain[j]
      /\ chain'[n] = [cells |-> body, note |-> FALSE, created |-> now', updated |-> now']
  <2> HIDE DEF body
  <2> QED BY <1>1, <1>2
<1>4. chain'[n].cells = body
  BY <1>3
<1>5. Summary!FoldedAway(run[c].content) \subseteq Summary!FoldedNow
  BY <1>0, <1>1, WhatCounts
<1>6. ASSUME NEW k \in SummaryRows, Summary!Cardinality(Summary!HeldBy(chain, k)) = 1,
             Summary!Newest(chain, k).hand, k \notin Summary!FoldedNow
      PROVE  Summary!Newest(chain', k).hand
  <2>1. PICK i \in DOMAIN chain : Summary!HeldBy(chain, k) = {i}
    BY <1>6, SummaryCount
  <2>2. i \in Int /\ i <= n /\ i # n
    BY <1>2
  <2>3. chain[i].cells[k].hand /\ chain[i].cells[k].says # "none"
    <3>1. Summary!Newest(chain, k) = chain[i].cells[k]
      BY <2>1, <2>2, NewestOfOne
    <3>2. i \in Summary!HeldBy(chain, k)
      BY <2>1
    <3> QED BY <1>6, <3>1, <3>2 DEF Summary!HeldBy, Summary!Holds
  <2>4. body[k] \in {chain[i].cells[k], Summary!Blank}
    <3>1. (chain # <<>>) \in BOOLEAN
      OBVIOUS
    <3> QED BY <1>1, <1>2, <1>5, <1>6, <2>1, <2>2, <2>3, <3>1, RowOfOne
  <2> HIDE DEF body, n
  <2> QED BY <1>2, <1>3, <1>4, <2>1, <2>2, <2>3, <2>4, NewestAfter
<1>7. \A i \in DOMAIN chain, k \in SummaryReplies : chain[i].cells[k].hand => chain'[i].cells[k].hand
  BY <1>3
<1> QED BY <1>6, <1>7 DEF HandAloneStays, Summary!HandStays

\* summary_scope.py: a row that a person rewrote stays theirs while one comment
\* alone has it, and a reply block likewise, for any rows, replies, checkouts
\* and room in a comment, where runs follow each other and a listing of
\* comments succeeds.
THEOREM HandAloneIsAlwaysKept ==
  ASSUME ~RunsRace, ~ListFails PROVE Spec => HandAloneKept
<1>1. Init => SummaryInv
  BY EveryPartStarts, SummaryStart
<1>2. SummaryInv /\ [Next]_vars => SummaryInv'
  BY OnePartMoves, SummaryStep
<1>3. SummaryInv /\ SummaryInv' /\ [Next]_vars => [HandAloneStays]_Summary!vars
  <2>1. SUFFICES ASSUME SummaryInv, SummaryInv', [Summary!Next]_Summary!vars PROVE HandAloneStays
    BY OnePartMoves
  <2>2. SummaryRows \cap SummaryReplies = {}
    BY ConstantsAssumption DEF ConstantsAssumption, Summary!SummaryAssumption
  <2>3. CASE wrote' = wrote
    BY <2>3 DEF HandAloneStays
  <2>4. CASE wrote' # wrote
    <3>1. \E c \in Checkouts : Summary!Edit(c) \/ Summary!Post(c)
      BY <2>1, <2>4
      DEF Summary!Next, Summary!vars, Summary!Fetch, Summary!List, Summary!GiveUp, Summary!Record, Summary!Speak,
          Summary!Comment, Summary!Rewrite, Summary!TakeOut, Summary!AddNote, Summary!HandEdit
    <3> QED BY <2>1, <2>2, <3>1, EditKeepsHands, PostKeepsHands
  <2> QED BY <2>3, <2>4
<1>4. [][HandAloneStays]_Summary!vars => HandAloneKept
  BY PTL DEF HandAloneKept, Summary!HandAloneKept, HandAloneStays
<1> QED BY <1>1, <1>2, <1>3, <1>4, PTL DEF Spec
-----------------------------------------------------------------------------
(* The rounds on the threads: what the variables hold.                     *)

Kinds == {"FIXED", "DISMISSED", "ALREADY_ADDRESSED", "DEFERRED", "NEEDS_HUMAN", "DECLINED"}
Answers == Kinds \cup {"hand", "done"}
Outs == Kinds \cup {"none", "SETTLED_ELSEWHERE"}
Plans == {"out", "fixable", "ALREADY_ADDRESSED", "DISMISSED", "NEEDS_HUMAN"}
Statuses == {"none", "NO_CHANGES", "COMMIT_FAILED", "PUSH_HELD", "PUSH_FAILED", "PUSHED"}
CycleThreads == [mine : Kinds \cup {"none", "hand", "done"}, last : {"them", "ack", "us"}, resolved : BOOLEAN,
                 stacked : BOOLEAN, spoken : BOOLEAN, backed : BOOLEAN]
CycleRecords == [out : [Threads -> Outs], sha : Nat, status : Statuses, head : Nat, pending : BOOLEAN,
                 owed : BOOLEAN]
CyclePcs == {"off", "triage", "triage_replies", "settle_fixed", "persist", "push", "drain_start", "drain",
             "reconcile", "track", "file", "save"}

\* A run has something left to answer only while it answers.
CycleTypes ==
  /\ {gh, report} \subseteq [Threads -> CycleThreads] /\ {rec, mem} \subseteq CycleRecords
  /\ plan \in [Threads -> Plans] /\ {made, remote, rounds} \subseteq Nat /\ work \in [Threads -> Nat]
  /\ {cycleTree, cycleTodo} \subseteq SUBSET Threads /\ cyclePc \in CyclePcs
  /\ cyclePc \notin {"triage_replies", "settle_fixed", "drain", "file"} => cycleTodo = {}
  /\ cyclePc = "triage_replies" => \A t \in cycleTodo : plan[t] \in {"ALREADY_ADDRESSED", "DISMISSED"}
  /\ cyclePc = "drain" => \A t \in cycleTodo : mem.out[t] \in Cycle!SETTLE_OUTCOMES
  /\ cyclePc = "file" => \A t \in cycleTodo : mem.out[t] \in {"DEFERRED", "NEEDS_HUMAN"}

LEMMA NewOnes ==
  /\ Cycle!NewThreads \in [Threads -> CycleThreads] /\ Cycle!NewRecord \in CycleRecords
  /\ \A t \in Threads : /\ Cycle!NewThreads[t].mine = "none" /\ Cycle!NewThreads[t].last = "them"
                        /\ ~Cycle!NewThreads[t].stacked
                        /\ Cycle!NewRecord.out[t] = "none"
BY DEF Cycle!NewThreads, Cycle!NewRecord, CycleThreads, CycleRecords, Kinds, Outs, Statuses

\* A run that is over.
LEMMA Forgotten ==
  ASSUME CycleTypes, Cycle!Forgets, gh' \in [Threads -> CycleThreads], rec' \in CycleRecords,
         {made', remote', rounds'} \subseteq Nat, work' \in [Threads -> Nat], cycleTree' \in SUBSET Threads
  PROVE  CycleTypes'
<1>1. /\ cyclePc' = "off" /\ report' = Cycle!NewThreads /\ mem' = Cycle!NewRecord
      /\ plan' = [t \in Threads |-> "out"] /\ cycleTodo' = {}
  BY DEF Cycle!Forgets
<1> QED BY <1>1, NewOnes DEF CycleTypes, CyclePcs, Plans

\* What a reply makes of a thread: the resolve beside, it is a new comment or
\* an edit of ours.
LEMMA UpsertedThread ==
  \A th \in CycleThreads, sn \in CycleThreads, kd \in Answers :
    /\ Cycle!Upserted(th, sn, kd) \in CycleThreads /\ Cycle!Upserted(th, sn, kd).mine = kd
    /\ sn.last = "us" => Cycle!Upserted(th, sn, kd).last = th.last
    /\ sn.last # "us" => Cycle!Upserted(th, sn, kd).last = "us"
    /\ Cycle!Upserted(th, sn, kd).stacked => th.stacked \/ (sn.last # "us" /\ th.last = "us")
<1> TAKE th \in CycleThreads, sn \in CycleThreads, kd \in Answers
<1> DEFINE u == Cycle!Upserted(th, sn, kd)
           st == th.stacked \/ th.last = "us"
<1>1. st \in BOOLEAN
  OBVIOUS
<1>2. ASSUME sn.last = "us" PROVE u = [th EXCEPT !.mine = kd, !.backed = TRUE]
  BY <1>2 DEF Cycle!Upserted, Cycle!Edits
<1>3. ASSUME sn.last # "us"
      PROVE  u = [th EXCEPT !.mine = kd, !.last = "us", !.backed = TRUE, !.stacked = st]
  BY <1>3 DEF Cycle!Upserted, Cycle!Edits
<1>4. /\ u \in CycleThreads /\ u.mine = kd
      /\ sn.last = "us" => u.last = th.last
      /\ sn.last # "us" => u.last = "us"
      /\ u.stacked => th.stacked \/ (sn.last # "us" /\ th.last = "us")
  <2> HIDE DEF u
  <2>1. CASE sn.last = "us"
    BY <1>2, <2>1 DEF CycleThreads, Answers
  <2>2. CASE sn.last # "us"
    <3>1. u \in CycleThreads /\ u.mine = kd /\ u.last = "us" /\ u.stacked = st
      <4> HIDE DEF st
      <4> QED BY <1>1, <1>3, <2>2 DEF CycleThreads, Answers
    <3> QED BY <2>2, <3>1
  <2> QED BY <2>1, <2>2
<1> QED BY <1>4

\* An answer: what becomes of the thread on GitHub and in the report.
LEMMA AnsweredThread ==
  ASSUME CycleTypes, NEW t \in Threads, NEW kind \in Answers, NEW closes, Cycle!Answered(t, kind, closes)
  PROVE  /\ cycleTodo' = cycleTodo \ {t} /\ gh' \in [Threads -> CycleThreads] /\ report' \in [Threads -> CycleThreads]
         /\ \A s \in Threads : s # t => gh'[s] = gh[s]
         /\ \A s \in Threads : report'[s].last = report[s].last /\ report'[s].mine = report[s].mine
         /\ \/ /\ gh'[t].mine = kind
               /\ report[t].last = "us" => gh'[t].last = gh[t].last
               /\ report[t].last # "us" => gh'[t].last = "us"
               /\ gh'[t].stacked => gh[t].stacked \/ (report[t].last # "us" /\ gh[t].last = "us")
            \/ /\ gh'[t].mine = gh[t].mine /\ gh'[t].last = gh[t].last
               /\ gh'[t].stacked = gh[t].stacked
<1> SUFFICES ASSUME NEW old \in CycleThreads, NEW seen \in CycleThreads, old = gh[t], seen = report[t]
             PROVE  /\ cycleTodo' = cycleTodo \ {t} /\ gh' \in [Threads -> CycleThreads] /\ report' \in [Threads -> CycleThreads]
                    /\ \A s \in Threads : s # t => gh'[s] = gh[s]
                    /\ \A s \in Threads : report'[s].last = report[s].last /\ report'[s].mine = report[s].mine
                    /\ \/ /\ gh'[t].mine = kind
                          /\ report[t].last = "us" => gh'[t].last = gh[t].last
                          /\ report[t].last # "us" => gh'[t].last = "us"
                          /\ gh'[t].stacked => gh[t].stacked \/ (report[t].last # "us" /\ gh[t].last = "us")
                       \/ /\ gh'[t].mine = gh[t].mine /\ gh'[t].last = gh[t].last
                          /\ gh'[t].stacked = gh[t].stacked
  BY DEF CycleTypes
<1>1. old = gh[t] /\ seen = report[t]
  OBVIOUS
<1>2. /\ Cycle!Upserted(old, seen, kind) \in CycleThreads /\ Cycle!Upserted(old, seen, kind).mine = kind
      /\ seen.last = "us" => Cycle!Upserted(old, seen, kind).last = old.last
      /\ seen.last # "us" => Cycle!Upserted(old, seen, kind).last = "us"
      /\ Cycle!Upserted(old, seen, kind).stacked => old.stacked \/ (seen.last # "us" /\ old.last = "us")
  BY <1>1, UpsertedThread
<1>3. PICK noReply, noResolve \in Cycle!Refused :
        /\ LET replied == Cycle!MayReply(report[t]) /\ ~noReply
               closed == closes /\ Cycle!Enabled /\ ~report[t].resolved /\ ~noResolve
               thread == IF replied THEN Cycle!Upserted(gh[t], report[t], kind) ELSE gh[t]
           IN  /\ gh' = [gh EXCEPT ![t] = [thread EXCEPT !.resolved = @ \/ closed]]
               /\ report' = [report EXCEPT ![t].resolved = @ \/ closed]
        /\ cycleTodo' = cycleTodo \ {t}
  BY DEF Cycle!Answered
<1> DEFINE replied == Cycle!MayReply(report[t]) /\ ~noReply
           closed == closes /\ Cycle!Enabled /\ ~report[t].resolved /\ ~noResolve
           thread == IF replied THEN Cycle!Upserted(gh[t], report[t], kind) ELSE gh[t]
           res == thread.resolved \/ closed
           rep == report[t].resolved \/ closed
<1>4. res \in BOOLEAN /\ rep \in BOOLEAN
  OBVIOUS
<1>5. /\ gh' = [gh EXCEPT ![t] = [thread EXCEPT !.resolved = res]]
      /\ report' = [report EXCEPT ![t] = [seen EXCEPT !.resolved = rep]]
      /\ cycleTodo' = cycleTodo \ {t}
  BY <1>1, <1>3
<1>6. thread = Cycle!Upserted(old, seen, kind) \/ thread = old
  BY <1>1
<1> HIDE DEF res, rep, thread, replied, closed
<1>7. /\ thread \in CycleThreads
      /\ \/ /\ thread.mine = kind
            /\ seen.last = "us" => thread.last = old.last
            /\ seen.last # "us" => thread.last = "us"
            /\ thread.stacked => old.stacked \/ (seen.last # "us" /\ old.last = "us")
         \/ thread = old
  BY <1>2, <1>6
<1>8. /\ [thread EXCEPT !.resolved = res] \in CycleThreads
      /\ [thread EXCEPT !.resolved = res].mine = thread.mine
      /\ [thread EXCEPT !.resolved = res].last = thread.last
      /\ [thread EXCEPT !.resolved = res].stacked = thread.stacked
  BY <1>4, <1>7 DEF CycleThreads
<1>9. /\ [seen EXCEPT !.resolved = rep] \in CycleThreads
      /\ [seen EXCEPT !.resolved = rep].last = seen.last
      /\ [seen EXCEPT !.resolved = rep].mine = seen.mine
  BY <1>1, <1>4 DEF CycleThreads
<1>10. /\ gh' \in [Threads -> CycleThreads] /\ report' \in [Threads -> CycleThreads]
       /\ gh'[t] = [thread EXCEPT !.resolved = res]
       /\ \A s \in Threads : s # t => gh'[s] = gh[s]
       /\ \A s \in Threads : report'[s].last = report[s].last /\ report'[s].mine = report[s].mine
  BY <1>1, <1>5, <1>8, <1>9 DEF CycleTypes
<1> QED BY <1>1, <1>5, <1>7, <1>8, <1>10

\* A delivery answers one thread of those to be answered, if GitHub lets it.
LEMMA Delivers ==
  ASSUME CycleTypes, NEW at, NEW kindOf, NEW closing, Cycle!Deliver(at, kindOf, closing),
         \A t \in cycleTodo : kindOf[t] \in Kinds
  PROVE  /\ cyclePc = at /\ cyclePc' = at
         /\ UNCHANGED <<rec, made, remote, cycleTree, work, phases, mem, plan, rounds, stamped, adrift>>
         /\ \E t \in cycleTodo : \E kind \in Answers :
              /\ kind = kindOf[t]
              /\ cycleTodo' = cycleTodo \ {t} /\ gh' \in [Threads -> CycleThreads] /\ report' \in [Threads -> CycleThreads]
              /\ \A s \in Threads : s # t => gh'[s] = gh[s]
              /\ \A s \in Threads : report'[s].last = report[s].last /\ report'[s].mine = report[s].mine
              /\ \/ /\ gh'[t].mine = kind
                    /\ report[t].last = "us" => gh'[t].last = gh[t].last
                    /\ report[t].last # "us" => gh'[t].last = "us"
                    /\ gh'[t].stacked => gh[t].stacked \/ (report[t].last # "us" /\ gh[t].last = "us")
                 \/ /\ gh'[t].mine = gh[t].mine /\ gh'[t].last = gh[t].last
                    /\ gh'[t].stacked = gh[t].stacked
<1>1. /\ cyclePc = at /\ cyclePc' = at
      /\ UNCHANGED <<rec, made, remote, cycleTree, work, phases, mem, plan, rounds, stamped, adrift>>
  BY DEF Cycle!Deliver, Cycle!branch, Cycle!counts, Cycle!history
<1>2. PICK t \in cycleTodo : Cycle!Answered(t, kindOf[t], kindOf[t] \in closing)
  BY DEF Cycle!Deliver
<1>3. PICK kind \in Answers : kind = kindOf[t]
  BY DEF Answers
<1>4. PICK closes : Cycle!Answered(t, kind, closes)
  BY <1>2, <1>3
<1>5. t \in Threads
  BY DEF CycleTypes
<1>6. /\ cycleTodo' = cycleTodo \ {t} /\ gh' \in [Threads -> CycleThreads] /\ report' \in [Threads -> CycleThreads]
      /\ \A s \in Threads : s # t => gh'[s] = gh[s]
      /\ \A s \in Threads : report'[s].last = report[s].last /\ report'[s].mine = report[s].mine
      /\ \/ /\ gh'[t].mine = kind
            /\ report[t].last = "us" => gh'[t].last = gh[t].last
            /\ report[t].last # "us" => gh'[t].last = "us"
            /\ gh'[t].stacked => gh[t].stacked \/ (report[t].last # "us" /\ gh[t].last = "us")
         \/ /\ gh'[t].mine = gh[t].mine /\ gh'[t].last = gh[t].last
            /\ gh'[t].stacked = gh[t].stacked
  BY <1>4, <1>5, AnsweredThread
<1> QED BY <1>1, <1>3, <1>6
\* An answer leaves what a run holds as it must be.
LEMMA DeliveryKeepsTypes ==
  ASSUME CycleTypes, NEW at \in {"triage_replies", "settle_fixed", "drain", "file"}, NEW kindOf,
         NEW closing, Cycle!Deliver(at, kindOf, closing), \A t \in cycleTodo : kindOf[t] \in Kinds
  PROVE  CycleTypes'
<1>1. /\ cyclePc' = cyclePc
      /\ UNCHANGED <<rec, made, remote, cycleTree, work, mem, plan, rounds>>
      /\ cycleTodo' \subseteq cycleTodo
      /\ gh' \in [Threads -> CycleThreads] /\ report' \in [Threads -> CycleThreads]
  BY Delivers
<1> QED BY <1>1 DEF CycleTypes

\* A thread of which only the dates of its comments change.
LEMMA Redated ==
  ASSUME NEW thread \in CycleThreads, NEW s \in BOOLEAN, NEW b \in BOOLEAN
  PROVE  LET d == [thread EXCEPT !.spoken = s, !.backed = b]
         IN  /\ d \in CycleThreads /\ d.mine = thread.mine /\ d.last = thread.last
             /\ d.stacked = thread.stacked /\ d.resolved = thread.resolved
BY DEF CycleThreads

LEMMA DatedThreads ==
  ASSUME CycleTypes
  PROVE  /\ Cycle!DatedAll(gh) \in [Threads -> CycleThreads]
         /\ \A t \in Threads : /\ Cycle!DatedAll(gh)[t].mine = gh[t].mine
                               /\ Cycle!DatedAll(gh)[t].last = gh[t].last
                               /\ Cycle!DatedAll(gh)[t].stacked = gh[t].stacked
<1>1. ASSUME NEW t \in Threads
      PROVE  /\ Cycle!DatedAll(gh)[t] \in CycleThreads /\ Cycle!DatedAll(gh)[t].mine = gh[t].mine
             /\ Cycle!DatedAll(gh)[t].last = gh[t].last /\ Cycle!DatedAll(gh)[t].stacked = gh[t].stacked
  <2>1. PICK thread \in CycleThreads : thread = gh[t]
    BY DEF CycleTypes
  <2> DEFINE read == word[t] = "read"
             own == t \in ours
  <2>2. read \in BOOLEAN /\ own \in BOOLEAN
    OBVIOUS
  <2>4. Cycle!DatedAll(gh)[t] \in {[thread EXCEPT !.spoken = read, !.backed = own], thread}
    BY <2>1 DEF Cycle!DatedAll, Cycle!Dated
  <2> HIDE DEF read, own
  <2>3. PICK d \in CycleThreads : /\ d = [thread EXCEPT !.spoken = read, !.backed = own]
                                  /\ d.mine = thread.mine /\ d.last = thread.last /\ d.stacked = thread.stacked
    BY <2>2, Redated
  <2> QED BY <2>1, <2>3, <2>4
<1>2. Cycle!DatedAll(gh) = [t \in Threads |-> Cycle!Dated(gh[t], t)]
  BY DEF Cycle!DatedAll
<1> HIDE DEF Cycle!DatedAll
<1>3. Cycle!DatedAll(gh) \in [Threads -> CycleThreads]
  BY <1>1, <1>2
<1> QED BY <1>1, <1>3
\* A record of a round.
LEMMA RoundRecord ==
  ASSUME NEW outcomes \in [Threads -> Outs], NEW sha \in Nat, NEW status \in Statuses, NEW r,
         r = Cycle!RoundOf(outcomes, sha, status)
  PROVE  /\ r \in CycleRecords /\ r.out = outcomes /\ r.sha = sha /\ r.status = status
<1> SUFFICES ASSUME NEW blank \in CycleRecords, blank = Cycle!NewRecord
             PROVE  /\ r \in CycleRecords /\ r.out = outcomes /\ r.sha = sha /\ r.status = status
  BY NewOnes
<1>1. r = [blank EXCEPT !.out = outcomes, !.sha = sha, !.status = status]
  BY DEF Cycle!RoundOf
<1> QED BY <1>1 DEF CycleRecords

\* What a round recorded, over what was on record.
LEMMA MergedRecord ==
  ASSUME CycleTypes
  PROVE  LET m == Cycle!Merged(rec, published)
         IN  /\ m \in CycleRecords /\ m.sha = mem.sha /\ m.status = mem.status /\ m.head = mem.head
             /\ \A t \in Threads : m.out[t] \in {mem.out[t], rec.out[t]}
<1>1. mem \in CycleRecords /\ rec \in CycleRecords
  BY DEF CycleTypes
<1> DEFINE p == ~Cycle!Delivered /\ (Cycle!PendingNow \/ rec.pending)
           o == ~published /\ (mem.owed \/ rec.owed)
           outcomes == [t \in Threads |-> IF mem.out[t] = "none" THEN rec.out[t] ELSE mem.out[t]]
<1>2. p \in BOOLEAN /\ o \in BOOLEAN /\ outcomes \in [Threads -> Outs]
      /\ \A t \in Threads : outcomes[t] \in {mem.out[t], rec.out[t]}
  BY <1>1 DEF CycleRecords
<1>3. Cycle!Merged(rec, published)
        = [out |-> outcomes, sha |-> mem.sha, status |-> mem.status, head |-> mem.head, pending |-> p, owed |-> o]
  BY DEF Cycle!Merged
<1> HIDE DEF p, o, outcomes
<1>4. mem.sha \in Nat /\ mem.status \in Statuses /\ mem.head \in Nat
  BY <1>1 DEF CycleRecords
<1> QED BY <1>2, <1>3, <1>4 DEF CycleRecords
\* What the agents' turn makes of the branch and of the round.
LEMMA AgentStep ==
  ASSUME CycleTypes, Cycle!Agent
  PROVE  /\ cyclePc = "triage_replies" /\ cycleTodo = {} /\ cyclePc' = "settle_fixed"
         /\ UNCHANGED <<gh, report, rec, plan, phases, rounds, stamped, adrift>>
         /\ mem' \in CycleRecords /\ {made', remote'} \subseteq Nat /\ work' \in [Threads -> Nat]
         /\ cycleTree' \subseteq Threads /\ cycleTodo' \subseteq Threads
         /\ \E fixed \in SUBSET {t \in Threads : plan[t] = "fixable"} :
              /\ \A t \in Threads : mem'.out[t] = "FIXED" <=> t \in fixed
              /\ cycleTodo' \subseteq fixed /\ (cycleTodo' # {} => mem'.status = "PUSHED")
              /\ \/ /\ fixed = {} \/ AgentIdles
                    /\ mem'.sha = 0 /\ mem'.status = "NO_CHANGES" /\ UNCHANGED <<made, remote, cycleTree, work>>
                 \/ /\ mem'.sha = 0 /\ mem'.status = "COMMIT_FAILED" /\ cycleTree' = cycleTree \cup fixed
                    /\ UNCHANGED <<made, remote>>
                    /\ \A t \in Threads : work'[t] = IF t \in fixed THEN 0 ELSE work[t]
                 \/ /\ mem'.sha = made + 1 /\ made' = made + 1
                    /\ mem'.status \in {"PUSHED", "PUSH_FAILED", "PUSH_HELD"}
                    /\ remote' = IF mem'.status = "PUSHED" THEN made + 1 ELSE remote
                    /\ \A t \in Threads : work'[t] = IF t \in fixed \cup cycleTree THEN made + 1 ELSE work[t]
                    /\ cycleTree' = {}
<1> DEFINE given == {t \in Threads : plan[t] = "fixable"}
<1>1. PICK r \in [given -> CycleClaims] :
        LET outcomes == [t \in Threads |-> IF t \in given THEN r[t]
                                           ELSE IF plan[t] = "out" THEN "none" ELSE plan[t]]
            fixed == {t \in given : r[t] = "FIXED"}
        IN  /\ Cycle!Land(outcomes, fixed)
            /\ cycleTodo' = IF Cycle!Settles(mem'.status) THEN fixed ELSE {}
  BY DEF Cycle!Agent
<1> DEFINE outcomes == [t \in Threads |-> IF t \in given THEN r[t]
                                          ELSE IF plan[t] = "out" THEN "none" ELSE plan[t]]
           fixed == {t \in given : r[t] = "FIXED"}
<1>2. Cycle!Land(outcomes, fixed) /\ cycleTodo' = IF Cycle!Settles(mem'.status) THEN fixed ELSE {}
  BY <1>1
<1>3. outcomes \in [Threads -> Outs]
  BY ConstantsAssumption DEF CycleTypes, Plans, Outs, Kinds, Cycle!CycleAssumption
<1>4. fixed \in SUBSET given /\ \A t \in Threads : outcomes[t] = "FIXED" <=> t \in fixed
  BY DEF CycleTypes, Plans
<1>5. /\ cyclePc = "triage_replies" /\ cycleTodo = {} /\ cyclePc' = "settle_fixed"
      /\ UNCHANGED <<gh, report, rec, plan, phases, rounds, stamped, adrift>>
      /\ cycleTodo' \subseteq Threads
  BY <1>2, <1>4 DEF Cycle!Agent, Cycle!github, Cycle!counts, Cycle!history
<1> HIDE DEF outcomes, fixed
<1>6. made \in Nat /\ remote \in Nat /\ work \in [Threads -> Nat] /\ cycleTree \subseteq Threads /\ 0 \in Nat
  BY DEF CycleTypes
<1>7. ASSUME NEW status \in {"PUSHED", "PUSH_FAILED", "PUSH_HELD"}, Cycle!Committed(outcomes, fixed, status)
      PROVE  /\ mem' \in CycleRecords /\ mem'.out = outcomes /\ mem'.status = status
             /\ mem'.sha = made + 1 /\ made' = made + 1
             /\ remote' = IF mem'.status = "PUSHED" THEN made + 1 ELSE remote
             /\ \A t \in Threads : work'[t] = IF t \in fixed \cup cycleTree THEN made + 1 ELSE work[t]
             /\ work' \in [Threads -> Nat] /\ cycleTree' = {}
  <2>1. mem' = Cycle!RoundOf(outcomes, made + 1, status) /\ made' = made + 1
        /\ remote' = (IF status = "PUSHED" THEN made + 1 ELSE remote) /\ cycleTree' = {}
        /\ work' = [t \in Threads |-> IF t \in fixed \cup cycleTree THEN made + 1 ELSE work[t]]
    BY <1>7 DEF Cycle!Committed
  <2>2. made + 1 \in Nat /\ status \in Statuses
    BY <1>6 DEF Statuses
  <2>3. mem' \in CycleRecords /\ mem'.out = outcomes /\ mem'.sha = made + 1 /\ mem'.status = status
    BY <1>3, <2>1, <2>2, RoundRecord
  <2>4. /\ work' \in [Threads -> Nat]
        /\ \A t \in Threads : work'[t] = IF t \in fixed \cup cycleTree THEN made + 1 ELSE work[t]
    BY <1>4, <1>6, <2>1, <2>2
  <2> QED BY <2>1, <2>3, <2>4
<1>8. CASE /\ fixed = {} \/ AgentIdles
           /\ mem' = Cycle!RoundOf(outcomes, 0, "NO_CHANGES") /\ UNCHANGED Cycle!branch
  <2>1. UNCHANGED <<made, remote, cycleTree, work>>
    BY <1>8 DEF Cycle!branch
  <2>2. "NO_CHANGES" \in Statuses
    BY DEF Statuses
  <2>3. mem' \in CycleRecords /\ mem'.out = outcomes /\ mem'.sha = 0 /\ mem'.status = "NO_CHANGES"
    BY <1>3, <1>6, <1>8, <2>2, RoundRecord
  <2>4. cycleTodo' = {}
    BY <1>2, <2>3 DEF Cycle!Settles
  <2> QED BY <1>4, <1>5, <1>6, <1>8, <2>1, <2>3, <2>4
<1>9. CASE /\ fixed # {} /\ CommitFails
           /\ mem' = Cycle!RoundOf(outcomes, 0, "COMMIT_FAILED") /\ cycleTree' = cycleTree \cup fixed
           /\ work' = [t \in Threads |-> IF t \in fixed THEN 0 ELSE work[t]] /\ UNCHANGED <<made, remote>>
  <2>1. "COMMIT_FAILED" \in Statuses
    BY DEF Statuses
  <2>2. mem' \in CycleRecords /\ mem'.out = outcomes /\ mem'.sha = 0 /\ mem'.status = "COMMIT_FAILED"
    BY <1>3, <1>6, <1>9, <2>1, RoundRecord
  <2>3. cycleTodo' = {}
    BY <1>2, <2>2 DEF Cycle!Settles
  <2>4. work' \in [Threads -> Nat] /\ cycleTree' \subseteq Threads
        /\ \A t \in Threads : work'[t] = IF t \in fixed THEN 0 ELSE work[t]
    BY <1>4, <1>6, <1>9
  <2> QED BY <1>4, <1>5, <1>6, <1>9, <2>2, <2>3, <2>4
<1>10. ASSUME NEW status \in {"PUSHED", "PUSH_FAILED", "PUSH_HELD"}, Cycle!Committed(outcomes, fixed, status)
       PROVE  /\ mem' \in CycleRecords /\ {made', remote'} \subseteq Nat /\ work' \in [Threads -> Nat]
              /\ cycleTree' \subseteq Threads
              /\ \E f \in SUBSET given :
                   /\ \A t \in Threads : mem'.out[t] = "FIXED" <=> t \in f
                   /\ cycleTodo' \subseteq f /\ (cycleTodo' # {} => mem'.status = "PUSHED")
                   /\ mem'.sha = made + 1 /\ made' = made + 1
                   /\ mem'.status \in {"PUSHED", "PUSH_FAILED", "PUSH_HELD"}
                   /\ remote' = IF mem'.status = "PUSHED" THEN made + 1 ELSE remote
                   /\ \A t \in Threads : work'[t] = IF t \in f \cup cycleTree THEN made + 1 ELSE work[t]
                   /\ cycleTree' = {}
  <2>1. /\ mem' \in CycleRecords /\ mem'.out = outcomes /\ mem'.status = status
        /\ mem'.sha = made + 1 /\ made' = made + 1
        /\ remote' = IF mem'.status = "PUSHED" THEN made + 1 ELSE remote
        /\ \A t \in Threads : work'[t] = IF t \in fixed \cup cycleTree THEN made + 1 ELSE work[t]
        /\ work' \in [Threads -> Nat] /\ cycleTree' = {}
    BY <1>7, <1>10
  <2>2. cycleTodo' \subseteq fixed /\ (cycleTodo' # {} => mem'.status = "PUSHED")
    BY <1>2, <2>1 DEF Cycle!Settles
  <2>3. {made', remote'} \subseteq Nat
    BY <1>6, <2>1
  <2> QED BY <1>4, <2>1, <2>2, <2>3
<1>11. CASE \E status \in {"PUSHED", "PUSH_FAILED", "PUSH_HELD"} : Cycle!Committed(outcomes, fixed, status)
  BY <1>5, <1>10, <1>11
<1> QED BY <1>2, <1>8, <1>9, <1>11 DEF Cycle!Land
\* What the operator and other people do between and beside the runs.
LEMMA PeoplesTypes ==
  ASSUME CycleTypes,
         \/ \E p \in BOOLEAN : \E ps : Cycle!FixCommand(p, ps) \/ Cycle!FinishCommand(p)
         \/ \E t \in Threads, kind \in SettleAs : Cycle!Settle(t, kind)
         \/ \E t \in Threads, body \in Bodies : Cycle!Reply(t, body)
         \/ \E t \in Threads, how \in {"them", "ack"}, reopens \in BOOLEAN : Cycle!Speak(t, how, reopens)
         \/ \E t \in Threads : Cycle!HandResolve(t)
         \/ Cycle!OperatorCommits \/ Cycle!OperatorPushes \/ Cycle!Crash
  PROVE  CycleTypes'
<1> USE DEF Cycle!counts, Cycle!github, Cycle!branch, Cycle!run
<1>1. ASSUME NEW p, NEW ps, Cycle!Begin(p, ps), cyclePc' \in {"triage", "push"}, rounds' \in Nat PROVE CycleTypes'
  <2>1. PICK closed \in SUBSET Threads :
          gh' = [t \in Threads |-> [gh[t] EXCEPT !.resolved = @ \/ t \in closed]]
    BY <1>1 DEF Cycle!Begin, Cycle!Verified
  <2>2. ASSUME NEW t \in Threads PROVE gh'[t] \in CycleThreads
    <3> DEFINE res == gh[t].resolved \/ t \in closed
    <3>1. res \in BOOLEAN
      OBVIOUS
    <3>2. gh'[t] = [gh[t] EXCEPT !.resolved = res]
      BY <2>1
    <3> HIDE DEF res
    <3>3. gh[t] \in CycleThreads
      BY DEF CycleTypes
    <3> QED BY <3>1, <3>2, <3>3 DEF CycleThreads
  <2>3. gh' \in [Threads -> CycleThreads]
    BY <2>1, <2>2
  <2>4. /\ report' = gh' /\ cyclePc = "off"
        /\ UNCHANGED <<rec, mem, plan, made, remote, work, cycleTree, cycleTodo>>
    BY <1>1 DEF Cycle!Begin
  <2> QED BY <1>1, <2>3, <2>4 DEF CycleTypes, CyclePcs
<1>2. ASSUME NEW p, NEW ps, Cycle!FixCommand(p, ps) PROVE CycleTypes'
  BY <1>1, <1>2 DEF Cycle!FixCommand, CycleTypes
<1>3. ASSUME NEW p, Cycle!FinishCommand(p) PROVE CycleTypes'
  BY <1>1, <1>3 DEF Cycle!FinishCommand, CycleTypes
<1>4. ASSUME NEW t \in Threads, NEW kind \in SettleAs, Cycle!Settle(t, kind) PROVE CycleTypes'
  <2>1. PICK r0 \in CycleRecords : r0 = rec
    BY DEF CycleTypes
  <2>2. r0.out \in [Threads -> Outs] /\ kind \in Outs
    BY ConstantsAssumption DEF CycleRecords, Outs, Kinds, Cycle!CycleAssumption
  <2> DEFINE outcomes == [r0.out EXCEPT ![t] = kind]
  <2>3. outcomes \in [Threads -> Outs]
    BY <2>2
  <2>4. rec' = [[r0 EXCEPT !.out = outcomes] EXCEPT !.pending = TRUE, !.owed = TRUE]
    BY <1>4, <2>1 DEF Cycle!Settle, Cycle!Rearm
  <2> HIDE DEF outcomes
  <2>5. rec' \in CycleRecords
    BY <2>3, <2>4 DEF CycleRecords
  <2>6. gh' = [gh EXCEPT ![t] = [@ EXCEPT !.spoken = FALSE, !.backed = FALSE]]
    BY <1>4 DEF Cycle!Settle
  <2>7. gh[t] \in CycleThreads
    BY DEF CycleTypes
  <2>8. [gh[t] EXCEPT !.spoken = FALSE, !.backed = FALSE] \in CycleThreads
    BY <2>7 DEF CycleThreads
  <2>9. gh' \in [Threads -> CycleThreads]
    BY <2>6, <2>8 DEF CycleTypes
  <2> QED BY <1>4, <2>5, <2>9 DEF Cycle!Settle, CycleTypes
<1>5. ASSUME NEW t \in Threads, NEW body \in Bodies, Cycle!Reply(t, body) PROVE CycleTypes'
  <2> SUFFICES ASSUME NEW old \in CycleThreads, NEW kind \in Answers, old = gh[t], kind = body PROVE CycleTypes'
    BY ConstantsAssumption DEF Cycle!CycleAssumption, CycleTypes, Answers
  <2>1. gh' = [gh EXCEPT ![t] = Cycle!Upserted(old, old, kind)]
    BY <1>5 DEF Cycle!Reply
  <2>2. Cycle!Upserted(old, old, kind) \in CycleThreads
    BY UpsertedThread
  <2>3. gh' \in [Threads -> CycleThreads]
    BY <2>1, <2>2 DEF CycleTypes
  <2> QED BY <1>5, <2>3 DEF Cycle!Reply, CycleTypes
<1>6. ASSUME NEW t \in Threads, NEW how \in {"them", "ack"}, NEW reopens \in BOOLEAN, Cycle!Speak(t, how, reopens)
      PROVE  CycleTypes'
  <2> DEFINE res == gh[t].resolved /\ ~reopens
  <2>1. res \in BOOLEAN
    OBVIOUS
  <2>2. gh' = [gh EXCEPT ![t] = [@ EXCEPT !.last = how, !.spoken = TRUE, !.stacked = FALSE, !.resolved = res]]
    BY <1>6 DEF Cycle!Speak
  <2> HIDE DEF res
  <2>3. gh[t] \in CycleThreads
    BY DEF CycleTypes
  <2>4. [gh[t] EXCEPT !.last = how, !.spoken = TRUE, !.stacked = FALSE, !.resolved = res] \in CycleThreads
    BY <2>1, <2>3 DEF CycleThreads
  <2>5. gh' \in [Threads -> CycleThreads]
    BY <2>2, <2>4 DEF CycleTypes
  <2> QED BY <1>6, <2>5 DEF Cycle!Speak, CycleTypes
<1>7. ASSUME NEW t \in Threads, Cycle!HandResolve(t) PROVE CycleTypes'
  <2>1. gh' = [gh EXCEPT ![t] = [@ EXCEPT !.resolved = TRUE]]
    BY <1>7 DEF Cycle!HandResolve
  <2>2. gh[t] \in CycleThreads
    BY DEF CycleTypes
  <2>3. [gh[t] EXCEPT !.resolved = TRUE] \in CycleThreads
    BY <2>2 DEF CycleThreads
  <2>4. gh' \in [Threads -> CycleThreads]
    BY <2>1, <2>3 DEF CycleTypes
  <2> QED BY <1>7, <2>4 DEF Cycle!HandResolve, CycleTypes
<1>8. CASE Cycle!OperatorCommits
  <2>1. made' = made + 1 /\ cycleTree' = {}
        /\ work' = [t \in Threads |-> IF t \in cycleTree THEN made + 1 ELSE work[t]]
    BY <1>8 DEF Cycle!OperatorCommits
  <2>2. made' \in Nat /\ work' \in [Threads -> Nat]
    BY <2>1 DEF CycleTypes
  <2> QED BY <1>8, <2>1, <2>2 DEF Cycle!OperatorCommits, CycleTypes
<1>9. CASE Cycle!OperatorPushes
  BY <1>9 DEF Cycle!OperatorPushes, CycleTypes
<1>10. CASE Cycle!Crash
  <2>1. /\ Cycle!Forgets /\ UNCHANGED <<gh, rec, made, remote, rounds, work, cycleTree>>
    BY <1>10 DEF Cycle!Crash
  <2>2. /\ gh' \in [Threads -> CycleThreads] /\ rec' \in CycleRecords /\ {made', remote', rounds'} \subseteq Nat
        /\ work' \in [Threads -> Nat] /\ cycleTree' \in SUBSET Threads
    BY <2>1 DEF CycleTypes
  <2> QED BY <2>1, <2>2, Forgotten
<1> QED BY <1>2, <1>3, <1>4, <1>5, <1>6, <1>7, <1>8, <1>9, <1>10
\* What a closeout makes of the threads it reads as settled.
LEMMA Reconciled ==
  ASSUME CycleTypes, Cycle!Reconcile
  PROVE  /\ mem' \in CycleRecords /\ mem'.sha = mem.sha /\ mem'.head = mem.head /\ mem'.status = mem.status
         /\ \A t \in Threads : mem'.out[t] \in {mem.out[t], Cycle!SettlementFor(report[t])}
         /\ \A t \in Threads : mem.out[t] \in Cycle!SETTLE_OUTCOMES => mem'.out[t] = mem.out[t]
         /\ \A t \in Threads : t \notin stamped' => mem'.out[t] = mem.out[t]
<1> SUFFICES ASSUME NEW m \in CycleRecords, m = mem
             PROVE  /\ mem' \in CycleRecords /\ mem'.sha = m.sha /\ mem'.head = m.head /\ mem'.status = m.status
                    /\ \A t \in Threads : mem'.out[t] \in {m.out[t], Cycle!SettlementFor(report[t])}
                    /\ \A t \in Threads : m.out[t] \in Cycle!SETTLE_OUTCOMES => mem'.out[t] = m.out[t]
                    /\ \A t \in Threads : t \notin stamped' => mem'.out[t] = m.out[t]
  BY DEF CycleTypes
<1> DEFINE resettled == Cycle!Flipped \cup Cycle!Adopted
           outcomes == [t \in Threads |-> IF t \in resettled THEN Cycle!SettlementFor(report[t]) ELSE m.out[t]]
           owes == m.owed \/ resettled # {}
<1>1. mem' = [m EXCEPT !.out = outcomes, !.owed = owes] /\ stamped' = resettled
  BY DEF Cycle!Reconcile, Cycle!OwedAfter
<1>2. owes \in BOOLEAN
  OBVIOUS
<1>3. \A t \in Threads : Cycle!SettlementFor(report[t]) \in Outs
  BY DEF Cycle!SettlementFor, Cycle!SETTLE_OUTCOMES, Outs, Kinds
<1>4. \A t \in resettled : m.out[t] \notin Cycle!SETTLE_OUTCOMES
  BY DEF Cycle!Flipped, Cycle!Adopted, Cycle!With, Cycle!UNSETTLED_OUTCOMES, Cycle!SETTLE_OUTCOMES
<1> HIDE DEF resettled
<1>5. outcomes \in [Threads -> Outs]
  BY <1>3 DEF CycleRecords
<1>6. /\ \A t \in Threads : outcomes[t] \in {m.out[t], Cycle!SettlementFor(report[t])}
      /\ \A t \in Threads : m.out[t] \in Cycle!SETTLE_OUTCOMES => outcomes[t] = m.out[t]
      /\ \A t \in Threads : t \notin stamped' => outcomes[t] = m.out[t]
  BY <1>1, <1>4
<1> HIDE DEF outcomes, owes
<1>7. /\ mem' \in CycleRecords /\ mem'.out = outcomes /\ mem'.sha = m.sha /\ mem'.head = m.head
      /\ mem'.status = m.status
  BY <1>1, <1>2, <1>5 DEF CycleRecords
<1> QED BY <1>6, <1>7

\* The end of a round, of a push, of the answers and of the closeout: the
\* commit on record and the outcomes stay.
LEMMA SameRound ==
  ASSUME CycleTypes
  PROVE  /\ Cycle!RoundSummary => /\ mem' \in CycleRecords /\ mem'.out = mem.out /\ mem'.sha = mem.sha
                                  /\ mem'.status = mem.status /\ mem'.head = made
         /\ Cycle!PushHeldCommit => /\ mem' \in CycleRecords /\ mem'.out = rec.out /\ mem'.sha = rec.sha
                                    /\ rec.sha = 0 => mem'.status = rec.status
                                    /\ mem'.head = rec.head /\ remote' \in {remote, made}
         /\ Cycle!DrainEnd => /\ mem' \in CycleRecords /\ mem'.out = mem.out /\ mem'.sha = mem.sha
                              /\ mem'.head = mem.head
                              /\ mem.status = "COMMIT_FAILED" => mem'.status = mem.status
         /\ Cycle!FinishSummary => /\ mem' \in CycleRecords /\ mem'.out = mem.out /\ mem'.sha = mem.sha
                                   /\ mem'.head = mem.head
                                   /\ mem.sha = 0 => mem'.status = mem.status
<1> SUFFICES ASSUME NEW m \in CycleRecords, NEW r \in CycleRecords, m = mem, r = rec
             PROVE  /\ Cycle!RoundSummary => /\ mem' \in CycleRecords /\ mem'.out = m.out /\ mem'.sha = m.sha
                                             /\ mem'.status = m.status /\ mem'.head = made
                    /\ Cycle!PushHeldCommit => /\ mem' \in CycleRecords /\ mem'.out = r.out /\ mem'.sha = r.sha
                                               /\ r.sha = 0 => mem'.status = r.status
                                               /\ mem'.head = r.head /\ remote' \in {remote, made}
                    /\ Cycle!DrainEnd => /\ mem' \in CycleRecords /\ mem'.out = m.out /\ mem'.sha = m.sha
                                         /\ mem'.head = m.head
                                         /\ m.status = "COMMIT_FAILED" => mem'.status = m.status
                    /\ Cycle!FinishSummary => /\ mem' \in CycleRecords /\ mem'.out = m.out /\ mem'.sha = m.sha
                                              /\ mem'.head = m.head
                                              /\ m.sha = 0 => mem'.status = m.status
  BY DEF CycleTypes
<1>0. made \in Nat /\ m.status \in Statuses /\ "PUSHED" \in Statuses /\ r.status \in Statuses
      /\ "PUSH_FAILED" \in Statuses
  BY DEF CycleTypes, CycleRecords, Statuses
<1>1. ASSUME Cycle!RoundSummary
      PROVE  /\ mem' \in CycleRecords /\ mem'.out = m.out /\ mem'.sha = m.sha
             /\ mem'.status = m.status /\ mem'.head = made
  <2>1. PICK refused \in Cycle!Refused :
          LET posted == Cycle!Enabled /\ Cycle!MayPostSummary /\ Cycle!InRound # {} /\ ~refused
          IN  mem' = [mem EXCEPT !.owed = Cycle!StillOwed /\ ~posted, !.head = made]
    BY <1>1 DEF Cycle!RoundSummary
  <2> DEFINE posted == Cycle!Enabled /\ Cycle!MayPostSummary /\ Cycle!InRound # {} /\ ~refused
             owes == Cycle!StillOwed /\ ~posted
  <2>2. owes \in BOOLEAN
    OBVIOUS
  <2>3. mem' = [m EXCEPT !.owed = owes, !.head = made]
    BY <2>1
  <2> HIDE DEF owes
  <2> QED BY <1>0, <2>2, <2>3 DEF CycleRecords
<1>2. ASSUME Cycle!PushHeldCommit
      PROVE  /\ mem' \in CycleRecords /\ mem'.out = r.out /\ mem'.sha = r.sha
             /\ r.sha = 0 => mem'.status = r.status
             /\ mem'.head = r.head /\ remote' \in {remote, made}
  <2>1. PICK status \in {rec.status, "PUSHED", "PUSH_FAILED"} :
          /\ mem' = [rec EXCEPT !.status = status] /\ remote' \in {remote, made}
          /\ rec.sha = 0 => status = rec.status
    BY <1>2 DEF Cycle!PushHeldCommit
  <2>2. status \in Statuses /\ mem' = [r EXCEPT !.status = status]
    BY <1>0, <2>1
  <2>3. /\ mem' \in CycleRecords /\ mem'.out = r.out /\ mem'.sha = r.sha /\ mem'.head = r.head
        /\ mem'.status = status
    BY <2>2 DEF CycleRecords
  <2> QED BY <2>1, <2>3
<1>3. ASSUME Cycle!DrainEnd
      PROVE  /\ mem' \in CycleRecords /\ mem'.out = m.out /\ mem'.sha = m.sha /\ mem'.head = m.head
             /\ m.status = "COMMIT_FAILED" => mem'.status = m.status
  <2> DEFINE status == IF Cycle!Enabled /\ Cycle!Landed(mem) /\ Cycle!Unpushed(m.status) THEN "PUSHED" ELSE m.status
             owes == m.pending /\ ~Cycle!Drained
  <2>1. mem' = [m EXCEPT !.status = status, !.pending = owes]
    BY <1>3 DEF Cycle!DrainEnd
  <2>2. status \in Statuses /\ owes \in BOOLEAN /\ (m.status = "COMMIT_FAILED" => status = m.status)
    BY <1>0 DEF Cycle!Unpushed
  <2> HIDE DEF status, owes
  <2>3. /\ mem' \in CycleRecords /\ mem'.out = m.out /\ mem'.sha = m.sha /\ mem'.head = m.head
        /\ mem'.status = status
    BY <2>1, <2>2 DEF CycleRecords
  <2> QED BY <2>2, <2>3
<1>4. ASSUME Cycle!FinishSummary
      PROVE  /\ mem' \in CycleRecords /\ mem'.out = m.out /\ mem'.sha = m.sha /\ mem'.head = m.head
             /\ m.sha = 0 => mem'.status = m.status
  <2>1. PICK posted, renders, held_ : /\ mem' = [m EXCEPT !.status = IF held_ /\ renders THEN "PUSHED" ELSE @,
                                                          !.owed = @ /\ ~posted]
                                      /\ held_ => m.sha # 0
    BY <1>4 DEF Cycle!FinishSummary
  <2> DEFINE status == IF held_ /\ renders THEN "PUSHED" ELSE m.status
             owes == m.owed /\ ~posted
  <2>2. mem' = [m EXCEPT !.status = status, !.owed = owes]
    BY <2>1
  <2>3. status \in Statuses /\ owes \in BOOLEAN /\ (m.sha = 0 => status = m.status)
    BY <1>0, <2>1
  <2> HIDE DEF status, owes
  <2>4. /\ mem' \in CycleRecords /\ mem'.out = m.out /\ mem'.sha = m.sha /\ mem'.head = m.head
        /\ mem'.status = status
    BY <2>2, <2>3 DEF CycleRecords
  <2> QED BY <2>3, <2>4
<1> QED BY <1>1, <1>2, <1>3, <1>4
LEMMA RunsTypes ==
  ASSUME CycleTypes, Cycle!RunStep
  PROVE  CycleTypes'
<1> USE DEF Cycle!counts, Cycle!github, Cycle!branch, Cycle!run
<1>1. CASE Cycle!Triage
  <2>1. PICK v \in [Cycle!Open -> Verdicts] :
          /\ plan' = [t \in Threads |-> IF t \in Cycle!Open THEN v[t] ELSE "out"]
          /\ cycleTodo' = {t \in Cycle!Open : v[t] \in {"ALREADY_ADDRESSED", "DISMISSED"}}
    BY <1>1 DEF Cycle!Triage
  <2>2. Cycle!Open \subseteq Threads
    BY DEF Cycle!Open
  <2>3. Verdicts \subseteq Plans
    BY ConstantsAssumption DEF Cycle!CycleAssumption, Plans
  <2>4. plan' \in [Threads -> Plans] /\ cycleTodo' \subseteq Threads
        /\ \A t \in cycleTodo' : plan'[t] \in {"ALREADY_ADDRESSED", "DISMISSED"}
    BY <2>1, <2>2, <2>3 DEF Plans
  <2> QED BY <1>1, <2>4 DEF Cycle!Triage, CycleTypes, CyclePcs
<1>2. CASE Cycle!TriageFails
  <2>1. /\ Cycle!Forgets /\ UNCHANGED <<gh, rec, made, remote, rounds, work, cycleTree>>
    BY <1>2 DEF Cycle!TriageFails
  <2>2. /\ gh' \in [Threads -> CycleThreads] /\ rec' \in CycleRecords /\ {made', remote', rounds'} \subseteq Nat
        /\ work' \in [Threads -> Nat] /\ cycleTree' \in SUBSET Threads
    BY <2>1 DEF CycleTypes
  <2> QED BY <2>1, <2>2, Forgotten
<1>3. CASE Cycle!PostTriageReplies
  <2>1. Cycle!Deliver("triage_replies", plan, Cycle!Closing)
    BY <1>3 DEF Cycle!PostTriageReplies
  <2>2. cyclePc = "triage_replies"
    BY <2>1 DEF Cycle!Deliver
  <2>3. \A t \in cycleTodo : plan[t] \in Kinds
    BY <2>2 DEF CycleTypes, Kinds
  <2> QED BY <2>1, <2>3, DeliveryKeepsTypes
<1>4. CASE Cycle!Agent
  <2>1. /\ cyclePc' = "settle_fixed" /\ UNCHANGED <<gh, report, rec, plan, rounds>>
        /\ mem' \in CycleRecords /\ {made', remote'} \subseteq Nat /\ work' \in [Threads -> Nat]
        /\ cycleTree' \subseteq Threads /\ cycleTodo' \subseteq Threads
    BY <1>4, AgentStep
  <2> QED BY <2>1 DEF CycleTypes, CyclePcs
<1>5. CASE Cycle!SettleFixed
  <2>1. PICK kindOf : kindOf = [t \in Threads |-> "FIXED"] /\ Cycle!Deliver("settle_fixed", kindOf, Cycle!Closing)
    BY <1>5 DEF Cycle!SettleFixed
  <2>2. \A t \in cycleTodo : kindOf[t] \in Kinds
    BY <2>1 DEF CycleTypes, Kinds
  <2> QED BY <2>1, <2>2, DeliveryKeepsTypes
<1>6. CASE Cycle!RoundSummary
  <2>1. mem' \in CycleRecords
    BY <1>6, SameRound
  <2> QED BY <1>6, <2>1 DEF Cycle!RoundSummary, CycleTypes, CyclePcs
<1>7. CASE Cycle!Persist
  <2>1. rec' = Cycle!Merged(rec, published) /\ gh' = Cycle!DatedAll(gh)
        /\ UNCHANGED <<made, remote, cycleTree, work, rounds>>
    BY <1>7 DEF Cycle!Persist
  <2>2. gh' \in [Threads -> CycleThreads]
    BY <2>1, DatedThreads
  <2>3. rec' \in CycleRecords
    BY <2>1, MergedRecord
  <2>4. CASE "finish" \notin phases
    <3>1. Cycle!Forgets
      BY <1>7, <2>4 DEF Cycle!Persist
    <3>2. {made', remote', rounds'} \subseteq Nat /\ work' \in [Threads -> Nat] /\ cycleTree' \in SUBSET Threads
      BY <2>1 DEF CycleTypes
    <3> QED BY <2>2, <2>3, <3>1, <3>2, Forgotten
  <2>5. CASE "finish" \in phases
    <3>1. /\ cyclePc = "persist" /\ cyclePc' = "push" /\ UNCHANGED <<mem, plan, cycleTodo>>
          /\ report' = [t \in Threads |-> IF t \in stamped THEN [report[t] EXCEPT !.spoken = FALSE, !.backed = FALSE]
                                          ELSE report[t]]
      BY <1>7, <2>5 DEF Cycle!Persist
    <3>2. ASSUME NEW t \in Threads PROVE report'[t] \in CycleThreads
      <4>1. report[t] \in CycleThreads
        BY DEF CycleTypes
      <4>2. [report[t] EXCEPT !.spoken = FALSE, !.backed = FALSE] \in CycleThreads
        BY <4>1 DEF CycleThreads
      <4> QED BY <3>1, <4>1, <4>2
    <3>3. report' \in [Threads -> CycleThreads]
      BY <3>1, <3>2
    <3> QED BY <2>1, <2>2, <2>3, <3>1, <3>3 DEF CycleTypes, CyclePcs
  <2> QED BY <2>4, <2>5
<1>8. CASE Cycle!PushHeldCommit
  <2>1. mem' \in CycleRecords /\ remote' \in {remote, made}
    BY <1>8, SameRound
  <2> QED BY <1>8, <2>1 DEF Cycle!PushHeldCommit, CycleTypes, CyclePcs
<1>9. CASE Cycle!DrainStart
  BY <1>9 DEF Cycle!DrainStart, Cycle!With, Cycle!SETTLE_OUTCOMES, CycleTypes, CyclePcs
<1>10. CASE Cycle!PostPendingFixReplies
  <2>1. PICK kindOf : kindOf = mem.out /\ Cycle!Deliver("drain", kindOf, Cycle!Closing)
    BY <1>10 DEF Cycle!PostPendingFixReplies
  <2>2. cyclePc = "drain"
    BY <2>1 DEF Cycle!Deliver
  <2>3. \A t \in cycleTodo : kindOf[t] \in Kinds
    BY <2>1, <2>2 DEF CycleTypes, Kinds, Cycle!SETTLE_OUTCOMES
  <2> QED BY <2>1, <2>3, DeliveryKeepsTypes
<1>11. CASE Cycle!DrainEnd
  <2>1. mem' \in CycleRecords
    BY <1>11, SameRound
  <2> QED BY <1>11, <2>1 DEF Cycle!DrainEnd, CycleTypes, CyclePcs
<1>12. CASE Cycle!Reconcile
  <2>1. mem' \in CycleRecords
    BY <1>12, Reconciled
  <2> QED BY <1>12, <2>1 DEF Cycle!Reconcile, CycleTypes, CyclePcs
<1>13. CASE Cycle!TrackRefused
  BY <1>13 DEF Cycle!TrackRefused, CycleTypes, CyclePcs
<1>14. CASE Cycle!Track
  <2>1. cycleTodo' \subseteq Cycle!With({"DEFERRED", "NEEDS_HUMAN"})
    BY <1>14 DEF Cycle!Track
  <2> QED BY <1>14, <2>1 DEF Cycle!Track, Cycle!With, CycleTypes, CyclePcs
<1>15. CASE Cycle!PostDeferredReplies
  <2>1. PICK kindOf : kindOf = mem.out /\ Cycle!Deliver("file", kindOf, {})
    BY <1>15 DEF Cycle!PostDeferredReplies
  <2>2. cyclePc = "file"
    BY <2>1 DEF Cycle!Deliver
  <2>3. \A t \in cycleTodo : kindOf[t] \in Kinds
    BY <2>1, <2>2 DEF CycleTypes, Kinds
  <2> QED BY <2>1, <2>3, DeliveryKeepsTypes
<1>16. CASE Cycle!FinishSummary
  <2>1. mem' \in CycleRecords
    BY <1>16, SameRound
  <2> QED BY <1>16, <2>1 DEF Cycle!FinishSummary, CycleTypes, CyclePcs
<1>17. CASE Cycle!FinishSave
  <2>1. /\ Cycle!Forgets /\ rec' = mem /\ gh' = Cycle!DatedAll(gh)
        /\ UNCHANGED <<made, remote, rounds, work, cycleTree>>
    BY <1>17 DEF Cycle!FinishSave
  <2>2. /\ gh' \in [Threads -> CycleThreads] /\ rec' \in CycleRecords /\ {made', remote', rounds'} \subseteq Nat
        /\ work' \in [Threads -> Nat] /\ cycleTree' \in SUBSET Threads
    BY <2>1, DatedThreads DEF CycleTypes
  <2> QED BY <2>1, <2>2, Forgotten
<1> QED BY <1>1, <1>2, <1>3, <1>4, <1>5, <1>6, <1>7, <1>8, <1>9, <1>10, <1>11, <1>12, <1>13, <1>14, <1>15,
           <1>16, <1>17 DEF Cycle!RunStep
-----------------------------------------------------------------------------
(* One reply of ours on a thread.  A run answers a thread once, on the     *)
(* report it fetched: until it has, that report knows who spoke last.      *)

Silent(t) == gh[t].last = report[t].last
RoundsPcs == {"triage", "triage_replies", "settle_fixed", "persist"}

SingleInv ==
  /\ cyclePc \in RoundsPcs => "finish" \notin phases
  /\ \A t \in Threads :
       /\ ~gh[t].stacked
       /\ cyclePc \in {"triage", "push", "drain_start"} => Silent(t)
       /\ cyclePc = "triage_replies"
            => Silent(t) \/ (t \notin cycleTodo /\ plan[t] \in {"ALREADY_ADDRESSED", "DISMISSED"})
       /\ cyclePc \in {"settle_fixed", "file"} => Silent(t) \/ t \notin cycleTodo
       /\ cyclePc = "drain" => Silent(t) \/ (t \notin cycleTodo /\ mem.out[t] \in Cycle!SETTLE_OUTCOMES)
       /\ cyclePc \in {"reconcile", "track"} => Silent(t) \/ mem.out[t] \in Cycle!SETTLE_OUTCOMES

LEMMA SingleBetweenRuns ==
  ASSUME cyclePc' = "off", \A t \in Threads : ~gh'[t].stacked
  PROVE  SingleInv'
BY DEF SingleInv, RoundsPcs

\* An answer in a run: the thread was not answered yet, and is not again.
LEMMA SingleDelivery ==
  ASSUME CycleTypes, SingleInv, NEW at \in {"triage_replies", "settle_fixed", "drain", "file"}, NEW kindOf,
         NEW closing, Cycle!Deliver(at, kindOf, closing), \A t \in cycleTodo : kindOf[t] \in Kinds
  PROVE  SingleInv'
<1>1. /\ cyclePc = at /\ cyclePc' = at
      /\ UNCHANGED <<phases, mem, plan>>
  BY Delivers
<1>2. PICK t \in cycleTodo :
        /\ cycleTodo' = cycleTodo \ {t}
        /\ \A s \in Threads : s # t => gh'[s] = gh[s]
        /\ \A s \in Threads : report'[s].last = report[s].last
        /\ (gh'[t].stacked => gh[t].stacked \/ (report[t].last # "us" /\ gh[t].last = "us"))
  <2>1. \E t \in cycleTodo, kind \in Answers :
          /\ cycleTodo' = cycleTodo \ {t}
          /\ \A s \in Threads : s # t => gh'[s] = gh[s]
          /\ \A s \in Threads : report'[s].last = report[s].last /\ report'[s].mine = report[s].mine
          /\ \/ /\ gh'[t].mine = kind
                /\ report[t].last = "us" => gh'[t].last = gh[t].last
                /\ report[t].last # "us" => gh'[t].last = "us"
                /\ gh'[t].stacked => gh[t].stacked \/ (report[t].last # "us" /\ gh[t].last = "us")
             \/ /\ gh'[t].mine = gh[t].mine /\ gh'[t].last = gh[t].last
                /\ gh'[t].stacked = gh[t].stacked
    BY Delivers
  <2> QED BY <2>1
<1>3. t \in Threads /\ Silent(t)
  BY <1>1 DEF CycleTypes, SingleInv
<1>4. ~gh'[t].stacked
  BY <1>2, <1>3 DEF SingleInv, Silent
<1>5. \A s \in Threads : s # t => (Silent(s)' <=> Silent(s)) /\ ~gh'[s].stacked
  BY <1>2 DEF SingleInv, Silent
<1>6. cyclePc = "triage_replies" => plan[t] \in {"ALREADY_ADDRESSED", "DISMISSED"}
  BY DEF CycleTypes
<1>7. cyclePc = "drain" => mem.out[t] \in Cycle!SETTLE_OUTCOMES
  BY DEF CycleTypes
<1>8. t \notin cycleTodo' /\ \A s \in Threads : s # t => (s \in cycleTodo' <=> s \in cycleTodo)
  BY <1>2
<1> QED BY <1>1, <1>3, <1>4, <1>5, <1>6, <1>7, <1>8 DEF SingleInv, RoundsPcs

\* What people do, and how a run begins, when nobody writes during a run.
LEMMA SinglePeople ==
  ASSUME CycleTypes, SingleInv, ~Races,
         \/ \E p \in BOOLEAN : Cycle!FixCommand(p, {"fix"}) \/ Cycle!FinishCommand(p)
         \/ \E t \in Threads, kind \in SettleAs : Cycle!Settle(t, kind)
         \/ \E t \in Threads, body \in Bodies : Cycle!Reply(t, body)
         \/ \E t \in Threads, how \in {"them", "ack"}, reopens \in BOOLEAN : Cycle!Speak(t, how, reopens)
         \/ \E t \in Threads : Cycle!HandResolve(t)
         \/ Cycle!OperatorCommits \/ Cycle!OperatorPushes \/ Cycle!Crash
  PROVE  SingleInv'
<1> USE DEF Cycle!counts, Cycle!github, Cycle!branch, Cycle!run
<1>0. gh \in [Threads -> CycleThreads] /\ \A t \in Threads : gh[t] \in CycleThreads
  BY DEF CycleTypes
<1>1. ASSUME NEW p, NEW ps, Cycle!Begin(p, ps)
      PROVE  /\ report' = gh' /\ phases' = ps
             /\ \A t \in Threads : ~gh'[t].stacked
  <2>1. PICK closed \in SUBSET Threads :
          gh' = [t \in Threads |-> [gh[t] EXCEPT !.resolved = @ \/ t \in closed]]
    BY <1>1 DEF Cycle!Begin, Cycle!Verified
  <2>2. ASSUME NEW t \in Threads PROVE gh'[t].stacked = gh[t].stacked
    BY <1>0, <2>1 DEF CycleThreads
  <2> QED BY <1>1, <2>2 DEF Cycle!Begin, SingleInv
<1>2. ASSUME NEW p, Cycle!FixCommand(p, {"fix"}) PROVE SingleInv'
  <2>1. /\ report' = gh' /\ phases' = {"fix"} /\ cyclePc' = "triage"
        /\ \A t \in Threads : ~gh'[t].stacked
    BY <1>1, <1>2 DEF Cycle!FixCommand
  <2> QED BY <2>1 DEF SingleInv, Silent, RoundsPcs
<1>3. ASSUME NEW p, Cycle!FinishCommand(p) PROVE SingleInv'
  <2>1. /\ report' = gh' /\ phases' = {"finish"} /\ cyclePc' = "push"
        /\ \A t \in Threads : ~gh'[t].stacked
    BY <1>1, <1>3 DEF Cycle!FinishCommand
  <2> QED BY <2>1 DEF SingleInv, Silent, RoundsPcs
<1>4. ASSUME NEW t \in Threads, NEW kind \in SettleAs, Cycle!Settle(t, kind) PROVE SingleInv'
  <2>1. /\ cyclePc' = "off" /\ gh' = [gh EXCEPT ![t] = [@ EXCEPT !.spoken = FALSE, !.backed = FALSE]]
    BY <1>4 DEF Cycle!Settle
  <2>2. \A s \in Threads : gh'[s].stacked = gh[s].stacked
    BY <1>0, <2>1 DEF CycleThreads
  <2> QED BY <2>1, <2>2, SingleBetweenRuns DEF SingleInv
<1>5. ASSUME NEW t \in Threads, NEW body \in Bodies, Cycle!Reply(t, body) PROVE SingleInv'
  <2> SUFFICES ASSUME NEW old \in CycleThreads, NEW kind \in Answers, old = gh[t], kind = body PROVE SingleInv'
    BY ConstantsAssumption DEF Cycle!CycleAssumption, CycleTypes, Answers
  <2>1. /\ cyclePc' = "off" /\ gh' = [gh EXCEPT ![t] = Cycle!Upserted(old, old, kind)]
    BY <1>5 DEF Cycle!Reply
  <2>2. Cycle!Upserted(old, old, kind).stacked => old.stacked \/ (old.last # "us" /\ old.last = "us")
    BY UpsertedThread
  <2>3. \A s \in Threads : ~gh'[s].stacked
    BY <1>0, <2>1, <2>2 DEF SingleInv
  <2> QED BY <2>1, <2>3, SingleBetweenRuns
<1>6. ASSUME NEW t \in Threads, NEW how \in {"them", "ack"}, NEW reopens \in BOOLEAN, Cycle!Speak(t, how, reopens)
      PROVE  SingleInv'
  <2> DEFINE res == gh[t].resolved /\ ~reopens
  <2>1. res \in BOOLEAN
    OBVIOUS
  <2>2. /\ cyclePc' = "off"
        /\ gh' = [gh EXCEPT ![t] = [@ EXCEPT !.last = how, !.spoken = TRUE, !.stacked = FALSE, !.resolved = res]]
    BY <1>6 DEF Cycle!Speak
  <2> HIDE DEF res
  <2>3. \A s \in Threads : ~gh'[s].stacked
    BY <1>0, <2>1, <2>2 DEF CycleThreads, SingleInv
  <2> QED BY <2>2, <2>3, SingleBetweenRuns
<1>7. ASSUME NEW t \in Threads, Cycle!HandResolve(t) PROVE SingleInv'
  <2>1. /\ cyclePc' = "off" /\ gh' = [gh EXCEPT ![t] = [@ EXCEPT !.resolved = TRUE]]
    BY <1>7 DEF Cycle!HandResolve
  <2>2. \A s \in Threads : gh'[s].stacked = gh[s].stacked
    BY <1>0, <2>1 DEF CycleThreads
  <2> QED BY <2>1, <2>2, SingleBetweenRuns DEF SingleInv
<1>8. CASE Cycle!OperatorCommits
  BY <1>8, SingleBetweenRuns DEF Cycle!OperatorCommits, SingleInv
<1>9. CASE Cycle!OperatorPushes
  BY <1>9, SingleBetweenRuns DEF Cycle!OperatorPushes, SingleInv
<1>10. CASE Cycle!Crash
  BY <1>10, SingleBetweenRuns DEF Cycle!Crash, Cycle!Forgets, SingleInv
<1> QED BY <1>2, <1>3, <1>4, <1>5, <1>6, <1>7, <1>8, <1>9, <1>10
LEMMA SingleRuns ==
  ASSUME CycleTypes, SingleInv, Cycle!RunStep
  PROVE  SingleInv'
<1> USE DEF Cycle!counts, Cycle!github, Cycle!branch, Cycle!run
<1>1. CASE Cycle!Triage
  BY <1>1 DEF Cycle!Triage, SingleInv, RoundsPcs, Silent
<1>2. CASE Cycle!TriageFails
  BY <1>2, SingleBetweenRuns DEF Cycle!TriageFails, Cycle!Forgets, SingleInv
<1>3. CASE Cycle!PostTriageReplies
  <2>1. Cycle!Deliver("triage_replies", plan, Cycle!Closing)
    BY <1>3 DEF Cycle!PostTriageReplies
  <2>2. cyclePc = "triage_replies"
    BY <2>1 DEF Cycle!Deliver
  <2>3. \A t \in cycleTodo : plan[t] \in Kinds
    BY <2>2 DEF CycleTypes, Kinds
  <2> QED BY <2>1, <2>3, SingleDelivery
<1>4. CASE Cycle!Agent
  <2>1. /\ cyclePc = "triage_replies" /\ cyclePc' = "settle_fixed"
        /\ UNCHANGED <<gh, report, phases>>
    BY <1>4, AgentStep
  <2>2. \A t \in cycleTodo' : plan[t] = "fixable"
    BY <1>4 DEF Cycle!Agent
  <2> QED BY <2>1, <2>2 DEF SingleInv, RoundsPcs, Silent
<1>5. CASE Cycle!SettleFixed
  <2>1. PICK kindOf : kindOf = [t \in Threads |-> "FIXED"] /\ Cycle!Deliver("settle_fixed", kindOf, Cycle!Closing)
    BY <1>5 DEF Cycle!SettleFixed
  <2>2. \A t \in cycleTodo : kindOf[t] \in Kinds
    BY <2>1 DEF CycleTypes, Kinds
  <2> QED BY <2>1, <2>2, SingleDelivery
<1>6. CASE Cycle!RoundSummary
  BY <1>6 DEF Cycle!RoundSummary, SingleInv, RoundsPcs
<1>7. CASE Cycle!Persist
  <2>1. Cycle!Forgets /\ gh' = Cycle!DatedAll(gh)
    BY <1>7 DEF Cycle!Persist, SingleInv, RoundsPcs
  <2>2. cyclePc' = "off"
    BY <2>1 DEF Cycle!Forgets
  <2>3. \A t \in Threads : ~gh'[t].stacked
    BY <2>1, DatedThreads DEF SingleInv
  <2> QED BY <2>2, <2>3, SingleBetweenRuns
<1>8. CASE Cycle!PushHeldCommit
  BY <1>8 DEF Cycle!PushHeldCommit, SingleInv, RoundsPcs, Silent
<1>9. CASE Cycle!DrainStart
  BY <1>9 DEF Cycle!DrainStart, SingleInv, RoundsPcs, Silent
<1>10. CASE Cycle!PostPendingFixReplies
  <2>1. PICK kindOf : kindOf = mem.out /\ Cycle!Deliver("drain", kindOf, Cycle!Closing)
    BY <1>10 DEF Cycle!PostPendingFixReplies
  <2>2. cyclePc = "drain"
    BY <2>1 DEF Cycle!Deliver
  <2>3. \A t \in cycleTodo : kindOf[t] \in Kinds
    BY <2>1, <2>2 DEF CycleTypes, Kinds, Cycle!SETTLE_OUTCOMES
  <2> QED BY <2>1, <2>3, SingleDelivery
<1>11. CASE Cycle!DrainEnd
  <2>1. mem'.out = mem.out /\ cyclePc = "drain" /\ cyclePc' = "reconcile" /\ UNCHANGED <<gh, report, phases>>
    BY <1>11, SameRound DEF Cycle!DrainEnd
  <2> QED BY <2>1 DEF SingleInv, RoundsPcs, Silent
<1>12. CASE Cycle!Reconcile
  <2>1. \A t \in Threads : mem.out[t] \in Cycle!SETTLE_OUTCOMES => mem'.out[t] = mem.out[t]
    BY <1>12, Reconciled
  <2>2. cyclePc = "reconcile" /\ cyclePc' = "track" /\ UNCHANGED <<gh, report, phases>>
    BY <1>12 DEF Cycle!Reconcile
  <2> QED BY <2>1, <2>2 DEF SingleInv, RoundsPcs, Silent
<1>13. CASE Cycle!TrackRefused
  BY <1>13 DEF Cycle!TrackRefused, SingleInv, RoundsPcs
<1>14. CASE Cycle!Track
  <2>1. \A t \in cycleTodo' : mem.out[t] \in {"DEFERRED", "NEEDS_HUMAN"}
    BY <1>14 DEF Cycle!Track, Cycle!With
  <2>2. cyclePc = "track" /\ cyclePc' = "file" /\ UNCHANGED <<gh, report, phases, mem>>
    BY <1>14 DEF Cycle!Track
  <2> QED BY <2>1, <2>2 DEF SingleInv, RoundsPcs, Silent, Cycle!SETTLE_OUTCOMES
<1>15. CASE Cycle!PostDeferredReplies
  <2>1. PICK kindOf : kindOf = mem.out /\ Cycle!Deliver("file", kindOf, {})
    BY <1>15 DEF Cycle!PostDeferredReplies
  <2>2. cyclePc = "file"
    BY <2>1 DEF Cycle!Deliver
  <2>3. \A t \in cycleTodo : kindOf[t] \in Kinds
    BY <2>1, <2>2 DEF CycleTypes, Kinds
  <2> QED BY <2>1, <2>3, SingleDelivery
<1>16. CASE Cycle!FinishSummary
  BY <1>16 DEF Cycle!FinishSummary, SingleInv, RoundsPcs
<1>17. CASE Cycle!FinishSave
  <2>1. Cycle!Forgets /\ gh' = Cycle!DatedAll(gh)
    BY <1>17 DEF Cycle!FinishSave
  <2>2. cyclePc' = "off"
    BY <2>1 DEF Cycle!Forgets
  <2>3. \A t \in Threads : ~gh'[t].stacked
    BY <2>1, DatedThreads DEF SingleInv
  <2> QED BY <2>2, <2>3, SingleBetweenRuns
<1> QED BY <1>1, <1>2, <1>3, <1>4, <1>5, <1>6, <1>7, <1>8, <1>9, <1>10, <1>11, <1>12, <1>13, <1>14, <1>15,
           <1>16, <1>17 DEF Cycle!RunStep

LEMMA CycleTypesStay ==
  CycleTypes /\ [Cycle!Next]_Cycle!vars => CycleTypes'
<1> SUFFICES ASSUME CycleTypes, [Cycle!Next]_Cycle!vars PROVE CycleTypes'
  OBVIOUS
<1>1. CASE UNCHANGED Cycle!vars
  BY <1>1 DEF Cycle!vars, CycleTypes
<1>2. CASE Cycle!RunStep
  BY <1>2, RunsTypes
<1>3. CASE Cycle!Next /\ ~Cycle!RunStep
  BY <1>3, PeoplesTypes DEF Cycle!Next
<1> QED BY <1>1, <1>2, <1>3

LEMMA CycleBegins ==
  Cycle!Init => CycleTypes /\ SingleInv
<1> SUFFICES ASSUME Cycle!Init PROVE CycleTypes /\ SingleInv
  OBVIOUS
<1>1. /\ gh = Cycle!NewThreads /\ report = gh /\ rec = Cycle!NewRecord /\ mem = rec /\ cyclePc = "off"
      /\ cycleTodo = {} /\ cycleTree = {} /\ made = 0 /\ remote = 0 /\ rounds = 0
      /\ work = [t \in Threads |-> 0] /\ plan = [t \in Threads |-> "out"]
  BY DEF Cycle!Init
<1>2. CycleTypes
  BY <1>1, NewOnes DEF CycleTypes, CyclePcs, Plans
<1>3. SingleInv
  BY <1>1, NewOnes DEF SingleInv, RoundsPcs
<1> QED BY <1>2, <1>3

\* One reply per thread: two of ours never stand together on it, as long as
\* nobody writes while a run goes on and no run is a round and a closeout in
\* one (`upsert_thread_reply` edits what the report shows as our last word).
THEOREM OneReplyAlways ==
  ASSUME ~Races, ~Combines
  PROVE  Spec => []OneReply
<1> DEFINE Inv == part = "cycle" => CycleTypes /\ SingleInv
<1>1. Init => Inv
  BY EveryPartStarts, CycleBegins
<1>2. Inv /\ [Next]_vars => Inv'
  <2> SUFFICES ASSUME Inv, [Next]_vars, part' = "cycle" PROVE CycleTypes' /\ SingleInv'
    OBVIOUS
  <2>1. part = "cycle" /\ [Cycle!Next]_Cycle!vars
    BY OnePartMoves
  <2>2. CycleTypes /\ SingleInv
    BY <2>1
  <2> HIDE DEF Inv
  <2>3. CycleTypes'
    BY <2>1, <2>2, CycleTypesStay
  <2>4. CASE UNCHANGED Cycle!vars
    BY <2>2, <2>3, <2>4 DEF Cycle!vars, SingleInv, Silent
  <2>5. CASE Cycle!RunStep
    BY <2>2, <2>3, <2>5, SingleRuns
  <2>6. CASE Cycle!Next /\ ~Cycle!RunStep
    BY <2>2, <2>3, <2>6, SinglePeople DEF Cycle!Next
  <2> QED BY <2>1, <2>4, <2>5, <2>6
<1>3. Inv => OneReply
  BY DEF OneReply, Cycle!OneReply, SingleInv
<1> QED BY <1>1, <1>2, <1>3, PTL DEF Spec
-----------------------------------------------------------------------------
(* A fix is told of only once origin has it.  A fix on record has its       *)
(* commit on origin, under the one on record, or, when the commit failed,  *)
(* still in the worktree or in what the operator committed since; or it    *)
(* went on record without a commit, and is adrift.  A round that has        *)
(* landed and is not on record speaks for the threads it fixed.            *)

AtOrigin(t) == work[t] \in 1..remote
Carries(r, t) ==
  \/ r.sha # 0 /\ work[t] \in 1..r.sha
  \/ /\ r.sha = 0 /\ r.status = "COMMIT_FAILED"
     /\ (t \in cycleTree /\ made = r.head) \/ work[t] \in 1..made
Accounted(r, t) == AtOrigin(t) \/ t \in adrift \/ Carries(r, t)

JustLanded == cyclePc \in {"settle_fixed", "persist"}
ClosingPcs == {"drain_start", "drain", "reconcile", "track", "file", "save"}
UnstampedPcs == {"off", "triage", "push", "drain_start", "drain", "reconcile"}

\* What the round that has just landed says of its commit.
RoundHolds(t) ==
  \/ AtOrigin(t) \/ Carries(mem, t) \/ mem.status = "NO_CHANGES"
  \/ cyclePc = "settle_fixed" /\ mem.status = "COMMIT_FAILED" /\ t \in cycleTree
RoundIsOfItsCommit ==
  /\ mem.sha # 0 => mem.sha = made /\ cycleTree = {}
  /\ mem.sha = 0 => mem.status \in {"NO_CHANGES", "COMMIT_FAILED"}
  /\ cyclePc = "persist" => mem.head = made

LandedInv ==
  /\ remote <= made
  /\ cyclePc \in UnstampedPcs => stamped = {}
  /\ JustLanded => RoundIsOfItsCommit
  /\ \A t \in Threads :
       /\ work[t] <= made /\ (t \in cycleTree => work[t] = 0)
       /\ rec.out[t] = "FIXED" => Accounted(rec, t) \/ (JustLanded /\ mem.out[t] = "FIXED")
       /\ JustLanded /\ mem.out[t] = "FIXED" => RoundHolds(t)
       /\ cyclePc \in ClosingPcs /\ mem.out[t] = "FIXED" /\ t \notin stamped => Accounted(mem, t)
       /\ cyclePc = "settle_fixed" /\ t \in cycleTodo => AtOrigin(t)
       /\ cyclePc = "drain" /\ t \in cycleTodo /\ mem.out[t] = "FIXED" => AtOrigin(t) \/ t \in adrift

\* A step that leaves the branch, the record and the round alone.
LEMMA LandedStill ==
  ASSUME LandedInv, cycleTodo' \subseteq cycleTodo,
         UNCHANGED <<rec, mem, made, remote, work, cycleTree, cyclePc, stamped, adrift>>
  PROVE  LandedInv'
<1>1. \A t \in Threads : AtOrigin(t)' <=> AtOrigin(t)
  BY DEF AtOrigin
<1>2. \A t \in Threads : (Carries(rec, t)' <=> Carries(rec, t)) /\ (Carries(mem, t)' <=> Carries(mem, t))
  BY DEF Carries
<1>3. \A t \in Threads : (Accounted(rec, t)' <=> Accounted(rec, t)) /\ (Accounted(mem, t)' <=> Accounted(mem, t))
  BY <1>1, <1>2 DEF Accounted
<1>4. \A t \in Threads : RoundHolds(t)' <=> RoundHolds(t)
  BY <1>1, <1>2 DEF RoundHolds
<1>5. (JustLanded' <=> JustLanded) /\ (RoundIsOfItsCommit' <=> RoundIsOfItsCommit)
  BY DEF JustLanded, RoundIsOfItsCommit
<1> QED BY <1>1, <1>3, <1>4, <1>5 DEF LandedInv

\* The record after a step outside a round: whatever it says is fixed is
\* accounted for.
LEMMA LandedOutside ==
  ASSUME LandedInv, ~JustLanded', cyclePc' \notin ClosingPcs, cyclePc' \in UnstampedPcs => stamped' = {},
         UNCHANGED <<made, work, cycleTree, remote>>,
         \A t \in Threads : rec'.out[t] = "FIXED" => Accounted(rec, t)'
  PROVE  LandedInv'
BY DEF LandedInv, JustLanded, ClosingPcs

\* A run that is over leaves the branch and the record as they are.
LEMMA LandedAfterRun ==
  ASSUME LandedInv, ~JustLanded, cyclePc' \in {"off", "triage", "triage_replies", "push"},
         cyclePc' \in UnstampedPcs => stamped' = {},
         UNCHANGED <<rec, made, remote, work, cycleTree, adrift>>
  PROVE  LandedInv'
<1>1. \A t \in Threads : rec'.out[t] = "FIXED" => Accounted(rec, t)'
  BY DEF LandedInv, Accounted, AtOrigin, Carries
<1> QED BY <1>1, LandedOutside DEF JustLanded, ClosingPcs

\* A step of the closeout that leaves the branch and the record alone.
LEMMA LandedCloses ==
  ASSUME LandedInv, cyclePc \in ClosingPcs, cyclePc' \in ClosingPcs,
         cyclePc' \in UnstampedPcs => stamped' = {},
         UNCHANGED <<rec, made, remote, work, cycleTree, adrift>>,
         mem'.sha = mem.sha, mem'.head = mem.head, mem.sha = 0 /\ mem.status = "COMMIT_FAILED" => mem'.status = mem.status,
         \A t \in Threads : t \notin stamped' => t \notin stamped /\ mem'.out[t] = mem.out[t],
         cyclePc' = "drain" => \A t \in Threads : t \in cycleTodo' /\ mem'.out[t] = "FIXED" => AtOrigin(t) \/ t \in adrift
  PROVE  LandedInv'
<1>1. \A t \in Threads : AtOrigin(t)' <=> AtOrigin(t)
  BY DEF AtOrigin
<1>2. \A t \in Threads : (Carries(rec, t) => Carries(rec, t)') /\ (Carries(mem, t) => Carries(mem, t)')
  BY DEF Carries
<1>3. \A t \in Threads : (Accounted(rec, t) => Accounted(rec, t)') /\ (Accounted(mem, t) => Accounted(mem, t)')
  BY <1>1, <1>2 DEF Accounted
<1>4. ~JustLanded /\ ~JustLanded' /\ cyclePc' # "settle_fixed"
  BY DEF JustLanded, ClosingPcs
<1> QED BY <1>1, <1>3, <1>4 DEF LandedInv

\* What people do, and how a run begins.
LEMMA LandedPeople ==
  ASSUME CycleTypes, LandedInv,
         \/ \E p \in BOOLEAN : \E ps : Cycle!FixCommand(p, ps) \/ Cycle!FinishCommand(p)
         \/ \E t \in Threads, kind \in SettleAs : Cycle!Settle(t, kind)
         \/ \E t \in Threads, body \in Bodies : Cycle!Reply(t, body)
         \/ \E t \in Threads, how \in {"them", "ack"}, reopens \in BOOLEAN : Cycle!Speak(t, how, reopens)
         \/ \E t \in Threads : Cycle!HandResolve(t)
         \/ Cycle!OperatorCommits \/ Cycle!OperatorPushes \/ Cycle!Crash
  PROVE  LandedInv'
<1> USE DEF Cycle!counts, Cycle!github, Cycle!branch, Cycle!run, Cycle!history
<1>0. /\ made \in Nat /\ remote \in Nat /\ work \in [Threads -> Nat] /\ cycleTree \subseteq Threads
  BY DEF CycleTypes
<1>1. ASSUME NEW p, NEW ps, Cycle!FixCommand(p, ps) \/ Cycle!FinishCommand(p) PROVE LandedInv'
  <2>1. /\ cyclePc = "off" /\ cyclePc' \in {"triage", "push"}
        /\ UNCHANGED <<rec, made, remote, work, cycleTree, adrift, stamped>>
    BY <1>1 DEF Cycle!FixCommand, Cycle!FinishCommand, Cycle!Begin
  <2>2. ~JustLanded /\ stamped' = {}
    BY <2>1 DEF JustLanded, LandedInv, UnstampedPcs
  <2> QED BY <2>1, <2>2, LandedAfterRun
<1>2. ASSUME NEW t \in Threads, NEW kind \in SettleAs, Cycle!Settle(t, kind) PROVE LandedInv'
  <2>1. /\ cyclePc = "off" /\ cyclePc' = "off" /\ UNCHANGED <<made, remote, work, cycleTree, stamped>>
        /\ adrift' = IF kind = "FIXED" THEN adrift \cup Cycle!NotAtOrigin({t}) ELSE adrift
    BY <1>2 DEF Cycle!Settle
  <2>2. /\ rec'.sha = rec.sha /\ rec'.status = rec.status /\ rec'.head = rec.head
        /\ \A s \in Threads : rec'.out[s] = IF s = t THEN kind ELSE rec.out[s]
    <3> SUFFICES ASSUME NEW r0 \in CycleRecords, r0 = rec
                 PROVE  /\ rec'.sha = r0.sha /\ rec'.status = r0.status /\ rec'.head = r0.head
                        /\ \A s \in Threads : rec'.out[s] = IF s = t THEN kind ELSE r0.out[s]
      BY DEF CycleTypes
    <3> DEFINE outcomes == [r0.out EXCEPT ![t] = kind]
    <3>1. rec' = [[r0 EXCEPT !.out = outcomes] EXCEPT !.pending = TRUE, !.owed = TRUE]
      BY <1>2 DEF Cycle!Settle, Cycle!Rearm
    <3>2. \A s \in Threads : outcomes[s] = IF s = t THEN kind ELSE r0.out[s]
      BY DEF CycleRecords
    <3> HIDE DEF outcomes
    <3>3. rec'.out = outcomes /\ rec'.sha = r0.sha /\ rec'.status = r0.status /\ rec'.head = r0.head
      BY <3>1 DEF CycleRecords
    <3> QED BY <3>2, <3>3
  <2>3. ~JustLanded /\ ~JustLanded' /\ stamped' = {} /\ cyclePc' \notin ClosingPcs
    BY <2>1 DEF JustLanded, LandedInv, UnstampedPcs, ClosingPcs
  <2>4. ASSUME NEW s \in Threads, rec'.out[s] = "FIXED" PROVE Accounted(rec, s)'
    <3>1. CASE s = t
      <4>1. t \in adrift' \/ AtOrigin(t)
        BY <2>1, <2>2, <2>4, <3>1 DEF Cycle!NotAtOrigin, AtOrigin
      <4> QED BY <2>1, <3>1, <4>1 DEF Accounted, AtOrigin
    <3>2. CASE s # t
      <4>1. Accounted(rec, s)
        BY <2>2, <2>3, <2>4, <3>2 DEF LandedInv
      <4> QED BY <2>1, <2>2, <4>1 DEF Accounted, AtOrigin, Carries
    <3> QED BY <3>1, <3>2
  <2> QED BY <2>1, <2>3, <2>4, LandedOutside
<1>3. ASSUME \/ \E t \in Threads, body \in Bodies : Cycle!Reply(t, body)
             \/ \E t \in Threads, how \in {"them", "ack"}, reopens \in BOOLEAN : Cycle!Speak(t, how, reopens)
             \/ \E t \in Threads : Cycle!HandResolve(t)
      PROVE  LandedInv'
  <2>1. UNCHANGED <<rec, mem, made, remote, work, cycleTree, cyclePc, stamped, adrift, cycleTodo>>
    BY <1>3 DEF Cycle!Reply, Cycle!Speak, Cycle!HandResolve
  <2> QED BY <2>1, LandedStill
<1>4. CASE Cycle!OperatorCommits
  <2>1. /\ cyclePc = "off" /\ cyclePc' = "off" /\ made' = made + 1 /\ cycleTree' = {}
        /\ UNCHANGED <<rec, remote, adrift, stamped>>
        /\ \A t \in Threads : work'[t] = IF t \in cycleTree THEN made + 1 ELSE work[t]
    BY <1>4 DEF Cycle!OperatorCommits
  <2>2. ~JustLanded /\ ~JustLanded' /\ stamped' = {} /\ cyclePc' \notin ClosingPcs
    BY <2>1 DEF JustLanded, LandedInv, UnstampedPcs, ClosingPcs
  <2>3. ASSUME NEW t \in Threads
        PROVE  /\ work'[t] <= made' /\ (AtOrigin(t) => AtOrigin(t)')
               /\ (work[t] \in 1..made => work'[t] \in 1..made') /\ (t \in cycleTree => work'[t] \in 1..made')
               /\ rec.sha # 0 /\ work[t] \in 1..rec.sha => work'[t] \in 1..rec.sha
    BY <1>0, <2>1 DEF LandedInv, AtOrigin
  <2>4. \A t \in Threads : Carries(rec, t) => Carries(rec, t)'
    BY <2>1, <2>3 DEF Carries
  <2>5. \A t \in Threads : Accounted(rec, t) => Accounted(rec, t)'
    BY <2>1, <2>3, <2>4 DEF Accounted
  <2>6. remote' <= made'
    BY <1>0, <2>1 DEF LandedInv
  <2>7. \A t \in Threads : rec'.out[t] = "FIXED" => Accounted(rec, t)'
    BY <2>1, <2>2, <2>5 DEF LandedInv
  <2> QED BY <2>1, <2>2, <2>3, <2>6, <2>7 DEF LandedInv, JustLanded
<1>5. CASE Cycle!OperatorPushes
  <2>1. /\ cyclePc = "off" /\ cyclePc' = "off" /\ remote' = made
        /\ UNCHANGED <<rec, made, work, cycleTree, adrift, stamped>>
    BY <1>5 DEF Cycle!OperatorPushes
  <2>2. ~JustLanded /\ ~JustLanded' /\ stamped' = {} /\ cyclePc' \notin ClosingPcs
    BY <2>1 DEF JustLanded, LandedInv, UnstampedPcs, ClosingPcs
  <2>3. \A t \in Threads : AtOrigin(t) => AtOrigin(t)'
    BY <1>0, <2>1 DEF AtOrigin, LandedInv
  <2>4. \A t \in Threads : Accounted(rec, t) => Accounted(rec, t)'
    BY <2>1, <2>3 DEF Accounted, Carries
  <2>5. \A t \in Threads : rec'.out[t] = "FIXED" => Accounted(rec, t)'
    BY <2>1, <2>2, <2>4 DEF LandedInv
  <2> QED BY <1>0, <2>1, <2>2, <2>5 DEF LandedInv, JustLanded
<1>6. CASE Cycle!Crash
  <2>1. /\ cyclePc' = "off" /\ stamped' = {}
        /\ UNCHANGED <<rec, made, remote, work, cycleTree>>
        /\ adrift' = IF cyclePc \in {"settle_fixed", "persist"}
                     THEN adrift \cup Cycle!NotAtOrigin(Cycle!RecordedFixed(rec) \cap Cycle!RecordedFixed(mem))
                     ELSE adrift
    BY <1>6 DEF Cycle!Crash, Cycle!Forgets
  <2>2. ~JustLanded' /\ cyclePc' \notin ClosingPcs
    BY <2>1 DEF JustLanded, ClosingPcs
  <2>3. ASSUME NEW t \in Threads, rec'.out[t] = "FIXED" PROVE Accounted(rec, t)'
    <3>1. CASE Accounted(rec, t)
      BY <2>1, <3>1 DEF Accounted, AtOrigin, Carries
    <3>2. CASE JustLanded /\ mem.out[t] = "FIXED"
      <4>1. AtOrigin(t) \/ t \in adrift'
        BY <2>1, <2>3, <3>2 DEF JustLanded, AtOrigin, Cycle!NotAtOrigin, Cycle!RecordedFixed
      <4> QED BY <2>1, <4>1 DEF Accounted, AtOrigin
    <3> QED BY <2>1, <2>3, <3>1, <3>2 DEF LandedInv
  <2> QED BY <2>1, <2>2, <2>3, LandedOutside
<1> QED BY <1>1, <1>2, <1>3, <1>4, <1>5, <1>6

\* The round's own commit: each fix of it is on origin, in the commit of the
\* round, or in the worktree that no commit took.  The fixes it does not speak
\* of are where they were, or went into its commit with the worktree.
LEMMA LandedAgent ==
  ASSUME CycleTypes, LandedInv, Cycle!Agent
  PROVE  LandedInv'
<1>1. /\ cyclePc = "triage_replies" /\ cyclePc' = "settle_fixed"
      /\ UNCHANGED <<rec, stamped, adrift>>
  BY AgentStep
<1>2. PICK fixed \in SUBSET {t \in Threads : plan[t] = "fixable"} :
        /\ \A t \in Threads : mem'.out[t] = "FIXED" <=> t \in fixed
        /\ cycleTodo' \subseteq fixed /\ (cycleTodo' # {} => mem'.status = "PUSHED")
        /\ \/ /\ fixed = {} \/ AgentIdles
              /\ mem'.sha = 0 /\ mem'.status = "NO_CHANGES" /\ UNCHANGED <<made, remote, cycleTree, work>>
           \/ /\ mem'.sha = 0 /\ mem'.status = "COMMIT_FAILED" /\ cycleTree' = cycleTree \cup fixed
              /\ UNCHANGED <<made, remote>>
              /\ \A t \in Threads : work'[t] = IF t \in fixed THEN 0 ELSE work[t]
           \/ /\ mem'.sha = made + 1 /\ made' = made + 1
              /\ mem'.status \in {"PUSHED", "PUSH_FAILED", "PUSH_HELD"}
              /\ remote' = IF mem'.status = "PUSHED" THEN made + 1 ELSE remote
              /\ \A t \in Threads : work'[t] = IF t \in fixed \cup cycleTree THEN made + 1 ELSE work[t]
              /\ cycleTree' = {}
  BY AgentStep
<1>3. /\ made \in Nat /\ remote \in Nat /\ work \in [Threads -> Nat] /\ cycleTree \subseteq Threads
      /\ fixed \subseteq Threads
  BY DEF CycleTypes
<1>4. ~JustLanded /\ JustLanded' /\ cyclePc' \notin ClosingPcs \cup UnstampedPcs /\ cyclePc' \notin {"persist", "drain"}
  BY <1>1 DEF JustLanded, ClosingPcs, UnstampedPcs
<1>5. \A t \in Threads : rec.out[t] = "FIXED" => Accounted(rec, t)
  BY <1>4 DEF LandedInv
<1>6. CASE /\ mem'.sha = 0 /\ mem'.status = "NO_CHANGES" /\ UNCHANGED <<made, remote, cycleTree, work>>
  <2>1. cycleTodo' = {}
    BY <1>2, <1>6
  <2>2. \A t \in Threads : rec'.out[t] = "FIXED" => Accounted(rec, t)'
    BY <1>1, <1>5, <1>6 DEF Accounted, AtOrigin, Carries
  <2>3. RoundIsOfItsCommit' /\ \A t \in Threads : RoundHolds(t)'
    BY <1>1, <1>6 DEF RoundIsOfItsCommit, RoundHolds
  <2> QED BY <1>4, <1>6, <2>1, <2>2, <2>3 DEF LandedInv
<1>7. CASE /\ mem'.sha = 0 /\ mem'.status = "COMMIT_FAILED" /\ cycleTree' = cycleTree \cup fixed
           /\ UNCHANGED <<made, remote>>
           /\ \A t \in Threads : work'[t] = IF t \in fixed THEN 0 ELSE work[t]
  <2>1. cycleTodo' = {}
    BY <1>2, <1>7
  <2>2. ASSUME NEW t \in Threads
        PROVE  /\ work'[t] <= made' /\ (t \in cycleTree' => work'[t] = 0)
               /\ rec'.out[t] = "FIXED" => Accounted(rec, t)' \/ mem'.out[t] = "FIXED"
    <3>1. work'[t] <= made' /\ (t \in cycleTree' => work'[t] = 0)
      BY <1>3, <1>7 DEF LandedInv
    <3>2. ASSUME rec'.out[t] = "FIXED", t \notin fixed PROVE Accounted(rec, t)'
      <4>1. Accounted(rec, t) /\ work'[t] = work[t] /\ (t \in cycleTree => t \in cycleTree')
        BY <1>1, <1>5, <1>7, <3>2
      <4> QED BY <1>1, <1>7, <4>1 DEF Accounted, AtOrigin, Carries
    <3> QED BY <1>2, <3>1, <3>2
  <2>3. RoundIsOfItsCommit'
    BY <1>1, <1>7 DEF RoundIsOfItsCommit
  <2>4. \A t \in Threads : mem'.out[t] = "FIXED" => RoundHolds(t)'
    BY <1>1, <1>2, <1>7 DEF RoundHolds
  <2>5. remote' <= made'
    BY <1>7 DEF LandedInv
  <2> QED BY <1>4, <2>1, <2>2, <2>3, <2>4, <2>5 DEF LandedInv
<1>8. CASE /\ mem'.sha = made + 1 /\ made' = made + 1
           /\ mem'.status \in {"PUSHED", "PUSH_FAILED", "PUSH_HELD"}
           /\ remote' = IF mem'.status = "PUSHED" THEN made + 1 ELSE remote
           /\ \A t \in Threads : work'[t] = IF t \in fixed \cup cycleTree THEN made + 1 ELSE work[t]
           /\ cycleTree' = {}
  <2>1. remote' <= made' /\ remote <= remote' /\ remote' \in Nat
    BY <1>3, <1>8 DEF LandedInv
  <2>2. ASSUME NEW t \in Threads
        PROVE  /\ work'[t] <= made' /\ (t \in fixed => work'[t] \in 1..mem'.sha)
               /\ t \in cycleTodo' => AtOrigin(t)'
               /\ t \notin fixed /\ Accounted(rec, t) => Accounted(rec, t)'
    <3>1. work[t] \in Nat /\ work[t] <= made /\ (t \in cycleTree => work[t] = 0)
      BY <1>3 DEF LandedInv
    <3>2. t \in fixed \cup cycleTree => work'[t] = made + 1
      BY <1>8
    <3>3. t \notin fixed \cup cycleTree => work'[t] = work[t]
      BY <1>8
    <3>4. work'[t] <= made' /\ (t \in fixed => work'[t] \in 1..mem'.sha)
      BY <1>3, <1>8, <3>1, <3>2, <3>3
    <3>5. t \in cycleTodo' => AtOrigin(t)'
      BY <1>2, <1>3, <1>8, <3>2 DEF AtOrigin
    <3>6. ASSUME t \in cycleTree, Accounted(rec, t) PROVE Accounted(rec, t)'
      <4>1. work[t] = 0 /\ work'[t] \in 1..made'
        BY <1>3, <1>8, <3>1, <3>2, <3>6
      <4> QED BY <1>1, <1>3, <3>6, <4>1 DEF Accounted, AtOrigin, Carries
    <3>7. ASSUME t \notin fixed \cup cycleTree, Accounted(rec, t) PROVE Accounted(rec, t)'
      BY <1>1, <1>3, <1>8, <2>1, <3>1, <3>3, <3>7 DEF Accounted, AtOrigin, Carries
    <3> QED BY <3>4, <3>5, <3>6, <3>7
  <2>3. \A t \in Threads : mem'.out[t] = "FIXED" => RoundHolds(t)'
    BY <1>2, <1>3, <1>8, <2>2 DEF RoundHolds, Carries
  <2>4. RoundIsOfItsCommit'
    BY <1>1, <1>3, <1>8 DEF RoundIsOfItsCommit
  <2>5. \A t \in Threads : rec'.out[t] = "FIXED" => Accounted(rec, t)' \/ mem'.out[t] = "FIXED"
    BY <1>1, <1>2, <1>5, <2>2
  <2> QED BY <1>4, <1>8, <2>1, <2>2, <2>3, <2>4, <2>5 DEF LandedInv
<1> QED BY <1>2, <1>6, <1>7, <1>8
LEMMA LandedRuns ==
  ASSUME CycleTypes, LandedInv, Cycle!RunStep
  PROVE  LandedInv'
<1> USE DEF Cycle!counts, Cycle!github, Cycle!branch, Cycle!run, Cycle!history
<1>0. /\ made \in Nat /\ remote \in Nat /\ work \in [Threads -> Nat] /\ cycleTree \subseteq Threads
      /\ mem.sha \in Nat /\ rec.sha \in Nat
  BY DEF CycleTypes, CycleRecords
<1>1. CASE Cycle!Triage
  <2>1. /\ cyclePc = "triage" /\ cyclePc' = "triage_replies"
        /\ UNCHANGED <<rec, made, remote, work, cycleTree, adrift>>
    BY <1>1 DEF Cycle!Triage
  <2> QED BY <2>1, LandedAfterRun DEF JustLanded, UnstampedPcs
<1>2. CASE Cycle!TriageFails
  <2>1. /\ cyclePc = "triage" /\ cyclePc' = "off" /\ stamped' = {}
        /\ UNCHANGED <<rec, made, remote, work, cycleTree, adrift>>
    BY <1>2 DEF Cycle!TriageFails, Cycle!Forgets
  <2> QED BY <2>1, LandedAfterRun DEF JustLanded
<1>3. CASE Cycle!PostTriageReplies \/ Cycle!SettleFixed \/ Cycle!PostPendingFixReplies \/ Cycle!PostDeferredReplies
  <2>1. /\ UNCHANGED <<rec, mem, made, remote, work, cycleTree, cyclePc, stamped, adrift>>
        /\ cycleTodo' \subseteq cycleTodo
    BY <1>3 DEF Cycle!PostTriageReplies, Cycle!SettleFixed, Cycle!PostPendingFixReplies,
                Cycle!PostDeferredReplies, Cycle!Deliver, Cycle!Answered
  <2> QED BY <2>1, LandedStill
<1>4. CASE Cycle!Agent
  BY <1>4, LandedAgent
<1>5. CASE Cycle!RoundSummary
  <2>1. mem'.out = mem.out /\ mem'.sha = mem.sha /\ mem'.status = mem.status /\ mem'.head = made
    BY <1>5, SameRound
  <2>2. /\ cyclePc = "settle_fixed" /\ cyclePc' = "persist"
        /\ UNCHANGED <<rec, made, remote, work, cycleTree, adrift>>
    BY <1>5 DEF Cycle!RoundSummary
  <2>3. JustLanded /\ JustLanded' /\ cyclePc' \notin ClosingPcs \cup UnstampedPcs /\ cyclePc' \notin {"settle_fixed", "drain"}
    BY <2>2 DEF JustLanded, ClosingPcs, UnstampedPcs
  <2>4. \A t \in Threads : Accounted(rec, t) => Accounted(rec, t)'
    BY <2>2 DEF Accounted, AtOrigin, Carries
  <2>5. RoundIsOfItsCommit /\ RoundIsOfItsCommit'
    BY <2>1, <2>2, <2>3 DEF LandedInv, RoundIsOfItsCommit
  <2>6. ASSUME NEW t \in Threads, RoundHolds(t) PROVE RoundHolds(t)'
    <3>1. ASSUME mem.status = "COMMIT_FAILED", t \in cycleTree PROVE Carries(mem, t)' \/ AtOrigin(t)'
      <4>1. mem.sha = 0
        BY <2>5, <3>1 DEF RoundIsOfItsCommit
      <4> QED BY <2>1, <2>2, <3>1, <4>1 DEF Carries
    <3>2. (AtOrigin(t) => AtOrigin(t)') /\ (Carries(mem, t) => Carries(mem, t)')
      BY <2>1, <2>2 DEF AtOrigin, Carries
    <3> QED BY <2>1, <2>6, <3>1, <3>2 DEF RoundHolds
  <2> QED BY <2>1, <2>2, <2>3, <2>4, <2>5, <2>6 DEF LandedInv
<1>6. CASE Cycle!Persist
  <2>1. /\ rec' = Cycle!Merged(rec, published) /\ cyclePc = "persist"
        /\ UNCHANGED <<made, remote, cycleTree, work>>
        /\ adrift' = (adrift \ Cycle!InRound)
             \cup (IF mem.status = "NO_CHANGES" THEN Cycle!NotAtOrigin(Cycle!RecordedFixed(rec')) ELSE {})
    BY <1>6 DEF Cycle!Persist
  <2>2. stamped' = {} /\ cyclePc' \in {"off", "push"}
    BY <1>6 DEF Cycle!Persist, Cycle!Forgets
  <2>3. JustLanded /\ ~JustLanded' /\ cyclePc' \notin ClosingPcs /\ RoundIsOfItsCommit
    BY <2>1, <2>2 DEF JustLanded, ClosingPcs, LandedInv
  <2>4. /\ rec'.sha = mem.sha /\ rec'.status = mem.status /\ rec'.head = mem.head
        /\ \A t \in Threads : rec'.out[t] = IF mem.out[t] = "none" THEN rec.out[t] ELSE mem.out[t]
    <3>1. rec'.sha = mem.sha /\ rec'.status = mem.status /\ rec'.head = mem.head
      BY <2>1, MergedRecord
    <3>2. rec'.out = [t \in Threads |-> IF mem.out[t] = "none" THEN rec.out[t] ELSE mem.out[t]]
      BY <2>1 DEF Cycle!Merged
    <3> QED BY <3>1, <3>2
  <2>5. ASSUME NEW t \in Threads, rec'.out[t] = "FIXED" PROVE Accounted(rec, t)'
    <3>1. CASE mem.status = "NO_CHANGES"
      <4>1. t \in adrift' \/ AtOrigin(t)
        BY <2>1, <2>5, <3>1 DEF Cycle!NotAtOrigin, Cycle!RecordedFixed, AtOrigin
      <4> QED BY <2>1, <4>1 DEF Accounted, AtOrigin
    <3>2. CASE mem.status # "NO_CHANGES" /\ mem.out[t] = "FIXED"
      <4>1. AtOrigin(t) \/ Carries(mem, t)
        BY <2>1, <2>3, <3>2 DEF LandedInv, RoundHolds
      <4> QED BY <2>1, <2>4, <4>1 DEF Accounted, AtOrigin, Carries
    <3>3. CASE mem.status # "NO_CHANGES" /\ mem.out[t] # "FIXED"
      <4>1. mem.out[t] = "none" /\ rec.out[t] = "FIXED"
        BY <2>4, <2>5, <3>3
      <4>2. Accounted(rec, t)
        BY <3>3, <4>1 DEF LandedInv
      <4>3. t \in adrift => t \in adrift'
        BY <2>1, <4>1 DEF Cycle!InRound
      <4>4. work[t] \in Nat /\ work[t] <= made /\ (t \in cycleTree => work[t] = 0) /\ mem.head = made
        BY <1>0, <2>1, <2>3 DEF LandedInv, RoundIsOfItsCommit
      <4>5. Carries(rec, t) => work[t] \in 1..made \/ (t \in cycleTree)
        BY <1>0, <4>4 DEF Carries
      <4>6. CASE Carries(rec, t)
        <5>1. Carries(mem, t)
          BY <1>0, <2>3, <3>3, <4>4, <4>5, <4>6 DEF Carries, RoundIsOfItsCommit
        <5> QED BY <2>1, <2>4, <5>1 DEF Accounted, Carries
      <4> QED BY <2>1, <4>2, <4>3, <4>6 DEF Accounted, AtOrigin
    <3> QED BY <3>1, <3>2, <3>3
  <2> QED BY <2>1, <2>2, <2>3, <2>5, LandedOutside
<1>7. CASE Cycle!PushHeldCommit
  <2>1. /\ mem'.out = rec.out /\ mem'.sha = rec.sha /\ mem'.head = rec.head
        /\ (rec.sha = 0 => mem'.status = rec.status) /\ remote' \in {remote, made}
    BY <1>7, SameRound
  <2>2. /\ cyclePc = "push" /\ cyclePc' = "drain_start"
        /\ UNCHANGED <<rec, made, work, cycleTree, stamped, adrift>>
    BY <1>7 DEF Cycle!PushHeldCommit
  <2>3. ~JustLanded /\ ~JustLanded' /\ stamped' = {} /\ cyclePc' \notin {"settle_fixed", "drain"}
    BY <2>2 DEF JustLanded, LandedInv, UnstampedPcs
  <2>4. remote' <= made' /\ \A t \in Threads : AtOrigin(t) => AtOrigin(t)'
    BY <1>0, <2>1, <2>2 DEF LandedInv, AtOrigin
  <2>5. \A t \in Threads : Accounted(rec, t) => Accounted(rec, t)' /\ Accounted(mem, t)'
    BY <2>1, <2>2, <2>4 DEF Accounted, Carries
  <2> QED BY <2>1, <2>2, <2>3, <2>4, <2>5 DEF LandedInv
<1>8. CASE Cycle!DrainStart
  <2>1. /\ cyclePc = "drain_start" /\ cyclePc' \in {"drain", "reconcile"}
        /\ UNCHANGED <<rec, mem, made, remote, work, cycleTree, stamped, adrift>>
        /\ \A t \in cycleTodo' : mem.out[t] = "FIXED" => Cycle!Landed(mem)
    BY <1>8 DEF Cycle!DrainStart, Cycle!With
  <2>2. cyclePc \in ClosingPcs /\ cyclePc' \in ClosingPcs /\ stamped = {}
    BY <2>1 DEF ClosingPcs, UnstampedPcs, LandedInv
  <2>3. ASSUME NEW t \in Threads, t \in cycleTodo', mem.out[t] = "FIXED" PROVE AtOrigin(t) \/ t \in adrift
    <3>1. Accounted(mem, t) /\ Cycle!Landed(mem)
      BY <2>1, <2>2, <2>3 DEF LandedInv
    <3> QED BY <1>0, <3>1 DEF Accounted, AtOrigin, Carries, Cycle!Landed
  <2> QED BY <2>1, <2>2, <2>3, LandedCloses
<1>9. CASE Cycle!DrainEnd
  <2>1. /\ mem'.out = mem.out /\ mem'.sha = mem.sha /\ mem'.head = mem.head
        /\ (mem.status = "COMMIT_FAILED" => mem'.status = mem.status)
    BY <1>9, SameRound
  <2>2. /\ cyclePc = "drain" /\ cyclePc' = "reconcile"
        /\ UNCHANGED <<rec, made, remote, work, cycleTree, stamped, adrift>>
    BY <1>9 DEF Cycle!DrainEnd
  <2>3. cyclePc \in ClosingPcs /\ cyclePc' \in ClosingPcs /\ stamped = {}
    BY <2>2 DEF ClosingPcs, UnstampedPcs, LandedInv
  <2> QED BY <2>1, <2>2, <2>3, LandedCloses
<1>10. CASE Cycle!Reconcile
  <2>1. /\ mem'.sha = mem.sha /\ mem'.head = mem.head /\ mem'.status = mem.status
        /\ \A t \in Threads : t \notin stamped' => mem'.out[t] = mem.out[t]
    BY <1>10, Reconciled
  <2>2. /\ cyclePc = "reconcile" /\ cyclePc' = "track"
        /\ UNCHANGED <<rec, made, remote, work, cycleTree, adrift>>
    BY <1>10 DEF Cycle!Reconcile
  <2>3. cyclePc \in ClosingPcs /\ cyclePc' \in ClosingPcs \ UnstampedPcs /\ stamped = {}
    BY <2>2 DEF ClosingPcs, UnstampedPcs, LandedInv
  <2> QED BY <2>1, <2>2, <2>3, LandedCloses
<1>11. CASE Cycle!TrackRefused \/ Cycle!Track
  <2>1. /\ cyclePc = "track" /\ cyclePc' \in {"save", "file"}
        /\ UNCHANGED <<rec, mem, made, remote, work, cycleTree, stamped, adrift>>
    BY <1>11 DEF Cycle!TrackRefused, Cycle!Track
  <2>2. cyclePc \in ClosingPcs /\ cyclePc' \in ClosingPcs \ UnstampedPcs
    BY <2>1 DEF ClosingPcs, UnstampedPcs
  <2> QED BY <2>1, <2>2, LandedCloses
<1>12. CASE Cycle!FinishSummary
  <2>1. /\ mem'.out = mem.out /\ mem'.sha = mem.sha /\ mem'.head = mem.head
        /\ (mem.sha = 0 => mem'.status = mem.status)
    BY <1>12, SameRound
  <2>2. /\ cyclePc = "file" /\ cyclePc' = "save"
        /\ UNCHANGED <<rec, made, remote, work, cycleTree, stamped, adrift>>
    BY <1>12 DEF Cycle!FinishSummary
  <2>3. cyclePc \in ClosingPcs /\ cyclePc' \in ClosingPcs \ UnstampedPcs
    BY <2>2 DEF ClosingPcs, UnstampedPcs
  <2> QED BY <2>1, <2>2, <2>3, LandedCloses
<1>13. CASE Cycle!FinishSave
  <2>1. /\ cyclePc = "save" /\ rec' = mem /\ cyclePc' = "off" /\ stamped' = {}
        /\ adrift' = adrift \cup Cycle!NotAtOrigin(stamped \cap Cycle!RecordedFixed(mem))
        /\ UNCHANGED <<made, remote, work, cycleTree>>
    BY <1>13 DEF Cycle!FinishSave, Cycle!Forgets
  <2>2. ~JustLanded' /\ cyclePc' \notin ClosingPcs /\ cyclePc \in ClosingPcs
    BY <2>1 DEF JustLanded, ClosingPcs
  <2>3. ASSUME NEW t \in Threads, rec'.out[t] = "FIXED" PROVE Accounted(rec, t)'
    <3>1. CASE t \in stamped
      <4>1. AtOrigin(t) \/ t \in adrift'
        BY <2>1, <2>3, <3>1 DEF AtOrigin, Cycle!NotAtOrigin, Cycle!RecordedFixed
      <4> QED BY <2>1, <4>1 DEF Accounted, AtOrigin
    <3>2. CASE t \notin stamped
      <4>1. Accounted(mem, t)
        BY <2>1, <2>2, <2>3, <3>2 DEF LandedInv
      <4> QED BY <2>1, <4>1 DEF Accounted, AtOrigin, Carries
    <3> QED BY <3>1, <3>2
  <2> QED BY <2>1, <2>2, <2>3, LandedOutside
<1> QED BY <1>1, <1>2, <1>3, <1>4, <1>5, <1>6, <1>7, <1>8, <1>9, <1>10, <1>11, <1>12, <1>13 DEF Cycle!RunStep

\* A reviewer is told of a fix only once origin has the commit that carries
\* it (attribution.py, `landing_of`), through any rounds, closeouts, kills and
\* commands of the operator; but for a fix that went on record without one.
THEOREM FixedIsAlwaysCarried == Spec => FixedIsCarried
<1> DEFINE Inv == part = "cycle" => CycleTypes /\ LandedInv
<1>1. Init => Inv
  <2> SUFFICES ASSUME Init, part = "cycle" PROVE CycleTypes /\ LandedInv
    OBVIOUS
  <2>1. Cycle!Init /\ CycleTypes
    BY EveryPartStarts, CycleBegins
  <2>2. /\ rec = Cycle!NewRecord /\ cyclePc = "off" /\ stamped = {}
        /\ cycleTree = {} /\ made = 0 /\ remote = 0 /\ \A t \in Threads : work[t] = 0
    BY <2>1 DEF Cycle!Init
  <2>3. \A t \in Threads : rec.out[t] # "FIXED"
    BY <2>2, NewOnes
  <2>4. LandedInv
    BY <2>2, <2>3 DEF LandedInv, JustLanded, ClosingPcs
  <2> QED BY <2>1, <2>4
<1>2. Inv /\ [Next]_vars => Inv'
  <2> SUFFICES ASSUME Inv, [Next]_vars, part' = "cycle" PROVE CycleTypes' /\ LandedInv'
    OBVIOUS
  <2>1. part = "cycle" /\ [Cycle!Next]_Cycle!vars
    BY OnePartMoves
  <2>2. CycleTypes /\ LandedInv
    BY <2>1
  <2> HIDE DEF Inv
  <2>3. CycleTypes'
    BY <2>1, <2>2, CycleTypesStay
  <2>4. CASE UNCHANGED Cycle!vars
    BY <2>2, <2>3, <2>4, LandedStill DEF Cycle!vars
  <2>5. CASE Cycle!RunStep
    BY <2>2, <2>3, <2>5, LandedRuns
  <2>6. CASE Cycle!Next /\ ~Cycle!RunStep
    BY <2>2, <2>3, <2>6, LandedPeople DEF Cycle!Next
  <2> QED BY <2>1, <2>4, <2>5, <2>6
<1>3. Inv => [part = "cycle" => Cycle!TellsCarried]_vars
  <2> SUFFICES ASSUME Inv, part = "cycle", NEW t \in Threads, Cycle!TellsFixed(t)
               PROVE  work[t] \in 1..remote \/ t \in adrift
    BY DEF Cycle!TellsCarried
  <2>1. LandedInv /\ t \in cycleTodo /\ (cyclePc = "settle_fixed" \/ (cyclePc = "drain" /\ mem.out[t] = "FIXED"))
    BY DEF Cycle!TellsFixed
  <2> QED BY <2>1 DEF LandedInv, AtOrigin
<1> QED BY <1>1, <1>2, <1>3, PTL DEF Spec, FixedIsCarried
-----------------------------------------------------------------------------
(* What is recorded as settled was read.  People write while the runs go   *)
(* on; each decision of a round is stamped at the report it was read from, *)
(* so whatever came later counts as spoken when the round is saved.  What  *)
(* a closeout takes for an outcome it dates at its save, and a word since  *)
(* its report was overtaken by it.                                         *)

HeardRecords == [out : [HeardThreads -> Outs], sha : Nat, status : Statuses, head : Nat, pending : BOOLEAN,
                 owed : BOOLEAN]

HeardTypes ==
  /\ gh \in [HeardThreads -> CycleThreads]
  /\ rec \in HeardRecords /\ mem \in HeardRecords
  /\ plan \in [HeardThreads -> Plans] /\ cycleTodo \subseteq HeardThreads
  /\ word \in [HeardThreads -> {"no", "fetched", "read"}] /\ made \in Nat

\* The run says what it read of a thread.
HeardRun(t) ==
  /\ word[t] = "fetched" => cyclePc \in {"track", "file", "save"}
  /\ cyclePc = "triage_replies" /\ plan[t] # "out" => t \in stamped
  /\ cyclePc \in {"settle_fixed", "persist"} /\ mem.out[t] # "none" => t \in stamped
  /\ cyclePc \in ClosingPcs /\ t \notin stamped => mem.out[t] = rec.out[t]
  /\ cyclePc = "triage_replies" /\ t \in cycleTodo => plan[t] \in Kinds
  /\ cyclePc \in {"drain", "file"} /\ t \in cycleTodo => mem.out[t] \in Kinds

WasRead(t) == rec.out[t] \in Heard!SETTLE_OUTCOMES /\ ~gh[t].spoken => t \notin cycleUnread \ overtaken

HeardInv ==
  /\ HeardTypes
  /\ cyclePc \in UnstampedPcs => stamped = {}
  /\ \A t \in HeardThreads : HeardRun(t) /\ WasRead(t)

LEMMA HeardNews ==
  /\ Heard!NewThreads \in [HeardThreads -> CycleThreads] /\ Heard!NewRecord \in HeardRecords
  /\ \A t \in HeardThreads : Heard!NewThreads[t].spoken /\ Heard!NewRecord.out[t] = "none"
BY DEF Heard!NewThreads, Heard!NewRecord, CycleThreads, HeardRecords, Kinds, Outs, Statuses

\* A run that is over, saved or not.
LEMMA HeardAfterRun ==
  ASSUME Heard!Forgets, gh' \in [HeardThreads -> CycleThreads], rec' \in HeardRecords, made' \in Nat,
         \A t \in HeardThreads : WasRead(t)'
  PROVE  HeardInv'
<1>1. /\ cyclePc' = "off" /\ mem' = Heard!NewRecord /\ stamped' = {} /\ cycleTodo' = {}
      /\ plan' = [t \in HeardThreads |-> "out"] /\ word' = [t \in HeardThreads |-> "no"]
  BY DEF Heard!Forgets
<1>2. HeardTypes'
  BY <1>1, HeardNews DEF HeardTypes, Plans
<1>3. \A t \in HeardThreads : HeardRun(t)'
  BY <1>1 DEF HeardRun, ClosingPcs
<1> QED BY <1>1, <1>2, <1>3 DEF HeardInv

\* A step of which the run keeps no more than what it answered.
LEMMA HeardStill ==
  ASSUME HeardInv, UNCHANGED <<rec, mem, plan, made, stamped, cyclePc>>, cycleTodo' \subseteq cycleTodo,
         gh' \in [HeardThreads -> CycleThreads], word' \in [HeardThreads -> {"no", "fetched", "read"}],
         \A t \in HeardThreads : (word'[t] = "fetched" => word[t] = "fetched") /\ WasRead(t)'
  PROVE  HeardInv'
<1>1. HeardTypes'
  BY DEF HeardInv, HeardTypes
<1>2. \A t \in HeardThreads : HeardRun(t)'
  BY DEF HeardInv, HeardRun
<1> QED BY <1>1, <1>2 DEF HeardInv

\* What a reply makes of a thread; when it was spoken on stays.
LEMMA HeardUpserted ==
  \A th \in CycleThreads, kd \in Answers : \A sn :
    /\ Heard!Upserted(th, sn, kd) \in CycleThreads
    /\ Heard!Upserted(th, sn, kd).spoken = th.spoken
<1> TAKE th \in CycleThreads, kd \in Answers
<1> TAKE sn
<1> DEFINE u == Heard!Upserted(th, sn, kd)
           st == th.stacked \/ th.last = "us"
<1>1. st \in BOOLEAN
  OBVIOUS
<1>2. ASSUME sn.last = "us" PROVE u = [th EXCEPT !.mine = kd, !.backed = TRUE]
  BY <1>2 DEF Heard!Upserted, Heard!Edits
<1>3. ASSUME sn.last # "us"
      PROVE  u = [th EXCEPT !.mine = kd, !.last = "us", !.backed = TRUE, !.stacked = st]
  BY <1>3 DEF Heard!Upserted, Heard!Edits
<1>4. u \in CycleThreads /\ u.spoken = th.spoken
  <2> HIDE DEF u, st
  <2>1. CASE sn.last = "us"
    BY <1>2, <2>1 DEF CycleThreads, Answers
  <2>2. CASE sn.last # "us"
    BY <1>1, <1>3, <2>2 DEF CycleThreads, Answers
  <2> QED BY <2>1, <2>2
<1> QED BY <1>4

\* An answer: no word is spoken by it.
LEMMA HeardDelivery ==
  ASSUME HeardInv, NEW at, NEW kindOf, NEW closing,
         Heard!Deliver(at, kindOf, closing), \A t \in cycleTodo : kindOf[t] \in Kinds
  PROVE  HeardInv'
<1>1. UNCHANGED <<rec, mem, plan, word, made, stamped, cycleUnread, overtaken, cyclePc>>
  BY DEF Heard!Deliver, Heard!branch, Heard!counts, Heard!history
<1>2. PICK t \in cycleTodo : Heard!Answered(t, kindOf[t], kindOf[t] \in closing)
  BY DEF Heard!Deliver
<1>3. PICK kind \in Answers : kind = kindOf[t]
  BY DEF Answers
<1>4. PICK closes : Heard!Answered(t, kind, closes)
  BY <1>2, <1>3
<1>5. t \in HeardThreads /\ HeardTypes
  BY DEF HeardInv, HeardTypes
<1>6. PICK old \in CycleThreads : old = gh[t]
  BY <1>5 DEF HeardTypes
<1>7. PICK noReply, noResolve \in Heard!Refused :
        /\ LET replied == Heard!MayReply(report[t]) /\ ~noReply
               closed == closes /\ Heard!Enabled /\ ~report[t].resolved /\ ~noResolve
               thread == IF replied THEN Heard!Upserted(gh[t], report[t], kind) ELSE gh[t]
           IN  gh' = [gh EXCEPT ![t] = [thread EXCEPT !.resolved = @ \/ closed]]
        /\ cycleTodo' = cycleTodo \ {t}
  BY <1>4 DEF Heard!Answered
<1> DEFINE replied == Heard!MayReply(report[t]) /\ ~noReply
           closed == closes /\ Heard!Enabled /\ ~report[t].resolved /\ ~noResolve
           thread == IF replied THEN Heard!Upserted(gh[t], report[t], kind) ELSE gh[t]
           res == thread.resolved \/ closed
<1>8. res \in BOOLEAN
  OBVIOUS
<1>9. gh' = [gh EXCEPT ![t] = [thread EXCEPT !.resolved = res]] /\ cycleTodo' \subseteq cycleTodo
  BY <1>7
<1>10. thread = Heard!Upserted(old, report[t], kind) \/ thread = old
  BY <1>6
<1> HIDE DEF res, thread, replied, closed
<1>11. thread \in CycleThreads /\ thread.spoken = old.spoken
  BY <1>10, HeardUpserted
<1>12. [thread EXCEPT !.resolved = res] \in CycleThreads /\ [thread EXCEPT !.resolved = res].spoken = old.spoken
  BY <1>8, <1>11 DEF CycleThreads
<1>13. gh' \in [HeardThreads -> CycleThreads] /\ \A s \in HeardThreads : gh'[s].spoken = gh[s].spoken
  BY <1>5, <1>6, <1>9, <1>12 DEF HeardTypes
<1>14. \A s \in HeardThreads : WasRead(s)'
  BY <1>1, <1>13 DEF HeardInv, WasRead
<1> QED BY <1>1, <1>5, <1>9, <1>13, <1>14, HeardStill DEF HeardTypes

\* What people do, while a run goes on or not, how a run begins and how it dies.
LEMMA HeardPeople ==
  ASSUME HeardInv,
         \/ \E p \in BOOLEAN : \E ps : Heard!FixCommand(p, ps) \/ Heard!FinishCommand(p)
         \/ \E t \in HeardThreads, kind \in HeardSettles : Heard!Settle(t, kind)
         \/ \E t \in HeardThreads, body \in HeardBodies : Heard!Reply(t, body)
         \/ \E t \in HeardThreads, how \in {"them", "ack"}, reopens \in BOOLEAN : Heard!Speak(t, how, reopens)
         \/ \E t \in HeardThreads : Heard!HandResolve(t)
         \/ Heard!OperatorCommits \/ Heard!OperatorPushes \/ Heard!Crash
  PROVE  HeardInv'
<1> USE DEF Heard!counts, Heard!github, Heard!branch, Heard!run, Heard!history
<1>0. /\ gh \in [HeardThreads -> CycleThreads] /\ \A t \in HeardThreads : gh[t] \in CycleThreads
      /\ HeardTypes /\ word \in [HeardThreads -> {"no", "fetched", "read"}] /\ made \in Nat
  BY DEF HeardInv, HeardTypes
<1>1. ASSUME NEW p, NEW ps, Heard!Begin(p, ps), cyclePc' \in {"triage", "push"} PROVE HeardInv'
  <2>1. PICK closed \in SUBSET HeardThreads :
          gh' = [t \in HeardThreads |-> [gh[t] EXCEPT !.resolved = @ \/ t \in closed]]
    BY <1>1 DEF Heard!Begin, Heard!Verified
  <2>2. ASSUME NEW t \in HeardThreads PROVE gh'[t] \in CycleThreads /\ gh'[t].spoken = gh[t].spoken
    <3> DEFINE res == gh[t].resolved \/ t \in closed
    <3>1. res \in BOOLEAN
      OBVIOUS
    <3>2. gh'[t] = [gh[t] EXCEPT !.resolved = res]
      BY <2>1
    <3> HIDE DEF res
    <3> QED BY <1>0, <3>1, <3>2 DEF CycleThreads
  <2>3. gh' \in [HeardThreads -> CycleThreads]
    BY <2>1, <2>2
  <2>4. /\ cyclePc = "off"
        /\ UNCHANGED <<rec, mem, plan, word, stamped, cycleUnread, overtaken, cycleTodo, made>>
    BY <1>1 DEF Heard!Begin
  <2>5. HeardTypes'
    BY <1>0, <2>3, <2>4 DEF HeardTypes
  <2>6. \A t \in HeardThreads : WasRead(t)'
    BY <2>2, <2>4 DEF HeardInv, WasRead
  <2>7. \A t \in HeardThreads : HeardRun(t)'
    BY <1>1, <2>4 DEF HeardInv, HeardRun, ClosingPcs
  <2> QED BY <1>1, <2>4, <2>5, <2>6, <2>7 DEF HeardInv, UnstampedPcs
<1>2. ASSUME NEW p, NEW ps, Heard!FixCommand(p, ps) \/ Heard!FinishCommand(p) PROVE HeardInv'
  BY <1>1, <1>2 DEF Heard!FixCommand, Heard!FinishCommand
<1>3. ASSUME NEW t \in HeardThreads, NEW kind \in HeardSettles, Heard!Settle(t, kind) PROVE HeardInv'
  <2>1. /\ cyclePc = "off" /\ cyclePc' = "off" /\ cycleUnread' = cycleUnread \ {t} /\ overtaken' = overtaken \ {t}
        /\ gh' = [gh EXCEPT ![t] = [@ EXCEPT !.spoken = FALSE, !.backed = FALSE]]
        /\ UNCHANGED <<mem, plan, made, stamped, cycleTodo, word>>
    BY <1>3 DEF Heard!Settle
  <2>2. [gh[t] EXCEPT !.spoken = FALSE, !.backed = FALSE] \in CycleThreads
    BY <1>0 DEF CycleThreads
  <2>3. gh' \in [HeardThreads -> CycleThreads] /\ \A s \in HeardThreads : s # t => gh'[s] = gh[s]
    BY <1>0, <2>1, <2>2
  <2>4. kind \in Outs
    BY ConstantsAssumption DEF Heard!CycleAssumption, Outs, Kinds
  <2>5. rec' \in HeardRecords /\ \A s \in HeardThreads : s # t => rec'.out[s] = rec.out[s]
    <3> SUFFICES ASSUME NEW r0 \in HeardRecords, r0 = rec
                 PROVE  rec' \in HeardRecords /\ \A s \in HeardThreads : s # t => rec'.out[s] = r0.out[s]
      BY <1>0 DEF HeardTypes
    <3> DEFINE outcomes == [r0.out EXCEPT ![t] = kind]
    <3>1. rec' = [[r0 EXCEPT !.out = outcomes] EXCEPT !.pending = TRUE, !.owed = TRUE]
      BY <1>3 DEF Heard!Settle, Heard!Rearm
    <3>2. outcomes \in [HeardThreads -> Outs] /\ \A s \in HeardThreads : s # t => outcomes[s] = r0.out[s]
      BY <2>4 DEF HeardRecords
    <3> HIDE DEF outcomes
    <3>3. rec'.out = outcomes /\ rec' \in HeardRecords
      BY <3>1, <3>2 DEF HeardRecords
    <3> QED BY <3>2, <3>3
  <2>6. ASSUME NEW s \in HeardThreads PROVE WasRead(s)'
    <3>1. CASE s = t
      BY <2>1, <3>1 DEF WasRead
    <3>2. CASE s # t
      BY <2>1, <2>3, <2>5, <3>2 DEF HeardInv, WasRead
    <3> QED BY <3>1, <3>2
  <2>7. HeardTypes'
    BY <1>0, <2>1, <2>3, <2>5 DEF HeardTypes
  <2>8. \A s \in HeardThreads : HeardRun(s)'
    BY <2>1 DEF HeardInv, HeardRun, ClosingPcs
  <2> QED BY <2>1, <2>6, <2>7, <2>8 DEF HeardInv
<1>4. ASSUME NEW t \in HeardThreads, NEW body \in HeardBodies, Heard!Reply(t, body) PROVE HeardInv'
  <2> SUFFICES ASSUME NEW old \in CycleThreads, NEW kind \in Answers, old = gh[t], kind = body PROVE HeardInv'
    BY <1>0, ConstantsAssumption DEF Heard!CycleAssumption, Answers
  <2>1. /\ gh' = [gh EXCEPT ![t] = Heard!Upserted(old, old, kind)]
        /\ UNCHANGED <<rec, mem, plan, made, stamped, cyclePc, cycleTodo, word, cycleUnread, overtaken>>
    BY <1>4 DEF Heard!Reply
  <2>2. Heard!Upserted(old, old, kind) \in CycleThreads /\ Heard!Upserted(old, old, kind).spoken = old.spoken
    BY HeardUpserted
  <2>3. gh' \in [HeardThreads -> CycleThreads] /\ \A s \in HeardThreads : gh'[s].spoken = gh[s].spoken
    BY <1>0, <2>1, <2>2
  <2>4. \A s \in HeardThreads : WasRead(s)'
    BY <2>1, <2>3 DEF HeardInv, WasRead
  <2> QED BY <1>0, <2>1, <2>3, <2>4, HeardStill
<1>5. ASSUME NEW t \in HeardThreads, NEW how \in {"them", "ack"}, NEW reopens \in BOOLEAN, Heard!Speak(t, how, reopens)
      PROVE  HeardInv'
  <2> DEFINE res == gh[t].resolved /\ ~reopens
             heard == IF cyclePc = "off" THEN word[t] ELSE IF cyclePc = "triage" THEN "fetched" ELSE "read"
  <2>1. res \in BOOLEAN
    OBVIOUS
  <2>2. /\ gh' = [gh EXCEPT ![t] = [@ EXCEPT !.last = how, !.spoken = TRUE, !.stacked = FALSE, !.resolved = res]]
        /\ cycleUnread' = cycleUnread \cup {t} /\ cyclePc # "triage" /\ word' = [word EXCEPT ![t] = heard]
        /\ UNCHANGED <<rec, mem, plan, made, stamped, cyclePc, cycleTodo, overtaken>>
    BY <1>5 DEF Heard!Speak
  <2>3. /\ word' \in [HeardThreads -> {"no", "fetched", "read"}]
        /\ \A s \in HeardThreads : word'[s] = "fetched" => word[s] = "fetched"
    BY <1>0, <2>2
  <2> HIDE DEF res
  <2>4. /\ [gh[t] EXCEPT !.last = how, !.spoken = TRUE, !.stacked = FALSE, !.resolved = res] \in CycleThreads
        /\ [gh[t] EXCEPT !.last = how, !.spoken = TRUE, !.stacked = FALSE, !.resolved = res].spoken
    BY <1>0, <2>1 DEF CycleThreads
  <2>5. /\ gh' \in [HeardThreads -> CycleThreads] /\ gh'[t].spoken
        /\ \A s \in HeardThreads : s # t => gh'[s] = gh[s]
    BY <1>0, <2>2, <2>4
  <2>6. \A s \in HeardThreads : WasRead(s)'
    BY <2>2, <2>5 DEF HeardInv, WasRead
  <2> QED BY <2>2, <2>3, <2>5, <2>6, HeardStill
<1>6. ASSUME NEW t \in HeardThreads, Heard!HandResolve(t) PROVE HeardInv'
  <2>1. /\ gh' = [gh EXCEPT ![t] = [@ EXCEPT !.resolved = TRUE]]
        /\ UNCHANGED <<rec, mem, plan, made, stamped, cyclePc, cycleTodo, word, cycleUnread, overtaken>>
    BY <1>6 DEF Heard!HandResolve
  <2>2. /\ [gh[t] EXCEPT !.resolved = TRUE] \in CycleThreads
        /\ [gh[t] EXCEPT !.resolved = TRUE].spoken = gh[t].spoken
    BY <1>0 DEF CycleThreads
  <2>3. gh' \in [HeardThreads -> CycleThreads] /\ \A s \in HeardThreads : gh'[s].spoken = gh[s].spoken
    BY <1>0, <2>1, <2>2
  <2>4. \A s \in HeardThreads : WasRead(s)'
    BY <2>1, <2>3 DEF HeardInv, WasRead
  <2> QED BY <1>0, <2>1, <2>3, <2>4, HeardStill
<1>7. CASE Heard!OperatorCommits \/ Heard!OperatorPushes
  <2>1. /\ made' \in Nat
        /\ UNCHANGED <<gh, rec, mem, plan, stamped, cyclePc, cycleTodo, word, cycleUnread, overtaken>>
    BY <1>0, <1>7 DEF Heard!OperatorCommits, Heard!OperatorPushes
  <2>2. HeardTypes'
    BY <1>0, <2>1 DEF HeardTypes
  <2>3. \A t \in HeardThreads : HeardRun(t)' /\ WasRead(t)'
    BY <2>1 DEF HeardInv, HeardRun, WasRead
  <2> QED BY <2>1, <2>2, <2>3 DEF HeardInv
<1>8. CASE Heard!Crash
  <2>1. Heard!Forgets /\ UNCHANGED <<gh, rec, made, cycleUnread, overtaken>>
    BY <1>8 DEF Heard!Crash
  <2>2. \A t \in HeardThreads : WasRead(t)'
    BY <2>1 DEF HeardInv, WasRead
  <2> QED BY <1>0, <2>1, <2>2, HeardAfterRun DEF HeardTypes
<1> QED BY <1>2, <1>3, <1>4, <1>5, <1>6, <1>7, <1>8

\* The dates a decision leaves: a word since its report counts as spoken, but
\* for one that the closeout overtook.
LEMMA HeardDated ==
  ASSUME HeardTypes, gh' = Heard!DatedAll(gh), cycleUnread' = Heard!UnreadNow
  PROVE  /\ gh' \in [HeardThreads -> CycleThreads]
         /\ \A t \in HeardThreads :
              /\ t \in stamped /\ ~gh'[t].spoken /\ t \in cycleUnread' => word[t] = "fetched"
              /\ t \notin stamped => gh'[t] = gh[t] /\ (t \in cycleUnread' <=> t \in cycleUnread)
<1>1. ASSUME NEW t \in HeardThreads
      PROVE  /\ gh'[t] \in CycleThreads
             /\ t \in stamped => (gh'[t].spoken <=> word[t] = "read")
             /\ t \notin stamped => gh'[t] = gh[t]
  <2> SUFFICES ASSUME NEW thread \in CycleThreads, thread = gh[t]
               PROVE  /\ gh'[t] \in CycleThreads
                      /\ t \in stamped => (gh'[t].spoken <=> word[t] = "read")
                      /\ t \notin stamped => gh'[t] = thread
    BY DEF HeardTypes
  <2> DEFINE read == word[t] = "read"
             own == t \in ours
  <2>1. read \in BOOLEAN /\ own \in BOOLEAN
    OBVIOUS
  <2>2. gh'[t] = IF t \in stamped THEN [thread EXCEPT !.spoken = read, !.backed = own] ELSE thread
    BY DEF Heard!DatedAll, Heard!Dated
  <2>3. ASSUME NEW r \in BOOLEAN, NEW o \in BOOLEAN
        PROVE  /\ [thread EXCEPT !.spoken = r, !.backed = o] \in CycleThreads
               /\ [thread EXCEPT !.spoken = r, !.backed = o].spoken = r
    BY DEF CycleThreads
  <2>4. /\ [thread EXCEPT !.spoken = read, !.backed = own] \in CycleThreads
        /\ [thread EXCEPT !.spoken = read, !.backed = own].spoken = read
    <3> HIDE DEF read, own
    <3> QED BY <2>1, <2>3
  <2> QED BY <2>2, <2>4
<1>2. gh' \in [HeardThreads -> CycleThreads]
  BY <1>1 DEF Heard!DatedAll
<1>3. \A t \in HeardThreads :
        /\ t \in stamped => (t \in cycleUnread' <=> word[t] # "no")
        /\ t \notin stamped => (t \in cycleUnread' <=> t \in cycleUnread)
  BY DEF Heard!UnreadNow
<1>4. \A t \in HeardThreads : word[t] \in {"no", "fetched", "read"}
  BY DEF HeardTypes
<1> QED BY <1>1, <1>2, <1>3, <1>4

\* The agents' turn: what the round decides it stamps.
LEMMA HeardAgent ==
  ASSUME HeardInv, Heard!Agent
  PROVE  HeardInv'
<1> DEFINE given == {t \in HeardThreads : plan[t] = "fixable"}
<1>1. PICK r \in [given -> HeardClaims] :
        LET outcomes == [t \in HeardThreads |-> IF t \in given THEN r[t]
                                                ELSE IF plan[t] = "out" THEN "none" ELSE plan[t]]
            fixed == {t \in given : r[t] = "FIXED"}
        IN  /\ Heard!Land(outcomes, fixed)
            /\ cycleTodo' = IF Heard!Settles(mem'.status) THEN fixed ELSE {}
  BY DEF Heard!Agent
<1> DEFINE outcomes == [t \in HeardThreads |-> IF t \in given THEN r[t]
                                               ELSE IF plan[t] = "out" THEN "none" ELSE plan[t]]
           fixed == {t \in given : r[t] = "FIXED"}
<1>2. Heard!Land(outcomes, fixed) /\ cycleTodo' \in {fixed, {}} /\ fixed \subseteq HeardThreads
  BY <1>1
<1>3. HeardTypes
  BY DEF HeardInv
<1>4. HeardClaims \subseteq Outs
  BY ConstantsAssumption DEF Heard!CycleAssumption, Outs, Kinds
<1>5. /\ outcomes \in [HeardThreads -> Outs]
      /\ \A t \in HeardThreads : outcomes[t] # "none" => plan[t] # "out"
  BY <1>3, <1>4 DEF HeardTypes, Plans, Outs, Kinds
<1>6. /\ cyclePc = "triage_replies" /\ cyclePc' = "settle_fixed"
      /\ UNCHANGED <<gh, rec, plan, word, stamped, cycleUnread, overtaken>>
  BY DEF Heard!Agent, Heard!github, Heard!counts, Heard!history
<1> HIDE DEF outcomes, fixed
<1>7. PICK sha \in Nat, status \in Statuses : mem' = Heard!RoundOf(outcomes, sha, status) /\ made' \in Nat
  <2>1. made \in Nat /\ made + 1 \in Nat /\ 0 \in Nat
    BY <1>3 DEF HeardTypes
  <2>2. {"NO_CHANGES", "COMMIT_FAILED", "PUSHED", "PUSH_FAILED", "PUSH_HELD"} \subseteq Statuses
    BY DEF Statuses
  <2>3. CASE mem' = Heard!RoundOf(outcomes, 0, "NO_CHANGES") /\ UNCHANGED Heard!branch
    BY <2>1, <2>2, <2>3 DEF Heard!branch
  <2>4. CASE mem' = Heard!RoundOf(outcomes, 0, "COMMIT_FAILED") /\ UNCHANGED <<made, remote>>
    BY <2>1, <2>2, <2>4
  <2>5. CASE \E status \in {"PUSHED", "PUSH_FAILED", "PUSH_HELD"} : Heard!Committed(outcomes, fixed, status)
    BY <2>1, <2>2, <2>5 DEF Heard!Committed
  <2> QED BY <1>2, <2>3, <2>4, <2>5 DEF Heard!Land
<1>8. mem' \in HeardRecords /\ mem'.out = outcomes
  <2> SUFFICES ASSUME NEW blank \in HeardRecords, blank = Heard!NewRecord
               PROVE  mem' \in HeardRecords /\ mem'.out = outcomes
    BY HeardNews
  <2>1. mem' = [blank EXCEPT !.out = outcomes, !.sha = sha, !.status = status]
    BY <1>7 DEF Heard!RoundOf
  <2> QED BY <1>5, <2>1 DEF HeardRecords
<1>9. HeardTypes'
  BY <1>2, <1>3, <1>6, <1>7, <1>8 DEF HeardTypes
<1>10. ASSUME NEW t \in HeardThreads PROVE HeardRun(t)'
  <2>1. (plan[t] # "out" => t \in stamped) /\ word[t] # "fetched"
    BY <1>6 DEF HeardInv, HeardRun
  <2> QED BY <1>5, <1>6, <1>8, <2>1 DEF HeardRun, ClosingPcs
<1>11. \A t \in HeardThreads : WasRead(t)'
  BY <1>6 DEF HeardInv, WasRead
<1> QED BY <1>6, <1>9, <1>10, <1>11 DEF HeardInv, UnstampedPcs

\* The steps of a closeout that write its record: no outcome changes.
LEMMA HeardRecord ==
  ASSUME HeardTypes
  PROVE  /\ Heard!RoundSummary => mem' \in HeardRecords /\ mem'.out = mem.out
         /\ Heard!PushHeldCommit => mem' \in HeardRecords /\ mem'.out = rec.out
         /\ Heard!DrainEnd => mem' \in HeardRecords /\ mem'.out = mem.out
         /\ Heard!FinishSummary => mem' \in HeardRecords /\ mem'.out = mem.out
<1> SUFFICES ASSUME NEW m \in HeardRecords, NEW r \in HeardRecords, m = mem, r = rec
             PROVE  /\ Heard!RoundSummary => mem' \in HeardRecords /\ mem'.out = m.out
                    /\ Heard!PushHeldCommit => mem' \in HeardRecords /\ mem'.out = r.out
                    /\ Heard!DrainEnd => mem' \in HeardRecords /\ mem'.out = m.out
                    /\ Heard!FinishSummary => mem' \in HeardRecords /\ mem'.out = m.out
  BY DEF HeardTypes
<1>0. made \in Nat /\ {m.status, r.status, "PUSHED", "PUSH_FAILED"} \subseteq Statuses
  BY DEF HeardTypes, HeardRecords, Statuses
<1>1. ASSUME Heard!RoundSummary PROVE mem' \in HeardRecords /\ mem'.out = m.out
  <2>1. PICK refused \in Heard!Refused :
          LET posted == Heard!Enabled /\ Heard!MayPostSummary /\ Heard!InRound # {} /\ ~refused
          IN  mem' = [mem EXCEPT !.owed = Heard!StillOwed /\ ~posted, !.head = made]
    BY <1>1 DEF Heard!RoundSummary
  <2> DEFINE posted == Heard!Enabled /\ Heard!MayPostSummary /\ Heard!InRound # {} /\ ~refused
             owes == Heard!StillOwed /\ ~posted
  <2>2. owes \in BOOLEAN
    OBVIOUS
  <2>3. mem' = [m EXCEPT !.owed = owes, !.head = made]
    BY <2>1
  <2> HIDE DEF owes
  <2> QED BY <1>0, <2>2, <2>3 DEF HeardRecords
<1>2. ASSUME Heard!PushHeldCommit PROVE mem' \in HeardRecords /\ mem'.out = r.out
  <2>1. PICK status \in {rec.status, "PUSHED", "PUSH_FAILED"} : mem' = [rec EXCEPT !.status = status]
    BY <1>2 DEF Heard!PushHeldCommit
  <2>2. status \in Statuses /\ mem' = [r EXCEPT !.status = status]
    BY <1>0, <2>1
  <2> QED BY <2>2 DEF HeardRecords
<1>3. ASSUME Heard!DrainEnd PROVE mem' \in HeardRecords /\ mem'.out = m.out
  <2> DEFINE status == IF Heard!Enabled /\ Heard!Landed(mem) /\ Heard!Unpushed(m.status) THEN "PUSHED" ELSE m.status
             owes == m.pending /\ ~Heard!Drained
  <2>1. mem' = [m EXCEPT !.status = status, !.pending = owes]
    BY <1>3 DEF Heard!DrainEnd
  <2>2. status \in Statuses /\ owes \in BOOLEAN
    BY <1>0
  <2> HIDE DEF status, owes
  <2> QED BY <2>1, <2>2 DEF HeardRecords
<1>4. ASSUME Heard!FinishSummary PROVE mem' \in HeardRecords /\ mem'.out = m.out
  <2>1. PICK posted, renders, held_ : mem' = [m EXCEPT !.status = IF held_ /\ renders THEN "PUSHED" ELSE @,
                                                       !.owed = @ /\ ~posted]
    BY <1>4 DEF Heard!FinishSummary
  <2> DEFINE status == IF held_ /\ renders THEN "PUSHED" ELSE m.status
             owes == m.owed /\ ~posted
  <2>2. mem' = [m EXCEPT !.status = status, !.owed = owes]
    BY <2>1
  <2>3. status \in Statuses /\ owes \in BOOLEAN
    BY <1>0
  <2> HIDE DEF status, owes
  <2> QED BY <2>2, <2>3 DEF HeardRecords
<1> QED BY <1>1, <1>2, <1>3, <1>4

\* The end of a round: what it decided is merged into the record.
LEMMA HeardSaved ==
  ASSUME HeardInv, Heard!Persist
  PROVE  HeardInv'
<1>0. /\ HeardTypes /\ made \in Nat /\ rec \in HeardRecords /\ mem \in HeardRecords
  BY DEF HeardInv, HeardTypes
<1>1. /\ cyclePc = "persist" /\ rec' = Heard!Merged(rec, published) /\ gh' = Heard!DatedAll(gh)
      /\ cycleUnread' = Heard!UnreadNow /\ overtaken' = overtaken \ stamped /\ made' = made
  BY DEF Heard!Persist, Heard!branch
<1>2. /\ rec' \in HeardRecords
      /\ \A t \in HeardThreads : rec'.out[t] = IF mem.out[t] = "none" THEN rec.out[t] ELSE mem.out[t]
  <2> SUFFICES ASSUME NEW m \in HeardRecords, NEW r \in HeardRecords, m = mem, r = rec
               PROVE  /\ rec' \in HeardRecords
                      /\ \A t \in HeardThreads : rec'.out[t] = IF m.out[t] = "none" THEN r.out[t] ELSE m.out[t]
    BY <1>0
  <2> DEFINE outcomes == [t \in HeardThreads |-> IF m.out[t] = "none" THEN r.out[t] ELSE m.out[t]]
             debt == ~Heard!Delivered /\ (Heard!PendingNow \/ r.pending)
             owes == ~published /\ (m.owed \/ r.owed)
  <2>1. rec' = [out |-> outcomes, sha |-> m.sha, status |-> m.status, head |-> m.head, pending |-> debt,
                owed |-> owes]
    BY <1>1 DEF Heard!Merged
  <2>2. outcomes \in [HeardThreads -> Outs] /\ debt \in BOOLEAN /\ owes \in BOOLEAN
    BY DEF HeardRecords
  <2>3. \A t \in HeardThreads : outcomes[t] = IF m.out[t] = "none" THEN r.out[t] ELSE m.out[t]
    OBVIOUS
  <2> HIDE DEF outcomes, debt, owes
  <2>4. rec'.out = outcomes /\ rec' \in HeardRecords
    BY <2>1, <2>2 DEF HeardRecords
  <2> QED BY <2>3, <2>4
<1>3. /\ gh' \in [HeardThreads -> CycleThreads]
      /\ \A t \in HeardThreads :
           /\ t \in stamped /\ ~gh'[t].spoken /\ t \in cycleUnread' => word[t] = "fetched"
           /\ t \notin stamped => gh'[t] = gh[t] /\ (t \in cycleUnread' <=> t \in cycleUnread)
  BY <1>0, <1>1, HeardDated
<1>4. ASSUME NEW t \in HeardThreads PROVE WasRead(t)'
  <2>1. (mem.out[t] # "none" => t \in stamped) /\ word[t] # "fetched" /\ WasRead(t)
    BY <1>1 DEF HeardInv, HeardRun
  <2>2. CASE t \in stamped
    BY <1>3, <2>1, <2>2 DEF WasRead
  <2>3. CASE t \notin stamped
    BY <1>1, <1>2, <1>3, <2>1, <2>3 DEF WasRead
  <2> QED BY <2>2, <2>3
<1>5. CASE "finish" \notin phases
  <2>1. Heard!Forgets
    BY <1>5 DEF Heard!Persist
  <2> QED BY <1>0, <1>1, <1>2, <1>3, <1>4, <2>1, HeardAfterRun
<1>6. CASE "finish" \in phases
  <2>1. cyclePc' = "push" /\ stamped' = {} /\ UNCHANGED <<mem, plan, cycleTodo, word>>
    BY <1>6 DEF Heard!Persist
  <2>2. HeardTypes'
    BY <1>0, <1>1, <1>2, <1>3, <2>1 DEF HeardTypes
  <2>3. \A t \in HeardThreads : HeardRun(t)'
    BY <1>1, <2>1 DEF HeardInv, HeardRun, ClosingPcs
  <2> QED BY <1>4, <2>1, <2>2, <2>3 DEF HeardInv
<1> QED BY <1>5, <1>6

\* What the closeout takes for an outcome it stamps; the other outcomes stay.
LEMMA HeardReconciled ==
  ASSUME HeardInv, Heard!Reconcile
  PROVE  /\ mem' \in HeardRecords /\ \A t \in HeardThreads : t \notin stamped' => mem'.out[t] = mem.out[t]
         /\ word' \in [HeardThreads -> {"no", "fetched", "read"}]
<1>0. HeardTypes
  BY DEF HeardInv
<1> SUFFICES ASSUME NEW m \in HeardRecords, m = mem
             PROVE  /\ mem' \in HeardRecords /\ \A t \in HeardThreads : t \notin stamped' => mem'.out[t] = m.out[t]
                    /\ word' \in [HeardThreads -> {"no", "fetched", "read"}]
  BY <1>0 DEF HeardTypes
<1> DEFINE resettled == Heard!Flipped \cup Heard!Adopted
           outcomes == [t \in HeardThreads |-> IF t \in resettled THEN Heard!SettlementFor(report[t]) ELSE m.out[t]]
           owes == m.owed \/ resettled # {}
<1>1. /\ mem' = [m EXCEPT !.out = outcomes, !.owed = owes] /\ stamped' = resettled
      /\ word' = [t \in HeardThreads |-> IF t \in resettled /\ word[t] # "no" THEN "fetched" ELSE word[t]]
  BY DEF Heard!Reconcile, Heard!OwedAfter
<1>2. owes \in BOOLEAN
  OBVIOUS
<1>3. \A t \in HeardThreads : Heard!SettlementFor(report[t]) \in Outs
  BY DEF Heard!SettlementFor, Heard!SETTLE_OUTCOMES, Outs, Kinds
<1> HIDE DEF resettled
<1>4. outcomes \in [HeardThreads -> Outs] /\ \A t \in HeardThreads : t \notin resettled => outcomes[t] = m.out[t]
  BY <1>3 DEF HeardRecords
<1> HIDE DEF outcomes, owes
<1>5. mem' \in HeardRecords /\ mem'.out = outcomes
  BY <1>1, <1>2, <1>4 DEF HeardRecords
<1>6. word' \in [HeardThreads -> {"no", "fetched", "read"}]
  BY <1>0, <1>1 DEF HeardTypes
<1> QED BY <1>1, <1>4, <1>5, <1>6

LEMMA HeardRuns ==
  ASSUME HeardInv, Heard!RunStep
  PROVE  HeardInv'
<1> USE DEF Heard!counts, Heard!github, Heard!branch, Heard!history
<1>0. HeardTypes /\ gh \in [HeardThreads -> CycleThreads] /\ rec \in HeardRecords /\ made \in Nat
  BY DEF HeardInv, HeardTypes
<1>1. CASE Heard!Triage
  <2>1. PICK v \in [Heard!Open -> HeardVerdicts] :
          /\ plan' = [t \in HeardThreads |-> IF t \in Heard!Open THEN v[t] ELSE "out"]
          /\ cycleTodo' = {t \in Heard!Open : v[t] \in {"ALREADY_ADDRESSED", "DISMISSED"}}
    BY <1>1 DEF Heard!Triage
  <2>2. Heard!Open \subseteq HeardThreads
    BY DEF Heard!Open
  <2>3. HeardVerdicts \subseteq Plans
    BY ConstantsAssumption DEF Heard!CycleAssumption, Plans
  <2>4. /\ plan' \in [HeardThreads -> Plans] /\ cycleTodo' \subseteq HeardThreads
        /\ \A t \in cycleTodo' : plan'[t] \in Kinds
        /\ \A t \in HeardThreads : plan'[t] # "out" => t \in Heard!Open
    BY <2>1, <2>2, <2>3 DEF Plans, Kinds
  <2>5. /\ cyclePc = "triage" /\ cyclePc' = "triage_replies" /\ stamped' = Heard!Open
        /\ UNCHANGED <<gh, rec, mem, word, made, cycleUnread, overtaken>>
    BY <1>1 DEF Heard!Triage
  <2>6. HeardTypes'
    BY <1>0, <2>4, <2>5 DEF HeardTypes
  <2>7. ASSUME NEW t \in HeardThreads PROVE HeardRun(t)' /\ WasRead(t)'
    <3>1. word[t] # "fetched" /\ WasRead(t)
      BY <2>5 DEF HeardInv, HeardRun
    <3> QED BY <2>4, <2>5, <3>1 DEF HeardRun, WasRead, ClosingPcs
  <2> QED BY <2>5, <2>6, <2>7 DEF HeardInv, UnstampedPcs
<1>2. CASE Heard!TriageFails
  <2>1. Heard!Forgets /\ UNCHANGED <<gh, rec, made, cycleUnread, overtaken>>
    BY <1>2 DEF Heard!TriageFails
  <2>2. \A t \in HeardThreads : WasRead(t)'
    BY <2>1 DEF HeardInv, WasRead
  <2> QED BY <1>0, <2>1, <2>2, HeardAfterRun
<1>3. CASE Heard!PostTriageReplies
  <2>1. Heard!Deliver("triage_replies", plan, Heard!Closing)
    BY <1>3 DEF Heard!PostTriageReplies
  <2>2. cyclePc = "triage_replies"
    BY <2>1 DEF Heard!Deliver
  <2>3. \A t \in cycleTodo : plan[t] \in Kinds
    BY <1>0, <2>2 DEF HeardInv, HeardTypes, HeardRun
  <2> QED BY <2>1, <2>3, HeardDelivery
<1>4. CASE Heard!Agent
  BY <1>4, HeardAgent
<1>5. CASE Heard!SettleFixed
  <2>1. PICK kindOf : kindOf = [t \in HeardThreads |-> "FIXED"] /\ Heard!Deliver("settle_fixed", kindOf, Heard!Closing)
    BY <1>5 DEF Heard!SettleFixed
  <2>2. \A t \in cycleTodo : kindOf[t] \in Kinds
    BY <1>0, <2>1 DEF HeardTypes, Kinds
  <2> QED BY <2>1, <2>2, HeardDelivery
<1>6. CASE Heard!RoundSummary
  <2>1. mem' \in HeardRecords /\ mem'.out = mem.out
    BY <1>0, <1>6, HeardRecord
  <2>2. /\ cyclePc = "settle_fixed" /\ cyclePc' = "persist"
        /\ UNCHANGED <<gh, rec, plan, word, made, stamped, cycleTodo, cycleUnread, overtaken>>
    BY <1>6 DEF Heard!RoundSummary
  <2>3. HeardTypes'
    BY <1>0, <2>1, <2>2 DEF HeardTypes
  <2>4. \A t \in HeardThreads : HeardRun(t)' /\ WasRead(t)'
    BY <2>1, <2>2 DEF HeardInv, HeardRun, WasRead, ClosingPcs
  <2> QED BY <2>2, <2>3, <2>4 DEF HeardInv, UnstampedPcs
<1>7. CASE Heard!Persist
  BY <1>7, HeardSaved
<1>8. CASE Heard!PushHeldCommit
  <2>1. mem' \in HeardRecords /\ mem'.out = rec.out
    BY <1>0, <1>8, HeardRecord
  <2>2. /\ cyclePc = "push" /\ cyclePc' = "drain_start"
        /\ UNCHANGED <<gh, rec, plan, word, made, stamped, cycleTodo, cycleUnread, overtaken>>
    BY <1>8 DEF Heard!PushHeldCommit
  <2>3. HeardTypes'
    BY <1>0, <2>1, <2>2 DEF HeardTypes
  <2>4. \A t \in HeardThreads : HeardRun(t)' /\ WasRead(t)'
    BY <2>1, <2>2 DEF HeardInv, HeardRun, WasRead
  <2> QED BY <2>2, <2>3, <2>4 DEF HeardInv, UnstampedPcs
\* The steps of the closeout that write nothing but its own record.
<1>closing. ASSUME UNCHANGED <<gh, rec, plan, made, cycleUnread, overtaken>>,
                   cyclePc \in ClosingPcs, cyclePc' \in ClosingPcs, cyclePc' \in UnstampedPcs => stamped' = {},
                   mem' \in HeardRecords, word' \in [HeardThreads -> {"no", "fetched", "read"}],
                   cycleTodo' \subseteq HeardThreads,
                   \A t \in HeardThreads :
                     /\ t \notin stamped' => t \notin stamped /\ mem'.out[t] = mem.out[t]
                     /\ word'[t] = "fetched" => cyclePc' \in {"track", "file", "save"}
                     /\ cyclePc' \in {"drain", "file"} /\ t \in cycleTodo' => mem'.out[t] \in Kinds
            PROVE  HeardInv'
  <2>1. HeardTypes'
    BY <1>0, <1>closing DEF HeardTypes
  <2>2. cyclePc' \notin {"triage_replies", "settle_fixed", "persist"}
    BY <1>closing DEF ClosingPcs
  <2>3. \A t \in HeardThreads : HeardRun(t)'
    BY <1>closing, <2>2 DEF HeardInv, HeardRun
  <2>4. \A t \in HeardThreads : WasRead(t)'
    BY <1>closing DEF HeardInv, WasRead
  <2> QED BY <1>closing, <2>1, <2>3, <2>4 DEF HeardInv
<1>heard. /\ word \in [HeardThreads -> {"no", "fetched", "read"}] /\ mem \in HeardRecords
          /\ cyclePc \in UnstampedPcs => stamped = {}
          /\ \A t \in HeardThreads : word[t] = "fetched" => cyclePc \in {"track", "file", "save"}
  BY DEF HeardInv, HeardTypes, HeardRun
<1>9. CASE Heard!DrainStart
  <2>1. /\ cyclePc = "drain_start" /\ cyclePc' \in {"drain", "reconcile"}
        /\ UNCHANGED <<gh, rec, mem, plan, word, made, stamped, cycleUnread, overtaken>>
        /\ cycleTodo' \subseteq Heard!With(Kinds)
    BY <1>9 DEF Heard!DrainStart, Heard!With, Kinds
  <2>2. cycleTodo' \subseteq HeardThreads /\ \A t \in cycleTodo' : mem.out[t] \in Kinds
    BY <2>1 DEF Heard!With
  <2> QED BY <1>closing, <1>heard, <2>1, <2>2 DEF ClosingPcs, UnstampedPcs
<1>10. CASE Heard!PostPendingFixReplies
  <2>1. PICK kindOf : kindOf = mem.out /\ Heard!Deliver("drain", kindOf, Heard!Closing)
    BY <1>10 DEF Heard!PostPendingFixReplies
  <2>2. cyclePc = "drain"
    BY <2>1 DEF Heard!Deliver
  <2>3. \A t \in cycleTodo : kindOf[t] \in Kinds
    BY <1>0, <2>1, <2>2 DEF HeardInv, HeardTypes, HeardRun
  <2> QED BY <2>1, <2>3, HeardDelivery
<1>11. CASE Heard!DrainEnd
  <2>1. mem' \in HeardRecords /\ mem'.out = mem.out
    BY <1>0, <1>11, HeardRecord
  <2>2. /\ cyclePc = "drain" /\ cyclePc' = "reconcile"
        /\ UNCHANGED <<gh, rec, plan, word, made, stamped, cycleTodo, cycleUnread, overtaken>>
    BY <1>11 DEF Heard!DrainEnd
  <2>3. cycleTodo' \subseteq HeardThreads
    BY <1>0, <2>2 DEF HeardTypes
  <2> QED BY <1>closing, <1>heard, <2>1, <2>2, <2>3 DEF ClosingPcs, UnstampedPcs
<1>12. CASE Heard!Reconcile
  <2>1. /\ cyclePc = "reconcile" /\ cyclePc' = "track"
        /\ UNCHANGED <<gh, rec, plan, made, cycleTodo, cycleUnread, overtaken>>
    BY <1>12 DEF Heard!Reconcile
  <2>2. stamped = {} /\ cycleTodo' \subseteq HeardThreads
    BY <1>0, <1>heard, <2>1 DEF UnstampedPcs, HeardTypes
  <2>3. /\ mem' \in HeardRecords /\ word' \in [HeardThreads -> {"no", "fetched", "read"}]
        /\ \A t \in HeardThreads : t \notin stamped' => mem'.out[t] = mem.out[t]
    BY <1>12, HeardReconciled
  <2> QED BY <1>closing, <2>1, <2>2, <2>3 DEF ClosingPcs, UnstampedPcs
<1>13. CASE Heard!TrackRefused
  <2>1. /\ cyclePc = "track" /\ cyclePc' = "save"
        /\ UNCHANGED <<gh, rec, mem, plan, word, made, stamped, cycleTodo, cycleUnread, overtaken>>
    BY <1>13 DEF Heard!TrackRefused, Heard!run
  <2>2. cycleTodo' \subseteq HeardThreads
    BY <1>0, <2>1 DEF HeardTypes
  <2> QED BY <1>closing, <1>heard, <2>1, <2>2 DEF ClosingPcs, UnstampedPcs
<1>14. CASE Heard!Track
  <2>1. /\ cyclePc = "track" /\ cyclePc' = "file"
        /\ UNCHANGED <<gh, rec, mem, plan, word, made, stamped, cycleUnread, overtaken>>
        /\ cycleTodo' \subseteq Heard!With({"DEFERRED", "NEEDS_HUMAN"})
    BY <1>14 DEF Heard!Track
  <2>2. cycleTodo' \subseteq HeardThreads /\ \A t \in cycleTodo' : mem.out[t] \in Kinds
    BY <2>1 DEF Heard!With, Kinds
  <2> QED BY <1>closing, <1>heard, <2>1, <2>2 DEF ClosingPcs, UnstampedPcs
<1>15. CASE Heard!PostDeferredReplies
  <2>1. PICK kindOf : kindOf = mem.out /\ Heard!Deliver("file", kindOf, {})
    BY <1>15 DEF Heard!PostDeferredReplies
  <2>2. cyclePc = "file"
    BY <2>1 DEF Heard!Deliver
  <2>3. \A t \in cycleTodo : kindOf[t] \in Kinds
    BY <1>0, <2>1, <2>2 DEF HeardInv, HeardTypes, HeardRun
  <2> QED BY <2>1, <2>3, HeardDelivery
<1>16. CASE Heard!FinishSummary
  <2>1. mem' \in HeardRecords /\ mem'.out = mem.out
    BY <1>0, <1>16, HeardRecord
  <2>2. /\ cyclePc = "file" /\ cyclePc' = "save"
        /\ UNCHANGED <<gh, rec, plan, word, made, stamped, cycleTodo, cycleUnread, overtaken>>
    BY <1>16 DEF Heard!FinishSummary
  <2>3. cycleTodo' \subseteq HeardThreads
    BY <1>0, <2>2 DEF HeardTypes
  <2> QED BY <1>closing, <1>heard, <2>1, <2>2, <2>3 DEF ClosingPcs, UnstampedPcs
<1>17. CASE Heard!FinishSave
  <2>1. /\ cyclePc = "save" /\ rec' = mem /\ Heard!Forgets /\ gh' = Heard!DatedAll(gh)
        /\ cycleUnread' = Heard!UnreadNow /\ made' = made
        /\ overtaken' = (overtaken \ stamped) \cup {t \in stamped : word[t] = "fetched"}
    BY <1>17 DEF Heard!FinishSave
  <2>2. /\ gh' \in [HeardThreads -> CycleThreads]
        /\ \A t \in HeardThreads :
             /\ t \in stamped /\ ~gh'[t].spoken /\ t \in cycleUnread' => word[t] = "fetched"
             /\ t \notin stamped => gh'[t] = gh[t] /\ (t \in cycleUnread' <=> t \in cycleUnread)
    BY <1>0, <2>1, HeardDated
  <2>3. ASSUME NEW t \in HeardThreads PROVE WasRead(t)'
    <3>1. WasRead(t) /\ (t \notin stamped => mem.out[t] = rec.out[t])
      BY <2>1 DEF HeardInv, HeardRun, ClosingPcs
    <3>2. CASE t \in stamped
      BY <2>1, <2>2, <3>2 DEF WasRead
    <3>3. CASE t \notin stamped
      BY <2>1, <2>2, <3>1, <3>3 DEF WasRead
    <3> QED BY <3>2, <3>3
  <2>4. rec' \in HeardRecords /\ made' \in Nat
    BY <1>0, <1>heard, <2>1
  <2> QED BY <2>1, <2>2, <2>3, <2>4, HeardAfterRun
<1> QED BY <1>1, <1>2, <1>3, <1>4, <1>5, <1>6, <1>7, <1>8, <1>9, <1>10, <1>11, <1>12, <1>13, <1>14, <1>15,
           <1>16, <1>17 DEF Heard!RunStep

\* What the record settles has no word of a reviewer after the report that
\* the decision was read from (state.py, `settled_ids`): through any rounds,
\* hand-overs, closeouts and kills, with everybody writing beside the runs;
\* but for a word that came between a closeout's report and its save.
THEOREM SettledIsAlwaysRead == Spec => []SettledWasRead
<1> DEFINE Inv == part = "heard" => HeardInv
<1>1. Init => Inv
  <2> SUFFICES ASSUME Init, part = "heard" PROVE HeardInv
    OBVIOUS
  <2>1. Heard!Init
    BY EveryPartStarts
  <2>2. /\ gh = Heard!NewThreads /\ rec = Heard!NewRecord /\ cyclePc = "off" /\ cycleTodo = {}
        /\ mem = Heard!NewRecord /\ plan = [t \in HeardThreads |-> "out"] /\ made = 0
        /\ word = [t \in HeardThreads |-> "no"] /\ stamped = {} /\ cycleUnread = {}
    BY <2>1 DEF Heard!Init
  <2>3. HeardTypes
    BY <2>2, HeardNews DEF HeardTypes, Plans
  <2>4. \A t \in HeardThreads : HeardRun(t) /\ WasRead(t)
    BY <2>2 DEF HeardRun, WasRead, ClosingPcs
  <2> QED BY <2>2, <2>3, <2>4 DEF HeardInv
<1>2. Inv /\ [Next]_vars => Inv'
  <2> SUFFICES ASSUME Inv, [Next]_vars, part' = "heard" PROVE HeardInv'
    OBVIOUS
  <2>1. part = "heard" /\ [Heard!Next]_Heard!vars
    BY OnePartMoves
  <2>2. HeardInv
    BY <2>1
  <2> HIDE DEF Inv
  <2>3. CASE UNCHANGED Heard!vars
    BY <2>2, <2>3 DEF Heard!vars, HeardInv, HeardTypes, HeardRun, WasRead
  <2>4. CASE Heard!RunStep
    BY <2>2, <2>4, HeardRuns
  <2>5. CASE Heard!Next /\ ~Heard!RunStep
    BY <2>2, <2>5, HeardPeople DEF Heard!Next
  <2> QED BY <2>1, <2>3, <2>4, <2>5
<1>3. Inv => SettledWasRead
  BY DEF SettledWasRead, Heard!SettledWasRead, HeardInv, WasRead
<1> QED BY <1>1, <1>2, <1>3, PTL DEF Spec
=============================================================================
