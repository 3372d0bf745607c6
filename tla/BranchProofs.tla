----------------------------- MODULE BranchProofs -----------------------------
(***************************************************************************)
(* What holds of the ways a branch changes for any number of files,        *)
(* commits, pushes, runs and edits: the landing (GitLand), the publish     *)
(* (BatchPublish), the rebase (Rebase) and its stash (RebaseStash).  Each  *)
(* part has an inductive invariant of its own; the others' steps leave its *)
(* variables alone.                                                        *)
(***************************************************************************)
EXTENDS BranchWork, Naturals, Sequences, FiniteSets, FiniteSetTheorems, SequenceTheorems, TLAPS

LEMMA OnePartMoves ==
  [Next]_vars =>
    /\ [Land!Next]_Land!vars /\ [Publish!Next]_Publish!vars
    /\ [Rebase!Next]_Rebase!vars /\ [Stash!Next]_Stash!vars
BY DEF Next, vars, landVars, publishVars, rebaseVars, stashVars,
       Land!vars, Land!tree, Land!ghosts, Land!bounds,
       Publish!vars, Publish!branch, Publish!ghosts, Publish!counts,
       Rebase!vars, Rebase!refs, Rebase!process, Rebase!history, Stash!vars

LEMMA EveryPartStarts ==
  Init => Land!Init /\ Publish!Init /\ Rebase!Init /\ Stash!Init
BY DEF Init
-----------------------------------------------------------------------------
(* GitLand: what is sent has passed the gates.                             *)

Entries == 1 .. Len(landCommits)
Past(t) == Land!PastTheGates(t)
LandRecords == [sha : Nat, round : {"first", "regen", "recover"}, dirty : SUBSET Files]
PushRecords == [sha : Nat, sending : Nat, noverify : BOOLEAN]

(* The branch only moves on to new commits, each on top of the one before. *)
(* So a retry that finds HEAD at the commit it was to push looks at what   *)
(* the hooks saw; from then on the operator's commits alone come on top.   *)
LandInv ==
  /\ Len(landCommits) \in Nat /\ head \in Entries
  /\ \A i \in Entries : i \in landCommits[i].above
  /\ passed \cup unheard \cup landSent \subseteq Entries
  /\ land \in LandRecords /\ push \in PushRecords
  /\ land.sha <= head
  /\ landPc \in {"git", "dirty", "resend"} => push.sha <= head
  /\ landPc \in {"hooks", "transfer", "verify", "again"} =>
       push.sending \in Entries /\ push.sha <= push.sending /\ push.sending <= head
  /\ landPc \in {"transfer", "verify"} /\ ~push.noverify => push.sending \in passed \cup unheard
  /\ landPc = "again" => push.sending \in passed \cup unheard
  /\ landPc = "transfer" => Past(push.sending)
  /\ landPc \in {"dirty", "resend"} => Past(head)
  /\ \A t \in landSent : Past(t)

LEMMA LandInit == Land!Init => LandInv
<1> SUFFICES ASSUME Land!Init PROVE LandInv
  OBVIOUS
<1>1. /\ Len(landCommits) \in {1, 2} /\ head = Len(landCommits)
      /\ \A i \in 1 .. Len(landCommits) : i \in landCommits[i].above
  BY DEF Land!Init
<1>2. land = [sha |-> 0, round |-> "first", dirty |-> {}] /\ push = [sha |-> 0, sending |-> 0, noverify |-> FALSE]
      /\ landPc = "stage" /\ landSent = {} /\ passed = {} /\ unheard = {}
  BY DEF Land!Init, Land!Landing, Land!NoPush
<1> QED BY <1>1, <1>2 DEF LandInv, Entries, LandRecords, PushRecords

LEMMA AnswerEnds ==
  ASSUME NEW s, Land!Answer(s) PROVE landPc' \in {"regen", "done"}
BY DEF Land!Answer, Land!Finish

(* The tip of a branch that the hooks saw has passed them.                 *)
LEMMA HeardIsPast ==
  ASSUME LandInv, NEW t \in passed \cup unheard PROVE Past(t)
BY DEF LandInv, Past, Land!PastTheGates

(* What is past the gates stays past them.                                 *)
LEMMA PastStays ==
  ASSUME LandInv, \A i \in Entries : landCommits'[i] = landCommits[i],
         passed \subseteq passed', unheard \subseteq unheard', slipped \subseteq slipped',
         NEW t \in Entries, Past(t)
  PROVE  Past(t)'
<1>1. PICK p \in passed \cup unheard :
        p \in landCommits[t].above /\ landCommits[t].above \ landCommits[p].above \subseteq slipped
  BY DEF Past, Land!PastTheGates
<1>2. p \in Entries /\ p \in passed' \cup unheard'
  BY DEF LandInv
<1>3. p \in landCommits'[t].above /\ landCommits'[t].above \ landCommits'[p].above \subseteq slipped'
  BY <1>1, <1>2
<1> QED BY <1>2, <1>3 DEF Past, Land!PastTheGates

(* The steps that make no commit and send nothing.                         *)
LEMMA LandWaits ==
  ASSUME LandInv, UNCHANGED <<landCommits, head, push, passed, landSent, unheard, slipped>>,
         land' \in LandRecords, land'.sha <= head,
         \/ landPc' \in {"commit", "recommit", "recover", "push", "regen", "validate", "done", "raised"}
         \/ landPc' = landPc
         \/ landPc = "transfer" /\ landPc' = "verify"
         \/ landPc = "verify" /\ ~push.noverify /\ landPc' = "again"
         \/ landPc = "again" /\ push.sha = head /\ landPc' = "dirty"
         \/ landPc = "dirty" /\ landPc' = "resend"
  PROVE  LandInv'
<1>1. \A t \in Entries : Past(t)' <=> Past(t)
  BY DEF Past, Land!PastTheGates
<1>2. Entries' = Entries /\ head \in Nat /\ push.sending \in Nat /\ push.sha \in Nat
  BY DEF Entries, LandInv, PushRecords
<1>3. CASE landPc = "again" /\ push.sha = head /\ landPc' = "dirty"
  <2>1. push.sending = head
    BY <1>2, <1>3 DEF LandInv
  <2>2. Past(head)
    BY <1>3, <2>1, HeardIsPast DEF LandInv
  <2>3. Past(head)'
    BY <2>2 DEF Past, Land!PastTheGates
  <2>4. \A t \in landSent' : Past(t)'
    BY <1>1 DEF LandInv
  <2>5. Len(landCommits') \in Nat /\ head' \in Entries' /\ (\A i \in Entries' : i \in landCommits'[i].above)
        /\ passed' \cup unheard' \cup landSent' \subseteq Entries'
    BY <1>2 DEF LandInv
  <2> QED BY <1>2, <1>3, <2>3, <2>4, <2>5 DEF LandInv
<1>4. CASE ~(landPc = "again" /\ push.sha = head /\ landPc' = "dirty")
  <2>1. landPc' = "transfer" => Past(push.sending)'
    BY <1>4 DEF LandInv, Past, Land!PastTheGates
  <2>2. landPc' \in {"dirty", "resend"} => Past(head)'
    BY <1>4 DEF LandInv, Past, Land!PastTheGates
  <2>3. \A t \in landSent' : Past(t)'
    BY <1>1 DEF LandInv
  <2> QED BY <1>2, <1>4, <2>1, <2>2, <2>3 DEF LandInv
<1> QED BY <1>3, <1>4

(* Whoever commits adds to what there is.                                  *)
LEMMA LandGrows ==
  ASSUME LandInv, NEW e, landCommits' = Append(landCommits, e)
  PROVE  /\ Len(landCommits') = Len(landCommits) + 1 /\ Len(landCommits') \in Nat
         /\ Entries \subseteq Entries' /\ Len(landCommits) + 1 \in Entries' \ Entries
         /\ Entries' = Entries \cup {Len(landCommits) + 1}
         /\ \A i \in Entries : landCommits'[i] = landCommits[i]
         /\ landCommits'[Len(landCommits) + 1] = e
<1>1. Len(landCommits) \in Nat
  BY DEF LandInv
<1>2. Len(landCommits') = Len(landCommits) + 1
  BY <1>1
<1>3. \A i \in 1 .. Len(landCommits) : landCommits'[i] = landCommits[i]
  BY <1>1
<1>4. landCommits'[Len(landCommits) + 1] = e
  BY <1>1
<1> QED BY <1>1, <1>2, <1>3, <1>4 DEF Entries

LEMMA CommitGrows ==
  ASSUME LandInv, NEW k, NEW t, Land!Commit(k, t)
  PROVE  /\ head' = Len(landCommits) + 1 /\ head' \in Nat /\ head <= head'
         /\ Len(landCommits') \in Nat /\ Entries' = Entries \cup {head'} /\ head' \notin Entries
         /\ \A i \in Entries : landCommits'[i] = landCommits[i]
         /\ landCommits'[head'].above = landCommits[head].above \cup {head'}
<1> DEFINE e == [above |-> landCommits[head].above \cup {Len(landCommits) + 1}, parent |-> head, tree |-> t,
                 kind |-> k]
<1>1. landCommits' = Append(landCommits, e) /\ head' = Len(landCommits) + 1
  BY DEF Land!Commit
<1>2. e.above = landCommits[head].above \cup {Len(landCommits) + 1}
  OBVIOUS
<1> HIDE DEF e
<1>3. /\ Len(landCommits') \in Nat /\ Entries' = Entries \cup {Len(landCommits) + 1}
      /\ Len(landCommits) + 1 \notin Entries
      /\ \A i \in Entries : landCommits'[i] = landCommits[i]
      /\ landCommits'[Len(landCommits) + 1] = e
  BY <1>1, LandGrows
<1>4. head' \in Nat /\ head <= head'
  BY <1>1 DEF LandInv, Entries
<1> QED BY <1>1, <1>2, <1>3, <1>4

(* The branch moves on, whoever commits.  In the gap of a retry it is the  *)
(* operator, and the commit has slipped in.                                *)
LEMMA LandCommits ==
  ASSUME LandInv, NEW k, NEW t, Land!Commit(k, t), UNCHANGED <<push, passed, landSent, unheard>>,
         slipped \subseteq slipped', landPc \in {"dirty", "resend"} => head' \in slipped',
         land' \in LandRecords, land'.sha <= head',
         landPc' = landPc \/ landPc' \in {"push", "validate"}
  PROVE  LandInv'
<1>1. /\ head' \in Nat /\ head <= head' /\ Len(landCommits') \in Nat
      /\ Entries' = Entries \cup {head'} /\ head' \notin Entries
      /\ \A i \in Entries : landCommits'[i] = landCommits[i]
      /\ landCommits'[head'].above = landCommits[head].above \cup {head'}
  BY CommitGrows
<1>2. \A s \in Entries : Past(s) => Past(s)'
  BY <1>1, PastStays
<1>3. \A i \in Entries' : i \in landCommits'[i].above
  BY <1>1 DEF LandInv
<1>4. ASSUME NEW h \in Entries', h = head', landPc \in {"dirty", "resend"} PROVE Past(h)'
  <2>1. PICK p \in passed \cup unheard :
          p \in landCommits[head].above /\ landCommits[head].above \ landCommits[p].above \subseteq slipped
    BY <1>4 DEF LandInv, Past, Land!PastTheGates
  <2>2. p \in Entries /\ p \in passed' \cup unheard'
    BY DEF LandInv
  <2>3. p \in landCommits'[h].above /\ landCommits'[h].above \ landCommits'[p].above \subseteq slipped'
    BY <1>1, <1>4, <2>1, <2>2
  <2> QED BY <2>2, <2>3 DEF Past, Land!PastTheGates
<1>5. /\ head \in Nat /\ push.sha \in Nat /\ push.sending \in Nat
      /\ \A n \in Nat : n <= head => n <= head'
  BY <1>1 DEF LandInv, Entries, PushRecords
<1>6. ASSUME landPc' \in {"dirty", "resend"} PROVE Past(head)'
  <2>1. head' \in Entries' /\ landPc \in {"dirty", "resend"}
    BY <1>1, <1>6
  <2> QED BY <1>4, <2>1 DEF Past, Land!PastTheGates
<1> QED BY <1>1, <1>2, <1>3, <1>5, <1>6 DEF LandInv

(* The tips that hooks or remote have seen become more.                    *)
LEMMA LandSees ==
  ASSUME LandInv, UNCHANGED <<landCommits, head, push, land, slipped>>,
         push.sending \in Entries, push.sha <= push.sending, push.sending <= head,
         \/ /\ landPc = "hooks" /\ landPc' = "transfer" /\ UNCHANGED <<unheard, landSent>>
            /\ passed' = passed \cup {push.sending}
         \/ /\ landPc = "hooks" /\ landPc' = "verify" /\ UNCHANGED <<passed, landSent>>
            /\ unheard' = unheard \cup {push.sending}
         \/ /\ landPc = "transfer" /\ landPc' = "verify" /\ UNCHANGED <<passed, unheard>>
            /\ landSent' \in {landSent, landSent \cup {push.sending}}
  PROVE  LandInv'
<1>1. \A t \in Entries : Past(t) => Past(t)'
  BY PastStays
<1>2. Entries' = Entries
  BY DEF Entries
<1>3. landPc = "hooks" /\ landPc' = "transfer" => Past(push.sending)'
  <2> SUFFICES ASSUME landPc = "hooks", landPc' = "transfer" PROVE Past(push.sending)'
    OBVIOUS
  <2>1. push.sending \in passed'
    OBVIOUS
  <2>2. push.sending \in landCommits'[push.sending].above
    BY DEF LandInv
  <2> QED BY <2>1, <2>2 DEF Past, Land!PastTheGates
<1>4. landPc' = "transfer" => Past(push.sending)'
  BY <1>3
<1>5. \A t \in landSent' : t \in Entries /\ (t \in landSent \/ (landPc = "transfer" /\ t = push.sending))
  BY DEF LandInv
<1>6. \A t \in landSent' : Past(t)'
  BY <1>1, <1>5 DEF LandInv
<1>7. passed' \cup unheard' \cup landSent' \subseteq Entries
  BY DEF LandInv
<1> QED BY <1>2, <1>4, <1>6, <1>7 DEF LandInv

(* The steps that prepare a push, or start git.                            *)
LEMMA LandMoves ==
  ASSUME LandInv, UNCHANGED <<landCommits, head, passed, landSent, unheard, slipped>>,
         land' \in LandRecords, land'.sha <= head, push' \in PushRecords, push'.sha <= head,
         \/ landPc' = "git"
         \/ landPc' = "hooks" /\ push'.sending = head
         \/ landPc' = "transfer" /\ push'.sending = head /\ push'.noverify /\ Past(head)
  PROVE  LandInv'
<1>1. \A t \in Entries : Past(t)' <=> Past(t)
  BY DEF Past, Land!PastTheGates
<1>2. Entries' = Entries /\ head \in Nat /\ head \in Entries
  BY DEF Entries, LandInv
<1>3. landPc' = "transfer" => Past(push.sending)'
  BY <1>1, <1>2 DEF Past, Land!PastTheGates
<1>4. \A t \in landSent' : Past(t)'
  BY <1>1 DEF LandInv
<1>5. Len(landCommits') \in Nat /\ head' \in Entries' /\ (\A i \in Entries' : i \in landCommits'[i].above)
      /\ passed' \cup unheard' \cup landSent' \subseteq Entries' /\ head' <= head'
  BY <1>2 DEF LandInv
<1> QED BY <1>3, <1>4, <1>5 DEF LandInv

LEMMA LandStep ==
  ASSUME LandInv, [Land!Next]_Land!vars PROVE LandInv'
<1> USE DEF Land!tree, Land!ghosts, Land!bounds
<1>0. /\ head \in Nat /\ head \in Entries /\ land \in LandRecords /\ land.sha <= head
      /\ push \in PushRecords /\ push.sha \in Nat /\ push.sending \in Nat /\ push.noverify \in BOOLEAN
  BY DEF LandInv, PushRecords, Entries
<1>a. \A r \in {"first", "regen", "recover"} :
        Land!Landing(head, r) \in LandRecords /\ Land!Landing(head, r).sha = head
  BY <1>0 DEF Land!Landing, LandRecords
<1>1. CASE UNCHANGED Land!vars \/ Land!AllOver
  <2>1. UNCHANGED <<landCommits, head, push, passed, landSent, unheard, slipped, land, landPc>>
    BY <1>1 DEF Land!vars, Land!AllOver
  <2> QED BY <1>0, <2>1, LandWaits
<1>2. CASE Land!NothingToCommit \/ Land!Stage \/ Land!CommitNothing \/ Land!Unrecovered \/ Land!RegenStops
  <2>1. UNCHANGED <<landCommits, head, push, passed, landSent, unheard, slipped, land>>
        /\ landPc' \in {"commit", "recover", "done", "raised"}
    BY <1>2 DEF Land!NothingToCommit, Land!Stage, Land!CommitNothing, Land!Unrecovered, Land!RegenStops,
       Land!NoCommit, Land!Finish
  <2> QED BY <1>0, <2>1, LandWaits
<1>3. CASE Land!CommitRefused
  <2>1. UNCHANGED <<landCommits, head, push, passed, landSent, unheard, slipped, land>>
        /\ landPc' \in {"recommit", "recover", "done"}
    BY <1>3 DEF Land!CommitRefused, Land!NoCommit
  <2> QED BY <1>0, <2>1, LandWaits
<1>4. CASE Land!CommitMade
  <2>1. Land!Commit("pass", Land!Candidate) /\ UNCHANGED <<push, passed, landSent, unheard, slipped>>
        /\ landPc \in {"commit", "recommit"} /\ landPc' = "push" /\ land' = Land!Landing(head', "first")
    BY <1>4 DEF Land!CommitMade
  <2>2. head' \in Nat
    BY <2>1, CommitGrows
  <2>3. land' \in LandRecords /\ land'.sha <= head'
    BY <2>1, <2>2 DEF Land!Landing, LandRecords
  <2> QED BY <2>1, <2>2, <2>3, LandCommits
<1>5. CASE Land!Recover
  <2>1. UNCHANGED <<landCommits, head, push, passed, landSent, unheard, slipped>> /\ landPc' \in {"done", "push"}
        /\ land' \in {land, Land!Landing(head, "recover")}
    BY <1>5 DEF Land!Recover, Land!Finish
  <2> QED BY <1>0, <1>a, <2>1, LandWaits
<1>6. CASE Land!PushStart
  <2>1. UNCHANGED <<landCommits, head, passed, landSent, unheard, slipped>> /\ landPc = "push"
        /\ \E d \in SUBSET Files : land' = [land EXCEPT !.dirty = d]
    <3>1. Land!Modified \in SUBSET Files
      BY DEF Land!Modified
    <3> QED BY <1>0, <1>6, <3>1 DEF Land!PushStart, LandRecords
  <2>2. land' \in LandRecords /\ land'.sha = land.sha
    BY <1>0, <2>1 DEF LandRecords
  <2>3. CASE Land!Answer("held") /\ UNCHANGED push
    BY <1>0, <2>1, <2>2, <2>3, AnswerEnds, LandWaits
  <2>4. CASE landPc' = "git" /\ push' = [Land!NoPush EXCEPT !.sha = IF land.round = "regen" THEN head ELSE land.sha]
    <3>1. push' \in PushRecords /\ push'.sha \in {head, land.sha}
      BY <1>0, <2>4 DEF Land!NoPush, PushRecords, LandRecords
    <3>2. push'.sha <= head
      BY <1>0, <3>1
    <3> QED BY <1>0, <2>1, <2>2, <2>4, <3>1, <3>2, LandMoves
  <2> QED BY <1>6, <2>3, <2>4 DEF Land!PushStart
<1>7. CASE Land!GitStarts
  <2>1. UNCHANGED <<landCommits, head, passed, landSent, unheard, slipped, land>> /\ landPc = "git"
    BY <1>7 DEF Land!GitStarts
  <2>2. CASE landPc' = "hooks" /\ push' = [push EXCEPT !.sending = head]
    <3>1. push' \in PushRecords /\ push'.sending = head /\ push'.sha = push.sha
      BY <1>0, <2>2 DEF PushRecords
    <3>2. push.sha <= head
      BY <2>1 DEF LandInv
    <3> QED BY <1>0, <2>1, <2>2, <3>1, <3>2, LandMoves
  <2>3. CASE landPc' = "raised" /\ UNCHANGED push
    BY <1>0, <2>1, <2>3, LandWaits
  <2> QED BY <1>7, <2>2, <2>3 DEF Land!GitStarts
<1>8. CASE Land!HooksPass \/ Land!HooksLookDropped \/ Land!Arrives
  <2>1. landPc \in {"hooks", "transfer"} /\ UNCHANGED <<landCommits, head, push, land, slipped>>
    BY <1>8 DEF Land!HooksPass, Land!HooksLookDropped, Land!Arrives
  <2>2. push.sending \in Entries /\ push.sha <= push.sending /\ push.sending <= head
    BY <2>1 DEF LandInv
  <2> QED BY <1>8, <2>1, <2>2, LandSees DEF Land!HooksPass, Land!HooksLookDropped, Land!Arrives
<1>9. CASE Land!HooksRefuse \/ Land!TransferRefused
  <2>1. UNCHANGED <<landCommits, head, push, passed, landSent, unheard, slipped, land>> /\ Land!Answer("refused")
    BY <1>9 DEF Land!HooksRefuse, Land!TransferRefused
  <2> QED BY <1>0, <2>1, AnswerEnds, LandWaits
<1>10. CASE Land!Vanishes
  <2>1. UNCHANGED <<landCommits, head, push, passed, landSent, unheard, slipped, land>>
        /\ landPc = "transfer" /\ landPc' = "verify"
    BY <1>10 DEF Land!Vanishes
  <2> QED BY <1>0, <2>1, LandWaits
<1>11. CASE Land!Verify
  <2>1. UNCHANGED <<landCommits, head, push, passed, landSent, unheard, slipped, land>> /\ landPc = "verify"
        /\ ((\E s \in Land!PushStatuses : Land!Answer(s)) \/ (~push.noverify /\ landPc' = "again"))
    BY <1>11 DEF Land!Verify, Land!PushStatuses, Land!Retried
  <2> QED BY <1>0, <2>1, AnswerEnds, LandWaits
<1>12. CASE Land!RetryLooksAtHead
  <2>1. UNCHANGED <<landCommits, head, push, passed, landSent, unheard, slipped, land>> /\ landPc = "again"
        /\ ((push.sha = head /\ landPc' = "dirty") \/ Land!Answer("lost"))
    BY <1>12 DEF Land!RetryLooksAtHead, Land!HeadStands
  <2> QED BY <1>0, <2>1, AnswerEnds, LandWaits
<1>13. CASE Land!RetryLooksAtTree
  <2>1. UNCHANGED <<landCommits, head, push, passed, landSent, unheard, slipped, land>> /\ landPc = "dirty"
        /\ (landPc' = "resend" \/ Land!Answer("lost"))
    BY <1>13 DEF Land!RetryLooksAtTree
  <2> QED BY <1>0, <2>1, AnswerEnds, LandWaits
<1>14. CASE Land!RetryStarts
  <2>1. UNCHANGED <<landCommits, head, passed, landSent, unheard, slipped, land>>
        /\ landPc = "resend" /\ landPc' = "transfer" /\ push' = [push EXCEPT !.sending = head, !.noverify = TRUE]
    BY <1>14 DEF Land!RetryStarts
  <2>2. push' \in PushRecords /\ push'.sending = head /\ push'.sha = push.sha /\ push'.noverify
    BY <1>0, <2>1 DEF PushRecords
  <2>3. push.sha <= head /\ Past(head)
    BY <2>1 DEF LandInv
  <2> QED BY <1>0, <2>1, <2>2, <2>3, LandMoves
<1>15. CASE Land!RegenCommits
  <2>1. Land!Commit("regen", Land!Over(Land!HeadTree, Land!Regenerated, work))
        /\ UNCHANGED <<push, passed, landSent, unheard, slipped, land>> /\ landPc = "regen" /\ landPc' = "validate"
    BY <1>15 DEF Land!RegenCommits
  <2>2. head' \in Nat /\ head <= head'
    BY <2>1, CommitGrows
  <2>3. land'.sha <= head'
    BY <1>0, <2>1, <2>2 DEF LandRecords
  <2> QED BY <1>0, <2>1, <2>3, LandCommits
<1>16. CASE Land!Validate
  <2>1. UNCHANGED <<landCommits, head, push, passed, landSent, unheard, slipped>> /\ landPc' \in {"push", "done"}
        /\ land' \in {land, [land EXCEPT !.round = "regen"]}
    BY <1>16 DEF Land!Validate
  <2>2. land' \in LandRecords /\ land'.sha = land.sha
    BY <1>0, <2>1 DEF LandRecords
  <2> QED BY <1>0, <2>1, <2>2, LandWaits
<1>17. CASE Land!ColleaguePushes
  <2>1. UNCHANGED <<head, push, passed, landSent, unheard, slipped, land, landPc>>
        /\ landCommits' = Append(landCommits,
              [above |-> landCommits[landRemote].above \cup {Len(landCommits) + 1}, parent |-> landRemote,
               tree |-> landCommits[landRemote].tree, kind |-> "other"])
    BY <1>17 DEF Land!ColleaguePushes
  <2>2. Len(landCommits) + 1 \in landCommits'[Len(landCommits) + 1].above
    BY <2>1, LandGrows
  <2>3. /\ Len(landCommits') \in Nat /\ Entries' = Entries \cup {Len(landCommits) + 1}
        /\ \A i \in Entries : landCommits'[i] = landCommits[i]
    BY <2>1, LandGrows
  <2>4. \A t \in Entries : Past(t) => Past(t)'
    BY <2>1, <2>3, PastStays
  <2>5. \A i \in Entries' : i \in landCommits'[i].above
    BY <2>2, <2>3 DEF LandInv
  <2> QED BY <2>1, <2>3, <2>4, <2>5 DEF LandInv, Past
<1>18. ASSUME NEW f \in Files, Land!Edit(f) PROVE LandInv'
  <2>1. UNCHANGED <<landCommits, head, push, passed, landSent, unheard, slipped, land, landPc>>
    BY <1>18 DEF Land!Edit
  <2> QED BY <1>0, <2>1, LandWaits
<1>19. ASSUME NEW f \in Files, Land!OperatorCommits(f) PROVE LandInv'
  <2>1. Land!Commit("user", [Land!HeadTree EXCEPT ![f] = "user"])
        /\ UNCHANGED <<push, passed, landSent, unheard, land, landPc>>
        /\ slipped' = IF Land!Unguarded THEN slipped \cup {head'} ELSE slipped
    BY <1>19 DEF Land!OperatorCommits
  <2>2. head' \in Nat /\ head <= head'
    BY <2>1, CommitGrows
  <2>3. land'.sha <= head'
    BY <1>0, <2>1, <2>2 DEF LandRecords
  <2>4. slipped \subseteq slipped' /\ (landPc \in {"dirty", "resend"} => head' \in slipped')
    BY <2>1 DEF Land!Unguarded
  <2> QED BY <1>0, <2>1, <2>3, <2>4, LandCommits
<1> QED BY <1>1, <1>2, <1>3, <1>4, <1>5, <1>6, <1>7, <1>8, <1>9, <1>10, <1>11, <1>12, <1>13, <1>14, <1>15,
           <1>16, <1>17, <1>18, <1>19 DEF Land!Next, Land!Step

(* push.py: the retry of a lost push skips the hooks.  What it delivers    *)
(* they have seen, whoever commits meanwhile, but for the commits that     *)
(* slip in between its look at HEAD and its git.                           *)
THEOREM GatesAreAlwaysPassed == Spec => []SentPassedTheGates
<1>1. Init => LandInv
  BY EveryPartStarts, LandInit
<1>2. LandInv /\ [Next]_vars => LandInv'
  BY OnePartMoves, LandStep
<1>3. LandInv => SentPassedTheGates
  BY DEF LandInv, SentPassedTheGates, Land!SentPassedTheGates, Past
<1> QED BY <1>1, <1>2, <1>3, PTL DEF Spec
-----------------------------------------------------------------------------
(* BatchPublish: what a push takes off the remote, and whose push it was.  *)

Commit == [patch : Nat, origin : Nat]
CommitIds == 1 .. Len(publishCommits)

(* Two commits with one patch come from the same work: a rewrite keeps     *)
(* both or takes a patch nobody has.                                       *)
PatchesTell ==
  /\ publishCommits \in Seq(Commit)
  /\ \A c \in CommitIds : publishCommits[c].patch \in 1 .. c
  /\ \A c, d \in CommitIds :
       publishCommits[c].patch = publishCommits[d].patch => publishCommits[c].origin = publishCommits[d].origin

Branches ==
  /\ publishLocal \in Seq(CommitIds) /\ publishRemote \in Seq(CommitIds)
  /\ item \in Publish!Items /\ publishSaved \in Publish!Items
  /\ item.lease \in Seq(CommitIds) /\ publishSaved.lease \in Seq(CommitIds)

(* The commits that were there stay what they are.                         *)
Grown ==
  /\ PatchesTell' /\ Len(publishCommits) <= Len(publishCommits')
  /\ \A c \in CommitIds : publishCommits'[c] = publishCommits[c]

LEMMA IdsStay ==
  ASSUME PatchesTell, Grown PROVE CommitIds \subseteq CommitIds' /\ Seq(CommitIds) \subseteq Seq(CommitIds')
<1>1. Len(publishCommits) \in Nat /\ Len(publishCommits') \in Nat
  BY DEF Grown, PatchesTell
<1>2. CommitIds \subseteq CommitIds'
  BY <1>1 DEF Grown, CommitIds
<1> QED BY <1>2

LEMMA NoneIsGrown == PatchesTell /\ UNCHANGED publishCommits => Grown
BY DEF Grown, PatchesTell, CommitIds

(* New commits are added after the old ones, whose patches they may have.  *)
LEMMA AddedIsGrown ==
  ASSUME PatchesTell, NEW new \in Seq(Commit), publishCommits' = publishCommits \o new,
         \A k \in 1 .. Len(new) :
           \/ new[k].patch = Len(publishCommits) + k
           \/ \E c \in CommitIds :
                new[k].patch = publishCommits[c].patch /\ new[k].origin = publishCommits[c].origin
  PROVE  Grown /\ Len(publishCommits') = Len(publishCommits) + Len(new)
<1> DEFINE n == Len(publishCommits)  m == Len(new)
<1>1. n \in Nat /\ m \in Nat /\ publishCommits \in Seq(Commit)
  BY DEF PatchesTell
<1>2. /\ publishCommits' \in Seq(Commit) /\ Len(publishCommits') = n + m
      /\ \A i \in 1 .. n + m : publishCommits'[i] = IF i <= n THEN publishCommits[i] ELSE new[i - n]
  BY <1>1, ConcatProperties
<1>3. ASSUME NEW c \in 1 .. n PROVE publishCommits'[c] = publishCommits[c]
  BY <1>1, <1>2
<1>4. ASSUME NEW c \in 1 .. n + m, ~(c <= n)
      PROVE  /\ publishCommits'[c] = new[c - n] /\ c - n \in 1 .. m /\ n + (c - n) = c
             /\ \/ publishCommits'[c].patch = c
                \/ \E d \in 1 .. n : /\ publishCommits'[c].patch = publishCommits'[d].patch
                                     /\ publishCommits'[c].origin = publishCommits'[d].origin
  <2>1. publishCommits'[c] = new[c - n] /\ c - n \in 1 .. m /\ n + (c - n) = c
    BY <1>1, <1>2, <1>4
  <2> QED BY <1>3, <2>1 DEF CommitIds
<1>5. ASSUME NEW c \in 1 .. n PROVE publishCommits'[c].patch \in 1 .. n /\ publishCommits'[c].patch \in 1 .. c
  BY <1>1, <1>3 DEF PatchesTell, CommitIds
<1>6. ASSUME NEW c \in 1 .. n, NEW d \in 1 .. n, publishCommits'[c].patch = publishCommits'[d].patch
      PROVE  publishCommits'[c].origin = publishCommits'[d].origin
  BY <1>3, <1>6 DEF PatchesTell, CommitIds
<1> DEFINE Old(c) == \E d \in 1 .. n : /\ publishCommits'[c].patch = publishCommits'[d].patch
                                       /\ publishCommits'[c].origin = publishCommits'[d].origin
<1>7. ASSUME NEW c \in 1 .. n + m PROVE Old(c) \/ (publishCommits'[c].patch = c /\ ~(c <= n))
  <2>1. CASE c <= n
    <3>1. c \in 1 .. n
      BY <1>1, <2>1
    <3> QED BY <3>1
  <2>2. CASE ~(c <= n)
    BY <1>4, <2>2
  <2> QED BY <2>1, <2>2
<1>8. ASSUME NEW c \in 1 .. n + m, Old(c) PROVE publishCommits'[c].patch \in 1 .. n
  BY <1>5, <1>8
<1>o. ASSUME NEW c \in 1 .. n + m, NEW d \in 1 .. n + m, Old(c), Old(d),
             publishCommits'[c].patch = publishCommits'[d].patch
      PROVE  publishCommits'[c].origin = publishCommits'[d].origin
  <2>1. PICK c0 \in 1 .. n : /\ publishCommits'[c].patch = publishCommits'[c0].patch
                             /\ publishCommits'[c].origin = publishCommits'[c0].origin
    BY <1>o
  <2>2. PICK d0 \in 1 .. n : /\ publishCommits'[d].patch = publishCommits'[d0].patch
                             /\ publishCommits'[d].origin = publishCommits'[d0].origin
    BY <1>o
  <2>3. publishCommits'[c0].origin = publishCommits'[d0].origin
    <3>1. publishCommits'[c0].patch = publishCommits'[d0].patch
      BY <1>o, <2>1, <2>2
    <3> QED BY <1>6, <3>1
  <2> QED BY <2>1, <2>2, <2>3
<1> HIDE DEF n, m, Old
<1>9. ASSUME NEW c \in 1 .. n + m PROVE publishCommits'[c].patch \in 1 .. c
  <2>1. CASE c <= n
    <3>1. c \in 1 .. n
      BY <1>1, <2>1
    <3> QED BY <1>5, <3>1
  <2>2. CASE ~(c <= n) /\ Old(c)
    <3>1. publishCommits'[c].patch \in 1 .. n
      BY <1>8, <2>2
    <3> DEFINE p == publishCommits'[c].patch
    <3>2. p \in 1 .. n /\ c \in 1 .. n + m /\ ~(c <= n)
      BY <2>2, <3>1
    <3> HIDE DEF p
    <3>3. p \in 1 .. c
      BY <1>1, <3>2
    <3> QED BY <3>3 DEF p
  <2>3. CASE publishCommits'[c].patch = c
    BY <1>1, <2>3
  <2> QED BY <1>7, <2>1, <2>2, <2>3
<1>10. ASSUME NEW c \in 1 .. n + m, NEW d \in 1 .. n + m, publishCommits'[c].patch = publishCommits'[d].patch
       PROVE  publishCommits'[c].origin = publishCommits'[d].origin
  <2>1. CASE Old(c) /\ Old(d)
    BY <1>10, <1>o, <2>1
  <2>2. CASE Old(c) /\ publishCommits'[d].patch = d /\ ~(d <= n)
    <3>1. publishCommits'[c].patch \in 1 .. n
      BY <1>8, <2>2
    <3> QED BY <1>1, <1>10, <2>2, <3>1
  <2>3. CASE Old(d) /\ publishCommits'[c].patch = c /\ ~(c <= n)
    <3>1. publishCommits'[d].patch \in 1 .. n
      BY <1>8, <2>3
    <3> QED BY <1>1, <1>10, <2>3, <3>1
  <2>4. CASE publishCommits'[c].patch = c /\ publishCommits'[d].patch = d
    BY <1>10, <2>4
  <2> QED BY <1>7, <2>1, <2>2, <2>3, <2>4
<1>11. PatchesTell'
  <2>1. Len(publishCommits') = n + m /\ publishCommits' \in Seq(Commit)
    BY <1>2
  <2>2. CommitIds' = 1 .. n + m
    BY <2>1 DEF CommitIds
  <2>3. \A c \in CommitIds' : publishCommits'[c].patch \in 1 .. c
    BY <1>9, <2>2
  <2>4. \A c, d \in CommitIds' : publishCommits'[c].patch = publishCommits'[d].patch
                                 => publishCommits'[c].origin = publishCommits'[d].origin
    BY <1>10, <2>2
  <2> QED BY <2>1, <2>3, <2>4 DEF PatchesTell
<1> QED BY <1>1, <1>2, <1>3, <1>11 DEF Grown, CommitIds, n, m

LEMMA FreshIsGrown ==
  ASSUME PatchesTell, publishCommits' = Append(publishCommits, Publish!Fresh)
  PROVE  Grown /\ Publish!Next1 \in CommitIds' /\ Publish!Next1 \in Nat
<1> DEFINE new == <<Publish!Fresh>>
<1>1. Publish!Next1 \in Nat /\ Publish!Next1 = Len(publishCommits) + 1 /\ Len(publishCommits) \in Nat
  BY DEF Publish!Next1, PatchesTell
<1>2. Publish!Fresh \in Commit /\ Publish!Fresh.patch = Len(publishCommits) + 1
  BY <1>1 DEF Publish!Fresh, Commit
<1>3. new \in Seq(Commit) /\ Len(new) = 1 /\ new[1] = Publish!Fresh
  BY <1>2
<1>4. publishCommits' = publishCommits \o new
  BY <1>2, AppendIsConcat DEF PatchesTell
<1>5. \A k \in 1 .. Len(new) : new[k].patch = Len(publishCommits) + k
  BY <1>2, <1>3
<1> HIDE DEF new
<1>6. Grown /\ Len(publishCommits') = Len(publishCommits) + 1
  BY <1>3, <1>4, <1>5, AddedIsGrown
<1> QED BY <1>1, <1>6 DEF CommitIds

LEMMA CopiesAreGrown ==
  ASSUME PatchesTell, NEW s \in Seq(CommitIds), NEW conflicts,
         publishCommits' = publishCommits \o Publish!Copies(s, conflicts)
  PROVE  Grown /\ Publish!CopyIds(s) \in Seq(CommitIds')
<1> DEFINE new == Publish!Copies(s, conflicts)  n == Len(publishCommits)
<1>1. Len(s) \in Nat /\ n \in Nat /\ publishCommits \in Seq(Commit) /\ \A k \in 1 .. Len(s) : s[k] \in CommitIds
  BY DEF PatchesTell
<1>2. ASSUME NEW k \in 1 .. Len(s)
      PROVE  /\ new[k] \in Commit
             /\ \/ new[k].patch = n + k
                \/ new[k].patch = publishCommits[s[k]].patch /\ new[k].origin = publishCommits[s[k]].origin
  <2>1. publishCommits[s[k]] \in Commit /\ n + k \in Nat
    BY <1>1 DEF CommitIds
  <2>2. new[k] = [patch |-> IF s[k] \in conflicts THEN n + k ELSE publishCommits[s[k]].patch,
                  origin |-> publishCommits[s[k]].origin]
    BY DEF Publish!Copies
  <2> HIDE DEF n
  <2> QED BY <2>1, <2>2 DEF Commit
<1>3. new = [k \in 1 .. Len(s) |-> new[k]]
  BY DEF Publish!Copies
<1> HIDE DEF new
<1>4. new \in Seq(Commit) /\ Len(new) = Len(s)
  BY <1>1, <1>2, <1>3
<1>5. Grown /\ Len(publishCommits') = n + Len(s)
  BY <1>1, <1>2, <1>4, AddedIsGrown DEF new
<1>6. \A k \in 1 .. Len(s) : n + k \in 1 .. n + Len(s)
  BY <1>1
<1>7. Publish!CopyIds(s) \in Seq(CommitIds')
  BY <1>1, <1>5, <1>6 DEF Publish!CopyIds, CommitIds
<1> QED BY <1>5, <1>7

LEMMA SeqsOfMore == ASSUME NEW S, NEW T, S \subseteq T PROVE Seq(S) \subseteq Seq(T)
OBVIOUS

LEMMA IdsAreNumbers ==
  ASSUME PatchesTell PROVE CommitIds \subseteq Nat /\ Seq(CommitIds) \subseteq Seq(Nat)
<1>0. Len(publishCommits) \in Nat
  BY DEF PatchesTell
<1>1. CommitIds \subseteq Nat
  BY <1>0 DEF CommitIds
<1> QED BY <1>1, SeqsOfMore

LEMMA BranchesStay ==
  ASSUME PatchesTell, Branches, Grown, item' \in Publish!Items, publishSaved' \in Publish!Items,
         {publishLocal', publishRemote', item'.lease, publishSaved'.lease} \subseteq Seq(CommitIds) \cup Seq(CommitIds')
  PROVE  PatchesTell' /\ Branches'
<1>1. Seq(CommitIds) \subseteq Seq(CommitIds')
  BY IdsStay
<1> QED BY <1>1 DEF Grown, Branches

LEMMA PublishInit == Publish!Init => PatchesTell /\ Branches
<1> SUFFICES ASSUME Publish!Init PROVE PatchesTell /\ Branches
  OBVIOUS
<1>1. publishCommits = <<[patch |-> 1, origin |-> 1]>> /\ publishLocal = <<1>> /\ publishRemote = <<1>> /\ publishSaved = item
      /\ item = [lease |-> <<1>>, forced |-> {}, start |-> Publish!NoStart, drafted |-> {},
                 status |-> "drafting", decision |-> Publish!Open("none", "none", {})]
  BY DEF Publish!Init
<1>2. CommitIds = {1} /\ <<1>> \in Seq(CommitIds) /\ <<1>> \in Seq(Nat)
  BY <1>1 DEF CommitIds
<1>3. PatchesTell
  BY <1>1, <1>2 DEF PatchesTell, Commit
<1>4. Publish!NoStart \in Seq(Nat)
  BY DEF Publish!NoStart
<1>5. item \in Publish!Items /\ item.lease = <<1>>
  BY <1>1, <1>2, <1>4 DEF Publish!Items, Publish!Open, Publish!Reasons
<1> QED BY <1>1, <1>2, <1>3, <1>5 DEF Branches

(* A failure records labels and a reason and leaves the branches alone.    *)
LEMMA FailedItem ==
  ASSUME NEW old \in Publish!Items, NEW r \in Publish!Reasons, NEW labels \in SUBSET Publish!Labels,
         Publish!Fail(old, r, labels)
  PROVE  /\ item' \in Publish!Items /\ publishSaved' = item' /\ item'.lease = old.lease /\ item'.forced = old.forced
         /\ item'.status = "awaiting" /\ item'.decision.kind = "failed" /\ item'.decision.reason = r
         /\ request' = "none" /\ publishPc' = "idle"
<1>1. Publish!Open("failed", r, labels) \in [kind : {"none", "publish", "failed"}, reason : Publish!Reasons,
                                             labels : SUBSET Publish!Labels]
      /\ Publish!Open("failed", r, labels).kind = "failed" /\ Publish!Open("failed", r, labels).reason = r
  BY DEF Publish!Open
<1>2. item' = [old EXCEPT !.status = "awaiting", !.decision = Publish!Open("failed", r, labels)]
      /\ publishSaved' = item' /\ request' = "none" /\ publishPc' = "idle"
  BY DEF Publish!Fail, Publish!KeepItem
<1> QED BY <1>1, <1>2 DEF Publish!Items

(* What a publish starts from: a refusal or a plan.                        *)
Started ==
  LET now == [item EXCEPT !.forced = Publish!Confirmed(request)]
  IN  \/ Publish!Fail(now, "fetch_failed", {})
      \/ \E dropped \in SUBSET Publish!Labels :
           LET refusal == Publish!Plan(dropped, Publish!Confirmed(request)) IN
           \/ refusal # "none" /\ \E labels \in SUBSET Publish!Labels : Publish!Fail(now, refusal, labels)
           \/ /\ refusal = "none" /\ item' = now /\ UNCHANGED <<publishSaved, request>>
              /\ publishPc' = IF Publish!IsPrefix(publishLocal, publishRemote) THEN "closing" ELSE "pushing"

LEMMA ForcedItem ==
  ASSUME item \in Publish!Items
  PROVE  /\ Publish!Confirmed(request) \in SUBSET Publish!Labels
         /\ [item EXCEPT !.forced = Publish!Confirmed(request)] \in Publish!Items
         /\ [item EXCEPT !.forced = Publish!Confirmed(request)].lease = item.lease
         /\ [item EXCEPT !.forced = Publish!Confirmed(request)].forced = Publish!Confirmed(request)
         /\ [item EXCEPT !.forced = Publish!Confirmed(request)].decision = item.decision
         /\ [item EXCEPT !.forced = Publish!Confirmed(request)].status = item.status
<1>1. Publish!Confirmed(request) \in SUBSET Publish!Labels
  BY DEF Publish!Confirmed, Publish!Items
<1> QED BY <1>1 DEF Publish!Items

LEMMA PlanIsReason == ASSUME NEW d, NEW c PROVE Publish!Plan(d, c) \in Publish!Reasons
BY DEF Publish!Plan, Publish!Reasons

LEMMA StartIsStarted ==
  ASSUME PatchesTell, Branches, Publish!PublishStart
  PROVE  /\ publishPc = "idle" /\ request \in {"publish", "force-publish"}
         /\ UNCHANGED <<publishCommits, publishLocal, publishRemote, mover, lost, crashes>>
         /\ asked' = asked \cup IF request = "force-publish" THEN {l.id : l \in item.decision.labels} ELSE {}
         /\ Started
<1> DEFINE now == [item EXCEPT !.forced = Publish!Confirmed(request)]
<1>0. item \in Publish!Items /\ item.drafted \in SUBSET Nat
  BY DEF Branches, Publish!Items
<1>1. /\ publishPc = "idle" /\ request \in {"publish", "force-publish"}
      /\ UNCHANGED <<publishCommits, publishLocal, publishRemote, mover, lost, crashes>>
      /\ asked' = asked \cup IF request = "force-publish" THEN {l.id : l \in item.decision.labels} ELSE {}
  BY DEF Publish!PublishStart, Publish!branch
<1>2. Publish!Unincorporated \in SUBSET Publish!Labels
  <2>1. item.lease \in Seq(Nat)
    BY IdsAreNumbers DEF Branches
  <2>2. \A c \in Publish!CherryPlus(publishLocal, item.lease) : c \in Nat
    BY <2>1 DEF Publish!CherryPlus, Publish!Range
  <2>3. \A c \in Nat : [id |-> c, unsure |-> FALSE] \in Publish!Labels
    BY DEF Publish!Labels
  <2> QED BY <2>2, <2>3 DEF Publish!Unincorporated
<1>3. ASSUME NEW unsure \in SUBSET item.drafted PROVE Publish!DroppedBy(unsure) \in SUBSET Publish!Labels
  <2>1. \A c \in Nat, u \in BOOLEAN : [id |-> c, unsure |-> u] \in Publish!Labels
    BY DEF Publish!Labels
  <2>2. TRUE \in BOOLEAN /\ FALSE \in BOOLEAN /\ item.drafted \subseteq Nat
    BY <1>0
  <2>3. \A c \in Nat : [id |-> c, unsure |-> TRUE] \in Publish!Labels /\ [id |-> c, unsure |-> FALSE] \in Publish!Labels
    BY <2>1, <2>2
  <2> QED BY <2>2, <2>3 DEF Publish!DroppedBy
<1>4. ASSUME Publish!Fail(now, "fetch_failed", {}) PROVE Started
  BY <1>4 DEF Started
<1>5. ASSUME NEW unsure \in SUBSET item.drafted,
             LET dropped == Publish!DroppedBy(unsure)
                 refusal == Publish!Plan(dropped, Publish!Confirmed(request))
             IN \/ /\ refusal # "none"
                   /\ Publish!Fail(now, refusal, CASE refusal = "drafted_dropped" -> dropped
                                                   [] refusal = "not_incorporated_remote" -> Publish!Unincorporated
                                                   [] OTHER -> {})
                \/ /\ refusal = "none" /\ item' = now /\ UNCHANGED <<publishSaved, request>>
                   /\ publishPc' = IF Publish!IsPrefix(publishLocal, publishRemote) THEN "closing" ELSE "pushing"
      PROVE  Started
  <2> DEFINE dropped == Publish!DroppedBy(unsure)
             refusal == Publish!Plan(dropped, Publish!Confirmed(request))
             labels == CASE refusal = "drafted_dropped" -> dropped
                         [] refusal = "not_incorporated_remote" -> Publish!Unincorporated
                         [] OTHER -> {}
  <2>1. dropped \in SUBSET Publish!Labels
    BY <1>3
  <2>2. labels \in SUBSET Publish!Labels
    BY <1>2, <2>1
  <2>3. \/ refusal # "none" /\ Publish!Fail(now, refusal, labels)
        \/ /\ refusal = "none" /\ item' = now /\ UNCHANGED <<publishSaved, request>>
           /\ publishPc' = IF Publish!IsPrefix(publishLocal, publishRemote) THEN "closing" ELSE "pushing"
    BY <1>5
  <2> HIDE DEF dropped, labels
  <2> QED BY <2>1, <2>2, <2>3 DEF Started
<1>6. \/ Publish!Fail(now, "fetch_failed", {})
      \/ \E unsure \in SUBSET item.drafted :
           LET dropped == Publish!DroppedBy(unsure)
               refusal == Publish!Plan(dropped, Publish!Confirmed(request))
           IN \/ /\ refusal # "none"
                 /\ Publish!Fail(now, refusal, CASE refusal = "drafted_dropped" -> dropped
                                                 [] refusal = "not_incorporated_remote" -> Publish!Unincorporated
                                                 [] OTHER -> {})
              \/ /\ refusal = "none" /\ item' = now /\ UNCHANGED <<publishSaved, request>>
                 /\ publishPc' = IF Publish!IsPrefix(publishLocal, publishRemote) THEN "closing" ELSE "pushing"
  BY DEF Publish!PublishStart
<1> QED BY <1>1, <1>4, <1>5, <1>6

(* A branch that gets a commit of ours, or copies.                         *)
LEMMA BranchesGrow ==
  ASSUME PatchesTell, Branches
  PROVE  /\ publishCommits' = Append(publishCommits, Publish!Fresh) =>
              Grown /\ \A s \in Seq(CommitIds) : Append(s, Publish!Next1) \in Seq(CommitIds')
         /\ UNCHANGED publishCommits => Grown
<1>1. ASSUME publishCommits' = Append(publishCommits, Publish!Fresh)
      PROVE  Grown /\ \A s \in Seq(CommitIds) : Append(s, Publish!Next1) \in Seq(CommitIds')
  <2>1. Grown /\ Publish!Next1 \in CommitIds'
    BY <1>1, FreshIsGrown
  <2>2. Seq(CommitIds) \subseteq Seq(CommitIds')
    BY <2>1, IdsStay
  <2> QED BY <2>1, <2>2
<1> QED BY <1>1, NoneIsGrown

LEMMA FrontIsOf ==
  ASSUME NEW S, NEW s \in Seq(S), Len(s) > 1
  PROVE  Publish!Front(s) \in Seq(S)
<1>1. \A i \in 1 .. Len(s) - 1 : s[i] \in S
  OBVIOUS
<1>2. 1 \in Int /\ Len(s) - 1 \in Int
  OBVIOUS
<1> QED BY <1>1, <1>2, SubSeqProperties DEF Publish!Front

LEMMA OrderedIsOf ==
  ASSUME NEW cs, NEW s \in Publish!InOrder(cs) PROVE s \in [1 .. Cardinality(cs) -> cs]
BY DEF Publish!InOrder, Publish!Cardinality, Cardinality

LEMMA BranchesStep ==
  ASSUME PatchesTell, Branches, [Publish!Next]_Publish!vars PROVE PatchesTell' /\ Branches' /\ Grown
<1> USE DEF Publish!branch, Publish!ghosts, Publish!counts
<1>0. /\ publishLocal \in Seq(CommitIds) /\ publishRemote \in Seq(CommitIds)
      /\ item \in Publish!Items /\ publishSaved \in Publish!Items
      /\ item.lease \in Seq(CommitIds) /\ publishSaved.lease \in Seq(CommitIds)
      /\ Seq(CommitIds) \subseteq Seq(Nat)
  BY IdsAreNumbers DEF Branches
<1>d. Publish!Open("publish", "none", {}) \in [kind : {"none", "publish", "failed"}, reason : Publish!Reasons,
                                              labels : SUBSET Publish!Labels]
      /\ Publish!Open("none", "none", {}) \in [kind : {"none", "publish", "failed"}, reason : Publish!Reasons,
                                              labels : SUBSET Publish!Labels]
  BY DEF Publish!Open, Publish!Reasons
<1>a. ASSUME Grown, item' \in Publish!Items, publishSaved' \in Publish!Items,
             publishLocal' \in Seq(CommitIds) \cup Seq(CommitIds'), publishRemote' \in Seq(CommitIds) \cup Seq(CommitIds'),
             item'.lease \in Seq(CommitIds), publishSaved'.lease \in Seq(CommitIds)
      PROVE  PatchesTell' /\ Branches' /\ Grown
  BY <1>a, BranchesStay
<1>1. CASE UNCHANGED Publish!vars
  BY <1>0, <1>1, <1>a, NoneIsGrown DEF Publish!vars
<1>2. CASE Publish!RefreshRemote
  <2>1. item' = [item EXCEPT !.lease = publishRemote] /\ publishSaved' = item' /\ UNCHANGED Publish!branch
    BY <1>2 DEF Publish!RefreshRemote, Publish!KeepItem
  <2>2. item' \in Publish!Items /\ item'.lease = publishRemote
    BY <1>0, <2>1 DEF Publish!Items
  <2> QED BY <1>0, <1>a, <2>1, <2>2, NoneIsGrown
<1>3. CASE Publish!DraftCommit
  <2>1. /\ publishCommits' = Append(publishCommits, Publish!Fresh) /\ publishLocal' = Append(publishLocal, Publish!Next1)
        /\ item' = [item EXCEPT !.drafted = {Publish!Next1}] /\ publishSaved' = item' /\ UNCHANGED publishRemote
    BY <1>3 DEF Publish!DraftCommit, Publish!KeepItem
  <2>2. Grown /\ publishLocal' \in Seq(CommitIds') /\ Publish!Next1 \in Nat
    BY <1>0, <2>1, BranchesGrow, FreshIsGrown
  <2>3. item' \in Publish!Items /\ item'.lease = item.lease
    BY <1>0, <2>1, <2>2 DEF Publish!Items
  <2> QED BY <1>0, <1>a, <2>1, <2>2, <2>3
<1>4. CASE Publish!DraftRebase
  <2>1. PICK conflicts : publishCommits' = publishCommits \o Publish!Copies(publishLocal, conflicts)
    BY <1>4 DEF Publish!DraftRebase
  <2>2. /\ publishLocal' = Publish!CopyIds(publishLocal) /\ item' = [item EXCEPT !.start = publishLocal]
        /\ publishSaved' = item' /\ UNCHANGED publishRemote
    BY <1>4 DEF Publish!DraftRebase, Publish!KeepItem
  <2>3. Grown /\ publishLocal' \in Seq(CommitIds')
    BY <1>0, <2>1, <2>2, CopiesAreGrown
  <2>4. item' \in Publish!Items /\ item'.lease = item.lease
    <3>1. publishLocal \in Seq(Nat)
      BY <1>0
    <3> QED BY <1>0, <2>2, <3>1 DEF Publish!Items
  <2> QED BY <1>0, <1>a, <2>2, <2>3, <2>4
<1>5. CASE Publish!Offer
  <2>1. /\ item' = [item EXCEPT !.status = "ready", !.decision = Publish!Open("publish", "none", {})]
        /\ publishSaved' = item' /\ UNCHANGED Publish!branch
    BY <1>5 DEF Publish!Offer, Publish!KeepItem
  <2>2. item' \in Publish!Items /\ item'.lease = item.lease
    BY <1>0, <1>d, <2>1 DEF Publish!Items
  <2> QED BY <1>0, <1>a, <2>1, <2>2, NoneIsGrown
<1>6. CASE Publish!PublishStart
  <2>1. Started /\ UNCHANGED <<publishCommits, publishLocal, publishRemote>>
    BY <1>6, StartIsStarted
  <2> DEFINE now == [item EXCEPT !.forced = Publish!Confirmed(request)]
  <2>2. now \in Publish!Items /\ now.lease = item.lease
    BY <1>0, ForcedItem
  <2>3. "fetch_failed" \in Publish!Reasons /\ {} \in SUBSET Publish!Labels
    BY DEF Publish!Reasons
  <2> HIDE DEF now
  <2>4. /\ item' \in Publish!Items /\ item'.lease = item.lease
        /\ publishSaved' \in {publishSaved, item'}
    <3>1. CASE \E r \in Publish!Reasons, labels \in SUBSET Publish!Labels : Publish!Fail(now, r, labels)
      BY <2>2, <3>1, FailedItem
    <3>2. CASE item' = now /\ UNCHANGED publishSaved
      BY <2>2, <3>2
    <3> QED BY <2>1, <2>3, <3>1, <3>2, PlanIsReason DEF Started, now
  <2> QED BY <1>0, <1>a, <2>1, <2>4, NoneIsGrown
<1>7. CASE Publish!PushLands
  <2>1. UNCHANGED <<item, publishSaved>> /\ publishRemote' = publishLocal'
        /\ \/ /\ publishCommits' = Append(publishCommits, Publish!Fresh)
              /\ publishLocal' = Append(publishLocal, Publish!Next1)
           \/ UNCHANGED <<publishCommits, publishLocal>>
    BY <1>7 DEF Publish!PushLands
  <2>2. Grown /\ publishLocal' \in Seq(CommitIds) \cup Seq(CommitIds')
    BY <1>0, <2>1, BranchesGrow
  <2> QED BY <1>0, <1>a, <2>1, <2>2
<1>8. CASE Publish!PushFails
  <2>1. Publish!Fail(item, "push_failed", {}) /\ UNCHANGED Publish!branch
    BY <1>8 DEF Publish!PushFails
  <2>2. "push_failed" \in Publish!Reasons /\ {} \in SUBSET Publish!Labels
    BY DEF Publish!Reasons
  <2>3. item' \in Publish!Items /\ publishSaved' = item' /\ item'.lease = item.lease
    BY <1>0, <2>1, <2>2, FailedItem
  <2> QED BY <1>0, <1>a, <2>1, <2>3, NoneIsGrown
<1>9. CASE Publish!LeaseMoves
  <2>1. item' = [item EXCEPT !.lease = publishLocal, !.forced = {}] /\ UNCHANGED <<Publish!branch, publishSaved>>
    BY <1>9 DEF Publish!LeaseMoves
  <2>2. item' \in Publish!Items /\ item'.lease = publishLocal
    <3>1. publishLocal \in Seq(Nat)
      BY <1>0
    <3> QED BY <1>0, <2>1, <3>1 DEF Publish!Items
  <2> QED BY <1>0, <1>a, <2>1, <2>2, NoneIsGrown
<1>10. CASE Publish!Finish
  <2>1. UNCHANGED <<item, publishSaved>>
        /\ \/ UNCHANGED Publish!branch
           \/ /\ publishCommits' = Append(publishCommits, Publish!Fresh)
              /\ publishLocal' = Append(publishLocal, Publish!Next1) /\ publishRemote' = publishLocal'
    BY <1>10 DEF Publish!Finish
  <2>2. CASE UNCHANGED Publish!branch
    BY <1>0, <1>a, <2>1, <2>2, NoneIsGrown
  <2>3. CASE /\ publishCommits' = Append(publishCommits, Publish!Fresh)
             /\ publishLocal' = Append(publishLocal, Publish!Next1) /\ publishRemote' = publishLocal'
    <3>1. Grown /\ publishLocal' \in Seq(CommitIds')
      BY <1>0, <2>3, BranchesGrow
    <3> QED BY <1>0, <1>a, <2>1, <2>3, <3>1
  <2> QED BY <2>1, <2>2, <2>3
<1>11. CASE Publish!Conclude
  <2> DEFINE now == [item EXCEPT !.lease = Publish!Adopted]
  <2>0. Publish!Adopted \in Seq(CommitIds)
    BY <1>0 DEF Publish!Adopted
  <2>1. now \in Publish!Items /\ now.lease = Publish!Adopted
    <3>1. Publish!Adopted \in Seq(Nat)
      BY <1>0, <2>0
    <3> QED BY <1>0, <3>1 DEF Publish!Items
  <2> HIDE DEF now
  <2>2. CASE Publish!Fail(now, "replies_failed", {})
    <3>1. "replies_failed" \in Publish!Reasons /\ {} \in SUBSET Publish!Labels
      BY DEF Publish!Reasons
    <3>2. item' \in Publish!Items /\ publishSaved' = item' /\ item'.lease = Publish!Adopted
      BY <2>1, <2>2, <3>1, FailedItem
    <3>3. UNCHANGED Publish!branch
      BY <1>11 DEF Publish!Conclude
    <3> QED BY <1>0, <1>a, <2>0, <3>2, <3>3, NoneIsGrown
  <2>3. CASE Publish!KeepItem([now EXCEPT !.status = "done", !.forced = {},
                                          !.decision = Publish!Open("none", "none", {})])
    <3>1. item' \in Publish!Items /\ publishSaved' = item' /\ item'.lease = Publish!Adopted
      BY <1>d, <2>1, <2>3 DEF Publish!Items, Publish!KeepItem
    <3>3. UNCHANGED Publish!branch
      BY <1>11 DEF Publish!Conclude
    <3> QED BY <1>0, <1>a, <2>0, <3>1, <3>3, NoneIsGrown
  <2> QED BY <1>11, <2>2, <2>3 DEF Publish!Conclude, now
<1>12. CASE Publish!RetryPublish
  <2>1. /\ item' = [item EXCEPT !.lease = Publish!AdoptOnRetry, !.status = "queued",
                                !.decision = Publish!Open("none", "none", {})]
        /\ publishSaved' = item' /\ UNCHANGED <<publishCommits, publishRemote>>
        /\ publishLocal' \in {publishRemote, publishLocal}
    BY <1>12 DEF Publish!RetryPublish, Publish!KeepItem
  <2>2. Publish!AdoptOnRetry \in Seq(CommitIds)
    BY <1>0 DEF Publish!AdoptOnRetry
  <2>3. item' \in Publish!Items /\ item'.lease = Publish!AdoptOnRetry
    <3>1. Publish!AdoptOnRetry \in Seq(Nat)
      BY <1>0, <2>2
    <3> QED BY <1>0, <1>d, <2>1, <3>1 DEF Publish!Items
  <2> QED BY <1>0, <1>a, <2>1, <2>2, <2>3, NoneIsGrown
<1>13. CASE Publish!GiveUp
  <2>1. /\ \E s \in {"done", "dropped"} : item' = [item EXCEPT !.status = s, !.decision = Publish!Open("none", "none", {})]
        /\ publishSaved' = item' /\ UNCHANGED Publish!branch
    BY <1>13 DEF Publish!GiveUp, Publish!KeepItem
  <2>2. item' \in Publish!Items /\ item'.lease = item.lease
    BY <1>0, <1>d, <2>1 DEF Publish!Items
  <2> QED BY <1>0, <1>a, <2>1, <2>2, NoneIsGrown
<1>14. ASSUME NEW a \in Publish!Actions, Publish!Answer(a) PROVE PatchesTell' /\ Branches' /\ Grown
  BY <1>0, <1>14, <1>a, NoneIsGrown DEF Publish!Answer
<1>15. CASE Publish!Crash
  BY <1>0, <1>15, <1>a, NoneIsGrown DEF Publish!Crash
<1>16. CASE Publish!ColleaguePushes
  <2>1. UNCHANGED <<publishLocal, item, publishSaved>>
        /\ \/ /\ publishCommits' = Append(publishCommits, Publish!Fresh)
              /\ publishRemote' = Append(publishRemote, Publish!Next1)
           \/ Len(publishRemote) > 1 /\ publishRemote' = Publish!Front(publishRemote) /\ UNCHANGED publishCommits
    BY <1>16 DEF Publish!ColleaguePushes
  <2>2. Grown /\ publishRemote' \in Seq(CommitIds) \cup Seq(CommitIds')
    BY <1>0, <2>1, BranchesGrow, FrontIsOf
  <2> QED BY <1>0, <1>a, <2>1, <2>2
<1>17. CASE Publish!OperatorActs
  <2>0. UNCHANGED <<item, publishSaved>>
    BY <1>17 DEF Publish!OperatorActs
  <2>1. CASE /\ publishCommits' = Append(publishCommits, Publish!Fresh)
             /\ publishLocal' = Append(publishLocal, Publish!Next1) /\ UNCHANGED publishRemote
    <3>1. Grown /\ publishLocal' \in Seq(CommitIds')
      BY <1>0, <2>1, BranchesGrow
    <3> QED BY <1>0, <1>a, <2>0, <2>1, <3>1
  <2>2. CASE Len(publishLocal) > 1 /\ publishLocal' = Publish!Front(publishLocal) /\ UNCHANGED <<publishCommits, publishRemote>>
    <3>1. publishLocal' \in Seq(CommitIds)
      BY <1>0, <2>2, FrontIsOf
    <3> QED BY <1>0, <1>a, <2>0, <2>2, <3>1, NoneIsGrown
  <2>3. ASSUME NEW ours \in Publish!InOrder(Publish!CherryPlus(publishRemote, publishLocal)),
               publishCommits' = publishCommits \o Publish!Copies(ours, {}),
               publishLocal' = publishRemote \o Publish!CopyIds(ours), UNCHANGED publishRemote
        PROVE  PatchesTell' /\ Branches' /\ Grown
    <3>1. Publish!CherryPlus(publishRemote, publishLocal) \subseteq CommitIds
      BY <1>0 DEF Publish!CherryPlus, Publish!Range
    <3>2. IsFiniteSet(Publish!CherryPlus(publishRemote, publishLocal))
      <4>1. CommitIds = 1 .. Len(publishCommits) /\ Len(publishCommits) \in Nat
        BY DEF CommitIds, PatchesTell
      <4>2. IsFiniteSet(CommitIds)
        BY <4>1, FS_Interval
      <4> QED BY <3>1, <4>2, FS_Subset
    <3>3. ours \in Seq(CommitIds)
      <4>1. Cardinality(Publish!CherryPlus(publishRemote, publishLocal)) \in Nat
        BY <3>2, FS_CardinalityType
      <4> DEFINE cs == Publish!CherryPlus(publishRemote, publishLocal)
      <4>2. ours \in [1 .. Cardinality(cs) -> cs]
        BY OrderedIsOf
      <4> HIDE DEF cs
      <4>3. ours \in Seq(cs)
        BY <4>1, <4>2 DEF cs
      <4> QED BY <3>1, <4>3, SeqsOfMore DEF cs
    <3>4. Grown /\ Publish!CopyIds(ours) \in Seq(CommitIds')
      BY <2>3, <3>3, CopiesAreGrown
    <3>5. publishRemote \in Seq(CommitIds')
      BY <1>0, <3>4, IdsStay
    <3>6. publishLocal' \in Seq(CommitIds')
      BY <2>3, <3>4, <3>5, ConcatProperties
    <3> QED BY <1>0, <1>a, <2>0, <2>3, <3>4, <3>6
  <2>4. CASE publishRemote' = publishLocal /\ UNCHANGED <<publishCommits, publishLocal>>
    BY <1>0, <1>a, <2>0, <2>4, NoneIsGrown
  <2> QED BY <1>17, <2>1, <2>2, <2>3, <2>4 DEF Publish!OperatorActs
<1> QED BY <1>1, <1>2, <1>3, <1>4, <1>5, <1>6, <1>7, <1>8, <1>9, <1>10, <1>11, <1>12, <1>13, <1>14, <1>15, <1>16,
           <1>17 DEF Publish!Next, Publish!Driver

Named(labels) == {l.id : l \in labels}

(* In the planned push, or asked for.                                      *)
Accounted(c) ==
  \/ c \in asked
  \/ \E i \in 1 .. Len(publishLocal) : publishCommits[publishLocal[i]].origin = publishCommits[c].origin

(* What is confirmed was asked for, and a push that is planned takes       *)
(* nothing off the lease that it does not bring or that was not asked for. *)
LossInv ==
  /\ Named(item.forced) \cup Named(publishSaved.forced) \subseteq asked
  /\ publishPc = "pushing" => \A i \in 1 .. Len(item.lease) : Accounted(item.lease[i])
  /\ lost = {}

LEMMA LossInit == Publish!Init => LossInv
BY DEF Publish!Init, LossInv, Named

(* The steps that neither plan a push nor forget what was asked for.       *)
LEMMA LossWaits ==
  ASSUME LossInv, UNCHANGED <<asked, lost>>, item'.forced \in {item.forced, publishSaved.forced, {}},
         publishSaved'.forced \in {item.forced, publishSaved.forced, {}}, publishPc' # "pushing"
  PROVE  LossInv'
BY DEF LossInv, Named

(* A plan that is not refused covers what the remote has.                  *)
LEMMA PlanCovers ==
  ASSUME PatchesTell, Branches, NEW d, NEW confirmed, Publish!Plan(d, confirmed) = "none",
         ~Publish!IsPrefix(publishLocal, publishRemote), NEW i \in 1 .. Len(item.lease)
  PROVE  \/ item.lease[i] \in Named(confirmed)
         \/ \E j \in 1 .. Len(publishLocal) : publishCommits[publishLocal[j]].origin = publishCommits[item.lease[i]].origin
<1> DEFINE c == item.lease[i]
<1>0. /\ publishRemote = item.lease /\ (Publish!Diverged => Publish!Unincorporated \subseteq confirmed)
      /\ publishLocal \in Seq(CommitIds) /\ item.lease \in Seq(CommitIds) /\ c \in CommitIds
  BY DEF Publish!Plan, Branches
<1>1. CASE Publish!IsPrefix(publishRemote, publishLocal)
  <2>1. Len(item.lease) <= Len(publishLocal) /\ item.lease = SubSeq(publishLocal, 1, Len(item.lease))
    BY <1>0, <1>1 DEF Publish!IsPrefix
  <2>2. SubSeq(publishLocal, 1, Len(item.lease))[i] = publishLocal[i] /\ i \in 1 .. Len(publishLocal)
    BY <1>0, <2>1
  <2> QED BY <2>1, <2>2
<1>2. CASE ~Publish!IsPrefix(publishRemote, publishLocal)
  <2>1. Publish!Unincorporated \subseteq confirmed
    BY <1>0, <1>2 DEF Publish!Diverged
  <2>2. CASE c \in Publish!Range(publishLocal)
    <3>1. PICK j \in DOMAIN publishLocal : publishLocal[j] = c
      BY <2>2 DEF Publish!Range
    <3> QED BY <1>0, <3>1
  <2>3. CASE \E e \in Publish!Range(publishLocal) : publishCommits[e].patch = publishCommits[c].patch
    <3>1. PICK j \in DOMAIN publishLocal : publishCommits[publishLocal[j]].patch = publishCommits[c].patch
      BY <2>3 DEF Publish!Range
    <3>2. publishLocal[j] \in CommitIds /\ j \in 1 .. Len(publishLocal)
      BY <1>0
    <3>3. publishCommits[publishLocal[j]].origin = publishCommits[c].origin
      BY <1>0, <3>1, <3>2 DEF PatchesTell
    <3> QED BY <3>2, <3>3
  <2>4. CASE c \in Publish!CherryPlus(publishLocal, item.lease)
    <3>1. [id |-> c, unsure |-> FALSE] \in confirmed
      BY <2>1, <2>4 DEF Publish!Unincorporated
    <3> QED BY <3>1 DEF Named
  <2>5. c \in Publish!Range(item.lease)
    BY <1>0 DEF Publish!Range
  <2> QED BY <2>2, <2>3, <2>4, <2>5 DEF Publish!CherryPlus
<1> QED BY <1>1, <1>2

LEMMA LossStep ==
  ASSUME PatchesTell, Branches, Grown, LossInv, ~Meddles, [Publish!Next]_Publish!vars PROVE LossInv'
<1> USE DEF Publish!branch, Publish!ghosts, Publish!counts
<1>0. /\ publishLocal \in Seq(CommitIds) /\ publishRemote \in Seq(CommitIds)
      /\ item \in Publish!Items /\ publishSaved \in Publish!Items
      /\ item.lease \in Seq(CommitIds) /\ item.decision.labels \in SUBSET Publish!Labels
  BY DEF Branches, Publish!Items
<1>e. "fetch_failed" \in Publish!Reasons /\ "push_failed" \in Publish!Reasons /\ "replies_failed" \in Publish!Reasons
      /\ {} \in SUBSET Publish!Labels
  BY DEF Publish!Reasons
<1>1. CASE UNCHANGED Publish!vars
  BY <1>1 DEF Publish!vars, LossInv, Named, Accounted
<1>2. CASE Publish!RefreshRemote \/ Publish!DraftCommit \/ Publish!DraftRebase \/ Publish!Offer
           \/ Publish!RetryPublish \/ Publish!GiveUp
  <2>1. UNCHANGED <<asked, lost, publishPc>> /\ publishPc = "idle" /\ publishSaved' = item'
    BY <1>2 DEF Publish!RefreshRemote, Publish!DraftCommit, Publish!DraftRebase, Publish!Offer,
       Publish!RetryPublish, Publish!GiveUp, Publish!KeepItem
  <2>2. item'.forced = item.forced
    BY <1>0, <1>2 DEF Publish!RefreshRemote, Publish!DraftCommit, Publish!DraftRebase, Publish!Offer,
       Publish!RetryPublish, Publish!GiveUp, Publish!KeepItem, Publish!Items
  <2> QED BY <2>1, <2>2, LossWaits
<1>3. CASE Publish!PublishStart
  <2> DEFINE now == [item EXCEPT !.forced = Publish!Confirmed(request)]
  <2>1. /\ publishPc = "idle" /\ UNCHANGED <<publishCommits, publishLocal, publishRemote, lost>> /\ Started
        /\ asked' = asked \cup IF request = "force-publish" THEN Named(item.decision.labels) ELSE {}
    BY <1>3, StartIsStarted DEF Named
  <2>2. Named(Publish!Confirmed(request)) \subseteq asked' /\ asked \subseteq asked'
    BY <2>1 DEF Publish!Confirmed, Named, LossInv
  <2>3. now \in Publish!Items /\ now.forced = Publish!Confirmed(request) /\ now.lease = item.lease
    BY <1>0, ForcedItem
  <2> HIDE DEF now
  <2>4. CASE \E r \in Publish!Reasons, labels \in SUBSET Publish!Labels : Publish!Fail(now, r, labels)
    <3>1. item'.forced = now.forced /\ publishSaved' = item' /\ publishPc' = "idle"
      BY <2>3, <2>4, FailedItem
    <3> QED BY <2>1, <2>2, <2>3, <3>1 DEF LossInv
  <2>5. ASSUME NEW d, Publish!Plan(d, Publish!Confirmed(request)) = "none", item' = now, UNCHANGED publishSaved,
               publishPc' = IF Publish!IsPrefix(publishLocal, publishRemote) THEN "closing" ELSE "pushing"
        PROVE  LossInv'
    <3>1. Named(item'.forced) \cup Named(publishSaved'.forced) \subseteq asked'
      BY <2>2, <2>3, <2>5 DEF LossInv
    <3>2. ASSUME publishPc' = "pushing", NEW i \in 1 .. Len(item'.lease) PROVE Accounted(item.lease[i])'
      <4>1. ~Publish!IsPrefix(publishLocal, publishRemote) /\ i \in 1 .. Len(item.lease) /\ item'.lease = item.lease
        BY <2>3, <2>5, <3>2
      <4>2. \/ item.lease[i] \in Named(Publish!Confirmed(request))
            \/ \E j \in 1 .. Len(publishLocal) :
                 publishCommits[publishLocal[j]].origin = publishCommits[item.lease[i]].origin
        BY <2>5, <4>1, PlanCovers
      <4> QED BY <2>1, <2>2, <4>1, <4>2 DEF Accounted
    <3>3. lost' = {}
      BY <2>1 DEF LossInv
    <3> QED BY <3>1, <3>2, <3>3 DEF LossInv
  <2> QED BY <1>e, <2>1, <2>4, <2>5, PlanIsReason DEF Started, now
<1>4. CASE Publish!PushLands
  <2>1. /\ publishPc = "pushing" /\ publishRemote = item.lease /\ publishPc' = "landed" /\ UNCHANGED <<item, publishSaved, asked>>
        /\ lost' = lost \cup (Publish!Taken(publishLocal) \ asked)
    BY <1>4 DEF Publish!PushLands, Publish!LeaseHolds
  <2>2. Publish!Taken(publishLocal) \subseteq asked
    <3> SUFFICES ASSUME NEW c \in Publish!Taken(publishLocal) PROVE c \in asked
      OBVIOUS
    <3>1. c \in Publish!Range(item.lease)
          /\ \A e \in Publish!Range(publishLocal) : publishCommits[e].origin # publishCommits[c].origin
      BY <2>1 DEF Publish!Taken, Publish!Work
    <3>2. PICK i \in DOMAIN item.lease : item.lease[i] = c
      BY <3>1 DEF Publish!Range
    <3>3. i \in 1 .. Len(item.lease)
      BY <1>0
    <3>4. \A j \in 1 .. Len(publishLocal) : publishLocal[j] \in Publish!Range(publishLocal)
      BY <1>0 DEF Publish!Range
    <3> QED BY <2>1, <3>1, <3>2, <3>3, <3>4 DEF LossInv, Accounted
  <2>3. lost' = {}
    BY <2>1, <2>2 DEF LossInv
  <2> QED BY <2>1, <2>3 DEF LossInv
<1>5. CASE Publish!PushFails
  <2>1. Publish!Fail(item, "push_failed", {}) /\ UNCHANGED <<asked, lost>>
    BY <1>5 DEF Publish!PushFails
  <2>2. publishSaved' = item' /\ item'.forced = item.forced /\ publishPc' = "idle"
    BY <1>0, <1>e, <2>1, FailedItem
  <2> QED BY <2>1, <2>2, LossWaits
<1>6. CASE Publish!LeaseMoves
  <2>1. item' = [item EXCEPT !.lease = publishLocal, !.forced = {}] /\ publishPc' = "closing"
        /\ UNCHANGED <<publishSaved, asked, lost>>
    BY <1>6 DEF Publish!LeaseMoves
  <2>2. item'.forced = {}
    BY <1>0, <2>1 DEF Publish!Items
  <2> QED BY <2>1, <2>2, LossWaits
<1>7. CASE Publish!Finish
  BY <1>7, LossWaits DEF Publish!Finish
<1>8. CASE Publish!Conclude
  <2> DEFINE now == [item EXCEPT !.lease = Publish!Adopted]
  <2>0. now \in Publish!Items /\ now.forced = item.forced
    <3>1. Publish!Adopted \in Seq(Nat)
      BY <1>0, IdsAreNumbers DEF Publish!Adopted
    <3> QED BY <1>0, <3>1 DEF Publish!Items
  <2> HIDE DEF now
  <2>1. CASE Publish!Fail(now, "replies_failed", {}) /\ asked' = IF item.forced = {} THEN {} ELSE asked
    <3>1. publishSaved' = item' /\ item'.forced = item.forced /\ publishPc' = "idle"
      BY <1>e, <2>0, <2>1, FailedItem
    <3>2. UNCHANGED lost
      BY <1>8 DEF Publish!Conclude
    <3> QED BY <2>1, <3>1, <3>2 DEF LossInv, Named
  <2>2. CASE publishPc' = "idle" /\ asked' = {} /\
             Publish!KeepItem([now EXCEPT !.status = "done", !.forced = {}, !.decision = Publish!Open("none", "none", {})])
    <3>1. publishSaved' = item' /\ item'.forced = {}
      BY <2>0, <2>2 DEF Publish!KeepItem, Publish!Items
    <3>2. UNCHANGED lost
      BY <1>8 DEF Publish!Conclude
    <3> QED BY <2>2, <3>1, <3>2 DEF LossInv, Named
  <2> QED BY <1>8, <2>1, <2>2 DEF Publish!Conclude, now
<1>9. ASSUME NEW a \in Publish!Actions, Publish!Answer(a) PROVE LossInv'
  BY <1>9, LossWaits DEF Publish!Answer
<1>10. CASE Publish!Crash
  BY <1>10, LossWaits DEF Publish!Crash
<1>11. CASE Publish!ColleaguePushes
  <2>1. UNCHANGED <<publishLocal, item, publishSaved, asked, lost, publishPc>>
    BY <1>11 DEF Publish!ColleaguePushes
  <2>2. ASSUME NEW i \in 1 .. Len(item.lease), Accounted(item.lease[i]) PROVE Accounted(item.lease[i])'
    <3>1. item.lease[i] \in CommitIds /\ \A j \in 1 .. Len(publishLocal) : publishLocal[j] \in CommitIds
      BY <1>0
    <3>2. \A c \in CommitIds : publishCommits'[c] = publishCommits[c]
      BY DEF Grown
    <3> QED BY <2>1, <2>2, <3>1, <3>2 DEF Accounted
  <2> QED BY <2>1, <2>2 DEF LossInv
<1>12. CASE Publish!OperatorActs
  BY <1>12, LossWaits DEF Publish!OperatorActs
<1> QED BY <1>1, <1>2, <1>3, <1>4, <1>5, <1>6, <1>7, <1>8, <1>9, <1>10, <1>11, <1>12 DEF Publish!Next, Publish!Driver

(* publish.py: a forced push of the batch takes no work off the remote     *)
(* that it does not bring or that nobody confirmed, however colleagues     *)
(* push and wherever the driver dies, provided the operator leaves the     *)
(* tree alone while a publish runs.                                        *)
THEOREM NothingIsEverLost == ASSUME ~Meddles PROVE Spec => []NothingLost
<1> DEFINE Inv == PatchesTell /\ Branches /\ LossInv
<1>1. Init => Inv
  BY EveryPartStarts, PublishInit, LossInit
<1>2. Inv /\ [Next]_vars => Inv'
  BY OnePartMoves, BranchesStep, LossStep
<1>3. Inv => NothingLost
  BY DEF LossInv, NothingLost, Publish!NothingLost
<1> HIDE DEF Inv
<1> QED BY <1>1, <1>2, <1>3, PTL DEF Spec

(* A request says what the decision on disk is about, so a publish that    *)
(* runs was refused by no moved remote; and the lease is at the remote the *)
(* batch moved, or the next step puts it there.                            *)
OwnInv ==
  /\ item.decision = publishSaved.decision /\ item.status = publishSaved.status
  /\ item.decision.kind # "failed" => item.decision.reason = "none"
  /\ item.status \in {"drafting", "queued"} => item.decision.kind = "none" /\ request = "none"
  /\ request = "publish" => item.decision.reason = "none"
  /\ request = "force-publish" => item.decision.reason \in Publish!Forceable
  /\ publishPc # "idle" => request \in {"publish", "force-publish"}
  /\ publishPc \in {"idle", "pushing", "landed", "closing", "finished"}
  /\ crashes \in Nat
  /\ crashes = 0 /\ mover = "batch" =>
       /\ publishPc \in {"idle", "pushing", "closing"} => publishRemote = item.lease
       /\ publishPc = "landed" => publishRemote = publishLocal
       /\ publishPc = "finished" => publishRemote \in {item.lease, publishLocal}
  /\ item.decision.reason = "remote_moved" /\ mover = "batch" => crashes > 0

LEMMA OwnInit == Publish!Init => OwnInv
<1> SUFFICES ASSUME Publish!Init PROVE OwnInv
  OBVIOUS
<1>1. item.decision.kind = "none" /\ item.decision.reason = "none" /\ publishSaved = item
  BY DEF Publish!Init, Publish!Open
<1> QED BY <1>1 DEF Publish!Init, OwnInv

(* Between two publishes: the item may get another lease.                  *)
LEMMA OwnWaits ==
  ASSUME OwnInv, publishPc = "idle", publishPc' = "idle", UNCHANGED <<publishRemote, crashes>>,
         mover' \in {mover, "operator"}, publishSaved'.decision = item'.decision, publishSaved'.status = item'.status,
         item'.decision.kind # "failed", item'.decision.reason = "none", item'.lease \in {item.lease, publishRemote},
         item'.status \in {"drafting", "queued"} => item'.decision.kind = "none" /\ request' = "none",
         request' \in {request, "none"}, request' # "force-publish"
  PROVE  OwnInv'
BY DEF OwnInv

LEMMA OwnStep ==
  ASSUME PatchesTell, Branches, OwnInv, ~Meddles, [Publish!Next]_Publish!vars PROVE OwnInv'
<1> USE DEF Publish!branch, Publish!ghosts, Publish!counts
<1>0. /\ item \in Publish!Items /\ publishSaved \in Publish!Items
      /\ publishLocal \in Seq(Nat) /\ publishRemote \in Seq(Nat) /\ item.lease \in Seq(Nat)
  BY IdsAreNumbers DEF Branches
<1>e. /\ "fetch_failed" \in Publish!Reasons /\ "push_failed" \in Publish!Reasons /\ "replies_failed" \in Publish!Reasons
      /\ {} \in SUBSET Publish!Labels /\ "remote_moved" \notin Publish!Forceable /\ "none" \notin Publish!Forceable
  BY DEF Publish!Reasons, Publish!Forceable
<1>f. item.status \in {"drafting", "queued"} => item.decision.reason = "none" /\ request = "none"
      /\ item.decision.kind = "none"
  BY DEF OwnInv
<1>1. CASE UNCHANGED Publish!vars
  BY <1>1 DEF Publish!vars, OwnInv
<1>2. CASE Publish!RefreshRemote \/ Publish!DraftCommit \/ Publish!DraftRebase
  <2>1. /\ UNCHANGED <<publishPc, publishRemote, crashes, mover, request>> /\ publishPc = "idle" /\ publishSaved' = item'
        /\ item.status = "drafting"
    BY <1>2 DEF Publish!RefreshRemote, Publish!DraftCommit, Publish!DraftRebase, Publish!KeepItem
  <2>2. item'.decision = item.decision /\ item'.status = item.status /\ item'.lease \in {item.lease, publishRemote}
    BY <1>0, <1>2 DEF Publish!RefreshRemote, Publish!DraftCommit, Publish!DraftRebase, Publish!KeepItem, Publish!Items
  <2> QED BY <1>f, <2>1, <2>2, OwnWaits
<1>3. CASE Publish!Offer
  <2>1. /\ UNCHANGED <<publishPc, publishRemote, crashes, mover, request>> /\ publishPc = "idle" /\ publishSaved' = item'
        /\ item.status \in {"drafting", "queued"}
        /\ item' = [item EXCEPT !.status = "ready", !.decision = Publish!Open("publish", "none", {})]
    BY <1>3 DEF Publish!Offer, Publish!KeepItem
  <2>2. /\ item'.decision = Publish!Open("publish", "none", {}) /\ item'.status = "ready" /\ item'.lease = item.lease
    BY <1>0, <2>1 DEF Publish!Items
  <2>3. item'.decision.kind = "publish" /\ item'.decision.reason = "none"
    BY <2>2 DEF Publish!Open
  <2> QED BY <1>f, <2>1, <2>2, <2>3, OwnWaits
<1>4. CASE Publish!RetryPublish
  <2>1. /\ UNCHANGED <<publishPc, publishRemote, crashes, mover>> /\ publishPc = "idle" /\ publishSaved' = item'
        /\ request' = "none"
        /\ item' = [item EXCEPT !.lease = Publish!AdoptOnRetry, !.status = "queued",
                                !.decision = Publish!Open("none", "none", {})]
    BY <1>4 DEF Publish!RetryPublish, Publish!KeepItem
  <2>2. /\ item'.decision = Publish!Open("none", "none", {}) /\ item'.status = "queued" /\ item'.lease = Publish!AdoptOnRetry
    BY <1>0, <2>1 DEF Publish!Items
  <2>3. item'.decision.kind = "none" /\ item'.decision.reason = "none"
    BY <2>2 DEF Publish!Open
  <2>4. Publish!AdoptOnRetry \in {item.lease, publishRemote}
    BY DEF Publish!AdoptOnRetry
  <2> QED BY <2>1, <2>2, <2>3, <2>4, OwnWaits
<1>5. CASE Publish!GiveUp
  <2>1. /\ UNCHANGED <<publishPc, publishRemote, crashes, mover>> /\ publishPc = "idle" /\ publishSaved' = item'
        /\ request' = "none"
        /\ \E s \in {"done", "dropped"} : item' = [item EXCEPT !.status = s, !.decision = Publish!Open("none", "none", {})]
    BY <1>5 DEF Publish!GiveUp, Publish!KeepItem
  <2>2. /\ item'.decision = Publish!Open("none", "none", {}) /\ item'.status \in {"done", "dropped"}
        /\ item'.lease = item.lease
    BY <1>0, <2>1 DEF Publish!Items
  <2>3. item'.decision.kind = "none" /\ item'.decision.reason = "none"
    BY <2>2 DEF Publish!Open
  <2> QED BY <2>1, <2>2, <2>3, OwnWaits
<1>6. CASE Publish!PublishStart
  <2> DEFINE now == [item EXCEPT !.forced = Publish!Confirmed(request)]
  <2>1. /\ publishPc = "idle" /\ UNCHANGED <<publishLocal, publishRemote, mover, crashes>> /\ Started
        /\ request \in {"publish", "force-publish"}
    BY <1>6, StartIsStarted
  <2>2. now \in Publish!Items /\ now.lease = item.lease /\ now.decision = item.decision /\ now.status = item.status
    BY <1>0, ForcedItem
  <2> HIDE DEF now
  <2>3. ASSUME NEW r \in Publish!Reasons, NEW labels \in SUBSET Publish!Labels, Publish!Fail(now, r, labels),
               r = "remote_moved" => publishRemote # item.lease
        PROVE  OwnInv'
    <3>1. /\ publishSaved' = item' /\ item'.lease = item.lease /\ item'.status = "awaiting"
          /\ item'.decision.kind = "failed" /\ item'.decision.reason = r /\ request' = "none" /\ publishPc' = "idle"
      BY <2>2, <2>3, FailedItem
    <3> QED BY <2>1, <2>3, <3>1 DEF OwnInv
  <2>4. ASSUME NEW d, Publish!Plan(d, Publish!Confirmed(request)) = "none", item' = now, UNCHANGED <<publishSaved, request>>,
               publishPc' \in {"closing", "pushing"}
        PROVE  OwnInv'
    <3>1. publishRemote = item.lease
      BY <2>4 DEF Publish!Plan
    <3> QED BY <2>1, <2>2, <2>4, <3>1 DEF OwnInv
  <2>5. \A d, c : Publish!Plan(d, c) = "remote_moved" => publishRemote # item.lease
    BY DEF Publish!Plan
  <2>6. CASE Publish!Fail(now, "fetch_failed", {})
    BY <1>e, <2>3, <2>6
  <2>7. ASSUME NEW dropped, NEW labels \in SUBSET Publish!Labels,
               Publish!Fail(now, Publish!Plan(dropped, Publish!Confirmed(request)), labels)
        PROVE  OwnInv'
    BY <2>3, <2>5, <2>7, PlanIsReason
  <2> QED BY <2>1, <2>4, <2>6, <2>7 DEF Started, now
<1>7. CASE Publish!PushLands
  <2>1. /\ publishPc = "pushing" /\ publishPc' = "landed" /\ UNCHANGED <<item, publishSaved, request, crashes>>
        /\ publishRemote' = publishLocal'
    BY <1>7 DEF Publish!PushLands
  <2> QED BY <1>e, <2>1 DEF OwnInv
<1>8. CASE Publish!PushFails
  <2>1. Publish!Fail(item, "push_failed", {}) /\ UNCHANGED <<publishRemote, mover, crashes>> /\ publishPc = "pushing"
    BY <1>8 DEF Publish!PushFails
  <2>2. /\ publishSaved' = item' /\ item'.lease = item.lease /\ item'.status = "awaiting"
        /\ item'.decision.kind = "failed" /\ item'.decision.reason = "push_failed" /\ request' = "none" /\ publishPc' = "idle"
    BY <1>0, <1>e, <2>1, FailedItem
  <2> QED BY <2>1, <2>2 DEF OwnInv
<1>9. CASE Publish!LeaseMoves
  <2>1. /\ item' = [item EXCEPT !.lease = publishLocal, !.forced = {}] /\ publishPc = "landed" /\ publishPc' = "closing"
        /\ UNCHANGED <<publishSaved, publishLocal, publishRemote, mover, request, crashes>>
    BY <1>9 DEF Publish!LeaseMoves
  <2>2. item'.lease = publishLocal /\ item'.decision = item.decision /\ item'.status = item.status
    BY <1>0, <2>1 DEF Publish!Items
  <2> QED BY <2>1, <2>2 DEF OwnInv
<1>10. CASE Publish!Finish
  <2>1. /\ publishPc = "closing" /\ publishPc' = "finished" /\ UNCHANGED <<item, publishSaved, request, crashes>>
        /\ \/ UNCHANGED <<publishLocal, publishRemote, mover>>
           \/ publishRemote' = publishLocal'
    BY <1>10 DEF Publish!Finish
  <2> QED BY <1>e, <2>1 DEF OwnInv
<1>11. CASE Publish!Conclude
  <2> DEFINE now == [item EXCEPT !.lease = Publish!Adopted]
  <2>0. now \in Publish!Items /\ now.lease = Publish!Adopted
    <3>1. Publish!Adopted \in Seq(Nat)
      BY <1>0 DEF Publish!Adopted
    <3> QED BY <1>0, <3>1 DEF Publish!Items
  <2>1. publishPc = "finished" /\ UNCHANGED <<publishLocal, publishRemote, mover, crashes>>
    BY <1>11 DEF Publish!Conclude
  <2>2. crashes = 0 /\ mover = "batch" => publishRemote = Publish!Adopted
    BY <2>1 DEF OwnInv, Publish!Adopted, Publish!MovedToLocal
  <2> HIDE DEF now
  <2>3. CASE Publish!Fail(now, "replies_failed", {})
    <3>1. /\ publishSaved' = item' /\ item'.lease = Publish!Adopted /\ item'.status = "awaiting"
          /\ item'.decision.kind = "failed" /\ item'.decision.reason = "replies_failed" /\ request' = "none"
          /\ publishPc' = "idle"
      BY <1>e, <2>0, <2>3, FailedItem
    <3> QED BY <2>1, <2>2, <3>1 DEF OwnInv
  <2>4. CASE publishPc' = "idle" /\ request' = "none" /\
             Publish!KeepItem([now EXCEPT !.status = "done", !.forced = {}, !.decision = Publish!Open("none", "none", {})])
    <3>1. /\ publishSaved' = item' /\ item'.lease = Publish!Adopted /\ item'.status = "done"
          /\ item'.decision = Publish!Open("none", "none", {})
      BY <2>0, <2>4 DEF Publish!KeepItem, Publish!Items
    <3>2. item'.decision.kind = "none" /\ item'.decision.reason = "none"
      BY <3>1 DEF Publish!Open
    <3> QED BY <2>1, <2>2, <2>4, <3>1, <3>2 DEF OwnInv
  <2> QED BY <1>11, <2>3, <2>4 DEF Publish!Conclude, now
<1>12. ASSUME NEW a \in Publish!Actions, Publish!Answer(a) PROVE OwnInv'
  <2>1. /\ publishPc = "idle" /\ request' = a /\ item.decision.kind # "none"
        /\ UNCHANGED <<publishPc, item, publishSaved, publishRemote, publishLocal, mover, crashes>>
        /\ a = "publish" => item.decision.kind = "publish"
        /\ a = "force-publish" => item.decision.reason \in Publish!Forceable
    BY <1>12 DEF Publish!Answer
  <2> QED BY <2>1 DEF OwnInv
<1>13. CASE Publish!Crash
  <2>1. /\ publishPc' = "idle" /\ item' = publishSaved /\ crashes' = crashes + 1
        /\ UNCHANGED <<publishSaved, publishRemote, publishLocal, mover, request>>
    BY <1>13 DEF Publish!Crash
  <2> QED BY <2>1 DEF OwnInv
<1>14. CASE Publish!ColleaguePushes
  <2>1. mover' = "colleague" /\ UNCHANGED <<item, publishSaved, request, publishPc, crashes>>
    BY <1>14 DEF Publish!ColleaguePushes
  <2> QED BY <2>1 DEF OwnInv
<1>15. CASE Publish!OperatorActs
  <2>1. /\ publishPc = "idle" /\ UNCHANGED <<item, publishSaved, request, publishPc, crashes>>
        /\ UNCHANGED <<publishRemote, mover>> \/ mover' = "operator"
    BY <1>15 DEF Publish!OperatorActs
  <2> QED BY <2>1 DEF OwnInv
<1> QED BY <1>1, <1>2, <1>3, <1>4, <1>5, <1>6, <1>7, <1>8, <1>9, <1>10, <1>11, <1>12, <1>13, <1>14, <1>15
        DEF Publish!Next, Publish!Driver

(* publish.py: a push of the batch's own, or the finishing one's, is taken *)
(* for somebody else's only where the driver died before it had saved it.  *)
THEOREM OwnPushIsAlwaysKnown == ASSUME ~Meddles PROVE Spec => []OwnPushIsKnown
<1> DEFINE Inv == PatchesTell /\ Branches /\ OwnInv
<1>1. Init => Inv
  BY EveryPartStarts, PublishInit, OwnInit
<1>2. Inv /\ [Next]_vars => Inv'
  BY OnePartMoves, BranchesStep, OwnStep
<1>3. Inv => OwnPushIsKnown
  BY DEF OwnInv, OwnPushIsKnown, Publish!OwnPushIsKnown
<1> HIDE DEF Inv
<1> QED BY <1>1, <1>2, <1>3, PTL DEF Spec
-----------------------------------------------------------------------------
(* Rebase: what a person resolved, and what nobody has looked at.          *)

BranchTips == [gen : Nat, works : SUBSET ({"mine", "more"} \cup Theirs), sided : BOOLEAN]
Replays == [on : BOOLEAN, left : Int, at : {"none", "conflict", "made", "staged"},
            now : BOOLEAN, sided : BOOLEAN, hand : BOOLEAN]

(* A run that goes on after a person resolved a stop is a resume, which    *)
(* waives the budget and pauses; and a replay that ends leaves a tip that  *)
(* no earlier run wrote.                                                   *)
ReplayInv ==
  /\ rebaseLocal \in BranchTips /\ rebaseRemote \in BranchTips \cup {Absent}
  /\ replay \in Replays /\ rebaseRuns \in Nat /\ waived \in BOOLEAN /\ paused \in BOOLEAN
  /\ rebaseLocal.gen <= rebaseRuns
  /\ rebasePc \in {"fetch", "preflight", "step"} => rebaseLocal.gen < rebaseRuns
  /\ rebasePc \in {"success", "land", "record", "fetch", "preflight"} => ~replay.on
  /\ rebasePc = "step" /\ replay.hand => waived /\ paused

LEMMA NoReplayIsOff ==
  Rebase!NoReplay \in Replays /\ ~Rebase!NoReplay.on /\ ~Rebase!NoReplay.hand /\ ~Rebase!NoReplay.sided
BY DEF Rebase!NoReplay, Replays

LEMMA ReplayInit == Rebase!Init => ReplayInv
<1> SUFFICES ASSUME Rebase!Init PROVE ReplayInv
  OBVIOUS
<1>1. rebaseLocal \in BranchTips /\ rebaseLocal.gen = 0
  BY DEF Rebase!Init, BranchTips
<1>2. rebaseRemote \in {rebaseLocal, Absent} /\ replay = Rebase!NoReplay /\ rebaseRuns = 0
      /\ waived = FALSE /\ paused = FALSE /\ rebasePc = "off"
  BY DEF Rebase!Init
<1>3. replay \in Replays /\ ~replay.hand /\ rebaseRemote \in BranchTips \cup {Absent}
      /\ waived \in BOOLEAN /\ paused \in BOOLEAN
  BY <1>1, <1>2, NoReplayIsOff
<1>4. rebaseRuns \in Nat /\ rebaseLocal.gen <= rebaseRuns
  BY <1>1, <1>2
<1> QED BY <1>1, <1>2, <1>3, <1>4 DEF ReplayInv

(* What the steps of a replay make of it.                                  *)
LEMMA ReplayGoesOn ==
  ASSUME replay \in Replays
  PROVE  /\ \A a \in {"conflict", "staged"} : Rebase!NextStop(a) =>
              replay' \in Replays /\ replay'.hand = replay.hand /\ replay'.on = replay.on
              /\ (replay'.sided <=> replay.sided \/ replay.now)
         /\ replay' = [replay EXCEPT !.left = @ - 1, !.at = "conflict", !.now = FALSE] =>
              replay' \in Replays /\ replay'.hand = replay.hand /\ replay'.on = replay.on /\ replay'.sided = replay.sided
<1>1. PICK n \in Int : n = replay.left - 1
  BY DEF Replays
<1>2. ASSUME NEW a \in {"conflict", "staged"}, Rebase!NextStop(a)
      PROVE  replay' \in Replays /\ replay'.hand = replay.hand /\ replay'.on = replay.on
             /\ (replay'.sided <=> replay.sided \/ replay.now)
  <2>1. replay' = [replay EXCEPT !.left = n, !.at = a, !.now = FALSE, !.sided = replay.sided \/ replay.now]
    BY <1>1, <1>2 DEF Rebase!NextStop
  <2>2. PICK s \in BOOLEAN : s <=> replay.sided \/ replay.now
    OBVIOUS
  <2>3. replay' = [replay EXCEPT !.left = n, !.at = a, !.now = FALSE, !.sided = s]
    BY <2>1, <2>2 DEF Replays
  <2> QED BY <1>1, <2>2, <2>3 DEF Replays
<1>3. ASSUME replay' = [replay EXCEPT !.left = @ - 1, !.at = "conflict", !.now = FALSE]
      PROVE  replay' \in Replays /\ replay'.hand = replay.hand /\ replay'.on = replay.on /\ replay'.sided = replay.sided
  <2>1. replay' = [replay EXCEPT !.left = n, !.at = "conflict", !.now = FALSE]
    BY <1>1, <1>3
  <2> QED BY <1>1, <2>1 DEF Replays
<1> QED BY <1>2, <1>3

LEMMA RewrittenIsNew ==
  ASSUME ReplayInv, NEW s \in BOOLEAN
  PROVE  /\ Rebase!Rewritten(s) \in BranchTips /\ Rebase!Rewritten(s).gen = rebaseRuns
         /\ Rebase!Rewritten(s).works = rebaseLocal.works
         /\ rebaseLocal.gen < rebaseRuns => Rebase!Rewritten(s) # rebaseLocal
<1>1. PICK b \in BOOLEAN : b <=> rebaseLocal.sided \/ s
  OBVIOUS
<1>2. Rebase!Rewritten(s) = [gen |-> rebaseRuns, works |-> rebaseLocal.works, sided |-> b]
  BY <1>1 DEF Rebase!Rewritten, ReplayInv, BranchTips
<1> QED BY <1>1, <1>2 DEF ReplayInv, BranchTips

LEMMA StopsInReplays ==
  ASSUME NEW k \in Int, NEW r, r = [Rebase!NoReplay EXCEPT !.on = TRUE, !.left = k, !.at = "conflict"]
  PROVE  r \in Replays /\ ~r.hand /\ ~r.sided
BY DEF Rebase!NoReplay, Replays

(* The steps that leave both tips, the runs and the replay as they are, or *)
(* change the replay as a whole.                                           *)
LEMMA ReplayWaits ==
  ASSUME ReplayInv, UNCHANGED <<rebaseLocal, rebaseRuns, waived, paused>>,
         rebaseRemote' \in BranchTips \cup {Absent}, replay' \in Replays,
         \/ rebasePc' \in {"off", "cmd_push"}
         \/ rebasePc' = rebasePc /\ (replay'.on => replay.on \/ rebasePc = "step") /\ (replay'.hand => replay.hand)
         \/ rebasePc = "preflight" /\ rebasePc' = "step" /\ ~replay'.hand
         \/ /\ \/ rebasePc = "fetch" /\ rebasePc' = "preflight"
               \/ rebasePc = "success" /\ rebasePc' \in {"record", "land"}
               \/ rebasePc = "land" /\ rebasePc' = "record"
            /\ replay' = replay
  PROVE  ReplayInv'
BY DEF ReplayInv

LEMMA ReplayFinishes ==
  ASSUME ReplayInv, NEW s, NEW t \in BranchTips, Rebase!Finish(s, t), t.gen <= rebaseRuns,
         UNCHANGED <<rebaseRemote, rebaseRuns, waived, paused>>
  PROVE  ReplayInv'
BY NoReplayIsOff DEF ReplayInv, Rebase!Finish

LEMMA PushedIsTheTip ==
  ASSUME ReplayInv, NEW l, Rebase!Pushed(l)
  PROVE  rebaseLocal' = rebaseLocal /\ rebaseRemote' \in {rebaseRemote, rebaseLocal}
         /\ rebaseRemote' \in BranchTips \cup {Absent}
BY DEF ReplayInv, Rebase!Pushed

LEMMA ReplayStep ==
  ASSUME ReplayInv, [Rebase!Next]_Rebase!vars PROVE ReplayInv'
<1> USE DEF Rebase!refs, Rebase!process, Rebase!history
<1>0. /\ rebaseRemote \in BranchTips \cup {Absent} /\ replay \in Replays /\ rebaseLocal \in BranchTips
      /\ rebaseRuns \in Nat /\ rebaseLocal.gen \in Nat
  BY DEF ReplayInv, BranchTips
<1>1. CASE UNCHANGED Rebase!vars
  BY <1>1 DEF Rebase!vars, ReplayInv
<1>2. ASSUME NEW m \in Modes, Rebase!Resume(m) PROVE ReplayInv'
  <2>1. /\ UNCHANGED <<rebaseLocal, rebaseRemote, replay>> /\ rebaseRuns' = rebaseRuns + 1 /\ rebasePc' = "step"
        /\ replay.on /\ waived' = (replay.on \/ FALSE) /\ paused' = (FALSE \/ replay.on)
    BY <1>2 DEF Rebase!Resume, Rebase!StartRun, Rebase!Waived
  <2>2. waived' = TRUE /\ paused' = TRUE
    BY <2>1
  <2>3. rebaseRuns' \in Nat /\ rebaseLocal.gen < rebaseRuns'
    BY <1>0, <2>1 DEF ReplayInv
  <2> QED BY <1>0, <2>1, <2>2, <2>3 DEF ReplayInv
<1>3. ASSUME NEW m \in Modes, NEW f \in BOOLEAN, NEW stop \in BOOLEAN, Rebase!Fresh(m, f, stop) PROVE ReplayInv'
  <2>1. /\ UNCHANGED <<rebaseLocal, rebaseRemote, replay>> /\ rebaseRuns' = rebaseRuns + 1 /\ rebasePc' = "fetch"
        /\ ~replay.on /\ waived' = (replay.on \/ f) /\ paused' = (stop \/ replay.on)
    BY <1>3 DEF Rebase!Fresh, Rebase!StartRun, Rebase!Waived
  <2>2. waived' \in BOOLEAN /\ paused' \in BOOLEAN
    BY <2>1
  <2>3. rebaseRuns' \in Nat /\ rebaseLocal.gen < rebaseRuns'
    BY <1>0, <2>1 DEF ReplayInv
  <2> QED BY <1>0, <2>1, <2>2, <2>3 DEF ReplayInv
<1>4. CASE Rebase!Fetch \/ Rebase!Refuse \/ Rebase!GitFails \/ Rebase!ConflictStops \/ Rebase!Success \/ Rebase!Record
           \/ Rebase!Kill
  <2>1. /\ UNCHANGED <<rebaseLocal, rebaseRemote, rebaseRuns, waived, paused, replay>>
        /\ \/ rebasePc' \in {"off", "cmd_push"}
           \/ rebasePc = "fetch" /\ rebasePc' = "preflight"
           \/ rebasePc = "success" /\ rebasePc' \in {"record", "land"}
    BY <1>4 DEF Rebase!Fetch, Rebase!Refuse, Rebase!GitFails, Rebase!ConflictStops, Rebase!Stop, Rebase!Ends,
       Rebase!Success, Rebase!Record, Rebase!Kill
  <2>2. CASE rebasePc' \in {"off", "cmd_push"}
    BY <1>0, <2>1, <2>2, ReplayWaits
  <2>3. CASE rebasePc = "fetch" /\ rebasePc' = "preflight"
    BY <2>1, <2>3 DEF ReplayInv
  <2>4. CASE rebasePc = "success" /\ rebasePc' \in {"record", "land"}
    BY <2>1, <2>4 DEF ReplayInv
  <2> QED BY <2>1, <2>2, <2>3, <2>4
<1>5. CASE Rebase!ReplayDone
  <2>1. PICK t \in {rebaseLocal, Rebase!Rewritten(FALSE)} : Rebase!Finish(FALSE, t)
    BY <1>5 DEF Rebase!ReplayDone
  <2>2. UNCHANGED <<rebaseRemote, rebaseRuns, waived, paused>>
    BY <1>5 DEF Rebase!ReplayDone
  <2>3. t \in BranchTips /\ t.gen <= rebaseRuns
    <3>1. CASE t = rebaseLocal
      BY <1>0, <3>1 DEF ReplayInv
    <3>2. CASE t = Rebase!Rewritten(FALSE)
      <4>1. t = [gen |-> rebaseRuns, works |-> rebaseLocal.works, sided |-> rebaseLocal.sided]
        BY <1>0, <3>2 DEF Rebase!Rewritten, BranchTips
      <4> QED BY <1>0, <4>1 DEF BranchTips
    <3> QED BY <3>1, <3>2
  <2> QED BY <2>1, <2>2, <2>3, ReplayFinishes
<1>6. CASE Rebase!ReplayStops
  <2>1. PICK k \in 1 .. MaxStops : replay' = [Rebase!NoReplay EXCEPT !.on = TRUE, !.left = k, !.at = "conflict"]
    BY <1>6 DEF Rebase!ReplayStops
  <2>2. replay' \in Replays /\ ~replay'.hand
    <3>1. k \in Int
      OBVIOUS
    <3> QED BY <2>1, <3>1, StopsInReplays
  <2>3. /\ UNCHANGED <<rebaseLocal, rebaseRemote, rebaseRuns, waived, paused>>
        /\ rebasePc = "preflight" /\ rebasePc' = "step"
    BY <1>6 DEF Rebase!ReplayStops
  <2> QED BY <1>0, <2>2, <2>3, ReplayWaits
<1>7. CASE Rebase!Resolve \/ Rebase!HaltIfDiscarding \/ Rebase!ContinueRefused
  <2>1. /\ UNCHANGED <<rebaseLocal, rebaseRemote, rebaseRuns, waived, paused>> /\ rebasePc = "step"
        /\ rebasePc' \in {"step", "off"}
    BY <1>7 DEF Rebase!Resolve, Rebase!HaltIfDiscarding, Rebase!ContinueRefused, Rebase!InStep, Rebase!Staged
  <2>2. \E a \in {"made", "conflict", "staged"}, b \in BOOLEAN :
           replay' = [replay EXCEPT !.at = a, !.now = b] \/ replay' = [replay EXCEPT !.at = a]
    BY <1>7 DEF Rebase!Resolve, Rebase!HaltIfDiscarding, Rebase!ContinueRefused
  <2>3. replay' \in Replays /\ replay'.hand = replay.hand /\ replay'.on = replay.on
    BY <1>0, <2>2 DEF Replays
  <2> QED BY <1>0, <2>1, <2>3, ReplayWaits
<1>8. CASE Rebase!AbortClean \/ Rebase!OverBudget \/ Rebase!ContinueLost \/ Rebase!RunAway
  <2>1. /\ UNCHANGED <<rebaseLocal, rebaseRemote, rebaseRuns, waived, paused>>
        /\ rebasePc' = "off" /\ replay' \in {replay, Rebase!NoReplay}
    BY <1>8 DEF Rebase!AbortClean, Rebase!OverBudget, Rebase!ContinueLost, Rebase!RunAway, Rebase!Ends
  <2> QED BY <1>0, <2>1, NoReplayIsOff, ReplayWaits
<1>9. CASE Rebase!Continue \/ Rebase!SkipEmpty
  <2>0. UNCHANGED <<rebaseRemote, rebaseRuns, waived, paused>> /\ rebasePc = "step"
    BY <1>9 DEF Rebase!Continue, Rebase!SkipEmpty, Rebase!Staged, Rebase!InStep
  <2>1. ASSUME NEW s \in {replay.sided, replay.sided \/ replay.now}, Rebase!Finish(s, Rebase!Rewritten(s))
        PROVE  ReplayInv'
    <3>1. s \in BOOLEAN
      BY <1>0, <2>1 DEF Replays
    <3>2. Rebase!Rewritten(s) \in BranchTips /\ Rebase!Rewritten(s).gen <= rebaseRuns
      BY <1>0, <3>1, RewrittenIsNew
    <3> QED BY <2>0, <2>1, <3>2, ReplayFinishes
  <2>2. CASE UNCHANGED rebaseLocal /\ rebasePc' \in {"step", "off"}
             /\ (replay' = [replay EXCEPT !.left = @ - 1, !.at = "conflict", !.now = FALSE]
                 \/ Rebase!NextStop("conflict") \/ Rebase!NextStop("staged"))
    <3>1. replay' \in Replays /\ replay'.hand = replay.hand /\ replay'.on = replay.on
      BY <1>0, <2>2, ReplayGoesOn
    <3> QED BY <1>0, <2>0, <2>2, <3>1, ReplayWaits
  <2> QED BY <1>9, <2>0, <2>1, <2>2 DEF Rebase!Continue, Rebase!SkipEmpty
<1>10. CASE Rebase!Land
  <2>1. /\ UNCHANGED <<rebaseRuns, waived, paused, replay>> /\ rebasePc = "land" /\ rebasePc' = "record"
        /\ Rebase!Pushed(lease) \/ UNCHANGED <<rebaseLocal, rebaseRemote>>
    BY <1>10 DEF Rebase!Land
  <2>2. rebaseLocal' = rebaseLocal /\ rebaseRemote' \in BranchTips \cup {Absent}
    BY <1>0, <2>1, PushedIsTheTip
  <2> QED BY <1>0, <2>1, <2>2, ReplayWaits
<1>11. CASE Rebase!CmdPush
  <2>1. /\ UNCHANGED <<rebaseRuns, waived, paused, replay>> /\ rebasePc' = "off"
        /\ Rebase!Pushed(rebaseSaved.lease) \/ UNCHANGED <<rebaseLocal, rebaseRemote>>
    BY <1>11 DEF Rebase!CmdPush
  <2>2. rebaseLocal' = rebaseLocal /\ rebaseRemote' \in BranchTips \cup {Absent}
    BY <1>0, <2>1, PushedIsTheTip
  <2> QED BY <1>0, <2>1, <2>2, ReplayWaits
<1>12. CASE Rebase!PushOnly
  <2>1. /\ UNCHANGED <<rebaseRemote, rebaseLocal, waived, paused, replay>> /\ rebasePc' = "cmd_push"
        /\ rebaseRuns' = rebaseRuns + 1
    BY <1>12 DEF Rebase!PushOnly
  <2>2. rebaseRuns' \in Nat /\ rebaseLocal.gen <= rebaseRuns'
    BY <1>0, <2>1 DEF ReplayInv
  <2> QED BY <1>0, <2>1, <2>2 DEF ReplayInv
<1>13. CASE Rebase!AbortCommand
  <2>1. /\ UNCHANGED <<rebaseLocal, rebaseRemote, rebaseRuns, waived, paused>>
        /\ rebasePc' = "off" /\ replay' = Rebase!NoReplay
    BY <1>13 DEF Rebase!AbortCommand
  <2> QED BY <1>0, <2>1, NoReplayIsOff, ReplayWaits
<1>14. CASE Rebase!OperatorResolves
  <2>1. /\ UNCHANGED <<rebaseLocal, rebaseRemote, rebaseRuns, waived, paused>> /\ rebasePc' = "off"
        /\ \E b \in BOOLEAN : replay' = [replay EXCEPT !.at = "staged", !.now = b, !.hand = TRUE]
    BY <1>14 DEF Rebase!OperatorResolves
  <2>2. replay' \in Replays
    BY <1>0, <2>1 DEF Replays
  <2> QED BY <1>0, <2>1, <2>2, ReplayWaits
<1>15. CASE Rebase!OperatorCommits \/ Rebase!OperatorPulls
  <2>1. /\ UNCHANGED <<rebaseRemote, rebaseRuns, waived, paused, replay, rebasePc>>
        /\ \E ws \in {{"more"}, Rebase!Work(rebaseRemote)} : rebaseLocal' = [rebaseLocal EXCEPT !.works = @ \cup ws]
    BY <1>15 DEF Rebase!OperatorCommits, Rebase!OperatorPulls
  <2>2. Rebase!Work(rebaseRemote) \subseteq {"mine", "more"} \cup Theirs
    BY <1>0 DEF Rebase!Work, BranchTips
  <2>3. rebaseLocal' \in BranchTips /\ rebaseLocal'.gen = rebaseLocal.gen
    BY <1>0, <2>1, <2>2 DEF BranchTips
  <2> QED BY <2>1, <2>3 DEF ReplayInv
<1>16. CASE Rebase!Refetch
  BY <1>0, <1>16, ReplayWaits DEF Rebase!Refetch
<1>17. ASSUME NEW c \in Theirs, Rebase!ColleaguePushes(c) PROVE ReplayInv'
  <2>1. UNCHANGED <<rebaseLocal, rebaseRuns, waived, paused, replay, rebasePc>>
    BY <1>17 DEF Rebase!ColleaguePushes
  <2>2. rebaseRemote' \in BranchTips
    BY <1>0, <1>17 DEF Rebase!ColleaguePushes, BranchTips
  <2> QED BY <1>0, <2>1, <2>2, ReplayWaits
<1> QED BY <1>1, <1>2, <1>3, <1>4, <1>5, <1>6, <1>7, <1>8, <1>9, <1>10, <1>11, <1>12, <1>13, <1>14, <1>15,
           <1>16, <1>17 DEF Rebase!Next, Rebase!RunStep

(* commands.py, cmd_start: what a person resolved in a stopped replay is   *)
(* thrown away by no budget, in whatever mode the runs go on.              *)
THEOREM HandWorkIsAlwaysKept == Spec => HandWorkKept
<1> DEFINE Kept == replay.on /\ replay.hand /\ ~replay'.on /\ rebasePc # "off" /\ rebaseLocal' = rebaseLocal
                     => turns = MaxTurns \/ rebaseSaved'.status = "conflicts"
<1>1. Init => ReplayInv
  BY EveryPartStarts, ReplayInit
<1>2. ReplayInv /\ [Next]_vars => ReplayInv'
  BY OnePartMoves, ReplayStep
<1>3. ASSUME ReplayInv, [Rebase!Next]_Rebase!vars PROVE [Kept]_Rebase!vars
  <2> SUFFICES ASSUME Rebase!Next, replay.on, replay.hand, ~replay'.on, rebasePc # "off", rebaseLocal' = rebaseLocal
      PROVE  turns = MaxTurns \/ rebaseSaved'.status = "conflicts"
    BY <1>3
  <2> USE DEF Rebase!refs, Rebase!process, Rebase!history
  <2>0. rebasePc = "step" => waived /\ paused /\ rebaseLocal.gen < rebaseRuns
    BY <1>3 DEF ReplayInv
  <2>1. CASE UNCHANGED replay
    BY <2>1
  <2>2. CASE rebasePc \in {"success", "land", "record", "fetch", "preflight"}
    BY <1>3, <2>2 DEF ReplayInv
  <2>3. CASE Rebase!AbortClean \/ Rebase!OverBudget
    BY <2>0, <2>3 DEF Rebase!AbortClean, Rebase!OverBudget, Rebase!InStep
  <2>4. CASE Rebase!ContinueLost
    BY <2>4 DEF Rebase!ContinueLost, Rebase!OutcomeOfStop, Rebase!Outcome
  <2>5. CASE Rebase!Continue \/ Rebase!SkipEmpty
    <3>1. rebasePc = "step"
      BY <2>5 DEF Rebase!Continue, Rebase!SkipEmpty, Rebase!Staged, Rebase!InStep
    <3>2. replay \in Replays
      BY <1>3 DEF ReplayInv
    <3>3. ASSUME NEW s \in {replay.sided, replay.sided \/ replay.now}, Rebase!Finish(s, Rebase!Rewritten(s))
          PROVE  FALSE
      <4>1. s \in BOOLEAN
        BY <3>2, <3>3 DEF Replays
      <4>2. Rebase!Rewritten(s) # rebaseLocal
        BY <1>3, <2>0, <3>1, <4>1, RewrittenIsNew
      <4> QED BY <3>3, <4>2 DEF Rebase!Finish
    <3>4. CASE replay' = [replay EXCEPT !.left = @ - 1, !.at = "conflict", !.now = FALSE]
               \/ Rebase!NextStop("conflict") \/ Rebase!NextStop("staged")
      BY <3>2, <3>4, ReplayGoesOn
    <3> QED BY <2>5, <3>3, <3>4 DEF Rebase!Continue, Rebase!SkipEmpty
  <2>6. CASE Rebase!RunAway
    BY <2>6 DEF Rebase!RunAway, Rebase!Capped
  <2>7. CASE Rebase!Resolve \/ Rebase!HaltIfDiscarding \/ Rebase!ContinueRefused
    <3>1. \E a \in {"made", "conflict", "staged"}, b \in BOOLEAN :
             replay' = [replay EXCEPT !.at = a, !.now = b] \/ replay' = [replay EXCEPT !.at = a]
      BY <2>7 DEF Rebase!Resolve, Rebase!HaltIfDiscarding, Rebase!ContinueRefused
    <3> QED BY <1>3, <3>1 DEF ReplayInv, Replays
  <2>8. CASE Rebase!ReplayDone \/ Rebase!ReplayStops
    BY <2>2, <2>8 DEF Rebase!ReplayDone, Rebase!ReplayStops
  <2>9. CASE Rebase!PushOnly \/ Rebase!AbortCommand \/ Rebase!OperatorResolves
             \/ (\E m \in Modes : Rebase!Resume(m) \/ \E f, stop \in BOOLEAN : Rebase!Fresh(m, f, stop))
    BY <2>9 DEF Rebase!PushOnly, Rebase!AbortCommand, Rebase!OperatorResolves, Rebase!Resume, Rebase!Fresh,
       Rebase!StartRun
  <2>10. CASE Rebase!Fetch \/ Rebase!Refuse \/ Rebase!GitFails \/ Rebase!ConflictStops \/ Rebase!Success
              \/ Rebase!Record \/ Rebase!Kill \/ Rebase!Land \/ Rebase!CmdPush \/ Rebase!Refetch
              \/ Rebase!OperatorCommits \/ Rebase!OperatorPulls \/ \E c \in Theirs : Rebase!ColleaguePushes(c)
    <3>1. UNCHANGED replay
      BY <2>10 DEF Rebase!Fetch, Rebase!Refuse, Rebase!GitFails, Rebase!ConflictStops, Rebase!Stop, Rebase!Success,
         Rebase!Record, Rebase!Kill, Rebase!Land, Rebase!CmdPush, Rebase!Refetch, Rebase!OperatorCommits,
         Rebase!OperatorPulls, Rebase!ColleaguePushes
    <3> QED BY <2>1, <3>1
  <2> QED BY <2>3, <2>4, <2>5, <2>6, <2>7, <2>8, <2>9, <2>10 DEF Rebase!Next, Rebase!RunStep
<1>4. ReplayInv /\ [Next]_vars => [Kept]_Rebase!vars
  BY <1>3, OnePartMoves
<1>5. HandWorkKept <=> [][Kept]_Rebase!vars
  BY DEF HandWorkKept, Rebase!HandWorkKept
<1> HIDE DEF Kept
<1> QED BY <1>1, <1>2, <1>4, <1>5, PTL DEF Spec

(* What a colleague pushes is on no branch before.                         *)
OnlyPushed ==
  /\ rebaseLocal.works \cap Theirs \subseteq rebaseSent
  /\ Rebase!Work(rebaseRemote) \cap Theirs \subseteq rebaseSent

LEMMA OnlyPushedInit == Rebase!Init => OnlyPushed
<1> SUFFICES ASSUME Rebase!Init PROVE OnlyPushed
  OBVIOUS
<1>1. rebaseLocal.works = {"mine"} /\ rebaseRemote \in {rebaseLocal, Absent}
  BY DEF Rebase!Init
<1>2. {"mine", "more"} \cap Theirs = {}
  BY ConstantsAssumption DEF Rebase!RebaseAssumption
<1>3. Rebase!Work(rebaseRemote) \subseteq {"mine"}
  BY <1>1 DEF Rebase!Work
<1> QED BY <1>1, <1>2, <1>3 DEF OnlyPushed

LEMMA OnlyPushedStep ==
  ASSUME ReplayInv, OnlyPushed, [Rebase!Next]_Rebase!vars PROVE OnlyPushed'
<1> USE DEF Rebase!refs, Rebase!process, Rebase!history
<1>0. /\ rebaseRemote \in BranchTips \cup {Absent} /\ rebaseLocal \in BranchTips /\ replay \in Replays
      /\ {"mine", "more"} \cap Theirs = {}
  BY ConstantsAssumption DEF ReplayInv, Rebase!RebaseAssumption
<1>1. ASSUME rebaseSent \subseteq rebaseSent', rebaseLocal'.works = rebaseLocal.works,
             rebaseRemote' \in {rebaseRemote, rebaseLocal}
      PROVE  OnlyPushed'
  BY <1>1 DEF OnlyPushed, Rebase!Work
<1>2. CASE UNCHANGED <<rebaseLocal, rebaseRemote, rebaseSent>>
  BY <1>1, <1>2
<1>3. CASE Rebase!ReplayDone \/ Rebase!Continue \/ Rebase!SkipEmpty
  <2>1. UNCHANGED <<rebaseRemote, rebaseSent>>
    BY <1>3 DEF Rebase!ReplayDone, Rebase!Continue, Rebase!SkipEmpty
  <2>2. rebaseLocal' = rebaseLocal \/ \E s : rebaseLocal' = Rebase!Rewritten(s)
    BY <1>3 DEF Rebase!ReplayDone, Rebase!Continue, Rebase!SkipEmpty, Rebase!Finish
  <2>3. rebaseLocal'.works = rebaseLocal.works
    BY <2>2 DEF Rebase!Rewritten
  <2> QED BY <1>1, <2>1, <2>3
<1>4. CASE Rebase!Land
  <2>1. UNCHANGED rebaseSent /\ (Rebase!Pushed(lease) \/ UNCHANGED <<rebaseLocal, rebaseRemote>>)
    BY <1>4 DEF Rebase!Land
  <2>2. rebaseLocal' = rebaseLocal /\ rebaseRemote' \in {rebaseRemote, rebaseLocal}
    BY <2>1, PushedIsTheTip
  <2> QED BY <1>1, <2>1, <2>2
<1>5. CASE Rebase!CmdPush
  <2>1. UNCHANGED rebaseSent /\ (Rebase!Pushed(rebaseSaved.lease) \/ UNCHANGED <<rebaseLocal, rebaseRemote>>)
    BY <1>5 DEF Rebase!CmdPush
  <2>2. rebaseLocal' = rebaseLocal /\ rebaseRemote' \in {rebaseRemote, rebaseLocal}
    BY <2>1, PushedIsTheTip
  <2> QED BY <1>1, <2>1, <2>2
<1>6. CASE Rebase!OperatorCommits \/ Rebase!OperatorPulls
  <2>1. UNCHANGED <<rebaseRemote, rebaseSent>>
        /\ \E ws \in {{"more"}, Rebase!Work(rebaseRemote)} : rebaseLocal' = [rebaseLocal EXCEPT !.works = @ \cup ws]
    BY <1>6 DEF Rebase!OperatorCommits, Rebase!OperatorPulls
  <2>2. PICK ws \in {{"more"}, Rebase!Work(rebaseRemote)} : rebaseLocal'.works = rebaseLocal.works \cup ws
    BY <1>0, <2>1 DEF BranchTips
  <2>3. ws \cap Theirs \subseteq rebaseSent
    BY <1>0, <2>2 DEF OnlyPushed
  <2> QED BY <2>1, <2>2, <2>3 DEF OnlyPushed
<1>7. ASSUME NEW c \in Theirs, Rebase!ColleaguePushes(c) PROVE OnlyPushed'
  <2>1. UNCHANGED rebaseLocal /\ rebaseSent' = rebaseSent \cup {c}
    BY <1>7 DEF Rebase!ColleaguePushes
  <2>2. rebaseRemote'.works \subseteq Rebase!Work(rebaseRemote) \cup {c}
    BY <1>0, <1>7 DEF Rebase!ColleaguePushes, Rebase!Work, BranchTips
  <2>3. Rebase!Work(rebaseRemote') \subseteq Rebase!Work(rebaseRemote) \cup {c}
    BY <2>2 DEF Rebase!Work
  <2>4. Rebase!Work(rebaseRemote)' = Rebase!Work(rebaseRemote')
    BY DEF Rebase!Work
  <2> QED BY <2>1, <2>3, <2>4 DEF OnlyPushed
<1>8. CASE Rebase!Fetch \/ Rebase!Refuse \/ Rebase!GitFails \/ Rebase!ReplayStops
           \/ Rebase!ConflictStops \/ Rebase!Resolve \/ Rebase!AbortClean \/ Rebase!OverBudget \/ Rebase!HaltIfDiscarding
           \/ Rebase!ContinueRefused \/ Rebase!ContinueLost \/ Rebase!RunAway \/ Rebase!Success \/ Rebase!Record
  <2>1. UNCHANGED <<rebaseLocal, rebaseRemote, rebaseSent>>
    BY <1>8 DEF Rebase!Fetch, Rebase!Refuse, Rebase!GitFails, Rebase!ReplayStops, Rebase!ConflictStops, Rebase!Resolve,
       Rebase!AbortClean, Rebase!OverBudget, Rebase!HaltIfDiscarding, Rebase!ContinueRefused, Rebase!ContinueLost,
       Rebase!RunAway, Rebase!Success, Rebase!Record, Rebase!Stop, Rebase!Ends
  <2> QED BY <1>2, <2>1
<1>9. CASE Rebase!PushOnly \/ Rebase!AbortCommand \/ Rebase!OperatorResolves \/ Rebase!Refetch \/ Rebase!Kill
           \/ (\E m \in Modes : Rebase!Resume(m) \/ \E f, stop \in BOOLEAN : Rebase!Fresh(m, f, stop))
  <2>1. UNCHANGED <<rebaseLocal, rebaseRemote, rebaseSent>>
    BY <1>9 DEF Rebase!PushOnly, Rebase!AbortCommand, Rebase!OperatorResolves, Rebase!Refetch, Rebase!Kill,
       Rebase!Resume, Rebase!Fresh, Rebase!StartRun
  <2> QED BY <1>2, <2>1
<1>10. CASE UNCHANGED Rebase!vars
  BY <1>2, <1>10 DEF Rebase!vars
<1> QED BY <1>3, <1>4, <1>5, <1>6, <1>7, <1>8, <1>9, <1>10 DEF Rebase!Next, Rebase!RunStep

(* A region resolved to one side, in whichever run of the replay, is in    *)
(* the run's tally, or in the record the next run reads it from; a tally   *)
(* that is not empty closes the gate.                                      *)
SidedInv ==
  /\ tallied \in BOOLEAN /\ unseen \in BOOLEAN
  /\ rebasePc = "step" /\ replay.sided => tallied
  /\ rebasePc \in {"off", "cmd_push"} /\ replay.on /\ replay.sided =>
       rebaseSaved.status = "conflicts" /\ rebaseSaved.sided
  /\ rebasePc = "success" /\ unseen => tallied
  /\ rebasePc \in {"land", "record"} /\ unseen /\ mode \in Rebase!Reaches => rebaseHeld
  /\ rebasePc = "cmd_push" => mode = "push-only" \/ ~unseen

LEMMA SidedInit == Rebase!Init => SidedInv
BY NoReplayIsOff DEF Rebase!Init, SidedInv

LEMMA SidedStep ==
  ASSUME ReplayInv, SidedInv, ~RebaseKills, ~AbortsFail, ~Empties, [Rebase!Next]_Rebase!vars
  PROVE  SidedInv'
<1> USE DEF Rebase!refs, Rebase!process, Rebase!history
<1>0. replay \in Replays /\ tallied \in BOOLEAN /\ unseen \in BOOLEAN
  BY DEF ReplayInv, SidedInv
<1>t. PICK notes \in BOOLEAN : (notes <=> tallied \/ replay.now) /\ Rebase!Notes = notes
  <2>1. (tallied \/ replay.now) \in BOOLEAN
    OBVIOUS
  <2> QED BY <2>1 DEF Rebase!Notes
<1>1. CASE UNCHANGED Rebase!vars
  BY <1>1 DEF Rebase!vars, SidedInv
<1>2. ASSUME NEW m \in Modes, Rebase!Resume(m) PROVE SidedInv'
  <2>1. /\ replay.on /\ rebasePc = "off" /\ UNCHANGED <<replay, unseen>> /\ rebasePc' = "step"
        /\ tallied' = (rebaseSaved.status = "conflicts" /\ rebaseSaved.sided)
    BY <1>2 DEF Rebase!Resume, Rebase!StartRun, Rebase!ResumedTally
  <2>2. tallied' \in BOOLEAN
    BY <2>1
  <2>3. replay.sided => tallied'
    BY <2>1 DEF SidedInv
  <2> QED BY <1>0, <2>1, <2>2, <2>3 DEF SidedInv
<1>3. ASSUME NEW m \in Modes, NEW f \in BOOLEAN, NEW stop \in BOOLEAN, Rebase!Fresh(m, f, stop) PROVE SidedInv'
  BY <1>0, <1>3 DEF Rebase!Fresh, Rebase!StartRun, SidedInv
<1>4. CASE Rebase!Fetch \/ Rebase!Refuse \/ Rebase!GitFails
  <2>1. /\ UNCHANGED <<replay, tallied, unseen, mode, rebaseHeld>> /\ rebasePc \in {"fetch", "preflight"}
        /\ rebasePc' \in {"preflight", "off"}
    BY <1>4 DEF Rebase!Fetch, Rebase!Refuse, Rebase!GitFails, Rebase!Ends
  <2> QED BY <2>1 DEF SidedInv, ReplayInv
<1>5. CASE Rebase!ReplayDone
  <2>1. UNCHANGED tallied /\ rebasePc' = "success" /\ replay' = Rebase!NoReplay /\ unseen' = FALSE
    BY <1>5 DEF Rebase!ReplayDone, Rebase!Finish
  <2> QED BY <1>0, <2>1 DEF SidedInv
<1>6. CASE Rebase!ReplayStops
  <2>1. PICK k \in 1 .. MaxStops : replay' = [Rebase!NoReplay EXCEPT !.on = TRUE, !.left = k, !.at = "conflict"]
    BY <1>6 DEF Rebase!ReplayStops
  <2>2. ~replay'.sided
    <3>1. k \in Int
      OBVIOUS
    <3> QED BY <2>1, <3>1, StopsInReplays
  <2>3. UNCHANGED <<tallied, unseen>> /\ rebasePc' = "step"
    BY <1>6 DEF Rebase!ReplayStops
  <2> QED BY <1>0, <2>2, <2>3 DEF SidedInv
<1>7. CASE Rebase!ConflictStops
  <2>1. /\ rebasePc = "step" /\ UNCHANGED <<replay, tallied, unseen>> /\ rebasePc' = "off"
        /\ rebaseSaved' = Rebase!Outcome("conflicts", tallied, Absent)
    BY <1>7 DEF Rebase!ConflictStops, Rebase!Stop, Rebase!Ends, Rebase!InStep, Rebase!OutcomeOfStop
  <2>2. rebaseSaved'.status = "conflicts" /\ rebaseSaved'.sided = tallied
    BY <2>1 DEF Rebase!Outcome
  <2> QED BY <2>1, <2>2 DEF SidedInv
<1>8. CASE Rebase!Resolve
  <2>1. rebasePc = "step" /\ UNCHANGED <<tallied, unseen, rebasePc>>
        /\ \E b \in BOOLEAN : replay' = [replay EXCEPT !.at = "made", !.now = b]
    BY <1>8 DEF Rebase!Resolve, Rebase!InStep
  <2>2. replay'.sided = replay.sided
    BY <1>0, <2>1 DEF Replays
  <2> QED BY <2>1, <2>2 DEF SidedInv
<1>9. CASE Rebase!AbortClean \/ Rebase!OverBudget \/ Rebase!ContinueLost \/ Rebase!RunAway
  <2>1. replay' = Rebase!NoReplay /\ rebasePc' = "off" /\ UNCHANGED unseen /\ tallied' \in {tallied, Rebase!Notes}
    BY <1>9 DEF Rebase!AbortClean, Rebase!OverBudget, Rebase!ContinueLost, Rebase!RunAway, Rebase!Ends
  <2>2. tallied' \in BOOLEAN
    BY <1>0, <1>t, <2>1
  <2> QED BY <1>0, <2>1, <2>2, NoReplayIsOff DEF SidedInv
<1>10. CASE Rebase!HaltIfDiscarding
  <2>1. /\ rebasePc = "step" /\ tallied' = notes /\ UNCHANGED unseen /\ rebasePc' = "off"
        /\ rebaseSaved' = Rebase!Outcome("conflicts", notes, Absent)
    BY <1>10, <1>t DEF Rebase!HaltIfDiscarding, Rebase!Staged, Rebase!InStep, Rebase!OutcomeOfStop
  <2>2. rebaseSaved'.status = "conflicts" /\ rebaseSaved'.sided = notes
    BY <2>1 DEF Rebase!Outcome
  <2>3. replay'.sided = replay.sided
    BY <1>0, <1>10 DEF Rebase!HaltIfDiscarding, Replays
  <2>4. replay.sided => notes
    BY <1>t, <2>1 DEF SidedInv
  <2> QED BY <1>0, <2>1, <2>2, <2>3, <2>4 DEF SidedInv
<1>11. CASE Rebase!Continue
  <2>1. rebasePc = "step" /\ tallied' = notes
    BY <1>11, <1>t DEF Rebase!Continue, Rebase!Staged, Rebase!InStep
  <2>2. replay.sided \/ replay.now => notes
    BY <1>t, <2>1 DEF SidedInv
  <2>3. CASE Rebase!Finish(replay.sided \/ replay.now, Rebase!Rewritten(replay.sided \/ replay.now))
    <3>1. unseen' = (replay.sided \/ replay.now) /\ rebasePc' = "success" /\ replay' = Rebase!NoReplay
      BY <2>3 DEF Rebase!Finish
    <3>2. unseen' \in BOOLEAN
      BY <3>1
    <3> QED BY <2>1, <2>2, <3>1, <3>2 DEF SidedInv
  <2>4. CASE UNCHANGED <<rebasePc, unseen>> /\ (Rebase!NextStop("conflict") \/ Rebase!NextStop("staged"))
    <3>1. replay'.sided <=> replay.sided \/ replay.now
      BY <1>0, <2>4, ReplayGoesOn
    <3> QED BY <1>0, <2>1, <2>2, <2>4, <3>1 DEF SidedInv
  <2> QED BY <1>11, <2>3, <2>4 DEF Rebase!Continue
<1>12. CASE Rebase!ContinueRefused
  <2>1. rebasePc = "step" /\ tallied' = notes /\ UNCHANGED <<unseen, rebasePc>>
        /\ replay' = [replay EXCEPT !.at = "staged"]
    BY <1>12, <1>t DEF Rebase!ContinueRefused, Rebase!Staged, Rebase!InStep
  <2>2. replay'.sided = replay.sided
    BY <1>0, <2>1 DEF Replays
  <2>3. replay.sided => notes
    BY <1>t, <2>1 DEF SidedInv
  <2> QED BY <1>0, <2>1, <2>2, <2>3 DEF SidedInv
<1>13. CASE Rebase!SkipEmpty
  BY <1>13 DEF Rebase!SkipEmpty
<1>14. CASE Rebase!Success
  <2>1. /\ rebasePc = "success" /\ rebasePc' \in {"record", "land"} /\ UNCHANGED <<replay, unseen, tallied, mode>>
        /\ rebaseHeld' = (rebaseHeld \/ (tallied /\ mode \in Rebase!Reaches))
    BY <1>14 DEF Rebase!Success
  <2> QED BY <2>1 DEF SidedInv
<1>15. CASE Rebase!Land
  <2>1. /\ rebasePc = "land" /\ rebasePc' = "record" /\ UNCHANGED <<replay, unseen, tallied, mode, rebaseHeld>>
    BY <1>15 DEF Rebase!Land
  <2> QED BY <2>1 DEF SidedInv
<1>16. CASE Rebase!Record
  <2>1. /\ rebasePc = "record" /\ rebasePc' = IF mode = "push" /\ ~rebaseHeld THEN "cmd_push" ELSE "off"
        /\ UNCHANGED <<replay, unseen, tallied, mode>>
    BY <1>16 DEF Rebase!Record
  <2>2. ~replay.on
    BY <2>1 DEF ReplayInv
  <2> QED BY <2>1, <2>2 DEF SidedInv, Rebase!Reaches
<1>17. CASE Rebase!CmdPush
  <2>1. /\ rebasePc = "cmd_push" /\ rebasePc' = "off" /\ UNCHANGED <<replay, unseen, tallied>>
        /\ ~replay.on \/ UNCHANGED rebaseSaved
    BY <1>17 DEF Rebase!CmdPush, Rebase!MayPush
  <2> QED BY <2>1 DEF SidedInv
<1>18. CASE Rebase!PushOnly
  BY <1>18 DEF Rebase!PushOnly, SidedInv
<1>19. CASE Rebase!AbortCommand
  BY <1>19, NoReplayIsOff DEF Rebase!AbortCommand, SidedInv
<1>20. CASE Rebase!OperatorResolves
  <2>1. /\ UNCHANGED <<rebasePc, rebaseSaved, tallied, unseen>> /\ replay.on
        /\ \E b \in BOOLEAN : replay' = [replay EXCEPT !.at = "staged", !.now = b, !.hand = TRUE]
        /\ rebasePc = "off"
    BY <1>20 DEF Rebase!OperatorResolves
  <2>2. replay'.sided = replay.sided
    BY <1>0, <2>1 DEF Replays
  <2> QED BY <2>1, <2>2 DEF SidedInv
<1>21. CASE Rebase!OperatorCommits \/ Rebase!OperatorPulls \/ Rebase!Refetch \/ \E c \in Theirs : Rebase!ColleaguePushes(c)
  <2>1. UNCHANGED <<rebasePc, replay, rebaseSaved, tallied, unseen, mode, rebaseHeld>>
    BY <1>21 DEF Rebase!OperatorCommits, Rebase!OperatorPulls, Rebase!Refetch, Rebase!ColleaguePushes
  <2> QED BY <2>1 DEF SidedInv
<1>22. CASE Rebase!Kill
  BY <1>22 DEF Rebase!Kill
<1> QED BY <1>1, <1>2, <1>3, <1>4, <1>5, <1>6, <1>7, <1>8, <1>9, <1>10, <1>11, <1>12, <1>13, <1>14, <1>15,
           <1>16, <1>17, <1>18, <1>19, <1>20, <1>21, <1>22 DEF Rebase!Next, Rebase!RunStep

(* lifecycle.py, rebase_success: a replay with a region resolved to one    *)
(* side, in whichever of its runs, does not reach the remote by itself, as *)
(* long as no run is killed, git can abort and no resolution leaves its    *)
(* commit empty: each of those loses the tally a resume starts from.       *)
THEOREM OneSidedIsAlwaysHeld ==
  ASSUME ~RebaseKills, ~AbortsFail, ~Empties PROVE Spec => OneSidedHeld
<1> DEFINE Held == rebaseRemote' # rebaseRemote /\ rebaseRemote' = rebaseLocal /\ mode # "push-only" => ~unseen
<1> DEFINE Inv == ReplayInv /\ OnlyPushed /\ SidedInv
<1>1. Init => Inv
  BY EveryPartStarts, ReplayInit, OnlyPushedInit, SidedInit
<1>2. Inv /\ [Next]_vars => Inv'
  BY OnePartMoves, ReplayStep, OnlyPushedStep, SidedStep
<1>3. ASSUME Inv, [Rebase!Next]_Rebase!vars PROVE [Held]_Rebase!vars
  <2> SUFFICES ASSUME Rebase!Next, rebaseRemote' # rebaseRemote, rebaseRemote' = rebaseLocal, mode # "push-only"
      PROVE  ~unseen
    BY <1>3
  <2> USE DEF Rebase!refs, Rebase!process, Rebase!history
  <2>1. CASE Rebase!Land
    <3>1. rebasePc = "land" /\ mode \in Rebase!Reaches /\ ~rebaseHeld
      BY <2>1 DEF Rebase!Land
    <3> QED BY <1>3, <3>1 DEF SidedInv
  <2>2. CASE Rebase!CmdPush
    <3>1. rebasePc = "cmd_push"
      BY <2>2 DEF Rebase!CmdPush
    <3> QED BY <1>3, <3>1 DEF SidedInv
  <2>3. ASSUME NEW c \in Theirs, Rebase!ColleaguePushes(c) PROVE FALSE
    <3>1. c \notin rebaseLocal.works
      BY <1>3, <2>3 DEF Rebase!ColleaguePushes, OnlyPushed
    <3>2. rebaseRemote \in BranchTips \cup {Absent}
      BY <1>3 DEF ReplayInv
    <3>3. c \in rebaseRemote'.works
      BY <2>3, <3>2 DEF Rebase!ColleaguePushes, BranchTips
    <3> QED BY <3>1, <3>3
  <2>4. CASE Rebase!Fetch \/ Rebase!Refuse \/ Rebase!GitFails \/ Rebase!ReplayDone \/ Rebase!ReplayStops
             \/ Rebase!ConflictStops \/ Rebase!Resolve \/ Rebase!AbortClean \/ Rebase!OverBudget \/ Rebase!HaltIfDiscarding
             \/ Rebase!Continue \/ Rebase!ContinueRefused \/ Rebase!ContinueLost \/ Rebase!SkipEmpty \/ Rebase!RunAway
             \/ Rebase!Success \/ Rebase!Record
    <3>1. UNCHANGED rebaseRemote
      BY <2>4 DEF Rebase!Fetch, Rebase!Refuse, Rebase!GitFails, Rebase!ReplayDone, Rebase!ReplayStops,
         Rebase!ConflictStops, Rebase!Resolve, Rebase!AbortClean, Rebase!OverBudget, Rebase!HaltIfDiscarding,
         Rebase!Continue, Rebase!ContinueRefused, Rebase!ContinueLost, Rebase!SkipEmpty, Rebase!RunAway,
         Rebase!Success, Rebase!Record, Rebase!Stop, Rebase!Ends
    <3> QED BY <3>1
  <2>5. CASE Rebase!PushOnly \/ Rebase!AbortCommand \/ Rebase!OperatorResolves \/ Rebase!OperatorCommits
             \/ Rebase!OperatorPulls \/ Rebase!Refetch \/ Rebase!Kill
             \/ (\E m \in Modes : Rebase!Resume(m) \/ \E f, stop \in BOOLEAN : Rebase!Fresh(m, f, stop))
    <3>1. UNCHANGED rebaseRemote
      BY <2>5 DEF Rebase!PushOnly, Rebase!AbortCommand, Rebase!OperatorResolves, Rebase!OperatorCommits,
         Rebase!OperatorPulls, Rebase!Refetch, Rebase!Kill, Rebase!Resume, Rebase!Fresh, Rebase!StartRun
    <3> QED BY <3>1
  <2> QED BY <2>1, <2>2, <2>3, <2>4, <2>5 DEF Rebase!Next, Rebase!RunStep
<1>4. Inv /\ [Next]_vars => [Held]_Rebase!vars
  BY <1>3, OnePartMoves
<1>5. OneSidedHeld <=> [][Held]_Rebase!vars
  BY DEF OneSidedHeld, Rebase!OneSidedHeld, Rebase!PushesItself
<1> HIDE DEF Held, Inv
<1> QED BY <1>1, <1>2, <1>4, <1>5, PTL DEF Spec
-----------------------------------------------------------------------------
(* RebaseStash: uncommitted work is in a worktree or in the stash.         *)

StashPcs == {"off", "replay", "restore", "pop", "drop"}
StashEntries == [from : Worktrees, msg : {"auto", "own"}, work : SUBSET Edits]

(* What a conflicted pop is about to drop lies in the worktree already:    *)
(* the index it looked up still names the entry it popped.                 *)
StashInv ==
  /\ tree \in [Worktrees -> SUBSET Edits] /\ stack \in Seq(StashEntries)
  /\ stashPc \in [Worktrees -> StashPcs] /\ ref \in [Worktrees -> Nat]
  /\ \A w \in Worktrees : stashPc[w] = "drop" =>
       ref[w] \in DOMAIN stack /\ stack[ref[w]].work \subseteq tree[w]
  /\ \A e \in made : \/ \E i \in DOMAIN stack : e \in stack[i].work
                     \/ \E w \in Worktrees : e \in tree[w]

(* A new entry is put before the others, which stay.                       *)
LEMMA PushedOnTop ==
  ASSUME NEW S, NEW s \in Seq(S), NEW e \in S
  PROVE  /\ <<e>> \o s \in Seq(S) /\ 1 \in DOMAIN (<<e>> \o s) /\ (<<e>> \o s)[1] = e
         /\ \A i \in DOMAIN s : i + 1 \in DOMAIN (<<e>> \o s) /\ (<<e>> \o s)[i + 1] = s[i]
OBVIOUS

(* A removal leaves every other entry.                                     *)
LEMMA RemovedOnlyThat ==
  ASSUME NEW S, NEW s \in Seq(S), NEW i \in DOMAIN s
  PROVE  /\ Stash!RemoveAt(s, i) \in Seq(S)
         /\ \A j \in DOMAIN s : j # i =>
              \E k \in DOMAIN Stash!RemoveAt(s, i) : Stash!RemoveAt(s, i)[k] = s[j]
<1> DEFINE a == SubSeq(s, 1, i - 1)  b == SubSeq(s, i + 1, Len(s))
<1>0. i \in 1 .. Len(s) /\ Len(s) \in Nat /\ Stash!RemoveAt(s, i) = a \o b
  BY DEF Stash!RemoveAt
<1>1. a \in Seq(S) /\ Len(a) = i - 1 /\ \A k \in 1 .. i - 1 : a[k] = s[k]
  BY <1>0, SubSeqProperties
<1>2. b \in Seq(S) /\ Len(b) = Len(s) - i /\ \A k \in 1 .. Len(s) - i : b[k] = s[i + k]
  <2>1. i + 1 \in Int /\ Len(s) \in Int /\ \A k \in i + 1 .. Len(s) : s[k] \in S
    BY <1>0
  <2>2. /\ b \in Seq(S) /\ Len(b) = IF i + 1 <= Len(s) THEN Len(s) - (i + 1) + 1 ELSE 0
        /\ \A k \in 1 .. Len(s) - (i + 1) + 1 : b[k] = s[i + 1 + k - 1]
    BY <2>1, SubSeqProperties
  <2> HIDE DEF b
  <2>3. Len(b) = Len(s) - i
    BY <1>0, <2>2
  <2>4. ASSUME NEW k \in 1 .. Len(s) - i PROVE b[k] = s[i + k]
    <3>1. k \in 1 .. Len(s) - (i + 1) + 1 /\ i + 1 + k - 1 = i + k
      BY <1>0
    <3>2. b[k] = s[i + 1 + k - 1]
      BY <2>2, <3>1
    <3> QED BY <3>1, <3>2
  <2> QED BY <2>2, <2>3, <2>4
<1> HIDE DEF a, b
<1>3. a \o b \in Seq(S) /\ DOMAIN (a \o b) = 1 .. Len(s) - 1
      /\ (\A k \in 1 .. i - 1 : (a \o b)[k] = a[k])
      /\ (\A k \in 1 .. Len(s) - i : (a \o b)[i - 1 + k] = b[k])
  <2>1. /\ a \o b \in Seq(S) /\ Len(a \o b) = Len(a) + Len(b)
        /\ \A k \in 1 .. Len(a) + Len(b) : (a \o b)[k] = IF k <= Len(a) THEN a[k] ELSE b[k - Len(a)]
    BY <1>1, <1>2, ConcatProperties
  <2>2. Len(a) = i - 1 /\ Len(b) = Len(s) - i /\ Len(a) + Len(b) = Len(s) - 1
    BY <1>0, <1>1, <1>2
  <2>3. \A k \in 1 .. i - 1 : k \in 1 .. Len(s) - 1 /\ k <= i - 1
    BY <1>0
  <2>5. DOMAIN (a \o b) = 1 .. Len(s) - 1
    BY <2>1, <2>2
  <2>6. \A k \in 1 .. i - 1 : (a \o b)[k] = a[k]
    BY <2>1, <2>2, <2>3
  <2>7. ASSUME NEW k \in 1 .. Len(s) - i PROVE (a \o b)[i - 1 + k] = b[k]
    <3> DEFINE j == i - 1 + k
    <3>1. j \in 1 .. Len(s) - 1 /\ ~(j <= i - 1) /\ j - (i - 1) = k
      BY <1>0
    <3> HIDE DEF j
    <3>2. (a \o b)[j] = b[j - (i - 1)]
      BY <2>1, <2>2, <3>1
    <3>3. (a \o b)[j] = b[k]
      BY <3>1, <3>2
    <3> QED BY <3>3 DEF j
  <2> QED BY <2>1, <2>5, <2>6, <2>7
<1>4. ASSUME NEW j \in DOMAIN s, j # i PROVE \E k \in DOMAIN (a \o b) : (a \o b)[k] = s[j]
  <2>1. j \in 1 .. Len(s)
    OBVIOUS
  <2>2. CASE j < i
    <3>1. j \in 1 .. i - 1 /\ j \in 1 .. Len(s) - 1
      BY <1>0, <2>1, <2>2
    <3> QED BY <1>1, <1>3, <3>1
  <2>3. CASE j > i
    <3>1. j - i \in 1 .. Len(s) - i /\ i - 1 + (j - i) = j - 1 /\ j - 1 \in 1 .. Len(s) - 1 /\ i + (j - i) = j
      BY <1>0, <2>1, <2>3
    <3>2. (a \o b)[j - 1] = s[j]
      BY <1>2, <1>3, <3>1
    <3> QED BY <1>3, <3>1, <3>2
  <2> QED BY <1>0, <1>4, <2>1, <2>2, <2>3
<1> QED BY <1>0, <1>3, <1>4

LEMMA StashInit == Stash!Init => StashInv
<1> SUFFICES ASSUME Stash!Init PROVE StashInv
  OBVIOUS
<1>1. stack \in Seq(StashEntries) /\ ref \in [Worktrees -> Nat] /\ stashPc \in [Worktrees -> StashPcs]
  BY DEF Stash!Init, StashPcs
<1> QED BY <1>1 DEF Stash!Init, StashInv

(* The steps that leave the work where it is.                              *)
LEMMA StashWaits ==
  ASSUME StashInv, UNCHANGED <<tree, stack, made>>, NEW w \in Worktrees, NEW l \in StashPcs, Stash!To(w, l), l # "drop",
         ref' \in [Worktrees -> Nat], \A v \in Worktrees : v # w => ref'[v] = ref[v]
  PROVE  StashInv'
BY DEF StashInv, StashPcs, Stash!To

(* A stash, by the command or by the operator, of what is in the worktree. *)
LEMMA StashTakes ==
  ASSUME StashInv, \A u, v \in Worktrees : u = v, NEW w \in Worktrees, NEW m \in {"auto", "own"},
         stack' = <<Stash!Entry(w, m)>> \o stack, tree' = [tree EXCEPT ![w] = {}],
         UNCHANGED <<made, ref>>, stashPc' \in [Worktrees -> StashPcs], stashPc'[w] # "drop"
  PROVE  StashInv'
<1> DEFINE e == Stash!Entry(w, m)
<1>1. e \in StashEntries /\ e.work = tree[w]
  BY DEF StashInv, Stash!Entry, StashEntries
<1> HIDE DEF e
<1>2. /\ stack' \in Seq(StashEntries) /\ 1 \in DOMAIN stack' /\ stack'[1] = e
      /\ \A i \in DOMAIN stack : i + 1 \in DOMAIN stack' /\ stack'[i + 1] = stack[i]
  BY <1>1, PushedOnTop DEF StashInv, e
<1>3. ASSUME NEW x \in made
      PROVE  (\E i \in DOMAIN stack' : x \in stack'[i].work) \/ \E v \in Worktrees : x \in tree'[v]
  <2>1. CASE \E v \in Worktrees : x \in tree[v]
    BY <1>1, <1>2, <2>1 DEF StashInv
  <2>2. CASE \E i \in DOMAIN stack : x \in stack[i].work
    <3>1. PICK i \in DOMAIN stack : x \in stack[i].work
      BY <2>2
    <3> QED BY <1>2, <3>1
  <2> QED BY <2>1, <2>2 DEF StashInv
<1> QED BY <1>2, <1>3 DEF StashInv

LEMMA StashStep ==
  ASSUME StashInv, \A u, v \in Worktrees : u = v, [Stash!Next]_Stash!vars
  PROVE  StashInv'
<1> USE DEF Stash!History
<1>0. CASE UNCHANGED Stash!vars
  BY <1>0 DEF Stash!vars, StashInv
<1>1. ASSUME NEW w \in Worktrees, Stash!Fresh(w) PROVE StashInv'
  <2>1. stashPc' \in [Worktrees -> StashPcs] /\ stashPc'[w] = "replay" /\ UNCHANGED <<made, ref>>
    BY <1>1 DEF Stash!Fresh, Stash!To, StashInv, StashPcs
  <2>2. CASE stack' = <<Stash!Entry(w, "auto")>> \o stack /\ tree' = [tree EXCEPT ![w] = {}]
    BY <2>1, <2>2, StashTakes
  <2>3. CASE UNCHANGED <<stack, tree>>
    BY <1>1, <2>1, <2>3, StashWaits DEF Stash!Fresh, StashInv, StashPcs
  <2> QED BY <1>1, <2>2, <2>3 DEF Stash!Fresh
<1>2. ASSUME NEW w \in Worktrees,
             Stash!Resume(w) \/ Stash!Replay(w) \/ Stash!Restore(w) \/ Stash!PopFails(w) \/ Stash!Kill(w)
      PROVE  StashInv'
  <2>1. UNCHANGED <<tree, stack, made>> /\ \E l \in {"replay", "restore", "off", "pop"} : Stash!To(w, l)
    BY <1>2 DEF Stash!Resume, Stash!Replay, Stash!Restore, Stash!PopFails, Stash!Kill
  <2>2. ref' = ref \/ \E i \in DOMAIN stack : ref' = [ref EXCEPT ![w] = i]
    BY <1>2 DEF Stash!Resume, Stash!Replay, Stash!Restore, Stash!PopFails, Stash!Kill
  <2>3. ref' \in [Worktrees -> Nat] /\ \A v \in Worktrees : v # w => ref'[v] = ref[v]
    BY <2>2 DEF StashInv
  <2> QED BY <2>1, <2>3, StashWaits DEF StashPcs
<1>3. ASSUME NEW w \in Worktrees, Stash!Pop(w) PROVE StashInv'
  <2>0. stack \in Seq(StashEntries) /\ ref[w] \in DOMAIN stack
    BY <1>3 DEF StashInv, Stash!Pop, Stash!There
  <2>1. /\ stack' = Stash!RemoveAt(stack, ref[w]) /\ tree' = [tree EXCEPT ![w] = @ \cup stack[ref[w]].work]
        /\ UNCHANGED <<made, ref>> /\ stashPc' = [stashPc EXCEPT ![w] = "off"]
    BY <1>3 DEF Stash!Pop, Stash!There, Stash!PoppedFrom, Stash!To
  <2>2. /\ stack' \in Seq(StashEntries)
        /\ \A j \in DOMAIN stack : j # ref[w] => \E k \in DOMAIN stack' : stack'[k] = stack[j]
    BY <2>0, <2>1, RemovedOnlyThat
  <2>3. stack[ref[w]].work \in SUBSET Edits
    <3>1. stack[ref[w]] \in StashEntries
      BY <2>0
    <3> QED BY <3>1 DEF StashEntries
  <2>4. tree' \in [Worktrees -> SUBSET Edits] /\ stashPc' \in [Worktrees -> StashPcs]
    BY <2>1, <2>3 DEF StashInv, StashPcs
  <2>5. ASSUME NEW x \in made
        PROVE  (\E i \in DOMAIN stack' : x \in stack'[i].work) \/ \E v \in Worktrees : x \in tree'[v]
    <3>1. CASE \E v \in Worktrees : x \in tree[v]
      BY <2>1, <3>1 DEF StashInv
    <3>2. CASE \E i \in DOMAIN stack : x \in stack[i].work
      BY <2>1, <2>2, <3>2 DEF StashInv
    <3> QED BY <3>1, <3>2 DEF StashInv
  <2>6. \A v \in Worktrees : stashPc'[v] # "drop"
    BY <2>1 DEF StashInv
  <2> QED BY <2>1, <2>2, <2>4, <2>5, <2>6 DEF StashInv
<1>4. ASSUME NEW w \in Worktrees, Stash!PopConflicts(w) PROVE StashInv'
  <2>0. stack \in Seq(StashEntries) /\ ref[w] \in DOMAIN stack
    BY <1>4 DEF StashInv, Stash!PopConflicts, Stash!There
  <2>1. tree' = [tree EXCEPT ![w] = @ \cup stack[ref[w]].work] /\ UNCHANGED <<stack, made, ref>>
        /\ \E l \in {"drop", "off"} : stashPc' = [stashPc EXCEPT ![w] = l]
    BY <1>4 DEF Stash!PopConflicts, Stash!PoppedFrom, Stash!To
  <2>2. stack[ref[w]].work \in SUBSET Edits
    <3>1. stack[ref[w]] \in StashEntries
      BY <2>0
    <3> QED BY <3>1 DEF StashEntries
  <2>3. tree' \in [Worktrees -> SUBSET Edits] /\ stashPc' \in [Worktrees -> StashPcs]
    BY <2>1, <2>2 DEF StashInv, StashPcs
  <2>4. \A v \in Worktrees : tree[v] \subseteq tree'[v]
    BY <2>1 DEF StashInv
  <2>5. stack[ref[w]].work \subseteq tree'[w] /\ \A v \in Worktrees : v = w
    BY <2>1 DEF StashInv
  <2> QED BY <2>0, <2>1, <2>3, <2>4, <2>5 DEF StashInv
<1>5. ASSUME NEW w \in Worktrees, Stash!Drop(w) PROVE StashInv'
  <2>0. stack \in Seq(StashEntries) /\ ref[w] \in DOMAIN stack /\ stack[ref[w]].work \subseteq tree[w]
    BY <1>5 DEF StashInv, Stash!Drop
  <2>1. /\ stack' = Stash!RemoveAt(stack, ref[w])
        /\ UNCHANGED <<tree, made, ref>> /\ stashPc' = [stashPc EXCEPT ![w] = "off"]
    BY <1>5, <2>0 DEF Stash!Drop, Stash!DropAt, Stash!To
  <2>2. /\ stack' \in Seq(StashEntries)
        /\ \A j \in DOMAIN stack : j # ref[w] => \E k \in DOMAIN stack' : stack'[k] = stack[j]
    BY <2>0, <2>1, RemovedOnlyThat
  <2>5. ASSUME NEW x \in made
        PROVE  (\E i \in DOMAIN stack' : x \in stack'[i].work) \/ \E v \in Worktrees : x \in tree[v]
    BY <2>0, <2>2 DEF StashInv
  <2>6. stashPc' \in [Worktrees -> StashPcs] /\ \A v \in Worktrees : stashPc'[v] # "drop"
    BY <2>1 DEF StashInv, StashPcs
  <2> QED BY <2>1, <2>2, <2>5, <2>6 DEF StashInv
<1>6. ASSUME NEW w \in Worktrees, Stash!AbortCommand(w) PROVE StashInv'
  BY <1>6 DEF Stash!AbortCommand, StashInv
<1>7. ASSUME NEW w \in Worktrees, NEW e \in Edits, Stash!Edit(w, e) PROVE StashInv'
  <2>1. tree' = [tree EXCEPT ![w] = @ \cup {e}] /\ made' = made \cup {e} /\ UNCHANGED <<stack, stashPc, ref>>
    BY <1>7 DEF Stash!Edit
  <2>2. tree' \in [Worktrees -> SUBSET Edits] /\ e \in tree'[w] /\ \A v \in Worktrees : tree[v] \subseteq tree'[v]
    BY <2>1 DEF StashInv
  <2> QED BY <2>1, <2>2 DEF StashInv
<1>8. ASSUME NEW w \in Worktrees, Stash!OwnStash(w) PROVE StashInv'
  BY <1>8, StashTakes DEF Stash!OwnStash, StashInv, StashPcs
<1>9. ASSUME NEW w \in Worktrees, NEW e \in Edits, Stash!StashPaused(w, e) PROVE StashInv'
  <2> DEFINE new == [from |-> w, msg |-> "own", work |-> {e}]
  <2>0. new \in StashEntries /\ new.work = {e}
    BY DEF StashEntries
  <2>1. stack' = <<new>> \o stack /\ made' = made \cup {e} /\ UNCHANGED <<tree, stashPc, ref>>
        /\ stashPc[w] # "drop"
    BY <1>9 DEF Stash!StashPaused
  <2> HIDE DEF new
  <2>2. /\ stack' \in Seq(StashEntries) /\ 1 \in DOMAIN stack' /\ stack'[1] = new
        /\ \A i \in DOMAIN stack : i + 1 \in DOMAIN stack' /\ stack'[i + 1] = stack[i]
    BY <2>0, <2>1, PushedOnTop DEF StashInv
  <2>3. ASSUME NEW x \in made'
        PROVE  (\E i \in DOMAIN stack' : x \in stack'[i].work) \/ \E v \in Worktrees : x \in tree[v]
    <3>1. CASE x = e
      BY <2>0, <2>2, <3>1
    <3>2. CASE \E v \in Worktrees : x \in tree[v]
      BY <3>2
    <3>3. CASE \E i \in DOMAIN stack : x \in stack[i].work
      <4>1. PICK i \in DOMAIN stack : x \in stack[i].work
        BY <3>3
      <4> QED BY <2>2, <4>1
    <3> QED BY <2>1, <3>1, <3>2, <3>3 DEF StashInv
  <2>4. \A v \in Worktrees : stashPc[v] # "drop"
    BY <2>1
  <2> QED BY <2>1, <2>2, <2>3, <2>4 DEF StashInv
<1> QED BY <1>0, <1>1, <1>2, <1>3, <1>4, <1>5, <1>6, <1>7, <1>8, <1>9 DEF Stash!Next

(* stash.py: "Nothing is lost either way", wherever a run stops, is killed *)
(* or resumes, where the repository has one worktree: with a second one, a *)
(* stash made there between the pop and the drop moves the entries up.     *)
THEOREM WorkIsAlwaysKept ==
  ASSUME \A u, v \in Worktrees : u = v PROVE Spec => []WorkKept
<1>1. Init => StashInv
  BY EveryPartStarts, StashInit
<1>2. StashInv /\ [Next]_vars => StashInv'
  BY OnePartMoves, StashStep
<1>3. StashInv => WorkKept
  BY DEF StashInv, WorkKept, Stash!WorkKept, Stash!Stashed
<1> QED BY <1>1, <1>2, <1>3, PTL DEF Spec
=============================================================================
