----------------------------- MODULE PushIntent -----------------------------
(***************************************************************************)
(* The pushes a machine has not heard the end of (pr/push_intent.py).  The *)
(* global pre-push hook writes down what a push is about to send; the next *)
(* `pr` command asks the remote about every record and reports what did    *)
(* not land.  Hook and commands share one file, without a lock.            *)
(*                                                                         *)
(* A push is the commit it sends.  `above` is its history.  A branch may   *)
(* be merged meanwhile, by a merge commit or squashed, and its ref deleted.*)
(***************************************************************************)
EXTENDS Naturals, Sequences, FiniteSets, SequencesExt

CONSTANTS
  Pushes, Refs, Commands, None,
  MaxAttempts,   \* _MAX_ATTEMPTS
  MaxRecords,    \* _MAX_RECORDS
  MaxMerges, MaxFailures,
  Overlap,       \* hooks and commands may be between a read and a write together
  InFlight       \* a command may run while a push is being transferred

\* What the constants may be: whoever instantiates this module assumes it.
BoundAssumption ==
  /\ MaxAttempts \in Nat \ {0} /\ MaxRecords \in Nat \ {0}
  /\ MaxMerges \in Nat /\ MaxFailures \in Nat
  /\ {Overlap, InFlight} \subseteq BOOLEAN
  /\ None \notin Pushes \cup Refs /\ Pushes \cap Commands = {}

VARIABLES
  file,          \* the records, oldest first
  remote, trunk, squashed, merged,
                 \* the tip of a ref; what the default branch has, whole or
                 \* squashed; the refs whose pull request was merged
  above,         \* the pushes in the history of a push's commit
  pc, copy,      \* where a hook or a command is, the records it has loaded
  ref, fate,     \* what a push sends where, and what became of it
  answers,       \* what a command has learned
  reports, silent,   \* how often a push was reported as lost or unverified;
                     \* the pushes drained as landed
  merges, failures

shared == <<remote, trunk, squashed, merged, merges>>
pushed == <<above, ref, fate>>
told == <<reports, silent>>
vars == <<file, shared, pushed, pc, copy, answers, told, failures>>

Record(p, n) == [push |-> p, ref |-> ref[p], attempts |-> n]
Records == [push : Pushes, ref : Refs, attempts : 0..(MaxAttempts - 1)]
Outcomes == {"landed", "lost", "unanswered"}

Init ==
  /\ file = <<>>
  /\ remote = [r \in Refs |-> None] /\ trunk = {} /\ squashed = {} /\ merged = {}
  /\ above = [p \in Pushes |-> {p}]
  /\ pc = [x \in Pushes \cup Commands |-> "idle"]
  /\ copy = [x \in Pushes \cup Commands |-> <<>>]
  /\ ref = [p \in Pushes |-> None] /\ fate = [p \in Pushes |-> "none"]
  /\ answers = [c \in Commands |-> <<>>]
  /\ reports = [p \in Pushes |-> 0] /\ silent = {}
  /\ merges = 0 /\ failures = 0

\* Nobody else stands between its read of the file and its write.
Alone == Overlap \/ \A x \in Pushes \cup Commands : pc[x] \notin {"recording", "asking"}

\* _save: the newest records, as many as are kept.
Newest(s) == IF Len(s) > MaxRecords THEN SubSeq(s, Len(s) - MaxRecords + 1, Len(s)) ELSE s
-----------------------------------------------------------------------------
(* A push: the hook records it once its own gates have passed, then git    *)
(* transfers it.  It may continue what the remote has, or replace it.      *)

HookLoads(p, r) ==
  /\ pc[p] = "idle" /\ Alone
  /\ \A q \in Pushes : pc[q] = "transfer" => ref[q] # r
  /\ ref' = [ref EXCEPT ![p] = r]
  /\ \E onto \in {None, remote[r]} :
       above' = [above EXCEPT ![p] = {p} \cup IF onto = None THEN {} ELSE above[onto]]
  /\ copy' = [copy EXCEPT ![p] = file]
  /\ pc' = [pc EXCEPT ![p] = "recording"]
  /\ UNCHANGED <<file, shared, fate, answers, told, failures>>

KeptTwice(p) == copy[p]      \* Mutant: the record it replaces is kept.
Kept(p) == SelectSeq(copy[p], LAMBDA i : i.ref # ref[p])

HookSaves(p) ==
  /\ pc[p] = "recording"
  /\ file' = Newest(Append(Kept(p), Record(p, 0)))
  /\ pc' = [pc EXCEPT ![p] = "transfer"]
  /\ UNCHANGED <<shared, pushed, copy, answers, told, failures>>

\* A delete replaces the record and leaves none.
HookSavesDelete(p) ==
  /\ pc[p] = "recording" /\ remote[ref[p]] # None
  /\ file' = Newest(Kept(p))
  /\ remote' = [remote EXCEPT ![ref[p]] = None]
  /\ fate' = [fate EXCEPT ![p] = "deleted"]
  /\ pc' = [pc EXCEPT ![p] = "over"]
  /\ UNCHANGED <<trunk, squashed, merged, merges, above, ref, copy, answers, told, failures>>

PushEnds(p) ==
  /\ pc[p] = "transfer" /\ pc' = [pc EXCEPT ![p] = "over"]
  /\ \/ fate' = [fate EXCEPT ![p] = "landed"] /\ remote' = [remote EXCEPT ![ref[p]] = p]
     \/ fate' = [fate EXCEPT ![p] = "lost"] /\ UNCHANGED remote
  /\ UNCHANGED <<file, trunk, squashed, merged, merges, above, ref, copy, answers, told, failures>>

\* The pull request of a ref is merged and its ref deleted.
Merge(r) ==
  /\ merges < MaxMerges /\ remote[r] # None
  /\ \/ trunk' = trunk \cup above[remote[r]] /\ UNCHANGED squashed
     \/ squashed' = squashed \cup above[remote[r]] /\ UNCHANGED trunk
  /\ merged' = merged \cup {r} /\ remote' = [remote EXCEPT ![r] = None]
  /\ merges' = merges + 1
  /\ UNCHANGED <<file, pushed, pc, copy, answers, told, failures>>
-----------------------------------------------------------------------------
(* reconcile: load, ask about each record in turn, save, then report.      *)

Load(c) ==
  /\ pc[c] = "idle" /\ file # <<>> /\ Alone
  /\ InFlight \/ \A p \in Pushes : pc[p] # "transfer"
  /\ copy' = [copy EXCEPT ![c] = file] /\ answers' = [answers EXCEPT ![c] = <<>>]
  /\ pc' = [pc EXCEPT ![c] = "asking"]
  /\ UNCHANGED <<file, shared, pushed, told, failures>>

BuiltUponSwapped(p, tip) == tip # None /\ tip \in above[p]     \* Mutant: arguments swapped.
BuiltUpon(p, tip) == tip # None /\ p \in above[tip]
OnBranch(p, r) == BuiltUpon(p, remote[r])

(* _landed_elsewhere: by ancestry in the default branch, by content, or by *)
(* a merged pull request of the branch's name.                             *)
LandedElsewhere(p, r) == p \in trunk \cup squashed \/ r \in merged

Asked(c) == copy[c][Len(answers[c]) + 1]
Learn(c, outcome) ==
  answers' = [answers EXCEPT ![c] = Append(@, [record |-> Asked(c), outcome |-> outcome])]

Ask(c) ==
  /\ pc[c] = "asking" /\ Len(answers[c]) < Len(copy[c])
  /\ LET i == Asked(c) IN
     \/ \* the remote, or the tracker's budget, gives no answer
        /\ failures < MaxFailures /\ failures' = failures + 1
        /\ Learn(c, "unanswered")
     \/ /\ OnBranch(i.push, i.ref) \/ LandedElsewhere(i.push, i.ref)
        /\ Learn(c, "landed") /\ UNCHANGED failures
     \/ /\ ~OnBranch(i.push, i.ref) /\ ~LandedElsewhere(i.push, i.ref)
        /\ Learn(c, "lost") /\ UNCHANGED failures
  /\ UNCHANGED <<file, shared, pushed, pc, copy, told>>

ExhaustedLate(a) == a.record.attempts >= MaxAttempts      \* Mutant: one try too many.
Exhausted(a) == a.record.attempts + 1 >= MaxAttempts
StillAskingAll(a) == a.outcome # "landed" /\ ~Exhausted(a)   \* Mutant: kept after a report.
StillAsking(a) == a.outcome = "unanswered" /\ ~Exhausted(a)
WorthReportingLost(a) == a.outcome = "lost"               \* Mutant: the last try is forgotten.
WorthReporting(a) == a.outcome = "lost" \/ (a.outcome = "unanswered" /\ Exhausted(a))

Save(c) ==
  /\ pc[c] = "asking" /\ Len(answers[c]) = Len(copy[c])
  /\ LET kept == SelectSeq(answers[c], StillAsking) IN
     file' = Newest([k \in 1..Len(kept) |->
                       [kept[k].record EXCEPT !.attempts = @ + 1]])
  /\ pc' = [pc EXCEPT ![c] = "reporting"]
  /\ UNCHANGED <<shared, pushed, copy, answers, told, failures>>

Report(c) ==
  /\ pc[c] = "reporting"
  /\ LET worth == {a.record.push : a \in Range(SelectSeq(answers[c], WorthReporting))}
         done == {a.record.push : a \in {b \in Range(answers[c]) : b.outcome = "landed"}}
     IN /\ reports' = [p \in Pushes |-> IF p \in worth /\ reports[p] < 2
                                        THEN reports[p] + 1 ELSE reports[p]]
        /\ silent' = silent \cup done
  /\ pc' = [pc EXCEPT ![c] = "idle"]
  /\ answers' = [answers EXCEPT ![c] = <<>>] /\ copy' = [copy EXCEPT ![c] = <<>>]
  /\ UNCHANGED <<file, shared, pushed, failures>>

Hook(p) == (\E r \in Refs : HookLoads(p, r)) \/ HookSaves(p) \/ HookSavesDelete(p)
Command(c) == Load(c) \/ Ask(c) \/ Save(c) \/ Report(c)

Next ==
  \/ \E p \in Pushes : Hook(p) \/ PushEnds(p)
  \/ \E r \in Refs : Merge(r)
  \/ \E c \in Commands : Command(c)

Spec == Init /\ [][Next]_vars
(* A push that has begun ends, and `pr` commands keep being run. *)
FairSpec ==
  /\ Spec
  /\ \A p \in Pushes : WF_vars(HookSaves(p) \/ PushEnds(p))
  /\ \A c \in Commands : WF_vars(Command(c))
-----------------------------------------------------------------------------
TypeOK ==
  /\ file \in Seq(Records) /\ Len(file) <= MaxRecords
  /\ remote \in [Refs -> Pushes \cup {None}]
  /\ trunk \subseteq Pushes /\ squashed \subseteq Pushes /\ merged \subseteq Refs
  /\ above \in [Pushes -> SUBSET Pushes]
  /\ \A p \in Pushes : pc[p] \in {"idle", "recording", "transfer", "over"}
  /\ \A c \in Commands : pc[c] \in {"idle", "asking", "reporting"}
  /\ \A x \in Pushes \cup Commands : copy[x] \in Seq(Records)
  /\ ref \in [Pushes -> Refs \cup {None}]
  /\ fate \in [Pushes -> {"none", "landed", "lost", "deleted"}]
  /\ \A c \in Commands : answers[c] \in Seq([record : Records, outcome : Outcomes])
  /\ reports \in [Pushes -> 0..2] /\ silent \subseteq Pushes

\* push_intent.py: "Reconciliation reports a record at most once and then drops
\* it ... Nothing survives a report, so nothing can repeat one."
ReportedOnce == \A p \in Pushes : reports[p] <= 1

\* push_intent.py: "A push that landed drops silently".  A record is told as lost
\* or unverified only for want of an answer, or when it is not on the remote.
LandedIsSilent ==
  failures = 0 => \A p \in Pushes : fate[p] = "landed" => reports[p] = 0

\* push_intent.py, of the questions it refuses: "all of them in the direction
\* that keeps a genuinely lost push reportable".  What is drained as landed landed.
SilentLanded == \A p \in silent : fate[p] = "landed"

\* Short of that: a record drained as landed did land, or the tracker says that a
\* pull request of the branch's name was merged (_landed_elsewhere, merged_pr).
SilentHasEvidence == \A p \in silent : fate[p] = "landed" \/ ref[p] \in merged

\* A lost push that no later push to its ref has replaced is told in the end, by
\* the last try if the remote never answers, unless its branch counts as merged.
LostIsTold ==
  \A p \in Pushes :
    fate[p] = "lost" ~> \/ reports[p] > 0 \/ ref[p] \in merged
                        \/ \E q \in Pushes \ {p} : ref[q] = ref[p]
=============================================================================
