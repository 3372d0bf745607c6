------------------------------ MODULE TreeLock ------------------------------
(***************************************************************************)
(* The lock that says a worktree is being validated: core/tree_lock.py,    *)
(* its command line, and the edit guards of both harnesses that ask it.    *)
(*                                                                         *)
(* A validator holds the lock shared for as long as its command runs and   *)
(* adds a line to the lock file; a nested one finds its own marker and     *)
(* does neither.  A guard probes for the exclusive lock before an edit.    *)
(* The kernel grants flocks; a change from exclusive to shared gives the   *)
(* lock up first.                                                          *)
(***************************************************************************)
EXTENDS Naturals, FiniteSets

CONSTANTS
  Validators,   \* wrapper processes, each for one command
  Guards,       \* edit guards, each for edits of one session
  Overlap,      \* whether two validators write their lines at once
  Edits,        \* bound: edits asked for
  Kills,        \* bound: wrappers killed
  Errors        \* bound: probes that cannot answer

\* What the constants may be: whoever instantiates this module assumes it.
TreeLockConstants ==
  /\ Validators \cap Guards = {} /\ IsFiniteSet(Validators \cup Guards)
  /\ Overlap \in BOOLEAN /\ {Edits, Kills, Errors} \subseteq Nat

VARIABLES
  pc,        \* per validator
  outer,     \* per validator: the one in whose process tree it runs, or "none"
  existing,  \* per validator: the lines it read
  flock,     \* per process: "none", "shared" or "exclusive"
  made,      \* whether the lock file exists
  lines,     \* the lines in it, each named by its validator
  guard,     \* per guard: [pc, inside, probed]; inside is the validator it runs under
  edits, errors, kills,
  dropped    \* ghost: a truncation on the exclusive lock took a holder's line

vars == <<pc, outer, existing, flock, made, lines, guard, edits, errors, kills, dropped>>

Procs == Validators \cup Guards

Init ==
  /\ pc = [v \in Validators |-> "idle"] /\ outer = [v \in Validators |-> "none"]
  /\ existing = [v \in Validators |-> {}]
  /\ flock = [p \in Procs |-> "none"]
  /\ made = FALSE /\ lines = {} /\ dropped = FALSE
  /\ guard = [g \in Guards |-> [pc |-> "idle", inside |-> "none", probed |-> {}]]
  /\ edits = Edits /\ errors = Errors /\ kills = Kills

Runs(v) == pc[v] \in {"running", "nested"}
Alive(v) == pc[v] \notin {"idle", "done"}
Declared(v) == pc[v] = "running" /\ flock[v] = "shared"

CanShare(p) == \A q \in Procs \ {p} : flock[q] # "exclusive"
CanExclude(p) == \A q \in Procs \ {p} : flock[q] = "none"
Lock(p, m) == flock' = [flock EXCEPT ![p] = m]
Go(v, at) == pc' = [pc EXCEPT ![v] = at]
Guarded == UNCHANGED <<guard, edits, errors, kills>>

-----------------------------------------------------------------------------
(* `acquire`.                                                              *)

\* The marker of an enclosing validator of this tree: nothing is declared.
Nested(v) ==
  /\ pc[v] = "idle"
  /\ \E w \in Validators : Runs(w) /\ outer' = [outer EXCEPT ![v] = w]
  /\ Go(v, "nested")
  /\ UNCHANGED <<existing, flock, made, lines, dropped>> /\ Guarded

\* "a+": the file is made and nothing in it is lost.
Start(v) ==
  /\ pc[v] = "idle"
  /\ made' = TRUE /\ Go(v, "opened")
  /\ UNCHANGED <<outer, existing, flock, lines, dropped>> /\ Guarded

\* Mutant: the file is emptied whether or not anybody holds the lock.
ProveEmptyAnyway(v) ==
  /\ pc[v] = "opened"
  /\ dropped' = (dropped \/ \E w \in lines : Declared(w)) /\ lines' = {}
  /\ UNCHANGED flock /\ Go(v, "share")
  /\ UNCHANGED <<outer, existing, made>> /\ Guarded

\* Getting the exclusive lock proves that nobody holds it: what is in the file
\* is stale.
ProveEmpty(v) ==
  /\ pc[v] = "opened"
  /\ IF CanExclude(v)
     THEN /\ Lock(v, "exclusive") /\ lines' = {}
          /\ dropped' = (dropped \/ \E w \in lines : Declared(w))
     ELSE UNCHANGED <<flock, lines, dropped>>
  /\ Go(v, "share")
  /\ UNCHANGED <<outer, existing, made>> /\ Guarded

\* The change to shared: the kernel gives up the exclusive lock ...
GiveUp(v) ==
  /\ pc[v] = "share" /\ flock[v] = "exclusive" /\ Lock(v, "none")
  /\ UNCHANGED <<pc, outer, existing, made, lines, dropped>> /\ Guarded

\* Mutant: it goes on without when somebody probes.
ShareNow(v) ==
  /\ pc[v] = "share" /\ flock[v] = "none"
  /\ Lock(v, IF CanShare(v) THEN "shared" ELSE "none") /\ Go(v, "reading")
  /\ UNCHANGED <<outer, existing, made, lines, dropped>> /\ Guarded

\* ... and waits for the shared one.
Share(v) ==
  /\ pc[v] = "share" /\ flock[v] = "none" /\ CanShare(v)
  /\ Lock(v, "shared") /\ Go(v, "reading")
  /\ UNCHANGED <<outer, existing, made, lines, dropped>> /\ Guarded

\* `_record`: the lines of the living are kept ...
ReadLines(v) ==
  /\ pc[v] = "reading"
  /\ Overlap \/ \A w \in Validators : pc[w] \notin {"truncating", "writing"}
  /\ existing' = [existing EXCEPT ![v] = {w \in lines : Alive(w)}]
  /\ Go(v, "truncating")
  /\ UNCHANGED <<outer, flock, made, lines, dropped>> /\ Guarded

\* ... the file is emptied ...
Truncate(v) ==
  /\ pc[v] = "truncating" /\ lines' = {} /\ Go(v, "writing")
  /\ UNCHANGED <<outer, existing, flock, made, dropped>> /\ Guarded

\* Mutant: only its own line is written back.
WriteOwn(v) ==
  /\ pc[v] = "writing" /\ lines' = lines \cup {v} /\ Go(v, "running")
  /\ UNCHANGED <<outer, existing, flock, made, dropped>> /\ Guarded

\* ... and they are appended with its own.
WriteLines(v) ==
  /\ pc[v] = "writing"
  /\ lines' = lines \cup existing[v] \cup {v} /\ Go(v, "running")
  /\ UNCHANGED <<outer, existing, flock, made, dropped>> /\ Guarded

\* The command is over.  An enclosing validator waits for what runs inside it.
End(v) ==
  /\ Runs(v) /\ \A w \in Validators : outer[w] = v => ~Runs(w)
  /\ Lock(v, "none") /\ Go(v, "done")
  /\ UNCHANGED <<outer, existing, made, lines, dropped>> /\ Guarded

\* A wrapper is killed at any step and waits for nobody; the kernel drops its lock.
Kill(v) ==
  /\ Alive(v) /\ kills > 0 /\ kills' = kills - 1
  /\ Lock(v, "none") /\ Go(v, "done")
  /\ UNCHANGED <<outer, existing, made, lines, dropped, guard, edits, errors>>

-----------------------------------------------------------------------------
(* An edit guard.                                                          *)

Set(g, at) == guard' = [guard EXCEPT ![g].pc = at]
Still == UNCHANGED <<pc, outer, existing, made, lines, dropped, kills>>

\* An edit is asked for, perhaps from inside a running validator.
Ask(g) ==
  /\ guard[g].pc = "idle" /\ edits > 0 /\ edits' = edits - 1
  /\ \E i \in {v \in Validators : Runs(v)} \cup {"none"} :
       guard' = [guard EXCEPT ![g] = [pc |-> "asked", inside |-> i,
                                      probed |-> {v \in Validators : Declared(v)}]]
  /\ UNCHANGED <<flock, errors>> /\ Still

\* Mutant: a reader inside a validator trusts the marker it inherits.
ProbeTrusting(g) ==
  /\ guard[g].pc = "asked"
  /\ IF guard[g].inside # "none" \/ ~made \/ CanExclude(g)
     THEN Set(g, "free") ELSE Set(g, "held")
  /\ UNCHANGED <<flock, edits, errors>> /\ Still

\* `probe`: free when no file was ever made; held when the exclusive lock is
\* refused.
Probe(g) ==
  /\ guard[g].pc = "asked"
  /\ IF ~made THEN Set(g, "free") /\ UNCHANGED flock
     ELSE IF CanExclude(g) THEN Set(g, "unlock") /\ Lock(g, "exclusive")
     ELSE Set(g, "held") /\ UNCHANGED flock
  /\ UNCHANGED <<edits, errors>> /\ Still

\* git hung, or the file could not be opened or locked: the guard fails open.
ProbeFails(g) ==
  /\ guard[g].pc = "asked" /\ errors > 0 /\ errors' = errors - 1
  /\ Set(g, "unknown")
  /\ UNCHANGED <<flock, edits>> /\ Still

\* Mutant: the guard goes on to its verdict with the lock in hand.
KeepLock(g) ==
  /\ guard[g].pc = "unlock" /\ Set(g, "free")
  /\ UNCHANGED <<flock, edits, errors>> /\ Still

Unlock(g) ==
  /\ guard[g].pc = "unlock" /\ Lock(g, "none") /\ Set(g, "free")
  /\ UNCHANGED <<edits, errors>> /\ Still

Land(g) ==
  /\ guard[g].pc \in {"free", "unknown"} /\ Set(g, "idle")
  /\ UNCHANGED <<flock, edits, errors>> /\ Still

Refuse(g) ==
  /\ guard[g].pc = "held" /\ Set(g, "idle")
  /\ UNCHANGED <<flock, edits, errors>> /\ Still

-----------------------------------------------------------------------------
Validate(v) == Nested(v) \/ Start(v) \/ ProveEmpty(v) \/ GiveUp(v) \/ Share(v) \/ ReadLines(v) \/ Truncate(v) \/ WriteLines(v)
Guarding(g) == Probe(g) \/ Unlock(g)

Next ==
  \/ \E v \in Validators : Validate(v) \/ End(v) \/ Kill(v)
  \/ \E g \in Guards : Ask(g) \/ Guarding(g) \/ ProbeFails(g) \/ Land(g) \/ Refuse(g)

Spec == Init /\ [][Next]_vars

\* Wrappers and guards run; sessions need not go on after a verdict.
FairSpec ==
  /\ Spec
  /\ \A v \in Validators : WF_vars(GiveUp(v) \/ ProveEmpty(v) \/ Share(v) \/ ReadLines(v) \/ Truncate(v) \/ WriteLines(v))
  /\ \A g \in Guards : WF_vars(Guarding(g))

-----------------------------------------------------------------------------
TypeOK ==
  /\ \A v \in Validators :
       /\ pc[v] \in {"idle", "nested", "opened", "share", "reading", "truncating", "writing", "running", "done"}
       /\ outer[v] \in Validators \cup {"none"} /\ existing[v] \subseteq Validators
       /\ pc[v] \in {"reading", "truncating", "writing", "running"} => flock[v] = "shared"
  /\ \A p \in Procs : flock[p] \in {"none", "shared", "exclusive"}
  /\ \A p, q \in Procs : flock[p] = "exclusive" /\ p # q => flock[q] = "none"
  /\ lines \subseteq Validators /\ (lines # {} => made)
  /\ \A g \in Guards : guard[g].pc \in {"idle", "asked", "unlock", "free", "held", "unknown"}
                       /\ guard[g].probed \subseteq Validators
  /\ edits \in 0 .. Edits /\ errors \in 0 .. Errors /\ kills \in 0 .. Kills

\* An edit asked for while a validation is declared, and which runs on, is
\* refused, also when it comes from inside that validation.
DeclaredIsHeeded ==
  \A g \in Guards : guard[g].pc = "free" => \A v \in guard[g].probed : ~Declared(v)

\* Emptying the file on the exclusive lock never takes the line of a holder.
StaleIsStale == ~dropped

\* The file names every validator that holds the lock and has written its line.
HoldersAreNamed ==
  \A v \in Validators : Declared(v) => v \in lines \/ \E w \in Validators : pc[w] = "writing"

\* A validator gets its lock, whoever probes.
Acquired == \A v \in Validators : pc[v] = "opened" ~> pc[v] \in {"running", "done"}

-----------------------------------------------------------------------------
(* What the sources say and the code does not do.                          *)

\* tree_lock.py, `is_locked`: the exclusive lock fails precisely when at least
\* one shared holder exists, so a failed probe means locked.
HeldIsValidated ==
  [][\A g \in Guards : guard[g].pc = "asked" /\ guard'[g].pc = "held"
       => \E v \in Validators : Alive(v) /\ flock[v] # "none"]_vars

\* session_lock.py, its module docstring: a validator is reading this tree, so
\* nothing may edit it, and both edit guards refuse writes while it is held.
NothingEdits ==
  [][\A g \in Guards : guard[g].pc = "free" /\ guard'[g].pc = "idle"
       => \A v \in Validators : ~Declared(v)]_vars
=============================================================================
