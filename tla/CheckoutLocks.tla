--------------------------- MODULE CheckoutLocks ---------------------------
(*****************************************************************************)
(* The locks of a checkout: the run and target locks of core.run_lock       *)
(* (RunLock), the record of the sessions that edit (SessionLock), the lock  *)
(* of those that validate (TreeLock) and the claims on a plan's refs        *)
(* (BatchClaims).  They share no state; part says which of them moves.      *)
(*****************************************************************************)

CONSTANTS
  \* RunLock
  Processes, Locks, Resources, None, Prober, MaxTries, MaxBlocks, Orphans,
  \* SessionLock
  Sessions, Claude, Pid(_), Id(_), Prefix, HooksOverlap, PsFails, Clears,
  \* TreeLock
  Validators, Guards, WritesOverlap, Edits, Kills, Errors,
  \* BatchClaims
  Plans, Sweepers, Repos, Registered, MaxKills, MaxSweeps, FaultSets

VARIABLES
  part,   \* the component that moves
  \* RunLock
  runFlock, record, runPc, want, mine, depth, passed, env, parent, tries, blocks,
  refusal,
  \* SessionLock
  on, seen, hook, name, disk, claimed, pass, ps, clears,
  \* TreeLock
  treePc, outer, existing, treeFlock, made, lines, guard, edits, errors, kills, dropped,
  \* BatchClaims
  claims, writers, refs, saved, got, plan, late, sweep, sweeps, claimKills, faults

runVars == <<runFlock, record, runPc, want, mine, depth, passed, env, parent, tries,
  blocks, refusal>>
sessionVars == <<on, seen, hook, name, disk, claimed, pass, ps, clears>>
treeVars == <<treePc, outer, existing, treeFlock, made, lines, guard, edits, errors,
  kills, dropped>>
claimVars == <<claims, writers, refs, saved, got, plan, late, sweep, sweeps, claimKills,
  faults>>
vars == <<part, runVars, sessionVars, treeVars, claimVars>>

Run == INSTANCE RunLock WITH Procs <- Processes, flock <- runFlock, pc <- runPc
Session == INSTANCE SessionLock WITH Overlap <- HooksOverlap
Tree == INSTANCE TreeLock WITH Overlap <- WritesOverlap, pc <- treePc, flock <- treeFlock
Claims == INSTANCE BatchClaims WITH run <- saved, kills <- claimKills

ASSUME ConstantsAssumption ==
  /\ Run!LockAssumption
  /\ Session!SessionLockConstants
  /\ Tree!TreeLockConstants
  /\ Claims!ClaimAssumption

Init ==
  /\ part \in {"run", "session", "tree", "claims"}
  /\ Run!Init
  /\ Session!Init
  /\ Tree!Init
  /\ Claims!Init

Next ==
  \/ part = "run" /\ Run!Next /\ UNCHANGED <<part, sessionVars, treeVars, claimVars>>
  \/ part = "session" /\ Session!Next /\ UNCHANGED <<part, runVars, treeVars, claimVars>>
  \/ part = "tree" /\ Tree!Next /\ UNCHANGED <<part, runVars, sessionVars, claimVars>>
  \/ part = "claims" /\ Claims!Next /\ UNCHANGED <<part, runVars, sessionVars, treeVars>>

Spec == Init /\ [][Next]_vars
-----------------------------------------------------------------------------
\* run_lock.py: a record that says a live process holds a lock is true, for
\* whoever is refused is told of that process.
RecordIsTrue == Run!RecordIsTrue

\* session_lock.py, `acquire`: "Record that pid is editing worktree. True
\* when recorded", of hooks that take turns.
ClaimHolds == Session!ClaimHolds

\* tree_lock.py, `probe`: an edit is let through only when none of the
\* validators it found had declared itself.
DeclaredIsHeeded == Tree!DeclaredIsHeeded

\* plan.py, gc.py: whoever needs the refs of a plan has them, and what is left
\* of them is known to the next sweep.
RefsAreOwned == Claims!RefsAreOwned
=============================================================================
