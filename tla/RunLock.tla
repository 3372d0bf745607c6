------------------------------ MODULE RunLock ------------------------------
(***************************************************************************)
(* The advisory locks of a `pr` command (core/run_lock.py, cli/locks.py):  *)
(* a flock and a holder record per scope, taken in one order, counted per  *)
(* process, passed through by the children a holder starts, left behind by *)
(* a killed one, probed by anybody.                                        *)
(*                                                                         *)
(* Scopes are numbered in the order every holder takes them (`ordered`).   *)
(***************************************************************************)
EXTENDS Naturals, Sequences, FiniteSets, SequencesExt

CONSTANTS
  Procs, Locks, Resources,
  None, Prober,
  MaxTries,      \* the pauses of a vacated refusal (VACATED_BUDGET_S)
  MaxBlocks,     \* blocks a command opens, one in the other
  Orphans        \* a parent may be killed while its child runs

\* What the constants may be: whoever instantiates this module assumes it.
LockAssumption ==
  /\ Locks \subseteq Nat /\ IsFiniteSet(Locks) /\ Resources \subseteq Locks
  /\ MaxTries \in Nat /\ MaxBlocks \in Nat \ {0} /\ Orphans \in BOOLEAN
  /\ None \notin Procs /\ Prober \notin Procs /\ None # Prober

VARIABLES
  flock,         \* who has the flock of a lock file
  record,        \* what its holder record says
  pc,
  want, mine,    \* the locks a block still takes; those its blocks give back
  depth,         \* _HELD: the takers a process counts on a lock
  passed,        \* the locks it passed through by its marker
  env, parent,   \* the marker it was started with, and by whom
  tries, blocks,
  refusal        \* the lock a command was refused, and who held it

files == <<flock, record>>
registry == <<want, mine, depth, passed>>
tree == <<env, parent>>
vars == <<files, pc, registry, tree, tries, blocks, refusal>>

Unwritten == [pid |-> None, released |-> TRUE]
NoRefusal == [lock |-> None, holder |-> None]

Init ==
  /\ flock = [l \in Locks |-> None] /\ record = [l \in Locks |-> Unwritten]
  /\ pc = [p \in Procs |-> "off"]
  /\ want = [p \in Procs |-> <<>>] /\ mine = [p \in Procs |-> <<>>]
  /\ depth = [p \in Procs |-> [l \in Locks |-> 0]]
  /\ passed = [p \in Procs |-> {}]
  /\ env = [p \in Procs |-> {}] /\ parent = [p \in Procs |-> None]
  /\ tries = [p \in Procs |-> 0] /\ blocks = [p \in Procs |-> 0]
  /\ refusal = [p \in Procs |-> NoRefusal]

Held(p) == {l \in Locks : depth[p][l] > 0}
Gone == {"off", "over", "killed"}
Alive(p) == p \in Procs /\ pc[p] \notin Gone
Ordered(scopes) == SetToSortSeq(scopes, <)
-----------------------------------------------------------------------------
(* _sync_marker: what a child is started with. *)
ExportedInner(p) == IF mine[p] = <<>> THEN env[p] ELSE {Last(mine[p])}   \* Mutant.
Exported(p) == env[p] \cup (Held(p) \ Resources)

Begin(p, scopes, marker, by) ==
  /\ pc[p] = "off" /\ scopes # {}
  /\ want' = [want EXCEPT ![p] = Ordered(scopes)]
  /\ env' = [env EXCEPT ![p] = marker] /\ parent' = [parent EXCEPT ![p] = by]
  /\ blocks' = [blocks EXCEPT ![p] = 1]

Launch(p) ==
  /\ \E scopes \in SUBSET Locks : Begin(p, scopes, {}, None)
  /\ pc' = [pc EXCEPT ![p] = "taking"]
  /\ UNCHANGED <<files, mine, depth, passed, tries, refusal>>

\* A command starts another and waits for it.
Spawn(p, q) ==
  /\ pc[p] = "working" /\ parent[p] = None
  /\ \E scopes \in SUBSET Locks : Begin(q, scopes, Exported(p), p)
  /\ pc' = [pc EXCEPT ![p] = "waiting", ![q] = "taking"]
  /\ UNCHANGED <<files, mine, depth, passed, tries, refusal>>

Wait(p) ==
  /\ pc[p] = "waiting" /\ \A q \in Procs : parent[q] = p => ~Alive(q)
  /\ pc' = [pc EXCEPT ![p] = "working"]
  /\ UNCHANGED <<files, registry, tree, tries, blocks, refusal>>
-----------------------------------------------------------------------------
(* _take: the registry first, the marker second, the flock last.           *)

Taken(p, counted) ==
  /\ want' = [want EXCEPT ![p] = Tail(@)]
  /\ mine' = IF counted THEN [mine EXCEPT ![p] = Append(@, Head(want[p]))] ELSE mine

\* A resource never nests, and every block of ours names it as often as it is held.
TakeCounted(p) ==
  /\ pc[p] = "taking" /\ want[p] # <<>> /\ Head(want[p]) \in Held(p) \ Resources
  /\ depth' = [depth EXCEPT ![p][Head(want[p])] = @ + 1]
  /\ Taken(p, TRUE)
  /\ UNCHANGED <<files, pc, passed, tree, tries, blocks, refusal>>

TakePassed(p) ==
  /\ pc[p] = "taking" /\ want[p] # <<>>
  /\ LET l == Head(want[p]) IN
     /\ l \notin Held(p) /\ l \in env[p] \ Resources
     /\ passed' = [passed EXCEPT ![p] = @ \cup {l}]
  /\ Taken(p, FALSE)
  /\ UNCHANGED <<files, pc, depth, tree, tries, blocks, refusal>>

Claims(p) == pc[p] = "taking" /\ want[p] # <<>> /\ Head(want[p]) \notin Held(p) \cup (env[p] \ Resources)

FreeByRecord(l) == record[l].released          \* Mutant: believes the record.
Free(l) == flock[l] = None

ClaimGets(p) ==
  /\ Claims(p) /\ Free(Head(want[p]))
  /\ flock' = [flock EXCEPT ![Head(want[p])] = p]
  /\ pc' = [pc EXCEPT ![p] = "recording"] /\ tries' = [tries EXCEPT ![p] = 0]
  /\ UNCHANGED <<record, registry, tree, blocks, refusal>>

ClaimRecords(p) ==
  /\ pc[p] = "recording"
  /\ record' = [record EXCEPT ![Head(want[p])] = [pid |-> p, released |-> FALSE]]
  /\ depth' = [depth EXCEPT ![p][Head(want[p])] = 1] /\ Taken(p, TRUE)
  /\ pc' = [pc EXCEPT ![p] = "taking"]
  /\ UNCHANGED <<flock, passed, tree, tries, blocks, refusal>>

ClaimContends(p) ==
  /\ Claims(p) /\ ~Free(Head(want[p]))
  /\ pc' = [pc EXCEPT ![p] = "contended"]
  /\ UNCHANGED <<files, registry, tree, tries, blocks, refusal>>

\* classify_busy: a record that was released, or whose process is gone, is vacated.
IsLive(p, l) == ~record[l].released /\ record[l].pid # p /\ Alive(record[l].pid)

Refuse(p) ==
  /\ refusal' = [refusal EXCEPT ![p] = [lock |-> Head(want[p]), holder |-> flock[Head(want[p])]]]
  /\ want' = [want EXCEPT ![p] = <<>>]
  /\ pc' = [pc EXCEPT ![p] = "dropping"]
  /\ UNCHANGED <<files, mine, depth, passed, tree, tries, blocks>>

RefuseLive(p) == pc[p] = "contended" /\ IsLive(p, Head(want[p])) /\ Refuse(p)
RefuseSpent(p) ==
  pc[p] = "contended" /\ ~IsLive(p, Head(want[p])) /\ tries[p] = MaxTries /\ Refuse(p)

TriedNever(p) == tries[p]                      \* Mutant: the pauses are not counted.
Tried(p) == tries[p] + 1

RetryVacated(p) ==
  /\ pc[p] = "contended" /\ ~IsLive(p, Head(want[p])) /\ tries[p] < MaxTries
  /\ tries' = [tries EXCEPT ![p] = Tried(p)]
  /\ pc' = [pc EXCEPT ![p] = "taking"]
  /\ UNCHANGED <<files, registry, tree, blocks, refusal>>
-----------------------------------------------------------------------------
(* Inside: an inner block, a claim for the rest of the process, the end.   *)

AllTaken(p) ==
  /\ pc[p] = "taking" /\ want[p] = <<>>
  /\ pc' = [pc EXCEPT ![p] = "working"]
  /\ UNCHANGED <<files, registry, tree, tries, blocks, refusal>>

\* A nested hold, or lock_checkout: a later lock once an earlier one is owned.
OpenBlock(p) ==
  /\ pc[p] = "working" /\ blocks[p] < MaxBlocks
  /\ \E scopes \in SUBSET (Locks \ (Resources \cap Held(p))) :
       /\ scopes # {} /\ want' = [want EXCEPT ![p] = Ordered(scopes)]
  /\ blocks' = [blocks EXCEPT ![p] = @ + 1]
  /\ pc' = [pc EXCEPT ![p] = "taking"]
  /\ UNCHANGED <<files, mine, depth, passed, tree, tries, refusal>>

\* claim_for_process: the taker is never returned, only the exit drops it.
KeepForProcess(p) ==
  /\ pc[p] = "working" /\ mine[p] # <<>>
  /\ mine' = [mine EXCEPT ![p] = Front(@)]
  /\ UNCHANGED <<files, pc, want, depth, passed, tree, tries, blocks, refusal>>

Leave(p) ==
  /\ pc[p] = "working" /\ pc' = [pc EXCEPT ![p] = "dropping"]
  /\ UNCHANGED <<files, registry, tree, tries, blocks, refusal>>

\* _drop counts down, or stamps the record and then lets the flock go.
DropCounted(p) ==
  /\ pc[p] = "dropping" /\ mine[p] # <<>> /\ depth[p][Last(mine[p])] > 1
  /\ depth' = [depth EXCEPT ![p][Last(mine[p])] = @ - 1]
  /\ mine' = [mine EXCEPT ![p] = Front(@)]
  /\ UNCHANGED <<files, pc, want, passed, tree, tries, blocks, refusal>>

\* The last of a block's locks, or at the exit one no block gives back.
Dropping(p) ==
  IF mine[p] # <<>> THEN {l \in {Last(mine[p])} : depth[p][l] = 1} ELSE Held(p)

ReleasableAtOnce(l) == TRUE            \* Mutant: unlocks first, stamps afterwards.
Releasable(l) == record[l].released

DropStamps(p) ==
  /\ pc[p] = "dropping"
  /\ \E l \in Dropping(p) : ~record[l].released /\ record' = [record EXCEPT ![l].released = TRUE]
  /\ UNCHANGED <<flock, pc, registry, tree, tries, blocks, refusal>>

DropUnlocks(p) ==
  /\ pc[p] = "dropping"
  /\ \E l \in Dropping(p) :
       /\ Releasable(l)
       /\ flock' = [flock EXCEPT ![l] = None]
       /\ depth' = [depth EXCEPT ![p][l] = 0]
  /\ mine' = [mine EXCEPT ![p] = IF @ # <<>> THEN Front(@) ELSE @]
  /\ UNCHANGED <<record, pc, want, passed, tree, tries, blocks, refusal>>

Exit(p) ==
  /\ pc[p] = "dropping" /\ Held(p) = {}
  /\ pc' = [pc EXCEPT ![p] = "over"] /\ passed' = [passed EXCEPT ![p] = {}]
  /\ UNCHANGED <<files, want, mine, depth, tree, tries, blocks, refusal>>

\* The kernel drops the flocks of a killed process; its records stay.
Kill(p) ==
  /\ pc[p] \notin Gone /\ (Orphans \/ pc[p] # "waiting")
  /\ pc' = [pc EXCEPT ![p] = "killed"]
  /\ flock' = [l \in Locks |-> IF flock[l] = p THEN None ELSE flock[l]]
  /\ depth' = [depth EXCEPT ![p] = [l \in Locks |-> 0]]
  /\ mine' = [mine EXCEPT ![p] = <<>>] /\ want' = [want EXCEPT ![p] = <<>>]
  /\ passed' = [passed EXCEPT ![p] = {}]
  /\ UNCHANGED <<record, tree, tries, blocks, refusal>>

\* is_held: a probe takes the flock for a moment and writes no record.
Probe(l) == flock[l] = None /\ flock' = [flock EXCEPT ![l] = Prober]
            /\ UNCHANGED <<record, pc, registry, tree, tries, blocks, refusal>>
ProbeEnds(l) == flock[l] = Prober /\ flock' = [flock EXCEPT ![l] = None]
                /\ UNCHANGED <<record, pc, registry, tree, tries, blocks, refusal>>

Step(p) ==
  \/ Wait(p) \/ TakeCounted(p) \/ TakePassed(p) \/ ClaimGets(p) \/ ClaimRecords(p)
  \/ ClaimContends(p) \/ RefuseLive(p) \/ RefuseSpent(p) \/ RetryVacated(p) \/ AllTaken(p)
  \/ Leave(p) \/ DropCounted(p) \/ DropStamps(p) \/ DropUnlocks(p) \/ Exit(p)

Next ==
  \/ \E p \in Procs : Launch(p) \/ Step(p) \/ OpenBlock(p) \/ KeepForProcess(p) \/ Kill(p)
  \/ \E p, q \in Procs : Spawn(p, q)
  \/ \E l \in Locks : Probe(l) \/ ProbeEnds(l)

Spec == Init /\ [][Next]_vars
\* A process goes on until it ends; a command's own work ends.
FairSpec == Spec /\ \A p \in Procs : WF_vars(Step(p))
-----------------------------------------------------------------------------
TypeOK ==
  /\ flock \in [Locks -> Procs \cup {None, Prober}]
  /\ record \in [Locks -> [pid : Procs \cup {None}, released : BOOLEAN]]
  /\ \A p \in Procs :
       /\ pc[p] \in Gone \cup {"taking", "recording", "contended", "working", "waiting", "dropping"}
       /\ Range(want[p]) \cup Range(mine[p]) \cup passed[p] \cup env[p] \subseteq Locks
       /\ depth[p] \in [Locks -> 0..MaxBlocks]
       /\ parent[p] \in Procs \cup {None} /\ tries[p] \in 0..MaxTries
       /\ blocks[p] \in 0..MaxBlocks
       /\ Held(p) \subseteq {l \in Locks : flock[l] = p}

\* p and q are a command and the one it started.
Related(p, q) == parent[p] = q \/ parent[q] = p
Inside(p, l) == Alive(p) /\ (depth[p][l] > 0 \/ l \in passed[p])

\* run_lock.py: two commands are inside one scope only if one of them started the
\* other, which waits for it: "a second run refuses to start rather than interleaving".
Exclusive ==
  \A l \in Locks : \A p, q \in Procs :
    Inside(p, l) /\ Inside(q, l) /\ p # q => Related(p, q)

\* _note_release: the stamp is written under the flock, so a record that names a
\* living process as a holder names the one that has the flock, and a refusal that
\* reads it refuses for a real holder.
RecordIsTrue ==
  \A l \in Locks :
    ~record[l].released /\ Alive(record[l].pid) => flock[l] = record[l].pid

\* A command is refused only for a holder, for one that had not yet said so, or for
\* a probe that outlasts the pauses; never for what its own parent holds.
NoOwnRefusal ==
  \A p \in Procs : refusal[p].lock # None /\ refusal[p].lock \notin Resources =>
    refusal[p].holder # parent[p] \/ parent[p] = None

\* Every command takes its locks in one order without blocking: none waits for ever.
CommandEnds == \A p \in Procs : pc[p] = "taking" ~> pc[p] \in {"working", "over", "killed"}
=============================================================================
