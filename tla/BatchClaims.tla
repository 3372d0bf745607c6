---------------------------- MODULE BatchClaims ----------------------------
(***************************************************************************)
(* Who owns the refs a plan fetches (batch/plan.py, gc.py; pr_batch.py,    *)
(* `_start_run`). `pr batch run` fetches the branches of its checkouts     *)
(* into a namespace of its own, refs/pr-batch/<hex>. A claim file says so  *)
(* before the first fetch; from the first commit of the run its state      *)
(* does; `pr gc` drops what neither names, in the checkouts it knows.      *)
(* Every process may be killed between two of its writes.                  *)
(*                                                                         *)
(* A plan and its namespace are one name. The run lock and the inbox of a  *)
(* run are BatchSession's; here the lock only keeps a removal out.         *)
(***************************************************************************)
EXTENDS Naturals, FiniteSets

CONSTANTS
  Plans, Sweepers,
  Repos,          \* the checkouts of every plan
  Registered,     \* those of them the machine's list of projects has
  MaxKills, MaxSweeps,
  FaultSets       \* which of the faults happen together

\* "kill" ends a planner or a driver, "sweeper" a `pr gc`; "drop" is a ref that
\* does not delete now; "git" a fetch that outlives the process that asked for
\* it, in a registered checkout, and "stray" one in another; "interrupt" a Ctrl-C between the first commit and the removal of the
\* claim; "recycled" a dead planner's pid that is another's.
AllFaults == {"kill", "sweeper", "drop", "git", "stray", "interrupt", "recycled"}

\* What the constants may be: whoever instantiates this module assumes it.
ClaimAssumption ==
  /\ Registered \subseteq Repos /\ {MaxKills, MaxSweeps} \subseteq Nat
  /\ FaultSets \subseteq SUBSET AllFaults

VARIABLES
  claims,         \* the namespaces with a claim file, which lists Repos
  writers,        \* those whose planning process is still running
  refs,           \* the checkouts that hold refs of the namespace
  run,            \* state.json: "none", "open", "over", "moved" aside, "gone"
  got,            \* where the plan's fetches landed, the run's ref_dirs
  plan,           \* the process of the plan and of the run made from it
  late,           \* fetches nobody waits for any more
  sweep,          \* each `pr gc`
  sweeps, kills, faults

vars == <<claims, writers, refs, run, got, plan, late, sweep, sweeps, kills, faults>>

NoDirs == [p \in Plans |-> {}]
Out == [at |-> "out", left |-> {}, ok |-> TRUE]
Idle == [at |-> "idle", found |-> NoDirs, owned |-> {}, todo |-> {}, on |-> {}, left |-> {}, ok |-> TRUE]

Init ==
  /\ claims = {} /\ writers = {} /\ refs = NoDirs /\ run = [p \in Plans |-> "none"]
  /\ got = NoDirs /\ plan = [p \in Plans |-> [Out EXCEPT !.at = "new"]] /\ late = NoDirs
  /\ sweep = [s \in Sweepers |-> Idle] /\ sweeps = 0 /\ kills = 0 /\ faults \in FaultSets

At(p, step) == plan[p].at = step
Go(p, step) == plan' = [plan EXCEPT ![p].at = step]
Saved(p) == run[p] \in {"open", "over"}

\* drop_refs: in the checkouts it is given and those the claim lists.
DropDirs(p, dirs) == dirs \cup IF p \in claims THEN Repos ELSE {}
Dropping(p, dirs) == plan' = [plan EXCEPT ![p] = [at |-> "drop", left |-> DropDirs(p, dirs), ok |-> TRUE]]

\* A checkout with no refs has nothing that could fail, but for a rival's deletion.
Deletes(p, r) == refs' = [refs EXCEPT ![p] = @ \ {r}]
MayFail == "drop" \in faults

\* Mutant: the claim goes with whatever did delete.
RetiresAnyway(p, ok) == claims' = claims \ {p}

\* The claim goes only after every checkout dropped.
Retires(p, ok) == claims' = IF ok THEN claims \ {p} ELSE claims
-----------------------------------------------------------------------------
(* pr batch run: plan, start, drive. *)

WriteClaim(p) ==
  /\ At(p, "new")
  /\ claims' = claims \cup {p} /\ writers' = writers \cup {p}
  /\ plan' = [plan EXCEPT ![p] = [at |-> "fetch", left |-> Repos, ok |-> TRUE]]
  /\ UNCHANGED <<refs, run, got, late, sweep, sweeps, kills, faults>>

\* fetch_namespace: some of the branches land, or none.
Fetch(p, r) ==
  /\ At(p, "fetch") /\ r \in plan[p].left
  /\ plan' = [plan EXCEPT ![p].left = @ \ {r}]
  /\ \/ refs' = [refs EXCEPT ![p] = @ \cup {r}] /\ got' = [got EXCEPT ![p] = @ \cup {r}]
     \/ UNCHANGED <<refs, got>>
  /\ UNCHANGED <<claims, writers, run, late, sweep, sweeps, kills, faults>>

Planned(p) ==
  /\ At(p, "fetch") /\ plan[p].left = {} /\ Go(p, "planned")
  /\ UNCHANGED <<claims, writers, refs, run, got, late, sweep, sweeps, kills, faults>>

\* The plan fails, the start is refused or a target is busy: no run will own the
\* refs.
GiveUp(p) ==
  /\ \/ At(p, "fetch") /\ Dropping(p, Repos)
     \/ At(p, "planned") /\ Dropping(p, got[p])
     \/ At(p, "committed") /\ "interrupt" \in faults /\ Dropping(p, got[p])
  /\ UNCHANGED <<claims, writers, refs, run, got, late, sweep, sweeps, kills, faults>>

FirstCommit(p) ==
  /\ At(p, "planned") /\ run' = [run EXCEPT ![p] = "open"] /\ Go(p, "committed")
  /\ UNCHANGED <<claims, writers, refs, got, late, sweep, sweeps, kills, faults>>

RemoveClaim(p) ==
  /\ At(p, "committed") /\ claims' = claims \ {p} /\ Go(p, "driving")
  /\ UNCHANGED <<writers, refs, run, got, late, sweep, sweeps, kills, faults>>

\* Session.commit of a run that is over saves it, then drops its refs.
Commit(p) ==
  /\ At(p, "driving") /\ run' = [run EXCEPT ![p] = "over"] /\ Dropping(p, got[p])
  /\ UNCHANGED <<claims, writers, refs, got, late, sweep, sweeps, kills, faults>>

DropOne(p, r) ==
  /\ At(p, "drop") /\ r \in plan[p].left
  /\ \/ Deletes(p, r) /\ plan' = [plan EXCEPT ![p].left = @ \ {r}]
     \/ MayFail /\ plan' = [plan EXCEPT ![p].left = @ \ {r}, ![p].ok = FALSE] /\ UNCHANGED refs
  /\ UNCHANGED <<claims, writers, run, got, late, sweep, sweeps, kills, faults>>

DropEnds(p) ==
  /\ At(p, "drop") /\ plan[p].left = {}
  /\ Retires(p, plan[p].ok) /\ plan' = [plan EXCEPT ![p] = Out] /\ writers' = writers \ {p}
  /\ UNCHANGED <<refs, run, got, late, sweep, sweeps, kills, faults>>

\* The run waits for somebody, or was interrupted.
Leave(p) ==
  /\ At(p, "driving") /\ plan' = [plan EXCEPT ![p] = Out] /\ writers' = writers \ {p}
  /\ UNCHANGED <<claims, refs, run, got, late, sweep, sweeps, kills, faults>>

Removes(s, p) == sweep[s].at = "reap" /\ p \in sweep[s].on

\* A resume, or a session that delivers to a run that is over: its commit drops again.
Reopen(p) ==
  /\ At(p, "out") /\ \A s \in Sweepers : ~Removes(s, p)
  /\ \/ run[p] = "open" /\ Go(p, "driving")
     \/ run[p] = "over" /\ Dropping(p, got[p])
  /\ UNCHANGED <<claims, writers, refs, run, got, late, sweep, sweeps, kills, faults>>

\* The git that fetches for the process may work on.
Kill(p) ==
  /\ "kill" \in faults /\ kills < MaxKills /\ ~At(p, "new") /\ ~At(p, "out")
  /\ plan' = [plan EXCEPT ![p] = Out] /\ writers' = writers \ {p} /\ kills' = kills + 1
  /\ \/ UNCHANGED late
     \/ /\ At(p, "fetch")
        /\ \E r \in plan[p].left :
             /\ (IF r \in Registered THEN "git" ELSE "stray") \in faults
             /\ late' = [late EXCEPT ![p] = {r}]
  /\ UNCHANGED <<claims, refs, run, got, sweep, sweeps, faults>>

LateFetch(p, r) ==
  /\ r \in late[p] /\ late' = [late EXCEPT ![p] = @ \ {r}]
  /\ refs' = [refs EXCEPT ![p] = @ \cup {r}]
  /\ UNCHANGED <<claims, writers, run, got, plan, sweep, sweeps, kills, faults>>
-----------------------------------------------------------------------------
(* pr gc: gc_runs, then gc_namespaces. *)

Sweeps(s, step) == sweep[s].at = step
Swept(s) == UNCHANGED <<writers, got, plan, late, kills, faults>>

Begin(s) ==
  /\ Sweeps(s, "idle") /\ sweeps < MaxSweeps
  /\ sweep' = [sweep EXCEPT ![s].at = "runs"] /\ sweeps' = sweeps + 1
  /\ Swept(s) /\ UNCHANGED <<claims, refs, run>>

\* store.reap: under the run's lock, aside first.
Reap(s, p) ==
  /\ Sweeps(s, "runs") /\ run[p] = "over" /\ At(p, "out")
  /\ run' = [run EXCEPT ![p] = "moved"]
  /\ sweep' = [sweep EXCEPT ![s].at = "reap", ![s].on = {p}, ![s].left = DropDirs(p, got[p]), ![s].ok = TRUE]
  /\ Swept(s) /\ UNCHANGED <<claims, refs, sweeps>>

\* The scan: what the claims, the runs and the checkouts name.
ScanClaims(s) ==
  /\ Sweeps(s, "runs")
  /\ sweep' = [sweep EXCEPT ![s].at = "scan runs",
                 ![s].found = [p \in Plans |-> IF p \in claims THEN Repos ELSE {}]]
  /\ Swept(s) /\ UNCHANGED <<claims, refs, run, sweeps>>

ScanRuns(s) ==
  /\ Sweeps(s, "scan runs")
  /\ sweep' = [sweep EXCEPT ![s].at = "scan repos",
                 ![s].found = [p \in Plans |-> @[p] \cup IF Saved(p) THEN got[p] ELSE {}]]
  /\ Swept(s) /\ UNCHANGED <<claims, refs, run, sweeps>>

ScanRepos(s) ==
  /\ Sweeps(s, "scan repos")
  /\ LET known == Registered \cup UNION {sweep[s].found[p] : p \in Plans} IN
     sweep' = [sweep EXCEPT ![s].at = "claims",
                 ![s].found = [p \in Plans |-> @[p] \cup (refs[p] \cap known)]]
  /\ Swept(s) /\ UNCHANGED <<claims, refs, run, sweeps>>

\* NamespaceClaim.live: a start time that cannot be read errs toward live.
Live(p) == {p \in writers} \cup IF "recycled" \in faults THEN {TRUE} ELSE {}

\* The owners: live claims first, then the runs.
ReadClaims(s) ==
  /\ Sweeps(s, "claims")
  /\ \E live \in SUBSET claims :
       /\ \A p \in claims : (p \in live) \in Live(p)
       /\ sweep' = [sweep EXCEPT ![s].at = "owners", ![s].owned = live]
  /\ Swept(s) /\ UNCHANGED <<claims, refs, run, sweeps>>

ReadRuns(s) ==
  /\ Sweeps(s, "owners")
  /\ LET owned == sweep[s].owned \cup {p \in Plans : Saved(p)} IN
     sweep' = [sweep EXCEPT ![s].at = "drop", ![s].owned = {},
                 ![s].todo = {p \in Plans \ owned : sweep[s].found[p] # {}}]
  /\ Swept(s) /\ UNCHANGED <<claims, refs, run, sweeps>>

Pick(s, p) ==
  /\ Sweeps(s, "drop") /\ p \in sweep[s].todo
  /\ sweep' = [sweep EXCEPT ![s].at = "dropping", ![s].on = {p}, ![s].todo = @ \ {p},
                 ![s].left = DropDirs(p, sweep[s].found[p]), ![s].ok = TRUE]
  /\ Swept(s) /\ UNCHANGED <<claims, refs, run, sweeps>>

SweepOne(s, p, r) ==
  /\ sweep[s].at \in {"reap", "dropping"} /\ p \in sweep[s].on /\ r \in sweep[s].left
  /\ \/ Deletes(p, r) /\ sweep' = [sweep EXCEPT ![s].left = @ \ {r}]
     \/ MayFail /\ sweep' = [sweep EXCEPT ![s].left = @ \ {r}, ![s].ok = FALSE] /\ UNCHANGED refs
  /\ Swept(s) /\ UNCHANGED <<claims, run, sweeps>>

\* The directory goes, or comes back when some refs stayed.
ReapEnds(s, p) ==
  /\ Sweeps(s, "reap") /\ p \in sweep[s].on /\ sweep[s].left = {}
  /\ Retires(p, sweep[s].ok)
  /\ run' = [run EXCEPT ![p] = IF sweep[s].ok THEN "gone" ELSE "over"]
  /\ sweep' = [sweep EXCEPT ![s].at = "runs", ![s].on = {}]
  /\ Swept(s) /\ UNCHANGED <<refs, sweeps>>

PickEnds(s, p) ==
  /\ Sweeps(s, "dropping") /\ p \in sweep[s].on /\ sweep[s].left = {}
  /\ Retires(p, sweep[s].ok)
  /\ sweep' = [sweep EXCEPT ![s].at = "drop", ![s].on = {}]
  /\ Swept(s) /\ UNCHANGED <<refs, run, sweeps>>

End(s) ==
  /\ Sweeps(s, "drop") /\ sweep[s].todo = {}
  /\ sweep' = [sweep EXCEPT ![s] = Idle]
  /\ Swept(s) /\ UNCHANGED <<claims, refs, run, sweeps>>

KillSweeper(s) ==
  /\ "sweeper" \in faults /\ kills < MaxKills /\ ~Sweeps(s, "idle")
  /\ sweep' = [sweep EXCEPT ![s] = Idle] /\ kills' = kills + 1
  /\ UNCHANGED <<claims, writers, refs, run, got, plan, late, sweeps, faults>>
-----------------------------------------------------------------------------
Next ==
  \/ \E p \in Plans :
       \/ WriteClaim(p) \/ Planned(p) \/ GiveUp(p) \/ FirstCommit(p) \/ RemoveClaim(p)
       \/ Commit(p) \/ DropEnds(p) \/ Leave(p) \/ Reopen(p) \/ Kill(p)
       \/ \E r \in Repos : Fetch(p, r) \/ DropOne(p, r) \/ LateFetch(p, r)
  \/ \E s \in Sweepers :
       \/ Begin(s) \/ ScanClaims(s) \/ ScanRuns(s) \/ ScanRepos(s) \/ ReadClaims(s) \/ ReadRuns(s)
       \/ End(s) \/ KillSweeper(s)
       \/ \E p \in Plans :
            \/ Reap(s, p) \/ Pick(s, p) \/ ReapEnds(s, p) \/ PickEnds(s, p)
            \/ \E r \in Repos : SweepOne(s, p, r)

Spec == Init /\ [][Next]_vars
-----------------------------------------------------------------------------
\* gc.py, `gc_namespaces`: no sweep drops the refs "mid-flight" of a plan that is
\* being made, or of a run that is not over.
RefsAreKept ==
  \A p \in Plans :
    plan[p].at \in {"fetch", "planned", "committed"} \/ run[p] = "open" => got[p] \subseteq refs[p]

\* plan.py: "claimed before fetch so a killed run does not leak refs". Where refs
\* are left, a claim, a run or the list of projects leads the next sweep to them.
RefsAreNamed ==
  \A p \in Plans : \A r \in refs[p] \ Registered :
    \/ p \in claims
    \/ r \in got[p] /\ (Saved(p) \/ \E s \in Sweepers : Removes(s, p))

\* Whoever needs the refs of a namespace has them, and whatever is there of it is
\* known to somebody.
RefsAreOwned == RefsAreKept /\ RefsAreNamed
=============================================================================
