----------------------------- MODULE BatchSteps -----------------------------
(***************************************************************************)
(* The driver of a `pr batch` run from the inside: the tick of the         *)
(* scheduler, the step processes it starts, kills and reaps, and the locks *)
(* it holds on behalf of its items and gives back one by one, against the  *)
(* manual `pr` commands that want them.                                    *)
(*                                                                         *)
(* A step is a process: it leads a session of its own, so it outlives a    *)
(* driver that is killed or interrupted.  The driver hands it a marker for *)
(* every lock it holds of the step's item; a step takes the others itself. *)
(*                                                                         *)
(* A request is applied, saved and unlinked in one step here, and queued   *)
(* between drains only: a drain lists the inbox once, so a request written *)
(* during it is as good as written after it.  BatchSession has the rest.   *)
(***************************************************************************)
EXTENDS Naturals, FiniteSets

CONSTANTS
  Items, Steps, Commands, Locks,
  TargetOf,      \* the lock of an item's `pr` target
  TreeOf,        \* the lock of the worktree of its branch
  Rank,          \* an item's place in `run.items`
  Base,          \* the item a stacked one waits for, or None
  Needs,         \* the locks a manual command takes
  Requests,      \* the requests that may be queued
  None, Driver,
  MaxCrashes, MaxInterrupts

AnyRequest == [kind : {"decide"}, item : Items, about : {"people", "stacked"}]
                \cup [kind : {"cancel"}, kill : BOOLEAN]
                \cup [kind : {"release"}, item : Items, kill : BOOLEAN]

ASSUME LockAssumption ==
  /\ TargetOf \in [Items -> Locks] /\ TreeOf \in [Items -> Locks]
  /\ \A i, j \in Items : TargetOf[i] # TreeOf[j]
  /\ \A i, j \in Items : TreeOf[i] = TreeOf[j] => TargetOf[i] = TargetOf[j]
  /\ Needs \in [Commands -> SUBSET Locks \ {{}}]
ASSUME ItemAssumption ==
  /\ Rank \in [Items -> Nat] /\ \A i, j \in Items : Rank[i] = Rank[j] => i = j
  /\ Base \in [Items -> Items \cup {None}] /\ \A i \in Items : Base[i] # i
  /\ Requests \subseteq AnyRequest
ASSUME NameAssumption ==
  /\ None \notin Items \cup Steps \cup Commands \cup {Driver}
  /\ Driver \notin Steps \cup Commands
  /\ Steps \cap Commands = {}
ASSUME BoundAssumption == MaxCrashes \in Nat /\ MaxInterrupts \in Nat

VARIABLES
  pc,            \* where the driver is, "away" when there is none
  mem, disk,     \* the run in the driver's memory, and in state.json
  inbox,         \* queued requests
  left,          \* the items a poll or an admission pass has still to visit
  live,          \* Scheduler._live: the step it tracks for an item, or None
  fresh,         \* a step spawned and not yet recorded, or None
  kept, given,   \* the items whose target it took, and gave back since
  lock,          \* who holds a lock: nobody, the driver, a command, a step
  step,          \* the step processes
  crashes, interrupts

vars == <<pc, mem, disk, inbox, left, live, fresh, kept, given, lock, step,
          crashes, interrupts>>

Loop == {"drain", "stop", "giveback", "reap", "poll", "stacked", "admit",
         "spawned", "commit", "release", "settle"}
PCs == Loop \cup {"away", "open", "stopping", "unwind", "finish"}
Finished == {"done", "cancelled"}

(* `item` abstracts an item's status as in BatchRun; `stepping` has the    *)
(* items with a step record RUNNING; `ask` says what an item's open        *)
(* decisions are about; `tree` has the items with a worktree recorded.     *)
Runs == [status : {"running", "waiting", "interrupted", "done", "cancelled"},
         cancel : {"none", "soft", "kill"},
         item : [Items -> {"open", "running", "terminal"}],
         stepping : SUBSET Items,
         ask : [Items -> SUBSET {"people", "stacked"}],
         tree : SUBSET Items]

Unused == [item |-> None, state |-> "unused", sig |-> "none", marks |-> {}]

(* `sig`: nothing sent; a TERM whose grace runs; one whose grace is over;  *)
(* a KILL.                                                                 *)
Processes == [item : Items \cup {None},
              state : {"unused", "starting", "working", "gone"},
              sig : {"none", "term", "late", "kill"},
              marks : SUBSET Locks]

LocksOf(i) == {TargetOf[i], TreeOf[i]}
Up(p) == step[p].state \in {"starting", "working"}
Live == {i \in Items : live[i] # None}
Tracked(p) == p = fresh \/ \E i \in Items : live[i] = p
Over(run, i) == run.item[i] = "terminal"
AllOver(run) == \A i \in Items : Over(run, i)
BaseIsOver(run, i) == Base[i] # None /\ Over(run, Base[i])

Init ==
  /\ pc = "away"
  /\ mem = [status |-> "running", cancel |-> "none", item |-> [i \in Items |-> "open"],
            stepping |-> {}, ask |-> [i \in Items |-> {}], tree |-> {}]
  /\ disk = mem
  /\ inbox = {}
  /\ left = {}
  /\ live = [i \in Items |-> None]
  /\ fresh = None
  /\ kept = {} /\ given = {}
  /\ lock = [l \in Locks |-> None]
  /\ step = [p \in Steps |-> Unused]
  /\ crashes = 0 /\ interrupts = 0

-----------------------------------------------------------------------------
(* What requests and interrupts do to the run.                             *)

Answered(run, r) ==
  LET still == [run EXCEPT !.ask[r.item] = @ \ {r.about}]
  IN  IF r.about \notin run.ask[r.item] THEN {run}
      ELSE {run, still, [still EXCEPT !.item[r.item] = "terminal"]}

Cancelled(run, kill) ==
  IF run.status \in Finished THEN run
  ELSE [run EXCEPT !.cancel = IF kill \/ @ = "kill" THEN "kill" ELSE "soft"]

Released(run, i, kill) ==
  IF run.status \in Finished \/ Over(run, i) \/ (run.item[i] = "running" /\ ~kill) THEN run
  ELSE [run EXCEPT !.item[i] = "terminal", !.ask[i] = {}]

Applied(run, r) ==
  CASE r.kind = "decide"  -> Answered(run, r)
    [] r.kind = "cancel"  -> {Cancelled(run, r.kill)}
    [] r.kind = "release" -> {Released(run, r.item, r.kill)}

SettleIdle(run) ==
  IF run.cancel # "none" /\ run.status \notin Finished
  THEN [run EXCEPT !.status = "cancelled"]
  ELSE IF run.status \in {"waiting", "running"} /\ AllOver(run)
  THEN [run EXCEPT !.status = "done"]
  ELSE run

(* Every step record RUNNING becomes an interrupted decision, and its item *)
(* awaits it - whatever the item's status was.                             *)
MarkInterrupted(run) ==
  [run EXCEPT !.item = [i \in Items |-> IF i \in run.stepping THEN "open" ELSE @[i]],
              !.ask = [i \in Items |-> IF i \in run.stepping THEN @[i] \cup {"people"}
                                                             ELSE @[i]],
              !.stepping = {}]

Submit(r) ==
  /\ pc \notin {"open", "drain", "finish"}
  /\ disk.status \notin Finished
  /\ inbox' = inbox \cup {r}
  /\ UNCHANGED <<pc, mem, disk, left, live, fresh, kept, given, lock, step, crashes, interrupts>>

Drain(r) ==
  /\ pc \in {"open", "drain", "finish"}
  /\ r \in inbox
  /\ r.kind = "cancel" \/ \A q \in inbox : q.kind # "cancel"
  /\ \E run \in Applied(mem, r) : mem' = run /\ disk' = run
  /\ inbox' = inbox \ {r}
  /\ UNCHANGED <<pc, left, live, fresh, kept, given, lock, step, crashes, interrupts>>

-----------------------------------------------------------------------------
(* A driver comes and goes.                                                *)

(* `pr batch run` and `pr batch resume`: the run is loaded under its lock. *)
Open ==
  /\ pc = "away"
  /\ disk.status \notin Finished
  /\ pc' = "open"
  /\ UNCHANGED <<mem, disk, inbox, left, live, fresh, kept, given, lock, step, crashes, interrupts>>

Wanted(run) ==
  UNION {{TargetOf[i]} \cup (IF i \in run.tree THEN {TreeOf[i]} ELSE {}) :
           i \in {j \in Items : ~Over(run, j)}}

(* The entry drain is over.  The driver takes the target of every item     *)
(* that is not over, and the worktrees recorded, all of them or none; then *)
(* it marks what an earlier driver left running.                           *)
HoldItems ==
  /\ pc = "open" /\ inbox = {}
  /\ LET run == SettleIdle(mem) IN
     /\ disk' = run
     /\ IF run.status \notin Finished /\ \A l \in Wanted(run) : lock[l] = None
        THEN /\ kept' = {i \in Items : ~Over(run, i)}
             /\ lock' = [l \in Locks |-> IF l \in Wanted(run) THEN Driver ELSE lock[l]]
             /\ mem' = [MarkInterrupted(run) EXCEPT !.status = "running"]
             /\ pc' = "drain"
        ELSE /\ mem' = run
             /\ pc' = "finish"
             /\ UNCHANGED <<kept, lock>>
  /\ UNCHANGED <<inbox, left, live, fresh, given, step, crashes, interrupts>>

(* The driver is gone: the kernel, or `ItemHolds.close`, lets its locks    *)
(* go, and a step it tracked that is still up is nobody's.                 *)
Gone ==
  /\ pc' = "away"
  /\ left' = {} /\ fresh' = None /\ kept' = {} /\ given' = {}
  /\ live' = [i \in Items |-> None]
  /\ lock' = [l \in Locks |-> IF lock[l] = Driver THEN None ELSE lock[l]]
  /\ step' = [p \in Steps |-> IF step[p].state = "gone" THEN Unused ELSE step[p]]

(* Mutant: what was given back is not forgotten.                           *)
FinishForgets ==
  /\ pc = "finish" /\ inbox = {}
  /\ mem' = SettleIdle(mem) /\ disk' = mem'
  /\ pc' = "away"
  /\ lock' = [l \in Locks |-> IF lock[l] = Driver THEN None ELSE lock[l]]
  /\ UNCHANGED <<inbox, left, live, fresh, kept, given, step, crashes, interrupts>>

(* `Session.finish`, its drain done, and the way out.                      *)
Finish ==
  /\ pc = "finish" /\ inbox = {}
  /\ mem' = SettleIdle(mem) /\ disk' = mem'
  /\ Gone
  /\ UNCHANGED <<inbox, crashes, interrupts>>

Crash ==
  /\ pc # "away"
  /\ crashes < MaxCrashes
  /\ crashes' = crashes + 1
  /\ mem' = disk
  /\ Gone
  /\ UNCHANGED <<disk, inbox, interrupts>>

(* Mutant: the time of the TERM is not kept, and every signal is a TERM.   *)
SignalledOnce(p) == [step[p] EXCEPT !.sig = IF @ = "none" THEN "term" ELSE @]

(* `StepProcess.kill`: TERM first, KILL once its grace is over.            *)
Signalled(p) ==
  [step[p] EXCEPT !.sig = CASE @ = "none" -> "term" [] @ = "late" -> "kill" [] OTHER -> @]

Kill(items) ==
  step' = [p \in Steps |-> IF \E i \in items : live[i] = p THEN Signalled(p) ELSE step[p]]

(* Ctrl-C or SIGTERM inside the loop: `_on_interrupt` signals the live     *)
(* steps, marks them interrupted and saves; then the holds are given up.   *)
Interrupt ==
  /\ pc \in Loop
  /\ interrupts < MaxInterrupts
  /\ interrupts' = interrupts + 1
  /\ Kill(Live)
  /\ pc' = "stopping"
  /\ UNCHANGED <<mem, disk, inbox, left, live, fresh, kept, given, lock, crashes>>

SaveInterrupted ==
  /\ pc = "stopping"
  /\ mem' = [MarkInterrupted(mem) EXCEPT
               !.status = IF mem.cancel # "none" THEN "cancelled" ELSE "interrupted"]
  /\ disk' = mem'
  /\ pc' = "unwind"
  /\ UNCHANGED <<inbox, left, live, fresh, kept, given, lock, step, crashes, interrupts>>

Unwind ==
  /\ pc = "unwind"
  /\ Gone
  /\ UNCHANGED <<mem, disk, inbox, crashes, interrupts>>

-----------------------------------------------------------------------------
(* The tick, `Scheduler._once`.                                            *)

Drained ==
  /\ pc = "drain" /\ inbox = {}
  /\ pc' = "stop"
  /\ UNCHANGED <<mem, disk, inbox, left, live, fresh, kept, given, lock, step, crashes, interrupts>>

KillTerminalLive ==
  /\ pc = "stop"
  /\ Kill({i \in Items : Over(mem, i)})
  /\ pc' = "giveback"
  /\ UNCHANGED <<mem, disk, inbox, left, live, fresh, kept, given, lock, crashes, interrupts>>

(* Mutant: a target is free once its items are over, steps or no steps.    *)
DoneTargetsAnyway ==
  {i \in kept \ given : \A j \in kept \ given : TargetOf[j] = TargetOf[i] => Over(mem, j)}

(* The items of the targets `release_finished` returns.                    *)
DoneTargets ==
  {i \in kept \ given :
     \A j \in kept \ given : TargetOf[j] = TargetOf[i] => Over(mem, j) /\ live[j] = None}

ReleaseFinished ==
  /\ pc \in {"giveback", "release"}
  /\ given' = given \cup DoneTargets
  /\ lock' = [l \in Locks |-> IF lock[l] = Driver /\ \E i \in DoneTargets : l \in LocksOf(i)
                              THEN None ELSE lock[l]]
  /\ pc' = IF pc = "giveback" THEN "reap" ELSE "settle"
  /\ UNCHANGED <<mem, disk, inbox, left, live, fresh, kept, step, crashes, interrupts>>

KillLive ==
  /\ pc = "reap"
  /\ Kill(IF mem.cancel = "kill" THEN Live ELSE {})
  /\ left' = Live
  /\ pc' = "poll"
  /\ UNCHANGED <<mem, disk, inbox, live, fresh, kept, given, lock, crashes, interrupts>>

(* Mutant: an item released while its step ran is queued again.            *)
FinishedRequeued(run, i) ==
  LET over == [run EXCEPT !.stepping = @ \ {i}, !.item[i] = "open"]
  IN  {over, [over EXCEPT !.ask[i] = @ \cup {"people"}]}

(* What `_finish` makes of an item whose step has exited: over already, or *)
(* queued, with the decisions the step raised.                             *)
FinishedStep(run, i) ==
  LET over == [run EXCEPT !.stepping = @ \ {i}]
      queued == [over EXCEPT !.item[i] = "open"]
  IN  IF Over(run, i) THEN {over} ELSE {queued, [queued EXCEPT !.ask[i] = @ \cup {"people"}]}

Reap(i) ==
  /\ pc = "poll" /\ i \in left
  /\ left' = left \ {i}
  /\ IF Up(live[i]) THEN UNCHANGED <<mem, live, step>>
     ELSE /\ mem' \in FinishedStep(mem, i)
          /\ step' = [step EXCEPT ![live[i]] = Unused]
          /\ live' = [live EXCEPT ![i] = None]
  /\ UNCHANGED <<pc, disk, inbox, fresh, kept, given, lock, crashes, interrupts>>

Reaped ==
  /\ pc = "poll" /\ left = {}
  /\ pc' = IF mem.cancel = "none" THEN "stacked" ELSE "commit"
  /\ UNCHANGED <<mem, disk, inbox, left, live, fresh, kept, given, lock, step, crashes, interrupts>>

(* `_release_stacked`: retry what waited for a base that is over now.      *)
ReleaseStacked ==
  /\ pc = "stacked"
  /\ mem' = [mem EXCEPT !.ask = [i \in Items |-> IF BaseIsOver(mem, i) THEN @[i] \ {"stacked"}
                                                                       ELSE @[i]]]
  /\ left' = Items
  /\ pc' = "admit"
  /\ UNCHANGED <<disk, inbox, live, fresh, kept, given, lock, step, crashes, interrupts>>

Ready(i) == ~Over(mem, i) /\ live[i] = None /\ mem.ask[i] = {}

IsNext(i) == pc = "admit" /\ i \in left /\ \A j \in left : Rank[i] <= Rank[j]
Visit(i) == IsNext(i) /\ left' = left \ {i}

(* Not ready, or refused by the host or by a step that is fetching.        *)
PassOver(i) ==
  /\ Visit(i)
  /\ UNCHANGED <<pc, mem, disk, inbox, live, fresh, kept, given, lock, step, crashes, interrupts>>

(* A worktree that cannot be made or is dirty, a branch switched, GitHub   *)
(* not answering, work to publish: a decision for people.                  *)
AskPeople(i) ==
  /\ Visit(i) /\ Ready(i)
  /\ mem' = [mem EXCEPT !.ask[i] = {"people"}]
  /\ UNCHANGED <<pc, disk, inbox, live, fresh, kept, given, lock, step, crashes, interrupts>>

StackedWait(i) ==
  /\ Visit(i) /\ Ready(i) /\ i \in mem.tree
  /\ Base[i] # None /\ ~BaseIsOver(mem, i)
  /\ mem' = [mem EXCEPT !.ask[i] = {"stacked"}]
  /\ UNCHANGED <<pc, disk, inbox, live, fresh, kept, given, lock, step, crashes, interrupts>>

(* A worktree is assigned, and held if the item's target is.  A checkout   *)
(* held elsewhere is the AskPeople of an item still without one.           *)
AssignTree(i) ==
  /\ IsNext(i) /\ Ready(i) /\ i \notin mem.tree
  /\ IF i \in kept \ given
     THEN /\ lock[TreeOf[i]] \in {None, Driver}
          /\ lock' = [lock EXCEPT ![TreeOf[i]] = Driver]
     ELSE UNCHANGED lock
  /\ mem' = [mem EXCEPT !.tree = @ \cup {i}]
  /\ UNCHANGED <<pc, disk, inbox, left, live, fresh, kept, given, step, crashes, interrupts>>

(* Nothing left to do or to publish, published at once, or closed on       *)
(* GitHub.                                                                 *)
Close(i) ==
  /\ Visit(i) /\ Ready(i) /\ i \in mem.tree
  /\ mem' = [mem EXCEPT !.item[i] = "terminal"]
  /\ UNCHANGED <<pc, disk, inbox, live, fresh, kept, given, lock, step, crashes, interrupts>>

(* `child_env` and the spawn.  A step whose locks are all marked need take *)
(* none.                                                                   *)
Spawn(i, p) ==
  /\ Visit(i) /\ Ready(i) /\ i \in mem.tree
  /\ step[p] = Unused
  /\ LET marks == {l \in LocksOf(i) : lock[l] = Driver} IN
     step' = [step EXCEPT ![p] =
                [item |-> i, sig |-> "none", marks |-> marks,
                 state |-> IF marks = LocksOf(i) THEN "working" ELSE "starting"]]
  /\ fresh' = p
  /\ pc' = "spawned"
  /\ UNCHANGED <<mem, disk, inbox, live, kept, given, lock, crashes, interrupts>>

(* Mutant: the record is not marked RUNNING.                               *)
RecordUnmarked ==
  /\ pc = "spawned"
  /\ live' = [live EXCEPT ![step[fresh].item] = fresh]
  /\ mem' = [mem EXCEPT !.item[step[fresh].item] = "running"]
  /\ fresh' = None
  /\ pc' = "admit"
  /\ UNCHANGED <<disk, inbox, left, kept, given, lock, step, crashes, interrupts>>

(* The rest of `_start`: the step is recorded and tracked.                 *)
Record ==
  /\ pc = "spawned"
  /\ LET i == step[fresh].item IN
     /\ live' = [live EXCEPT ![i] = fresh]
     /\ mem' = [mem EXCEPT !.item[i] = "running", !.stepping = @ \cup {i}]
  /\ fresh' = None
  /\ pc' = "admit"
  /\ UNCHANGED <<disk, inbox, left, kept, given, lock, step, crashes, interrupts>>

Admitted ==
  /\ pc = "admit" /\ left = {}
  /\ pc' = "commit"
  /\ UNCHANGED <<mem, disk, inbox, left, live, fresh, kept, given, lock, step, crashes, interrupts>>

(* Mutant: what the tick did is saved with the next drain only.            *)
CommitLater ==
  /\ pc = "commit"
  /\ pc' = "release"
  /\ UNCHANGED <<mem, disk, inbox, left, live, fresh, kept, given, lock, step, crashes, interrupts>>

Commit ==
  /\ pc = "commit"
  /\ disk' = mem
  /\ pc' = "release"
  /\ UNCHANGED <<mem, inbox, left, live, fresh, kept, given, lock, step, crashes, interrupts>>

BlockedStatus ==
  IF Live # {} \/ inbox # {} THEN "running"
  ELSE IF mem.cancel # "none" THEN "cancelled"
  ELSE IF AllOver(mem) THEN "done"
  ELSE IF \A i \in Items : Over(mem, i) \/ mem.ask[i] # {} THEN "waiting"
  ELSE "running"

(* `_blocked_status`: sleep and go round, or save the status and leave.    *)
Settle ==
  /\ pc = "settle"
  /\ mem' = [mem EXCEPT !.status = BlockedStatus]
  /\ IF BlockedStatus = "running" THEN pc' = "drain" /\ UNCHANGED disk
                                  ELSE pc' = "finish" /\ disk' = mem'
  /\ UNCHANGED <<inbox, left, live, fresh, kept, given, lock, step, crashes, interrupts>>

-----------------------------------------------------------------------------
(* The steps, and the manual commands.                                     *)

(* A step takes the locks it has no marker for, or ends with a refusal.    *)
StepLocks(p) ==
  /\ step[p].state = "starting"
  /\ LET own == LocksOf(step[p].item) \ step[p].marks IN
     IF \A l \in own : lock[l] = None
     THEN /\ lock' = [l \in Locks |-> IF l \in own THEN p ELSE lock[l]]
          /\ step' = [step EXCEPT ![p].state = "working"]
     ELSE /\ step' = [step EXCEPT ![p] = IF Tracked(p) THEN [@ EXCEPT !.state = "gone"]
                                                       ELSE Unused]
          /\ UNCHANGED lock
  /\ UNCHANGED <<pc, mem, disk, inbox, left, live, fresh, kept, given, crashes, interrupts>>

StepExit(p) ==
  /\ Up(p)
  /\ step' = [step EXCEPT ![p] = IF Tracked(p) THEN [@ EXCEPT !.state = "gone"] ELSE Unused]
  /\ lock' = [l \in Locks |-> IF lock[l] = p THEN None ELSE lock[l]]
  /\ UNCHANGED <<pc, mem, disk, inbox, left, live, fresh, kept, given, crashes, interrupts>>

KilledExit(p) == step[p].sig = "kill" /\ StepExit(p)

GraceOver(p) ==
  /\ Up(p) /\ step[p].sig = "term"
  /\ step' = [step EXCEPT ![p].sig = "late"]
  /\ UNCHANGED <<pc, mem, disk, inbox, left, live, fresh, kept, given, lock, crashes, interrupts>>

CommandStarts(c) ==
  /\ \A l \in Needs[c] : lock[l] = None
  /\ lock' = [l \in Locks |-> IF l \in Needs[c] THEN c ELSE lock[l]]
  /\ UNCHANGED <<pc, mem, disk, inbox, left, live, fresh, kept, given, step, crashes, interrupts>>

CommandEnds(c) ==
  /\ \E l \in Locks : lock[l] = c
  /\ lock' = [l \in Locks |-> IF lock[l] = c THEN None ELSE lock[l]]
  /\ UNCHANGED <<pc, mem, disk, inbox, left, live, fresh, kept, given, step, crashes, interrupts>>

-----------------------------------------------------------------------------
Admission(i) ==
  \/ PassOver(i) \/ AskPeople(i) \/ StackedWait(i) \/ AssignTree(i) \/ Close(i)
  \/ \E p \in Steps : Spawn(i, p)

Tick ==
  \/ Drained \/ KillTerminalLive \/ ReleaseFinished \/ KillLive
  \/ \E i \in Items : Reap(i)
  \/ Reaped \/ ReleaseStacked
  \/ \E i \in Items : Admission(i)
  \/ Record \/ Admitted \/ Commit \/ Settle

DriverStep ==
  \/ \E r \in Requests : Drain(r)
  \/ HoldItems \/ Tick \/ SaveInterrupted \/ Unwind \/ Finish

Next ==
  \/ \E r \in Requests : Submit(r)
  \/ Open \/ DriverStep \/ Interrupt \/ Crash
  \/ \E p \in Steps : StepLocks(p) \/ StepExit(p) \/ GraceOver(p)
  \/ \E c \in Commands : CommandStarts(c) \/ CommandEnds(c)

Spec == Init /\ [][Next]_vars

(* A driver that is up goes on, a grace period ends, a SIGKILL is obeyed.  *)
(* A step told to TERM, or told nothing, need never end.                   *)
FairSpec ==
  /\ Spec
  /\ WF_vars(DriverStep)
  /\ \A p \in Steps : WF_vars(GraceOver(p)) /\ WF_vars(KilledExit(p))

-----------------------------------------------------------------------------
(* Every variable has its type, and what was given back was held before.   *)
TypeOK ==
  /\ pc \in PCs
  /\ mem \in Runs /\ disk \in Runs
  /\ inbox \subseteq Requests
  /\ left \subseteq Items
  /\ live \in [Items -> Steps \cup {None}]
  /\ fresh \in Steps \cup {None}
  /\ kept \subseteq Items /\ given \subseteq kept
  /\ lock \in [Locks -> {None, Driver} \cup Commands \cup Steps]
  /\ step \in [Steps -> Processes]
  /\ crashes \in 0..MaxCrashes /\ interrupts \in 0..MaxInterrupts

(* While a driver is up, a step of an item it took the target of works     *)
(* under both of the item's locks: those it was given a marker for are the *)
(* driver's for as long as the step lives, even if the item was released   *)
(* and the step refuses to die, and the others are the step's own.         *)
StepsAreCovered ==
  \A p \in Steps :
    Tracked(p) /\ step[p].state = "working" /\ step[p].item \in kept =>
      \A l \in LocksOf(step[p].item) :
        lock[l] = IF l \in step[p].marks THEN Driver ELSE p

(* A target is given back only when state.json says its item is over: a    *)
(* crash never leaves a saved run that owns an item whose lock was given   *)
(* away.                                                                   *)
GivenAwayIsSaved == \A i \in given : Over(disk, i)

(* Between two ticks every step the driver tracks is RUNNING in state.json *)
(* as well: a resume after a crash there finds it and asks.                *)
StepsAreRecorded == pc = "drain" => Live \subseteq disk.stepping

(* When the driver stops to wait, it waits for people: no decision is left *)
(* open that it would have answered itself on its next tick.               *)
WaitsForPeople ==
  [][pc = "settle" /\ pc' = "finish" /\ BlockedStatus = "waiting" =>
       \A i \in Items : BaseIsOver(mem, i) => "stacked" \notin mem.ask[i]]_vars

(* No manual command works on the locks of an item a step of which was     *)
(* told to end and has not exited.                                         *)
KilledStepsAreCovered ==
  \A p \in Steps : step[p].state = "working" /\ step[p].sig # "none" =>
    \A l \in LocksOf(step[p].item) : lock[l] \notin Commands

(* Items that are over are given back in the end, though a step of theirs  *)
(* ignore SIGTERM.                                                         *)
OverIsGivenBack ==
  \A i \in Items :
    (i \in kept /\ \A j \in kept : TargetOf[j] = TargetOf[i] => Over(mem, j))
      ~> (i \in given \/ kept = {})

(* A run cancelled with --kill is rid of its steps in the end, whatever    *)
(* they do with a SIGTERM.                                                 *)
KilledRunEnds == (pc \in Loop /\ mem.cancel = "kill") ~> (\A p \in Steps : ~Up(p))
=============================================================================
