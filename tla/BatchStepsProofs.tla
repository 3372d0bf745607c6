-------------------------- MODULE BatchStepsProofs --------------------------
(***************************************************************************)
(* Theorems about BatchSteps, for any number of items, steps, commands and *)
(* faults.                                                                 *)
(***************************************************************************)
EXTENDS BatchSteps, TLAPS

USE LockAssumption, ItemAssumption, NameAssumption, BoundAssumption
USE DEF vars, PCs, Loop, Finished

-----------------------------------------------------------------------------
(* What requests and interrupts make of a run is a run, and leaves over    *)
(* the items that were: all but an interrupt, which revives an item whose  *)
(* step record was left RUNNING.                                           *)

StaysOver(run, after) == \A i \in Items : Over(run, i) => Over(after, i)

LEMMA AppliedKeeps ==
  ASSUME NEW run \in Runs, NEW r \in Requests, NEW after \in Applied(run, r)
  PROVE  after \in Runs /\ StaysOver(run, after) /\ after.stepping = run.stepping
<1>0. r \in AnyRequest
  OBVIOUS
<1>1. CASE r.kind = "decide"
  <2>1. r.item \in Items /\ r.about \in {"people", "stacked"} /\ after \in Answered(run, r)
    BY <1>0, <1>1 DEF Applied, AnyRequest
  <2> DEFINE still == [run EXCEPT !.ask[r.item] = @ \ {r.about}]
             over == [still EXCEPT !.item[r.item] = "terminal"]
  <2>2. after \in {run, still, over}
    BY <2>1 DEF Answered
  <2>3. still \in Runs /\ still.item = run.item /\ still.stepping = run.stepping
    BY <2>1 DEF Runs
  <2>4. /\ over \in Runs /\ over.item = [run.item EXCEPT ![r.item] = "terminal"]
        /\ over.stepping = run.stepping
    <3> HIDE DEF still
    <3> QED
      BY <2>1, <2>3 DEF Runs
  <2> HIDE DEF still, over
  <2>5. run.item \in [Items -> {"open", "running", "terminal"}]
    BY DEF Runs
  <2> QED
    BY <2>1, <2>2, <2>3, <2>4, <2>5 DEF StaysOver, Over
<1>2. CASE r.kind = "cancel"
  <2>1. after = Cancelled(run, r.kill)
    BY <1>2 DEF Applied
  <2> QED
    BY <2>1 DEF Cancelled, Runs, StaysOver, Over
<1>3. CASE r.kind = "release"
  <2>1. r.item \in Items /\ after = Released(run, r.item, r.kill)
    BY <1>0, <1>3 DEF Applied, AnyRequest
  <2> QED
    BY <2>1 DEF Released, Runs, StaysOver, Over
<1> QED
  BY <1>0, <1>1, <1>2, <1>3 DEF AnyRequest

LEMMA SettleIdleKeeps ==
  ASSUME NEW run \in Runs
  PROVE  /\ SettleIdle(run) \in Runs /\ SettleIdle(run).item = run.item
         /\ SettleIdle(run).stepping = run.stepping
BY DEF SettleIdle, Runs

LEMMA MarkInterruptedType ==
  ASSUME NEW run \in Runs,
         NEW status \in {"running", "waiting", "interrupted", "done", "cancelled"}
  PROVE  [MarkInterrupted(run) EXCEPT !.status = status] \in Runs
<1> DEFINE marked == MarkInterrupted(run)
<1>1. [i \in Items |-> IF i \in run.stepping THEN "open" ELSE run.item[i]]
        \in [Items -> {"open", "running", "terminal"}]
  BY DEF Runs
<1>2. [i \in Items |-> IF i \in run.stepping THEN run.ask[i] \cup {"people"} ELSE run.ask[i]]
        \in [Items -> SUBSET {"people", "stacked"}]
  BY DEF Runs
<1>3. marked \in Runs
  BY <1>1, <1>2 DEF MarkInterrupted, Runs
<1>4. \A after \in Runs : [after EXCEPT !.status = status] \in Runs
  BY DEF Runs
<1> QED
  BY <1>3, <1>4

LEMMA FinishedStepKeeps ==
  ASSUME NEW run \in Runs, NEW i \in Items, NEW after \in FinishedStep(run, i)
  PROVE  after \in Runs /\ StaysOver(run, after) /\ after.stepping = run.stepping \ {i}
<1> DEFINE over == [run EXCEPT !.stepping = @ \ {i}]
           queued == [over EXCEPT !.item[i] = "open"]
           asking == [queued EXCEPT !.ask[i] = @ \cup {"people"}]
<1>1. over \in Runs /\ over.item = run.item /\ over.stepping = run.stepping \ {i}
  BY DEF Runs
<1>2. /\ queued \in Runs /\ queued.item = [run.item EXCEPT ![i] = "open"]
      /\ queued.stepping = over.stepping
  <2> HIDE DEF over
  <2> QED
    BY <1>1 DEF Runs
<1>3. asking \in Runs /\ asking.item = queued.item /\ asking.stepping = queued.stepping
  <2> HIDE DEF queued
  <2>1. queued.ask \in [Items -> SUBSET {"people", "stacked"}]
    BY <1>2 DEF Runs
  <2>2. [queued.ask EXCEPT ![i] = @ \cup {"people"}] \in [Items -> SUBSET {"people", "stacked"}]
    BY <2>1
  <2>3. asking = [queued EXCEPT !.ask = [queued.ask EXCEPT ![i] = @ \cup {"people"}]]
    OBVIOUS
  <2> QED
    BY <1>2, <2>2, <2>3 DEF Runs
<1>4. CASE Over(run, i)
  BY <1>1, <1>4 DEF FinishedStep, StaysOver, Over
<1>5. CASE ~Over(run, i)
  <2>1. after \in {queued, asking}
    BY <1>5 DEF FinishedStep
  <2> HIDE DEF over, queued, asking
  <2>2. run.item \in [Items -> {"open", "running", "terminal"}]
    BY DEF Runs
  <2> QED
    BY <1>1, <1>2, <1>3, <1>5, <2>1, <2>2 DEF StaysOver, Over
<1> QED
  BY <1>4, <1>5

-----------------------------------------------------------------------------
(* Types.  A step just spawned is a process of an item, and a driver that  *)
(* holds nothing yet gave nothing away.                                    *)

FreshInv == pc = "spawned" => fresh \in Steps /\ step[fresh].item \in Items

NoneGiven == pc \in {"away", "open"} => given = {}

TypeInv == TypeOK /\ FreshInv /\ NoneGiven

LEMMA TypeInit == Init => TypeInv
BY DEF Init, TypeInv, TypeOK, FreshInv, NoneGiven, Runs, Processes, Unused

LEMMA SignalledType ==
  ASSUME NEW p \in Steps, step \in [Steps -> Processes]
  PROVE  /\ Signalled(p) \in Processes /\ Signalled(p).item = step[p].item
         /\ Signalled(p).state = step[p].state /\ Signalled(p).marks = step[p].marks
BY DEF Signalled, Processes

LEMMA KillType ==
  ASSUME NEW items \in SUBSET Items, Kill(items), step \in [Steps -> Processes]
  PROVE  /\ step' \in [Steps -> Processes]
         /\ \A p \in Steps : /\ step'[p].item = step[p].item
                              /\ step'[p].state = step[p].state
                              /\ step'[p].marks = step[p].marks
BY SignalledType DEF Kill

LEMMA TypeStep == TypeInv /\ [Next]_vars => TypeInv'
<1> SUFFICES ASSUME TypeInv, [Next]_vars PROVE TypeInv'
  OBVIOUS
<1> USE DEF TypeInv, TypeOK, FreshInv, NoneGiven
<1>Submit. ASSUME NEW r \in Requests, Submit(r) PROVE TypeInv'
  BY <1>Submit DEF Submit
<1>Drain. ASSUME NEW r \in Requests, Drain(r) PROVE TypeInv'
  BY <1>Drain, AppliedKeeps DEF Drain
<1>Open. ASSUME Open PROVE TypeInv'
  BY <1>Open DEF Open
<1>HoldItems. ASSUME HoldItems PROVE TypeInv'
  <2> DEFINE run == SettleIdle(mem)
             held == [MarkInterrupted(run) EXCEPT !.status = "running"]
  <2>1. run \in Runs
    BY SettleIdleKeeps
  <2>2. held \in Runs
    BY <2>1, MarkInterruptedType
  <2> HIDE DEF run, held
  <2>3. /\ disk' = run /\ mem' \in {run, held} /\ pc' \in {"drain", "finish"}
        /\ kept' \in SUBSET Items /\ given = {}
        /\ lock' \in [Locks -> {None, Driver} \cup Commands \cup Steps]
    BY <1>HoldItems DEF HoldItems, run, held
  <2> QED
    BY <1>HoldItems, <2>1, <2>2, <2>3 DEF HoldItems
<1>Finish. ASSUME Finish PROVE TypeInv'
  BY <1>Finish, SettleIdleKeeps DEF Finish, Gone, Processes, Unused
<1>Crash. ASSUME Crash PROVE TypeInv'
  BY <1>Crash DEF Crash, Gone, Processes, Unused
<1>Interrupt. ASSUME Interrupt PROVE TypeInv'
  BY <1>Interrupt, KillType DEF Interrupt, Live
<1>SaveInterrupted. ASSUME SaveInterrupted PROVE TypeInv'
  BY <1>SaveInterrupted, MarkInterruptedType DEF SaveInterrupted
<1>Unwind. ASSUME Unwind PROVE TypeInv'
  BY <1>Unwind DEF Unwind, Gone, Processes, Unused
<1>Drained. ASSUME Drained PROVE TypeInv'
  BY <1>Drained DEF Drained
<1>KillTerminalLive. ASSUME KillTerminalLive PROVE TypeInv'
  BY <1>KillTerminalLive, KillType DEF KillTerminalLive
<1>ReleaseFinished. ASSUME ReleaseFinished PROVE TypeInv'
  BY <1>ReleaseFinished DEF ReleaseFinished, DoneTargets
<1>KillLive. ASSUME KillLive PROVE TypeInv'
  BY <1>KillLive, KillType DEF KillLive, Live
<1>Reap. ASSUME NEW i \in Items, Reap(i) PROVE TypeInv'
  <2>1. CASE Up(live[i])
    BY <1>Reap, <2>1 DEF Reap
  <2>2. CASE ~Up(live[i])
    <3>1. mem' \in Runs
      BY <1>Reap, <2>2, FinishedStepKeeps DEF Reap
    <3>2. step' \in [Steps -> Processes]
      BY <1>Reap, <2>2 DEF Reap, Unused, Processes
    <3> QED
      BY <1>Reap, <2>2, <3>1, <3>2 DEF Reap
  <2> QED
    BY <2>1, <2>2
<1>Reaped. ASSUME Reaped PROVE TypeInv'
  BY <1>Reaped DEF Reaped
<1>ReleaseStacked. ASSUME ReleaseStacked PROVE TypeInv'
  <2>1. [i \in Items |-> IF BaseIsOver(mem, i) THEN mem.ask[i] \ {"stacked"} ELSE mem.ask[i]]
          \in [Items -> SUBSET {"people", "stacked"}]
    BY DEF Runs
  <2>2. mem' \in Runs
    BY <1>ReleaseStacked, <2>1 DEF ReleaseStacked, Runs
  <2> QED
    BY <1>ReleaseStacked, <2>2 DEF ReleaseStacked
<1>PassOver. ASSUME NEW i \in Items, PassOver(i) PROVE TypeInv'
  BY <1>PassOver DEF PassOver, Visit, IsNext
<1>AskPeople. ASSUME NEW i \in Items, AskPeople(i) PROVE TypeInv'
  <2>1. mem' \in Runs
    BY <1>AskPeople DEF AskPeople, Runs
  <2> QED
    BY <1>AskPeople, <2>1 DEF AskPeople, Visit, IsNext
<1>StackedWait. ASSUME NEW i \in Items, StackedWait(i) PROVE TypeInv'
  <2>1. mem' \in Runs
    BY <1>StackedWait DEF StackedWait, Runs
  <2> QED
    BY <1>StackedWait, <2>1 DEF StackedWait, Visit, IsNext
<1>AssignTree. ASSUME NEW i \in Items, AssignTree(i) PROVE TypeInv'
  <2>1. mem' \in Runs
    BY <1>AssignTree DEF AssignTree, Runs
  <2> QED
    BY <1>AssignTree, <2>1 DEF AssignTree, IsNext
<1>Close. ASSUME NEW i \in Items, Close(i) PROVE TypeInv'
  <2>1. mem' \in Runs
    BY <1>Close DEF Close, Runs
  <2> QED
    BY <1>Close, <2>1 DEF Close, Visit, IsNext
<1>Spawn. ASSUME NEW i \in Items, NEW p \in Steps, Spawn(i, p) PROVE TypeInv'
  <2>1. step' \in [Steps -> Processes] /\ step'[p].item = i
    BY <1>Spawn DEF Spawn, Processes, LocksOf
  <2> QED
    BY <1>Spawn, <2>1 DEF Spawn, Visit, IsNext
<1>Record. ASSUME Record PROVE TypeInv'
  <2>1. fresh \in Steps /\ step[fresh].item \in Items
    BY <1>Record DEF Record
  <2>2. mem' \in Runs
    BY <1>Record, <2>1 DEF Record, Runs
  <2> QED
    BY <1>Record, <2>1, <2>2 DEF Record
<1>Admitted. ASSUME Admitted PROVE TypeInv'
  BY <1>Admitted DEF Admitted
<1>Commit. ASSUME Commit PROVE TypeInv'
  BY <1>Commit DEF Commit
<1>Settle. ASSUME Settle PROVE TypeInv'
  <2>1. BlockedStatus \in {"running", "waiting", "done", "cancelled"}
    BY DEF BlockedStatus
  <2>2. mem' \in Runs
    BY <1>Settle, <2>1 DEF Settle, Runs
  <2> QED
    BY <1>Settle, <2>1, <2>2 DEF Settle
<1>StepLocks. ASSUME NEW p \in Steps, StepLocks(p) PROVE TypeInv'
  <2>1. \E new \in Processes : step' = [step EXCEPT ![p] = new]
    <3>1. [step[p] EXCEPT !.state = "working"] \in Processes
      BY DEF Processes
    <3>2. [step[p] EXCEPT !.state = "gone"] \in Processes
      BY DEF Processes
    <3>3. Unused \in Processes
      BY DEF Processes, Unused
    <3> QED
      BY <1>StepLocks, <3>1, <3>2, <3>3 DEF StepLocks
  <2>2. pc = "spawned" => step'[fresh].item = step[fresh].item
    BY <1>StepLocks DEF StepLocks, Tracked, Processes
  <2>3. lock' \in [Locks -> {None, Driver} \cup Commands \cup Steps]
    BY <1>StepLocks DEF StepLocks
  <2> QED
    BY <1>StepLocks, <2>1, <2>2, <2>3 DEF StepLocks
<1>StepExit. ASSUME NEW p \in Steps, StepExit(p) PROVE TypeInv'
  <2>1. step' \in [Steps -> Processes]
    BY <1>StepExit DEF StepExit, Processes, Unused
  <2>2. pc = "spawned" => step'[fresh].item = step[fresh].item
    BY <1>StepExit DEF StepExit, Tracked, Processes
  <2> QED
    BY <1>StepExit, <2>1, <2>2 DEF StepExit
<1>GraceOver. ASSUME NEW p \in Steps, GraceOver(p) PROVE TypeInv'
  <2>1. step' = [step EXCEPT ![p] = [step[p] EXCEPT !.sig = "late"]]
    BY <1>GraceOver DEF GraceOver
  <2>2. [step[p] EXCEPT !.sig = "late"] \in Processes
        /\ [step[p] EXCEPT !.sig = "late"].item = step[p].item
    BY DEF Processes
  <2> QED
    BY <1>GraceOver, <2>1, <2>2 DEF GraceOver
<1>CommandStarts. ASSUME NEW c \in Commands, CommandStarts(c) PROVE TypeInv'
  BY <1>CommandStarts DEF CommandStarts
<1>CommandEnds. ASSUME NEW c \in Commands, CommandEnds(c) PROVE TypeInv'
  BY <1>CommandEnds DEF CommandEnds
<1>stutter. CASE UNCHANGED vars
  BY <1>stutter
<1> QED
  BY <1>Submit, <1>Drain, <1>Open, <1>HoldItems, <1>Finish, <1>Crash, <1>Interrupt,
     <1>SaveInterrupted, <1>Unwind, <1>Drained, <1>KillTerminalLive, <1>ReleaseFinished,
     <1>KillLive, <1>Reap, <1>Reaped, <1>ReleaseStacked, <1>PassOver, <1>AskPeople,
     <1>StackedWait, <1>AssignTree, <1>Close, <1>Spawn, <1>Record, <1>Admitted, <1>Commit,
     <1>Settle, <1>StepLocks, <1>StepExit, <1>GraceOver, <1>CommandStarts, <1>CommandEnds,
     <1>stutter
     DEF Next, DriverStep, Tick, Admission

(* Every variable keeps its type, and what was given back was held before. *)
THEOREM TypesHold == Spec => []TypeOK
<1>1. Spec => []TypeInv
  BY TypeInit, TypeStep, PTL DEF Spec
<1> QED
  BY <1>1, PTL DEF TypeInv
-----------------------------------------------------------------------------
(* A driver that is not up, or has only just opened the run, tracks no     *)
(* step and gave nothing away.                                             *)
Idle == pc \in {"away", "open"} => given = {} /\ Live = {} /\ fresh = None

(* In the loop the driver tracks exactly the items it has a RUNNING record *)
(* of, and a process for each; a step is fresh only until it is recorded.  *)
Tracking ==
  /\ pc \in Loop => mem.stepping = Live
  /\ \A i \in Live : step[live[i]].item = i
  /\ fresh # None => step[fresh].item \in Items /\ pc \in {"spawned", "stopping", "unwind"}
  /\ pc = "spawned" => fresh # None /\ ~Over(mem, step[fresh].item)

(* An item given away is over in memory as well as on disk, and none of    *)
(* its records is RUNNING, so no interrupt revives it.                     *)
GivenAreOver == \A i \in given : Over(mem, i) /\ Over(disk, i) /\ i \notin mem.stepping

(* When locks are given back, and until the next change is made, what is   *)
(* over in memory is over on disk; from the commit on to the next drain    *)
(* every step tracked is on disk.                                          *)
Saved ==
  /\ pc \in {"drain", "stop", "giveback", "release", "settle"} =>
       \A i \in Items : Over(mem, i) => Over(disk, i)
  /\ pc \in {"release", "settle", "drain"} => Live \subseteq disk.stepping

RecordInv == Idle /\ Tracking /\ GivenAreOver /\ Saved


LEMMA RecordInit == Init => RecordInv
BY DEF Init, RecordInv, Idle, Tracking, GivenAreOver, Saved, Live, Over

(* Nothing in the record, in memory or saved, and no step's item changes.  *)
LEMMA RecordSame ==
  ASSUME RecordInv, TypeInv,
         UNCHANGED <<pc, mem, disk, live, fresh, given>>,
         \A p \in Steps : Tracked(p) => step'[p].item = step[p].item
  PROVE  RecordInv'
<1>1. Live' = Live
  BY DEF Live
<1>2. \A i \in Live : step'[live[i]].item = step[live[i]].item
  BY DEF Live, Tracked, TypeInv, TypeOK
<1>3. fresh # None => step'[fresh].item = step[fresh].item
  BY DEF Tracked, TypeInv, TypeOK
<1> QED
  BY <1>1, <1>2, <1>3 DEF RecordInv, Idle, Tracking, GivenAreOver, Saved, Over

LEMMA MarkedOver ==
  ASSUME NEW run \in Runs, NEW i \in Items,
         NEW status \in {"running", "waiting", "interrupted", "done", "cancelled"}
  PROVE  LET marked == [MarkInterrupted(run) EXCEPT !.status = status] IN
         /\ Over(marked, i) => Over(run, i)
         /\ i \notin run.stepping => Over(marked, i) = Over(run, i)
         /\ marked.stepping = {}
BY DEF MarkInterrupted, Over, Runs

LEMMA RecordStep == RecordInv /\ TypeInv /\ [Next]_vars => RecordInv'
<1> SUFFICES ASSUME RecordInv, TypeInv, [Next]_vars PROVE RecordInv'
  OBVIOUS
<1> USE DEF RecordInv, Idle, Tracking, GivenAreOver, Saved
<1>type. /\ mem \in Runs /\ disk \in Runs /\ step \in [Steps -> Processes]
         /\ live \in [Items -> Steps \cup {None}] /\ given \subseteq Items
         /\ mem.item \in [Items -> {"open", "running", "terminal"}] /\ fresh \in Steps \cup {None}
  BY DEF TypeInv, TypeOK, Runs
<1>Submit. ASSUME NEW r \in Requests, Submit(r) PROVE RecordInv'
  BY <1>Submit DEF Submit, Live, Over
<1>Drain. ASSUME NEW r \in Requests, Drain(r) PROVE RecordInv'
  <2>1. PICK run \in Applied(mem, r) : mem' = run /\ disk' = run
    BY <1>Drain DEF Drain
  <2>2. StaysOver(mem, run) /\ run.stepping = mem.stepping
    BY <1>type, <2>1, AppliedKeeps
  <2> QED
    BY <1>Drain, <1>type, <2>1, <2>2 DEF Drain, StaysOver, Live, Over
<1>Open. ASSUME Open PROVE RecordInv'
  BY <1>Open DEF Open, Live, Over
<1>HoldItems. ASSUME HoldItems PROVE RecordInv'
  <2> DEFINE run == SettleIdle(mem)
             held == [MarkInterrupted(run) EXCEPT !.status = "running"]
  <2>1. run \in Runs
    BY <1>type, SettleIdleKeeps
  <2>2. held.stepping = {} /\ \A i \in Items : Over(held, i) => Over(run, i)
    <3>1. held.stepping = {}
      BY DEF MarkInterrupted
    <3> HIDE DEF run
    <3>2. \A i \in Items : Over(held, i) => Over(run, i)
      BY <2>1, MarkedOver
    <3> QED
      BY <3>1, <3>2
  <2> HIDE DEF run, held
  <2>3. /\ given = {} /\ Live = {} /\ fresh = None
        /\ UNCHANGED <<given, live, fresh, step>> /\ disk' = run
        /\ (mem' = held /\ pc' = "drain") \/ (mem' = run /\ pc' = "finish")
    BY <1>HoldItems DEF HoldItems, run, held
  <2>4. Live' = {}
    BY <2>3 DEF Live
  <2> QED
    BY <2>2, <2>3, <2>4 DEF Over
<1>gone. ASSUME Gone PROVE RecordInv'
  <2>1. given' = {} /\ Live' = {} /\ fresh' = None /\ pc' = "away"
    BY <1>gone DEF Gone, Live
  <2> QED
    BY <2>1
<1>Finish. ASSUME Finish PROVE RecordInv'
  BY <1>Finish, <1>gone DEF Finish
<1>Crash. ASSUME Crash PROVE RecordInv'
  BY <1>Crash, <1>gone DEF Crash
<1>Unwind. ASSUME Unwind PROVE RecordInv'
  BY <1>Unwind, <1>gone DEF Unwind
<1>Interrupt. ASSUME Interrupt PROVE RecordInv'
  <2>1. \A p \in Steps : step'[p].item = step[p].item
    BY <1>Interrupt, <1>type, KillType DEF Interrupt, Live
  <2> QED
    BY <1>Interrupt, <1>type, <2>1 DEF Interrupt, Live, Over
<1>SaveInterrupted. ASSUME SaveInterrupted PROVE RecordInv'
  <2> DEFINE status == IF mem.cancel # "none" THEN "cancelled" ELSE "interrupted"
             marked == [MarkInterrupted(mem) EXCEPT !.status = status]
  <2>1. \A i \in Items : i \notin mem.stepping => Over(marked, i) = Over(mem, i)
    BY <1>type, MarkedOver
  <2>2. marked.stepping = {}
    BY DEF MarkInterrupted
  <2> HIDE DEF marked
  <2>3. /\ mem' = marked /\ disk' = marked /\ pc' = "unwind"
        /\ UNCHANGED <<live, fresh, given, step>> /\ pc = "stopping"
    BY <1>SaveInterrupted DEF SaveInterrupted, marked
  <2> QED
    BY <1>type, <2>1, <2>2, <2>3 DEF Live, Over
<1>Drained. ASSUME Drained PROVE RecordInv'
  BY <1>Drained DEF Drained, Live, Over
<1>KillTerminalLive. ASSUME KillTerminalLive PROVE RecordInv'
  <2>1. \A p \in Steps : step'[p].item = step[p].item
    BY <1>KillTerminalLive, <1>type, KillType DEF KillTerminalLive
  <2> QED
    BY <1>KillTerminalLive, <1>type, <2>1 DEF KillTerminalLive, Live, Over
<1>ReleaseFinished. ASSUME ReleaseFinished PROVE RecordInv'
  <2>1. \A i \in DoneTargets : i \in Items /\ Over(mem, i) /\ live[i] = None
    BY DEF DoneTargets, TypeInv, TypeOK
  <2>2. \A i \in DoneTargets : Over(disk, i) /\ i \notin mem.stepping
    BY <1>ReleaseFinished, <2>1 DEF ReleaseFinished, Live
  <2> QED
    BY <1>ReleaseFinished, <2>1, <2>2 DEF ReleaseFinished, Live, Over
<1>KillLive. ASSUME KillLive PROVE RecordInv'
  <2>1. \A p \in Steps : step'[p].item = step[p].item
    BY <1>KillLive, <1>type, KillType DEF KillLive, Live
  <2> QED
    BY <1>KillLive, <1>type, <2>1 DEF KillLive, Live, Over
<1>Reap. ASSUME NEW i \in Items, Reap(i) PROVE RecordInv'
  <2>0. /\ pc = "poll" /\ UNCHANGED <<pc, disk, fresh, given>> /\ fresh = None
    BY <1>Reap DEF Reap
  <2>1. CASE Up(live[i])
    BY <1>Reap, <2>1 DEF Reap, Live, Over
  <2>2. CASE ~Up(live[i])
    <3>1. /\ mem' \in FinishedStep(mem, i) /\ live' = [live EXCEPT ![i] = None]
          /\ step' = [step EXCEPT ![live[i]] = Unused]
      BY <1>Reap, <2>2 DEF Reap
    <3>2. StaysOver(mem, mem') /\ mem'.stepping = mem.stepping \ {i}
      BY <1>type, <3>1, FinishedStepKeeps
    <3>3. Live' = Live \ {i}
      BY <1>type, <3>1 DEF Live
    <3>4. \A j \in Live' : live'[j] = live[j] /\ live[j] \in Steps /\ live[j] # live[i]
      <4>1. \A j \in Live' : j \in Live /\ j # i /\ live'[j] = live[j] /\ live[j] \in Steps
        BY <1>type, <3>1, <3>3 DEF Live
      <4>2. \A j \in Live' : live[j] = live[i] => i \in Live /\ j = i
        BY <1>type, <4>1 DEF Live
      <4> QED
        BY <4>1, <4>2
    <3>5. \A j \in Live' : step'[live'[j]].item = j
      BY <1>type, <3>1, <3>3, <3>4
    <3> QED
      BY <1>type, <2>0, <3>2, <3>3, <3>5 DEF StaysOver, Over
  <2> QED
    BY <2>1, <2>2
<1>Reaped. ASSUME Reaped PROVE RecordInv'
  BY <1>Reaped DEF Reaped, Live, Over
<1>ReleaseStacked. ASSUME ReleaseStacked PROVE RecordInv'
  BY <1>ReleaseStacked, <1>type DEF ReleaseStacked, Live, Over, Runs
<1>PassOver. ASSUME NEW i \in Items, PassOver(i) PROVE RecordInv'
  BY <1>PassOver DEF PassOver, Visit, IsNext, Live, Over
<1>AskPeople. ASSUME NEW i \in Items, AskPeople(i) PROVE RecordInv'
  BY <1>AskPeople, <1>type DEF AskPeople, Visit, IsNext, Live, Over, Runs
<1>StackedWait. ASSUME NEW i \in Items, StackedWait(i) PROVE RecordInv'
  BY <1>StackedWait, <1>type DEF StackedWait, Visit, IsNext, Live, Over, Runs
<1>AssignTree. ASSUME NEW i \in Items, AssignTree(i) PROVE RecordInv'
  BY <1>AssignTree, <1>type DEF AssignTree, IsNext, Live, Over, Runs
<1>Close. ASSUME NEW i \in Items, Close(i) PROVE RecordInv'
  <2>1. mem'.item = [mem.item EXCEPT ![i] = "terminal"] /\ mem'.stepping = mem.stepping
    BY <1>Close, <1>type DEF Close, Runs
  <2> QED
    BY <1>Close, <1>type, <2>1 DEF Close, Visit, IsNext, Live, Over
<1>Spawn. ASSUME NEW i \in Items, NEW p \in Steps, Spawn(i, p) PROVE RecordInv'
  <2>1. /\ step[p].item = None /\ step'[p].item = i /\ ~Over(mem, i) /\ fresh' = p
        /\ \A q \in Steps \ {p} : step'[q] = step[q]
        /\ pc = "admit" /\ pc' = "spawned" /\ UNCHANGED <<mem, disk, live, given>>
    BY <1>Spawn, <1>type DEF Spawn, Visit, IsNext, Ready, Unused
  <2>2. Live' = Live /\ \A j \in Live : live[j] # p
    BY <1>type, <2>1 DEF Live
  <2> QED
    BY <1>type, <2>1, <2>2 DEF Live, Over
<1>Record. ASSUME Record PROVE RecordInv'
  <2> DEFINE i == step[fresh].item
  <2>1. /\ pc = "spawned" /\ fresh \in Steps /\ i \in Items /\ ~Over(mem, i)
    BY <1>Record, <1>type DEF Record
  <2>2. /\ live' = [live EXCEPT ![i] = fresh] /\ fresh' = None /\ pc' = "admit"
        /\ mem'.item = [mem.item EXCEPT ![i] = "running"]
        /\ mem'.stepping = mem.stepping \cup {i}
        /\ UNCHANGED <<disk, given, step>>
    BY <1>Record, <1>type, <2>1 DEF Record, Runs
  <2> HIDE DEF i
  <2>3. Live' = Live \cup {i}
    BY <1>type, <2>1, <2>2 DEF Live
  <2>4. \A j \in Live' : step'[live'[j]].item = j
    BY <1>type, <2>1, <2>2, <2>3 DEF i
  <2>5. i \notin given
    BY <2>1
  <2> QED
    BY <1>type, <2>1, <2>2, <2>3, <2>4, <2>5 DEF Over
<1>Admitted. ASSUME Admitted PROVE RecordInv'
  BY <1>Admitted DEF Admitted, Live, Over
<1>Commit. ASSUME Commit PROVE RecordInv'
  BY <1>Commit DEF Commit, Live, Over
<1>Settle. ASSUME Settle PROVE RecordInv'
  <2>1. mem'.item = mem.item /\ mem'.stepping = mem.stepping
    BY <1>Settle, <1>type DEF Settle, Runs
  <2>2. \/ pc' = "drain" /\ UNCHANGED disk
        \/ pc' = "finish" /\ disk' = mem'
    BY <1>Settle DEF Settle
  <2> QED
    <3>1. /\ pc = "settle" /\ UNCHANGED <<live, fresh, given, step>>
      BY <1>Settle DEF Settle
    <3> QED
      BY <1>type, <2>1, <2>2, <3>1 DEF Live, Over
<1>StepLocks. ASSUME NEW p \in Steps, StepLocks(p) PROVE RecordInv'
  <2>1. \A q \in Steps : Tracked(q) => step'[q].item = step[q].item
    <3>1. \A state \in {"working", "gone"} :
            [step[p] EXCEPT !.state = state].item = step[p].item
      BY <1>type DEF Processes
    <3>2. PICK new \in {[step[p] EXCEPT !.state = "working"],
                        [step[p] EXCEPT !.state = "gone"], Unused} :
            step' = [step EXCEPT ![p] = new] /\ (new = Unused => ~Tracked(p))
      <4>1. CASE step' = [step EXCEPT ![p] = [step[p] EXCEPT !.state = "working"]]
        BY <1>StepLocks, <1>type, <4>1 DEF Unused, Processes, StepLocks
      <4>2. CASE step' = [step EXCEPT ![p] = IF Tracked(p) THEN [@ EXCEPT !.state = "gone"]
                                                           ELSE Unused]
        BY <1>StepLocks, <1>type, <4>2 DEF Unused, Processes, StepLocks
      <4> QED
        BY <1>StepLocks, <4>1, <4>2 DEF StepLocks
    <3>3. Tracked(p) => new.item = step[p].item
      BY <3>1, <3>2
    <3> QED
      BY <1>type, <3>2, <3>3
  <2> QED
    BY <1>StepLocks, <2>1, RecordSame DEF StepLocks
<1>StepExit. ASSUME NEW p \in Steps, StepExit(p) PROVE RecordInv'
  <2>1. \A q \in Steps : Tracked(q) => step'[q].item = step[q].item
    BY <1>StepExit, <1>type DEF StepExit, Processes
  <2> QED
    BY <1>StepExit, <2>1, RecordSame DEF StepExit
<1>GraceOver. ASSUME NEW p \in Steps, GraceOver(p) PROVE RecordInv'
  <2>1. step' = [step EXCEPT ![p] = [step[p] EXCEPT !.sig = "late"]]
    BY <1>GraceOver DEF GraceOver
  <2>2. [step[p] EXCEPT !.sig = "late"].item = step[p].item
    BY <1>type DEF Processes
  <2>3. \A q \in Steps : Tracked(q) => step'[q].item = step[q].item
    BY <1>type, <2>1, <2>2
  <2> QED
    BY <1>GraceOver, <2>3, RecordSame DEF GraceOver
<1>CommandStarts. ASSUME NEW c \in Commands, CommandStarts(c) PROVE RecordInv'
  BY <1>CommandStarts DEF CommandStarts, Live, Over
<1>CommandEnds. ASSUME NEW c \in Commands, CommandEnds(c) PROVE RecordInv'
  BY <1>CommandEnds DEF CommandEnds, Live, Over
<1>stutter. CASE UNCHANGED vars
  BY <1>stutter DEF Live, Over
<1> QED
  BY <1>Submit, <1>Drain, <1>Open, <1>HoldItems, <1>Finish, <1>Crash, <1>Interrupt,
     <1>SaveInterrupted, <1>Unwind, <1>Drained, <1>KillTerminalLive, <1>ReleaseFinished,
     <1>KillLive, <1>Reap, <1>Reaped, <1>ReleaseStacked, <1>PassOver, <1>AskPeople,
     <1>StackedWait, <1>AssignTree, <1>Close, <1>Spawn, <1>Record, <1>Admitted, <1>Commit,
     <1>Settle, <1>StepLocks, <1>StepExit, <1>GraceOver, <1>CommandStarts, <1>CommandEnds,
     <1>stutter
     DEF Next, DriverStep, Tick, Admission

(* A target is given back only when state.json says its items are over:    *)
(* whenever the driver is killed, the saved run owns no item whose lock    *)
(* somebody else may have.                                                 *)
THEOREM GivenAwayIsSavedHolds == Spec => []GivenAwayIsSaved
<1>1. RecordInv => GivenAwayIsSaved
  BY DEF RecordInv, GivenAreOver, GivenAwayIsSaved
<1>2. Spec => [](TypeInv /\ RecordInv)
  BY TypeInit, TypeStep, RecordInit, RecordStep, PTL DEF Spec
<1> QED
  BY <1>1, <1>2, PTL

(* Between two ticks every step the driver tracks is RUNNING in state.json *)
(* too, for a resume to find.                                              *)
THEOREM StepsAreRecordedHolds == Spec => []StepsAreRecorded
<1>1. RecordInv => StepsAreRecorded
  BY DEF RecordInv, Saved, StepsAreRecorded
<1>2. Spec => [](TypeInv /\ RecordInv)
  BY TypeInit, TypeStep, RecordInit, RecordStep, PTL DEF Spec
<1> QED
  BY <1>1, <1>2, PTL

-----------------------------------------------------------------------------
(* A step the driver tracks, of an item it holds, keeps its cover: what it *)
(* was given a marker for is the driver's, and once it works the rest is   *)
(* its own.                                                                *)
Covered ==
  \A p \in Steps :
    Tracked(p) /\ Up(p) /\ step[p].item \in kept =>
      \A l \in LocksOf(step[p].item) :
        /\ l \in step[p].marks => lock[l] = Driver
        /\ l \notin step[p].marks /\ step[p].state = "working" => lock[l] = p

LEMMA CoverInit == Init => Covered
BY DEF Init, Covered, Tracked, Up, Unused

(* Two items that have a lock in common have their target in common.       *)
LEMMA SameTarget ==
  ASSUME NEW i \in Items, NEW j \in Items, NEW l \in LocksOf(i), l \in LocksOf(j)
  PROVE  TargetOf[i] = TargetOf[j]
BY DEF LocksOf

(* A step keeps its cover when nothing of it changes, and no lock that     *)
(* covers it.                                                              *)
LEMMA CoverSame ==
  ASSUME Covered, UNCHANGED kept, kept \subseteq Items,
         \A p \in Steps : Tracked(p)' /\ Up(p)' =>
           /\ Tracked(p)
           /\ step'[p].item = step[p].item /\ step'[p].marks = step[p].marks
           /\ step'[p].state = step[p].state
           /\ \A l \in Locks : lock[l] \in {Driver, p} => lock'[l] = lock[l]
  PROVE  Covered'
<1> SUFFICES ASSUME NEW p \in Steps, Tracked(p)', Up(p)', step'[p].item \in kept',
                    NEW l \in LocksOf(step'[p].item)
             PROVE  /\ l \in step'[p].marks => lock'[l] = Driver
                    /\ l \notin step'[p].marks /\ step'[p].state = "working" => lock'[l] = p
  BY DEF Covered
<1>1. Tracked(p) /\ Up(p) /\ step[p].item \in kept /\ l \in LocksOf(step[p].item) /\ l \in Locks
  BY DEF Up, LocksOf
<1> QED
  BY <1>1 DEF Covered

LEMMA CoverStep == Covered /\ RecordInv /\ TypeInv /\ [Next]_vars => Covered'
<1> SUFFICES ASSUME Covered, RecordInv, TypeInv, [Next]_vars PROVE Covered'
  OBVIOUS
<1>type. /\ step \in [Steps -> Processes] /\ live \in [Items -> Steps \cup {None}]
         /\ given \subseteq Items /\ kept \subseteq Items /\ fresh \in Steps \cup {None}
         /\ lock \in [Locks -> {None, Driver} \cup Commands \cup Steps]
  BY DEF TypeInv, TypeOK
<1>same. ASSUME UNCHANGED <<kept, lock, live, fresh, step>> PROVE Covered'
  BY <1>same DEF Covered, Tracked, Up
<1>signal. ASSUME UNCHANGED <<kept, lock, live, fresh>>,
                  \A p \in Steps : /\ step'[p].item = step[p].item
                                    /\ step'[p].state = step[p].state
                                    /\ step'[p].marks = step[p].marks
           PROVE  Covered'
  BY <1>signal DEF Covered, Tracked, Up
<1>locks. ASSUME UNCHANGED <<kept, live, fresh, step>>,
                 \A p \in Steps, l \in Locks : lock[l] \in {Driver, p} => lock'[l] = lock[l]
          PROVE  Covered'
  <2>1. \A p \in Steps : Tracked(p)' = Tracked(p)
    BY <1>locks DEF Tracked
  <2> QED
    BY <1>locks, <1>type, <2>1, CoverSame
<1>none. ASSUME live' = [i \in Items |-> None], fresh' = None PROVE Covered'
  BY <1>none DEF Covered, Tracked
<1>Submit. ASSUME NEW r \in Requests, Submit(r) PROVE Covered'
  BY <1>Submit, <1>same DEF Submit
<1>Drain. ASSUME NEW r \in Requests, Drain(r) PROVE Covered'
  BY <1>Drain, <1>same DEF Drain
<1>Open. ASSUME Open PROVE Covered'
  BY <1>Open, <1>same DEF Open
<1>SaveInterrupted. ASSUME SaveInterrupted PROVE Covered'
  BY <1>SaveInterrupted, <1>same DEF SaveInterrupted
<1>Drained. ASSUME Drained PROVE Covered'
  BY <1>Drained, <1>same DEF Drained
<1>Reaped. ASSUME Reaped PROVE Covered'
  BY <1>Reaped, <1>same DEF Reaped
<1>ReleaseStacked. ASSUME ReleaseStacked PROVE Covered'
  BY <1>ReleaseStacked, <1>same DEF ReleaseStacked
<1>PassOver. ASSUME NEW i \in Items, PassOver(i) PROVE Covered'
  BY <1>PassOver, <1>same DEF PassOver
<1>AskPeople. ASSUME NEW i \in Items, AskPeople(i) PROVE Covered'
  BY <1>AskPeople, <1>same DEF AskPeople
<1>StackedWait. ASSUME NEW i \in Items, StackedWait(i) PROVE Covered'
  BY <1>StackedWait, <1>same DEF StackedWait
<1>Close. ASSUME NEW i \in Items, Close(i) PROVE Covered'
  BY <1>Close, <1>same DEF Close
<1>Admitted. ASSUME Admitted PROVE Covered'
  BY <1>Admitted, <1>same DEF Admitted
<1>Commit. ASSUME Commit PROVE Covered'
  BY <1>Commit, <1>same DEF Commit
<1>Settle. ASSUME Settle PROVE Covered'
  BY <1>Settle, <1>same DEF Settle
<1>Interrupt. ASSUME Interrupt PROVE Covered'
  BY <1>Interrupt, <1>type, <1>signal, KillType DEF Interrupt, Live
<1>KillTerminalLive. ASSUME KillTerminalLive PROVE Covered'
  BY <1>KillTerminalLive, <1>type, <1>signal, KillType DEF KillTerminalLive, Live
<1>KillLive. ASSUME KillLive PROVE Covered'
  BY <1>KillLive, <1>type, <1>signal, KillType DEF KillLive, Live
<1>HoldItems. ASSUME HoldItems PROVE Covered'
  <2>1. pc = "open" /\ UNCHANGED <<live, fresh>>
    BY <1>HoldItems DEF HoldItems
  <2>2. fresh = None /\ \A i \in Items : live[i] = None
    BY <2>1 DEF RecordInv, Idle, Live
  <2> QED
    BY <2>1, <2>2 DEF Covered, Tracked
<1>Finish. ASSUME Finish PROVE Covered'
  BY <1>Finish, <1>none DEF Finish, Gone
<1>Crash. ASSUME Crash PROVE Covered'
  BY <1>Crash, <1>none DEF Crash, Gone
<1>Unwind. ASSUME Unwind PROVE Covered'
  BY <1>Unwind, <1>none DEF Unwind, Gone
<1>ReleaseFinished. ASSUME ReleaseFinished PROVE Covered'
  <2>1. pc \in {"giveback", "release"} /\ UNCHANGED <<kept, live, fresh, step>>
    BY <1>ReleaseFinished DEF ReleaseFinished
  <2>2. ASSUME NEW p \in Steps, Tracked(p), step[p].item \in kept,
               NEW l \in LocksOf(step[p].item)
        PROVE  lock'[l] = lock[l]
    <3> DEFINE i == step[p].item
    <3>1. fresh = None
      BY <2>1 DEF RecordInv, Tracking
    <3>2. i \in Items /\ live[i] = p /\ i \in Live
      BY <2>2, <3>1 DEF Tracked, RecordInv, Tracking, Live
    <3>3. i \notin given
      BY <2>1, <3>2 DEF RecordInv, Tracking, GivenAreOver
    <3>4. \A j \in DoneTargets : l \notin LocksOf(j)
      <4> SUFFICES ASSUME NEW j \in DoneTargets, l \in LocksOf(j) PROVE FALSE
        OBVIOUS
      <4>1. TargetOf[i] = TargetOf[j]
        BY <1>type, <3>2, SameTarget DEF DoneTargets
      <4>2. i \in kept \ given
        BY <2>2, <3>3
      <4>3. live[i] = None
        BY <4>1, <4>2 DEF DoneTargets
      <4> QED
        BY <3>2, <4>3
    <3>5. l \in Locks
      BY <3>2 DEF LocksOf
    <3> QED
      BY <1>ReleaseFinished, <3>4, <3>5 DEF ReleaseFinished
  <2> QED
    BY <2>1, <2>2 DEF Covered, Tracked, Up
<1>Reap. ASSUME NEW i \in Items, Reap(i) PROVE Covered'
  <2>1. CASE Up(live[i])
    BY <1>Reap, <2>1, <1>same DEF Reap
  <2>2. CASE ~Up(live[i])
    <3>1. /\ step' = [step EXCEPT ![live[i]] = Unused] /\ live' = [live EXCEPT ![i] = None]
          /\ UNCHANGED <<kept, lock, fresh>> /\ pc = "poll"
      BY <1>Reap, <2>2 DEF Reap
    <3>2. fresh = None
      BY <3>1 DEF RecordInv, Tracking
    <3>3. \A p \in Steps : Tracked(p)' => Tracked(p) /\ p # live[i]
      <4> SUFFICES ASSUME NEW p \in Steps, Tracked(p)' PROVE Tracked(p) /\ p # live[i]
        OBVIOUS
      <4>1. PICK j \in Items : live'[j] = p
        BY <3>1, <3>2 DEF Tracked
      <4>2. j # i /\ live[j] = p
        BY <1>type, <3>1, <4>1
      <4>3. j \in Live /\ step[p].item = j
        BY <4>2 DEF Live, RecordInv, Tracking
      <4>4. p = live[i] => i \in Live /\ step[p].item = i
        BY DEF Live, RecordInv, Tracking
      <4> QED
        BY <4>2, <4>3, <4>4 DEF Tracked
    <3>4. \A p \in Steps : Tracked(p)' => step'[p] = step[p]
      BY <1>type, <3>1, <3>3
    <3> QED
      BY <1>type, <3>1, <3>3, <3>4, CoverSame
  <2> QED
    BY <2>1, <2>2
<1>AssignTree. ASSUME NEW i \in Items, AssignTree(i) PROVE Covered'
  <2>1. /\ UNCHANGED <<kept, live, fresh, step>>
        /\ \/ UNCHANGED lock
           \/ lock[TreeOf[i]] \in {None, Driver} /\ lock' = [lock EXCEPT ![TreeOf[i]] = Driver]
    BY <1>AssignTree DEF AssignTree
  <2>2. \A p \in Steps, l \in Locks : lock[l] \in {Driver, p} => lock'[l] = lock[l]
    BY <1>type, <2>1
  <2> QED
    BY <2>1, <2>2, <1>locks
<1>Spawn. ASSUME NEW i \in Items, NEW p \in Steps, Spawn(i, p) PROVE Covered'
  <2>1. /\ pc = "admit" /\ fresh' = p /\ UNCHANGED <<kept, lock, live>>
        /\ \A q \in Steps \ {p} : step'[q] = step[q]
        /\ step'[p].item = i /\ step'[p].marks = {l \in LocksOf(i) : lock[l] = Driver}
        /\ step'[p].state = "working" => step'[p].marks = LocksOf(i)
    BY <1>Spawn, <1>type DEF Spawn, Visit, IsNext
  <2>2. fresh = None
    BY <2>1 DEF RecordInv, Tracking
  <2>3. \A q \in Steps \ {p} : Tracked(q)' => Tracked(q)
    BY <2>1 DEF Tracked
  <2> QED
    BY <2>1, <2>3 DEF Covered, Up
<1>Record. ASSUME Record PROVE Covered'
  <2>1. /\ fresh \in Steps /\ step[fresh].item \in Items
        /\ live' = [live EXCEPT ![step[fresh].item] = fresh] /\ fresh' = None
        /\ UNCHANGED <<kept, lock, step>>
    BY <1>Record DEF Record, TypeInv, FreshInv
  <2>2. \A p \in Steps : Tracked(p)' => Tracked(p)
    BY <1>type, <2>1 DEF Tracked
  <2> QED
    BY <2>1, <2>2 DEF Covered, Up
<1>StepLocks. ASSUME NEW p \in Steps, StepLocks(p) PROVE Covered'
  <2> DEFINE own == LocksOf(step[p].item) \ step[p].marks
  <2>0. /\ step[p].state = "starting" /\ UNCHANGED <<kept, live, fresh>>
        /\ \A q \in Steps : Tracked(q)' = Tracked(q)
    BY <1>StepLocks DEF StepLocks, Tracked
  <2>1. CASE \A l \in own : lock[l] = None
    <3>1. /\ lock' = [l \in Locks |-> IF l \in own THEN p ELSE lock[l]]
          /\ step' = [step EXCEPT ![p] = [step[p] EXCEPT !.state = "working"]]
      BY <1>StepLocks, <2>1 DEF StepLocks
    <3>2. /\ step'[p].item = step[p].item /\ step'[p].marks = step[p].marks
          /\ \A q \in Steps \ {p} : step'[q] = step[q]
      BY <1>type, <3>1 DEF Processes
    <3>3. ASSUME NEW q \in Steps, q # p, NEW l \in Locks, lock[l] \in {Driver, q}
          PROVE  lock'[l] = lock[l]
      BY <2>1, <3>1, <3>3
    <3>4. ASSUME Tracked(p), step[p].item \in kept, NEW l \in LocksOf(step[p].item)
          PROVE  lock'[l] = IF l \in step[p].marks THEN Driver ELSE p
      <4>1. l \in Locks
        BY <1>type, <3>4 DEF LocksOf
      <4>2. CASE l \in step[p].marks
        BY <2>0, <3>1, <3>4, <4>1, <4>2 DEF Covered, Up
      <4>3. CASE l \notin step[p].marks
        BY <3>1, <4>1, <4>3
      <4> QED
        BY <4>2, <4>3
    <3>5. \A i \in kept : LocksOf(i) \subseteq Locks
      BY <1>type DEF LocksOf
    <3> HIDE DEF own
    <3> QED
      BY <2>0, <3>2, <3>3, <3>4, <3>5 DEF Covered, Up
  <2>2. CASE ~ \A l \in own : lock[l] = None
    <3>1. /\ UNCHANGED lock
          /\ \E new \in {[step[p] EXCEPT !.state = "gone"], Unused} :
               step' = [step EXCEPT ![p] = new]
      BY <1>StepLocks, <2>2 DEF StepLocks
    <3>2. step'[p].state \in {"gone", "unused"} /\ \A q \in Steps \ {p} : step'[q] = step[q]
      BY <1>type, <3>1 DEF Processes, Unused
    <3> QED
      BY <2>0, <3>1, <3>2 DEF Covered, Up
  <2> QED
    BY <2>1, <2>2
<1>StepExit. ASSUME NEW p \in Steps, StepExit(p) PROVE Covered'
  <2>1. /\ lock' = [l \in Locks |-> IF lock[l] = p THEN None ELSE lock[l]]
        /\ \E new \in {[step[p] EXCEPT !.state = "gone"], Unused} :
             step' = [step EXCEPT ![p] = new]
        /\ UNCHANGED <<kept, live, fresh>>
    BY <1>StepExit DEF StepExit
  <2>2. step'[p].state \in {"gone", "unused"} /\ \A q \in Steps \ {p} : step'[q] = step[q]
    BY <1>type, <2>1 DEF Processes, Unused
  <2>3. \A q \in Steps : Tracked(q)' /\ Up(q)' => Tracked(q) /\ q # p
    BY <2>1, <2>2 DEF Tracked, Up
  <2>4. \A q \in Steps \ {p}, l \in Locks : lock[l] \in {Driver, q} => lock'[l] = lock[l]
    BY <2>1
  <2> QED
    BY <1>type, <2>1, <2>2, <2>3, <2>4, CoverSame
<1>GraceOver. ASSUME NEW p \in Steps, GraceOver(p) PROVE Covered'
  <2>1. step' = [step EXCEPT ![p] = [step[p] EXCEPT !.sig = "late"]]
        /\ UNCHANGED <<kept, lock, live, fresh>>
    BY <1>GraceOver DEF GraceOver
  <2> DEFINE late == [step[p] EXCEPT !.sig = "late"]
  <2>2. late.item = step[p].item /\ late.state = step[p].state /\ late.marks = step[p].marks
    BY <1>type DEF Processes
  <2> HIDE DEF late
  <2>3. step' = [step EXCEPT ![p] = late]
    BY <2>1 DEF late
  <2> QED
    BY <1>type, <1>signal, <2>1, <2>2, <2>3
<1>CommandStarts. ASSUME NEW c \in Commands, CommandStarts(c) PROVE Covered'
  <2>1. \A p \in Steps, l \in Locks : lock[l] \in {Driver, p} => lock'[l] = lock[l]
    BY <1>CommandStarts DEF CommandStarts
  <2> QED
    BY <1>CommandStarts, <1>locks, <2>1 DEF CommandStarts
<1>CommandEnds. ASSUME NEW c \in Commands, CommandEnds(c) PROVE Covered'
  <2>1. \A p \in Steps, l \in Locks : lock[l] \in {Driver, p} => lock'[l] = lock[l]
    BY <1>CommandEnds DEF CommandEnds
  <2> QED
    BY <1>CommandEnds, <1>locks, <2>1 DEF CommandEnds
<1>stutter. CASE UNCHANGED vars
  BY <1>stutter, <1>same
<1> QED
  BY <1>Submit, <1>Drain, <1>Open, <1>HoldItems, <1>Finish, <1>Crash, <1>Interrupt,
     <1>SaveInterrupted, <1>Unwind, <1>Drained, <1>KillTerminalLive, <1>ReleaseFinished,
     <1>KillLive, <1>Reap, <1>Reaped, <1>ReleaseStacked, <1>PassOver, <1>AskPeople,
     <1>StackedWait, <1>AssignTree, <1>Close, <1>Spawn, <1>Record, <1>Admitted, <1>Commit,
     <1>Settle, <1>StepLocks, <1>StepExit, <1>GraceOver, <1>CommandStarts, <1>CommandEnds,
     <1>stutter
     DEF Next, DriverStep, Tick, Admission

(* A step of an item the driver took the target of works under both of the *)
(* item's locks for as long as it lives, released or not: the driver's if  *)
(* it was given a marker, and its own if not.                              *)
THEOREM StepsAreCoveredHolds == Spec => []StepsAreCovered
<1>1. Covered => StepsAreCovered
  BY DEF Covered, StepsAreCovered, Up
<1>2. Spec => [](TypeInv /\ RecordInv /\ Covered)
  BY TypeInit, TypeStep, RecordInit, RecordStep, CoverInit, CoverStep, PTL DEF Spec
<1> QED
  BY <1>1, <1>2, PTL

=============================================================================
