------------------------- MODULE BatchSessionProofs -------------------------
(***************************************************************************)
(* The safety of BatchSession, for any number of processes, requests and   *)
(* faults.  The invariant is built in layers, each proved on top of the    *)
(* ones before it:                                                         *)
(*                                                                         *)
(*   TypeInv    types, and what a process in the middle of a drain holds   *)
(*   PlaceInv   the run's lock, its inode and the directory's name         *)
(*   RecordInv  the holder record                                          *)
(*   GoneInv    what a removal has seen and done so far                    *)
(*   RunInv     a session's copy of the run against state.json             *)
(*   InboxInv   what a session has to drain against the inbox              *)
(*   OnceInv    how often each request's command ran, and why              *)
(*   ReportInv  what submitters were told against the run and its holder   *)
(*   SentInv    where a request is, and who is still owed an answer        *)
(*                                                                         *)
(* On top of them each step is shown to be one of BatchInbox, or none.     *)
(*                                                                         *)
(* All but TypeInv rest on LockKept: a removal of the directory that stops *)
(* part way leaves run.lock behind.  The README says what happens where it *)
(* does not.                                                               *)
(***************************************************************************)
EXTENDS BatchInboxImpl, BatchRunProofs

(* Whatever a failed removal leaves, run.lock is part of it.               *)
LockKept == \A kept \in Survivors : "lock" \in kept

(* Where a process has a copy of the run in memory.                        *)
Loaded == Draining \cup {"body", "loop", "work", "blocked"}

-----------------------------------------------------------------------------
(* Types.                                                                  *)

(* A process between applying a request and dropping it has one in hand,   *)
(* and every copy of the run is sound; a driver's is running while it      *)
(* ticks.                                                                  *)
InHand ==
  /\ \A p \in Proc :
       /\ pc[p] \in {"commit", "retire", "unlink"} \/ okay[p] => current[p] \in Requests
       /\ pc[p] \in Loaded => mem[p] \in Runs /\ Sound(mem[p])
       /\ Ticking(p) => mem[p].status = "running"
  /\ disk # NoRun => Sound(disk)

TypeInv == TypeOK /\ InHand

(* Raising one flag of a family.                                           *)
LEMMA SetFlag ==
  ASSUME NEW S, NEW f \in [S -> BOOLEAN], NEW x
  PROVE  [f EXCEPT ![x] = TRUE] \in [S -> BOOLEAN]
<1>1. [f EXCEPT ![x] = TRUE] = [y \in S |-> IF y = x THEN TRUE ELSE f[y]]
  BY Zenon
<1>2. \A y \in S : (IF y = x THEN TRUE ELSE f[y]) \in BOOLEAN
  BY Zenon
<1> QED
  BY <1>1, <1>2, Zenon

(* A record of the holder, and what a submitter may be told, as TypeOK has *)
(* them.                                                                   *)
HolderRecords ==
  [pid : Proc \cup {Nobody}, role : {"none", "driver", "applier", "gc"},
   released : BOOLEAN]
Outcomes == {"none", "notfound", "queued", "here", "missing", "unreachable"}

(* What drawing the next request changes.                                  *)
LEMMA ApplyNextChoice ==
  ASSUME NEW p \in Proc, ApplyNext(p)
  PROVE  \E r \in peeked[p] : \E o \in ApplyOne(mem[p], r) :
           /\ mem' = [mem EXCEPT ![p] = o.run]
           /\ current' = [current EXCEPT ![p] = r]
           /\ okay' = [okay EXCEPT ![p] = o.ok]
           /\ ran' = IF o.ran THEN [ran EXCEPT ![r] = @ + 1] ELSE ran
           /\ peeked' = [peeked EXCEPT ![p] = @ \ {r}]
<1>1. DrainFirst(peeked[p]) \subseteq peeked[p]
  BY DEF DrainFirst, Cancels
<1>2. \E r \in DrainFirst(peeked[p]) : \E o \in ApplyOne(mem[p], r) :
        /\ mem' = [mem EXCEPT ![p] = o.run]
        /\ current' = [current EXCEPT ![p] = r]
        /\ okay' = [okay EXCEPT ![p] = o.ok]
        /\ ran' = IF o.ran THEN [ran EXCEPT ![r] = @ + 1] ELSE ran
        /\ peeked' = [peeked EXCEPT ![p] = @ \ {r}]
  BY DEF ApplyNext
<1> QED
  BY <1>1, <1>2

(* Being refused moves a process to one of three places.                   *)
LEMMA RefusedType ==
  ASSUME TypeInv, NEW p \in Proc, NEW why, Refused(p, why)
  PROVE  /\ \E label \in {"open", "handoff", "end"} : pc' = [pc EXCEPT ![p] = label]
         /\ waits' \in [Proc -> Nat]
         /\ outcome' \in [Submitters -> Outcomes]
         /\ lapsed' \subseteq Requests
BY BoundAssumption
   DEF TypeInv, TypeOK, Refused, HandingOff, Delivering, Pause, Told, Goto, Outcomes

(* The initial states are typed.                                           *)
LEMMA InitType == Init => TypeInv
BY RunAssumption, ProcAssumption
   DEF Init, TypeInv, TypeOK, InHand, NoRecord, PCs, Asking, Loaded, Ticking, Draining, Proc

(* Types are inductive on their own, whatever a removal leaves behind.     *)
THEOREM TypeStep == TypeInv /\ [Next]_vars => TypeInv'
<1> SUFFICES ASSUME TypeInv, [Next]_vars PROVE TypeInv'
  OBVIOUS
<1> USE ProcAssumption, RunAssumption
    DEF TypeInv, TypeOK, InHand, HolderRecords, Outcomes, Loaded, Ticking, PCs, Asking, Holding,
        InSession, Draining, Reaping, Proc, place, content, session, retry, faults, history, Goto
<1>WriteRequest. ASSUME NEW p \in Submitters, WriteRequest(p) PROVE TypeInv'
  BY <1>WriteRequest DEF WriteRequest
<1>Open. ASSUME NEW p \in Proc, Open(p) PROVE TypeInv'
  <2>1. /\ lockfile' \in Nat /\ inodes' \in Nat
        /\ handle' \in [Proc -> Nat] /\ tries' \in [Proc -> Nat]
    BY <1>Open DEF Open
  <2>2. record' \in HolderRecords
    <3>1. record' \in {NoRecord, record}
      BY <1>Open DEF Open
    <3>2. NoRecord \in HolderRecords
      BY DEF NoRecord
    <3> QED
      BY <3>1, <3>2
  <2>3. CASE pc' = [pc EXCEPT ![p] = "flock"] /\ UNCHANGED <<waits, outcome, lapsed>>
    BY <1>Open, <2>1, <2>2, <2>3 DEF Open
  <2>4. CASE Refused(p, "missing")
    <3>1. PICK label \in {"open", "handoff", "end"} : pc' = [pc EXCEPT ![p] = label]
      BY <2>4, RefusedType
    <3>2. TypeOK'
      BY <1>Open, <2>1, <2>2, <2>4, <3>1, RefusedType DEF Open
    <3>3. InHand'
      BY <1>Open, <3>1 DEF Open
    <3> QED
      BY <3>2, <3>3
  <2> QED
    BY <1>Open, <2>3, <2>4 DEF Open
<1>Flock. ASSUME NEW p \in Proc, Flock(p) PROVE TypeInv'
  BY <1>Flock DEF Flock
<1>Contend. ASSUME NEW p \in Proc, Contend(p) PROVE TypeInv'
  <2>1. handle' \in [Proc -> Nat] /\ tries' \in [Proc -> Nat]
    BY <1>Contend DEF Contend
  <2>2. CASE pc' = [pc EXCEPT ![p] = "flock"] /\ UNCHANGED <<waits, outcome, lapsed>>
    BY <1>Contend, <2>1, <2>2 DEF Contend
  <2>3. ASSUME NEW why, Refused(p, why) PROVE TypeInv'
    <3>1. PICK label \in {"open", "handoff", "end"} : pc' = [pc EXCEPT ![p] = label]
      BY <2>3, RefusedType
    <3>2. /\ waits' \in [Proc -> Nat] /\ lapsed' \subseteq Requests
          /\ outcome' \in [Submitters -> Outcomes]
      BY <2>3, RefusedType
    <3>4. TypeOK'
      BY <1>Contend, <2>1, <3>1, <3>2 DEF Contend
    <3>3. InHand'
      BY <1>Contend, <3>1 DEF Contend
    <3> QED
      BY <3>3, <3>4
  <2> QED
    BY <1>Contend, <2>2, <2>3 DEF Contend
<1>WriteRecord. ASSUME NEW p \in Proc, WriteRecord(p) PROVE TypeInv'
  BY <1>WriteRecord DEF WriteRecord, Role
<1>Load. ASSUME NEW p \in Proc, Load(p) PROVE TypeInv'
  <2>0. /\ mem' \in [Proc -> Runs \cup {NoRun}] /\ peeked' \in [Proc -> SUBSET Requests]
        /\ stage' \in [Proc -> {"entry", "tick", "finish"}]
        /\ leaving' \in [Proc -> {"normal", "raised", "missing"}]
        /\ \E label \in {"drain", "stamp"} : pc' = [pc EXCEPT ![p] = label]
    <3>1. CASE HasState
      <4>1. /\ mem' = [mem EXCEPT ![p] = disk] /\ peeked' = [peeked EXCEPT ![p] = Pending]
            /\ stage' = [stage EXCEPT ![p] = "entry"] /\ pc' = [pc EXCEPT ![p] = "drain"]
            /\ leaving' = leaving
        BY <1>Load, <3>1 DEF Load, StartDrain
      <4>2. Pending \subseteq Requests
        BY DEF Pending
      <4> QED
        BY <4>1, <4>2
    <3>2. CASE ~HasState
      BY <1>Load, <3>2 DEF Load
    <3> QED
      BY <3>1, <3>2
  <2>1. TypeOK'
    BY <1>Load, <2>0 DEF Load
  <2>2. InHand'
    BY <1>Load DEF Load, HasState, StartDrain
  <2> QED
    BY <2>1, <2>2
<1>ApplyNext. ASSUME NEW p \in Proc, ApplyNext(p) PROVE TypeInv'
  <2>1. PICK r \in peeked[p] : \E o \in ApplyOne(mem[p], r) :
          /\ mem' = [mem EXCEPT ![p] = o.run] /\ current' = [current EXCEPT ![p] = r]
          /\ okay' = [okay EXCEPT ![p] = o.ok]
          /\ ran' = IF o.ran THEN [ran EXCEPT ![r] = @ + 1] ELSE ran
          /\ peeked' = [peeked EXCEPT ![p] = @ \ {r}]
    BY <1>ApplyNext, ApplyNextChoice
  <2>2. PICK o \in ApplyOne(mem[p], r) :
          /\ mem' = [mem EXCEPT ![p] = o.run] /\ current' = [current EXCEPT ![p] = r]
          /\ okay' = [okay EXCEPT ![p] = o.ok]
          /\ ran' = IF o.ran THEN [ran EXCEPT ![r] = @ + 1] ELSE ran
          /\ peeked' = [peeked EXCEPT ![p] = @ \ {r}]
    BY <2>1
  <2>3. r \in Requests /\ mem[p] \in Runs /\ Sound(mem[p])
    BY <1>ApplyNext DEF ApplyNext
  <2>4. /\ o.run \in Runs /\ Sound(o.run) /\ o.run.status = mem[p].status
        /\ o.ok \in BOOLEAN
    BY <2>3, ApplyOneFaithful DEF Faithful, Keeps
  <2>5. TypeOK'
    BY <1>ApplyNext, <2>2, <2>3, <2>4 DEF ApplyNext
  <2>6. InHand'
    BY <1>ApplyNext, <2>2, <2>3, <2>4 DEF ApplyNext
  <2> QED
    BY <2>5, <2>6
<1>Commit. ASSUME NEW p \in Proc, Commit(p) PROVE TypeInv'
  <2>1. disk' \in Runs /\ Sound(disk') /\ refs' \in BOOLEAN
    BY <1>Commit DEF Commit, Save
  <2>2. TypeOK'
    BY <1>Commit, <2>1 DEF Commit
  <2>3. InHand'
    BY <1>Commit, <2>1 DEF Commit
  <2> QED
    BY <2>2, <2>3
<1>Retire. ASSUME NEW p \in Proc, Retire(p) PROVE TypeInv'
  BY <1>Retire DEF Retire
<1>Unlink. ASSUME NEW p \in Proc, Unlink(p) PROVE TypeInv'
  BY <1>Unlink DEF Unlink
<1>Drained. ASSUME NEW p \in Proc, Drained(p) PROVE TypeInv'
  BY <1>Drained DEF Drained
<1>Settle. ASSUME NEW p \in Proc, Settle(p) PROVE TypeInv'
  <2>1. SettleIdle(mem[p]) \in Runs /\ Sound(SettleIdle(mem[p]))
    BY <1>Settle, SettleIdleKeeps DEF Settle, Keeps
  <2>2. /\ disk' \in Runs \cup {NoRun} /\ refs' \in BOOLEAN
        /\ disk' # NoRun => Sound(disk')
    <3>1. CASE Save(SettleIdle(mem[p]))
      BY <2>1, <3>1 DEF Save
    <3>2. CASE UNCHANGED <<disk, refs>>
      BY <3>2
    <3> QED
      BY <1>Settle, <3>1, <3>2 DEF Settle
  <2>3. mem' = [mem EXCEPT ![p] = SettleIdle(mem[p])]
    BY <1>Settle DEF Settle
  <2>4. \E label \in {"stamp", "body"} : pc' = [pc EXCEPT ![p] = label]
    BY <1>Settle DEF Settle
  <2>5. TypeOK'
    BY <1>Settle, <2>1, <2>2, <2>3, <2>4 DEF Settle
  <2>6. InHand'
    BY <1>Settle, <2>1, <2>2, <2>3, <2>4 DEF Settle
  <2> QED
    BY <2>5, <2>6
<1>Finish. ASSUME NEW p \in Proc, Finish(p) PROVE TypeInv'
  BY <1>Finish DEF Finish, StartDrain, Pending
<1>Resume. ASSUME NEW p \in Proc, Resume(p) PROVE TypeInv'
  <2> DEFINE marked == MarkInterrupted(mem[p])
             run == [marked EXCEPT !.status = "running"]
  <2>1. mem[p] \in Runs /\ Sound(mem[p]) /\ mem[p].status \notin Finished
    BY <1>Resume DEF Resume
  <2>2. marked \in Runs /\ Sound(marked) /\ marked.status \notin Finished
    BY <2>1, MarkInterruptedKeeps DEF Keeps
  <2> HIDE DEF marked
  <2>3. run \in Runs /\ Sound(run) /\ run.status = "running"
    BY <2>2, MovedKeeps DEF Keeps
  <2>4. mem' = [mem EXCEPT ![p] = run]
    BY <1>Resume DEF Resume, marked
  <2> HIDE DEF run
  <2>5. TypeOK'
    BY <1>Resume, <2>3, <2>4 DEF Resume
  <2>6. InHand'
    BY <1>Resume, <2>3, <2>4 DEF Resume
  <2> QED
    BY <2>5, <2>6
<1>TickDrain. ASSUME NEW p \in Proc, TickDrain(p) PROVE TypeInv'
  BY <1>TickDrain DEF TickDrain, StartDrain, Pending
<1>Work. ASSUME NEW p \in Proc, Work(p) PROVE TypeInv'
  <2>1. PICK run \in Ticked(mem[p]) : mem' = [mem EXCEPT ![p] = run] /\ Save(run)
    BY <1>Work DEF Work
  <2>2. run \in Runs /\ Sound(run) /\ run.status = "running"
    BY <1>Work, TickedKeeps DEF Work, Keeps
  <2>3. disk' = run /\ refs' \in BOOLEAN
    BY <2>1 DEF Save
  <2>4. TypeOK'
    BY <1>Work, <2>1, <2>2, <2>3 DEF Work
  <2>5. InHand'
    BY <1>Work, <2>1, <2>2, <2>3 DEF Work
  <2> QED
    BY <2>4, <2>5
<1>Blocked. ASSUME NEW p \in Proc, Blocked(p) PROVE TypeInv'
  <2> DEFINE run == [mem[p] EXCEPT !.status = BlockedStatus(mem[p], Pending)]
  <2>1. run \in Runs /\ Sound(run)
    BY <1>Blocked, BlockedKeeps DEF Blocked, Finished, Keeps
  <2>2. CASE run.status = "running"
    BY <1>Blocked, <2>2 DEF Blocked
  <2>3. CASE run.status # "running"
    <3>1. /\ mem' = [mem EXCEPT ![p] = run] /\ disk' = run /\ refs' \in BOOLEAN
          /\ pc' = [pc EXCEPT ![p] = "drain"] /\ stage' = [stage EXCEPT ![p] = "finish"]
          /\ peeked' = [peeked EXCEPT ![p] = Pending]
      BY <1>Blocked, <2>3 DEF Blocked, Save, StartDrain
    <3>2. Pending \subseteq Requests
      BY DEF Pending
    <3> HIDE DEF run
    <3>3. TypeOK'
      BY <1>Blocked, <2>1, <3>1, <3>2 DEF Blocked
    <3>4. InHand'
      BY <1>Blocked, <2>1, <3>1 DEF Blocked
    <3> QED
      BY <3>3, <3>4
  <2> QED
    BY <2>2, <2>3
<1>NoteRelease. ASSUME NEW p \in Proc, NoteRelease(p) PROVE TypeInv'
  BY <1>NoteRelease DEF NoteRelease
<1>Unlock. ASSUME NEW p \in Proc, Unlock(p) PROVE TypeInv'
  <2>1. /\ handle' \in [Proc -> Nat] /\ mem' = [mem EXCEPT ![p] = NoRun]
        /\ peeked' \in [Proc -> SUBSET Requests]
        /\ current' = [current EXCEPT ![p] = Nobody] /\ okay' = [okay EXCEPT ![p] = FALSE]
        /\ stage' \in [Proc -> {"entry", "tick", "finish"}]
        /\ leaving' \in [Proc -> {"normal", "raised", "missing"}]
    BY <1>Unlock DEF Unlock, CloseSession
  <2>2. /\ \E label \in {"open", "handoff", "end"} : pc' = [pc EXCEPT ![p] = label]
        /\ waits' \in [Proc -> Nat]
        /\ outcome' \in [Submitters -> Outcomes]
        /\ lapsed' \subseteq Requests
    <3>1. CASE leaving[p] = "missing"
      BY <1>Unlock, <3>1, RefusedType DEF Unlock
    <3>2. CASE leaving[p] # "missing"
      BY <1>Unlock, <3>2 DEF Unlock
    <3> QED
      BY <3>1, <3>2
  <2>3. TypeOK'
    BY <1>Unlock, <2>1, <2>2 DEF Unlock
  <2>4. InHand'
    BY <1>Unlock, <2>1, <2>2 DEF Unlock, CloseSession
  <2> QED
    BY <2>3, <2>4
<1>HandOff. ASSUME NEW p \in Proc, HandOff(p) PROVE TypeInv'
  <2>0. passing' \in [Proc -> BOOLEAN]
    <3>1. passing' = passing \/ passing' = [passing EXCEPT ![p] = TRUE]
      BY <1>HandOff DEF HandOff
    <3> HIDE DEF Proc
    <3>2. passing \in [Proc -> BOOLEAN]
      OBVIOUS
    <3>3. [passing EXCEPT ![p] = TRUE] \in [Proc -> BOOLEAN]
      BY <3>2, SetFlag
    <3> QED
      BY <3>1, <3>2, <3>3, Zenon
  <2>1. /\ \E label \in {"end", "open"} : pc' = [pc EXCEPT ![p] = label]
        /\ UNCHANGED <<place, record, content, handle, stage, leaving, retry, session,
                       outcome, faults, history>>
    BY <1>HandOff DEF HandOff
  <2>2. TypeOK'
    BY <2>0, <2>1
  <2>3. InHand'
    BY <2>1
  <2> QED
    BY <2>2, <2>3
<1>GcLoad. ASSUME NEW p \in Proc, GcLoad(p) PROVE TypeInv'
  BY <1>GcLoad DEF GcLoad
<1>GcRename. ASSUME NEW p \in Proc, GcRename(p) PROVE TypeInv'
  BY <1>GcRename DEF GcRename
<1>GcScan. ASSUME NEW p \in Proc, GcScan(p) PROVE TypeInv'
  BY <1>GcScan DEF GcScan
<1>GcDropRefs. ASSUME NEW p \in Proc, GcDropRefs(p) PROVE TypeInv'
  <2>0. refs' \in BOOLEAN /\ dir' \in {"live", "tomb", "gone"}
        /\ \E label \in {"gc_rmtree", "stamp"} : pc' = [pc EXCEPT ![p] = label]
    BY <1>GcDropRefs DEF GcDropRefs
  <2>1. TypeOK'
    BY <1>GcDropRefs, <2>0 DEF GcDropRefs
  <2>2. InHand'
    BY <1>GcDropRefs DEF GcDropRefs
  <2> QED
    BY <2>1, <2>2
<1>GcRemove. ASSUME NEW p \in Proc, GcRemove(p) PROVE TypeInv'
  BY <1>GcRemove DEF GcRemove
<1>GcRemoveFails. ASSUME NEW p \in Proc, GcRemoveFails(p) PROVE TypeInv'
  BY <1>GcRemoveFails DEF GcRemoveFails
<1>Crash. ASSUME NEW p \in Proc, Crash(p) PROVE TypeInv'
  BY <1>Crash DEF Crash, CloseSession, InVain
<1>Interrupt. ASSUME NEW p \in Proc, Interrupt(p) PROVE TypeInv'
  <2> DEFINE marked == MarkInterrupted(mem[p])
             status == IF mem[p].cancel # "none" THEN "cancelled" ELSE "interrupted"
             run == [marked EXCEPT !.status = status]
  <2>1. mem[p] \in Runs /\ Sound(mem[p]) /\ mem[p].status = "running"
    BY <1>Interrupt DEF Interrupt
  <2>2. marked \in Runs /\ Sound(marked) /\ marked.status \notin Finished
    BY <2>1, MarkInterruptedKeeps DEF Keeps, Finished
  <2> HIDE DEF marked
  <2>3. run \in Runs /\ Sound(run)
    BY <2>2, MovedKeeps DEF Keeps
  <2>4. mem' = [mem EXCEPT ![p] = run] /\ Save(run)
    BY <1>Interrupt DEF Interrupt, marked
  <2>5. disk' = run /\ refs' \in BOOLEAN
    BY <2>4 DEF Save
  <2>6. redone' \in [Requests -> Nat]
    BY <1>Interrupt DEF Interrupt, InVain
  <2> HIDE DEF run
  <2>9. errors' \in Nat /\ leaving' \in [Proc -> {"normal", "raised", "missing"}]
        /\ pc' = [pc EXCEPT ![p] = "stamp"]
        /\ UNCHANGED <<place, record, inbox, rejected, handle, passing, stage, retry, peeked,
                 current, okay, outcome, crashes, granted, lapsed, ran>>
    BY <1>Interrupt DEF Interrupt
  <2>7. TypeOK'
    BY <2>3, <2>4, <2>5, <2>6, <2>9
  <2>8. InHand'
    BY <1>Interrupt, <2>3, <2>4, <2>5, <2>6 DEF Interrupt
  <2> QED
    BY <2>7, <2>8
<1>Raise. ASSUME NEW p \in Proc, Raise(p) PROVE TypeInv'
  BY <1>Raise DEF Raise, InVain
<1>AllOver. ASSUME UNCHANGED vars PROVE TypeInv'
  BY <1>AllOver DEF vars, retry
<1> QED
  BY <1>AllOver, <1>WriteRequest, <1>Open, <1>Flock, <1>Contend, <1>WriteRecord, <1>Load,
     <1>ApplyNext, <1>Commit, <1>Retire, <1>Unlink, <1>Drained, <1>Settle, <1>Finish,
     <1>Resume, <1>TickDrain, <1>Work, <1>Blocked, <1>NoteRelease, <1>Unlock, <1>HandOff,
     <1>GcLoad, <1>GcRename, <1>GcScan, <1>GcDropRefs, <1>GcRemove, <1>GcRemoveFails,
     <1>Crash, <1>Interrupt, <1>Raise
  DEF Next, Step, Fault, Locking, InRun, Leaving, Collecting, AllOver

-----------------------------------------------------------------------------
(* The lock and the directory.                                             *)

(* There is one inode ever: whoever waits on a flock waits on that of the  *)
(* one file run.lock names, so one process holds it; and a directory being *)
(* removed is out of everybody's reach until its collector is done.        *)
PlaceInv ==
  /\ lockfile = IF dir = "gone" THEN 0 ELSE 1
  /\ \A p \in Proc : pc[p] \in {"flock", "contend"} \cup Holding => handle[p] = 1
  /\ \A p, q \in Proc : pc[p] \in Holding /\ pc[q] \in Holding => p = q
  /\ \A p \in Proc : pc[p] \in {"gc_scan", "gc_refs", "gc_rmtree"} => dir = "tomb"

(* With LockKept, no step makes a second inode or a second holder.         *)
THEOREM PlaceStep == LockKept /\ TypeInv /\ PlaceInv /\ [Next]_vars => PlaceInv'
<1> SUFFICES ASSUME LockKept, TypeInv, PlaceInv, [Next]_vars PROVE PlaceInv'
  OBVIOUS
<1> pc \in [Proc -> PCs] /\ handle \in [Proc -> Nat] /\ dir \in {"live", "tomb", "gone"}
  BY DEF TypeInv, TypeOK
<1> USE DEF PlaceInv, PCs, Asking, Holding, InSession, Draining, Reaping, place, Goto
<1>WriteRequest. ASSUME NEW p \in Submitters, WriteRequest(p) PROVE PlaceInv'
  BY <1>WriteRequest, ProcAssumption DEF WriteRequest, Proc
<1>Open. ASSUME NEW p \in Proc, Open(p) PROVE PlaceInv'
  BY <1>Open DEF Open, Refused, HandingOff, Delivering, Pause
<1>Flock. ASSUME NEW p \in Proc, Flock(p) PROVE PlaceInv'
  BY <1>Flock DEF Flock, Locked
<1>Contend. ASSUME NEW p \in Proc, Contend(p) PROVE PlaceInv'
  BY <1>Contend DEF Contend, Refused, HandingOff, Delivering, Pause
<1>WriteRecord. ASSUME NEW p \in Proc, WriteRecord(p) PROVE PlaceInv'
  BY <1>WriteRecord DEF WriteRecord
<1>Load. ASSUME NEW p \in Proc, Load(p) PROVE PlaceInv'
  BY <1>Load DEF Load, StartDrain
<1>ApplyNext. ASSUME NEW p \in Proc, ApplyNext(p) PROVE PlaceInv'
  BY <1>ApplyNext DEF ApplyNext
<1>Commit. ASSUME NEW p \in Proc, Commit(p) PROVE PlaceInv'
  BY <1>Commit DEF Commit
<1>Retire. ASSUME NEW p \in Proc, Retire(p) PROVE PlaceInv'
  BY <1>Retire DEF Retire
<1>Unlink. ASSUME NEW p \in Proc, Unlink(p) PROVE PlaceInv'
  BY <1>Unlink DEF Unlink
<1>Drained. ASSUME NEW p \in Proc, Drained(p) PROVE PlaceInv'
  BY <1>Drained DEF Drained
<1>Settle. ASSUME NEW p \in Proc, Settle(p) PROVE PlaceInv'
  BY <1>Settle DEF Settle
<1>Finish. ASSUME NEW p \in Proc, Finish(p) PROVE PlaceInv'
  BY <1>Finish DEF Finish, StartDrain
<1>Resume. ASSUME NEW p \in Proc, Resume(p) PROVE PlaceInv'
  BY <1>Resume DEF Resume
<1>TickDrain. ASSUME NEW p \in Proc, TickDrain(p) PROVE PlaceInv'
  BY <1>TickDrain DEF TickDrain, StartDrain
<1>Work. ASSUME NEW p \in Proc, Work(p) PROVE PlaceInv'
  BY <1>Work DEF Work
<1>Blocked. ASSUME NEW p \in Proc, Blocked(p) PROVE PlaceInv'
  BY <1>Blocked DEF Blocked, StartDrain
<1>NoteRelease. ASSUME NEW p \in Proc, NoteRelease(p) PROVE PlaceInv'
  BY <1>NoteRelease DEF NoteRelease
<1>Unlock. ASSUME NEW p \in Proc, Unlock(p) PROVE PlaceInv'
  BY <1>Unlock DEF Unlock, CloseSession, Refused, HandingOff, Delivering, Pause
<1>HandOff. ASSUME NEW p \in Proc, HandOff(p) PROVE PlaceInv'
  BY <1>HandOff DEF HandOff
<1>GcLoad. ASSUME NEW p \in Proc, GcLoad(p) PROVE PlaceInv'
  BY <1>GcLoad DEF GcLoad
<1>GcRename. ASSUME NEW p \in Proc, GcRename(p) PROVE PlaceInv'
  BY <1>GcRename DEF GcRename
<1>GcScan. ASSUME NEW p \in Proc, GcScan(p) PROVE PlaceInv'
  BY <1>GcScan DEF GcScan
<1>GcDropRefs. ASSUME NEW p \in Proc, GcDropRefs(p) PROVE PlaceInv'
  BY <1>GcDropRefs DEF GcDropRefs
<1>GcRemove. ASSUME NEW p \in Proc, GcRemove(p) PROVE PlaceInv'
  BY <1>GcRemove DEF GcRemove
<1>GcRemoveFails. ASSUME NEW p \in Proc, GcRemoveFails(p) PROVE PlaceInv'
  BY <1>GcRemoveFails DEF GcRemoveFails, LockKept
<1>Crash. ASSUME NEW p \in Proc, Crash(p) PROVE PlaceInv'
  BY <1>Crash DEF Crash, CloseSession
<1>Interrupt. ASSUME NEW p \in Proc, Interrupt(p) PROVE PlaceInv'
  BY <1>Interrupt DEF Interrupt, Ticking
<1>Raise. ASSUME NEW p \in Proc, Raise(p) PROVE PlaceInv'
  BY <1>Raise DEF Raise, Ticking
<1>AllOver. ASSUME UNCHANGED vars PROVE PlaceInv'
  BY <1>AllOver DEF vars
<1> QED
  BY <1>WriteRequest, <1>Open, <1>Flock, <1>Contend, <1>WriteRecord, <1>Load,
     <1>ApplyNext, <1>Commit, <1>Retire, <1>Unlink, <1>Drained, <1>Settle, <1>Finish,
     <1>Resume, <1>TickDrain, <1>Work, <1>Blocked, <1>NoteRelease, <1>Unlock, <1>HandOff,
     <1>GcLoad, <1>GcRename, <1>GcScan, <1>GcDropRefs, <1>GcRemove, <1>GcRemoveFails,
     <1>Crash, <1>Interrupt, <1>Raise, <1>AllOver
  DEF Next, Step, Fault, Locking, InRun, Leaving, Collecting, AllOver


-----------------------------------------------------------------------------
(* The holder record.                                                      *)

(* From the write of its record to the stamp the holder's record is its    *)
(* own; and a record that reads as live is that of such a holder.          *)
RecordInv ==
  /\ \A p \in Proc : pc[p] \in (InSession \ {"record"}) \cup {"stamp"} /\ dir # "gone" =>
       record.pid = p /\ ~record.released
  /\ dir = "live" /\ IsLive(record, Nobody) => pc[record.pid] \in InSession \cup {"stamp"}

(* No step leaves a live record behind a process that let go.              *)
THEOREM RecordStep ==
  TypeInv /\ PlaceInv /\ PlaceInv' /\ RecordInv /\ [Next]_vars => RecordInv'
<1> SUFFICES ASSUME TypeInv, PlaceInv, PlaceInv', RecordInv, [Next]_vars PROVE RecordInv'
  OBVIOUS
<1> /\ pc \in [Proc -> PCs] /\ handle \in [Proc -> Nat] /\ dir \in {"live", "tomb", "gone"}
    /\ record \in [pid : Proc \cup {Nobody}, role : {"none", "driver", "applier", "gc"},
                   released : BOOLEAN]
  BY DEF TypeInv, TypeOK
<1> USE ProcAssumption
    DEF PlaceInv, RecordInv, IsLive, Dead, PCs, Asking, Holding, InSession, Draining,
        Reaping, place, Goto
<1>WriteRequest. ASSUME NEW p \in Submitters, WriteRequest(p) PROVE RecordInv'
  BY <1>WriteRequest DEF WriteRequest, Proc
<1>Open. ASSUME NEW p \in Proc, Open(p) PROVE RecordInv'
  BY <1>Open DEF Open, Refused, HandingOff, Delivering, Pause
<1>Flock. ASSUME NEW p \in Proc, Flock(p) PROVE RecordInv'
  BY <1>Flock DEF Flock, Locked
<1>Contend. ASSUME NEW p \in Proc, Contend(p) PROVE RecordInv'
  BY <1>Contend DEF Contend, Refused, HandingOff, Delivering, Pause
<1>WriteRecord. ASSUME NEW p \in Proc, WriteRecord(p) PROVE RecordInv'
  BY <1>WriteRecord DEF WriteRecord
<1>Load. ASSUME NEW p \in Proc, Load(p) PROVE RecordInv'
  BY <1>Load DEF Load, StartDrain
<1>ApplyNext. ASSUME NEW p \in Proc, ApplyNext(p) PROVE RecordInv'
  BY <1>ApplyNext DEF ApplyNext
<1>Commit. ASSUME NEW p \in Proc, Commit(p) PROVE RecordInv'
  BY <1>Commit DEF Commit
<1>Retire. ASSUME NEW p \in Proc, Retire(p) PROVE RecordInv'
  BY <1>Retire DEF Retire
<1>Unlink. ASSUME NEW p \in Proc, Unlink(p) PROVE RecordInv'
  BY <1>Unlink DEF Unlink
<1>Drained. ASSUME NEW p \in Proc, Drained(p) PROVE RecordInv'
  BY <1>Drained DEF Drained
<1>Settle. ASSUME NEW p \in Proc, Settle(p) PROVE RecordInv'
  BY <1>Settle DEF Settle
<1>Finish. ASSUME NEW p \in Proc, Finish(p) PROVE RecordInv'
  BY <1>Finish DEF Finish, StartDrain
<1>Resume. ASSUME NEW p \in Proc, Resume(p) PROVE RecordInv'
  BY <1>Resume DEF Resume
<1>TickDrain. ASSUME NEW p \in Proc, TickDrain(p) PROVE RecordInv'
  BY <1>TickDrain DEF TickDrain, StartDrain
<1>Work. ASSUME NEW p \in Proc, Work(p) PROVE RecordInv'
  BY <1>Work DEF Work
<1>Blocked. ASSUME NEW p \in Proc, Blocked(p) PROVE RecordInv'
  BY <1>Blocked DEF Blocked, StartDrain
<1>NoteRelease. ASSUME NEW p \in Proc, NoteRelease(p) PROVE RecordInv'
  BY <1>NoteRelease DEF NoteRelease
<1>Unlock. ASSUME NEW p \in Proc, Unlock(p) PROVE RecordInv'
  BY <1>Unlock DEF Unlock, CloseSession, Refused, HandingOff, Delivering, Pause
<1>HandOff. ASSUME NEW p \in Proc, HandOff(p) PROVE RecordInv'
  BY <1>HandOff DEF HandOff
<1>GcLoad. ASSUME NEW p \in Proc, GcLoad(p) PROVE RecordInv'
  BY <1>GcLoad DEF GcLoad
<1>GcRename. ASSUME NEW p \in Proc, GcRename(p) PROVE RecordInv'
  BY <1>GcRename DEF GcRename
<1>GcScan. ASSUME NEW p \in Proc, GcScan(p) PROVE RecordInv'
  BY <1>GcScan DEF GcScan
<1>GcDropRefs. ASSUME NEW p \in Proc, GcDropRefs(p) PROVE RecordInv'
  BY <1>GcDropRefs DEF GcDropRefs
<1>GcRemove. ASSUME NEW p \in Proc, GcRemove(p) PROVE RecordInv'
  BY <1>GcRemove DEF GcRemove
<1>GcRemoveFails. ASSUME NEW p \in Proc, GcRemoveFails(p) PROVE RecordInv'
  BY <1>GcRemoveFails DEF GcRemoveFails
<1>Crash. ASSUME NEW p \in Proc, Crash(p) PROVE RecordInv'
  BY <1>Crash DEF Crash, CloseSession
<1>Interrupt. ASSUME NEW p \in Proc, Interrupt(p) PROVE RecordInv'
  BY <1>Interrupt DEF Interrupt, Ticking
<1>Raise. ASSUME NEW p \in Proc, Raise(p) PROVE RecordInv'
  BY <1>Raise DEF Raise, Ticking
<1>AllOver. ASSUME UNCHANGED vars PROVE RecordInv'
  BY <1>AllOver DEF vars
<1> QED
  BY <1>WriteRequest, <1>Open, <1>Flock, <1>Contend, <1>WriteRecord, <1>Load,
     <1>ApplyNext, <1>Commit, <1>Retire, <1>Unlink, <1>Drained, <1>Settle, <1>Finish,
     <1>Resume, <1>TickDrain, <1>Work, <1>Blocked, <1>NoteRelease, <1>Unlock, <1>HandOff,
     <1>GcLoad, <1>GcRename, <1>GcScan, <1>GcDropRefs, <1>GcRemove, <1>GcRemoveFails,
     <1>Crash, <1>Interrupt, <1>Raise, <1>AllOver
  DEF Next, Step, Fault, Locking, InRun, Leaving, Collecting, AllOver

-----------------------------------------------------------------------------
(* Removal.                                                                *)

(* Once a collector has found the inbox empty it stays so; no directory is *)
(* removed whose refs are still there; and a request about to leave the    *)
(* inbox unapplied is in rejected/ already.                                *)
GoneInv ==
  /\ \A p \in Proc : pc[p] \in {"gc_refs", "gc_rmtree"} => inbox = {}
  /\ \A p \in Proc : pc[p] = "gc_rmtree" => ~refs
  /\ dir = "gone" => ~refs
  /\ \A p \in Proc : pc[p] = "unlink" => current[p] \in rejected

(* One step of LeavesSettled.                                              *)
InboxKept == \A r \in inbox \ inbox' : r \in granted' \cup rejected'

(* Nothing that races with a removal disturbs what it relies on.           *)
THEOREM GoneStep ==
  TypeInv /\ PlaceInv /\ GoneInv /\ [Next]_vars => GoneInv' /\ InboxKept
<1> SUFFICES ASSUME TypeInv, PlaceInv, GoneInv, [Next]_vars PROVE GoneInv' /\ InboxKept
  OBVIOUS
<1> /\ pc \in [Proc -> PCs] /\ refs \in BOOLEAN
    /\ current \in [Proc -> Requests \cup {Nobody}]
  BY DEF TypeInv, TypeOK
<1> USE ProcAssumption
    DEF PlaceInv, GoneInv, InboxKept, history, PCs, Asking, Holding, InSession,
        Draining, Reaping, place, content, session, Goto
<1>WriteRequest. ASSUME NEW p \in Submitters, WriteRequest(p) PROVE GoneInv' /\ InboxKept
  BY <1>WriteRequest DEF WriteRequest, Proc
<1>Open. ASSUME NEW p \in Proc, Open(p) PROVE GoneInv' /\ InboxKept
  BY <1>Open DEF Open, Refused, HandingOff, Delivering, Pause
<1>Flock. ASSUME NEW p \in Proc, Flock(p) PROVE GoneInv' /\ InboxKept
  BY <1>Flock DEF Flock, Locked
<1>Contend. ASSUME NEW p \in Proc, Contend(p) PROVE GoneInv' /\ InboxKept
  BY <1>Contend DEF Contend, Refused, HandingOff, Delivering, Pause
<1>WriteRecord. ASSUME NEW p \in Proc, WriteRecord(p) PROVE GoneInv' /\ InboxKept
  BY <1>WriteRecord DEF WriteRecord
<1>Load. ASSUME NEW p \in Proc, Load(p) PROVE GoneInv' /\ InboxKept
  BY <1>Load DEF Load, StartDrain
<1>ApplyNext. ASSUME NEW p \in Proc, ApplyNext(p) PROVE GoneInv' /\ InboxKept
  BY <1>ApplyNext DEF ApplyNext
<1>Commit. ASSUME NEW p \in Proc, Commit(p) PROVE GoneInv' /\ InboxKept
  BY <1>Commit DEF Commit, Save
<1>Retire. ASSUME NEW p \in Proc, Retire(p) PROVE GoneInv' /\ InboxKept
  BY <1>Retire DEF Retire
<1>Unlink. ASSUME NEW p \in Proc, Unlink(p) PROVE GoneInv' /\ InboxKept
  BY <1>Unlink DEF Unlink
<1>Drained. ASSUME NEW p \in Proc, Drained(p) PROVE GoneInv' /\ InboxKept
  BY <1>Drained DEF Drained
<1>Settle. ASSUME NEW p \in Proc, Settle(p) PROVE GoneInv' /\ InboxKept
  BY <1>Settle DEF Settle, Save
<1>Finish. ASSUME NEW p \in Proc, Finish(p) PROVE GoneInv' /\ InboxKept
  BY <1>Finish DEF Finish, StartDrain
<1>Resume. ASSUME NEW p \in Proc, Resume(p) PROVE GoneInv' /\ InboxKept
  BY <1>Resume DEF Resume
<1>TickDrain. ASSUME NEW p \in Proc, TickDrain(p) PROVE GoneInv' /\ InboxKept
  BY <1>TickDrain DEF TickDrain, StartDrain
<1>Work. ASSUME NEW p \in Proc, Work(p) PROVE GoneInv' /\ InboxKept
  BY <1>Work DEF Work, Save
<1>Blocked. ASSUME NEW p \in Proc, Blocked(p) PROVE GoneInv' /\ InboxKept
  BY <1>Blocked DEF Blocked, StartDrain, Save
<1>NoteRelease. ASSUME NEW p \in Proc, NoteRelease(p) PROVE GoneInv' /\ InboxKept
  BY <1>NoteRelease DEF NoteRelease
<1>Unlock. ASSUME NEW p \in Proc, Unlock(p) PROVE GoneInv' /\ InboxKept
  BY <1>Unlock DEF Unlock, CloseSession, Refused, HandingOff, Delivering, Pause
<1>HandOff. ASSUME NEW p \in Proc, HandOff(p) PROVE GoneInv' /\ InboxKept
  BY <1>HandOff DEF HandOff
<1>GcLoad. ASSUME NEW p \in Proc, GcLoad(p) PROVE GoneInv' /\ InboxKept
  BY <1>GcLoad DEF GcLoad
<1>GcRename. ASSUME NEW p \in Proc, GcRename(p) PROVE GoneInv' /\ InboxKept
  BY <1>GcRename DEF GcRename
<1>GcScan. ASSUME NEW p \in Proc, GcScan(p) PROVE GoneInv' /\ InboxKept
  BY <1>GcScan DEF GcScan
<1>GcDropRefs. ASSUME NEW p \in Proc, GcDropRefs(p) PROVE GoneInv' /\ InboxKept
  BY <1>GcDropRefs DEF GcDropRefs
<1>GcRemove. ASSUME NEW p \in Proc, GcRemove(p) PROVE GoneInv' /\ InboxKept
  BY <1>GcRemove DEF GcRemove
<1>GcRemoveFails. ASSUME NEW p \in Proc, GcRemoveFails(p) PROVE GoneInv' /\ InboxKept
  BY <1>GcRemoveFails DEF GcRemoveFails
<1>Crash. ASSUME NEW p \in Proc, Crash(p) PROVE GoneInv' /\ InboxKept
  BY <1>Crash DEF Crash, CloseSession
<1>Interrupt. ASSUME NEW p \in Proc, Interrupt(p) PROVE GoneInv' /\ InboxKept
  BY <1>Interrupt DEF Interrupt, Ticking, Save
<1>Raise. ASSUME NEW p \in Proc, Raise(p) PROVE GoneInv' /\ InboxKept
  BY <1>Raise DEF Raise, Ticking
<1>AllOver. ASSUME UNCHANGED vars PROVE GoneInv' /\ InboxKept
  BY <1>AllOver DEF vars
<1> QED
  BY <1>WriteRequest, <1>Open, <1>Flock, <1>Contend, <1>WriteRecord, <1>Load,
     <1>ApplyNext, <1>Commit, <1>Retire, <1>Unlink, <1>Drained, <1>Settle, <1>Finish,
     <1>Resume, <1>TickDrain, <1>Work, <1>Blocked, <1>NoteRelease, <1>Unlock, <1>HandOff,
     <1>GcLoad, <1>GcRename, <1>GcScan, <1>GcDropRefs, <1>GcRemove, <1>GcRemoveFails,
     <1>Crash, <1>Interrupt, <1>Raise, <1>AllOver
  DEF Next, Step, Fault, Locking, InRun, Leaving, Collecting, AllOver


-----------------------------------------------------------------------------
(* The run.                                                                *)

(* What state.json settled is settled in the copy its one session has in   *)
(* memory; a request about to be dropped as applied has left its trace in  *)
(* both.                                                                   *)
RunInv ==
  /\ \A p \in Proc : pc[p] \in Loaded /\ disk # NoRun => Keeps(disk, mem[p])
  /\ \A p \in Proc : pc[p] = "retire" => mem[p] = disk
  /\ \A p \in Proc : pc[p] \in {"commit", "retire"} /\ okay[p] => Effect(mem[p], current[p])

(* One step of SavedIsKept.                                                *)
DiskKept == disk # NoRun /\ disk' # NoRun => Keeps(disk, disk')

(* One step of GrantedIsSaved.                                             *)
GrantShown == \A r \in granted' \ granted : Effect(disk, r)

(* The only session there is may save its copy, or leave state.json alone. *)
LEMMA OneLoaded ==
  ASSUME TypeInv, TypeInv', PlaceInv, RunInv, NEW p \in Proc, pc[p] \in Loaded,
         disk # NoRun => Keeps(disk, mem'[p]), disk' \in {disk, mem'[p]},
         pc'[p] = "retire" => mem'[p] = disk',
         \A q \in Proc \ {p} : pc'[q] = pc[q],
         pc'[p] \in {"commit", "retire"} /\ okay'[p] => Effect(mem'[p], current'[p]),
         Sound(mem'[p]), mem'[p] \in Runs
  PROVE  RunInv' /\ DiskKept
<1>1. \A q \in Proc \ {p} : pc'[q] \notin Loaded
  BY DEF PlaceInv, Holding, InSession, Loaded
<1>2. disk' = mem'[p] => Keeps(disk', mem'[p])
  BY KeepsSame
<1>3. disk # NoRun => disk \in Runs /\ Sound(disk) /\ Keeps(disk, disk)
  BY KeepsSame DEF TypeInv, TypeOK, InHand
<1>4. disk' # NoRun => Keeps(disk', mem'[p])
  BY <1>2, <1>3
<1> QED
  BY <1>1, <1>3, <1>4 DEF RunInv, DiskKept, Loaded, Draining

(* No step takes back what state.json settled.                             *)
THEOREM RunStep ==
  TypeInv /\ TypeInv' /\ PlaceInv /\ RunInv /\ [Next]_vars => RunInv' /\ DiskKept /\ GrantShown
<1> SUFFICES ASSUME TypeInv, TypeInv', PlaceInv, RunInv, [Next]_vars PROVE RunInv' /\ DiskKept /\ GrantShown
  OBVIOUS
<1> /\ pc \in [Proc -> PCs] /\ disk \in Runs \cup {NoRun} /\ NoRun \notin Runs
    /\ current \in [Proc -> Requests \cup {Nobody}] /\ okay \in [Proc -> BOOLEAN]
    /\ mem \in [Proc -> Runs \cup {NoRun}]
    /\ disk # NoRun => Sound(disk)
    /\ \A p \in Proc : pc[p] \in Loaded => mem[p] \in Runs /\ Sound(mem[p])
    /\ \A p \in Proc : Ticking(p) => mem[p].status = "running"
  BY RunAssumption DEF TypeInv, TypeOK, InHand
<1>same. disk # NoRun => Keeps(disk, disk)
  BY KeepsSame
<1> USE DEF PlaceInv, RunInv, DiskKept, GrantShown, history, Loaded, PCs, Asking, Holding,
            InSession, Draining, Reaping, place, content, session, Goto
<1>WriteRequest. ASSUME NEW p \in Submitters, WriteRequest(p) PROVE RunInv' /\ DiskKept /\ GrantShown
  BY <1>WriteRequest, <1>same DEF WriteRequest, Proc
<1>Open. ASSUME NEW p \in Proc, Open(p) PROVE RunInv' /\ DiskKept /\ GrantShown
  BY <1>Open, <1>same DEF Open, Refused, HandingOff, Delivering, Pause
<1>Flock. ASSUME NEW p \in Proc, Flock(p) PROVE RunInv' /\ DiskKept /\ GrantShown
  BY <1>Flock, <1>same DEF Flock, Locked
<1>Contend. ASSUME NEW p \in Proc, Contend(p) PROVE RunInv' /\ DiskKept /\ GrantShown
  BY <1>Contend, <1>same DEF Contend, Refused, HandingOff, Delivering, Pause
<1>WriteRecord. ASSUME NEW p \in Proc, WriteRecord(p) PROVE RunInv' /\ DiskKept /\ GrantShown
  BY <1>WriteRecord, <1>same DEF WriteRecord
<1>Load. ASSUME NEW p \in Proc, Load(p) PROVE RunInv' /\ DiskKept /\ GrantShown
  BY <1>Load, <1>same DEF Load, StartDrain, HasState
<1>ApplyNext. ASSUME NEW p \in Proc, ApplyNext(p) PROVE RunInv' /\ DiskKept /\ GrantShown
  <2>0. PICK r \in peeked[p] : \E o \in ApplyOne(mem[p], r) :
          /\ mem' = [mem EXCEPT ![p] = o.run] /\ current' = [current EXCEPT ![p] = r]
          /\ okay' = [okay EXCEPT ![p] = o.ok]
    BY <1>ApplyNext, ApplyNextChoice
  <2>1. PICK o \in ApplyOne(mem[p], r) :
          /\ mem' = [mem EXCEPT ![p] = o.run] /\ current' = [current EXCEPT ![p] = r]
          /\ okay' = [okay EXCEPT ![p] = o.ok]
    BY <2>0
  <2>2. r \in Requests /\ mem[p] \in Runs /\ Sound(mem[p])
    BY <1>ApplyNext DEF ApplyNext, TypeInv, TypeOK
  <2>3. o.run \in Runs /\ Sound(o.run) /\ Keeps(mem[p], o.run) /\ (o.ok => Effect(o.run, r))
    BY <2>2, ApplyOneFaithful DEF Faithful, Keeps
  <2>4. disk # NoRun => Keeps(disk, o.run)
    BY <1>ApplyNext, <2>2, <2>3, KeepsTransitive DEF ApplyNext
  <2>5. mem'[p] = o.run /\ disk' = disk /\ pc' = [pc EXCEPT ![p] = "commit"]
    BY <1>ApplyNext, <2>1 DEF ApplyNext
  <2>6. okay'[p] => Effect(mem'[p], current'[p])
    BY <2>1, <2>3, <2>5
  <2> QED
    BY <1>ApplyNext, <2>3, <2>4, <2>5, <2>6, OneLoaded DEF ApplyNext
<1>Commit. ASSUME NEW p \in Proc, Commit(p) PROVE RunInv' /\ DiskKept /\ GrantShown
  <2>1. disk' = mem[p] /\ mem' = mem /\ pc' = [pc EXCEPT ![p] = "retire"]
    BY <1>Commit DEF Commit, Save
  <2>2. okay' = okay /\ current' = current
    BY <1>Commit DEF Commit
  <2> QED
    BY <1>Commit, <2>1, <2>2, OneLoaded DEF Commit
<1>Retire. ASSUME NEW p \in Proc, Retire(p) PROVE RunInv' /\ DiskKept /\ GrantShown
  BY <1>Retire, <1>same DEF Retire
<1>Unlink. ASSUME NEW p \in Proc, Unlink(p) PROVE RunInv' /\ DiskKept /\ GrantShown
  BY <1>Unlink, <1>same DEF Unlink
<1>Drained. ASSUME NEW p \in Proc, Drained(p) PROVE RunInv' /\ DiskKept /\ GrantShown
  BY <1>Drained, <1>same DEF Drained
<1>Settle. ASSUME NEW p \in Proc, Settle(p) PROVE RunInv' /\ DiskKept /\ GrantShown
  <2>1. /\ mem'[p] = SettleIdle(mem[p]) /\ disk' \in {disk, mem'[p]}
        /\ \E label \in {"stamp", "body"} : pc' = [pc EXCEPT ![p] = label]
    BY <1>Settle DEF Settle, Save
  <2>2. mem'[p] \in Runs /\ Sound(mem'[p]) /\ Keeps(mem[p], mem'[p])
    BY <1>Settle, <2>1, SettleIdleKeeps DEF Settle, Keeps
  <2>3. disk # NoRun => Keeps(disk, mem'[p])
    BY <1>Settle, <2>2, KeepsTransitive DEF Settle
  <2> QED
    BY <1>Settle, <2>1, <2>2, <2>3, OneLoaded DEF Settle
<1>Finish. ASSUME NEW p \in Proc, Finish(p) PROVE RunInv' /\ DiskKept /\ GrantShown
  BY <1>Finish, <1>same DEF Finish, StartDrain
<1>Resume. ASSUME NEW p \in Proc, Resume(p) PROVE RunInv' /\ DiskKept /\ GrantShown
  <2> DEFINE marked == MarkInterrupted(mem[p])
             run == [marked EXCEPT !.status = "running"]
  <2>1. mem[p] \in Runs /\ Sound(mem[p]) /\ mem[p].status \notin Finished
    BY <1>Resume DEF Resume
  <2>2. marked \in Runs /\ Sound(marked) /\ marked.status \notin Finished /\ Keeps(mem[p], marked)
    BY <2>1, MarkInterruptedKeeps DEF Keeps
  <2> HIDE DEF marked
  <2>3. run \in Runs /\ Sound(run) /\ Keeps(marked, run)
    BY <2>2, MovedKeeps DEF Keeps
  <2>4. mem'[p] = run /\ disk' = disk /\ pc' = [pc EXCEPT ![p] = "loop"]
    BY <1>Resume DEF Resume, marked
  <2> HIDE DEF run
  <2>5. disk # NoRun => Keeps(disk, run)
    BY <1>Resume, <2>1, <2>2, <2>3, KeepsTransitive DEF Resume
  <2> QED
    BY <1>Resume, <2>3, <2>4, <2>5, OneLoaded DEF Resume
<1>TickDrain. ASSUME NEW p \in Proc, TickDrain(p) PROVE RunInv' /\ DiskKept /\ GrantShown
  BY <1>TickDrain, <1>same DEF TickDrain, StartDrain
<1>Work. ASSUME NEW p \in Proc, Work(p) PROVE RunInv' /\ DiskKept /\ GrantShown
  <2>1. PICK run \in Ticked(mem[p]) : mem' = [mem EXCEPT ![p] = run] /\ Save(run)
    BY <1>Work DEF Work
  <2>2. run \in Runs /\ Sound(run) /\ Keeps(mem[p], run)
    BY <1>Work, TickedKeeps DEF Work, Keeps
  <2>3. mem'[p] = run /\ disk' = run /\ pc' = [pc EXCEPT ![p] = "blocked"]
    BY <1>Work, <2>1 DEF Work, Save
  <2>4. disk # NoRun => Keeps(disk, run)
    BY <1>Work, <2>2, KeepsTransitive DEF Work
  <2> QED
    BY <1>Work, <2>2, <2>3, <2>4, OneLoaded DEF Work
<1>Blocked. ASSUME NEW p \in Proc, Blocked(p) PROVE RunInv' /\ DiskKept /\ GrantShown
  <2> DEFINE run == [mem[p] EXCEPT !.status = BlockedStatus(mem[p], Pending)]
  <2>1. run \in Runs /\ Sound(run) /\ Keeps(mem[p], run)
    BY <1>Blocked, BlockedKeeps DEF Blocked, Ticking, Finished, Keeps
  <2>2. CASE run.status = "running"
    BY <1>Blocked, <1>same, <2>2 DEF Blocked
  <2>3. CASE run.status # "running"
    <3>1. mem'[p] = run /\ disk' = run /\ pc' = [pc EXCEPT ![p] = "drain"]
      BY <1>Blocked, <2>3 DEF Blocked, Save, StartDrain
    <3> HIDE DEF run
    <3>2. disk # NoRun => Keeps(disk, run)
      BY <1>Blocked, <2>1, KeepsTransitive DEF Blocked
    <3> QED
      BY <1>Blocked, <2>1, <3>1, <3>2, OneLoaded DEF Blocked
  <2> QED
    BY <2>2, <2>3
<1>NoteRelease. ASSUME NEW p \in Proc, NoteRelease(p) PROVE RunInv' /\ DiskKept /\ GrantShown
  BY <1>NoteRelease, <1>same DEF NoteRelease
<1>Unlock. ASSUME NEW p \in Proc, Unlock(p) PROVE RunInv' /\ DiskKept /\ GrantShown
  BY <1>Unlock, <1>same DEF Unlock, CloseSession, Refused, HandingOff, Delivering, Pause
<1>HandOff. ASSUME NEW p \in Proc, HandOff(p) PROVE RunInv' /\ DiskKept /\ GrantShown
  BY <1>HandOff, <1>same DEF HandOff
<1>GcLoad. ASSUME NEW p \in Proc, GcLoad(p) PROVE RunInv' /\ DiskKept /\ GrantShown
  BY <1>GcLoad, <1>same DEF GcLoad
<1>GcRename. ASSUME NEW p \in Proc, GcRename(p) PROVE RunInv' /\ DiskKept /\ GrantShown
  BY <1>GcRename, <1>same DEF GcRename
<1>GcScan. ASSUME NEW p \in Proc, GcScan(p) PROVE RunInv' /\ DiskKept /\ GrantShown
  BY <1>GcScan, <1>same DEF GcScan
<1>GcDropRefs. ASSUME NEW p \in Proc, GcDropRefs(p) PROVE RunInv' /\ DiskKept /\ GrantShown
  BY <1>GcDropRefs, <1>same DEF GcDropRefs
<1>GcRemove. ASSUME NEW p \in Proc, GcRemove(p) PROVE RunInv' /\ DiskKept /\ GrantShown
  BY <1>GcRemove, <1>same DEF GcRemove
<1>GcRemoveFails. ASSUME NEW p \in Proc, GcRemoveFails(p) PROVE RunInv' /\ DiskKept /\ GrantShown
  BY <1>GcRemoveFails, <1>same DEF GcRemoveFails
<1>Crash. ASSUME NEW p \in Proc, Crash(p) PROVE RunInv' /\ DiskKept /\ GrantShown
  BY <1>Crash, <1>same DEF Crash, CloseSession
<1>Interrupt. ASSUME NEW p \in Proc, Interrupt(p) PROVE RunInv' /\ DiskKept /\ GrantShown
  <2> DEFINE marked == MarkInterrupted(mem[p])
             status == IF mem[p].cancel # "none" THEN "cancelled" ELSE "interrupted"
             run == [marked EXCEPT !.status = status]
  <2>1. pc[p] \in Loaded /\ mem[p] \in Runs /\ Sound(mem[p]) /\ mem[p].status = "running"
    BY <1>Interrupt DEF Interrupt, Ticking
  <2>2. marked \in Runs /\ Sound(marked) /\ marked.status \notin Finished /\ Keeps(mem[p], marked)
    BY <2>1, MarkInterruptedKeeps DEF Keeps, Finished
  <2> HIDE DEF marked
  <2>3. run \in Runs /\ Sound(run) /\ Keeps(marked, run)
    <3>1. status \in {"running", "interrupted", "cancelled"}
      OBVIOUS
    <3> HIDE DEF status
    <3>2. run \in Runs /\ Keeps(marked, run)
      BY <2>2, <3>1, MovedKeeps
    <3> QED
      BY <3>2 DEF Keeps
  <2>4. mem'[p] = run /\ disk' = run /\ pc' = [pc EXCEPT ![p] = "stamp"]
    BY <1>Interrupt DEF Interrupt, marked, Save
  <2> HIDE DEF run
  <2>5. disk # NoRun => Keeps(disk, run)
    BY <2>1, <2>2, <2>3, KeepsTransitive
  <2> QED
    BY <1>Interrupt, <2>1, <2>3, <2>4, <2>5, OneLoaded DEF Interrupt
<1>Raise. ASSUME NEW p \in Proc, Raise(p) PROVE RunInv' /\ DiskKept /\ GrantShown
  BY <1>Raise, <1>same DEF Raise, Ticking
<1>AllOver. ASSUME UNCHANGED vars PROVE RunInv' /\ DiskKept /\ GrantShown
  BY <1>AllOver, <1>same DEF vars
<1> QED
  BY <1>WriteRequest, <1>Open, <1>Flock, <1>Contend, <1>WriteRecord, <1>Load,
     <1>ApplyNext, <1>Commit, <1>Retire, <1>Unlink, <1>Drained, <1>Settle, <1>Finish,
     <1>Resume, <1>TickDrain, <1>Work, <1>Blocked, <1>NoteRelease, <1>Unlock, <1>HandOff,
     <1>GcLoad, <1>GcRename, <1>GcScan, <1>GcDropRefs, <1>GcRemove, <1>GcRemoveFails,
     <1>Crash, <1>Interrupt, <1>Raise, <1>AllOver
  DEF Next, Step, Fault, Locking, InRun, Leaving, Collecting, AllOver

-----------------------------------------------------------------------------
(* Commands.                                                               *)

(* What a session has still to drain is in the inbox, and so is what it    *)
(* has in hand, which it will not draw again; nobody's request is in the   *)
(* inbox, or had a command run, before it was written.                     *)
InboxInv ==
  /\ \A s \in inbox : pc[s] # "start"
  /\ \A s \in Submitters : pc[s] = "start" => ran[s] = 0
  /\ \A p \in Proc : pc[p] \in Loaded => peeked[p] \subseteq inbox
  /\ \A p \in Proc : pc[p] \in {"commit", "retire", "unlink"} => current[p] \in inbox \ peeked[p]

(* One session at a time empties the inbox.                                *)
THEOREM InboxStep ==
  TypeInv /\ PlaceInv /\ InboxInv /\ [Next]_vars => InboxInv'
<1> SUFFICES ASSUME TypeInv, PlaceInv, InboxInv, [Next]_vars PROVE InboxInv'
  OBVIOUS
<1> /\ pc \in [Proc -> PCs] /\ inbox \subseteq Submitters /\ Submitters \subseteq Proc
    /\ ran \in [Requests -> Nat] /\ Requests = Submitters
    /\ current \in [Proc -> Requests \cup {Nobody}] /\ peeked \in [Proc -> SUBSET Requests]
  BY ProcAssumption DEF TypeInv, TypeOK, Proc
<1> USE DEF PlaceInv, InboxInv, Loaded, PCs, Asking, Holding, InSession, Draining, Reaping,
            place, content, session, history, Goto
<1>WriteRequest. ASSUME NEW p \in Submitters, WriteRequest(p) PROVE InboxInv'
  BY <1>WriteRequest DEF WriteRequest, Proc
<1>Open. ASSUME NEW p \in Proc, Open(p) PROVE InboxInv'
  BY <1>Open DEF Open, Refused, HandingOff, Delivering, Pause
<1>Flock. ASSUME NEW p \in Proc, Flock(p) PROVE InboxInv'
  BY <1>Flock DEF Flock
<1>Contend. ASSUME NEW p \in Proc, Contend(p) PROVE InboxInv'
  BY <1>Contend DEF Contend, Refused, HandingOff, Delivering, Pause
<1>WriteRecord. ASSUME NEW p \in Proc, WriteRecord(p) PROVE InboxInv'
  BY <1>WriteRecord DEF WriteRecord
<1>Load. ASSUME NEW p \in Proc, Load(p) PROVE InboxInv'
  BY <1>Load DEF Load, StartDrain, HasState, Pending
<1>ApplyNext. ASSUME NEW p \in Proc, ApplyNext(p) PROVE InboxInv'
  <2>1. PICK r \in peeked[p] :
          /\ current' = [current EXCEPT ![p] = r] /\ peeked' = [peeked EXCEPT ![p] = @ \ {r}]
          /\ ran' \in {ran, [ran EXCEPT ![r] = @ + 1]}
    BY <1>ApplyNext, ApplyNextChoice
  <2> QED
    BY <1>ApplyNext, <2>1 DEF ApplyNext
<1>Commit. ASSUME NEW p \in Proc, Commit(p) PROVE InboxInv'
  BY <1>Commit DEF Commit
<1>Retire. ASSUME NEW p \in Proc, Retire(p) PROVE InboxInv'
  BY <1>Retire DEF Retire
<1>Unlink. ASSUME NEW p \in Proc, Unlink(p) PROVE InboxInv'
  BY <1>Unlink DEF Unlink
<1>Drained. ASSUME NEW p \in Proc, Drained(p) PROVE InboxInv'
  BY <1>Drained DEF Drained
<1>Settle. ASSUME NEW p \in Proc, Settle(p) PROVE InboxInv'
  BY <1>Settle DEF Settle
<1>Finish. ASSUME NEW p \in Proc, Finish(p) PROVE InboxInv'
  BY <1>Finish DEF Finish, StartDrain, Pending
<1>Resume. ASSUME NEW p \in Proc, Resume(p) PROVE InboxInv'
  BY <1>Resume DEF Resume
<1>TickDrain. ASSUME NEW p \in Proc, TickDrain(p) PROVE InboxInv'
  BY <1>TickDrain DEF TickDrain, StartDrain, Pending
<1>Work. ASSUME NEW p \in Proc, Work(p) PROVE InboxInv'
  BY <1>Work DEF Work
<1>Blocked. ASSUME NEW p \in Proc, Blocked(p) PROVE InboxInv'
  BY <1>Blocked DEF Blocked, StartDrain, Pending
<1>NoteRelease. ASSUME NEW p \in Proc, NoteRelease(p) PROVE InboxInv'
  BY <1>NoteRelease DEF NoteRelease
<1>Unlock. ASSUME NEW p \in Proc, Unlock(p) PROVE InboxInv'
  BY <1>Unlock DEF Unlock, CloseSession, Refused, HandingOff, Delivering, Pause
<1>HandOff. ASSUME NEW p \in Proc, HandOff(p) PROVE InboxInv'
  BY <1>HandOff DEF HandOff
<1>GcLoad. ASSUME NEW p \in Proc, GcLoad(p) PROVE InboxInv'
  BY <1>GcLoad DEF GcLoad
<1>GcRename. ASSUME NEW p \in Proc, GcRename(p) PROVE InboxInv'
  BY <1>GcRename DEF GcRename
<1>GcScan. ASSUME NEW p \in Proc, GcScan(p) PROVE InboxInv'
  BY <1>GcScan DEF GcScan
<1>GcDropRefs. ASSUME NEW p \in Proc, GcDropRefs(p) PROVE InboxInv'
  BY <1>GcDropRefs DEF GcDropRefs
<1>GcRemove. ASSUME NEW p \in Proc, GcRemove(p) PROVE InboxInv'
  BY <1>GcRemove DEF GcRemove
<1>GcRemoveFails. ASSUME NEW p \in Proc, GcRemoveFails(p) PROVE InboxInv'
  BY <1>GcRemoveFails DEF GcRemoveFails
<1>Crash. ASSUME NEW p \in Proc, Crash(p) PROVE InboxInv'
  BY <1>Crash DEF Crash, CloseSession
<1>Interrupt. ASSUME NEW p \in Proc, Interrupt(p) PROVE InboxInv'
  BY <1>Interrupt DEF Interrupt, Ticking
<1>Raise. ASSUME NEW p \in Proc, Raise(p) PROVE InboxInv'
  BY <1>Raise DEF Raise, Ticking
<1>AllOver. ASSUME UNCHANGED vars PROVE InboxInv'
  BY <1>AllOver DEF vars
<1> QED
  BY <1>WriteRequest, <1>Open, <1>Flock, <1>Contend, <1>WriteRecord, <1>Load,
     <1>ApplyNext, <1>Commit, <1>Retire, <1>Unlink, <1>Drained, <1>Settle, <1>Finish,
     <1>Resume, <1>TickDrain, <1>Work, <1>Blocked, <1>NoteRelease, <1>Unlock, <1>HandOff,
     <1>GcLoad, <1>GcRename, <1>GcScan, <1>GcDropRefs, <1>GcRemove, <1>GcRemoveFails,
     <1>Crash, <1>Interrupt, <1>Raise, <1>AllOver
  DEF Next, Step, Fault, Locking, InRun, Leaving, Collecting, AllOver

(* Where a request stands whose command ran once more than it ran in vain: *)
(* it has left the inbox, state.json shows it resolved, or the session     *)
(* that ran it has it in hand.                                             *)
Over(r) == r \notin inbox
Shown(r) == disk # NoRun /\ Effect(disk, r)
Held(r) ==
  \E p \in Proc :
    current[p] = r /\ (pc[p] = "commit" \/ (pc[p] \in {"retire", "unlink"} /\ ~okay[p]))
Once(r) ==
  \/ ran[r] <= redone[r]
  \/ ran[r] = redone[r] + 1 /\ Ask[r].kind = "decide" /\ (Over(r) \/ Shown(r) \/ Held(r))
OnceInv == \A r \in Requests : Once(r)

(* A resolution in state.json stays there.                                 *)
LEMMA ShownStays ==
  ASSUME TypeInv, DiskKept, NEW r \in Requests, Ask[r].kind = "decide", Shown(r), disk' # NoRun
  PROVE  Shown(r)'
<1>1. disk.decisions[Ask[r].decision] = Ask[r].action
  BY DEF Shown, Effect
<1>2. Ask[r].decision \in Decisions /\ Ask[r].action \in Actions
  BY AskKinds
<1>3. Ask[r].action \notin {"absent", "open"}
  BY <1>2, ActionsAreResolutions
<1>4. disk'.decisions[Ask[r].decision] = Ask[r].action
  BY <1>1, <1>2, <1>3 DEF Shown, DiskKept, Keeps
<1> QED
  BY <1>4 DEF Shown, Effect

(* What a step that saves leaves in state.json is a run.                   *)
LEMMA SavesARun ==
  ASSUME TypeInv, NEW p \in Proc,
         Commit(p) \/ Settle(p) \/ Work(p) \/ Blocked(p) \/ Interrupt(p)
  PROVE  disk' \in Runs \/ disk' = disk
<1>1. pc[p] \in Loaded => mem[p] \in Runs /\ Sound(mem[p])
  BY DEF TypeInv, InHand
<1>2. CASE Commit(p)
  BY <1>1, <1>2 DEF Commit, Save, Loaded, Draining
<1>3. CASE Settle(p)
  BY <1>1, <1>3, SettleIdleKeeps DEF Settle, Save, Loaded, Draining
<1>4. CASE Work(p)
  BY <1>1, <1>4, TickedKeeps DEF Work, Save, Loaded
<1>5. CASE Blocked(p)
  <2>1. mem[p].status \notin Finished
    BY <1>5 DEF Blocked, Ticking, Finished, TypeInv, InHand
  <2> DEFINE run == [mem[p] EXCEPT !.status = BlockedStatus(mem[p], Pending)]
  <2>2. run \in Runs
    BY <1>1, <1>5, <2>1, BlockedKeeps DEF Blocked, Loaded
  <2>3. disk' \in {disk, run}
    BY <1>5 DEF Blocked, Save
  <2> QED BY <2>2, <2>3
<1>6. CASE Interrupt(p)
  <2> DEFINE marked == MarkInterrupted(mem[p])
             status == IF mem[p].cancel # "none" THEN "cancelled" ELSE "interrupted"
             run == [marked EXCEPT !.status = status]
  <2>1. pc[p] \in Loaded /\ disk' = run
    BY <1>6 DEF Interrupt, Ticking, Save, Loaded
  <2>2. marked \in Runs
    BY <1>1, <2>1, MarkInterruptedKeeps
  <2> HIDE DEF marked
  <2>3. run \in Runs
    BY <2>2 DEF Runs
  <2> QED BY <2>1, <2>3
<1> QED BY <1>2, <1>3, <1>4, <1>5, <1>6

(* A step that runs no command.                                            *)
LEMMA OnceMoves ==
  ASSUME TypeInv, TypeInv', DiskKept, NEW r \in Requests, Once(r),
         ran'[r] = ran[r], redone'[r] \in {redone[r], redone[r] + 1},
         Over(r) => Over(r)' \/ ran[r] = 0,
         disk = NoRun \/ disk' # NoRun \/ Over(r)',
         Held(r) /\ Ask[r].kind = "decide" =>
           Held(r)' \/ Shown(r)' \/ Over(r)' \/ redone'[r] = redone[r] + 1
  PROVE  Once(r)'
<1>1. ran[r] \in Nat /\ redone[r] \in Nat
  BY DEF TypeInv, TypeOK
<1>2. CASE ran[r] <= redone[r]
  BY <1>1, <1>2 DEF Once
<1>3. CASE redone'[r] = redone[r] + 1
  BY <1>1, <1>3 DEF Once
<1>4. CASE /\ ran[r] = redone[r] + 1 /\ Ask[r].kind = "decide" /\ redone'[r] = redone[r]
           /\ (Over(r) \/ Shown(r) \/ Held(r))
  <2>1. redone'[r] # redone[r] + 1 /\ ran[r] # 0
    BY <1>1, <1>4
  <2>2. Shown(r) => Shown(r)' \/ Over(r)'
    BY <1>4, ShownStays DEF Shown
  <2> HIDE DEF Shown, Over, Held
  <2>3. Over(r)' \/ Shown(r)' \/ Held(r)'
    BY <1>4, <2>1, <2>2
  <2> QED
    BY <1>4, <2>3 DEF Once
<1> QED
  BY <1>2, <1>3, <1>4 DEF Once

(* A step of a process that has nothing in hand.                           *)
LEMMA OnceQuiet ==
  ASSUME TypeInv, TypeInv', DiskKept, InboxInv, OnceInv, NEW p \in Proc,
         pc[p] \notin {"commit", "retire", "unlink"},
         \A q \in Proc \ {p} : pc'[q] = pc[q] /\ current'[q] = current[q] /\ okay'[q] = okay[q],
         UNCHANGED <<ran, redone>>,
         \A s \in inbox' : s \in inbox \/ pc[s] = "start",
         disk = NoRun \/ disk' # NoRun \/ inbox' = {}
  PROVE  OnceInv'
<1> SUFFICES ASSUME NEW r \in Requests PROVE Once(r)'
  BY DEF OnceInv
<1>1. r \in Submitters
  BY ProcAssumption
<1>2. Over(r) => Over(r)' \/ ran[r] = 0
  BY <1>1 DEF Over, InboxInv
<1>3. disk = NoRun \/ disk' # NoRun \/ Over(r)'
  BY DEF Over
<1>4. Held(r) => Held(r)'
  BY DEF Held
<1>5. Once(r) /\ ran'[r] = ran[r] /\ redone'[r] = redone[r]
  BY DEF OnceInv
<1> QED BY <1>2, <1>3, <1>4, <1>5, OnceMoves

(* No command is run a second time but for what ran in vain.               *)
THEOREM OnceStep ==
  TypeInv /\ TypeInv' /\ PlaceInv /\ GoneInv /\ RunInv /\ InboxInv /\ DiskKept /\ OnceInv /\ [Next]_vars
    => OnceInv'
<1> SUFFICES ASSUME TypeInv, TypeInv', PlaceInv, GoneInv, RunInv, InboxInv, DiskKept, OnceInv,
                    [Next]_vars
             PROVE  OnceInv'
  OBVIOUS
<1> /\ pc \in [Proc -> PCs] /\ disk \in Runs \cup {NoRun} /\ disk' \in Runs \cup {NoRun}
    /\ NoRun \notin Runs /\ Requests = Submitters
    /\ current \in [Proc -> Requests \cup {Nobody}] /\ okay \in [Proc -> BOOLEAN]
    /\ mem \in [Proc -> Runs \cup {NoRun}] /\ peeked \in [Proc -> SUBSET Requests]
    /\ \A p \in Proc : pc[p] \in Loaded => mem[p] \in Runs /\ Sound(mem[p])
    /\ \A p \in Proc : Ticking(p) => mem[p].status = "running"
  BY ProcAssumption, RunAssumption DEF TypeInv, TypeOK, InHand
<1>nat. ran \in [Requests -> Nat] /\ redone \in [Requests -> Nat]
  BY DEF TypeInv, TypeOK
<1> USE DEF Loaded, PCs, Asking, Holding, InSession, Draining, Reaping, place, content, session,
            history, Goto
<1>WriteRequest. ASSUME NEW p \in Submitters, WriteRequest(p) PROVE OnceInv'
  BY <1>WriteRequest, OnceQuiet DEF WriteRequest, Proc
<1>Open. ASSUME NEW p \in Proc, Open(p) PROVE OnceInv'
  BY <1>Open, OnceQuiet DEF Open, Refused, HandingOff, Delivering, Pause
<1>Flock. ASSUME NEW p \in Proc, Flock(p) PROVE OnceInv'
  BY <1>Flock, OnceQuiet DEF Flock
<1>Contend. ASSUME NEW p \in Proc, Contend(p) PROVE OnceInv'
  BY <1>Contend, OnceQuiet DEF Contend, Refused, HandingOff, Delivering, Pause
<1>WriteRecord. ASSUME NEW p \in Proc, WriteRecord(p) PROVE OnceInv'
  BY <1>WriteRecord, OnceQuiet DEF WriteRecord
<1>Load. ASSUME NEW p \in Proc, Load(p) PROVE OnceInv'
  BY <1>Load, OnceQuiet DEF Load, StartDrain, HasState, Pending
<1>ApplyNext. ASSUME NEW p \in Proc, ApplyNext(p) PROVE OnceInv'
  <2>1. PICK r \in peeked[p] : \E o \in ApplyOne(mem[p], r) :
          /\ current' = [current EXCEPT ![p] = r]
          /\ ran' = IF o.ran THEN [ran EXCEPT ![r] = @ + 1] ELSE ran
    BY <1>ApplyNext, ApplyNextChoice
  <2>2. PICK o \in ApplyOne(mem[p], r) :
          /\ current' = [current EXCEPT ![p] = r]
          /\ ran' = IF o.ran THEN [ran EXCEPT ![r] = @ + 1] ELSE ran
    BY <2>1
  <2>3. /\ pc[p] = "drain" /\ pc' = [pc EXCEPT ![p] = "commit"]
        /\ UNCHANGED <<disk, inbox, redone>> /\ r \in inbox
        /\ \A q \in Proc \ {p} : okay'[q] = okay[q] /\ current'[q] = current[q]
    BY <1>ApplyNext, <2>2 DEF ApplyNext, InboxInv
  <2>4. ASSUME o.ran PROVE ran[r] <= redone[r] /\ Ask[r].kind = "decide"
    <3>1. Ask[r].kind = "decide" /\ mem[p].decisions[Ask[r].decision] # Ask[r].action
      BY <2>2, <2>3, <2>4, AskKinds
      DEF ApplyOne, ApplyCancel, ApplyRelease, ApplyDecide, Outcome
    <3>2. ~Shown(r)
      BY <2>3, <3>1, AskKinds, ActionsAreResolutions DEF Shown, Effect, Keeps, RunInv
    <3>3. ~Held(r)
      BY <2>3 DEF Held, PlaceInv
    <3>4. ~Over(r)
      BY <2>3 DEF Over
    <3> QED BY <3>1, <3>2, <3>3, <3>4 DEF OnceInv, Once
  <2>5. ASSUME NEW s \in Requests PROVE Once(s)'
    <3>1. CASE s = r /\ o.ran
      <4>1. ran'[s] <= redone'[s] + 1 /\ ran'[s] \in Nat /\ redone'[s] \in Nat
        BY <2>2, <2>3, <2>4, <3>1, <1>nat
      <4>2. Held(s)'
        BY <2>2, <2>3, <3>1 DEF Held
      <4> HIDE DEF Held
      <4> QED BY <2>4, <3>1, <4>1, <4>2 DEF Once
    <3>2. CASE ~(s = r /\ o.ran)
      <4>1. ran'[s] = ran[s] /\ redone'[s] = redone[s]
        BY <2>2, <2>3, <3>2
      <4>2. Held(s) => Held(s)'
        BY <2>2, <2>3 DEF Held
      <4> QED BY <2>3, <4>1, <4>2, OnceMoves DEF Over, OnceInv
    <3> QED BY <3>1, <3>2
  <2> QED BY <2>5 DEF OnceInv
<1>Commit. ASSUME NEW p \in Proc, Commit(p) PROVE OnceInv'
  <2> SUFFICES ASSUME NEW r \in Requests PROVE Once(r)'
    BY DEF OnceInv
  <2>1. /\ pc[p] = "commit" /\ pc' = [pc EXCEPT ![p] = "retire"] /\ disk' = mem[p]
        /\ UNCHANGED <<inbox, ran, redone, okay, current>>
    BY <1>Commit DEF Commit, Save
  <2>2. disk' # NoRun
    BY <2>1
  <2>3. ASSUME Held(r), Ask[r].kind = "decide" PROVE Held(r)' \/ Shown(r)'
    <3>1. PICK q \in Proc : current[q] = r /\ (pc[q] = "commit" \/ (pc[q] \in {"retire", "unlink"} /\ ~okay[q]))
      BY <2>3 DEF Held
    <3>2. q = p
      BY <2>1, <3>1 DEF PlaceInv
    <3>3. okay[p] => Shown(r)'
      BY <2>1, <2>2, <3>1, <3>2, <2>3 DEF RunInv, Shown, Effect
    <3>4. ~okay[p] => Held(r)'
      BY <2>1, <3>1, <3>2 DEF Held
    <3> QED BY <3>3, <3>4
  <2> QED BY <2>1, <2>2, <2>3, OnceMoves DEF Over, OnceInv
<1>Retire. ASSUME NEW p \in Proc, Retire(p) PROVE OnceInv'
  <2> SUFFICES ASSUME NEW r \in Requests PROVE Once(r)'
    BY DEF OnceInv
  <2>1. /\ pc[p] = "retire" /\ UNCHANGED <<disk, ran, redone, okay, current>>
        /\ \/ okay[p] /\ inbox' = inbox \ {current[p]} /\ pc' = [pc EXCEPT ![p] = "drain"]
           \/ ~okay[p] /\ inbox' = inbox /\ pc' = [pc EXCEPT ![p] = "unlink"]
    BY <1>Retire DEF Retire
  <2>2. Held(r) => Held(r)'
    BY <2>1 DEF Held
  <2> QED BY <2>1, <2>2, OnceMoves DEF Over, OnceInv
<1>Unlink. ASSUME NEW p \in Proc, Unlink(p) PROVE OnceInv'
  <2> SUFFICES ASSUME NEW r \in Requests PROVE Once(r)'
    BY DEF OnceInv
  <2>1. /\ pc[p] = "unlink" /\ UNCHANGED <<disk, ran, redone, okay, current>>
        /\ inbox' = inbox \ {current[p]} /\ pc' = [pc EXCEPT ![p] = "drain"]
    BY <1>Unlink DEF Unlink
  <2>2. Held(r) => Held(r)' \/ Over(r)'
    BY <2>1 DEF Held, Over
  <2> QED BY <2>1, <2>2, OnceMoves DEF Over, OnceInv
<1>Drained. ASSUME NEW p \in Proc, Drained(p) PROVE OnceInv'
  BY <1>Drained, OnceQuiet DEF Drained
<1>Settle. ASSUME NEW p \in Proc, Settle(p) PROVE OnceInv'
  BY <1>Settle, SavesARun, OnceQuiet DEF Settle
<1>Finish. ASSUME NEW p \in Proc, Finish(p) PROVE OnceInv'
  BY <1>Finish, OnceQuiet DEF Finish, StartDrain, Pending
<1>Resume. ASSUME NEW p \in Proc, Resume(p) PROVE OnceInv'
  BY <1>Resume, OnceQuiet DEF Resume
<1>TickDrain. ASSUME NEW p \in Proc, TickDrain(p) PROVE OnceInv'
  BY <1>TickDrain, OnceQuiet DEF TickDrain, StartDrain, Pending
<1>Work. ASSUME NEW p \in Proc, Work(p) PROVE OnceInv'
  BY <1>Work, SavesARun, OnceQuiet DEF Work
<1>Blocked. ASSUME NEW p \in Proc, Blocked(p) PROVE OnceInv'
  BY <1>Blocked, SavesARun, OnceQuiet DEF Blocked, StartDrain
<1>NoteRelease. ASSUME NEW p \in Proc, NoteRelease(p) PROVE OnceInv'
  BY <1>NoteRelease, OnceQuiet DEF NoteRelease
<1>Unlock. ASSUME NEW p \in Proc, Unlock(p) PROVE OnceInv'
  BY <1>Unlock, OnceQuiet DEF Unlock, CloseSession, Refused, HandingOff, Delivering, Pause
<1>HandOff. ASSUME NEW p \in Proc, HandOff(p) PROVE OnceInv'
  BY <1>HandOff, OnceQuiet DEF HandOff
<1>GcLoad. ASSUME NEW p \in Proc, GcLoad(p) PROVE OnceInv'
  BY <1>GcLoad, OnceQuiet DEF GcLoad
<1>GcRename. ASSUME NEW p \in Proc, GcRename(p) PROVE OnceInv'
  BY <1>GcRename, OnceQuiet DEF GcRename
<1>GcScan. ASSUME NEW p \in Proc, GcScan(p) PROVE OnceInv'
  BY <1>GcScan, OnceQuiet DEF GcScan
<1>GcDropRefs. ASSUME NEW p \in Proc, GcDropRefs(p) PROVE OnceInv'
  BY <1>GcDropRefs, OnceQuiet DEF GcDropRefs
<1>GcRemove. ASSUME NEW p \in Proc, GcRemove(p) PROVE OnceInv'
  <2>1. pc[p] = "gc_rmtree" /\ pc' = [pc EXCEPT ![p] = "stamp"] /\ inbox' = {}
        /\ UNCHANGED <<okay, current, ran, redone>>
    BY <1>GcRemove DEF GcRemove
  <2> QED BY <2>1, OnceQuiet
<1>GcRemoveFails. ASSUME NEW p \in Proc, GcRemoveFails(p) PROVE OnceInv'
  <2>1. pc[p] = "gc_rmtree" /\ pc' = [pc EXCEPT ![p] = "stamp"] /\ inbox' = {}
        /\ UNCHANGED <<okay, current, ran, redone>>
    BY <1>GcRemoveFails DEF GcRemoveFails, GoneInv
  <2> QED BY <2>1, OnceQuiet
<1>Crash. ASSUME NEW p \in Proc, Crash(p) PROVE OnceInv'
  <2> SUFFICES ASSUME NEW r \in Requests PROVE Once(r)'
    BY DEF OnceInv
  <2>1. /\ UNCHANGED <<inbox, ran>> /\ InVain(p, FALSE)
        /\ \A q \in Proc \ {p} : pc'[q] = pc[q] /\ current'[q] = current[q] /\ okay'[q] = okay[q]
    BY <1>Crash DEF Crash, CloseSession
  <2>2. redone'[r] \in {redone[r], redone[r] + 1}
    BY <2>1, <1>nat DEF InVain
  <2>3. Held(r) => Held(r)' \/ redone'[r] = redone[r] + 1
    BY <2>1, <1>nat DEF Held, InVain
  <2>4. disk' = disk
    BY <1>Crash DEF Crash
  <2> QED BY <2>1, <2>2, <2>3, <2>4, OnceMoves DEF Over, OnceInv
<1>Interrupt. ASSUME NEW p \in Proc, Interrupt(p) PROVE OnceInv'
  <2> SUFFICES ASSUME NEW r \in Requests PROVE Once(r)'
    BY DEF OnceInv
  <2>1. /\ UNCHANGED <<inbox, ran>> /\ InVain(p, TRUE)
        /\ \A q \in Proc \ {p} : pc'[q] = pc[q] /\ current'[q] = current[q] /\ okay'[q] = okay[q]
    BY <1>Interrupt DEF Interrupt, Ticking
  <2>2. redone'[r] \in {redone[r], redone[r] + 1}
    BY <2>1, <1>nat DEF InVain
  <2> DEFINE marked == MarkInterrupted(mem[p])
             status == IF mem[p].cancel # "none" THEN "cancelled" ELSE "interrupted"
             run == [marked EXCEPT !.status = status]
  <2>3. mem[p] \in Runs /\ Sound(mem[p]) /\ mem[p].status = "running" /\ disk' = run
    BY <1>Interrupt DEF Interrupt, Ticking, Save
  <2>4. marked \in Runs /\ run \in Runs /\ run.decisions = marked.decisions /\ Keeps(mem[p], marked)
    BY <2>3, MarkInterruptedKeeps DEF Runs
  <2> HIDE DEF marked, run
  <2>5. ASSUME Held(r), Ask[r].kind = "decide" PROVE Held(r)' \/ Shown(r)' \/ redone'[r] = redone[r] + 1
    <3>1. PICK q \in Proc : current[q] = r /\ (pc[q] = "commit" \/ (pc[q] \in {"retire", "unlink"} /\ ~okay[q]))
      BY <2>5 DEF Held
    <3>2. CASE q # p
      BY <2>1, <3>1, <3>2 DEF Held
    <3>3. CASE q = p /\ ~okay[p]
      BY <2>1, <3>1, <3>3, <1>nat DEF InVain
    <3>4. CASE q = p /\ okay[p]
      <4>1. mem[p].decisions[Ask[r].decision] = Ask[r].action
        BY <2>5, <3>1, <3>4 DEF RunInv, Effect
      <4>2. run.decisions[Ask[r].decision] = Ask[r].action
        BY <2>4, <2>5, <4>1, AskKinds, ActionsAreResolutions DEF Keeps
      <4> QED BY <2>3, <2>4, <2>5, <4>2 DEF Shown, Effect
    <3> QED BY <3>2, <3>3, <3>4
  <2>6. disk' # NoRun
    BY <2>3, <2>4
  <2> QED BY <2>1, <2>2, <2>5, <2>6, OnceMoves DEF Over, OnceInv
<1>Raise. ASSUME NEW p \in Proc, Raise(p) PROVE OnceInv'
  <2> SUFFICES ASSUME NEW r \in Requests PROVE Once(r)'
    BY DEF OnceInv
  <2>1. /\ UNCHANGED <<inbox, ran>> /\ InVain(p, FALSE)
        /\ \A q \in Proc \ {p} : pc'[q] = pc[q] /\ current'[q] = current[q] /\ okay'[q] = okay[q]
    BY <1>Raise DEF Raise, CloseSession
  <2>2. redone'[r] \in {redone[r], redone[r] + 1}
    BY <2>1, <1>nat DEF InVain
  <2>3. Held(r) => Held(r)' \/ redone'[r] = redone[r] + 1
    BY <2>1, <1>nat DEF Held, InVain
  <2>4. disk' = disk
    BY <1>Raise DEF Raise
  <2> QED BY <2>1, <2>2, <2>3, <2>4, OnceMoves DEF Over, OnceInv
<1>AllOver. ASSUME UNCHANGED vars PROVE OnceInv'
  BY <1>AllOver DEF vars, OnceInv, Once, Over, Shown, Held
<1> QED
  BY <1>WriteRequest, <1>Open, <1>Flock, <1>Contend, <1>WriteRecord, <1>Load,
     <1>ApplyNext, <1>Commit, <1>Retire, <1>Unlink, <1>Drained, <1>Settle, <1>Finish,
     <1>Resume, <1>TickDrain, <1>Work, <1>Blocked, <1>NoteRelease, <1>Unlock, <1>HandOff,
     <1>GcLoad, <1>GcRename, <1>GcScan, <1>GcDropRefs, <1>GcRemove, <1>GcRemoveFails,
     <1>Crash, <1>Interrupt, <1>Raise, <1>AllOver
  DEF Next, Step, Fault, Locking, InRun, Leaving, Collecting, AllOver

-----------------------------------------------------------------------------
(* What a submitter is told.                                               *)

(* A collector about to remove the run, or removing it.                    *)
Removing == {"gc_rename", "gc_scan", "gc_refs", "gc_rmtree"}

(* A session that found no run to load leaves at once; only collectors     *)
(* hold as collectors, and they take no hand-off pass; and a written       *)
(* request whose submitter went on to the lock, or was told it is queued,  *)
(* has a run to be applied to, which nobody is removing.                   *)
ReportInv ==
  /\ \A s \in Submitters : pc[s] = "start" => outcome[s] = "none"
  /\ \A p \in Proc : leaving[p] = "missing" =>
       pc[p] \in {"stamp", "unlock"} /\ (disk = NoRun \/ dir # "live")
  /\ \A p \in Proc : pc[p] \in Reaping => p \in Collectors
  /\ \A p \in Collectors : ~passing[p] /\ pc[p] # "handoff"
  /\ record.pid \in Proc => (record.role = "gc" <=> record.pid \in Collectors)
  /\ \A s \in inbox : pc[s] \in {"flock", "contend"} \/ outcome[s] = "queued" => disk # NoRun
  /\ \A s \in inbox : outcome[s] = "queued" =>
       dir = "live" /\ \A p \in Proc : pc[p] \notin Removing

(* The live holder a refused process reads of, where it drains the run.    *)
LEMMA DrainerOwes ==
  ASSUME TypeInv, PlaceInv, RecordInv, ReportInv, NEW me \in Proc, IsLive(SeenRecord, me),
         Drains(SeenRecord.role), disk # NoRun
  PROVE  /\ dir = "live" /\ SeenRecord = record /\ record.pid \in Proc \ {me}
         /\ pc[record.pid] \in Holding /\ Owes(record.pid)
         /\ \A p \in Proc : pc[p] \notin Removing
<1>1. dir = "live" /\ SeenRecord = record /\ record.pid # me /\ IsLive(record, Nobody)
  BY DEF SeenRecord, IsLive, NoRecord
<1>2. record.pid \in Proc \ {me} /\ pc[record.pid] \in Holding
  BY <1>1 DEF TypeInv, TypeOK, RecordInv, IsLive, Holding
<1>3. record.pid \notin Collectors
  BY <1>1, <1>2 DEF ReportInv, Drains
<1>4. leaving[record.pid] # "missing"
  BY <1>1, <1>2 DEF ReportInv
<1>5. Owes(record.pid)
  BY <1>2, <1>3, <1>4 DEF Owes
<1>6. \A p \in Proc : pc[p] \notin Removing
  BY <1>2, <1>3 DEF PlaceInv, ReportInv, Removing, Holding, InSession, Reaping
<1> QED BY <1>1, <1>2, <1>5, <1>6

(* A session that goes on, saving its copy or not, tells nobody anything.  *)
LEMMA ReportQuiet ==
  ASSUME TypeInv, PlaceInv, ReportInv, NEW p \in Proc, NEW label \in Loaded \cup {"stamp"},
         pc[p] \in Loaded, pc' = [pc EXCEPT ![p] = label], disk' \in Runs \/ disk' = disk,
         leaving' \in {leaving, [leaving EXCEPT ![p] = "raised"]},
         UNCHANGED <<dir, record, inbox, passing, outcome>>
  PROVE  ReportInv'
<1>1. /\ pc \in [Proc -> PCs] /\ NoRun \notin Runs /\ Submitters \subseteq Proc
      /\ inbox \subseteq Submitters /\ Collectors \subseteq Proc
      /\ leaving \in [Proc -> {"normal", "raised", "missing"}]
  BY ProcAssumption, RunAssumption DEF TypeInv, TypeOK, Proc
<1>2. \A q \in Proc : pc'[q] = IF q = p THEN label ELSE pc[q]
  BY <1>1
<1>3. \A q \in Proc : leaving'[q] # "missing"
  BY <1>1 DEF PlaceInv, ReportInv, Holding, InSession, Loaded, Draining
<1>4. \A q \in Proc : pc'[q] # pc[q] => pc'[q] \notin {"start", "handoff", "flock", "contend"} \cup Reaping
  BY <1>2 DEF Loaded, Draining, Reaping
<1>5. \A s \in inbox' : pc'[s] \in {"flock", "contend"} \/ outcome'[s] = "queued" => disk' # NoRun
  BY <1>1, <1>4 DEF ReportInv
<1>6. \A s \in inbox' : outcome'[s] = "queued" =>
        dir' = "live" /\ \A q \in Proc : pc'[q] \notin Removing
  BY <1>1, <1>4 DEF ReportInv, Removing, Reaping
<1>7. /\ \A s \in Submitters : pc'[s] = "start" => outcome'[s] = "none"
      /\ \A q \in Proc : pc'[q] \in Reaping => q \in Collectors
      /\ \A q \in Collectors : ~passing'[q] /\ pc'[q] # "handoff"
      /\ record'.pid \in Proc => (record'.role = "gc" <=> record'.pid \in Collectors)
  BY <1>1, <1>4 DEF ReportInv, Reaping
<1> QED BY <1>3, <1>5, <1>6, <1>7 DEF ReportInv

(* What is said of the submitters and their holders is true of every step. *)
THEOREM ReportStep ==
  TypeInv /\ TypeInv' /\ PlaceInv /\ PlaceInv' /\ RecordInv /\ GoneInv /\ InboxInv /\ ReportInv /\ [Next]_vars
    => ReportInv'
<1> SUFFICES ASSUME TypeInv, TypeInv', PlaceInv, PlaceInv', RecordInv, GoneInv, InboxInv, ReportInv,
                    [Next]_vars
             PROVE  ReportInv'
  OBVIOUS
<1> /\ pc \in [Proc -> PCs] /\ disk \in Runs \cup {NoRun} /\ disk' \in Runs \cup {NoRun}
    /\ NoRun \notin Runs /\ inbox \subseteq Submitters /\ Submitters \subseteq Proc
    /\ Collectors \subseteq Proc /\ Submitters \cap Collectors = {} /\ Drivers \cap Collectors = {}
    /\ outcome \in [Submitters -> Outcomes] /\ leaving \in [Proc -> {"normal", "raised", "missing"}]
    /\ passing \in [Proc -> BOOLEAN] /\ dir \in {"live", "tomb", "gone"} /\ Nobody \notin Proc
    /\ \A p \in Proc : pc[p] \in Loaded => mem[p] \in Runs
  BY ProcAssumption, RunAssumption DEF TypeInv, TypeOK, InHand, Proc, Outcomes
<1> USE DEF PlaceInv, ReportInv, Removing, Loaded, PCs, Asking, Holding, InSession, Draining, Reaping,
            place, content, session, history, retry, faults, Goto
<1>WriteRequest. ASSUME NEW p \in Submitters, WriteRequest(p) PROVE ReportInv'
  BY <1>WriteRequest DEF WriteRequest, Proc
<1>Open. ASSUME NEW p \in Proc, Open(p) PROVE ReportInv'
  BY <1>Open DEF Open, Refused, HandingOff, Delivering, Pause, Told, NoRecord
<1>Flock. ASSUME NEW p \in Proc, Flock(p) PROVE ReportInv'
  BY <1>Flock DEF Flock
<1>Contend. ASSUME NEW p \in Proc, Contend(p) PROVE ReportInv'
  <2>1. /\ disk' = disk /\ dir' = dir /\ inbox' = inbox /\ passing' = passing
        /\ leaving' = leaving /\ record' = record /\ pc[p] = "contend"
    BY <1>Contend DEF Contend
  <2>2. CASE pc' = [pc EXCEPT ![p] = "flock"] /\ outcome' = outcome
    BY <2>1, <2>2
  <2>3. ASSUME NEW why, Refused(p, why),
               why = "drainer" => IsLive(SeenRecord, p) /\ Drains(SeenRecord.role)
        PROVE  ReportInv'
    <3>1. PICK label \in {"open", "handoff", "end"} : pc' = [pc EXCEPT ![p] = label]
      BY <2>3, RefusedType
    <3>2. p \in Collectors => label = "end"
      BY <2>3, <3>1 DEF Refused
    <3>3. \A s \in Submitters : outcome'[s] # outcome[s] =>
            s = p /\ (outcome'[s] = "queued" => why = "drainer")
      BY <2>3 DEF Refused, HandingOff, Delivering, Pause, Told
    <3>4. \A s \in inbox' : outcome'[s] = "queued" =>
            disk # NoRun /\ dir = "live" /\ \A q \in Proc : pc[q] \notin Removing
      <4> SUFFICES ASSUME NEW s \in inbox, outcome'[s] = "queued", outcome[s] # "queued"
                   PROVE  disk # NoRun /\ dir = "live" /\ \A q \in Proc : pc[q] \notin Removing
        BY <2>1
      <4>1. s = p /\ why = "drainer" /\ disk # NoRun
        BY <2>1, <3>3
      <4> QED BY <2>3, <4>1, DrainerOwes
    <3> QED BY <2>1, <3>1, <3>2, <3>3, <3>4
  <2> QED
    <3>1. CASE ~IsLive(SeenRecord, p) /\ tries[p] < MaxTries
      BY <1>Contend, <2>2, <3>1 DEF Contend
    <3>2. CASE ~(~IsLive(SeenRecord, p) /\ tries[p] < MaxTries)
      <4> DEFINE why == IF ~IsLive(SeenRecord, p) THEN "unreachable"
                        ELSE IF Drains(SeenRecord.role) THEN "drainer" ELSE "gc"
      <4>1. Refused(p, why)
        BY <1>Contend, <3>2 DEF Contend
      <4> QED BY <2>3, <4>1
    <3> QED BY <3>1, <3>2
<1>WriteRecord. ASSUME NEW p \in Proc, WriteRecord(p) PROVE ReportInv'
  BY <1>WriteRecord DEF WriteRecord, Role
<1>Load. ASSUME NEW p \in Proc, Load(p) PROVE ReportInv'
  BY <1>Load DEF Load, StartDrain, HasState, Pending
<1>ApplyNext. ASSUME NEW p \in Proc, ApplyNext(p) PROVE ReportInv'
  BY <1>ApplyNext DEF ApplyNext
<1>Commit. ASSUME NEW p \in Proc, Commit(p) PROVE ReportInv'
  <2>1. PICK label \in Loaded \cup {"stamp"} : pc' = [pc EXCEPT ![p] = label]
    BY <1>Commit DEF Commit
  <2>2. pc[p] \in Loaded
    BY <1>Commit DEF Commit
  <2>3. /\ leaving' \in {leaving, [leaving EXCEPT ![p] = "raised"]}
        /\ UNCHANGED <<dir, record, inbox, passing, outcome>>
    BY <1>Commit DEF Commit
  <2> QED BY <1>Commit, <2>1, <2>2, <2>3, SavesARun, ReportQuiet
<1>Retire. ASSUME NEW p \in Proc, Retire(p) PROVE ReportInv'
  BY <1>Retire DEF Retire
<1>Unlink. ASSUME NEW p \in Proc, Unlink(p) PROVE ReportInv'
  BY <1>Unlink DEF Unlink
<1>Drained. ASSUME NEW p \in Proc, Drained(p) PROVE ReportInv'
  BY <1>Drained DEF Drained
<1>Settle. ASSUME NEW p \in Proc, Settle(p) PROVE ReportInv'
  <2>1. PICK label \in Loaded \cup {"stamp"} : pc' = [pc EXCEPT ![p] = label]
    BY <1>Settle DEF Settle
  <2>2. pc[p] \in Loaded
    BY <1>Settle DEF Settle
  <2>3. /\ leaving' \in {leaving, [leaving EXCEPT ![p] = "raised"]}
        /\ UNCHANGED <<dir, record, inbox, passing, outcome>>
    BY <1>Settle DEF Settle
  <2> QED BY <1>Settle, <2>1, <2>2, <2>3, SavesARun, ReportQuiet
<1>Finish. ASSUME NEW p \in Proc, Finish(p) PROVE ReportInv'
  BY <1>Finish DEF Finish, StartDrain, Pending
<1>Resume. ASSUME NEW p \in Proc, Resume(p) PROVE ReportInv'
  BY <1>Resume DEF Resume
<1>TickDrain. ASSUME NEW p \in Proc, TickDrain(p) PROVE ReportInv'
  BY <1>TickDrain DEF TickDrain, StartDrain, Pending
<1>Work. ASSUME NEW p \in Proc, Work(p) PROVE ReportInv'
  <2>1. PICK label \in Loaded \cup {"stamp"} : pc' = [pc EXCEPT ![p] = label]
    BY <1>Work DEF Work
  <2>2. pc[p] \in Loaded
    BY <1>Work DEF Work
  <2>3. /\ leaving' \in {leaving, [leaving EXCEPT ![p] = "raised"]}
        /\ UNCHANGED <<dir, record, inbox, passing, outcome>>
    BY <1>Work DEF Work
  <2> QED BY <1>Work, <2>1, <2>2, <2>3, SavesARun, ReportQuiet
<1>Blocked. ASSUME NEW p \in Proc, Blocked(p) PROVE ReportInv'
  <2>1. PICK label \in Loaded \cup {"stamp"} : pc' = [pc EXCEPT ![p] = label]
    BY <1>Blocked DEF Blocked, StartDrain
  <2>2. pc[p] \in Loaded
    BY <1>Blocked DEF Blocked
  <2>3. /\ leaving' \in {leaving, [leaving EXCEPT ![p] = "raised"]}
        /\ UNCHANGED <<dir, record, inbox, passing, outcome>>
    BY <1>Blocked DEF Blocked
  <2> QED BY <1>Blocked, <2>1, <2>2, <2>3, SavesARun, ReportQuiet
<1>NoteRelease. ASSUME NEW p \in Proc, NoteRelease(p) PROVE ReportInv'
  BY <1>NoteRelease DEF NoteRelease
<1>Unlock. ASSUME NEW p \in Proc, Unlock(p) PROVE ReportInv'
  BY <1>Unlock DEF Unlock, CloseSession, Refused, HandingOff, Delivering, Pause, Told
<1>HandOff. ASSUME NEW p \in Proc, HandOff(p) PROVE ReportInv'
  BY <1>HandOff DEF HandOff
<1>GcLoad. ASSUME NEW p \in Proc, GcLoad(p) PROVE ReportInv'
  BY <1>GcLoad DEF GcLoad, HasState, Pending
<1>GcRename. ASSUME NEW p \in Proc, GcRename(p) PROVE ReportInv'
  BY <1>GcRename DEF GcRename
<1>GcScan. ASSUME NEW p \in Proc, GcScan(p) PROVE ReportInv'
  BY <1>GcScan DEF GcScan
<1>GcDropRefs. ASSUME NEW p \in Proc, GcDropRefs(p) PROVE ReportInv'
  BY <1>GcDropRefs DEF GcDropRefs
<1>GcRemove. ASSUME NEW p \in Proc, GcRemove(p) PROVE ReportInv'
  BY <1>GcRemove DEF GcRemove
<1>GcRemoveFails. ASSUME NEW p \in Proc, GcRemoveFails(p) PROVE ReportInv'
  BY <1>GcRemoveFails DEF GcRemoveFails, GoneInv
<1>Crash. ASSUME NEW p \in Proc, Crash(p) PROVE ReportInv'
  BY <1>Crash DEF Crash, CloseSession
<1>Interrupt. ASSUME NEW p \in Proc, Interrupt(p) PROVE ReportInv'
  <2>1. PICK label \in Loaded \cup {"stamp"} : pc' = [pc EXCEPT ![p] = label]
    BY <1>Interrupt DEF Interrupt, Ticking
  <2>2. pc[p] \in Loaded
    BY <1>Interrupt DEF Interrupt, Ticking
  <2>3. /\ leaving' \in {leaving, [leaving EXCEPT ![p] = "raised"]}
        /\ UNCHANGED <<dir, record, inbox, passing, outcome>>
    BY <1>Interrupt DEF Interrupt, Ticking
  <2> QED BY <1>Interrupt, <2>1, <2>2, <2>3, SavesARun, ReportQuiet
<1>Raise. ASSUME NEW p \in Proc, Raise(p) PROVE ReportInv'
  BY <1>Raise DEF Raise, Ticking
<1>AllOver. ASSUME UNCHANGED vars PROVE ReportInv'
  BY <1>AllOver DEF vars
<1> QED
  BY <1>WriteRequest, <1>Open, <1>Flock, <1>Contend, <1>WriteRecord, <1>Load,
     <1>ApplyNext, <1>Commit, <1>Retire, <1>Unlink, <1>Drained, <1>Settle, <1>Finish,
     <1>Resume, <1>TickDrain, <1>Work, <1>Blocked, <1>NoteRelease, <1>Unlock, <1>HandOff,
     <1>GcLoad, <1>GcRename, <1>GcScan, <1>GcDropRefs, <1>GcRemove, <1>GcRemoveFails,
     <1>Crash, <1>Interrupt, <1>Raise, <1>AllOver
  DEF Next, Step, Fault, Locking, InRun, Leaving, Collecting, AllOver

-----------------------------------------------------------------------------
(* Whoever was told "queued" has a carrier.                                *)

(* A request in the inbox that was reported queued, and whose carrier has  *)
(* not failed since it arrived.                                            *)
Waiting(s) == s \in inbox \ lapsed /\ outcome[s] = "queued"

(* A step that reports nothing queued keeps the carriers where its own     *)
(* process still owes, never owed, or owed and says that it failed.        *)
LEMMA CarryQuiet ==
  ASSUME QueuedIsCarried, NEW p \in Proc,
         \A q \in Proc \ {p} : Owes(q) => Owes(q)',
         \A s \in Submitters : Waiting(s)' => Waiting(s),
         Owes(p) => Owes(p)' \/ \A s \in Submitters : ~Waiting(s)'
  PROVE  QueuedIsCarried'
BY DEF QueuedIsCarried, Waiting

(* No step leaves a queued request without one.                            *)
THEOREM CarryStep ==
  TypeInv /\ TypeInv' /\ PlaceInv /\ RecordInv /\ InboxInv /\ ReportInv /\ QueuedIsCarried /\ [Next]_vars
    => QueuedIsCarried'
<1> SUFFICES ASSUME TypeInv, TypeInv', PlaceInv, RecordInv, InboxInv, ReportInv, QueuedIsCarried,
                    [Next]_vars
             PROVE  QueuedIsCarried'
  OBVIOUS
<1> /\ pc \in [Proc -> PCs] /\ Submitters \subseteq Proc /\ Collectors \subseteq Proc
    /\ inbox \subseteq Submitters /\ lapsed \subseteq Submitters
    /\ outcome \in [Submitters -> Outcomes]
    /\ leaving \in [Proc -> {"normal", "raised", "missing"}] /\ passing \in [Proc -> BOOLEAN]
  BY ProcAssumption DEF TypeInv, TypeOK, Proc, Outcomes
<1> USE DEF Owes, Waiting, PCs, Asking, Holding, InSession, Draining, Reaping,
            place, content, session, history, retry, faults, Goto
<1>WriteRequest. ASSUME NEW p \in Submitters, WriteRequest(p) PROVE QueuedIsCarried'
  <2>1. p \notin inbox /\ outcome[p] = "none"
    BY <1>WriteRequest DEF WriteRequest, InboxInv, ReportInv
  <2>2. /\ inbox' \subseteq inbox \cup {p} /\ lapsed' = lapsed /\ leaving' = leaving
        /\ passing' = passing /\ pc[p] = "start"
        /\ \A s \in Submitters : outcome'[s] = "queued" => outcome[s] = "queued"
        /\ \A q \in Proc \ {p} : pc'[q] = pc[q]
    BY <1>WriteRequest DEF WriteRequest
  <2>3. p \in Proc /\ ~Owes(p) /\ outcome'[p] # "queued"
    BY <2>1, <2>2
  <2>4. \A s \in Submitters : Waiting(s)' => Waiting(s)
    BY <2>1, <2>2, <2>3
  <2> QED BY <2>2, <2>3, <2>4, CarryQuiet
<1>Open. ASSUME NEW p \in Proc, Open(p) PROVE QueuedIsCarried'
  <2>1. /\ inbox' = inbox /\ passing' = passing /\ leaving' = leaving
        /\ lapsed' \in {lapsed, lapsed \cup inbox} /\ \A q \in Proc \ {p} : pc'[q] = pc[q]
    BY <1>Open DEF Open, Refused, HandingOff, Delivering, Pause
  <2>2. \A s \in Submitters : outcome'[s] = "queued" => outcome[s] = "queued"
    BY <1>Open DEF Open, Refused, HandingOff, Delivering, Pause, Told
  <2>3. passing[p] => pc'[p] \in {"flock", "handoff"} \/ lapsed' = lapsed \cup inbox
    BY <1>Open DEF Open, Refused, HandingOff, Pause
  <2>4. \A s \in Submitters : Waiting(s)' => Waiting(s)
    BY <2>1, <2>2
  <2>5. \A q \in Proc \ {p} : Owes(q) => Owes(q)'
    BY <2>1
  <2>6. Owes(p) => Owes(p)' \/ \A s \in Submitters : ~Waiting(s)'
    BY <1>Open, <2>1, <2>3 DEF Open
  <2> HIDE DEF Owes, Waiting
  <2> QED BY <2>4, <2>5, <2>6, CarryQuiet
<1>Flock. ASSUME NEW p \in Proc, Flock(p) PROVE QueuedIsCarried'
  <2>1. /\ inbox' = inbox /\ passing' = passing /\ leaving' = leaving /\ outcome' = outcome
        /\ lapsed' = lapsed /\ \A q \in Proc \ {p} : pc'[q] = pc[q]
        /\ pc[p] = "flock" /\ pc'[p] \in {"contend", "record"}
    BY <1>Flock DEF Flock
  <2>2. leaving[p] # "missing" /\ (passing[p] => p \notin Collectors)
    BY <2>1 DEF ReportInv
  <2>3. Owes(p) => Owes(p)'
    BY <2>1, <2>2
  <2>4. \A q \in Proc \ {p} : Owes(q) => Owes(q)'
    BY <2>1
  <2>5. \A s \in Submitters : Waiting(s)' => Waiting(s)
    BY <2>1
  <2> HIDE DEF Owes, Waiting
  <2> QED BY <2>3, <2>4, <2>5, CarryQuiet
<1>Contend. ASSUME NEW p \in Proc, Contend(p) PROVE QueuedIsCarried'
  <2>1. /\ disk' = disk /\ dir' = dir /\ inbox' = inbox /\ passing' = passing
        /\ leaving' = leaving /\ record' = record /\ pc[p] = "contend"
    BY <1>Contend DEF Contend
  <2>2. CASE pc' = [pc EXCEPT ![p] = "flock"] /\ outcome' = outcome /\ lapsed' = lapsed
    <3>1. /\ \A q \in Proc : Owes(q) => Owes(q)'
          /\ \A s \in Submitters : Waiting(s)' => Waiting(s)
      BY <2>1, <2>2
    <3> HIDE DEF Owes, Waiting
    <3> QED BY <3>1, CarryQuiet
  <2>3. ASSUME NEW why, Refused(p, why),
               why = "drainer" => IsLive(SeenRecord, p) /\ Drains(SeenRecord.role)
        PROVE  QueuedIsCarried'
    <3>1. PICK label \in {"open", "handoff", "end"} : pc' = [pc EXCEPT ![p] = label]
      BY <2>3, RefusedType
    <3>2. \A s \in Submitters : outcome'[s] = "queued" =>
            outcome[s] = "queued" \/ (s = p /\ why = "drainer")
      BY <2>3 DEF Refused, HandingOff, Delivering, Pause, Told
    <3>3. /\ lapsed' \in {lapsed, lapsed \cup inbox}
          /\ passing[p] /\ why # "drainer" => label = "handoff" \/ lapsed' = lapsed \cup inbox
      BY <2>3, <3>1 DEF Refused, HandingOff, Delivering, Pause
    <3>4. \A q \in Proc \ {p} : Owes(q) => Owes(q)'
      BY <2>1, <3>1
    <3>5. CASE why = "drainer"
      <4> SUFFICES ASSUME NEW s \in Submitters, Waiting(s)'
                   PROVE  \E q \in Proc : Owes(q)'
        BY DEF QueuedIsCarried
      <4>1. disk # NoRun
        BY <2>1, <3>2 DEF ReportInv
      <4>2. record.pid \in Proc \ {p} /\ Owes(record.pid)
        BY <2>3, <3>5, <4>1, DrainerOwes
      <4> QED BY <3>4, <4>2
    <3>6. CASE why # "drainer"
      <4>1. \A s \in Submitters : Waiting(s)' => Waiting(s)
        BY <2>1, <3>2, <3>3, <3>6
      <4>2. Owes(p) => Owes(p)' \/ \A s \in Submitters : ~Waiting(s)'
        BY <2>1, <3>1, <3>3, <3>6
      <4> HIDE DEF Owes, Waiting
      <4> QED BY <3>4, <4>1, <4>2, CarryQuiet
    <3> QED BY <3>5, <3>6
  <2> QED
    <3>1. CASE ~IsLive(SeenRecord, p) /\ tries[p] < MaxTries
      BY <1>Contend, <2>2, <3>1 DEF Contend
    <3>2. CASE ~(~IsLive(SeenRecord, p) /\ tries[p] < MaxTries)
      <4> DEFINE why == IF ~IsLive(SeenRecord, p) THEN "unreachable"
                        ELSE IF Drains(SeenRecord.role) THEN "drainer" ELSE "gc"
      <4>1. Refused(p, why)
        BY <1>Contend, <3>2 DEF Contend
      <4> QED BY <2>3, <4>1
    <3> QED BY <3>1, <3>2
<1>WriteRecord. ASSUME NEW p \in Proc, WriteRecord(p) PROVE QueuedIsCarried'
  BY <1>WriteRecord, CarryQuiet DEF WriteRecord
<1>Load. ASSUME NEW p \in Proc, Load(p) PROVE QueuedIsCarried'
  <2>1. /\ inbox' = inbox /\ passing' = passing /\ outcome' = outcome /\ lapsed' = lapsed
        /\ \A q \in Proc \ {p} : pc'[q] = pc[q] /\ leaving'[q] = leaving[q]
        /\ pc[p] = "load" /\ (HasState => leaving' = leaving /\ pc'[p] = "drain")
    BY <1>Load DEF Load, StartDrain
  <2>2. (\E s \in Submitters : Waiting(s)) => HasState
    BY DEF ReportInv, HasState
  <2>3. \A q \in Proc \ {p} : Owes(q) => Owes(q)'
    BY <2>1
  <2>4. \A s \in Submitters : Waiting(s)' => Waiting(s)
    BY <2>1
  <2>5. Owes(p) => Owes(p)' \/ \A s \in Submitters : ~Waiting(s)'
    <3>1. HasState /\ Owes(p) => Owes(p)'
      BY <2>1
    <3> HIDE DEF Owes, Waiting
    <3> QED BY <2>2, <2>4, <3>1
  <2> HIDE DEF Owes, Waiting
  <2> QED BY <2>3, <2>4, <2>5, CarryQuiet
<1>ApplyNext. ASSUME NEW p \in Proc, ApplyNext(p) PROVE QueuedIsCarried'
  BY <1>ApplyNext, CarryQuiet DEF ApplyNext
<1>Commit. ASSUME NEW p \in Proc, Commit(p) PROVE QueuedIsCarried'
  BY <1>Commit, CarryQuiet DEF Commit
<1>Retire. ASSUME NEW p \in Proc, Retire(p) PROVE QueuedIsCarried'
  BY <1>Retire, CarryQuiet DEF Retire
<1>Unlink. ASSUME NEW p \in Proc, Unlink(p) PROVE QueuedIsCarried'
  BY <1>Unlink, CarryQuiet DEF Unlink
<1>Drained. ASSUME NEW p \in Proc, Drained(p) PROVE QueuedIsCarried'
  BY <1>Drained, CarryQuiet DEF Drained
<1>Settle. ASSUME NEW p \in Proc, Settle(p) PROVE QueuedIsCarried'
  BY <1>Settle, CarryQuiet DEF Settle
<1>Finish. ASSUME NEW p \in Proc, Finish(p) PROVE QueuedIsCarried'
  BY <1>Finish, CarryQuiet DEF Finish, StartDrain, Pending
<1>Resume. ASSUME NEW p \in Proc, Resume(p) PROVE QueuedIsCarried'
  BY <1>Resume, CarryQuiet DEF Resume
<1>TickDrain. ASSUME NEW p \in Proc, TickDrain(p) PROVE QueuedIsCarried'
  BY <1>TickDrain, CarryQuiet DEF TickDrain, StartDrain, Pending
<1>Work. ASSUME NEW p \in Proc, Work(p) PROVE QueuedIsCarried'
  BY <1>Work, CarryQuiet DEF Work
<1>Blocked. ASSUME NEW p \in Proc, Blocked(p) PROVE QueuedIsCarried'
  BY <1>Blocked, CarryQuiet DEF Blocked, StartDrain, Pending
<1>NoteRelease. ASSUME NEW p \in Proc, NoteRelease(p) PROVE QueuedIsCarried'
  BY <1>NoteRelease, CarryQuiet DEF NoteRelease
<1>Unlock. ASSUME NEW p \in Proc, Unlock(p) PROVE QueuedIsCarried'
  <2>1. /\ inbox' = inbox /\ passing' = passing /\ lapsed' \in {lapsed, lapsed \cup inbox}
        /\ pc[p] = "unlock"
    BY <1>Unlock DEF Unlock, Refused, HandingOff, Delivering
  <2>2. \A q \in Proc \ {p} : pc'[q] = pc[q] /\ leaving'[q] = leaving[q]
    BY <1>Unlock DEF Unlock, CloseSession, Refused, HandingOff, Delivering, Pause
  <2>3. \A s \in Submitters : outcome'[s] = "queued" => outcome[s] = "queued"
    BY <1>Unlock DEF Unlock, Refused, HandingOff, Delivering, Pause, Told
  <2>4. p \notin Collectors /\ leaving[p] # "missing" => pc'[p] = "handoff" \/ lapsed' = lapsed \cup inbox
    BY <1>Unlock DEF Unlock
  <2>5. \A q \in Proc \ {p} : Owes(q) => Owes(q)'
    BY <2>1, <2>2
  <2>6. \A s \in Submitters : Waiting(s)' => Waiting(s)
    BY <2>1, <2>3
  <2>7. Owes(p) => Owes(p)' \/ \A s \in Submitters : ~Waiting(s)'
    BY <2>1, <2>4
  <2> HIDE DEF Owes, Waiting
  <2> QED BY <2>5, <2>6, <2>7, CarryQuiet
<1>HandOff. ASSUME NEW p \in Proc, HandOff(p) PROVE QueuedIsCarried'
  <2>1. /\ inbox' = inbox /\ leaving' = leaving /\ outcome' = outcome /\ lapsed' = lapsed
        /\ \A q \in Proc \ {p} : pc'[q] = pc[q] /\ passing'[q] = passing[q]
        /\ Pending # {} => pc'[p] = "open" /\ passing'[p]
    BY <1>HandOff DEF HandOff
  <2>2. (\E s \in Submitters : Waiting(s)) => Pending # {}
    BY DEF ReportInv, Pending
  <2>3. \A q \in Proc \ {p} : Owes(q) => Owes(q)'
    BY <2>1
  <2>4. \A s \in Submitters : Waiting(s)' => Waiting(s)
    BY <2>1
  <2>5. Pending # {} => Owes(p)'
    BY <2>1
  <2> HIDE DEF Owes, Waiting
  <2> QED BY <2>2, <2>3, <2>4, <2>5, CarryQuiet
<1>GcLoad. ASSUME NEW p \in Proc, GcLoad(p) PROVE QueuedIsCarried'
  BY <1>GcLoad, CarryQuiet DEF GcLoad
<1>GcRename. ASSUME NEW p \in Proc, GcRename(p) PROVE QueuedIsCarried'
  BY <1>GcRename, CarryQuiet DEF GcRename
<1>GcScan. ASSUME NEW p \in Proc, GcScan(p) PROVE QueuedIsCarried'
  BY <1>GcScan, CarryQuiet DEF GcScan
<1>GcDropRefs. ASSUME NEW p \in Proc, GcDropRefs(p) PROVE QueuedIsCarried'
  BY <1>GcDropRefs, CarryQuiet DEF GcDropRefs
<1>GcRemove. ASSUME NEW p \in Proc, GcRemove(p) PROVE QueuedIsCarried'
  BY <1>GcRemove DEF GcRemove, QueuedIsCarried
<1>GcRemoveFails. ASSUME NEW p \in Proc, GcRemoveFails(p) PROVE QueuedIsCarried'
  BY <1>GcRemoveFails, CarryQuiet DEF GcRemoveFails
<1>Crash. ASSUME NEW p \in Proc, Crash(p) PROVE QueuedIsCarried'
  BY <1>Crash, CarryQuiet DEF Crash, CloseSession
<1>Interrupt. ASSUME NEW p \in Proc, Interrupt(p) PROVE QueuedIsCarried'
  BY <1>Interrupt, CarryQuiet DEF Interrupt, Ticking
<1>Raise. ASSUME NEW p \in Proc, Raise(p) PROVE QueuedIsCarried'
  BY <1>Raise, CarryQuiet DEF Raise, Ticking
<1>AllOver. ASSUME UNCHANGED vars PROVE QueuedIsCarried'
  BY <1>AllOver DEF vars, QueuedIsCarried
<1> QED
  BY <1>WriteRequest, <1>Open, <1>Flock, <1>Contend, <1>WriteRecord, <1>Load,
     <1>ApplyNext, <1>Commit, <1>Retire, <1>Unlink, <1>Drained, <1>Settle, <1>Finish,
     <1>Resume, <1>TickDrain, <1>Work, <1>Blocked, <1>NoteRelease, <1>Unlock, <1>HandOff,
     <1>GcLoad, <1>GcRename, <1>GcScan, <1>GcDropRefs, <1>GcRemove, <1>GcRemoveFails,
     <1>Crash, <1>Interrupt, <1>Raise, <1>AllOver
  DEF Next, Step, Fault, Locking, InRun, Leaving, Collecting, AllOver

-----------------------------------------------------------------------------
(* What the promise to submitters rests on besides.                        *)

(* What a session holds of the inbox, to be looked at before it lets go.   *)
Drawn(s) ==
  \/ pc[s] \in {"drain", "commit", "retire", "unlink"} /\ s \in peeked[s]
  \/ pc[s] \in {"commit", "retire", "unlink"} /\ current[s] = s

(* A request is in one place; a session and a removal have a run on disk,  *)
(* the removal one that is over; nobody gets two answers; and a submitter  *)
(* that opened the run leaves only after a look at its own request.        *)
SentInv ==
  /\ \A s \in Submitters : pc[s] = "start" => s \notin granted \cup rejected
  /\ granted \cap inbox = {}
  /\ \A p \in Proc : pc[p] \in Loaded => disk # NoRun
  /\ \A p \in Proc : pc[p] \in Removing => disk # NoRun /\ disk.status \in Finished
  /\ \A s \in Submitters : pc[s] \in Asking \cup Holding /\ ~passing[s] => outcome[s] = "none"
  /\ \A s \in inbox : outcome[s] # "here"
  /\ \A s \in inbox :
       pc[s] \in Loaded \cup {"stamp", "unlock"} /\ leaving[s] = "normal" => Drawn(s)

(* A holder that goes on, with no request leaving or entering the inbox.   *)
LEMMA SentQuiet ==
  ASSUME TypeInv, PlaceInv, SentInv, NEW p \in Proc, pc[p] \in Holding,
         NEW label \in Loaded \cup Removing \cup {"stamp"}, pc' = [pc EXCEPT ![p] = label],
         UNCHANGED <<inbox, rejected, granted, outcome, passing>>,
         disk' = disk \/ (disk' \in Runs /\ label \notin Removing),
         label \in Loaded => disk' # NoRun,
         label \in Removing => disk # NoRun /\ disk.status \in Finished,
         \A q \in Proc \ {p} :
           leaving'[q] = leaving[q] /\ peeked'[q] = peeked[q] /\ current'[q] = current[q],
         p \in inbox /\ label \in Loaded \cup {"stamp"} /\ leaving'[p] = "normal" => Drawn(p)'
  PROVE  SentInv'
<1>1. pc \in [Proc -> PCs] /\ Submitters \subseteq Proc /\ inbox \subseteq Submitters /\ NoRun \notin Runs
  BY ProcAssumption, RunAssumption DEF TypeInv, TypeOK, Proc
<1>2. \A q \in Proc : pc'[q] = IF q = p THEN label ELSE pc[q]
  BY <1>1
<1>3. label \notin {"start", "unlock"} \cup Asking /\ pc[p] \notin {"start"} \cup Asking /\ label \in Holding
  BY DEF Loaded, Removing, Asking, Holding, InSession, Draining, Reaping
<1>4. \A q \in Proc \ {p} : pc[q] \notin Loaded \cup Removing
  BY DEF PlaceInv, Loaded, Removing, Holding, InSession, Draining, Reaping
<1>5. \A q \in Proc : pc'[q] \in Loaded => disk' # NoRun
  BY <1>2, <1>4
<1>6. \A q \in Proc : pc'[q] \in Removing => disk' # NoRun /\ disk'.status \in Finished
  BY <1>2, <1>4
<1>7. \A s \in inbox' :
        pc'[s] \in Loaded \cup {"stamp", "unlock"} /\ leaving'[s] = "normal" => Drawn(s)'
  <2> SUFFICES ASSUME NEW s \in inbox, pc'[s] \in Loaded \cup {"stamp", "unlock"},
                      leaving'[s] = "normal", s # p
               PROVE  Drawn(s)'
    BY <1>2, <1>3
  <2> QED BY <1>1, <1>2 DEF SentInv, Drawn
<1>8. /\ \A s \in Submitters : pc'[s] = "start" => s \notin granted' \cup rejected'
      /\ granted' \cap inbox' = {} /\ \A s \in inbox' : outcome'[s] # "here"
      /\ \A s \in Submitters : pc'[s] \in Asking \cup Holding /\ ~passing'[s] => outcome'[s] = "none"
  BY <1>1, <1>2, <1>3 DEF SentInv
<1> QED BY <1>5, <1>6, <1>7, <1>8 DEF SentInv

(* No step gives an answer twice or skips a look.                          *)
THEOREM SentStep ==
  TypeInv /\ TypeInv' /\ PlaceInv /\ PlaceInv' /\ RecordInv /\ GoneInv /\ InboxInv /\ ReportInv /\ SentInv
      /\ [Next]_vars
    => SentInv'
<1> SUFFICES ASSUME TypeInv, TypeInv', PlaceInv, PlaceInv', RecordInv, GoneInv, InboxInv, ReportInv,
                    SentInv, [Next]_vars
             PROVE  SentInv'
  OBVIOUS
<1> /\ pc \in [Proc -> PCs] /\ disk \in Runs \cup {NoRun} /\ disk' \in Runs \cup {NoRun}
    /\ NoRun \notin Runs /\ inbox \subseteq Submitters /\ Submitters \subseteq Proc
    /\ Submitters \cap Collectors = {} /\ granted \subseteq Submitters /\ rejected \subseteq Submitters
    /\ outcome \in [Submitters -> Outcomes] /\ leaving \in [Proc -> {"normal", "raised", "missing"}]
    /\ passing \in [Proc -> BOOLEAN] /\ dir \in {"live", "tomb", "gone"}
    /\ peeked \in [Proc -> SUBSET Submitters] /\ current \in [Proc -> Submitters \cup {Nobody}]
    /\ \A p \in Proc : pc[p] \in Loaded => mem[p] \in Runs
  BY ProcAssumption, RunAssumption DEF TypeInv, TypeOK, InHand, Proc, Outcomes
<1> USE DEF PlaceInv, SentInv, Drawn, Removing, Loaded, PCs, Asking, Holding, InSession, Draining,
            Reaping, place, content, session, history, retry, faults, Goto
<1>WriteRequest. ASSUME NEW p \in Submitters, WriteRequest(p) PROVE SentInv'
  BY <1>WriteRequest, ProcAssumption DEF WriteRequest, InboxInv, ReportInv, Proc
<1>Open. ASSUME NEW p \in Proc, Open(p) PROVE SentInv'
  BY <1>Open DEF Open, Refused, HandingOff, Delivering, Pause, Told
<1>Flock. ASSUME NEW p \in Proc, Flock(p) PROVE SentInv'
  BY <1>Flock DEF Flock
<1>Contend. ASSUME NEW p \in Proc, Contend(p) PROVE SentInv'
  BY <1>Contend DEF Contend, Refused, HandingOff, Delivering, Pause, Told
<1>WriteRecord. ASSUME NEW p \in Proc, WriteRecord(p) PROVE SentInv'
  BY <1>WriteRecord DEF WriteRecord
<1>Load. ASSUME NEW p \in Proc, Load(p) PROVE SentInv'
  BY <1>Load DEF Load, StartDrain, HasState, Pending
<1>ApplyNext. ASSUME NEW p \in Proc, ApplyNext(p) PROVE SentInv'
  <2>1. PICK r \in peeked[p] :
          /\ current' = [current EXCEPT ![p] = r] /\ peeked' = [peeked EXCEPT ![p] = @ \ {r}]
    BY <1>ApplyNext, ApplyNextChoice
  <2> QED
    BY <1>ApplyNext, <2>1 DEF ApplyNext, InboxInv
<1>Commit. ASSUME NEW p \in Proc, Commit(p) PROVE SentInv'
  <2>1. PICK label \in Loaded \cup {"stamp"} : pc' = [pc EXCEPT ![p] = label]
    BY <1>Commit DEF Commit
  <2>2. /\ pc[p] \in Loaded
        /\ UNCHANGED <<inbox, rejected, granted, outcome, passing>>
    BY <1>Commit DEF Commit
  <2>3. disk' \in Runs /\ label \notin Removing
    BY <1>Commit, <2>2, SavesARun
  <2>4. \A q \in Proc \ {p} :
          leaving'[q] = leaving[q] /\ peeked'[q] = peeked[q] /\ current'[q] = current[q]
    BY <1>Commit DEF Commit
  <2>5. p \in inbox /\ leaving'[p] = "normal" => Drawn(p)'
    BY <1>Commit DEF Commit
  <2> HIDE DEF PlaceInv, SentInv, Drawn, Removing, Loaded, Holding
  <2> QED BY <1>Commit, <2>1, <2>2, <2>3, <2>4, <2>5, SentQuiet DEF Holding, InSession, Loaded
<1>Retire. ASSUME NEW p \in Proc, Retire(p) PROVE SentInv'
  BY <1>Retire DEF Retire, InboxInv
<1>Unlink. ASSUME NEW p \in Proc, Unlink(p) PROVE SentInv'
  BY <1>Unlink DEF Unlink, InboxInv
<1>Drained. ASSUME NEW p \in Proc, Drained(p) PROVE SentInv'
  BY <1>Drained DEF Drained
<1>Settle. ASSUME NEW p \in Proc, Settle(p) PROVE SentInv'
  <2>1. PICK label \in Loaded \cup {"stamp"} : pc' = [pc EXCEPT ![p] = label]
    BY <1>Settle DEF Settle
  <2>2. /\ pc[p] \in Loaded
        /\ UNCHANGED <<inbox, rejected, granted, outcome, passing>>
    BY <1>Settle DEF Settle
  <2>3. disk' \in Runs /\ label \notin Removing
    BY <1>Settle, <2>2, SavesARun
  <2>4. \A q \in Proc \ {p} :
          leaving'[q] = leaving[q] /\ peeked'[q] = peeked[q] /\ current'[q] = current[q]
    BY <1>Settle DEF Settle
  <2>5. p \in inbox /\ leaving'[p] = "normal" => Drawn(p)'
    BY <1>Settle DEF Settle
  <2> HIDE DEF PlaceInv, SentInv, Drawn, Removing, Loaded, Holding
  <2> QED BY <1>Settle, <2>1, <2>2, <2>3, <2>4, <2>5, SentQuiet DEF Holding, InSession, Loaded
<1>Finish. ASSUME NEW p \in Proc, Finish(p) PROVE SentInv'
  BY <1>Finish DEF Finish, StartDrain, Pending
<1>Resume. ASSUME NEW p \in Proc, Resume(p) PROVE SentInv'
  BY <1>Resume DEF Resume
<1>TickDrain. ASSUME NEW p \in Proc, TickDrain(p) PROVE SentInv'
  BY <1>TickDrain DEF TickDrain, StartDrain, Pending
<1>Work. ASSUME NEW p \in Proc, Work(p) PROVE SentInv'
  <2>1. PICK label \in Loaded \cup {"stamp"} : pc' = [pc EXCEPT ![p] = label]
    BY <1>Work DEF Work
  <2>2. /\ pc[p] \in Loaded
        /\ UNCHANGED <<inbox, rejected, granted, outcome, passing>>
    BY <1>Work DEF Work
  <2>3. disk' \in Runs /\ label \notin Removing
    BY <1>Work, <2>2, SavesARun
  <2>4. \A q \in Proc \ {p} :
          leaving'[q] = leaving[q] /\ peeked'[q] = peeked[q] /\ current'[q] = current[q]
    BY <1>Work DEF Work
  <2>5. p \in inbox /\ leaving'[p] = "normal" => Drawn(p)'
    BY <1>Work DEF Work
  <2> HIDE DEF PlaceInv, SentInv, Drawn, Removing, Loaded, Holding
  <2> QED BY <1>Work, <2>1, <2>2, <2>3, <2>4, <2>5, SentQuiet DEF Holding, InSession, Loaded
<1>Blocked. ASSUME NEW p \in Proc, Blocked(p) PROVE SentInv'
  <2>1. PICK label \in Loaded \cup {"stamp"} : pc' = [pc EXCEPT ![p] = label]
    BY <1>Blocked DEF Blocked, StartDrain, Pending
  <2>2. /\ pc[p] \in Loaded
        /\ UNCHANGED <<inbox, rejected, granted, outcome, passing>>
    BY <1>Blocked DEF Blocked
  <2>3. disk' \in Runs /\ label \notin Removing
    BY <1>Blocked, <2>2, SavesARun
  <2>4. \A q \in Proc \ {p} :
          leaving'[q] = leaving[q] /\ peeked'[q] = peeked[q] /\ current'[q] = current[q]
    BY <1>Blocked DEF Blocked, StartDrain, Pending
  <2>5. p \in inbox /\ leaving'[p] = "normal" => Drawn(p)'
    BY <1>Blocked DEF Blocked, StartDrain, Pending
  <2> HIDE DEF PlaceInv, SentInv, Drawn, Removing, Loaded, Holding
  <2> QED BY <1>Blocked, <2>1, <2>2, <2>3, <2>4, <2>5, SentQuiet DEF Holding, InSession, Loaded
<1>NoteRelease. ASSUME NEW p \in Proc, NoteRelease(p) PROVE SentInv'
  BY <1>NoteRelease DEF NoteRelease
<1>Unlock. ASSUME NEW p \in Proc, Unlock(p) PROVE SentInv'
  BY <1>Unlock DEF Unlock, CloseSession, Refused, HandingOff, Delivering, Pause, Told
<1>HandOff. ASSUME NEW p \in Proc, HandOff(p) PROVE SentInv'
  BY <1>HandOff DEF HandOff
<1>GcLoad. ASSUME NEW p \in Proc, GcLoad(p) PROVE SentInv'
  <2>1. PICK label \in Removing \cup {"stamp"} : pc' = [pc EXCEPT ![p] = label]
    BY <1>GcLoad DEF GcLoad, HasState
  <2>2. /\ pc[p] \in Removing \cup {"gc_load"}
        /\ UNCHANGED <<inbox, rejected, granted, outcome, passing, disk, leaving, peeked, current>>
    BY <1>GcLoad DEF GcLoad, HasState
  <2>3. label \in Removing => disk # NoRun /\ disk.status \in Finished
    BY <1>GcLoad, <2>1, <2>2 DEF GcLoad, HasState
  <2>4. p \notin inbox
    BY <2>2 DEF ReportInv
  <2>5. pc[p] \in Holding /\ label \notin Loaded
    BY <2>2
  <2> HIDE DEF PlaceInv, SentInv, Drawn, Removing, Loaded, Holding
  <2> QED BY <2>1, <2>2, <2>3, <2>4, <2>5, SentQuiet
<1>GcRename. ASSUME NEW p \in Proc, GcRename(p) PROVE SentInv'
  <2>1. PICK label \in Removing \cup {"stamp"} : pc' = [pc EXCEPT ![p] = label]
    BY <1>GcRename DEF GcRename
  <2>2. /\ pc[p] \in Removing \cup {"gc_load"}
        /\ UNCHANGED <<inbox, rejected, granted, outcome, passing, disk, leaving, peeked, current>>
    BY <1>GcRename DEF GcRename
  <2>3. label \in Removing => disk # NoRun /\ disk.status \in Finished
    BY <1>GcRename, <2>1, <2>2 DEF GcRename
  <2>4. p \notin inbox
    BY <2>2 DEF ReportInv
  <2>5. pc[p] \in Holding /\ label \notin Loaded
    BY <2>2
  <2> HIDE DEF PlaceInv, SentInv, Drawn, Removing, Loaded, Holding
  <2> QED BY <2>1, <2>2, <2>3, <2>4, <2>5, SentQuiet
<1>GcScan. ASSUME NEW p \in Proc, GcScan(p) PROVE SentInv'
  <2>1. PICK label \in Removing \cup {"stamp"} : pc' = [pc EXCEPT ![p] = label]
    BY <1>GcScan DEF GcScan
  <2>2. /\ pc[p] \in Removing \cup {"gc_load"}
        /\ UNCHANGED <<inbox, rejected, granted, outcome, passing, disk, leaving, peeked, current>>
    BY <1>GcScan DEF GcScan
  <2>3. label \in Removing => disk # NoRun /\ disk.status \in Finished
    BY <1>GcScan, <2>1, <2>2 DEF GcScan
  <2>4. p \notin inbox
    BY <2>2 DEF ReportInv
  <2>5. pc[p] \in Holding /\ label \notin Loaded
    BY <2>2
  <2> HIDE DEF PlaceInv, SentInv, Drawn, Removing, Loaded, Holding
  <2> QED BY <2>1, <2>2, <2>3, <2>4, <2>5, SentQuiet
<1>GcDropRefs. ASSUME NEW p \in Proc, GcDropRefs(p) PROVE SentInv'
  <2>1. PICK label \in Removing \cup {"stamp"} : pc' = [pc EXCEPT ![p] = label]
    BY <1>GcDropRefs DEF GcDropRefs
  <2>2. /\ pc[p] \in Removing \cup {"gc_load"}
        /\ UNCHANGED <<inbox, rejected, granted, outcome, passing, disk, leaving, peeked, current>>
    BY <1>GcDropRefs DEF GcDropRefs
  <2>3. label \in Removing => disk # NoRun /\ disk.status \in Finished
    BY <1>GcDropRefs, <2>1, <2>2 DEF GcDropRefs
  <2>4. p \notin inbox
    BY <2>2 DEF ReportInv
  <2>5. pc[p] \in Holding /\ label \notin Loaded
    BY <2>2
  <2> HIDE DEF PlaceInv, SentInv, Drawn, Removing, Loaded, Holding
  <2> QED BY <2>1, <2>2, <2>3, <2>4, <2>5, SentQuiet
<1>GcRemove. ASSUME NEW p \in Proc, GcRemove(p) PROVE SentInv'
  BY <1>GcRemove DEF GcRemove, GoneInv
<1>GcRemoveFails. ASSUME NEW p \in Proc, GcRemoveFails(p) PROVE SentInv'
  BY <1>GcRemoveFails DEF GcRemoveFails, GoneInv
<1>Crash. ASSUME NEW p \in Proc, Crash(p) PROVE SentInv'
  BY <1>Crash DEF Crash, CloseSession
<1>Interrupt. ASSUME NEW p \in Proc, Interrupt(p) PROVE SentInv'
  <2>1. PICK label \in Loaded \cup {"stamp"} : pc' = [pc EXCEPT ![p] = label]
    BY <1>Interrupt DEF Interrupt, Ticking
  <2>2. /\ pc[p] \in Loaded
        /\ UNCHANGED <<inbox, rejected, granted, outcome, passing>>
    BY <1>Interrupt DEF Interrupt, Ticking
  <2>3. disk' \in Runs /\ label \notin Removing
    BY <1>Interrupt, <2>2, SavesARun
  <2>4. \A q \in Proc \ {p} :
          leaving'[q] = leaving[q] /\ peeked'[q] = peeked[q] /\ current'[q] = current[q]
    BY <1>Interrupt DEF Interrupt, Ticking
  <2>5. p \in inbox /\ leaving'[p] = "normal" => Drawn(p)'
    BY <1>Interrupt DEF Interrupt, Ticking
  <2> HIDE DEF PlaceInv, SentInv, Drawn, Removing, Loaded, Holding
  <2> QED BY <1>Interrupt, <2>1, <2>2, <2>3, <2>4, <2>5, SentQuiet DEF Holding, InSession, Loaded
<1>Raise. ASSUME NEW p \in Proc, Raise(p) PROVE SentInv'
  BY <1>Raise DEF Raise, Ticking
<1>AllOver. ASSUME UNCHANGED vars PROVE SentInv'
  BY <1>AllOver DEF vars
<1> QED
  BY <1>WriteRequest, <1>Open, <1>Flock, <1>Contend, <1>WriteRecord, <1>Load,
     <1>ApplyNext, <1>Commit, <1>Retire, <1>Unlink, <1>Drained, <1>Settle, <1>Finish,
     <1>Resume, <1>TickDrain, <1>Work, <1>Blocked, <1>NoteRelease, <1>Unlock, <1>HandOff,
     <1>GcLoad, <1>GcRename, <1>GcScan, <1>GcDropRefs, <1>GcRemove, <1>GcRemoveFails,
     <1>Crash, <1>Interrupt, <1>Raise, <1>AllOver
  DEF Next, Step, Fault, Locking, InRun, Leaving, Collecting, AllOver

-----------------------------------------------------------------------------
(* The refinement, step by step.                                           *)

(* The variables of BatchInbox that are no variable of BatchSession.       *)
Sent == {s \in Submitters : pc[s] # "start"}
Refusals == rejected \ (inbox \cup granted)

(* BatchInbox reads a run as BatchSession does.                            *)
LEMMA SameRuns ==
  /\ Inbox!Runs = Runs
  /\ \A old, new : Inbox!Keeps(old, new) <=> Keeps(old, new)
  /\ \A run, r : Inbox!Effect(run, r) <=> Effect(run, r)
<1>1. Inbox!Runs = Runs
  BY DEF Inbox!Runs, Runs
<1>2. ASSUME NEW old, NEW new PROVE Inbox!Keeps(old, new) <=> Keeps(old, new)
  BY DEF Inbox!Keeps, Keeps, Inbox!Sound, Sound, Inbox!Finished, Finished
<1>3. ASSUME NEW run, NEW r PROVE Inbox!Effect(run, r) <=> Effect(run, r)
  BY DEF Inbox!Effect, Effect
<1> QED BY <1>1, <1>2, <1>3

(* What a step of BatchInbox is, in the variables of BatchSession.         *)
LEMMA Stutters ==
  ASSUME UNCHANGED <<disk, Sent, inbox, granted, Refusals, outcome>>
  PROVE  UNCHANGED Inbox!inboxVars
BY DEF Inbox!inboxVars, Sent, Refusals

LEMMA Submits ==
  ASSUME NEW r \in Submitters, r \notin Sent, Sent' = Sent \cup {r},
         \/ inbox' = inbox \cup {r} /\ UNCHANGED outcome
         \/ outcome' = [outcome EXCEPT ![r] = "notfound"] /\ UNCHANGED inbox,
         UNCHANGED <<disk, granted, Refusals>>
  PROVE  Inbox!Submit(r)
BY DEF Inbox!Submit, Sent, Refusals

LEMMA Proceeds ==
  ASSUME disk # NoRun, disk' \in Runs, Keeps(disk, disk'),
         UNCHANGED <<Sent, inbox, granted, Refusals, outcome>>
  PROVE  Inbox!Proceed
BY SameRuns DEF Inbox!Proceed, Sent, Refusals

LEMMA Applies ==
  ASSUME NEW r \in inbox, disk # NoRun, Effect(disk, r), inbox' = inbox \ {r},
         granted' = granted \cup {r}, UNCHANGED <<disk, Sent, Refusals, outcome>>
  PROVE  Inbox!Apply(r)
BY SameRuns DEF Inbox!Apply, Sent, Refusals

LEMMA Refuses ==
  ASSUME NEW r \in inbox, inbox' = inbox \ {r}, Refusals' = Refusals \cup {r},
         UNCHANGED <<disk, Sent, granted, outcome>>
  PROVE  Inbox!Refuse(r)
BY DEF Inbox!Refuse, Sent, Refusals

LEMMA Answered ==
  ASSUME NEW r \in Sent, outcome[r] = "none", NEW what \in Inbox!Answers \ {"none"},
         what = "here" => r \notin inbox, outcome' = [outcome EXCEPT ![r] = what],
         UNCHANGED <<disk, Sent, inbox, granted, Refusals>>
  PROVE  Inbox!Answer(r, what)
BY DEF Inbox!Answer, Sent, Refusals

LEMMA Forgets ==
  ASSUME disk # NoRun, disk.status \in Finished, inbox = {}, disk' \in {disk, NoRun},
         Refusals' \in {Refusals, {}}, UNCHANGED <<Sent, inbox, granted, outcome>>
  PROVE  Inbox!Forget
BY DEF Inbox!Forget, Sent, Refusals, Inbox!Finished, Finished

(* A refusal tells a submitter one thing, or nobody anything.              *)
LEMMA RefusedAnswers ==
  ASSUME TypeInv, NEW p \in Proc, NEW why, Refused(p, why)
  PROVE  \/ outcome' = outcome
         \/ /\ p \in Submitters /\ ~passing[p]
            /\ \E what \in {"queued", "missing", "unreachable"} :
                 outcome' = [outcome EXCEPT ![p] = what]
BY DEF Refused, HandingOff, Delivering, Pause, Told

(* Every step of the protocol is a step of the promise, or none.           *)
Promised == Inbox!InboxNext \/ UNCHANGED Inbox!inboxVars

(* One step of KeepsPromise.                                               *)
THEOREM PromiseStep ==
  TypeInv /\ TypeInv' /\ PlaceInv /\ GoneInv /\ RunInv /\ InboxInv /\ ReportInv /\ SentInv /\ DiskKept
      /\ [Next]_vars
    => Promised
<1> SUFFICES ASSUME TypeInv, TypeInv', PlaceInv, GoneInv, RunInv, InboxInv, ReportInv, SentInv, DiskKept,
                    [Next]_vars
             PROVE  Promised
  OBVIOUS
<1> /\ pc \in [Proc -> PCs] /\ disk \in Runs \cup {NoRun} /\ NoRun \notin Runs
    /\ inbox \subseteq Submitters /\ Submitters \subseteq Proc /\ Requests = Submitters
    /\ current \in [Proc -> Requests \cup {Nobody}] /\ outcome \in [Submitters -> Outcomes]
  BY ProcAssumption, RunAssumption DEF TypeInv, TypeOK, Proc, Outcomes
<1>sent. ASSUME NEW p \in Proc, NEW label, pc' = [pc EXCEPT ![p] = label], label # "start",
                pc[p] # "start"
         PROVE  Sent' = Sent
  BY <1>sent DEF Sent
<1>quiet. ASSUME Sent' = Sent, UNCHANGED <<disk, rejected, inbox, granted, outcome>>
          PROVE  Promised
  BY <1>quiet, Stutters DEF Promised, Refusals
<1>saved. ASSUME NEW p \in Proc, pc[p] \in Loaded, disk' \in Runs \/ disk' = disk, Sent' = Sent,
                 UNCHANGED <<rejected, inbox, granted, outcome>>
          PROVE  Promised
  <2>1. disk # NoRun /\ Refusals' = Refusals
    BY <1>saved DEF SentInv, Refusals
  <2>2. CASE disk' = disk
    BY <1>saved, <1>quiet, <2>2
  <2>3. CASE disk' \in Runs
    BY <1>saved, <2>1, <2>3, Proceeds DEF DiskKept, Promised, Inbox!InboxNext
  <2> QED BY <1>saved, <2>2, <2>3
<1>told. ASSUME NEW p \in Proc, pc[p] \in Asking \cup Holding, Sent' = Sent,
                \/ outcome' = outcome
                \/ /\ p \in Submitters /\ ~passing[p]
                   /\ \E what \in {"queued", "here", "missing", "unreachable"} :
                        outcome' = [outcome EXCEPT ![p] = what] /\ (what = "here" => p \notin inbox),
                UNCHANGED <<disk, rejected, inbox, granted>>
         PROVE  Promised
  <2>1. CASE outcome' = outcome
    BY <1>told, <1>quiet, <2>1
  <2>2. CASE outcome' # outcome
    <3>1. PICK what \in {"queued", "here", "missing", "unreachable"} :
            outcome' = [outcome EXCEPT ![p] = what] /\ (what = "here" => p \notin inbox)
      BY <1>told, <2>2
    <3>2. p \in Sent /\ p \in Requests /\ outcome[p] = "none" /\ Refusals' = Refusals
      BY <1>told, <2>2 DEF SentInv, Sent, Refusals, Asking, Holding, InSession, Draining, Reaping
    <3>3. what \in Inbox!Answers \ {"none"}
      BY DEF Inbox!Answers
    <3>4. Inbox!Answer(p, what)
      BY <1>told, <3>1, <3>2, <3>3, Answered
    <3> QED BY <3>2, <3>3, <3>4 DEF Promised, Inbox!InboxNext
  <2> QED BY <2>1, <2>2
<1>WriteRequest. ASSUME NEW p \in Submitters, WriteRequest(p) PROVE Promised
  <2>1. /\ p \notin Sent /\ Sent' = Sent \cup {p} /\ UNCHANGED <<disk, granted, rejected>>
    BY <1>WriteRequest DEF WriteRequest, Sent, Goto, place, history, content
  <2>2. \/ inbox' = inbox \cup {p} /\ UNCHANGED outcome
        \/ outcome' = [outcome EXCEPT ![p] = "notfound"] /\ UNCHANGED inbox
    BY <1>WriteRequest DEF WriteRequest
  <2>3. Refusals' = Refusals
    BY <2>1, <2>2 DEF Refusals, SentInv, Sent
  <2> QED BY <2>1, <2>2, <2>3, Submits DEF Promised, Inbox!InboxNext
<1>Open. ASSUME NEW p \in Proc, Open(p) PROVE Promised
  <2>1. pc[p] = "open" /\ UNCHANGED <<disk, rejected, inbox, granted>>
    BY <1>Open DEF Open, content
  <2>2. CASE pc' = [pc EXCEPT ![p] = "flock"] /\ outcome' = outcome
    BY <1>sent, <1>quiet, <2>1, <2>2
  <2>3. CASE Refused(p, "missing")
    <3>1. Sent' = Sent
      BY <1>sent, <2>1, <2>3, RefusedType
    <3> QED BY <1>told, <2>1, <2>3, <3>1, RefusedAnswers DEF Asking
  <2> QED BY <1>Open, <2>2, <2>3 DEF Open, Goto
<1>Flock. ASSUME NEW p \in Proc, Flock(p) PROVE Promised
  <2>1. \E label \in {"contend", "record"} : pc' = [pc EXCEPT ![p] = label]
    BY <1>Flock DEF Flock, Goto
  <2>2. pc[p] # "start" /\ UNCHANGED <<disk, rejected, inbox, granted, outcome>>
    BY <1>Flock DEF Flock, Draining, place, content, history
  <2> QED BY <1>sent, <1>quiet, <2>1, <2>2
<1>Contend. ASSUME NEW p \in Proc, Contend(p) PROVE Promised
  <2>1. pc[p] = "contend" /\ UNCHANGED <<disk, rejected, inbox, granted>>
    BY <1>Contend DEF Contend, content
  <2>2. CASE pc' = [pc EXCEPT ![p] = "flock"] /\ outcome' = outcome
    BY <1>sent, <1>quiet, <2>1, <2>2
  <2>3. ASSUME NEW why, Refused(p, why) PROVE Promised
    <3>1. Sent' = Sent
      BY <1>sent, <2>1, <2>3, RefusedType
    <3> QED BY <1>told, <2>1, <2>3, <3>1, RefusedAnswers DEF Asking
  <2> QED BY <1>Contend, <2>2, <2>3 DEF Contend, Goto
<1>WriteRecord. ASSUME NEW p \in Proc, WriteRecord(p) PROVE Promised
  <2>1. \E label \in {"gc_load", "load"} : pc' = [pc EXCEPT ![p] = label]
    BY <1>WriteRecord DEF WriteRecord, Goto
  <2>2. pc[p] # "start" /\ UNCHANGED <<disk, rejected, inbox, granted, outcome>>
    BY <1>WriteRecord DEF WriteRecord, Draining, place, content, history
  <2> QED BY <1>sent, <1>quiet, <2>1, <2>2
<1>Load. ASSUME NEW p \in Proc, Load(p) PROVE Promised
  <2>1. \E label \in {"drain", "stamp"} : pc' = [pc EXCEPT ![p] = label]
    BY <1>Load DEF Load, StartDrain, HasState, Pending, Goto
  <2>2. pc[p] # "start" /\ UNCHANGED <<disk, rejected, inbox, granted, outcome>>
    BY <1>Load DEF Load, StartDrain, HasState, Pending, Draining, place, content, history
  <2> QED BY <1>sent, <1>quiet, <2>1, <2>2
<1>ApplyNext. ASSUME NEW p \in Proc, ApplyNext(p) PROVE Promised
  <2>1. \E label \in {"commit"} : pc' = [pc EXCEPT ![p] = label]
    BY <1>ApplyNext DEF ApplyNext, Goto
  <2>2. pc[p] # "start" /\ UNCHANGED <<disk, rejected, inbox, granted, outcome>>
    BY <1>ApplyNext DEF ApplyNext, Draining, place, content, history
  <2> QED BY <1>sent, <1>quiet, <2>1, <2>2
<1>Commit. ASSUME NEW p \in Proc, Commit(p) PROVE Promised
  <2>1. \E label \in {"retire"} : pc' = [pc EXCEPT ![p] = label]
    BY <1>Commit DEF Commit, Goto
  <2>2. pc[p] \in Loaded /\ pc[p] # "start" /\ UNCHANGED <<rejected, inbox, granted, outcome>>
    BY <1>Commit DEF Commit, Loaded, Draining, place, history
  <2> QED BY <1>Commit, <1>sent, <1>saved, <2>1, <2>2, SavesARun
<1>Retire. ASSUME NEW p \in Proc, Retire(p) PROVE Promised
  <2>1. /\ pc[p] = "retire" /\ current[p] \in inbox /\ mem[p] = disk /\ disk # NoRun
        /\ (okay[p] => Effect(disk, current[p]))
    BY <1>Retire DEF Retire, InboxInv, RunInv, SentInv, Loaded, Draining
  <2>2. Sent' = Sent /\ UNCHANGED <<disk, outcome>>
    BY <1>Retire, <1>sent DEF Retire, Goto
  <2>3. CASE okay[p]
    <3>1. inbox' = inbox \ {current[p]} /\ granted' = granted \cup {current[p]} /\ rejected' = rejected
      BY <1>Retire, <2>3 DEF Retire
    <3>2. Refusals' = Refusals
      BY <2>1, <3>1 DEF Refusals
    <3>3. Inbox!Apply(current[p])
      BY <2>1, <2>2, <2>3, <3>1, <3>2, Applies
    <3> QED BY <2>1, <3>3 DEF Promised, Inbox!InboxNext
  <2>4. CASE ~okay[p]
    <3>1. inbox' = inbox /\ granted' = granted /\ rejected' = rejected \cup {current[p]}
      BY <1>Retire, <2>4 DEF Retire
    <3>2. Refusals' = Refusals
      BY <2>1, <3>1 DEF Refusals
    <3> QED BY <2>2, <3>1, <3>2, Stutters DEF Promised
  <2> QED BY <2>3, <2>4
<1>Unlink. ASSUME NEW p \in Proc, Unlink(p) PROVE Promised
  <2>1. current[p] \in inbox /\ current[p] \in rejected /\ current[p] \notin granted
    BY <1>Unlink DEF Unlink, InboxInv, GoneInv, SentInv
  <2>2. Sent' = Sent /\ UNCHANGED <<disk, outcome, rejected, granted>>
    BY <1>Unlink, <1>sent DEF Unlink, Goto, history
  <2>3. inbox' = inbox \ {current[p]}
    BY <1>Unlink DEF Unlink
  <2>4. Refusals' = Refusals \cup {current[p]}
    BY <2>1, <2>2, <2>3 DEF Refusals
  <2>5. Inbox!Refuse(current[p])
    BY <2>1, <2>2, <2>3, <2>4, Refuses
  <2> QED BY <2>1, <2>5 DEF Promised, Inbox!InboxNext
<1>Drained. ASSUME NEW p \in Proc, Drained(p) PROVE Promised
  <2>1. \E label \in {"work", "settle"} : pc' = [pc EXCEPT ![p] = label]
    BY <1>Drained DEF Drained, Goto
  <2>2. pc[p] # "start" /\ UNCHANGED <<disk, rejected, inbox, granted, outcome>>
    BY <1>Drained DEF Drained, Draining, place, content, history
  <2> QED BY <1>sent, <1>quiet, <2>1, <2>2
<1>Settle. ASSUME NEW p \in Proc, Settle(p) PROVE Promised
  <2>1. \E label \in {"stamp", "body"} : pc' = [pc EXCEPT ![p] = label]
    BY <1>Settle DEF Settle, Goto
  <2>2. pc[p] \in Loaded /\ pc[p] # "start" /\ UNCHANGED <<rejected, inbox, granted, outcome>>
    BY <1>Settle DEF Settle, Loaded, Draining, place, history
  <2> QED BY <1>Settle, <1>sent, <1>saved, <2>1, <2>2, SavesARun
<1>Finish. ASSUME NEW p \in Proc, Finish(p) PROVE Promised
  <2>1. \E label \in {"drain"} : pc' = [pc EXCEPT ![p] = label]
    BY <1>Finish DEF Finish, StartDrain, Pending, Goto
  <2>2. pc[p] # "start" /\ UNCHANGED <<disk, rejected, inbox, granted, outcome>>
    BY <1>Finish DEF Finish, StartDrain, Pending, Draining, place, content, history
  <2> QED BY <1>sent, <1>quiet, <2>1, <2>2
<1>Resume. ASSUME NEW p \in Proc, Resume(p) PROVE Promised
  <2>1. \E label \in {"loop"} : pc' = [pc EXCEPT ![p] = label]
    BY <1>Resume DEF Resume, Goto
  <2>2. pc[p] # "start" /\ UNCHANGED <<disk, rejected, inbox, granted, outcome>>
    BY <1>Resume DEF Resume, Draining, place, content, history
  <2> QED BY <1>sent, <1>quiet, <2>1, <2>2
<1>TickDrain. ASSUME NEW p \in Proc, TickDrain(p) PROVE Promised
  <2>1. \E label \in {"drain"} : pc' = [pc EXCEPT ![p] = label]
    BY <1>TickDrain DEF TickDrain, StartDrain, Pending, Goto
  <2>2. pc[p] # "start" /\ UNCHANGED <<disk, rejected, inbox, granted, outcome>>
    BY <1>TickDrain DEF TickDrain, StartDrain, Pending, Draining, place, content, history
  <2> QED BY <1>sent, <1>quiet, <2>1, <2>2
<1>Work. ASSUME NEW p \in Proc, Work(p) PROVE Promised
  <2>1. \E label \in {"blocked"} : pc' = [pc EXCEPT ![p] = label]
    BY <1>Work DEF Work, Goto
  <2>2. pc[p] \in Loaded /\ pc[p] # "start" /\ UNCHANGED <<rejected, inbox, granted, outcome>>
    BY <1>Work DEF Work, Loaded, Draining, place, history
  <2> QED BY <1>Work, <1>sent, <1>saved, <2>1, <2>2, SavesARun
<1>Blocked. ASSUME NEW p \in Proc, Blocked(p) PROVE Promised
  <2>1. \E label \in {"loop", "drain"} : pc' = [pc EXCEPT ![p] = label]
    BY <1>Blocked DEF Blocked, StartDrain, Goto
  <2>2. pc[p] \in Loaded /\ pc[p] # "start" /\ UNCHANGED <<rejected, inbox, granted, outcome>>
    BY <1>Blocked DEF Blocked, StartDrain, Loaded, Draining, place, history
  <2> QED BY <1>Blocked, <1>sent, <1>saved, <2>1, <2>2, SavesARun
<1>NoteRelease. ASSUME NEW p \in Proc, NoteRelease(p) PROVE Promised
  <2>1. \E label \in {"unlock"} : pc' = [pc EXCEPT ![p] = label]
    BY <1>NoteRelease DEF NoteRelease, Goto
  <2>2. pc[p] # "start" /\ UNCHANGED <<disk, rejected, inbox, granted, outcome>>
    BY <1>NoteRelease DEF NoteRelease, Draining, place, content, history
  <2> QED BY <1>sent, <1>quiet, <2>1, <2>2
<1>Unlock. ASSUME NEW p \in Proc, Unlock(p) PROVE Promised
  <2>1. pc[p] = "unlock" /\ UNCHANGED <<disk, rejected, inbox, granted>>
    BY <1>Unlock DEF Unlock, content
  <2>2. CASE leaving[p] = "missing"
    <3>1. Refused(p, "missing")
      BY <1>Unlock, <2>2 DEF Unlock
    <3>2. Sent' = Sent
      BY <1>sent, <2>1, <3>1, RefusedType
    <3> QED BY <1>told, <2>1, <3>1, <3>2, RefusedAnswers DEF Holding
  <2>3. CASE leaving[p] # "missing"
    <3>1. \E label \in {"end", "handoff"} : pc' = [pc EXCEPT ![p] = label]
      BY <1>Unlock, <2>3 DEF Unlock, Goto
    <3>2. Sent' = Sent
      BY <1>sent, <2>1, <3>1
    <3>3. \/ outcome' = outcome
          \/ /\ p \in Submitters /\ ~passing[p] /\ leaving[p] = "normal"
             /\ outcome' = [outcome EXCEPT ![p] = "here"]
      BY <1>Unlock, <2>3 DEF Unlock, TypeInv, TypeOK
    <3>4. leaving[p] = "normal" => p \notin inbox
      BY <2>1 DEF SentInv, Drawn
    <3> QED BY <1>told, <2>1, <3>2, <3>3, <3>4 DEF Holding
  <2> QED BY <2>2, <2>3
<1>HandOff. ASSUME NEW p \in Proc, HandOff(p) PROVE Promised
  <2>1. \E label \in {"end", "open"} : pc' = [pc EXCEPT ![p] = label]
    BY <1>HandOff DEF HandOff, Goto
  <2>2. pc[p] # "start" /\ UNCHANGED <<disk, rejected, inbox, granted, outcome>>
    BY <1>HandOff DEF HandOff, Draining, place, content, history
  <2> QED BY <1>sent, <1>quiet, <2>1, <2>2
<1>GcLoad. ASSUME NEW p \in Proc, GcLoad(p) PROVE Promised
  <2>1. \E label \in {"gc_rename", "stamp"} : pc' = [pc EXCEPT ![p] = label]
    BY <1>GcLoad DEF GcLoad, Goto
  <2>2. pc[p] # "start" /\ UNCHANGED <<disk, rejected, inbox, granted, outcome>>
    BY <1>GcLoad DEF GcLoad, Draining, place, content, history
  <2> QED BY <1>sent, <1>quiet, <2>1, <2>2
<1>GcRename. ASSUME NEW p \in Proc, GcRename(p) PROVE Promised
  <2>1. \E label \in {"gc_scan", "stamp"} : pc' = [pc EXCEPT ![p] = label]
    BY <1>GcRename DEF GcRename, Goto
  <2>2. pc[p] # "start" /\ UNCHANGED <<disk, rejected, inbox, granted, outcome>>
    BY <1>GcRename DEF GcRename, Draining, place, content, history
  <2> QED BY <1>sent, <1>quiet, <2>1, <2>2
<1>GcScan. ASSUME NEW p \in Proc, GcScan(p) PROVE Promised
  <2>1. \E label \in {"gc_refs", "stamp"} : pc' = [pc EXCEPT ![p] = label]
    BY <1>GcScan DEF GcScan, Goto
  <2>2. pc[p] # "start" /\ UNCHANGED <<disk, rejected, inbox, granted, outcome>>
    BY <1>GcScan DEF GcScan, Draining, place, content, history
  <2> QED BY <1>sent, <1>quiet, <2>1, <2>2
<1>GcDropRefs. ASSUME NEW p \in Proc, GcDropRefs(p) PROVE Promised
  <2>1. \E label \in {"gc_rmtree", "stamp"} : pc' = [pc EXCEPT ![p] = label]
    BY <1>GcDropRefs DEF GcDropRefs, Goto
  <2>2. pc[p] # "start" /\ UNCHANGED <<disk, rejected, inbox, granted, outcome>>
    BY <1>GcDropRefs DEF GcDropRefs, Draining, place, content, history
  <2> QED BY <1>sent, <1>quiet, <2>1, <2>2
<1>GcRemove. ASSUME NEW p \in Proc, GcRemove(p) PROVE Promised
  <2>1. disk # NoRun /\ disk.status \in Finished /\ inbox = {}
    BY <1>GcRemove DEF GcRemove, SentInv, Removing, GoneInv
  <2>2. Sent' = Sent /\ UNCHANGED <<inbox, granted, outcome>> /\ disk' \in {disk, NoRun}
    BY <1>GcRemove, <2>1, <1>sent DEF GcRemove, Goto, history
  <2>3. rejected' \in {rejected, {}}
    BY <1>GcRemove DEF GcRemove
  <2>4. Refusals' \in {Refusals, {}}
    BY <2>2, <2>3 DEF Refusals
  <2> QED BY <2>1, <2>2, <2>4, Forgets DEF Promised, Inbox!InboxNext
<1>GcRemoveFails. ASSUME NEW p \in Proc, GcRemoveFails(p) PROVE Promised
  <2>1. disk # NoRun /\ disk.status \in Finished /\ inbox = {}
    BY <1>GcRemoveFails DEF GcRemoveFails, SentInv, Removing, GoneInv
  <2>2. Sent' = Sent /\ UNCHANGED <<inbox, granted, outcome>> /\ disk' \in {disk, NoRun}
    BY <1>GcRemoveFails, <2>1, <1>sent DEF GcRemoveFails, Goto, history
  <2>3. rejected' \in {rejected, {}}
    BY <1>GcRemoveFails DEF GcRemoveFails
  <2>4. Refusals' \in {Refusals, {}}
    BY <2>2, <2>3 DEF Refusals
  <2> QED BY <2>1, <2>2, <2>4, Forgets DEF Promised, Inbox!InboxNext
<1>Crash. ASSUME NEW p \in Proc, Crash(p) PROVE Promised
  <2>1. \E label \in {"dead"} : pc' = [pc EXCEPT ![p] = label]
    BY <1>Crash DEF Crash, CloseSession, Goto
  <2>2. pc[p] # "start" /\ UNCHANGED <<disk, rejected, inbox, granted, outcome>>
    BY <1>Crash DEF Crash, CloseSession, Draining, place, content, history
  <2> QED BY <1>sent, <1>quiet, <2>1, <2>2
<1>Interrupt. ASSUME NEW p \in Proc, Interrupt(p) PROVE Promised
  <2>1. \E label \in {"stamp"} : pc' = [pc EXCEPT ![p] = label]
    BY <1>Interrupt DEF Interrupt, Ticking, Goto
  <2>2. pc[p] \in Loaded /\ pc[p] # "start" /\ UNCHANGED <<rejected, inbox, granted, outcome>>
    BY <1>Interrupt DEF Interrupt, Ticking, Loaded, Draining, place, history
  <2> QED BY <1>Interrupt, <1>sent, <1>saved, <2>1, <2>2, SavesARun
<1>Raise. ASSUME NEW p \in Proc, Raise(p) PROVE Promised
  <2>1. \E label \in {"stamp"} : pc' = [pc EXCEPT ![p] = label]
    BY <1>Raise DEF Raise, Ticking, Goto
  <2>2. pc[p] # "start" /\ UNCHANGED <<disk, rejected, inbox, granted, outcome>>
    BY <1>Raise DEF Raise, Ticking, Draining, place, content, history
  <2> QED BY <1>sent, <1>quiet, <2>1, <2>2
<1>AllOver. ASSUME UNCHANGED vars PROVE Promised
  BY <1>AllOver, <1>quiet DEF vars, Sent, content, history
<1> QED
  BY <1>WriteRequest, <1>Open, <1>Flock, <1>Contend, <1>WriteRecord, <1>Load,
     <1>ApplyNext, <1>Commit, <1>Retire, <1>Unlink, <1>Drained, <1>Settle, <1>Finish,
     <1>Resume, <1>TickDrain, <1>Work, <1>Blocked, <1>NoteRelease, <1>Unlock, <1>HandOff,
     <1>GcLoad, <1>GcRename, <1>GcScan, <1>GcDropRefs, <1>GcRemove, <1>GcRemoveFails,
     <1>Crash, <1>Interrupt, <1>Raise, <1>AllOver
  DEF Next, Step, Fault, Locking, InRun, Leaving, Collecting, AllOver

-----------------------------------------------------------------------------
(* The properties.                                                         *)

(* Every variable keeps its type, whatever crashes or fails.               *)
THEOREM TypesHold == Spec => []TypeOK
<1>1. Init => TypeInv
  BY InitType
<1>2. TypeInv /\ [Next]_vars => TypeInv'
  BY TypeStep
<1>3. TypeInv => TypeOK
  BY DEF TypeInv
<1> QED
  BY <1>1, <1>2, <1>3, PTL DEF Spec

(* The whole invariant.                                                    *)
SafeInv ==
  /\ TypeInv /\ PlaceInv /\ RecordInv /\ GoneInv /\ RunInv
  /\ InboxInv /\ OnceInv /\ ReportInv /\ QueuedIsCarried /\ SentInv

(* The invariant holds, and state.json is never taken back.                *)
THEOREM SafeInvHolds ==
  ASSUME LockKept
  PROVE  Spec => []SafeInv /\ [][DiskKept /\ InboxKept /\ GrantShown]_vars
<1>1. Init => SafeInv
  <2> SUFFICES ASSUME Init PROVE SafeInv
    OBVIOUS
  <2>1. TypeInv
    BY InitType
  <2>2. \A p \in Proc : pc[p] \in {"start", "open"}
    BY DEF Init
  <2>3. PlaceInv
    BY <2>2 DEF Init, PlaceInv, Holding, InSession, Draining, Reaping
  <2>4. RecordInv
    BY <2>2 DEF Init, RecordInv, IsLive, NoRecord, InSession, Draining, Reaping
  <2>5. GoneInv
    BY <2>2 DEF Init, GoneInv
  <2>6. RunInv
    BY <2>2 DEF Init, RunInv, Loaded, Draining
  <2>7. InboxInv
    BY <2>2, ProcAssumption DEF Init, InboxInv, Loaded, Draining
  <2>8. OnceInv
    BY DEF Init, OnceInv, Once
  <2>9. ReportInv
    BY <2>2, ProcAssumption DEF Init, ReportInv, NoRecord, Reaping, Removing, Proc
  <2>10. QueuedIsCarried
    BY DEF Init, QueuedIsCarried
  <2>11. SentInv
    BY <2>2, ProcAssumption, RunAssumption DEF Init, SentInv, Loaded, Draining, Removing, Holding, InSession,
       Reaping, Proc
  <2> QED
    BY <2>1, <2>3, <2>4, <2>5, <2>6, <2>7, <2>8, <2>9, <2>10, <2>11 DEF SafeInv
<1>2. SafeInv /\ [Next]_vars => SafeInv' /\ [DiskKept /\ InboxKept /\ GrantShown]_vars
  <2> SUFFICES ASSUME SafeInv, [Next]_vars
               PROVE  SafeInv' /\ DiskKept /\ InboxKept /\ GrantShown
    OBVIOUS
  <2>1. TypeInv' /\ PlaceInv'
    BY TypeStep, PlaceStep DEF SafeInv
  <2>2. RecordInv' /\ GoneInv' /\ InboxKept
    BY <2>1, RecordStep, GoneStep DEF SafeInv
  <2>3. RunInv' /\ DiskKept /\ GrantShown
    BY <2>1, RunStep DEF SafeInv
  <2>4. InboxInv' /\ OnceInv'
    BY <2>1, <2>3, InboxStep, OnceStep DEF SafeInv
  <2>5. ReportInv' /\ QueuedIsCarried' /\ SentInv'
    BY <2>1, ReportStep, CarryStep, SentStep DEF SafeInv
  <2> QED
    BY <2>1, <2>2, <2>3, <2>4, <2>5 DEF SafeInv
<1> QED
  BY <1>1, <1>2, PTL DEF Spec

(* One process at a time is inside the run.                                *)
THEOREM ExclusiveHolds ==
  ASSUME LockKept
  PROVE  Spec => []Exclusive
<1>1. SafeInv => Exclusive
  BY DEF SafeInv, PlaceInv, Exclusive, Holding
<1> QED
  BY <1>1, SafeInvHolds, PTL

(* A record that reads as live names the process holding the lock, so      *)
(* "queued, the holder will see it" is said of a holder that is there.     *)
THEOREM LiveRecordIsHolderHolds ==
  ASSUME LockKept
  PROVE  Spec => []LiveRecordIsHolder
<1>1. SafeInv => LiveRecordIsHolder
  <2> SUFFICES ASSUME SafeInv, IsLive(SeenRecord, Nobody)
               PROVE  pc[SeenRecord.pid] \in Holding /\ handle[SeenRecord.pid] = lockfile
    BY DEF LiveRecordIsHolder
  <2>1. dir = "live" /\ SeenRecord = record
    BY DEF SeenRecord, IsLive, NoRecord
  <2>2. record.pid \in Proc /\ pc[record.pid] \in Holding
    BY <2>1 DEF SafeInv, TypeInv, TypeOK, RecordInv, IsLive, Holding
  <2> QED
    BY <2>1, <2>2 DEF SafeInv, PlaceInv
<1> QED
  BY <1>1, SafeInvHolds, PTL

(* A removed run has none of its refs left.                                *)
THEOREM GoneHasNoRefsHolds ==
  ASSUME LockKept
  PROVE  Spec => []GoneHasNoRefs
<1>1. SafeInv => GoneHasNoRefs
  BY DEF SafeInv, GoneInv, GoneHasNoRefs
<1> QED
  BY <1>1, SafeInvHolds, PTL

(* No resolution, cancel or end of a run that reached state.json is ever   *)
(* taken back, by any interleaving of sessions, crashes and replays.       *)
THEOREM SavedIsKeptHolds ==
  ASSUME LockKept
  PROVE  Spec => SavedIsKept
<1>1. [DiskKept /\ InboxKept /\ GrantShown]_vars
        => [disk # NoRun /\ disk' # NoRun => Keeps(disk, disk')]_vars
  BY DEF DiskKept
<1> QED
  BY <1>1, SafeInvHolds, PTL DEF SavedIsKept

(* A request leaves the inbox only applied or rejected.                    *)
THEOREM LeavesSettledHolds ==
  ASSUME LockKept
  PROVE  Spec => LeavesSettled
<1>1. [DiskKept /\ InboxKept /\ GrantShown]_vars
        => [\A r \in inbox \ inbox' : r \in granted' \cup rejected']_vars
  BY DEF InboxKept
<1> QED
  BY <1>1, SafeInvHolds, PTL DEF LeavesSettled

(* A request is dropped as applied only when state.json shows it.          *)
THEOREM GrantedIsSavedHolds ==
  ASSUME LockKept
  PROVE  Spec => GrantedIsSaved
<1>1. [DiskKept /\ InboxKept /\ GrantShown]_vars
        => [\A r \in granted' \ granted : Effect(disk, r)]_vars
  BY DEF GrantShown
<1> QED
  BY <1>1, SafeInvHolds, PTL DEF GrantedIsSaved

(* A command behind a decision runs again only for an attempt whose result *)
(* was never both saved and retired: a crash between the command and the   *)
(* commit, or a retire of what failed, and nothing else.                   *)
THEOREM RunsOnceHolds ==
  ASSUME LockKept
  PROVE  Spec => []RunsOnce
<1>1. SafeInv => RunsOnce
  <2> SUFFICES ASSUME SafeInv, NEW r \in Requests PROVE ran[r] <= 1 + redone[r]
    BY DEF RunsOnce
  <2>1. ran[r] \in Nat /\ redone[r] \in Nat
    BY DEF SafeInv, TypeInv, TypeOK
  <2>2. ran[r] <= redone[r] \/ ran[r] = redone[r] + 1
    BY DEF SafeInv, OnceInv, Once
  <2> QED
    BY <2>1, <2>2
<1> QED
  BY <1>1, SafeInvHolds, PTL

(* A request still in the inbox that was reported queued has a process     *)
(* that will look at the inbox again, unless one failed after it arrived:  *)
(* nobody reports "queued" on the word of a holder that will not drain,    *)
(* and no holder that owes a look leaves without one.                      *)
THEOREM QueuedIsCarriedHolds ==
  ASSUME LockKept
  PROVE  Spec => []QueuedIsCarried
<1>1. SafeInv => QueuedIsCarried
  BY DEF SafeInv
<1> QED
  BY <1>1, SafeInvHolds, PTL

(* A submitter that opened the run itself leaves no request of its own.    *)
THEOREM DeliveredHereHolds ==
  ASSUME LockKept
  PROVE  Spec => []DeliveredHere
<1>1. SafeInv => DeliveredHere
  BY DEF SafeInv, SentInv, DeliveredHere
<1> QED
  BY <1>1, SafeInvHolds, PTL

(* The initial states and every step of the protocol are those of the      *)
(* promise of BatchInbox: whatever crashes, fails or is collected between, *)
(* no request is lost, none counts as applied that state.json does not     *)
(* show, nothing settled is taken back, and a run is forgotten only when   *)
(* it is over and nothing waits.                                           *)
THEOREM KeepsPromiseHolds ==
  ASSUME LockKept
  PROVE  Spec => KeepsPromise
<1>1. Init => Inbox!InboxInit
  <2> SUFFICES ASSUME Init PROVE Inbox!InboxInit
    OBVIOUS
  <2>1. {s \in Submitters : pc[s] # "start"} = {}
    BY ProcAssumption DEF Init, Proc
  <2>2. outcome = [r \in Requests |-> "none"]
    BY ProcAssumption DEF Init
  <2> QED
    BY <2>1, <2>2 DEF Init, Inbox!InboxInit
<1>2. SafeInv /\ SafeInv' /\ [DiskKept /\ InboxKept /\ GrantShown]_vars /\ [Next]_vars
        => [Inbox!InboxNext]_(Inbox!inboxVars)
  <2> SUFFICES ASSUME SafeInv, SafeInv', [DiskKept /\ InboxKept /\ GrantShown]_vars, [Next]_vars
               PROVE  Promised
    BY DEF Promised
  <2>1. CASE DiskKept
    BY <2>1, PromiseStep DEF SafeInv
  <2>2. CASE UNCHANGED vars
    BY <2>2, Stutters DEF Promised, vars, content, history, Sent, Refusals
  <2> QED
    BY <2>1, <2>2
<1> QED
  BY <1>1, <1>2, SafeInvHolds, PTL DEF Spec, KeepsPromise, Inbox!InboxSpec
=============================================================================
