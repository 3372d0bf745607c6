---------------------------- MODULE BatchMachine ----------------------------
(***************************************************************************)
(* The registry through which the `pr batch` drivers of one machine see    *)
(* each other, and the admission pass that uses it: batch.machine with the *)
(* part of batch.scheduler that calls it.  A driver refused with nothing   *)
(* running queues; the head of the queue may start one step whatever the   *)
(* host says, but only under floor.lock and with nothing running.          *)
(*                                                                         *)
(* A driver is named by its run id, a number because ids break ties in the *)
(* queue; the process behind it may die and be resumed.  Locks are flocks: *)
(* they end with the process.  What the host has room for is a free choice *)
(* at each verdict, or never on a starved host; a step is a counted        *)
(* process, and what it weighs in memory is left out.                      *)
(*                                                                         *)
(* Bounds: MaxClock stamps (large enough that none is refused),            *)
(* MaxStarts processes per run, MaxCrashes kills, MaxFailures failing      *)
(* registry reads or writes.                                               *)
(***************************************************************************)
EXTENDS Naturals

CONSTANTS Drivers, Nobody, Pool, Work, StarvedHost, SlowAt,
          MaxClock, MaxStarts, MaxCrashes, MaxFailures

ASSUME DriverAssumption == Drivers \subseteq Nat /\ Nobody \notin Drivers
ASSUME WorkAssumption == Pool \in Nat \ {0} /\ Work \in [Drivers -> Nat]
ASSUME HostAssumption == StarvedHost \in BOOLEAN /\ SlowAt \subseteq {"tick", "items", "confirm"}
ASSUME BoundAssumption == {MaxClock, MaxStarts, MaxCrashes, MaxFailures} \subseteq Nat

VARIABLES
  lock, made,                \* the inode <run>.lock names (0: none), inodes made for it
  entry,                     \* <run>.json
  floor,                     \* the driver whose descriptor holds floor.lock
  clock, abreast,            \* time.time(), as the order of the stamps taken from it; the
                             \*   drivers whose pass was under way at the last one
  pc, fd,                    \* where a driver is, the inode of its own lock it has open
  todo, probed, leaked,      \* peers still to read in this sync; the inode found free;
                             \*   locks of dead runs it holds open without meaning to
  peers,                     \* its _peers
  since, live, degraded,     \* its _waiting_since (0: None), _live, _degraded
  work, left, refused,       \* items with a step to start, those not yet looked at, _refused
  running,                   \* step processes of the driver that have not exited
  starts, crashes, failures, \* processes started per run, kills and failures so far
  inpass, before             \* history: overtakings of this pass, and of earlier ones

files   == <<lock, made, entry>>
time    == <<clock, abreast>>
sight   == <<todo, probed, leaked, peers>>
own     == <<since, live, degraded>>
items   == <<work, left, refused>>
faults  == <<crashes, failures>>
history == <<inpass, before>>
vars == <<files, floor, time, pc, fd, sight, own, items, running, starts, faults, history>>

-----------------------------------------------------------------------------
(* An entry says since when its driver waits and how many steps it runs,   *)
(* and is fresh until FRESH_SECONDS after it was written.  A missing file  *)
(* reads as one that says nothing: the two tell a peer the same.           *)

NoEntry == [since |-> 0, live |-> 0, fresh |-> FALSE]
Entries == [since : 0 .. MaxClock, live : Nat, fresh : BOOLEAN]
Blank == [d \in Drivers |-> NoEntry]

Waiting(e) == e.since # 0 /\ e.fresh

InPass     == {"peers", "remove", "items", "floor", "confirm"}
Registered == InPass \cup {"tick", "stopping", "close", "unlock"}
PCs == {"off", "flock"} \cup Registered

(* The peer a sync reads next; whether a run's lock is held, by its driver *)
(* or by a prober.                                                         *)
IsNext(d, e) == e \in todo[d] /\ \A o \in todo[d] : e <= o
Probes(d, e, inode) == pc[d] = "remove" /\ IsNext(d, e) /\ probed[d] = inode
Flocked(e, inode) ==
  \/ pc[e] \in Registered /\ fd[e] = inode
  \/ \E d \in Drivers : Probes(d, e, inode) \/ <<e, inode>> \in leaked[d]

Goto(d, label) == pc' = [pc EXCEPT ![d] = label]

(* An overtaking is the pair of the driver and the one it overtook; it is  *)
(* kept while the latter stays in the queue.                               *)
Forget(pairs, entries) ==
  {pair \in pairs : LET e == pair[2] IN
     Waiting(entries[e]) /\ entries[e].since = entry[e].since}
KeepHistory ==
  inpass' = Forget(inpass, entry') /\ before' = Forget(before, entry')

Init ==
  /\ lock = [d \in Drivers |-> 0] /\ made = [d \in Drivers |-> 0]
  /\ entry = Blank /\ floor = Nobody /\ clock = 0 /\ abreast = {}
  /\ pc = [d \in Drivers |-> "off"] /\ fd = [d \in Drivers |-> 0]
  /\ todo = [d \in Drivers |-> {}] /\ probed = [d \in Drivers |-> 0]
  /\ leaked = [d \in Drivers |-> {}] /\ peers = [d \in Drivers |-> Blank]
  /\ since = [d \in Drivers |-> 0] /\ live = [d \in Drivers |-> 0]
  /\ degraded = [d \in Drivers |-> FALSE]
  /\ work = Work /\ left = [d \in Drivers |-> 0]
  /\ refused = [d \in Drivers |-> FALSE]
  /\ running = [d \in Drivers |-> 0]
  /\ starts = [d \in Drivers |-> 0] /\ crashes = 0 /\ failures = 0
  /\ inpass = {} /\ before = {}

-----------------------------------------------------------------------------
(* `register`: open the run's lock and wait for it; only a prober can be   *)
(* in the way, since a run has one process at a time.                      *)

Open(d) ==
  /\ pc[d] = "off" /\ starts[d] < MaxStarts
  /\ starts' = [starts EXCEPT ![d] = @ + 1]
  /\ IF lock[d] = 0
     THEN /\ made' = [made EXCEPT ![d] = @ + 1]
          /\ lock' = [lock EXCEPT ![d] = made[d] + 1]
     ELSE UNCHANGED <<made, lock>>
  /\ fd' = [fd EXCEPT ![d] = lock'[d]]
  /\ Goto(d, "flock")
  /\ UNCHANGED <<entry, floor, time, sight, own, items, running, faults, history>>

Register(d) ==
  /\ pc[d] = "flock" /\ ~Flocked(d, fd[d])
  /\ Goto(d, "tick")
  /\ UNCHANGED <<files, floor, time, fd, sight, own, items, running, starts, faults, history>>

-----------------------------------------------------------------------------
(* `_write`: replace the driver's own entry.  A write that fails leaves    *)
(* the driver on per-run admission, with no peers, for good.               *)

Degrade(d) ==
  /\ failures < MaxFailures /\ failures' = failures + 1
  /\ degraded' = [degraded EXCEPT ![d] = TRUE]

Write(d, stamp, steps) ==
  \/ /\ ~degraded[d]
     /\ entry' = [entry EXCEPT ![d] = [since |-> stamp, live |-> steps, fresh |-> TRUE]]
     /\ KeepHistory
     /\ UNCHANGED <<degraded, failures>>
  \/ ~degraded[d] /\ Degrade(d) /\ UNCHANGED <<entry, history>>
  \/ degraded[d] /\ UNCHANGED <<entry, degraded, failures, history>>

Sees(d) == peers' = [peers EXCEPT ![d] = IF degraded'[d] THEN Blank ELSE @]

-----------------------------------------------------------------------------
(* `sync`: the steps that have exited are reaped, the floor is given back  *)
(* if its step was one of them, and every peer is read.                    *)

(* Mutant: the floor is given back at the next sync, step running or not.  *)
GivesBackEarly(d, steps) == floor = d

GivesBack(d, steps) == floor = d /\ steps = 0

BeginPass(d) ==
  /\ pc[d] = "tick"
  /\ live' = [live EXCEPT ![d] = running[d]]
  /\ IF GivesBack(d, running[d])
     THEN floor' = Nobody /\ since' = [since EXCEPT ![d] = 0]
     ELSE UNCHANGED <<floor, since>>
  /\ LET listed == {e \in Drivers \ {d} : ~degraded[d] /\ entry[e] # NoEntry} IN
       /\ todo' = [todo EXCEPT ![d] = listed]
       /\ peers' = [peers EXCEPT ![d] = Blank]
       /\ Goto(d, IF listed = {} THEN "items" ELSE "peers")
  /\ left' = [left EXCEPT ![d] = work[d]]
  /\ abreast' = abreast \ {d}
  /\ before' = before \cup {pair \in inpass : pair[1] = d}
  /\ inpass' = {pair \in inpass : pair[1] # d}
  /\ UNCHANGED <<files, clock, fd, probed, leaked, degraded, work, refused, running, starts,
                 faults>>

ReadOn(d, e) ==
  /\ todo' = [todo EXCEPT ![d] = @ \ {e}]
  /\ Goto(d, IF todo[d] = {e} THEN "items" ELSE "peers")

(* Mutant: a lock file that exists is a lock that is held.                 *)
HasLockFile(e) == lock[e] # 0

HeldElsewhere(e) == lock[e] # 0 /\ Flocked(e, lock[e])

(* A peer whose lock is held is believed.  One whose lock is free, or      *)
(* missing, is gone: its entry is about to be unlinked, under its lock if  *)
(* there is one.                                                           *)
ReadPeer(d, e) ==
  /\ pc[d] = "peers" /\ IsNext(d, e)
  /\ IF HeldElsewhere(e)
     THEN /\ peers' = [peers EXCEPT ![d][e] = entry[e]]
          /\ ReadOn(d, e) /\ UNCHANGED probed
     ELSE /\ probed' = [probed EXCEPT ![d] = lock[e]]
          /\ Goto(d, "remove") /\ UNCHANGED <<peers, todo>>
  /\ UNCHANGED <<files, floor, time, fd, leaked, own, items, running, starts, faults, history>>

RemoveEntry(d, e) ==
  /\ pc[d] = "remove" /\ IsNext(d, e)
  /\ entry' = [entry EXCEPT ![e] = NoEntry] /\ KeepHistory
  /\ probed' = [probed EXCEPT ![d] = 0]
  /\ ReadOn(d, e)
  /\ UNCHANGED <<lock, made, floor, time, fd, leaked, peers, own, items, running, starts, faults>>

(* A read or an unlink fails.  `_peer` closes the descriptor it probed     *)
(* with only after the unlink, so a failing one leaves it open.            *)
ReadFails(d) ==
  /\ pc[d] \in {"peers", "remove"} /\ Degrade(d)
  /\ leaked' = [leaked EXCEPT ![d] = @ \cup {<<e, probed[d]>> : e \in {o \in Drivers :
                  probed[d] # 0 /\ Probes(d, o, probed[d])}}]
  /\ peers' = [peers EXCEPT ![d] = Blank]
  /\ todo' = [todo EXCEPT ![d] = {}] /\ probed' = [probed EXCEPT ![d] = 0]
  /\ Goto(d, "items")
  /\ UNCHANGED <<files, floor, time, fd, since, live, items, running, starts, crashes, history>>

-----------------------------------------------------------------------------
(* `_verdict`, for one item after the other.                               *)

(* `ahead`: whether a peer queued before the driver and is still waiting.  *)
(* A driver not in the queue is behind everyone in it.                     *)
Precedes(e, stamp, d) ==
  \/ since[d] = 0 \/ stamp < since[d]
  \/ stamp = since[d] /\ e < d

(* Mutant: only the drivers of the queue defer to its head.                *)
QueuedAhead(d) ==
  since[d] # 0 /\ \E e \in Drivers : Waiting(peers[d][e]) /\ Precedes(e, peers[d][e].since, d)

Ahead(d) == \E e \in Drivers : Waiting(peers[d][e]) /\ Precedes(e, peers[d][e].since, d)

(* `queue`: a driver already in the queue keeps its place.  Two stamps can *)
(* be the same only if they are taken in passes that overlap.              *)
Queue(d) ==
  IF since[d] # 0
  THEN UNCHANGED <<entry, time, since, degraded, peers, failures, history>>
  ELSE \E now \in {clock + 1} \cup (IF d \in abreast THEN {clock} ELSE {}) :
         /\ now <= MaxClock /\ clock' = now
         /\ abreast' = IF now = clock THEN abreast ELSE {e \in Drivers : pc[e] \in InPass}
         /\ since' = [since EXCEPT ![d] = now]
         /\ Write(d, now, live[d]) /\ Sees(d)

Refuse(d) ==
  /\ refused' = [refused EXCEPT ![d] = TRUE]
  /\ left' = [left EXCEPT ![d] = @ - 1]
  /\ UNCHANGED work

(* Mutant: the pass goes on past the last item.                            *)
LooksOn(d) == pc[d] = "items"

Considers(d) == pc[d] = "items" /\ left[d] > 0

Defer(d) ==
  /\ Considers(d) /\ Ahead(d)
  /\ IF live[d] = 0 THEN Queue(d)
     ELSE UNCHANGED <<entry, time, since, degraded, peers, failures, history>>
  /\ Refuse(d)
  /\ UNCHANGED <<lock, made, floor, pc, fd, todo, probed, leaked, live, running, starts, crashes>>

HostAdmits(d) ==
  /\ Considers(d) /\ ~Ahead(d) /\ ~StarvedHost /\ live[d] < Pool
  /\ Goto(d, "confirm")
  /\ UNCHANGED <<files, floor, time, fd, sight, own, items, running, starts, faults, history>>

HostRefuses(d) ==
  /\ Considers(d) /\ ~Ahead(d) /\ live[d] > 0
  /\ Refuse(d)
  /\ UNCHANGED <<files, floor, time, pc, fd, sight, own, running, starts, faults, history>>

(* Refused with nothing running: the driver queues and tries the floor,    *)
(* which it has already if an item it was granted for started nothing.     *)
HostStarves(d) ==
  /\ Considers(d) /\ ~Ahead(d) /\ live[d] = 0
  /\ IF degraded[d] \/ floor = d
     THEN Goto(d, "confirm")
          /\ UNCHANGED <<entry, time, since, degraded, peers, failures, history>>
     ELSE Goto(d, "floor") /\ Queue(d)
  /\ UNCHANGED <<lock, made, floor, fd, todo, probed, leaked, live, items, running, starts, crashes>>

FloorIsDue(d) == ~Ahead(d) /\ \A e \in Drivers : peers[d][e].live = 0

TakeFloor(d) ==
  /\ pc[d] = "floor"
  /\ IF FloorIsDue(d) /\ floor = Nobody
     THEN floor' = d /\ Goto(d, "confirm") /\ UNCHANGED items
     ELSE Goto(d, "items") /\ Refuse(d) /\ UNCHANGED floor
  /\ UNCHANGED <<files, time, fd, sight, own, running, starts, faults, history>>

FloorFails(d) ==
  /\ pc[d] = "floor" /\ FloorIsDue(d) /\ Degrade(d)
  /\ peers' = [peers EXCEPT ![d] = Blank]
  /\ Goto(d, "confirm")
  /\ UNCHANGED <<files, floor, time, fd, todo, probed, leaked, since, live, items, running,
                 starts, crashes, history>>

-----------------------------------------------------------------------------
(* `_confirm` and `_start`: the item's need is asked for again, and the    *)
(* step started, or dropped if it is not needed any more.                  *)

Overtaken(d) == {<<d, e>> : e \in {o \in Drivers \ {d} : Waiting(entry[o])}}

Start(d) ==
  /\ pc[d] = "confirm"
  /\ live' = [live EXCEPT ![d] = @ + 1]
  /\ running' = [running EXCEPT ![d] = @ + 1]
  /\ work' = [work EXCEPT ![d] = @ - 1] /\ left' = [left EXCEPT ![d] = @ - 1]
  /\ inpass' = IF degraded[d] THEN inpass ELSE inpass \cup Overtaken(d)
  /\ Goto(d, "items")
  /\ UNCHANGED <<files, floor, time, fd, sight, since, degraded, refused, starts, faults,
                 before>>

Drop(d) ==
  /\ pc[d] = "confirm"
  /\ work' = [work EXCEPT ![d] = @ - 1] /\ left' = [left EXCEPT ![d] = @ - 1]
  /\ Goto(d, "items")
  /\ UNCHANGED <<files, floor, time, fd, sight, own, refused, running, starts, faults, history>>

(* `settle`: the pass is published; a driver no longer waiting leaves the  *)
(* queue.  What it read of its peers is read again before it is used.  The *)
(* tick ends with the driver when nothing runs and nothing is to be done.  *)
StillWaiting(d) == refused[d] /\ live[d] = 0

Settle(d) ==
  /\ pc[d] = "items" /\ left[d] = 0
  /\ since' = [since EXCEPT ![d] = IF StillWaiting(d) THEN @ ELSE 0]
  /\ Write(d, since'[d], live[d])
  /\ peers' = [peers EXCEPT ![d] = Blank]
  /\ refused' = [refused EXCEPT ![d] = FALSE]
  /\ Goto(d, IF work[d] = 0 /\ live[d] = 0 THEN "close" ELSE "tick")
  /\ UNCHANGED <<lock, made, floor, time, fd, todo, probed, leaked, live, work, left, running,
                 starts, crashes>>

-----------------------------------------------------------------------------
(* The end of a driver.  When its run is cancelled it makes no more pass,  *)
(* and leaves when its steps have exited.                                  *)

Cancel(d) ==
  /\ pc[d] = "tick"
  /\ Goto(d, "stopping")
  /\ UNCHANGED <<files, floor, time, fd, sight, own, items, running, starts, faults, history>>

Leave(d) ==
  /\ pc[d] = "stopping" /\ running[d] = 0
  /\ Goto(d, "close")
  /\ UNCHANGED <<files, floor, time, fd, sight, own, items, running, starts, faults, history>>

(* What a process leaves behind in memory, whichever way it goes.          *)
Forgets(d) ==
  /\ Goto(d, "off")
  /\ fd' = [fd EXCEPT ![d] = 0]
  /\ since' = [since EXCEPT ![d] = 0] /\ live' = [live EXCEPT ![d] = 0]
  /\ degraded' = [degraded EXCEPT ![d] = FALSE]
  /\ todo' = [todo EXCEPT ![d] = {}] /\ probed' = [probed EXCEPT ![d] = 0]
  /\ leaked' = [leaked EXCEPT ![d] = {}] /\ peers' = [peers EXCEPT ![d] = Blank]
  /\ left' = [left EXCEPT ![d] = 0] /\ refused' = [refused EXCEPT ![d] = FALSE]

(* `close`: the floor and the entry first, then the lock, still held.      *)
CloseEntry(d) ==
  /\ pc[d] = "close"
  /\ floor' = IF floor = d THEN Nobody ELSE floor
  /\ entry' = [entry EXCEPT ![d] = NoEntry] /\ KeepHistory
  /\ Goto(d, "unlock")
  /\ UNCHANGED <<lock, made, time, fd, sight, own, items, running, starts, faults>>

CloseLock(d) ==
  /\ pc[d] = "unlock"
  /\ lock' = [lock EXCEPT ![d] = 0]
  /\ Forgets(d)
  /\ inpass' = {pair \in inpass : pair[1] # d} /\ before' = {pair \in before : pair[1] # d}
  /\ UNCHANGED <<made, entry, floor, time, work, running, starts, faults>>

-----------------------------------------------------------------------------
(* Around the drivers.                                                     *)

StepExits(d) ==
  /\ running[d] > 0
  /\ running' = [running EXCEPT ![d] = @ - 1]
  /\ UNCHANGED <<files, floor, time, pc, fd, sight, own, items, starts, faults, history>>

(* SIGKILL: every descriptor is closed, every file stays.  Steps are in    *)
(* sessions of their own and go on, but nobody counts them any more.       *)
Kill(d) ==
  /\ pc[d] # "off" /\ crashes < MaxCrashes
  /\ crashes' = crashes + 1
  /\ Forgets(d)
  /\ floor' = IF floor = d THEN Nobody ELSE floor
  /\ running' = [running EXCEPT ![d] = 0]
  /\ inpass' = {pair \in inpass : pair[1] # d} /\ before' = {pair \in before : pair[1] # d}
  /\ UNCHANGED <<files, time, work, starts, failures>>

(* More than FRESH_SECONDS pass while a driver is busy: between passes     *)
(* (drained requests publish inline), within one (auto-publish, a slow     *)
(* confirmation), or when it writes no more.  What it read grows old too.  *)
Aged(e) == [since |-> e.since, live |-> e.live, fresh |-> FALSE]

Dawdle(d) ==
  /\ pc[d] \in SlowAt \cup {"stopping"} \/ degraded[d]
  /\ entry' = [entry EXCEPT ![d] = Aged(@)] /\ KeepHistory
  /\ peers' = [peers EXCEPT ![d] = [e \in Drivers |-> Aged(@[e])]]
  /\ UNCHANGED <<lock, made, floor, time, pc, fd, todo, probed, leaked, own, items, running,
                 starts, faults>>

-----------------------------------------------------------------------------
Step(d) ==
  \/ Register(d) \/ BeginPass(d)
  \/ \E e \in Drivers : ReadPeer(d, e) \/ RemoveEntry(d, e)
  \/ Defer(d) \/ HostAdmits(d) \/ HostRefuses(d) \/ HostStarves(d) \/ TakeFloor(d)
  \/ Start(d) \/ Drop(d) \/ Settle(d)
  \/ Leave(d) \/ CloseEntry(d) \/ CloseLock(d)

Fault(d) == Kill(d) \/ ReadFails(d) \/ FloorFails(d) \/ Dawdle(d)

Next == \E d \in Drivers : Open(d) \/ Step(d) \/ Cancel(d) \/ StepExits(d) \/ Fault(d)

Spec == Init /\ [][Next]_vars

(* A process that is not killed keeps running, and a step ends.            *)
Fairness == \A d \in Drivers : WF_vars(Step(d)) /\ WF_vars(StepExits(d))
FairSpec == Spec /\ Fairness

-----------------------------------------------------------------------------
TypeOK ==
  /\ lock \in [Drivers -> Nat] /\ made \in [Drivers -> Nat] /\ fd \in [Drivers -> Nat]
  /\ entry \in [Drivers -> Entries] /\ peers \in [Drivers -> [Drivers -> Entries]]
  /\ floor \in Drivers \cup {Nobody} /\ clock \in 0 .. MaxClock /\ abreast \subseteq Drivers
  /\ pc \in [Drivers -> PCs]
  /\ todo \in [Drivers -> SUBSET Drivers] /\ probed \in [Drivers -> Nat]
  /\ leaked \in [Drivers -> SUBSET (Drivers \X Nat)]
  /\ since \in [Drivers -> 0 .. MaxClock] /\ live \in [Drivers -> Nat]
  /\ degraded \in [Drivers -> BOOLEAN]
  /\ work \in [Drivers -> Nat] /\ left \in [Drivers -> Nat] /\ refused \in [Drivers -> BOOLEAN]
  /\ running \in [Drivers -> Nat]
  /\ starts \in [Drivers -> Nat] /\ crashes \in Nat /\ failures \in Nat
  /\ inpass \subseteq Drivers \X Drivers /\ before \subseteq Drivers \X Drivers

(* While the host has room for nothing, the drivers that share the         *)
(* registry run one step between them, not one each: the floor slot of the *)
(* module docstring.                                                       *)
OneStepWhenStarved ==
  StarvedHost =>
    \A d, e \in Drivers :
      running[d] > 0 /\ running[e] > 0 /\ ~degraded[d] /\ ~degraded[e]
        => d = e /\ running[d] = 1

(* A driver in the queue sees each other driver start steps in at most one *)
(* of its passes: the step the host has room for goes to the longest       *)
(* waiter, not to whichever driver looks first (`ahead`).                  *)
NoBarging == inpass \cap before = {}

(* Every driver that queued for the machine gets a turn, or leaves it      *)
(* without one: nobody waits for ever behind the others, dead, degraded or *)
(* blocked.                                                                *)
EveryWaiterGetsATurn == \A d \in Drivers : since[d] # 0 ~> since[d] = 0
=============================================================================
