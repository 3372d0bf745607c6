------------------------------- MODULE Children -------------------------------
(***************************************************************************)
(* The long-lived children of one process and the stop that ends them:     *)
(* src/ai/lib/core/children.py, the stop handler of core/proc.py and the   *)
(* owner of a Pi run in agent/backend_pi_rpc.py.                           *)
(*                                                                         *)
(* Every child leads a process group, as Pi does.  A leader may ignore     *)
(* SIGTERM; a member it started may too and hold one of the pipes its      *)
(* owner reads.  Workers and the main thread own children.  A stop signal  *)
(* runs a handler on the main thread, between any two of its steps; it     *)
(* snapshots the registry, sends TERM, arms a timer for KILL and raises    *)
(* SystemExit there.  A second signal kills and leaves with os._exit.      *)
(*                                                                         *)
(* A KILL that reaches a process ends it.                                  *)
(***************************************************************************)
EXTENDS Naturals, FiniteSets

CONSTANTS
  Workers,   \* threads of the pool
  Kids,      \* bound: the children that are ever started
  Members    \* what a leader may start in its group: "none", "quiet", or holding "out" or "err"

CONSTANT Main   \* the main thread

Threads == Workers \cup {Main}
\* What the constants may be: whoever instantiates this module assumes it.
ChildrenConstants ==
  /\ Main \notin Workers /\ IsFiniteSet(Kids)
  /\ Members \subseteq {"none", "quiet", "out", "err"}

VARIABLES
  kid,       \* per child: [leader, member, deaf]; deaf is ignoring SIGTERM
  live,      \* the registry `_live`
  lock,      \* who holds `_lock`: a thread or "free"
  pc,        \* per thread
  own,       \* per thread: the child it is about, or "none"
  signals,   \* stop signals still to come (bound: 2)
  stopping,  \* `_stopping`
  handler,   \* the handler on the main thread: "none", "snapshot" or "term"
  procs,     \* the children it found
  timer,     \* the KILL timer: [todo, aim], todo "off" until it is started
  freed,     \* ghost: children forgotten before the stop
  stranger   \* ghost: a signal went to a number no child has any more

vars == <<kid, live, lock, pc, own, signals, stopping, handler, procs, timer, freed, stranger>>

Born(k) == kid[k].leader # "unborn"
Alive == pc[Main] \notin {"exited", "killed"}

Init ==
  /\ kid = [k \in Kids |-> [leader |-> "unborn", member |-> "none", deaf |-> FALSE]]
  /\ live = {} /\ lock = "free" /\ freed = {}
  /\ pc = [t \in Threads |-> "idle"]
  /\ own = [t \in Threads |-> "none"]
  /\ signals = 2 /\ stopping = FALSE /\ handler = "none" /\ procs = {}
  /\ timer = [todo |-> {}, aim |-> "none"] /\ stranger = FALSE

-----------------------------------------------------------------------------
(* Signals to a group.                                                     *)

Terminated(c) == IF c.leader = "running" /\ ~c.deaf THEN [c EXCEPT !.leader = "zombie"] ELSE c
Killed(c) == [c EXCEPT !.leader = IF @ = "running" THEN "zombie" ELSE @, !.member = "none"]

\* `_signal` skips a child already reaped.  A zombie is not: its number is its
\* own until then, and names its group.
Exited(k) == kid[k].leader # "running"      \* Mutant: an exit is taken for the reaping.

Reaped(k) == kid[k].leader = "reaped"
TermAll(S) == kid' = [k \in Kids |-> IF k \in S /\ ~Reaped(k) THEN Terminated(kid[k]) ELSE kid[k]]
KillAll(S) == kid' = [k \in Kids |-> IF k \in S /\ ~Reaped(k) THEN Killed(kid[k]) ELSE kid[k]]

\* A leader ends by itself.
KidEnds(k) ==
  /\ Alive /\ kid[k].leader = "running"
  /\ kid' = [kid EXCEPT ![k].leader = "zombie"]
  /\ UNCHANGED <<live, lock, pc, own, signals, stopping, handler, procs, timer, freed, stranger>>

-----------------------------------------------------------------------------
(* An owner: spawn, read to the end, reap, read stderr, forget.            *)

\* The main thread runs its own code only while no handler runs on it.
Runs(t) == Alive /\ (t = Main => handler = "none")
Stay == UNCHANGED <<signals, stopping, handler, procs, timer, stranger>>

Go(t, at) == pc' = [pc EXCEPT ![t] = at]

TakeLock(t) ==
  /\ Runs(t) /\ pc[t] = "idle" /\ lock = "free"
  /\ \E k \in Kids : ~Born(k) /\ \A u \in Threads : own[u] # k
  /\ lock' = t /\ Go(t, "spawn")
  /\ UNCHANGED <<kid, live, own, freed>> /\ Stay

\* Mutant: the lock is taken for the record alone.
StartUnlocked(t) ==
  /\ Runs(t) /\ pc[t] = "spawn"
  /\ IF stopping
     THEN Go(t, "ended") /\ lock' = "free" /\ UNCHANGED <<kid, own>>
     ELSE \E k \in {j \in Kids : ~Born(j)}, m \in Members, d \in BOOLEAN :
            /\ kid' = [kid EXCEPT ![k] = [leader |-> "running", member |-> m, deaf |-> d]]
            /\ own' = [own EXCEPT ![t] = k]
            /\ Go(t, "born") /\ lock' = "free"
  /\ UNCHANGED <<live, freed>> /\ Stay

\* `_start_and_record`: the check and the start.
Start(t) ==
  /\ Runs(t) /\ pc[t] = "spawn"
  /\ IF stopping
     THEN Go(t, "ended") /\ lock' = "free" /\ UNCHANGED <<kid, own>>      \* StopRequested
     ELSE \E k \in {j \in Kids : ~Born(j)}, m \in Members, d \in BOOLEAN :
            /\ kid' = [kid EXCEPT ![k] = [leader |-> "running", member |-> m, deaf |-> d]]
            /\ own' = [own EXCEPT ![t] = k]
            /\ Go(t, "born") /\ UNCHANGED lock
  /\ UNCHANGED <<live, freed>> /\ Stay

Record(t) ==
  /\ Runs(t) /\ pc[t] = "born"
  /\ live' = live \cup {own[t]} /\ lock' = IF lock = t THEN "free" ELSE lock
  /\ Go(t, "spawned")
  /\ UNCHANGED <<kid, own, freed>> /\ Stay

\* The caller has the child and enters the block that owns it.
Enter(t) ==
  /\ Runs(t) /\ pc[t] = "spawned" /\ Go(t, "reading")
  /\ UNCHANGED <<kid, live, lock, own, freed>> /\ Stay

\* stdout ends when nobody holds it any more.
ReadEnds(t) ==
  /\ Runs(t) /\ pc[t] = "reading"
  /\ kid[own[t]].leader # "running" /\ kid[own[t]].member # "out"
  /\ Go(t, "waiting")
  /\ UNCHANGED <<kid, live, lock, own, freed>> /\ Stay

Reap(t) ==
  /\ Runs(t) /\ pc[t] = "waiting" /\ kid[own[t]].leader = "zombie"
  /\ kid' = [kid EXCEPT ![own[t]].leader = "reaped"] /\ Go(t, "stderr")
  /\ UNCHANGED <<live, lock, own, freed>> /\ Stay

ReadStderr(t) ==
  /\ Runs(t) /\ pc[t] = "stderr" /\ kid[own[t]].member # "err"
  /\ Go(t, "forget")
  /\ UNCHANGED <<kid, live, lock, own, freed>> /\ Stay

\* Mutant: the leader's end is taken for its group's.
NotSwept(k) == kid

\* During a stop the group of a reaped leader is swept.
Swept(k) == IF stopping /\ k \in live THEN [kid EXCEPT ![k].member = "none"] ELSE kid

Forget(t) ==
  /\ Runs(t) /\ pc[t] = "forget" /\ lock = "free"
  /\ live' = live \ {own[t]}
  /\ kid' = Swept(own[t])
  /\ freed' = IF stopping THEN freed ELSE freed \cup {own[t]}
  /\ own' = [own EXCEPT ![t] = "none"]
  /\ Go(t, IF t = Main /\ stopping THEN "shutdown" ELSE "idle")
  /\ UNCHANGED lock /\ Stay

\* A worker with nothing left to do; main waits for the pool.
NoMore(t) ==
  /\ Runs(t) /\ pc[t] = "idle" /\ \A k \in Kids : Born(k)
  /\ Go(t, IF t = Main THEN "shutdown" ELSE "ended")
  /\ UNCHANGED <<kid, live, lock, own, freed>> /\ Stay

-----------------------------------------------------------------------------
(* `terminate`, from the thread that owns the child.                       *)

TermOwn(t) ==
  /\ Runs(t) /\ pc[t] = "terminate" /\ TermAll({own[t]}) /\ Go(t, "grace")
  /\ UNCHANGED <<live, lock, own, freed>> /\ Stay

\* It went within the grace: reaped, and its group swept.
WentInGrace(t) ==
  /\ Runs(t) /\ pc[t] = "grace" /\ kid[own[t]].leader \in {"zombie", "reaped"} /\ lock = "free"
  /\ kid' = [kid EXCEPT ![own[t]].leader = "reaped", ![own[t]].member = "none"]
  /\ Go(t, "forget")
  /\ UNCHANGED <<live, lock, own, freed>> /\ Stay

GraceOver(t) ==
  /\ Runs(t) /\ pc[t] = "grace" /\ kid[own[t]].leader = "running" /\ kid[own[t]].deaf
  /\ KillAll({own[t]}) /\ Go(t, "waitkilled")
  /\ UNCHANGED <<live, lock, own, freed>> /\ Stay

ReapKilled(t) ==
  /\ Runs(t) /\ pc[t] = "waitkilled"
  /\ kid' = [kid EXCEPT ![own[t]].leader = "reaped"] /\ Go(t, "forget")
  /\ UNCHANGED <<live, lock, own, freed>> /\ Stay

\* `_abandon`: a child that exists when `spawn` unwinds is recorded first.
Abandon(t) ==
  /\ Runs(t) /\ pc[t] = "abandon"
  /\ live' = live \cup {own[t]} /\ Go(t, "terminate")
  /\ UNCHANGED <<kid, lock, own, freed>> /\ Stay

-----------------------------------------------------------------------------
(* The stop.                                                               *)

\* A stop signal: the handler sets the event.  A repeated one finds it set.
Signal ==
  /\ signals > 0 /\ Alive /\ handler = "none" /\ ~stopping
  /\ signals' = signals - 1 /\ stopping' = TRUE /\ handler' = "snapshot"
  /\ UNCHANGED <<kid, live, lock, pc, own, procs, timer, freed, stranger>>

\* `live()` waits for a worker that is between its check and its record; on
\* the main thread's own lock it does not wait, for the lock is reentrant.
Free == lock \in {"free", Main}

Snapshot ==
  /\ handler = "snapshot" /\ Alive /\ Free
  /\ procs' = live /\ handler' = "term"
  /\ UNCHANGED <<kid, live, lock, pc, own, signals, stopping, timer, freed, stranger>>

\* Where SystemExit takes the main thread from each of its steps.
Unwound ==
  CASE pc[Main] = "born"                                 -> "abandon"
    [] pc[Main] \in {"reading", "waiting", "stderr"}     -> "terminate"
    [] OTHER                                             -> "shutdown"

TermEach ==
  /\ handler = "term" /\ Alive
  /\ TermAll(procs) /\ timer' = [timer EXCEPT !.todo = procs]
  /\ handler' = "none" /\ pc' = [pc EXCEPT ![Main] = Unwound]
  /\ lock' = IF lock = Main THEN "free" ELSE lock
  /\ UNCHANGED <<live, own, signals, stopping, procs, freed, stranger>>

\* The timer, once the grace is over: one child after the other, first the
\* look at its return code, then the signal.
TimerLooks(k) ==
  /\ Alive /\ k \in timer.todo /\ timer.aim = "none"
  /\ timer' = [todo |-> timer.todo \ {k}, aim |-> IF Reaped(k) THEN "none" ELSE k]
  /\ UNCHANGED <<kid, live, lock, pc, own, signals, stopping, handler, procs, freed, stranger>>

TimerKills ==
  /\ Alive /\ timer.aim # "none" /\ Free
  /\ kid' = [kid EXCEPT ![timer.aim] = Killed(@)]
  /\ stranger' = (stranger \/ (Reaped(timer.aim) /\ kid[timer.aim].member = "none"))
  /\ timer' = [timer EXCEPT !.aim = "none"]
  /\ UNCHANGED <<live, lock, pc, own, signals, stopping, handler, procs, freed>>

\* A repeated stop kills what is recorded and leaves at once.
SignalAgain ==
  /\ signals > 0 /\ Alive /\ stopping /\ Free
  /\ signals' = signals - 1
  /\ KillAll(live) /\ Go(Main, "killed")
  /\ UNCHANGED <<live, lock, own, stopping, handler, procs, timer, freed, stranger>>

\* The pool is joined, then `_terminate_survivors` stops at exit what is still
\* recorded, each child within its own grace.
Shutdown ==
  /\ Runs(Main) /\ pc[Main] = "shutdown" /\ \A w \in Workers : pc[w] = "ended"
  /\ Go(Main, "atexit")
  /\ UNCHANGED <<kid, live, lock, own, freed>> /\ Stay

Exit ==
  /\ Runs(Main) /\ pc[Main] = "atexit"
  /\ kid' = [k \in Kids |-> IF k \in live THEN [kid[k] EXCEPT !.leader = "reaped", !.member = "none"] ELSE kid[k]]
  /\ Go(Main, "exited")
  /\ UNCHANGED <<live, lock, own, freed>> /\ Stay

Done == ~Alive /\ UNCHANGED vars

-----------------------------------------------------------------------------
Steps(t) ==
  \/ TakeLock(t) \/ Start(t) \/ Record(t) \/ Enter(t) \/ ReadEnds(t) \/ Reap(t) \/ ReadStderr(t)
  \/ Forget(t) \/ NoMore(t) \/ TermOwn(t) \/ WentInGrace(t) \/ GraceOver(t) \/ ReapKilled(t) \/ Abandon(t)

Handler == Snapshot \/ TermEach
Timer == TimerKills \/ \E k \in Kids : TimerLooks(k)

Next ==
  \/ \E k \in Kids : KidEnds(k)
  \/ \E t \in Threads : Steps(t)
  \/ Signal \/ Handler \/ Timer \/ SignalAgain \/ Shutdown \/ Exit \/ Done

Spec == Init /\ [][Next]_vars

\* Threads, handler and timer are scheduled; agents need not end by themselves.
FairSpec ==
  /\ Spec
  /\ \A t \in Threads : WF_vars(Steps(t))
  /\ WF_vars(Handler) /\ WF_vars(Timer) /\ WF_vars(Shutdown) /\ WF_vars(Exit)

-----------------------------------------------------------------------------
Pcs == {"idle", "spawn", "born", "spawned", "reading", "waiting", "stderr", "forget", "ended", "terminate",
        "grace", "waitkilled", "abandon", "shutdown", "atexit", "exited", "killed"}

TypeOK ==
  /\ kid \in [Kids -> [leader : {"unborn", "running", "zombie", "reaped"},
                       member : {"none", "quiet", "out", "err"}, deaf : BOOLEAN]]
  /\ live \subseteq Kids /\ procs \subseteq Kids /\ freed \subseteq Kids
  /\ lock \in Threads \cup {"free"} /\ pc \in [Threads -> Pcs] /\ own \in [Threads -> Kids \cup {"none"}]
  /\ signals \in 0 .. 2 /\ stopping \in BOOLEAN /\ stranger \in BOOLEAN
  /\ handler \in {"none", "snapshot", "term"}
  /\ timer.todo \subseteq Kids /\ timer.aim \in Kids \cup {"none"}
  /\ \A t \in Threads : Alive => (pc[t] \in {"spawn", "born"} <=> lock = t)

\* Once the handler has sent its TERM, a child that still runs was among those
\* it reached, or is the one whose start the handler interrupted.
NoneMissed ==
  stopping /\ handler = "none" /\ Alive
    => \A k \in Kids : kid[k].leader = "running" => k \in procs \/ own[Main] = k

\* A stopped process that unwinds to its exit leaves nothing of a child it had
\* not forgotten before the stop: no leader, no member of its group.
NoneLeft ==
  stopping /\ pc[Main] = "exited"
    => \A k \in Kids \ freed : kid[k].leader # "running" /\ kid[k].member = "none"

\* A stop ends the process.
StopEnds == stopping ~> ~Alive

-----------------------------------------------------------------------------
(* What the sources say and the code does not do.                          *)

\* proc.py:206-208: on a repeated stop the children are killed outright.  The
\* start the second signal interrupts is the exception children.py names.
KilledOutright ==
  pc[Main] = "killed" => \A k \in Kids \ freed :
    (kid[k].leader # "running" /\ kid[k].member = "none") \/ own[Main] = k

\* children.py, `_signal`: a child already reaped is skipped, for a signal sent
\* by number would land on a stranger.
NoStranger == ~stranger
=============================================================================
