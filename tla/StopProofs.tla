----------------------------- MODULE StopProofs -----------------------------
(***************************************************************************)
(* What holds of the things that are stopped for any number of threads,    *)
(* children, signals and lines: the covered suite of Relay, the result of  *)
(* ProcRun, the children of Children, the verdict of PiStream, the rounds  *)
(* of ReviewRun.  Each part has an inductive invariant of its own; the     *)
(* others' steps leave its variables alone.                                *)
(***************************************************************************)
EXTENDS ProcessStops, Naturals, Sequences, FiniteSets, TLAPS

LEMMA OnePartMoves ==
  [Next]_vars =>
    /\ [Stop!Next]_Stop!vars /\ [Command!Next]_Command!vars /\ [Signals!Next]_Signals!vars
    /\ [Agent!Next]_Agent!vars /\ [Review!Next]_Review!vars
BY DEF Next, vars, stopVars, commandVars, signalsVars, agentVars, reviewVars,
       Stop!vars, Command!vars, Signals!vars, Agent!vars, Review!vars

LEMMA EveryPartStarts ==
  Init => Stop!Init /\ Command!Init /\ Signals!Init /\ Agent!Init /\ Review!Init
BY DEF Init
-----------------------------------------------------------------------------
(* Relay: the suite and the locks of its wrappers.                         *)

WrapperPCs ==
  {"absent", "lock", "install", "spawn", "name", "detach", "replay", "wait", "restore", "release", "gone"}

(* A wrapper that has a child, whose handlers are all in place.            *)
Up == {"name", "detach", "replay", "wait"}

RelayTypes ==
  /\ signalsPc \in [Signals!Levels -> WrapperPCs]
  /\ handles \in [Signals!Levels -> SUBSET Sigs]
  /\ held \in [Signals!Levels -> BOOLEAN]
  /\ suite \in [st : {"absent", "running", "zombie"}, deaf : BOOLEAN, told : BOOLEAN]
  /\ replay \in [Signals!Levels -> SUBSET Sigs] /\ pending \in [Signals!Levels -> SUBSET Sigs]

(* The outer wrapper is up as long as the inner one lives, the inner one   *)
(* as long as the suite runs, and a wrapper that is up heeds no signal     *)
(* itself.                                                                 *)
RelayInv ==
  /\ RelayTypes
  /\ \A l \in Signals!Levels :
       /\ signalsPc[l] \in Up \cup {"spawn"} => handles[l] = Sigs
       /\ signalsPc[l] \in Up \cup {"spawn", "install"} => held[l]
  /\ signalsPc[2] \notin {"absent", "gone"} => signalsPc[1] \in Up
  /\ suite.st = "running" => signalsPc[2] \in Up

LEMMA RelayInit == Signals!Init => RelayInv
BY DEF Signals!Init, RelayInv, RelayTypes, Signals!Levels, WrapperPCs, Up

(* What a signal that gets to the inner wrapper leaves true.               *)
LEMMA InnerStops ==
  ASSUME RelayInv, NEW s \in Sigs, Signals!ToInner(s), UNCHANGED replay PROVE RelayInv'
<1> USE DEF RelayInv, Signals!Levels, Up
<1>1. CASE ~Signals!Lives(2)
  BY <1>1 DEF Signals!ToInner, RelayTypes
<1>2. CASE Signals!Lives(2) /\ s \notin handles[2]
  <2>1. signalsPc' = [signalsPc EXCEPT ![2] = "gone"] /\ held' = [held EXCEPT ![2] = FALSE]
        /\ UNCHANGED <<handles, pending, suite>>
    BY <1>2 DEF Signals!ToInner, Signals!Dies
  <2>2. suite.st # "running"
    BY <1>2
  <2> QED BY <2>1, <2>2 DEF RelayTypes, WrapperPCs
<1>3. CASE Signals!Lives(2) /\ s \in handles[2] /\ named[2]
  <2>1. UNCHANGED <<signalsPc, held, handles, pending>> /\ Signals!Suited(s)
    BY <1>3 DEF Signals!ToInner, Signals!ToSuite
  <2>2. suite' \in [st : {"absent", "running", "zombie"}, deaf : BOOLEAN, told : BOOLEAN]
        /\ (suite'.st = "running" => suite.st = "running")
    BY <2>1 DEF Signals!Suited, RelayTypes
  <2> QED BY <2>1, <2>2 DEF RelayTypes
<1>4. CASE Signals!Lives(2) /\ s \in handles[2] /\ ~named[2]
  BY <1>4 DEF Signals!ToInner, Signals!Records, RelayTypes
<1> QED BY <1>1, <1>2, <1>3, <1>4

LEMMA SignalArrives ==
  ASSUME RelayInv, NEW s \in Sigs, Signals!Signal(s) PROVE RelayInv'
<1> USE DEF RelayInv, Signals!Levels, Up
<1>0. Signals!Lives(1)
  BY DEF Signals!Signal
<1>1. CASE s \notin handles[1]
  <2>1. signalsPc' = [signalsPc EXCEPT ![1] = "gone"] /\ held' = [held EXCEPT ![1] = FALSE]
        /\ UNCHANGED <<handles, pending, replay, suite>>
    BY <1>1 DEF Signals!Signal, Signals!ToOuter, Signals!Dies
  <2>2. signalsPc[2] \in {"absent", "gone"} /\ suite.st # "running"
    BY <1>1
  <2> QED BY <2>1, <2>2 DEF RelayTypes, WrapperPCs
<1>2. CASE s \in handles[1] /\ named[1]
  <2>1. Signals!ToInner(s)
    BY <1>2 DEF Signals!Signal, Signals!ToOuter
  <2>2. UNCHANGED replay
    BY <2>1 DEF Signals!ToInner, Signals!Dies, Signals!ToSuite, Signals!Records
  <2> QED BY <2>1, <2>2, InnerStops
<1>3. CASE s \in handles[1] /\ ~named[1]
  BY <1>3 DEF Signals!Signal, Signals!ToOuter, Signals!Records, RelayTypes
<1> QED BY <1>1, <1>2, <1>3

LEMMA WrapperMoves ==
  ASSUME RelayInv, NEW l \in Signals!Levels, Signals!Wrapper(l) PROVE RelayInv'
<1> USE DEF RelayInv, Signals!Go, Signals!Outside
<1>0. RelayTypes /\ Signals!Levels = {1, 2}
  BY DEF Signals!Levels
<1>1. CASE Signals!Lock(l)
  BY <1>0, <1>1 DEF Signals!Lock, RelayTypes, WrapperPCs, Up
<1>2. CASE Signals!Install(l)
  <2>1. CASE handles[l] = Sigs
    BY <1>0, <1>2, <2>1 DEF Signals!Install, RelayTypes, WrapperPCs, Up
  <2>2. CASE handles[l] # Sigs
    BY <1>0, <1>2, <2>2 DEF Signals!Install, RelayTypes, WrapperPCs, Up
  <2> QED BY <2>1, <2>2
<1>3. CASE Signals!Spawn(l)
  <2>1. CASE signalsPc' = [signalsPc EXCEPT ![l] = "restore"] /\ UNCHANGED suite
    BY <1>0, <1>3, <2>1 DEF Signals!Spawn, RelayTypes, WrapperPCs, Up
  <2>2. CASE l = 1 /\ signalsPc' = [signalsPc EXCEPT ![1] = "name", ![2] = "lock"] /\ UNCHANGED suite
    BY <1>0, <1>3, <2>2 DEF Signals!Spawn, RelayTypes, WrapperPCs, Up
  <2>3. CASE l = 2 /\ signalsPc' = [signalsPc EXCEPT ![2] = "name"] /\ suite' = [suite EXCEPT !.st = "running"]
    BY <1>0, <1>3, <2>3 DEF Signals!Spawn, RelayTypes, WrapperPCs, Up
  <2> QED BY <1>0, <1>3, <2>1, <2>2, <2>3 DEF Signals!Spawn
<1>4. CASE Signals!Name(l)
  BY <1>0, <1>4 DEF Signals!Name, RelayTypes, WrapperPCs, Up
<1>5. CASE Signals!Detach(l)
  BY <1>0, <1>5 DEF Signals!Detach, RelayTypes, WrapperPCs, Up
<1>6. CASE Signals!Replayed(l)
  BY <1>0, <1>6 DEF Signals!Replayed, RelayTypes, WrapperPCs, Up
<1>7. CASE Signals!Wait(l)
  BY <1>0, <1>7 DEF Signals!Wait, Signals!ChildOver, RelayTypes, WrapperPCs, Up
<1>8. CASE Signals!Restore(l)
  <2>1. CASE handles[l] = {}
    BY <1>0, <1>8, <2>1 DEF Signals!Restore, RelayTypes, WrapperPCs, Up
  <2>2. CASE handles[l] # {}
    BY <1>0, <1>8, <2>2 DEF Signals!Restore, RelayTypes, WrapperPCs, Up
  <2> QED BY <2>1, <2>2
<1>9. CASE Signals!Release(l)
  BY <1>0, <1>9 DEF Signals!Release, RelayTypes, WrapperPCs, Up
<1> QED BY <1>1, <1>2, <1>3, <1>4, <1>5, <1>6, <1>7, <1>8, <1>9 DEF Signals!Wrapper

LEMMA RelayStep ==
  ASSUME RelayInv, [Signals!Next]_Signals!vars PROVE RelayInv'
<1> USE DEF RelayInv
<1>0. RelayTypes /\ Signals!Levels = {1, 2}
  BY DEF Signals!Levels
<1>1. CASE UNCHANGED Signals!vars
  BY <1>1 DEF Signals!vars, RelayTypes
<1>2. CASE Signals!ReplayOuter
  <2>1. PICK s \in replay[1] :
          /\ replay' = [replay EXCEPT ![1] = @ \ {s}]
          /\ \/ UNCHANGED <<signalsPc, held, pending, suite>>
             \/ /\ Signals!Lives(2) /\ s \notin handles[2] /\ UNCHANGED <<pending, suite>>
                /\ signalsPc' = [signalsPc EXCEPT ![2] = "gone"] /\ held' = [held EXCEPT ![2] = FALSE]
             \/ Signals!Suited(s) /\ UNCHANGED <<signalsPc, held, pending>>
             \/ pending' = [pending EXCEPT ![2] = @ \cup {s}] /\ UNCHANGED <<signalsPc, held, suite>>
    BY <1>2 DEF Signals!ReplayOuter, Signals!Go
  <2>2. UNCHANGED handles
    BY <1>2 DEF Signals!ReplayOuter
  <2>3. s \in Sigs /\ replay' \in [Signals!Levels -> SUBSET Sigs]
    BY <1>0, <2>1 DEF RelayTypes
  <2>4. CASE UNCHANGED <<signalsPc, held, pending, suite>>
    BY <2>2, <2>3, <2>4 DEF RelayTypes
  <2>5. CASE /\ Signals!Lives(2) /\ s \notin handles[2] /\ UNCHANGED <<pending, suite>>
             /\ signalsPc' = [signalsPc EXCEPT ![2] = "gone"] /\ held' = [held EXCEPT ![2] = FALSE]
    <3>1. suite.st # "running"
      BY <1>0, <2>3, <2>5
    <3> QED BY <1>0, <2>2, <2>3, <2>5, <3>1 DEF RelayTypes, WrapperPCs, Up
  <2>6. CASE Signals!Suited(s) /\ UNCHANGED <<signalsPc, held, pending>>
    <3>1. suite' \in [st : {"absent", "running", "zombie"}, deaf : BOOLEAN, told : BOOLEAN]
          /\ (suite'.st = "running" => suite.st = "running")
      BY <2>6 DEF Signals!Suited, RelayTypes
    <3> QED BY <2>2, <2>3, <2>6, <3>1 DEF RelayTypes
  <2>7. CASE pending' = [pending EXCEPT ![2] = @ \cup {s}] /\ UNCHANGED <<signalsPc, held, suite>>
    BY <1>0, <2>2, <2>3, <2>7 DEF RelayTypes
  <2> QED BY <2>1, <2>4, <2>5, <2>6, <2>7
<1>3. CASE Signals!ReplayInner
  <2>1. PICK s \in replay[2] : replay' = [replay EXCEPT ![2] = @ \ {s}] /\ Signals!Suited(s)
    BY <1>3 DEF Signals!ReplayInner
  <2>2. UNCHANGED <<signalsPc, held, pending, handles>>
    BY <1>3 DEF Signals!ReplayInner
  <2>3. suite' \in [st : {"absent", "running", "zombie"}, deaf : BOOLEAN, told : BOOLEAN]
        /\ (suite'.st = "running" => suite.st = "running")
    BY <2>1 DEF Signals!Suited, RelayTypes
  <2> QED BY <1>0, <2>1, <2>2, <2>3 DEF RelayTypes
<1>4. CASE Signals!SuiteEnds
  BY <1>4 DEF Signals!SuiteEnds, RelayTypes
<1>5. CASE Signals!HeirEnds
  BY <1>5 DEF Signals!HeirEnds, RelayTypes
<1> QED BY <1>1, <1>2, <1>3, <1>4, <1>5, SignalArrives, WrapperMoves DEF Signals!Next

(* signal_relay.py: however many signals come, at whatever steps of the    *)
(* two wrappers, a suite that runs has the tree lock and its slots held.   *)
THEOREM SuiteIsAlwaysCovered == Spec => []SuiteIsCovered
<1>1. Init => RelayInv
  BY EveryPartStarts, RelayInit
<1>2. RelayInv /\ [Next]_vars => RelayInv'
  BY OnePartMoves, RelayStep
<1>3. RelayInv => SuiteIsCovered
  BY DEF RelayInv, SuiteIsCovered, Signals!SuiteIsCovered, Up, Signals!Levels
<1> QED BY <1>1, <1>2, <1>3, PTL DEF Spec
-----------------------------------------------------------------------------
(* ProcRun: what was shown and what is returned.                           *)

ChildStates == [st : {"running", "zombie", "reaped"}, deaf : BOOLEAN, stuck : BOOLEAN]

CommandTypes ==
  /\ child \in ChildStates
  /\ pipe \in [Command!Pumps -> SUBSET Nat] /\ written \in Nat
  /\ pump \in [Command!Pumps -> [pc : {"read", "got", "kept", "write", "done"}, line : Nat]]
  /\ tee \in [detached : BOOLEAN, lock : Command!Pumps \cup {"free"}]
  /\ main \in [pc : {"wait", "grace", "join", "detach", "note", "build", "returned"},
               expired : BOOLEAN, note : BOOLEAN, survivors : BOOLEAN]

(* A line is kept before it is shown, and from the detach on no pump       *)
(* begins to show one: what a blocked pump has in hand was kept in time.   *)
CommandInv ==
  /\ CommandTypes
  /\ relayed \subseteq parts
  /\ \A p \in Command!Pumps : pump[p].pc \in {"kept", "write"} => pump[p].line \in parts
  /\ main.pc \in {"note", "build", "returned"} => tee.detached
  /\ main.pc = "returned" =>
       relayed \subseteq result /\ \A p \in Command!Pumps : pump[p].pc = "write" => pump[p].line \in result

LEMMA CommandInit == Command!Init => CommandInv
BY DEF Command!Init, CommandInv, CommandTypes, Command!Pumps, ChildStates

LEMMA PumpMoves ==
  ASSUME CommandInv, NEW p \in Command!Pumps,
         Command!ReadLine(p) \/ Command!Keep(p) \/ Command!Show(p) \/ Command!Shown(p)
  PROVE  CommandInv'
<1> USE DEF CommandInv, Command!PumpAt, Command!Machine, Command!Line, Command!Returned
<1>0. CommandTypes /\ pump[p] \in [pc : {"read", "got", "kept", "write", "done"}, line : Nat]
  BY DEF CommandTypes
<1>1. UNCHANGED <<main, result, written, child>>
  BY DEF Command!ReadLine, Command!Keep, Command!Show, Command!Shown
<1>2. CASE Command!ReadLine(p)
  <2>1. UNCHANGED <<parts, relayed, tee>>
    BY <1>2 DEF Command!ReadLine
  <2>2. PICK e \in [pc : {"got", "done"}, line : Nat] : pump' = [pump EXCEPT ![p] = e]
    <3>1. ASSUME NEW l \in pipe[p], pump' = [pump EXCEPT ![p] = [pc |-> "got", line |-> l]]
          PROVE  \E e \in [pc : {"got", "done"}, line : Nat] : pump' = [pump EXCEPT ![p] = e]
      BY <1>0, <3>1 DEF CommandTypes
    <3>2. ASSUME pump' = [pump EXCEPT ![p].pc = "done"]
          PROVE  \E e \in [pc : {"got", "done"}, line : Nat] : pump' = [pump EXCEPT ![p] = e]
      <4>1. [pump[p] EXCEPT !.pc = "done"] \in [pc : {"got", "done"}, line : Nat]
        BY <1>0
      <4> QED BY <3>2, <4>1
    <3> QED BY <1>2, <3>1, <3>2 DEF Command!ReadLine
  <2>3. pipe' \in [Command!Pumps -> SUBSET Nat]
    BY <1>0, <1>2 DEF Command!ReadLine, CommandTypes
  <2> QED BY <1>0, <1>1, <2>1, <2>2, <2>3 DEF CommandTypes
<1>3. CASE Command!Keep(p)
  <2>1. pump[p].pc = "got" /\ UNCHANGED <<pipe, relayed, tee>>
        /\ \/ pump' = [pump EXCEPT ![p].pc = "read"] /\ UNCHANGED parts
           \/ pump' = [pump EXCEPT ![p].pc = "kept"] /\ parts' = parts \cup {pump[p].line}
    BY <1>3 DEF Command!Keep
  <2> QED BY <1>0, <1>1, <2>1 DEF CommandTypes
<1>4. CASE Command!Show(p)
  <2>1. pump[p].pc = "kept" /\ UNCHANGED <<pipe, parts, relayed>>
        /\ \/ tee.detached /\ pump' = [pump EXCEPT ![p].pc = "read"] /\ UNCHANGED tee
           \/ ~tee.detached /\ pump' = [pump EXCEPT ![p].pc = "write"] /\ tee' = [tee EXCEPT !.lock = p]
    BY <1>4 DEF Command!Show
  <2>2. CASE tee.detached /\ pump' = [pump EXCEPT ![p].pc = "read"] /\ UNCHANGED tee
    BY <1>0, <1>1, <2>1, <2>2 DEF CommandTypes
  <2>3. CASE ~tee.detached /\ pump' = [pump EXCEPT ![p].pc = "write"] /\ tee' = [tee EXCEPT !.lock = p]
    BY <1>0, <1>1, <2>1, <2>3 DEF CommandTypes
  <2> QED BY <2>1, <2>2, <2>3
<1>5. CASE Command!Shown(p)
  <2>1. pump[p].pc = "write" /\ relayed' = relayed \cup {pump[p].line} /\ UNCHANGED <<pipe, parts>>
        /\ tee' = [tee EXCEPT !.lock = "free"] /\ pump' = [pump EXCEPT ![p].pc = "read"]
    BY <1>5 DEF Command!Shown
  <2> QED BY <1>0, <1>1, <2>1 DEF CommandTypes
<1> QED BY <1>2, <1>3, <1>4, <1>5

LEMMA CommandStep ==
  ASSUME CommandInv, [Command!Next]_Command!vars PROVE CommandInv'
<1> USE DEF CommandInv
<1>0. CommandTypes
  OBVIOUS
<1>1. ASSUME UNCHANGED <<pump, parts, relayed, tee, main, result>>,
             child' \in ChildStates,
             pipe' \in [Command!Pumps -> SUBSET Nat], written' \in Nat
      PROVE  CommandInv'
  BY <1>1 DEF CommandTypes
<1>2. CASE UNCHANGED Command!vars
  BY <1>0, <1>1, <1>2 DEF Command!vars, CommandTypes
<1>3. ASSUME NEW p \in Command!Pumps, Command!Write(p) PROVE CommandInv'
  BY <1>0, <1>1, <1>3 DEF Command!Write, CommandTypes
<1>4. CASE Command!ChildEnds \/ Command!Jam
  BY <1>0, <1>1, <1>4 DEF Command!ChildEnds, Command!Jam, CommandTypes, ChildStates
<1>5. ASSUME UNCHANGED <<pipe, written, pump, parts, relayed, tee, result>>,
             child' \in ChildStates,
             main' \in [pc : {"wait", "grace", "join", "detach"}, expired : BOOLEAN, note : BOOLEAN, survivors : BOOLEAN]
      PROVE  CommandInv'
  BY <1>5 DEF CommandTypes
<1>6. CASE Command!Expire \/ Command!WaitEnds \/ Command!WentInGrace \/ Command!JoinEnds
  <2>1. UNCHANGED <<pipe, written, pump, parts, relayed, tee, result>>
    BY <1>6 DEF Command!Expire, Command!WaitEnds, Command!WentInGrace, Command!JoinEnds, Command!Threads
  <2>2. main' \in [pc : {"wait", "grace", "join", "detach"}, expired : BOOLEAN, note : BOOLEAN, survivors : BOOLEAN]
    BY <1>0, <1>6 DEF Command!Expire, Command!WaitEnds, Command!WentInGrace, Command!JoinEnds, Command!At,
       CommandTypes
  <2>3. child' \in ChildStates
    BY <1>0, <1>6 DEF Command!Expire, Command!WaitEnds, Command!WentInGrace, Command!JoinEnds, CommandTypes,
       ChildStates
  <2> QED BY <1>5, <2>1, <2>2, <2>3
<1>7. CASE Command!Kill
  <2>1. UNCHANGED <<pipe, written, pump, parts, relayed, tee, result>>
    BY <1>7 DEF Command!Kill, Command!Threads
  <2>2. main' = [main EXCEPT !.pc = "join", !.survivors = child.stuck]
        /\ child' = IF child.stuck THEN child ELSE [child EXCEPT !.st = "reaped"]
    BY <1>7 DEF Command!Kill
  <2>3. child' \in ChildStates /\ child.stuck \in BOOLEAN
    BY <1>0, <2>2 DEF CommandTypes, ChildStates
  <2> QED BY <1>0, <1>5, <2>1, <2>2, <2>3 DEF CommandTypes
<1>8. CASE Command!Detach
  BY <1>0, <1>8 DEF Command!Detach, Command!At, Command!Threads, CommandTypes
<1>9. CASE Command!Note
  BY <1>0, <1>9 DEF Command!Note, Command!Threads, CommandTypes
<1>10. CASE Command!Return
  BY <1>0, <1>10 DEF Command!Return, Command!At, Command!Threads, CommandTypes
<1> QED BY <1>2, <1>3, <1>4, <1>6, <1>7, <1>8, <1>9, <1>10, PumpMoves DEF Command!Next

(* proc.py, `_pump`: whatever outlives the child and whoever blocks the    *)
(* relay, a line that was shown is in the result that was returned.        *)
THEOREM ShownIsAlwaysKept == Spec => []ShownIsKept
<1>1. Init => CommandInv
  BY EveryPartStarts, CommandInit
<1>2. CommandInv /\ [Next]_vars => CommandInv'
  BY OnePartMoves, CommandStep
<1>3. CommandInv => ShownIsKept
  BY DEF CommandInv, ShownIsKept, Command!ShownIsKept, Command!Returned
<1> QED BY <1>1, <1>2, <1>3, PTL DEF Spec
-----------------------------------------------------------------------------
(* Children: what a stopped process leaves behind.                         *)

KidStates == [leader : {"unborn", "running", "zombie", "reaped"}, member : Members \cup {"none"}, deaf : BOOLEAN]

Owning == {"born", "spawned", "reading", "waiting", "stderr", "forget", "terminate", "grace", "waitkilled",
           "abandon"}

Quiet(k) == kid[k].leader \in {"unborn", "reaped"} /\ kid[k].member = "none"

\* Started and not recorded yet: its owner will record it.
Unrecorded(k) == \E t \in Stop!Threads : own[t] = k /\ stopPc[t] \in {"born", "abandon"}

StopTypes ==
  /\ kid \in [Kids -> KidStates] /\ live \subseteq Kids
  /\ stopPc \in [Stop!Threads -> Stop!Pcs] /\ own \in [Stop!Threads -> Kids \cup {"none"}]

(* A child is about one owner, and one that is not forgotten is in the     *)
(* registry, is quiet, or is about to be recorded.  At exit the pool has   *)
(* been joined, so nobody is about to record one.                          *)
StopInv ==
  /\ StopTypes
  /\ \A t \in Stop!Threads : stopPc[t] \in Owning => own[t] \in Kids /\ kid[own[t]].leader # "unborn"
  /\ \A t, u \in Stop!Threads : t # u /\ stopPc[t] \in Owning /\ stopPc[u] \in Owning => own[t] # own[u]
  /\ \A t \in Stop!Threads : stopPc[t] \in {"stderr", "forget"} => kid[own[t]].leader = "reaped"
  /\ handler # "none" => stopping
  /\ stopPc[Main] = "abandon" => stopping /\ handler = "none"
  /\ stopPc[Main] \in {"atexit", "exited"} => \A w \in Workers : stopPc[w] = "ended"
  /\ Stop!Alive => \A k \in Kids \ freed : k \in live \/ Quiet(k) \/ Unrecorded(k)
  /\ stopPc[Main] = "exited" => \A k \in Kids \ freed : Quiet(k)

(* What every step but a start does to the children.                       *)
Onward ==
  /\ kid' \in [Kids -> KidStates]
  /\ \A k \in Kids :
       /\ kid[k].leader # "unborn" => kid'[k].leader # "unborn"
       /\ kid[k].leader = "reaped" => kid'[k].leader = "reaped"
       /\ Quiet(k) => Quiet(k)'

LEMMA StopInit == Stop!Init => StopInv
<1> SUFFICES ASSUME Stop!Init PROVE StopInv
  OBVIOUS
<1>1. kid = [k \in Kids |-> [leader |-> "unborn", member |-> "none", deaf |-> FALSE]]
      /\ live = {} /\ stopPc = [t \in Stop!Threads |-> "idle"] /\ own = [t \in Stop!Threads |-> "none"]
      /\ handler = "none"
  BY DEF Stop!Init
<1>2. StopTypes
  BY <1>1 DEF StopTypes, KidStates, Stop!Pcs
<1>3. Main \in Stop!Threads
  BY DEF Stop!Threads
<1> QED BY <1>1, <1>2, <1>3 DEF StopInv, Owning, Quiet

(* A step of the thread t that starts no child and does not end the        *)
(* process: what it needs to keep the invariant.                           *)
LEMMA ThreadMoves ==
  ASSUME StopInv, Main \notin Workers, Stop!Alive, Onward, live \subseteq live', live' \subseteq Kids,
         own' = own, freed' = freed,
         NEW t \in Stop!Threads, NEW at \in Stop!Pcs, stopPc' = [stopPc EXCEPT ![t] = at],
         at \in Owning => stopPc[t] \in Owning,
         at \in {"stderr", "forget"} => kid'[own[t]].leader = "reaped",
         stopPc[t] \in {"born", "abandon"} => at \in {"born", "abandon"} \/ own[t] \in live',
         at = "abandon" => stopping' /\ handler' = "none",
         t # Main => UNCHANGED handler, handler' \in {handler, "none"}, stopping' = stopping,
         at \in {"atexit"} => t = Main /\ \A w \in Workers : stopPc[w] = "ended",
         at # "exited", t = Main \/ stopPc[t] # "ended"
  PROVE  StopInv'
<1> USE DEF StopInv, StopTypes
<1>0. Main \in Stop!Threads /\ Workers \subseteq Stop!Threads
  BY DEF Stop!Threads
<1>1. StopTypes'
  BY DEF Onward
<1>2. \A u \in Stop!Threads : stopPc'[u] = IF u = t THEN at ELSE stopPc[u]
  OBVIOUS
<1>3. \A u \in Stop!Threads : stopPc'[u] \in Owning => stopPc[u] \in Owning
  BY <1>2
<1>4. \A u \in Stop!Threads : stopPc'[u] \in Owning => own'[u] \in Kids /\ kid'[own'[u]].leader # "unborn"
  BY <1>3 DEF Onward
<1>5. \A u, v \in Stop!Threads : u # v /\ stopPc'[u] \in Owning /\ stopPc'[v] \in Owning => own'[u] # own'[v]
  BY <1>3
<1>6. \A u \in Stop!Threads : stopPc'[u] \in {"stderr", "forget"} => kid'[own'[u]].leader = "reaped"
  <2> SUFFICES ASSUME NEW u \in Stop!Threads, stopPc'[u] \in {"stderr", "forget"}
               PROVE  kid'[own'[u]].leader = "reaped"
    OBVIOUS
  <2>1. CASE u = t
    BY <1>2, <2>1
  <2>2. CASE u # t
    <3>1. stopPc[u] \in {"stderr", "forget"}
      BY <1>2, <2>2
    <3>2. own[u] \in Kids
      BY <3>1 DEF Owning
    <3> QED BY <3>1, <3>2 DEF Onward
  <2> QED BY <2>1, <2>2
<1>7. stopPc'[Main] = "abandon" => stopping' /\ handler' = "none"
  BY <1>0, <1>2
<1>8. stopPc'[Main] \in {"atexit", "exited"} => \A w \in Workers : stopPc'[w] = "ended"
  BY <1>0, <1>2 DEF Stop!Alive, Stop!Threads
<1>9. \A k \in Kids \ freed : k \in live' \/ Quiet(k)' \/ Unrecorded(k)'
  <2> SUFFICES ASSUME NEW k \in Kids \ freed, k \notin live', Unrecorded(k)
               PROVE  Unrecorded(k)'
    BY DEF Onward
  <2>1. PICK u \in Stop!Threads : own[u] = k /\ stopPc[u] \in {"born", "abandon"}
    BY DEF Unrecorded
  <2>2. own'[u] = k /\ stopPc'[u] \in {"born", "abandon"}
    BY <1>2, <2>1
  <2> QED BY <2>2 DEF Unrecorded
<1>10. stopPc'[Main] # "exited"
  BY <1>0, <1>2 DEF Stop!Alive
<1> QED BY <1>1, <1>4, <1>5, <1>6, <1>7, <1>8, <1>9, <1>10

LEMMA SameThreads ==
  ASSUME StopInv, Stop!Alive, Onward, UNCHANGED <<live, own, freed, stopPc>>,
         stopPc[Main] = "abandon" => stopping' /\ handler' = "none", handler' # "none" => stopping'
  PROVE  StopInv'
<1> USE DEF StopInv, StopTypes
<1>0. Main \in Stop!Threads
  BY DEF Stop!Threads
<1>1. \A u \in Stop!Threads : stopPc'[u] \in Owning => own'[u] \in Kids /\ kid'[own'[u]].leader # "unborn"
  BY DEF Onward
<1>2. \A u \in Stop!Threads : stopPc'[u] \in {"stderr", "forget"} => kid'[own'[u]].leader = "reaped"
  BY DEF Onward, Owning
<1>3. \A k \in Kids \ freed : k \in live' \/ Quiet(k)' \/ Unrecorded(k)'
  BY DEF Onward, Unrecorded
<1> QED BY <1>0, <1>1, <1>2, <1>3 DEF Onward, Stop!Alive

LEMMA NothingSpawned ==
  StopInv /\ UNCHANGED kid => Onward
BY DEF StopInv, StopTypes, Onward, Quiet

LEMMA Signalled ==
  ASSUME StopInv, NEW S, Stop!TermAll(S) \/ Stop!KillAll(S)
  PROVE  Onward
<1>0. kid \in [Kids -> KidStates]
  BY DEF StopInv, StopTypes
<1>1. \A c \in KidStates :
        /\ Stop!Terminated(c) \in KidStates /\ Stop!Killed(c) \in KidStates
        /\ c.leader # "unborn" => Stop!Terminated(c).leader # "unborn" /\ Stop!Killed(c).leader # "unborn"
        /\ c.leader \in {"unborn", "reaped"} /\ c.member = "none" =>
             Stop!Terminated(c) = c /\ Stop!Killed(c).leader = c.leader /\ Stop!Killed(c).member = "none"
  BY DEF KidStates, Stop!Terminated, Stop!Killed
<1> QED BY <1>0, <1>1 DEF Stop!TermAll, Stop!KillAll, Stop!Reaped, Onward, Quiet

(* The start is the one step after which a child exists and is not         *)
(* recorded.                                                               *)
LEMMA ChildStarts ==
  ASSUME StopInv, Main \notin Workers, NEW t \in Stop!Threads, Stop!Start(t) PROVE StopInv'
<1> USE DEF StopInv, StopTypes
<1>0. Main \in Stop!Threads /\ Workers \subseteq Stop!Threads /\ Stop!Alive
  BY DEF Stop!Threads, Stop!Start, Stop!Runs
<1>1. stopPc[t] = "spawn" /\ UNCHANGED <<live, freed, stopping, handler>>
  BY DEF Stop!Start, Stop!Stay
<1>2. CASE stopPc' = [stopPc EXCEPT ![t] = "ended"] /\ UNCHANGED <<kid, own>>
  <2>1. Onward
    BY <1>2, NothingSpawned
  <2>2. "ended" \in Stop!Pcs /\ "ended" \notin Owning
    BY DEF Stop!Pcs, Owning
  <2> QED BY <1>0, <1>1, <1>2, <2>1, <2>2, ThreadMoves
<1>3. ASSUME NEW k \in Kids, ~Stop!Born(k), NEW m \in Members, NEW d \in BOOLEAN,
             kid' = [kid EXCEPT ![k] = [leader |-> "running", member |-> m, deaf |-> d]],
             own' = [own EXCEPT ![t] = k], stopPc' = [stopPc EXCEPT ![t] = "born"]
      PROVE  StopInv'
  <2>1. \A u \in Stop!Threads : /\ stopPc'[u] = IF u = t THEN "born" ELSE stopPc[u]
                                /\ own'[u] = IF u = t THEN k ELSE own[u]
    BY <1>3
  <2>2. \A j \in Kids : kid'[j] = IF j = k THEN [leader |-> "running", member |-> m, deaf |-> d] ELSE kid[j]
    BY <1>3
  <2>3. StopTypes'
    <3>1. [leader |-> "running", member |-> m, deaf |-> d] \in KidStates
      BY DEF KidStates
    <3> QED BY <1>1, <1>3, <3>1 DEF Stop!Pcs
  <2>4. \A u \in Stop!Threads : stopPc[u] \in Owning => own[u] # k
    BY <1>3 DEF Stop!Born
  <2>5. \A u \in Stop!Threads : stopPc'[u] \in Owning => own'[u] \in Kids /\ kid'[own'[u]].leader # "unborn"
    BY <2>1, <2>2, <2>4
  <2>6. \A u, v \in Stop!Threads : u # v /\ stopPc'[u] \in Owning /\ stopPc'[v] \in Owning => own'[u] # own'[v]
    BY <2>1, <2>4
  <2>7. \A u \in Stop!Threads : stopPc'[u] \in {"stderr", "forget"} => kid'[own'[u]].leader = "reaped"
    BY <2>1, <2>2, <2>4 DEF Owning
  <2>8. \A j \in Kids \ freed : j \in live' \/ Quiet(j)' \/ Unrecorded(j)'
    <3> SUFFICES ASSUME NEW j \in Kids \ freed PROVE j \in live \/ Quiet(j)' \/ Unrecorded(j)'
      BY <1>1
    <3>1. CASE j = k
      BY <2>1, <3>1 DEF Unrecorded
    <3>2. CASE j # k /\ Quiet(j)
      BY <2>2, <3>2 DEF Quiet
    <3>3. CASE Unrecorded(j)
      <4>1. PICK u \in Stop!Threads : own[u] = j /\ stopPc[u] \in {"born", "abandon"}
        BY <3>3 DEF Unrecorded
      <4>2. u # t
        BY <1>1, <4>1
      <4> QED BY <2>1, <4>1, <4>2 DEF Unrecorded
    <3> QED BY <1>0, <3>1, <3>2, <3>3
  <2>9. stopPc'[Main] # "exited" /\ (stopPc'[Main] \in {"atexit", "abandon"} => stopPc[Main] = stopPc'[Main])
    BY <1>0, <2>1 DEF Stop!Alive
  <2>10. stopPc'[Main] = "abandon" => stopping' /\ handler' = "none"
    BY <1>1, <2>9
  <2>11. stopPc'[Main] \in {"atexit", "exited"} => \A w \in Workers : stopPc'[w] = "ended"
    BY <1>0, <1>1, <2>1, <2>9 DEF Stop!Threads
  <2> QED BY <1>1, <2>3, <2>5, <2>6, <2>7, <2>8, <2>9, <2>10, <2>11
<1>4. \/ stopPc' = [stopPc EXCEPT ![t] = "ended"] /\ UNCHANGED <<kid, own>>
      \/ \E k \in {j \in Kids : ~Stop!Born(j)}, m \in Members, d \in BOOLEAN :
           /\ kid' = [kid EXCEPT ![k] = [leader |-> "running", member |-> m, deaf |-> d]]
           /\ own' = [own EXCEPT ![t] = k] /\ stopPc' = [stopPc EXCEPT ![t] = "born"]
  BY DEF Stop!Start, Stop!Go
<1> QED BY <1>2, <1>3, <1>4

(* A child that is forgotten was reaped, and its group is swept during a   *)
(* stop.                                                                   *)
LEMMA ChildForgotten ==
  ASSUME StopInv, Main \notin Workers, NEW t \in Stop!Threads, Stop!Forget(t) PROVE StopInv'
<1> USE DEF StopInv, StopTypes
<1>0. Main \in Stop!Threads /\ Workers \subseteq Stop!Threads /\ Stop!Alive
  BY DEF Stop!Threads, Stop!Forget, Stop!Runs
<1>1. stopPc[t] = "forget" /\ live' = live \ {own[t]} /\ kid' = Stop!Swept(own[t])
      /\ freed' = (IF stopping THEN freed ELSE freed \cup {own[t]})
      /\ own' = [own EXCEPT ![t] = "none"] /\ UNCHANGED <<stopping, handler>>
  BY DEF Stop!Forget, Stop!Stay
<1>2. PICK at \in {"shutdown", "idle"} : stopPc' = [stopPc EXCEPT ![t] = at]
  BY DEF Stop!Forget, Stop!Go
<1>3. \A u \in Stop!Threads : /\ stopPc'[u] = IF u = t THEN at ELSE stopPc[u]
                              /\ own'[u] = IF u = t THEN "none" ELSE own[u]
  BY <1>1, <1>2
<1>4. \A k \in Kids : kid'[k] = IF k = own[t] /\ stopping /\ k \in live
                                THEN [kid[k] EXCEPT !.member = "none"] ELSE kid[k]
  BY <1>1 DEF Stop!Swept
<1>5. \A k \in Kids : kid'[k].leader = kid[k].leader /\ (Quiet(k) => Quiet(k)')
  <2> SUFFICES ASSUME NEW k \in Kids PROVE kid'[k].leader = kid[k].leader /\ (Quiet(k) => Quiet(k)')
    OBVIOUS
  <2>1. kid[k] \in KidStates
    OBVIOUS
  <2>2. kid'[k].leader = kid[k].leader /\ kid'[k].member \in {kid[k].member, "none"}
    BY <1>4, <2>1 DEF KidStates
  <2> QED BY <2>2 DEF Quiet
<1>6. StopTypes'
  <2>1. kid' \in [Kids -> KidStates]
    BY <1>1 DEF Stop!Swept, KidStates
  <2> QED BY <1>1, <1>2, <2>1 DEF Stop!Pcs
<1>7. \A u \in Stop!Threads : stopPc'[u] \in Owning => u # t /\ stopPc[u] \in Owning /\ own'[u] = own[u]
  BY <1>3 DEF Owning
<1>8. \A u \in Stop!Threads : stopPc'[u] \in Owning => own'[u] \in Kids /\ kid'[own'[u]].leader # "unborn"
  BY <1>5, <1>7
<1>9. \A u, v \in Stop!Threads : u # v /\ stopPc'[u] \in Owning /\ stopPc'[v] \in Owning => own'[u] # own'[v]
  BY <1>7
<1>10. \A u \in Stop!Threads : stopPc'[u] \in {"stderr", "forget"} => kid'[own'[u]].leader = "reaped"
  BY <1>3, <1>5, <1>7, <1>8 DEF Owning
<1>11. \A k \in Kids \ freed' : k \in live' \/ Quiet(k)' \/ Unrecorded(k)'
  <2> SUFFICES ASSUME NEW k \in Kids \ freed', k \notin live' PROVE Quiet(k)' \/ Unrecorded(k)'
    OBVIOUS
  <2>0. k \notin freed
    BY <1>1
  <2>1. CASE Quiet(k)
    BY <1>5, <2>1
  <2>2. CASE Unrecorded(k)
    <3>1. PICK u \in Stop!Threads : own[u] = k /\ stopPc[u] \in {"born", "abandon"}
      BY <2>2 DEF Unrecorded
    <3> QED BY <1>1, <1>3, <3>1 DEF Unrecorded
  <2>3. CASE k \in live
    <3>1. k = own[t] /\ stopping
      BY <1>1, <2>3
    <3>2. kid[k].leader = "reaped" /\ kid[k] \in KidStates
      BY <1>1, <3>1
    <3> QED BY <1>4, <2>3, <3>1, <3>2 DEF Quiet, KidStates
  <2> QED BY <1>0, <2>0, <2>1, <2>2, <2>3
<1>12. stopPc'[Main] # "exited" /\ (stopPc'[Main] \in {"atexit", "abandon"} => stopPc[Main] = stopPc'[Main])
  BY <1>0, <1>3 DEF Stop!Alive
<1>13. stopPc'[Main] \in {"atexit", "exited"} => \A w \in Workers : stopPc'[w] = "ended"
  BY <1>0, <1>1, <1>3, <1>12
<1> QED BY <1>1, <1>6, <1>8, <1>9, <1>10, <1>11, <1>12, <1>13

LEMMA ThreadStep ==
  ASSUME StopInv, Main \notin Workers, NEW t \in Stop!Threads, Stop!Steps(t) PROVE StopInv'
<1> USE DEF Stop!Stay, Stop!Runs, Stop!Go
<1>0. StopTypes /\ Main \in Stop!Threads
  BY DEF StopInv, Stop!Threads
<1>a. \A at \in Owning : at \in Stop!Pcs
  BY DEF Owning, Stop!Pcs
<1>b. {"idle", "spawn", "ended", "shutdown", "atexit", "killed"} \subseteq Stop!Pcs
  BY DEF Stop!Pcs
<1>c. \A at \in {"idle", "spawn", "ended", "shutdown", "atexit", "exited", "killed"} : at \notin Owning
  BY DEF Owning
<1>d. stopPc[t] \in Owning => own[t] \in Kids /\ kid[own[t]] \in KidStates /\ kid[own[t]].leader # "unborn"
  BY <1>0 DEF StopInv, StopTypes
<1>1. CASE Stop!TakeLock(t)
  <2>1. Onward /\ stopPc' = [stopPc EXCEPT ![t] = "spawn"]
    BY <1>1, NothingSpawned DEF Stop!TakeLock
  <2> QED BY <1>0, <1>1, <1>b, <1>c, <2>1, ThreadMoves DEF Stop!TakeLock, StopTypes
<1>2. CASE Stop!Start(t)
  BY <1>2, ChildStarts
<1>3. CASE Stop!Record(t)
  <2>1. Onward /\ stopPc' = [stopPc EXCEPT ![t] = "spawned"]
    BY <1>3, NothingSpawned DEF Stop!Record
  <2>2. stopPc[t] \in Owning /\ "spawned" \in Owning
    BY <1>3 DEF Owning, Stop!Record
  <2>3. live' = live \cup {own[t]} /\ live' \subseteq Kids
    BY <1>0, <1>3, <1>d, <2>2 DEF Stop!Record, StopTypes
  <2> QED BY <1>3, <1>a, <2>1, <2>2, <2>3, ThreadMoves DEF Stop!Record
<1>4. CASE Stop!Enter(t) \/ Stop!ReadEnds(t)
  <2>1. PICK at \in {"reading", "waiting"} : stopPc' = [stopPc EXCEPT ![t] = at]
    BY <1>4 DEF Stop!Enter, Stop!ReadEnds
  <2>2. Onward /\ stopPc[t] \in Owning /\ stopPc[t] \in {"spawned", "reading"} /\ at \in Owning
    BY <1>4, NothingSpawned DEF Stop!Enter, Stop!ReadEnds, Owning
  <2>3. Stop!Alive /\ UNCHANGED <<live, own, freed, stopping, handler>>
    BY <1>4 DEF Stop!Enter, Stop!ReadEnds
  <2> QED BY <1>0, <1>a, <2>1, <2>2, <2>3, ThreadMoves DEF StopTypes
<1>5. CASE Stop!Reap(t)
  <2>1. stopPc[t] \in Owning /\ "stderr" \in Owning /\ kid[own[t]].leader = "zombie"
    BY <1>5 DEF Stop!Reap, Owning
  <2>2. Onward /\ kid'[own[t]].leader = "reaped"
    BY <1>0, <1>5, <1>d, <2>1 DEF Stop!Reap, Onward, Quiet, StopTypes, KidStates
  <2> QED BY <1>0, <1>5, <1>a, <2>1, <2>2, ThreadMoves DEF Stop!Reap, StopTypes
<1>6. CASE Stop!ReadStderr(t)
  <2>1. stopPc[t] \in Owning /\ "forget" \in Owning /\ Onward
    BY <1>6, NothingSpawned DEF Stop!ReadStderr, Owning
  <2>2. kid'[own[t]].leader = "reaped"
    BY <1>6 DEF Stop!ReadStderr, StopInv
  <2> QED BY <1>0, <1>6, <1>a, <2>1, <2>2, ThreadMoves DEF Stop!ReadStderr, StopTypes
<1>7. CASE Stop!Forget(t)
  BY <1>7, ChildForgotten
<1>8. CASE Stop!NoMore(t)
  <2>1. PICK at \in {"shutdown", "ended"} : stopPc' = [stopPc EXCEPT ![t] = at]
    BY <1>8 DEF Stop!NoMore
  <2>2. Onward
    BY <1>8, NothingSpawned DEF Stop!NoMore
  <2> QED BY <1>0, <1>8, <1>b, <1>c, <2>1, <2>2, ThreadMoves DEF Stop!NoMore, StopTypes
<1>9. CASE Stop!TermOwn(t)
  <2>1. stopPc[t] \in Owning /\ "grace" \in Owning /\ Onward
    BY <1>9, Signalled DEF Stop!TermOwn, Owning
  <2> QED BY <1>0, <1>9, <1>a, <2>1, ThreadMoves DEF Stop!TermOwn, StopTypes
<1>10. CASE Stop!WentInGrace(t)
  <2>1. stopPc[t] \in Owning /\ "forget" \in Owning
    BY <1>10 DEF Stop!WentInGrace, Owning
  <2>2. kid' = [kid EXCEPT ![own[t]] = [kid[own[t]] EXCEPT !.leader = "reaped", !.member = "none"]]
    BY <1>0, <1>10, <1>d, <2>1 DEF Stop!WentInGrace, StopTypes, KidStates
  <2>3. [kid[own[t]] EXCEPT !.leader = "reaped", !.member = "none"] \in KidStates
    BY <1>d, <2>1 DEF KidStates
  <2>4. Onward /\ kid'[own[t]].leader = "reaped"
    BY <1>0, <1>d, <2>1, <2>2, <2>3 DEF Onward, Quiet, StopTypes, KidStates
  <2> QED BY <1>0, <1>10, <1>a, <2>1, <2>4, ThreadMoves DEF Stop!WentInGrace, StopTypes
<1>11. CASE Stop!GraceOver(t)
  <2>1. stopPc[t] \in Owning /\ "waitkilled" \in Owning /\ Onward
    BY <1>11, Signalled DEF Stop!GraceOver, Owning
  <2> QED BY <1>0, <1>11, <1>a, <2>1, ThreadMoves DEF Stop!GraceOver, StopTypes
<1>12. CASE Stop!ReapKilled(t)
  <2>1. stopPc[t] \in Owning /\ "forget" \in Owning
    BY <1>12 DEF Stop!ReapKilled, Owning
  <2>2. Onward /\ kid'[own[t]].leader = "reaped"
    BY <1>0, <1>12, <1>d, <2>1 DEF Stop!ReapKilled, Onward, Quiet, StopTypes, KidStates
  <2> QED BY <1>0, <1>12, <1>a, <2>1, <2>2, ThreadMoves DEF Stop!ReapKilled, StopTypes
<1>13. CASE Stop!Abandon(t)
  <2>1. stopPc[t] \in Owning /\ "terminate" \in Owning /\ Onward
    BY <1>13, NothingSpawned DEF Stop!Abandon, Owning
  <2>2. live' = live \cup {own[t]} /\ live' \subseteq Kids
    BY <1>0, <1>13, <1>d, <2>1 DEF Stop!Abandon, StopTypes
  <2> QED BY <1>0, <1>13, <1>a, <2>1, <2>2, ThreadMoves DEF Stop!Abandon
<1> QED BY <1>1, <1>2, <1>3, <1>4, <1>5, <1>6, <1>7, <1>8, <1>9, <1>10, <1>11, <1>12, <1>13 DEF Stop!Steps

LEMMA StopStep ==
  ASSUME StopInv, Main \notin Workers, [Stop!Next]_Stop!vars PROVE StopInv'
<1>0. StopTypes /\ Main \in Stop!Threads
  BY DEF StopInv, Stop!Threads
<1>b. {"shutdown", "atexit", "killed", "abandon", "terminate"} \subseteq Stop!Pcs
  BY DEF Stop!Pcs
<1>1. CASE UNCHANGED Stop!vars \/ Stop!Done
  BY <1>1 DEF Stop!vars, Stop!Done, StopInv, StopTypes, Quiet, Unrecorded, Stop!Alive
<1>2. ASSUME NEW k \in Kids, Stop!KidEnds(k) PROVE StopInv'
  <2>1. Onward
    BY <1>0, <1>2 DEF Stop!KidEnds, Onward, Quiet, StopTypes, KidStates
  <2> QED BY <1>2, <2>1, SameThreads DEF Stop!KidEnds, StopInv
<1>3. ASSUME NEW t \in Stop!Threads, Stop!Steps(t) PROVE StopInv'
  BY <1>3, ThreadStep
<1>4. CASE Stop!Signal
  <2>1. stopPc[Main] # "abandon"
    BY <1>4 DEF Stop!Signal, StopInv
  <2> QED BY <1>4, <2>1, NothingSpawned, SameThreads DEF Stop!Signal
<1>5. CASE Stop!Snapshot
  <2>1. stopPc[Main] # "abandon"
    BY <1>5 DEF Stop!Snapshot, StopInv
  <2> QED BY <1>5, <2>1, NothingSpawned, SameThreads DEF Stop!Snapshot, StopInv
<1>6. CASE Stop!TermEach
  <2>1. Onward
    BY <1>6, Signalled DEF Stop!TermEach
  <2>2. stopPc' = [stopPc EXCEPT ![Main] = Stop!Unwound]
    BY <1>6 DEF Stop!TermEach
  <2>3. stopPc[Main] # "abandon" /\ handler = "term" /\ stopping /\ Stop!Alive
    BY <1>6 DEF Stop!TermEach, StopInv
  <2>4. UNCHANGED <<live, own, freed, stopping>> /\ handler' = "none"
    BY <1>6 DEF Stop!TermEach
  <2>5. CASE stopPc[Main] = "born"
    <3>1. Stop!Unwound = "abandon"
      BY <2>5 DEF Stop!Unwound
    <3>2. "born" \in Owning /\ "abandon" \in Stop!Pcs
      BY DEF Owning, Stop!Pcs
    <3> QED BY <1>0, <2>1, <2>2, <2>3, <2>4, <2>5, <3>1, <3>2, ThreadMoves DEF StopTypes
  <2>6. CASE stopPc[Main] \in {"reading", "waiting", "stderr"}
    <3>1. Stop!Unwound = "terminate"
      BY <2>6 DEF Stop!Unwound
    <3>2. stopPc[Main] \in Owning /\ "terminate" \in Stop!Pcs
      BY <2>6 DEF Owning, Stop!Pcs
    <3> QED BY <1>0, <2>1, <2>2, <2>3, <2>4, <2>6, <3>1, <3>2, ThreadMoves DEF StopTypes
  <2>7. CASE stopPc[Main] \notin {"born", "reading", "waiting", "stderr"}
    <3>1. Stop!Unwound = "shutdown"
      BY <2>7 DEF Stop!Unwound
    <3>2. "shutdown" \notin Owning /\ "shutdown" \in Stop!Pcs
      BY DEF Owning, Stop!Pcs
    <3> QED BY <1>0, <2>1, <2>2, <2>3, <2>4, <2>7, <3>1, <3>2, ThreadMoves DEF StopTypes
  <2> QED BY <2>5, <2>6, <2>7
<1>7. CASE Stop!TimerKills
  <2>1. kid' = [kid EXCEPT ![timer.aim] = Stop!Killed(kid[timer.aim])]
    BY <1>7 DEF Stop!TimerKills
  <2>2. ASSUME timer.aim \in Kids PROVE Onward
    <3>1. \A k \in Kids : kid'[k] = IF k = timer.aim THEN Stop!Killed(kid[k]) ELSE kid[k]
      BY <1>0, <2>1 DEF StopTypes
    <3>2. \A c \in KidStates : /\ Stop!Killed(c) \in KidStates /\ Stop!Killed(c).member = "none"
                               /\ Stop!Killed(c).leader = IF c.leader = "running" THEN "zombie" ELSE c.leader
      BY DEF KidStates, Stop!Killed
    <3>3. kid' \in [Kids -> KidStates]
      BY <1>0, <2>1, <2>2, <3>2 DEF StopTypes
    <3> QED BY <1>0, <3>1, <3>2, <3>3 DEF Onward, Quiet, StopTypes
  <2>3. ASSUME timer.aim \notin Kids PROVE Onward
    <3>1. kid' = kid
      BY <1>0, <2>1, <2>3 DEF StopTypes
    <3> QED BY <3>1, NothingSpawned
  <2>4. Onward
    BY <2>2, <2>3
  <2> QED BY <1>7, <2>4, SameThreads DEF Stop!TimerKills, StopInv
<1>8. ASSUME NEW k \in Kids, Stop!TimerLooks(k) PROVE StopInv'
  BY <1>8, NothingSpawned, SameThreads DEF Stop!TimerLooks, StopInv
<1>9. CASE Stop!SignalAgain
  <2>1. Onward /\ "killed" \in Stop!Pcs /\ stopPc' = [stopPc EXCEPT ![Main] = "killed"]
    BY <1>9, Signalled DEF Stop!SignalAgain, Stop!Pcs, Stop!Go
  <2>2. UNCHANGED <<live, own, freed, stopping, handler>> /\ Stop!Alive /\ Main \in Stop!Threads
    BY <1>0, <1>9 DEF Stop!SignalAgain
  <2>3. StopTypes'
    BY <1>0, <2>1, <2>2 DEF StopTypes, Onward
  <2>4. \A u \in Stop!Threads : stopPc'[u] = IF u = Main THEN "killed" ELSE stopPc[u]
    BY <1>0, <2>1 DEF StopTypes
  <2>5. \A u \in Stop!Threads : stopPc'[u] \in Owning => u # Main /\ stopPc[u] \in Owning
    BY <2>4 DEF Owning
  <2>6. \A u \in Stop!Threads : stopPc'[u] \in Owning => own'[u] \in Kids /\ kid'[own'[u]].leader # "unborn"
    BY <2>1, <2>2, <2>5 DEF StopInv, Onward
  <2>7. \A u \in Stop!Threads : stopPc'[u] \in {"stderr", "forget"} => kid'[own'[u]].leader = "reaped"
    BY <2>1, <2>2, <2>4 DEF StopInv, Onward, Owning
  <2>8. stopPc'[Main] = "killed"
    BY <2>4, <2>2
  <2>9. \A u, v \in Stop!Threads : u # v /\ stopPc'[u] \in Owning /\ stopPc'[v] \in Owning => own'[u] # own'[v]
    BY <2>2, <2>5 DEF StopInv
  <2> QED BY <2>2, <2>3, <2>6, <2>7, <2>8, <2>9 DEF StopInv, Stop!Alive
<1>10. CASE Stop!Shutdown
  <2>1. Onward /\ "atexit" \in Stop!Pcs /\ "atexit" \notin Owning
    BY <1>10, NothingSpawned DEF Stop!Shutdown, Stop!Pcs, Owning
  <2>2. stopPc[Main] = "shutdown" /\ stopPc' = [stopPc EXCEPT ![Main] = "atexit"] /\ \A w \in Workers : stopPc[w] = "ended"
    BY <1>10 DEF Stop!Shutdown, Stop!Go
  <2>3. UNCHANGED <<live, own, freed, stopping, handler>> /\ Stop!Alive
    BY <1>10 DEF Stop!Shutdown, Stop!Stay, Stop!Runs
  <2> QED BY <1>0, <2>1, <2>2, <2>3, ThreadMoves DEF StopTypes
<1>11. CASE Stop!Exit
  <2>1. stopPc[Main] = "atexit" /\ stopPc' = [stopPc EXCEPT ![Main] = "exited"]
        /\ UNCHANGED <<live, own, freed, stopping, handler>> /\ Stop!Alive
        /\ kid' = [k \in Kids |-> IF k \in live THEN [kid[k] EXCEPT !.leader = "reaped", !.member = "none"] ELSE kid[k]]
    BY <1>11 DEF Stop!Exit, Stop!Stay, Stop!Runs, Stop!Go
  <2>2. Onward /\ \A k \in live : Quiet(k)'
    BY <1>0, <2>1 DEF StopTypes, Onward, Quiet, KidStates
  <2>3. \A u \in Stop!Threads : stopPc'[u] = (IF u = Main THEN "exited" ELSE "ended") /\ (u # Main => stopPc[u] = "ended")
    BY <1>0, <2>1 DEF StopInv, StopTypes, Stop!Threads
  <2>4. \A k \in Kids : ~Unrecorded(k)
    BY <2>1, <2>3 DEF Unrecorded
  <2>5. \A k \in Kids \ freed : Quiet(k)'
    BY <2>1, <2>2, <2>4 DEF StopInv, Onward
  <2>6. StopTypes'
    BY <1>0, <2>1, <2>2 DEF StopTypes, Onward, Stop!Pcs
  <2>7. ~Stop!Alive' /\ \A w \in Workers : w # Main /\ w \in Stop!Threads
    BY <1>0, <2>3 DEF Stop!Alive, Stop!Threads
  <2>8. \A u \in Stop!Threads : stopPc'[u] \notin Owning \cup {"stderr", "forget", "abandon"}
    BY <2>3 DEF Owning
  <2> QED BY <1>0, <2>1, <2>3, <2>5, <2>6, <2>7, <2>8 DEF StopInv
<1> QED BY <1>1, <1>2, <1>3, <1>4, <1>5, <1>6, <1>7, <1>8, <1>9, <1>10, <1>11 DEF Stop!Next, Stop!Handler, Stop!Timer

(* children.py, `stop_all`: whenever the stop arrives in the life of a     *)
(* child, a process that unwinds to its exit leaves neither the leader nor *)
(* a member of its group, unless the child was forgotten before the stop.  *)
THEOREM NoneIsEverLeft == Spec => []NoneLeft
<1>0. Main \notin Workers
  BY ConstantsAssumption DEF Stop!ChildrenConstants
<1>1. Init => StopInv
  BY EveryPartStarts, StopInit
<1>2. StopInv /\ [Next]_vars => StopInv'
  BY <1>0, OnePartMoves, StopStep
<1>3. StopInv => NoneLeft
  BY DEF StopInv, NoneLeft, Stop!NoneLeft, Quiet
<1> QED BY <1>1, <1>2, <1>3, PTL DEF Spec
-----------------------------------------------------------------------------
(* PiStream: a run that was cut short says so.                             *)

NoneIn(K, s) == \A i \in 1 .. Len(s) : s[i] \notin K
OneIn(K, s) == \A i, j \in 1 .. Len(s) : s[i] \in K /\ s[j] \in K => i = j

LEMMA TailKeeps ==
  ASSUME NEW S, NEW s \in Seq(S), s # <<>>, NEW K
  PROVE  /\ Tail(s) \in Seq(S) /\ Head(s) \in S
         /\ NoneIn(K, s) => NoneIn(K, Tail(s)) /\ Head(s) \notin K
         /\ OneIn(K, s) => OneIn(K, Tail(s)) /\ (Head(s) \in K => NoneIn(K, Tail(s)))
         /\ NoneIn(K, Tail(s)) /\ Head(s) \notin K => NoneIn(K, s)
<1>1. Len(s) \in Nat \ {0} /\ Head(s) = s[1] /\ Tail(s) \in Seq(S) /\ Len(Tail(s)) = Len(s) - 1
      /\ \A i \in 1 .. Len(s) - 1 : Tail(s)[i] = s[i + 1]
  OBVIOUS
<1>2. NoneIn(K, s) => NoneIn(K, Tail(s)) /\ Head(s) \notin K
  BY <1>1 DEF NoneIn
<1>3. OneIn(K, s) => OneIn(K, Tail(s)) /\ (Head(s) \in K => NoneIn(K, Tail(s)))
  BY <1>1 DEF NoneIn, OneIn
<1>4. ASSUME NoneIn(K, Tail(s)), Head(s) \notin K PROVE NoneIn(K, s)
  <2> SUFFICES ASSUME NEW i \in 1 .. Len(s) PROVE s[i] \notin K
    BY DEF NoneIn
  <2>1. CASE i = 1
    BY <1>1, <1>4, <2>1
  <2>2. CASE i # 1
    <3>1. i - 1 \in 1 .. Len(Tail(s)) /\ Tail(s)[i - 1] = s[i]
      BY <1>1, <2>2
    <3> QED BY <1>4, <3>1 DEF NoneIn
  <2> QED BY <2>1, <2>2
<1> QED BY <1>1, <1>2, <1>3, <1>4

LEMMA AppendKeeps ==
  ASSUME NEW S, NEW s \in Seq(S), NEW e \in S, NEW K
  PROVE  /\ Append(s, e) \in Seq(S)
         /\ NoneIn(K, s) => OneIn(K, Append(s, e)) /\ (e \notin K => NoneIn(K, Append(s, e)))
         /\ OneIn(K, s) /\ e \notin K => OneIn(K, Append(s, e))
<1>1. Len(s) \in Nat /\ Append(s, e) \in Seq(S) /\ Len(Append(s, e)) = Len(s) + 1
      /\ \A i \in 1 .. Len(s) + 1 : Append(s, e)[i] = IF i = Len(s) + 1 THEN e ELSE s[i]
  OBVIOUS
<1> QED BY <1>1 DEF NoneIn, OneIn

LEMMA JoinedOne ==
  ASSUME NEW S, NEW s \in Seq(S), NEW e \in S PROVE s \o <<e>> = Append(s, e)
OBVIOUS

Sends == {<<>>, <<"abort", "follow_up">>, <<"follow_up">>, <<"prompt">>}

PiRecords ==
  [st : Agent!PiStates, child : Agent!Children, work : Nat, calls : Nat, followups : Nat,
   cut : BOOLEAN, retried : BOOLEAN, writing : BOOLEAN, wrote : BOOLEAN]

LoopRecords ==
  [pc : {"read", "sample", "arm", "disarm", "handle", "done"}, ev : Agent!Events \cup {"none"}, sends : Sends,
   turns : Nat, aborted : BOOLEAN, stop : {"completed", "max_turns", "stalled", "error"},
   wrote : BOOLEAN, pending : BOOLEAN, asked : BOOLEAN]

SharedRecords ==
  [gen : Nat, armed : BOOLEAN, baseline : BOOLEAN, quiet : BOOLEAN, capped : BOOLEAN, reason : BOOLEAN]

WatchRecords ==
  [pc : {"poll", "confirm", "decide", "abort", "follow_up"}, gen : Nat, baseline : BOOLEAN, n : Nat,
   kind : {"none", "stalled", "capped"}]

AgentTypes ==
  /\ pi \in PiRecords /\ loop \in LoopRecords /\ shared \in SharedRecords /\ watch \in WatchRecords
  /\ inbox \in Seq(Agent!Commands) /\ out \in Seq(Agent!Events)

(* Where a run of the agent may be: asked for, on its way, executing, over *)
(* and on its way back, over and handled.                                  *)
Posted == ~NoneIn({"prompt"}, inbox)
Held == loop.sends = <<"prompt">>
Executing == pi.st \in {"turn", "tool", "drain"}
Returning == ~NoneIn(Agent!EndEvents, out)
Arrived == loop.pc \notin {"read", "done"} /\ loop.ev \in Agent!EndEvents
Over == loop.pc = "done" /\ loop.ev \in Agent!EndEvents

OneRun ==
  /\ OneIn({"prompt"}, inbox) /\ OneIn(Agent!EndEvents, out)
  /\ Posted => ~Held /\ ~Executing /\ ~Returning /\ ~Arrived /\ ~loop.pending /\ ~Over
  /\ Held => ~Executing /\ ~Returning /\ ~Arrived /\ ~loop.pending /\ ~Over
  /\ Executing => ~Returning /\ ~Arrived /\ ~loop.pending /\ ~Over
  /\ Returning => ~Arrived /\ ~loop.pending /\ ~Over
  /\ Arrived => ~loop.pending
  /\ Over => ~loop.pending

Said == loop.aborted \/ shared.reason

(* Whoever aborts has left the reason where the loop finds it before it    *)
(* handles the end of the run, and no run executes after that.             *)
AbortIsSaid ==
  /\ watch.pc = "abort" => shared.reason
  /\ loop.sends = <<"abort", "follow_up">> => loop.aborted
  /\ loop.sends = <<"prompt">> => loop.ev = "settled"
  /\ ~NoneIn({"abort"}, inbox) => Said
  /\ pi.cut => Said
  /\ loop.aborted /\ (loop.pc = "done" => loop.ev # "refused") => loop.stop \in {"max_turns", "stalled"}
  /\ Over /\ pi.cut => loop.aborted

AgentInv == AgentTypes /\ OneRun /\ AbortIsSaid

LEMMA AgentInit == Agent!PiConstants /\ Agent!Init => AgentInv
<1> SUFFICES ASSUME Agent!PiConstants, Agent!Init PROVE AgentInv
  OBVIOUS
<1>1. AgentTypes
  BY DEF Agent!PiConstants, Agent!Init, AgentTypes, PiRecords, LoopRecords, SharedRecords, WatchRecords, Sends,
     Agent!PiStates, Agent!Children, Agent!Events, Agent!Commands
<1>2. inbox = <<"prompt">> /\ out = <<>> /\ pi.st = "idle" /\ ~pi.cut
      /\ loop.pc = "read" /\ loop.ev = "none" /\ loop.sends = <<>> /\ ~loop.aborted /\ ~loop.pending
      /\ watch.pc = "poll"
  BY DEF Agent!Init
<1>3. Len(inbox) = 1 /\ inbox[1] = "prompt" /\ Len(out) = 0
  BY <1>2
<1>4. <<>> # <<"prompt">> /\ <<>> # <<"abort", "follow_up">>
  OBVIOUS
<1>5. OneIn({"prompt"}, inbox) /\ OneIn(Agent!EndEvents, out) /\ NoneIn({"abort"}, inbox) /\ NoneIn(Agent!EndEvents, out)
  BY <1>3 DEF OneIn, NoneIn
<1> QED BY <1>1, <1>2, <1>4, <1>5 DEF AgentInv, OneRun, AbortIsSaid, Posted, Held, Executing, Returning, Arrived, Over, Said

(* Pi's own steps: each takes a command, or says something, or neither.    *)
LEMMA PiReads ==
  ASSUME AgentInv, Agent!PiAnswers PROVE AgentInv'
<1> USE DEF AgentInv, AbortIsSaid, Agent!PiAnswers, Said
<1>0. AgentTypes /\ UNCHANGED <<loop, shared, watch>>
  BY DEF Agent!PiPrompt, Agent!PiAbort, Agent!PiFollowUp
<1>1. inbox # <<>> /\ inbox' = Tail(inbox) /\ inbox \in Seq(Agent!Commands)
  BY <1>0 DEF Agent!PiPrompt, Agent!PiAbort, Agent!PiFollowUp, AgentTypes
<1>2. inbox' \in Seq(Agent!Commands) /\ (NoneIn({"abort"}, inbox) => NoneIn({"abort"}, inbox'))
      /\ (~NoneIn({"abort"}, inbox) => Said)
  BY <1>1, TailKeeps
<1>3. /\ OneIn({"prompt"}, inbox')
      /\ Posted' => Posted
      /\ Head(inbox) = "prompt" => Posted /\ ~Posted'
  BY <1>1, TailKeeps DEF OneRun, Posted
<1>4. Head(inbox) = "abort" => Said
  BY <1>1, TailKeeps
<1>5. CASE Agent!PiPrompt
  <2>1. CASE pi.st = "idle" /\ pi' = [pi EXCEPT !.st = "turn"] /\ UNCHANGED out
    <3>1. pi' \in PiRecords /\ pi'.st = "turn" /\ pi'.cut = pi.cut
      BY <1>0, <2>1 DEF AgentTypes, PiRecords, Agent!PiStates
    <3>2. Head(inbox) = "prompt"
      BY <1>5 DEF Agent!PiPrompt
    <3>3. OneRun'
      BY <1>0, <1>3, <2>1, <3>1, <3>2 DEF OneRun, Held, Executing, Returning, Arrived, Over
    <3> QED BY <1>0, <1>2, <2>1, <3>1, <3>3 DEF AgentTypes, Over
  <2>2. CASE out' = Append(out, "refused") /\ UNCHANGED pi
    <3>1. "refused" \in Agent!Events /\ "refused" \notin Agent!EndEvents
      BY DEF Agent!Events, Agent!EndEvents
    <3>2. out' \in Seq(Agent!Events) /\ OneIn(Agent!EndEvents, out') /\ (Returning' => Returning)
      BY <1>0, <2>2, <3>1, AppendKeeps DEF AgentTypes, OneRun, Returning
    <3>3. OneRun'
      BY <1>0, <1>3, <2>2, <3>2 DEF OneRun, Held, Executing, Arrived, Over
    <3> QED BY <1>0, <1>2, <2>2, <3>2, <3>3 DEF AgentTypes, Over
  <2> QED BY <1>5, <2>1, <2>2 DEF Agent!PiPrompt, Agent!Emit
<1>6. CASE Agent!PiAbort
  <2>1. out' = out /\ Head(inbox) = "abort"
    BY <1>6 DEF Agent!PiAbort
  <2>2. CASE Agent!Running
    <3>1. pi' = [pi EXCEPT !.st = "drain", !.child = "none", !.writing = FALSE, !.work = 0, !.cut = TRUE]
      BY <1>6, <2>2 DEF Agent!PiAbort
    <3>2. pi' \in PiRecords /\ pi'.st = "drain" /\ Executing
      BY <1>0, <2>2, <3>1 DEF AgentTypes, PiRecords, Agent!PiStates, Agent!Children, Agent!Running, Executing
    <3>3. OneRun' /\ ~Over'
      BY <1>0, <1>3, <2>1, <3>2 DEF OneRun, Held, Executing, Returning, Arrived, Over
    <3> QED BY <1>0, <1>2, <1>4, <2>1, <3>2, <3>3 DEF AgentTypes
  <2>3. CASE ~Agent!Running
    <3>1. pi' = pi
      BY <1>6, <2>3 DEF Agent!PiAbort
    <3>2. OneRun'
      BY <1>0, <1>3, <2>1, <3>1 DEF OneRun, Held, Executing, Returning, Arrived, Over
    <3> QED BY <1>0, <1>2, <2>1, <3>1, <3>2 DEF AgentTypes, Over
  <2> QED BY <2>2, <2>3
<1>7. CASE Agent!PiFollowUp
  <2>1. out' = out /\ pi' = [pi EXCEPT !.followups = @ + 1]
    BY <1>7 DEF Agent!PiFollowUp
  <2>2. pi' \in PiRecords /\ pi'.st = pi.st /\ pi'.cut = pi.cut
    BY <1>0, <2>1 DEF AgentTypes, PiRecords
  <2>3. OneRun'
    BY <1>0, <1>3, <2>1, <2>2 DEF OneRun, Held, Executing, Returning, Arrived, Over
  <2> QED BY <1>0, <1>2, <2>1, <2>2, <2>3 DEF AgentTypes, Over
<1> QED BY <1>5, <1>6, <1>7

LEMMA PiSays ==
  ASSUME AgentInv, UNCHANGED <<inbox, loop, shared, watch>>, pi' \in PiRecords, pi'.cut = pi.cut,
         NEW e \in Agent!Events, out' \in {out, Append(out, e)}, Executing' => Executing,
         out' # out /\ e \in Agent!EndEvents => Executing /\ ~Executing'
  PROVE  AgentInv'
<1> USE DEF AgentInv
<1>1. out \in Seq(Agent!Events) /\ out' \in Seq(Agent!Events)
  BY AppendKeeps DEF AgentTypes
<1>2. AgentTypes'
  BY <1>1 DEF AgentTypes
<1>3. UNCHANGED <<Posted, Held, Arrived, loop.pending, Over>>
  BY DEF Posted, Held, Arrived, Over
<1>4. CASE out' = out \/ e \notin Agent!EndEvents
  <2>1. OneIn(Agent!EndEvents, out') /\ (Returning' => Returning)
    BY <1>1, <1>4, AppendKeeps DEF OneRun, Returning
  <2> QED BY <1>2, <1>3, <2>1 DEF OneRun, AbortIsSaid, Said
<1>5. CASE out' # out /\ e \in Agent!EndEvents
  <2>1. NoneIn(Agent!EndEvents, out)
    BY <1>5 DEF OneRun, Returning
  <2>2. OneIn(Agent!EndEvents, out')
    BY <1>1, <1>5, <2>1, AppendKeeps
  <2> QED BY <1>2, <1>3, <1>5, <2>2 DEF OneRun, AbortIsSaid, Said
<1> QED BY <1>4, <1>5

LEMMA PiActs ==
  ASSUME AgentInv,
         \/ Agent!PiStartsTool \/ Agent!PiSpawns \/ Agent!PiEndsTool \/ Agent!PiEndsWrite
         \/ Agent!PiEndsTurn \/ Agent!PiDrains \/ Agent!PiSettles \/ Agent!PiDies
  PROVE  AgentInv'
<1>0. pi \in PiRecords
  BY DEF AgentInv, AgentTypes
<1>a. /\ {"tool_start", "write_start", "tool_end", "turn_end", "settled", "eof", "agent_retry"} \subseteq Agent!Events
      /\ Agent!EndEvents \subseteq Agent!Events
      /\ \A e \in {"tool_start", "write_start", "tool_end", "turn_end", "settled", "eof", "agent_retry"} :
           e \notin Agent!EndEvents
      /\ Agent!AgentEnds = Agent!EndEvents \cup {"agent_retry"}
  BY DEF Agent!Events, Agent!EndEvents, Agent!AgentEnds
<1> USE DEF Agent!Emit, Executing
<1>1. CASE Agent!PiStartsTool
  <2>1. PICK e \in {"tool_start", "write_start"} :
          out' = Append(out, e) /\ pi' = [pi EXCEPT !.st = "tool", !.calls = @ - 1, !.writing = e = "write_start"]
    BY <1>1 DEF Agent!PiStartsTool
  <2>2. pi.st = "turn" /\ pi.calls > 0 /\ UNCHANGED <<inbox, loop, shared, watch>>
    BY <1>1 DEF Agent!PiStartsTool
  <2>3. pi' \in PiRecords /\ pi'.cut = pi.cut /\ pi'.st = "tool"
    <3>1. ASSUME NEW b \in BOOLEAN, NEW c \in Nat, pi' = [pi EXCEPT !.st = "tool", !.calls = c, !.writing = b]
          PROVE  pi' \in PiRecords /\ pi'.cut = pi.cut /\ pi'.st = "tool"
      BY <1>0, <3>1 DEF PiRecords, Agent!PiStates
    <3>2. (e = "write_start") \in BOOLEAN /\ pi.calls - 1 \in Nat
      BY <1>0, <2>2 DEF PiRecords
    <3> QED BY <2>1, <3>1, <3>2
  <2> QED BY <1>a, <2>1, <2>2, <2>3, PiSays
<1>2. CASE Agent!PiSpawns
  <2>1. pi' \in PiRecords /\ pi'.cut = pi.cut /\ pi'.st = pi.st
    BY <1>0, <1>2 DEF Agent!PiSpawns, PiRecords, Agent!Children
  <2>2. UNCHANGED <<inbox, out, loop, shared, watch>>
    BY <1>2 DEF Agent!PiSpawns
  <2> QED BY <1>a, <2>1, <2>2, PiSays
<1>3. CASE Agent!PiEndsTool
  <2>1. pi' \in PiRecords /\ pi'.cut = pi.cut /\ pi'.st = "turn" /\ pi.st = "tool"
    BY <1>0, <1>3 DEF Agent!PiEndsTool, PiRecords, Agent!Children, Agent!PiStates
  <2>2. UNCHANGED <<inbox, loop, shared, watch>> /\ out' = Append(out, "tool_end")
    BY <1>3 DEF Agent!PiEndsTool
  <2> QED BY <1>a, <2>1, <2>2, PiSays
<1>4. CASE Agent!PiEndsWrite
  <2>1. pi' \in PiRecords /\ pi'.cut = pi.cut /\ pi'.st = "turn" /\ pi.st = "tool"
    BY <1>0, <1>4 DEF Agent!PiEndsWrite, PiRecords, Agent!PiStates
  <2>2. UNCHANGED <<inbox, loop, shared, watch>> /\ out' = Append(out, "tool_end")
    BY <1>4 DEF Agent!PiEndsWrite
  <2> QED BY <1>a, <2>1, <2>2, PiSays
<1>5. CASE Agent!PiEndsTurn
  <2>a. pi.st = "turn" /\ pi' = IF pi.work > 0 THEN [pi EXCEPT !.work = @ - 1] ELSE [pi EXCEPT !.st = "drain"]
    BY <1>5 DEF Agent!PiEndsTurn
  <2>1. pi' \in PiRecords /\ pi'.cut = pi.cut /\ pi.st = "turn"
    <3>1. CASE pi.work > 0
      BY <1>0, <2>a, <3>1 DEF PiRecords
    <3>2. CASE ~(pi.work > 0)
      BY <1>0, <2>a, <3>2 DEF PiRecords, Agent!PiStates
    <3> QED BY <3>1, <3>2
  <2>2. UNCHANGED <<inbox, loop, shared, watch>> /\ out' = Append(out, "turn_end")
    BY <1>5 DEF Agent!PiEndsTurn
  <2> QED BY <1>a, <2>1, <2>2, PiSays
<1>6. CASE Agent!PiDrains
  <2>1. UNCHANGED <<inbox, loop, shared, watch>> /\ pi.st = "drain"
    BY <1>6 DEF Agent!PiDrains
  <2>2. CASE pi.followups > 0
    <3>1. pi' = [pi EXCEPT !.followups = @ - 1, !.st = "turn"] /\ out' = out
      BY <1>6, <2>2 DEF Agent!PiDrains
    <3>2. PICK c \in Nat : pi' = [pi EXCEPT !.followups = c, !.st = "turn"]
      <4>1. pi.followups - 1 \in Nat
        BY <1>0, <2>2 DEF PiRecords
      <4> QED BY <3>1, <4>1
    <3>3. pi' \in PiRecords /\ pi'.cut = pi.cut
      BY <1>0, <3>2 DEF PiRecords, Agent!PiStates
    <3> QED BY <1>a, <2>1, <3>1, <3>3, PiSays
  <2>3. CASE ~(pi.followups > 0)
    <3>1. PICK e \in Agent!AgentEnds :
            out' = Append(out, e) /\ pi' = IF e = "agent_retry" THEN [pi EXCEPT !.st = "turn", !.retried = TRUE]
                                                               ELSE [pi EXCEPT !.st = "ended"]
      BY <1>6, <2>3 DEF Agent!PiDrains
    <3>2. pi' \in PiRecords /\ pi'.cut = pi.cut /\ (e # "agent_retry" => pi'.st = "ended")
      BY <1>0, <3>1 DEF PiRecords, Agent!PiStates
    <3> QED BY <1>a, <2>1, <3>1, <3>2, PiSays
  <2> QED BY <2>2, <2>3
<1>7. CASE Agent!PiSettles
  <2>1. pi' \in PiRecords /\ pi'.cut = pi.cut /\ pi'.st = "idle"
    BY <1>0, <1>7 DEF Agent!PiSettles, PiRecords, Agent!PiStates
  <2>2. UNCHANGED <<inbox, loop, shared, watch>> /\ out' = Append(out, "settled")
    BY <1>7 DEF Agent!PiSettles
  <2> QED BY <1>a, <2>1, <2>2, PiSays
<1>8. CASE Agent!PiDies
  <2>1. pi' \in PiRecords /\ pi'.cut = pi.cut /\ pi'.st = "gone"
    BY <1>0, <1>8 DEF Agent!PiDies, PiRecords, Agent!PiStates, Agent!Children
  <2>2. UNCHANGED <<inbox, loop, shared, watch>> /\ out' = Append(out, "eof")
    BY <1>8 DEF Agent!PiDies
  <2> QED BY <1>a, <2>1, <2>2, PiSays
<1> QED BY <1>1, <1>2, <1>3, <1>4, <1>5, <1>6, <1>7, <1>8

(* The loop: a line is read, stamped and handled.                          *)
LEMMA LineRead ==
  ASSUME AgentInv, Agent!Read PROVE AgentInv'
<1> USE DEF AgentInv
<1>1. out # <<>> /\ out' = Tail(out) /\ out \in Seq(Agent!Events) /\ UNCHANGED <<pi, inbox, watch>>
      /\ loop.pc = "read" /\ loop.sends = <<>> /\ loop \in LoopRecords /\ shared \in SharedRecords
  BY DEF Agent!Read, AgentTypes
<1>2. out' \in Seq(Agent!Events) /\ Head(out) \in Agent!Events /\ OneIn(Agent!EndEvents, out')
      /\ (Returning' => Returning) /\ (Head(out) \in Agent!EndEvents => Returning /\ ~Returning')
  BY <1>1, TailKeeps DEF OneRun, Returning
<1>3. PICK at \in {"done", "sample", "disarm", "handle"} :
        loop' = [loop EXCEPT !.ev = Head(out), !.pc = at] /\ (at = "done" => Head(out) = "eof")
  <2> DEFINE at == CASE Head(out) = "eof" -> "done"
                     [] Head(out) \in {"tool_start", "write_start"} -> "sample"
                     [] Head(out) \in {"tool_end", "turn_end"} \cup Agent!AgentEnds -> "disarm"
                     [] OTHER -> "handle"
  <2>1. loop' = [loop EXCEPT !.ev = Head(out), !.pc = at]
    BY DEF Agent!Read
  <2>2. at \in {"done", "sample", "disarm", "handle"} /\ (at = "done" => Head(out) = "eof")
    BY DEF Agent!AgentEnds, Agent!EndEvents
  <2> HIDE DEF at
  <2> QED BY <2>1, <2>2
<1>4. loop' \in LoopRecords /\ loop'.pc = at /\ loop'.ev = Head(out)
      /\ loop'.sends = loop.sends /\ loop'.aborted = loop.aborted /\ loop'.stop = loop.stop
      /\ loop'.pending = loop.pending
  BY <1>1, <1>2, <1>3 DEF LoopRecords
<1>5. shared' \in SharedRecords /\ shared'.reason = shared.reason
  BY <1>1 DEF Agent!Read, SharedRecords
<1>6. ~Over' /\ (Arrived' => Returning /\ ~Returning')
  BY <1>2, <1>3, <1>4 DEF Over, Arrived, Agent!EndEvents
<1>7. OneRun'
  BY <1>1, <1>2, <1>4, <1>6 DEF OneRun, Posted, Held, Executing
<1>8. AgentTypes'
  BY <1>1, <1>2, <1>4, <1>5 DEF AgentTypes
<1>9. <<>> # <<"prompt">>
  OBVIOUS
<1> QED BY <1>1, <1>4, <1>5, <1>6, <1>7, <1>8, <1>9 DEF AbortIsSaid, Said

LEMMA LineStamped ==
  ASSUME AgentInv, Agent!SampleBaseline \/ Agent!Arm \/ Agent!Disarm PROVE AgentInv'
<1> USE DEF AgentInv
<1>0. loop \in LoopRecords /\ shared \in SharedRecords
  BY DEF AgentTypes
<1>1. PICK at \in {"arm", "handle"} : loop' = [loop EXCEPT !.pc = at]
  BY DEF Agent!SampleBaseline, Agent!Arm, Agent!Disarm
<1>2. UNCHANGED <<pi, inbox, out, watch>> /\ loop.pc \in {"sample", "arm", "disarm"}
  BY DEF Agent!SampleBaseline, Agent!Arm, Agent!Disarm
<1>3. loop' \in LoopRecords /\ loop'.pc = at /\ UNCHANGED <<loop.ev, loop.sends, loop.aborted, loop.stop, loop.pending>>
  BY <1>0, <1>1 DEF LoopRecords
<1>4. shared' \in SharedRecords /\ shared'.reason = shared.reason
  <2>1. CASE Agent!SampleBaseline
    <3>1. (pi.child # "none") \in BOOLEAN
      OBVIOUS
    <3>2. ASSUME NEW b \in BOOLEAN, shared' = [shared EXCEPT !.baseline = b]
          PROVE  shared' \in SharedRecords /\ shared'.reason = shared.reason
      BY <1>0, <3>2 DEF SharedRecords
    <3> QED BY <2>1, <3>1, <3>2 DEF Agent!SampleBaseline
  <2>2. CASE Agent!Arm \/ Agent!Disarm
    <3>1. PICK g \in Nat, b \in BOOLEAN :
            shared' = [shared EXCEPT !.gen = g, !.armed = b, !.quiet = FALSE, !.capped = FALSE]
      <4>1. shared.gen + 1 \in Nat
        BY <1>0 DEF SharedRecords
      <4> QED BY <2>2, <4>1 DEF Agent!Arm, Agent!Disarm
    <3> QED BY <1>0, <3>1 DEF SharedRecords
  <2> QED BY <2>1, <2>2
<1>5. UNCHANGED <<Posted, Held, Executing, Returning, Arrived, Over>>
  BY <1>2, <1>3 DEF Posted, Held, Executing, Returning, Arrived, Over
<1>6. OneRun'
  BY <1>2, <1>3, <1>5 DEF OneRun
<1>7. AgentTypes'
  BY <1>2, <1>3, <1>4 DEF AgentTypes
<1> QED BY <1>2, <1>3, <1>4, <1>5, <1>6, <1>7 DEF AbortIsSaid, Said

(* What handling a line makes of the loop.                                 *)
LEMMA HandledLine ==
  ASSUME NEW l \in LoopRecords, l.pc = "read", l.aborted => l.stop \in {"max_turns", "stalled"},
         MaxTurns \in Nat, NEW h, h = Agent!Handled(Agent!Noticed(l))
  PROVE  /\ h \in LoopRecords /\ h.ev = l.ev /\ h.pc \in {"read", "done"}
         /\ l.aborted \/ shared.reason => h.aborted
         /\ h.aborted /\ (h.pc = "done" => h.ev # "refused") => h.stop \in {"max_turns", "stalled"}
         /\ h.sends = <<"abort", "follow_up">> => h.aborted \/ h.sends = l.sends
         /\ h.sends = <<"prompt">> => h.sends = l.sends \/ (l.pending /\ ~h.pending /\ l.ev = "settled")
         /\ h.pending => l.pending \/ (l.ev \in Agent!EndEvents /\ h.pc = "read")
         /\ h.sends = <<"prompt">> /\ h.pending => l.pending \/ h.sends = l.sends
<1> DEFINE n == Agent!Noticed(l)
<1>1. /\ n \in LoopRecords /\ n.pc = "read" /\ n.ev = l.ev /\ n.sends = l.sends /\ n.pending = l.pending
      /\ l.aborted \/ shared.reason => n.aborted
      /\ n.aborted => n.stop \in {"max_turns", "stalled"}
  BY DEF Agent!Noticed, LoopRecords
<1> HIDE DEF n
<1>2. h = Agent!Handled(n)
  BY DEF n
<1>a. n.ev \in Agent!EndEvents <=> n.ev \in {"agent_end", "agent_error"}
  BY DEF Agent!EndEvents
<1>b. <<"prompt">> # <<"abort", "follow_up">> /\ <<"prompt">> \in Sends /\ <<"abort", "follow_up">> \in Sends
  BY DEF Sends
<1>3. CASE n.ev = "refused"
  <2>1. PICK w \in {"error", n.stop} : h = [n EXCEPT !.pc = "done", !.stop = w]
    BY <1>2, <1>3 DEF Agent!Handled, Agent!EndEvents
  <2> QED BY <1>1, <1>3, <1>a, <2>1 DEF LoopRecords
<1>4. CASE n.ev = "write_start"
  <2>1. h = [n EXCEPT !.wrote = TRUE]
    BY <1>2, <1>4 DEF Agent!Handled, Agent!EndEvents
  <2> QED BY <1>1, <1>4, <1>a, <2>1 DEF LoopRecords
<1>5. CASE n.ev = "turn_end" /\ ~n.aborted
  <2>1. h = Agent!Capped(n)
    BY <1>2, <1>5 DEF Agent!Handled, Agent!EndEvents
  <2>2. CASE n.turns + 1 >= MaxTurns
    <3>1. PICK m \in Nat, s \in Sends :
            /\ h = [n EXCEPT !.turns = m, !.stop = "max_turns", !.aborted = TRUE, !.sends = s]
            /\ s # <<"prompt">>
      <4>1. n.turns + 1 \in Nat
        BY <1>1 DEF LoopRecords
      <4> QED BY <1>b, <2>1, <2>2, <4>1 DEF Agent!Capped
    <3> QED BY <1>1, <1>5, <1>a, <1>b, <3>1 DEF LoopRecords
  <2>3. CASE ~(n.turns + 1 >= MaxTurns)
    <3>1. PICK m \in Nat : h = [n EXCEPT !.turns = m]
      <4>1. n.turns + 1 \in Nat
        BY <1>1 DEF LoopRecords
      <4> QED BY <2>1, <2>3, <4>1 DEF Agent!Capped
    <3> QED BY <1>1, <1>5, <1>a, <3>1 DEF LoopRecords
  <2> QED BY <2>2, <2>3
<1>6. CASE n.ev \in Agent!EndEvents
  <2> DEFINE told == IF n.ev = "agent_error" /\ ~n.asked /\ ~n.aborted THEN [n EXCEPT !.stop = "error"] ELSE n
  <2>1. h = IF Agent!ShouldAsk(n, n.ev) THEN [told EXCEPT !.pending = TRUE] ELSE [told EXCEPT !.pc = "done"]
    BY <1>2, <1>6, <1>a DEF Agent!Handled, Agent!EndOfRun
  <2>2. /\ told \in LoopRecords /\ told.pc = "read" /\ told.ev = n.ev /\ told.sends = n.sends
        /\ told.pending = n.pending /\ told.aborted = n.aborted
        /\ told.aborted => told.stop \in {"max_turns", "stalled"}
    BY <1>1 DEF LoopRecords
  <2> HIDE DEF told
  <2> QED BY <1>1, <1>6, <1>a, <2>1, <2>2 DEF LoopRecords
<1>7. CASE n.ev = "settled"
  <2>1. h = Agent!Ask(n)
    BY <1>2, <1>7 DEF Agent!Handled, Agent!EndEvents
  <2>2. CASE n.pending
    <3>1. PICK s \in Sends : s = <<"prompt">> /\ h = [n EXCEPT !.pending = FALSE, !.asked = TRUE, !.sends = s]
      BY <1>b, <2>1, <2>2 DEF Agent!Ask
    <3> QED BY <1>1, <1>7, <1>a, <1>b, <2>2, <3>1 DEF LoopRecords
  <2>3. CASE ~n.pending
    BY <1>1, <1>7, <1>a, <2>1, <2>3 DEF Agent!Ask
  <2> QED BY <2>2, <2>3
<1>8. CASE n.ev \notin {"refused", "write_start", "settled"} \cup Agent!EndEvents /\ (n.ev = "turn_end" => n.aborted)
  <2>1. h = n
    BY <1>2, <1>8 DEF Agent!Handled, Agent!EndEvents
  <2> QED BY <1>1, <1>8, <2>1
<1> QED BY <1>3, <1>4, <1>5, <1>6, <1>7, <1>8

LEMMA LineHandled ==
  ASSUME AgentInv, MaxTurns \in Nat, Agent!Handle PROVE AgentInv'
<1> USE DEF AgentInv
<1>0. loop \in LoopRecords /\ loop.pc = "handle" /\ UNCHANGED <<pi, inbox, out, shared, watch>>
  BY DEF Agent!Handle, AgentTypes
<1> DEFINE l == [loop EXCEPT !.pc = "read"]
<1>1. /\ l \in LoopRecords /\ l.pc = "read" /\ l.ev = loop.ev /\ l.sends = loop.sends /\ l.pending = loop.pending
      /\ l.aborted = loop.aborted /\ l.stop = loop.stop
  BY <1>0 DEF LoopRecords
<1>2. loop' = Agent!Handled(Agent!Noticed(l))
  BY DEF Agent!Handle
<1>3. l.aborted => l.stop \in {"max_turns", "stalled"}
  BY <1>0, <1>1 DEF AbortIsSaid
<1> HIDE DEF l
<1>4. /\ loop' \in LoopRecords /\ loop'.ev = loop.ev /\ loop'.pc \in {"read", "done"}
      /\ loop.aborted \/ shared.reason => loop'.aborted
      /\ loop'.aborted /\ (loop'.pc = "done" => loop'.ev # "refused") => loop'.stop \in {"max_turns", "stalled"}
      /\ loop'.sends = <<"abort", "follow_up">> => loop'.aborted \/ loop'.sends = loop.sends
      /\ loop'.sends = <<"prompt">> => loop'.sends = loop.sends \/ (loop.pending /\ ~loop'.pending /\ loop.ev = "settled")
      /\ loop'.pending => loop.pending \/ (loop.ev \in Agent!EndEvents /\ loop'.pc = "read")
      /\ loop'.sends = <<"prompt">> /\ loop'.pending => loop.pending \/ loop'.sends = loop.sends
  BY <1>1, <1>2, <1>3, HandledLine
<1>5. /\ Held' => Held \/ (loop.pending /\ ~loop'.pending)
      /\ loop'.pending => loop.pending \/ (Arrived /\ ~Over')
      /\ Over' => Arrived
      /\ ~Arrived'
      /\ UNCHANGED <<Posted, Executing, Returning>>
  BY <1>0, <1>4 DEF Held, Arrived, Over, Posted, Executing, Returning
<1>6. OneRun'
  BY <1>0, <1>4, <1>5 DEF OneRun
<1>7. AgentTypes'
  BY <1>0, <1>4 DEF AgentTypes
<1> QED BY <1>0, <1>4, <1>6, <1>7 DEF AbortIsSaid, Said

LEMMA CommandSent ==
  ASSUME AgentInv, Agent!SendNext PROVE AgentInv'
<1> USE DEF AgentInv
<1>0. loop \in LoopRecords /\ loop.pc = "read" /\ loop.sends # <<>> /\ UNCHANGED <<pi, out, shared, watch>>
      /\ inbox \in Seq(Agent!Commands)
  BY DEF Agent!SendNext, AgentTypes
<1>1. loop.sends \in Sends
  BY <1>0 DEF LoopRecords
<1>2. /\ Tail(loop.sends) \in {<<>>, <<"follow_up">>} /\ Head(loop.sends) \in Agent!Commands
      /\ Head(loop.sends) = "prompt" => Held
      /\ Head(loop.sends) = "abort" => loop.sends = <<"abort", "follow_up">>
  <2>1. CASE loop.sends = <<"abort", "follow_up">>
    <3>1. Head(loop.sends) = "abort" /\ Tail(loop.sends) = <<"follow_up">>
      BY <2>1
    <3> QED BY <2>1, <3>1 DEF Agent!Commands
  <2>2. CASE loop.sends = <<"follow_up">>
    <3>1. Head(loop.sends) = "follow_up" /\ Tail(loop.sends) = <<>>
      BY <2>2
    <3> QED BY <3>1 DEF Agent!Commands
  <2>3. CASE loop.sends = <<"prompt">>
    <3>1. Head(loop.sends) = "prompt" /\ Tail(loop.sends) = <<>>
      BY <2>3
    <3> QED BY <2>3, <3>1 DEF Held, Agent!Commands
  <2> QED BY <1>0, <1>1, <2>1, <2>2, <2>3 DEF Sends
<1>3. PICK at \in {"read", "done"} :
        /\ loop' = [loop EXCEPT !.sends = Tail(@), !.pc = at]
        /\ at = "done" => pi.st = "gone" /\ Head(loop.sends) = "prompt"
  BY <1>0 DEF Agent!SendNext
<1>4. loop' \in LoopRecords /\ loop'.pc = at /\ loop'.sends \in {<<>>, <<"follow_up">>}
      /\ UNCHANGED <<loop.ev, loop.aborted, loop.stop, loop.pending>>
  BY <1>0, <1>2, <1>3 DEF LoopRecords, Sends
<1>5. loop'.sends # <<"prompt">> /\ loop'.sends # <<"abort", "follow_up">> /\ ~Held'
  <2>1. <<"follow_up">> # <<"prompt">> /\ <<"follow_up">> # <<"abort", "follow_up">>
    OBVIOUS
  <2>2. <<>> # <<"prompt">> /\ <<>> # <<"abort", "follow_up">>
    OBVIOUS
  <2> QED BY <1>4, <2>1, <2>2 DEF Held
<1>6. inbox' = IF pi.st = "gone" THEN inbox ELSE Append(inbox, Head(loop.sends))
  BY <1>0, <1>2, JoinedOne DEF Agent!SendNext, Agent!Sent
<1>7. /\ inbox' \in Seq(Agent!Commands)
      /\ Posted' => Posted \/ (Held /\ inbox' # inbox)
      /\ OneIn({"prompt"}, inbox')
      /\ ~NoneIn({"abort"}, inbox') => ~NoneIn({"abort"}, inbox) \/ loop.sends = <<"abort", "follow_up">>
  <2>1. CASE inbox' = inbox
    BY <1>0, <2>1 DEF OneRun, Posted
  <2>2. CASE inbox' = Append(inbox, Head(loop.sends))
    <3>1. CASE Head(loop.sends) = "prompt"
      <4>1. NoneIn({"prompt"}, inbox)
        BY <1>2, <3>1 DEF OneRun, Posted
      <4> QED BY <1>0, <1>2, <2>2, <3>1, <4>1, AppendKeeps DEF Posted
    <3>2. CASE Head(loop.sends) # "prompt"
      BY <1>0, <1>2, <2>2, <3>2, AppendKeeps DEF OneRun, Posted
    <3> QED BY <3>1, <3>2
  <2> QED BY <1>6, <2>1, <2>2
<1>8. /\ ~Arrived' /\ ~Arrived /\ ~Over
      /\ ~Over'
      /\ UNCHANGED <<Executing, Returning>>
  BY <1>0, <1>2, <1>3, <1>4, <1>6 DEF Arrived, Over, Executing, Returning, Held, AbortIsSaid, Agent!EndEvents
<1>9. OneRun'
  BY <1>0, <1>4, <1>5, <1>7, <1>8 DEF OneRun
<1>10. AgentTypes'
  BY <1>0, <1>4, <1>7 DEF AgentTypes
<1> QED BY <1>0, <1>3, <1>4, <1>5, <1>7, <1>8, <1>9, <1>10 DEF AbortIsSaid, Said

(* The watch: the reason is set under the lock, the abort is sent after.   *)
LEMMA WatchSays ==
  ASSUME AgentInv, Agent!WatchAborts \/ Agent!WatchFollowsUp PROVE AgentInv'
<1> USE DEF AgentInv
<1>0. UNCHANGED <<pi, out, loop, shared>> /\ inbox \in Seq(Agent!Commands) /\ watch \in WatchRecords
  BY DEF Agent!WatchAborts, Agent!WatchFollowsUp, AgentTypes
<1>1. PICK c \in {"abort", "follow_up"}, at \in {"follow_up", "poll"} :
        /\ inbox' = IF pi.st = "gone" THEN inbox ELSE inbox \o <<c>>
        /\ watch' = [watch EXCEPT !.pc = at]
        /\ c = "abort" => shared.reason
  BY DEF Agent!WatchAborts, Agent!WatchFollowsUp, Agent!Sent, AbortIsSaid
<1>2. c \in Agent!Commands /\ inbox \o <<c>> = Append(inbox, c)
  BY <1>0, JoinedOne DEF Agent!Commands
<1>3. /\ inbox' \in Seq(Agent!Commands) /\ (Posted' => Posted) /\ OneIn({"prompt"}, inbox')
      /\ ~NoneIn({"abort"}, inbox') => ~NoneIn({"abort"}, inbox) \/ c = "abort"
  <2>1. CASE inbox' = inbox
    BY <1>0, <2>1 DEF OneRun, Posted
  <2>2. CASE inbox' = Append(inbox, c)
    BY <1>0, <1>2, <2>2, AppendKeeps DEF OneRun, Posted
  <2> QED BY <1>1, <1>2, <2>1, <2>2
<1>4. watch' \in WatchRecords /\ watch'.pc = at
  BY <1>0, <1>1 DEF WatchRecords
<1>5. OneRun'
  BY <1>0, <1>3 DEF OneRun, Held, Executing, Returning, Arrived, Over
<1>6. AgentTypes'
  BY <1>0, <1>3, <1>4 DEF AgentTypes
<1> QED BY <1>0, <1>1, <1>3, <1>4, <1>5, <1>6 DEF AbortIsSaid, Said, Over

LEMMA WatchLooks ==
  ASSUME AgentInv, Agent!PiConstants,
         Agent!GapPasses \/ Agent!CapPasses \/ Agent!Poll \/ Agent!Confirm \/ Agent!Decide
  PROVE  AgentInv'
<1> USE DEF AgentInv
<1>0. UNCHANGED <<pi, out, inbox, loop>> /\ shared \in SharedRecords /\ watch \in WatchRecords
  BY DEF Agent!GapPasses, Agent!CapPasses, Agent!Poll, Agent!Confirm, Agent!Decide, AgentTypes
<1>1. /\ shared' \in SharedRecords /\ watch' \in WatchRecords
      /\ shared.reason => shared'.reason
      /\ watch'.pc = "abort" => shared'.reason
  <2>1. CASE Agent!GapPasses \/ Agent!CapPasses
    BY <1>0, <2>1 DEF Agent!GapPasses, Agent!CapPasses, SharedRecords, AbortIsSaid
  <2>2. CASE Agent!Poll
    <3>1. shared' = shared
      BY <2>2 DEF Agent!Poll
    <3>2. CASE watch' = [watch EXCEPT !.pc = "decide", !.kind = "capped", !.gen = shared.gen]
      BY <1>0, <3>1, <3>2 DEF SharedRecords, WatchRecords
    <3>3. CASE watch' = [watch EXCEPT !.pc = "confirm", !.kind = "stalled", !.gen = shared.gen,
                                  !.baseline = shared.baseline, !.n = 0]
      BY <1>0, <3>1, <3>3 DEF SharedRecords, WatchRecords
    <3> QED BY <2>2, <3>2, <3>3 DEF Agent!Poll
  <2>3. CASE Agent!Confirm
    <3>1. shared' = shared /\ watch.n + 1 \in Nat
      BY <1>0, <2>3 DEF Agent!Confirm, WatchRecords
    <3>2. PICK at \in {"decide", "confirm", "poll"}, m \in Nat : watch' = [watch EXCEPT !.pc = at, !.n = m]
      <4>1. watch = [watch EXCEPT !.pc = "confirm", !.n = watch.n] \/ ~(watch.pc = "confirm")
        BY <1>0 DEF WatchRecords
      <4>2. watch.n \in Nat /\ watch.pc = "confirm"
        BY <1>0, <2>3 DEF WatchRecords, Agent!Confirm
      <4>3. CASE watch' = [watch EXCEPT !.pc = "decide"]
        BY <1>0, <4>2, <4>3 DEF WatchRecords
      <4>4. CASE watch' = [watch EXCEPT !.n = @ + 1]
        BY <1>0, <3>1, <4>2, <4>4 DEF WatchRecords
      <4>5. CASE watch' = [watch EXCEPT !.pc = "poll"]
        BY <1>0, <4>2, <4>5 DEF WatchRecords
      <4> QED BY <2>3, <4>3, <4>4, <4>5 DEF Agent!Confirm
    <3> QED BY <1>0, <3>1, <3>2 DEF WatchRecords
  <2>4. CASE Agent!Decide
    <3>1. CASE shared' = [shared EXCEPT !.armed = FALSE, !.reason = TRUE] /\ watch' = [watch EXCEPT !.pc = "abort"]
      BY <1>0, <3>1 DEF SharedRecords, WatchRecords
    <3>2. CASE shared' = shared /\ watch' = [watch EXCEPT !.pc = "poll"]
      BY <1>0, <3>2 DEF WatchRecords
    <3> QED BY <2>4, <3>1, <3>2 DEF Agent!Decide
  <2> QED BY <2>1, <2>2, <2>3, <2>4
<1>2. OneRun'
  BY <1>0 DEF OneRun, Posted, Held, Executing, Returning, Arrived, Over
<1>3. AgentTypes'
  BY <1>0, <1>1 DEF AgentTypes
<1> QED BY <1>0, <1>1, <1>2, <1>3 DEF AbortIsSaid, Said, Over

LEMMA AgentStep ==
  ASSUME Agent!PiConstants, AgentInv, [Agent!Next]_Agent!vars PROVE AgentInv'
<1>0. MaxTurns \in Nat
  BY DEF Agent!PiConstants
<1>1. CASE UNCHANGED Agent!vars \/ Agent!Done
  BY <1>1 DEF Agent!vars, Agent!Done, AgentInv, AgentTypes, OneRun, AbortIsSaid, Said, Posted, Held, Executing,
     Returning, Arrived, Over
<1>2. CASE Agent!PiPrompt \/ Agent!PiAbort \/ Agent!PiFollowUp
  BY <1>2, PiReads DEF Agent!PiAnswers
<1>3. CASE \/ Agent!PiStartsTool \/ Agent!PiSpawns \/ Agent!PiEndsTool \/ Agent!PiEndsWrite
           \/ Agent!PiEndsTurn \/ Agent!PiDrains \/ Agent!PiSettles \/ Agent!PiDies
  BY <1>3, PiActs
<1>4. CASE Agent!Read
  BY <1>4, LineRead
<1>5. CASE Agent!SampleBaseline \/ Agent!Arm \/ Agent!Disarm
  BY <1>5, LineStamped
<1>6. CASE Agent!Handle
  BY <1>0, <1>6, LineHandled
<1>7. CASE Agent!SendNext
  BY <1>7, CommandSent
<1>8. CASE Agent!WatchAborts \/ Agent!WatchFollowsUp
  BY <1>8, WatchSays
<1>9. CASE Agent!GapPasses \/ Agent!CapPasses \/ Agent!Poll \/ Agent!Confirm \/ Agent!Decide
  BY <1>9, WatchLooks
<1> QED BY <1>1, <1>2, <1>3, <1>4, <1>5, <1>6, <1>7, <1>8, <1>9 DEF Agent!Next

(* backend_pi.py: whichever of the cap and the watch cuts a run, and in    *)
(* whatever order its end and their commands cross, a run that was read to *)
(* its end is recorded as cut, never as one that completed by itself.      *)
THEOREM CutIsAlwaysSaid == Spec => []CutIsSaid
<1>0. Agent!PiConstants
  BY ConstantsAssumption
<1>1. Init => AgentInv
  BY <1>0, EveryPartStarts, AgentInit
<1>2. AgentInv /\ [Next]_vars => AgentInv'
  BY <1>0, OnePartMoves, AgentStep
<1>3. AgentInv => CutIsSaid
  BY DEF AgentInv, AbortIsSaid, CutIsSaid, Agent!CutIsSaid, Over, Agent!EndEvents
<1> QED BY <1>1, <1>2, <1>3, PTL DEF Spec
-----------------------------------------------------------------------------
(* ReviewRun: what a review that reads as completed has read.              *)

Phases == {"scan", "synthesis", "disprove"}
ReviewReads == [Groups -> Nat]
ReviewStates ==
  [head : Nat, done : SUBSET Phases, failed : SUBSET {"synthesis", "disprove"},
   groupsDone : SUBSET Groups, groupsFailed : SUBSET Groups]
ReviewRecords == [there : BOOLEAN, reads : ReviewReads, judged : BOOLEAN]
PriorRecords == [there : BOOLEAN, page : BOOLEAN, reads : ReviewReads, head : Nat]

Opening == {"archive", "archive record", "collect"}
Choosing == {"choose", "plan"}
Reading == {"scan", "unrun", "groups", "synthesis"}
Writing == {"publish", "publish meta"}
Judging == {"synthesised", "gate", "judged", "stamp"}
Closing == {"sweep", "sweep state", "finish"}
RunStages == {"off"} \cup Opening \cup Choosing \cup Reading \cup Writing \cup Judging \cup Closing

Unread == {"todo", "again", "ran", "reran", "failed", "lost", "skipped"}
GroupWords == Unread \cup {"ok", "reuse", "carried", "left", "unread"}

RunRecords ==
  [at : RunStages, head : Nat, tree : Nat, asks : BOOLEAN, base : PriorRecords, st : ReviewStates,
   g : [Groups -> GroupWords], atGate : BOOLEAN, over : BOOLEAN, bad : BOOLEAN, doc : ReviewRecords,
   status : {"", "completed", "partial"}, next : {"off", "sweep", "gate", "synthesised"}]

(* A run of the pipeline, from its first state to the sweep.               *)
Working ==
  \/ run.at \in Reading \cup Judging
  \/ run.at \in Writing /\ run.next # "sweep"

(* The run may still be killed.                                            *)
Mortal == "kill" \in faults /\ kills < MaxKills

ReviewTypes ==
  /\ commits \in Seq(SUBSET Groups) /\ Review!Tip \in Nat \ {0}
  /\ state \in ReviewStates /\ outputs \in ReviewReads
  /\ record \in ReviewRecords /\ prior \in PriorRecords /\ run \in RunRecords
  /\ meta \in [head : 0..Review!Tip, status : {"", "completed", "partial"}] /\ {page, spent} \subseteq BOOLEAN
  /\ kills \in Nat /\ faults \subseteq {"fail", "kill", "budget"}
  /\ "fail" \in faults => "kill" \notin faults

(* The last change of a group, of the commits up to a head.                *)
LastChange(c, h, g, k) == k \in 1..h /\ g \in c[k] /\ \A j \in (k + 1)..h : g \notin c[j]
VersionIn(c, h, g) ==
  IF h = 0 THEN 0 ELSE CHOOSE k \in 1..h : g \in c[k] /\ \A j \in (k + 1)..h : g \notin c[j]
AllChanged(c) == \A h \in 1..Len(c) : \A g \in Groups : \E k \in 1..h : LastChange(c, h, g, k)

(* Reads that are about every group as it was at a head, or later.         *)
Whole(c, reads, h) == \A g \in Groups : VersionIn(c, h, g) <= reads[g]

(* What a round at head h takes over from the one before it.               *)
CarriedIn(c, base, h) ==
  {g \in Groups : base.there /\ base.head \notin {0, h} /\ \A k \in (base.head + 1)..h : g \notin c[k]}

(* The groups a state takes for read were read.                            *)
ReadOf(c, o, r, s, h) ==
  \A g \in s.groupsDone : o[g] # 0 /\ g \notin r /\ VersionIn(c, h, g) <= o[g]

HasSynthesis(s) == "synthesis" \in s.done
(* A state by which no review reads as completed.                          *)
Unfinished(s) == s # Review!Absent /\ (~Review!Clean(s) \/ s.done \subseteq {"scan"})

HeadInv ==
  /\ state = Review!Absent \/ state.head \in 1..Review!Tip
  /\ prior.head \in 0..Review!Tip /\ run.base.head \in 0..Review!Tip
  /\ run.at \in {"archive", "archive record"} => state = Review!Absent
  /\ run.at \in Opening =>
       /\ run.tree \in 1..Review!Tip
       /\ (run.head = 0 /\ run.tree = Review!Tip) \/ (run.head = run.tree /\ state # Review!Absent)
  /\ run.at \notin {"off"} \cup Opening => run.head \in 1..Review!Tip /\ run.tree = run.head
  /\ run.at \in Choosing \cup Writing /\ state = Review!Absent => meta.head <= run.head
  /\ Working => state # Review!Absent /\ state.head = run.head /\ run.st.head = run.head
  /\ run.at \in Writing => run.next # "off"
  /\ run.at = "stamp" => run.next \in {"sweep", "gate"}
  /\ run.at = "synthesised" => run.next = "synthesised"

PriorInv ==
  /\ prior.there => Whole(commits, prior.reads, prior.head)
  /\ run.at = "archive" => run.asks = page
  /\ run.at \notin {"off"} \cup Opening => run.base = IF run.asks THEN prior ELSE Review!NoPrior

(* A group is done in the state once its output is there and read.         *)
WordInv ==
  Working =>
    /\ ReadOf(commits, outputs, rejected, run.st, run.head)
    /\ state.groupsDone \subseteq run.st.groupsDone
    /\ \A g \in Groups :
         /\ run.g[g] \in {"carried", "left"} => g \in CarriedIn(commits, run.base, run.head)
         /\ run.g[g] \in Unread => g \notin run.st.groupsDone
         /\ run.g[g] \in {"ran", "reran"} /\ outputs[g] # 0 => VersionIn(commits, run.head, g) <= outputs[g]
         /\ run.g[g] \in {"ok", "reuse"} => g \in run.st.groupsDone
         /\ run.g[g] \in {"failed", "lost"} => g \in run.st.groupsFailed
    /\ run.at \in {"scan", "unrun"} => \A g \in Groups : run.g[g] \in {"todo", "reuse", "carried"}
    /\ run.at = "unrun" => run.over
    /\ run.at = "groups" => \A g \in Groups : run.g[g] \notin {"left", "unread"}
    /\ run.at = "synthesis" =>
         \/ run.over /\ \A g \in Groups : run.g[g] \in {"left", "unread"}
         \/ \A g \in Groups : run.g[g] \in {"ok", "reuse", "carried"}
         \/ \E g \in Groups : run.g[g] \in {"failed", "lost"}

(* What the state file says, beside the state the run has in hand.         *)
StateInv ==
  /\ state.failed # {} => HasSynthesis(state)
  /\ HasSynthesis(state) => "scan" \in state.done
  /\ ~Working =>
       /\ "disprove" \in state.done => HasSynthesis(state)
       /\ Review!Status(state) # "completed" => ReadOf(commits, outputs, rejected, state, state.head)
  /\ run.at \in Reading =>
       /\ run.st.failed = {}
       /\ "scan" \in run.st.done \/ (run.at = "scan" /\ ~HasSynthesis(run.st))
       /\ run.atGate => state = run.st /\ HasSynthesis(state)
  /\ run.at \in Writing \cup {"synthesised"} /\ run.next = "synthesised" =>
       run.st.failed = {} /\ "scan" \in run.st.done
  /\ run.at \in Writing /\ run.next = "gate" =>
       run.st.failed = {"synthesis"} /\ "scan" \in run.st.done /\ HasSynthesis(run.st) /\ state = run.st
  /\ run.at \in {"gate", "judged", "stamp"} =>
       "scan" \in run.st.done /\ HasSynthesis(run.st) /\ state = run.st
  /\ run.at \in {"gate", "judged"} \/ (run.at = "stamp" /\ run.next = "gate") => "disprove" \notin run.st.failed
  /\ run.at = "sweep state" => Review!Status(state) = "completed"

(* What the record is about while the pipeline has it in hand.             *)
RecordInv ==
  /\ run.at \in Writing => run.doc.there
  /\ run.at \in Writing /\ run.next = "sweep" => run.doc.judged /\ Whole(commits, run.doc.reads, run.head)
  /\ run.at \in Writing /\ run.next = "synthesised" /\ run.st.groupsFailed = {} =>
       Whole(commits, run.doc.reads, run.head)
  /\ run.at = "publish meta" => record = run.doc
  /\ run.at = "synthesised" /\ run.st.groupsFailed = {} => Whole(commits, record.reads, meta.head)
  /\ run.at \in Reading /\ run.atGate /\ record.there => Whole(commits, record.reads, meta.head)
  /\ run.at \in {"gate", "judged", "stamp"} /\ Review!Clean(run.st) /\ record.there =>
       Whole(commits, record.reads, meta.head)
  /\ run.at = "judged" /\ ~run.bad => record.judged
  /\ run.at = "stamp" /\ run.next = "sweep" /\ Review!Clean(run.st) /\ record.there => record.judged

(* What the state says of the record is true: whenever nobody is about to  *)
(* mend it, and all the time as long as the run may be killed.             *)
Sound ==
  record.there =>
    /\ state = Review!Absent \/ (Review!Clean(state) /\ HasSynthesis(state)) =>
         Whole(commits, record.reads, meta.head)
    /\ Review!Status(state) = "completed" => record.judged
Rest ==
  \/ run.at \in {"off"} \cup Opening \cup Choosing \cup Closing
  \/ run.at = "publish" /\ run.next = "sweep"
SoundInv == Rest \/ Mortal => Sound

(* Where no agent fails, no group does.                                    *)
KillInv ==
  "fail" \notin faults =>
    /\ state.groupsFailed = {}
    /\ Working =>
         /\ run.st.groupsFailed = {}
         /\ \A g \in Groups : run.g[g] \in {"ran", "reran"} => outputs[g] # 0 /\ g \notin rejected
         /\ \A g \in Groups : run.g[g] \notin {"failed", "lost", "skipped"}

(* What the runs before the first kill leave.  Short of a budget, a run    *)
(* ends with a gate that failed, and the next one begins there.            *)
MortalInv ==
  Mortal =>
    /\ run.at \in {"off", "archive"} => state # Review!Absent \/ ~prior.page
    /\ run.at \notin {"off", "archive"} => prior.page = run.asks
    /\ ~Working /\ run.at \notin {"sweep", "sweep state"} =>
         state = Review!Absent \/ "disprove" \in state.failed
    /\ "disprove" \in state.done => HasSynthesis(state)
    /\ HasSynthesis(state) /\ "synthesis" \notin state.failed =>
         Groups \subseteq
           state.groupsDone \cup (IF prior.page THEN CarriedIn(commits, prior, state.head) ELSE {})
    /\ run.at \in Reading \cup {"synthesised"} \/ (run.at \in Writing /\ run.next # "sweep") =>
         "disprove" \notin run.st.done /\ Unfinished(state)
    /\ run.at \in Reading =>
         /\ ~run.atGate
         /\ HasSynthesis(run.st) => \A g \in Groups : run.g[g] \in {"reuse", "carried", "left", "unread"}
    /\ run.at = "synthesised" \/ (run.at \in Writing /\ run.next = "synthesised") =>
         /\ Groups \subseteq run.st.groupsDone \cup CarriedIn(commits, run.base, run.head)
         /\ run.bad => run.over
    /\ Working /\ run.at \notin Reading \cup {"judged"} /\ "synthesis" \in run.st.failed =>
         run.over \/ "disprove" \in run.st.failed
    /\ run.at = "judged" /\ "synthesis" \in run.st.failed => run.bad
    /\ (run.at = "stamp" /\ run.next = "sweep") \/ run.at \in {"sweep", "sweep state"} =>
         state = Review!Absent \/ "disprove" \in state.failed \/ Review!Status(state) = "completed"

ReviewInv ==
  /\ ReviewTypes /\ AllChanged(commits) /\ HeadInv /\ PriorInv /\ WordInv
  /\ StateInv /\ RecordInv /\ SoundInv /\ KillInv /\ MortalInv

(* Under these faults a completed review is whole: agents fail on the      *)
(* first head, or one run is killed, and the budget of any may run out.    *)
ReviewBounds ==
  /\ \A f \in FaultSets : f \subseteq {"fail", "kill", "budget"} /\ ("fail" \in f => "kill" \notin f)
  /\ FailHeads \subseteq {1} /\ MaxKills \in {0, 1} /\ Groups # {}

(* A version is the last change.                                           *)
LEMMA VersionIsLast ==
  ASSUME NEW c, AllChanged(c), NEW h \in 1..Len(c), NEW g \in Groups
  PROVE  LastChange(c, h, g, VersionIn(c, h, g))
<1>1. \E k \in 1..h : g \in c[k] /\ \A j \in (k + 1)..h : g \notin c[j]
  BY DEF AllChanged, LastChange
<1>2. h # 0
  BY SMT
<1> QED BY <1>1, <1>2, Zenon DEF VersionIn, LastChange

(* A group has one last change.                                            *)
LEMMA LastIsOne ==
  ASSUME NEW c, NEW h \in Nat, NEW g, NEW k, NEW j, LastChange(c, h, g, k), LastChange(c, h, g, j)
  PROVE  k = j
BY SMT DEF LastChange

LEMMA VersionIsNat ==
  ASSUME NEW c, AllChanged(c), Len(c) \in Nat, NEW h \in 0..Len(c), NEW g \in Groups
  PROVE  VersionIn(c, h, g) \in Nat
<1>1. CASE h = 0
  BY <1>1 DEF VersionIn
<1>2. CASE h # 0
  <2>1. h \in 1..Len(c)
    BY <1>2
  <2>2. VersionIn(c, h, g) \in 1..h
    BY <2>1, VersionIsLast DEF LastChange
  <2> QED BY <2>2
<1> QED BY <1>1, <1>2

(* Files nobody touched since are no newer.                                *)
LEMMA CarriedVersion ==
  ASSUME NEW c, AllChanged(c), NEW g \in Groups, NEW b \in 0..Len(c), NEW h \in 1..Len(c),
         NEW base \in PriorRecords, base.head = b, g \in CarriedIn(c, base, h)
  PROVE  VersionIn(c, h, g) <= VersionIn(c, b, g) /\ base.there
<1>1. b # 0 /\ base.there /\ \A k \in (b + 1)..h : g \notin c[k]
  BY DEF CarriedIn
<1>2. b \in 1..Len(c) /\ b \in Nat /\ h \in Nat
  BY <1>1, SMT
<1>3. LastChange(c, b, g, VersionIn(c, b, g)) /\ LastChange(c, h, g, VersionIn(c, h, g))
  BY <1>2, VersionIsLast
<1> HIDE DEF VersionIn
<1> QED BY <1>1, <1>2, <1>3, SMT DEF LastChange

(* A later head has no older version of a group.                           *)
LEMMA OlderVersion ==
  ASSUME NEW c, AllChanged(c), NEW g \in Groups, NEW b \in 0..Len(c), NEW h \in 1..Len(c), b <= h
  PROVE  VersionIn(c, b, g) <= VersionIn(c, h, g)
<1>1. CASE b = 0
  <2>1. VersionIn(c, b, g) = 0
    BY <1>1 DEF VersionIn
  <2>2. VersionIn(c, h, g) \in 1..h
    BY VersionIsLast DEF LastChange
  <2> QED BY <2>1, <2>2, SMT
<1>2. CASE b # 0
  <2>1. b \in 1..Len(c) /\ b \in Nat /\ h \in Nat
    BY <1>2, SMT
  <2>2. LastChange(c, b, g, VersionIn(c, b, g)) /\ LastChange(c, h, g, VersionIn(c, h, g))
    BY <2>1, VersionIsLast
  <2> QED BY <2>1, <2>2, SMT DEF LastChange
<1> QED BY <1>1, <1>2

(* A commit changes no version before it.                                  *)
LEMMA CommitKeeps ==
  ASSUME NEW c \in Seq(SUBSET Groups), AllChanged(c), NEW changed \in SUBSET Groups, Len(c) # 0,
         NEW d, d = Append(c, changed)
  PROVE  /\ d \in Seq(SUBSET Groups) /\ Len(d) = Len(c) + 1 /\ AllChanged(d)
         /\ \A h \in 0..Len(c) : \A g \in Groups : VersionIn(d, h, g) = VersionIn(c, h, g)
         /\ \A base \in PriorRecords, h \in 0..Len(c) : CarriedIn(d, base, h) = CarriedIn(c, base, h)
<1>1. d \in Seq(SUBSET Groups) /\ Len(d) = Len(c) + 1 /\ Len(c) \in Nat /\ d[Len(c) + 1] = changed
      /\ \A k \in 1..Len(c) : d[k] = c[k]
  OBVIOUS
<1>2. \A h \in 1..Len(c), g \in Groups : \A k : LastChange(d, h, g, k) <=> LastChange(c, h, g, k)
  BY <1>1, SMT DEF LastChange
<1>3. AllChanged(d)
  <2> SUFFICES ASSUME NEW h \in 1..Len(d), NEW g \in Groups PROVE \E k \in 1..h : LastChange(d, h, g, k)
    BY DEF AllChanged
  <2>1. CASE h \in 1..Len(c)
    BY <1>2, <2>1 DEF AllChanged
  <2>2. CASE h = Len(c) + 1 /\ g \in changed
    BY <1>1, <2>2, SMT DEF LastChange
  <2>3. CASE h = Len(c) + 1 /\ g \notin changed
    <3>1. Len(c) \in 1..Len(c)
      BY <1>1, SMT
    <3>2. PICK k \in 1..Len(c) : LastChange(c, Len(c), g, k)
      BY <3>1 DEF AllChanged
    <3>3. LastChange(d, h, g, k) /\ k \in 1..h
      BY <1>1, <2>3, <3>2, SMT DEF LastChange
    <3> QED BY <3>3
  <2> QED BY <1>1, <2>1, <2>2, <2>3, SMT
<1>4. \A h \in 0..Len(c) : \A g \in Groups : VersionIn(d, h, g) = VersionIn(c, h, g)
  <2> SUFFICES ASSUME NEW h \in 0..Len(c), NEW g \in Groups PROVE VersionIn(d, h, g) = VersionIn(c, h, g)
    OBVIOUS
  <2>1. CASE h = 0
    BY <2>1 DEF VersionIn
  <2>2. CASE h # 0
    <3>1. h \in 1..Len(c) /\ h \in 1..Len(d) /\ h \in Nat
      BY <1>1, <2>2, SMT
    <3>2. LastChange(c, h, g, VersionIn(c, h, g)) /\ LastChange(d, h, g, VersionIn(d, h, g))
      BY <1>3, <3>1, VersionIsLast
    <3>3. LastChange(c, h, g, VersionIn(d, h, g))
      BY <1>2, <3>1, <3>2
    <3> QED BY <3>1, <3>2, <3>3, LastIsOne
  <2> QED BY <2>1, <2>2
<1>5. \A base \in PriorRecords, h \in 0..Len(c) : CarriedIn(d, base, h) = CarriedIn(c, base, h)
  <2> SUFFICES ASSUME NEW base \in PriorRecords, NEW h \in 0..Len(c)
               PROVE  CarriedIn(d, base, h) = CarriedIn(c, base, h)
    OBVIOUS
  <2>1. \A k \in (base.head + 1)..h : k \in 1..Len(c)
      BY <1>1, SMT DEF PriorRecords
  <2> QED BY <1>1, <2>1 DEF CarriedIn
<1> QED BY <1>1, <1>3, <1>4, <1>5

(* What the types say of the numbers of commits.                           *)
LEMMA TipIsNat ==
  ASSUME ReviewTypes
  PROVE  /\ Review!Tip \in Nat /\ Len(commits) = Review!Tip
         /\ Review!Tip \in 1..Review!Tip /\ 0 \in 0..Review!Tip
         /\ \A h \in 1..Review!Tip : h \in 0..Review!Tip
         /\ \A h \in 0..Review!Tip : h \in Nat /\ h <= Review!Tip
         /\ meta.head \in 0..Review!Tip
<1>1. Review!Tip \in Nat \ {0} /\ Len(commits) = Review!Tip
  BY DEF ReviewTypes, Review!Tip
<1>2. meta.head \in 0..Review!Tip
  BY DEF ReviewTypes
<1> HIDE DEF Review!Tip
<1> QED BY <1>1, <1>2

(* A step within the pipeline.                                             *)
Proceeding ==
  /\ Working /\ Working' /\ run' \in RunRecords
  /\ run'.head = run.head /\ run'.tree = run.tree /\ run'.asks = run.asks /\ run'.base = run.base
  /\ run'.st.head = run.st.head /\ state'.head = run.head
  /\ meta'.head \in {meta.head, run.head}
  /\ run'.at \in Writing => run'.next # "off"
  /\ run'.at = "stamp" => run'.next \in {"sweep", "gate"}
  /\ run'.at = "synthesised" => run'.next = "synthesised"
  /\ UNCHANGED <<commits, prior, faults, kills>>

(* What is known of a run in its pipeline, before anything is asked of it. *)
LEMMA InWork ==
  ASSUME ReviewTypes, HeadInv, PriorInv, Working
  PROVE  /\ run.head \in 1..Len(commits) /\ run.head \in Nat /\ run.tree = run.head /\ run.st.head = run.head
         /\ state # Review!Absent /\ state.head = run.head
         /\ run.at \notin {"off"} \cup Opening \cup Choosing \cup Closing
         /\ run.st \in ReviewStates /\ state \in ReviewStates /\ run.g \in [Groups -> GroupWords]
         /\ run.base = IF run.asks THEN prior ELSE Review!NoPrior
BY DEF ReviewTypes, HeadInv, PriorInv, Working, RunRecords, Review!Tip, Opening, Choosing, Reading, Writing,
   Judging, Closing

(* A step that stays in its pipeline keeps its head and what it builds on. *)
LEMMA StillHeaded ==
  ASSUME ReviewTypes, HeadInv, PriorInv, Proceeding PROVE HeadInv' /\ PriorInv' /\ state' # Review!Absent
<1>1. /\ run.head \in 1..Len(commits) /\ run.tree = run.head /\ run.st.head = run.head
      /\ run.at \notin {"off"} \cup Opening \cup Choosing \cup Closing
      /\ run'.at \notin {"off"} \cup Opening \cup Choosing \cup Closing
  BY InWork DEF Proceeding, Working, Reading, Writing, Judging, Closing, Opening, Choosing
<1>2. state' # Review!Absent /\ Review!Tip' = Review!Tip /\ Len(commits) = Review!Tip /\ state'.head = run.head
  BY <1>1 DEF Proceeding, Review!Absent, Review!Tip
<1>3. HeadInv'
  BY <1>1, <1>2 DEF HeadInv, Proceeding, Opening, Choosing, Writing
<1>4. PriorInv'
  BY <1>1 DEF PriorInv, Proceeding, Opening
<1> QED BY <1>2, <1>3, <1>4

(* While a state is unfinished, nothing is said of the record.             *)
LEMMA UnfinishedSaysNothing ==
  ASSUME NEW s \in ReviewStates, Unfinished(s)
  PROVE  Review!Status(s) # "completed" /\ s # Review!Absent /\ ~(Review!Clean(s) /\ HasSynthesis(s))
BY DEF Unfinished, Review!Status, Review!Finished, HasSynthesis

(* A group's outcome goes to the state: done if its output is there,       *)
(* failed if not.                                                          *)
LEMMA GroupSettles ==
  ASSUME ReviewBounds, ReviewInv, NEW g \in Groups, Review!Settle(g) PROVE ReviewInv'
<1> DEFINE s == IF Review!HasOutput(g) THEN Review!GroupDone(run.st, g) ELSE Review!GroupFailed(run.st, g)
           word == IF Review!HasOutput(g) THEN "ok" ELSE IF run.g[g] = "ran" THEN "failed" ELSE "lost"
<1>0. /\ ReviewTypes /\ AllChanged(commits) /\ HeadInv /\ PriorInv /\ WordInv
      /\ StateInv /\ RecordInv /\ SoundInv /\ KillInv /\ MortalInv
  BY DEF ReviewInv
<1>1. /\ run.at = "groups" /\ run.g[g] \in {"ran", "reran"}
      /\ state' = s /\ run' = [run EXCEPT !.st = s, !.g[g] = word]
      /\ UNCHANGED <<commits, outputs, rejected, spent, record, meta, page, prior, runs, kills, faults>>
  BY DEF Review!Settle, Review!At, Review!Is
<1>2. /\ s \in ReviewStates /\ s.head = run.st.head /\ s.done = run.st.done /\ s.failed = run.st.failed
      /\ Review!HasOutput(g) =>
           s.groupsDone = run.st.groupsDone \cup {g} /\ s.groupsFailed = run.st.groupsFailed \ {g}
      /\ ~Review!HasOutput(g) =>
           s.groupsDone = run.st.groupsDone /\ s.groupsFailed = run.st.groupsFailed \cup {g}
  BY <1>0, <1>1 DEF Review!GroupDone, Review!GroupFailed, ReviewStates, ReviewTypes, RunRecords
<1> HIDE DEF s
<1>3. /\ run' \in RunRecords /\ run'.at = "groups" /\ run'.st = s /\ run'.g = [run.g EXCEPT ![g] = word]
      /\ run'.head = run.head /\ run'.tree = run.tree /\ run'.asks = run.asks /\ run'.base = run.base
      /\ run'.atGate = run.atGate /\ run'.over = run.over /\ run'.next = run.next
  BY <1>0, <1>1, <1>2 DEF RunRecords, ReviewTypes, GroupWords, Unread
<1>4. Proceeding /\ run.st.head = run.head /\ state # Review!Absent
  BY <1>0, <1>1, <1>2, <1>3, InWork DEF Proceeding, Working, Reading, Writing
<1>5. ReviewTypes' /\ HeadInv' /\ PriorInv' /\ AllChanged(commits') /\ s # Review!Absent
  BY <1>0, <1>1, <1>2, <1>3, <1>4, StillHeaded DEF ReviewTypes, Review!Tip
<1>6. WordInv'
  <2>1. ReadOf(commits, outputs, rejected, s, run.head)
    BY <1>0, <1>1, <1>2, <1>4 DEF WordInv, ReadOf, Review!HasOutput, Proceeding
  <2>2. \A h \in Groups : h # g => run'.g[h] = run.g[h]
    BY <1>0, <1>3 DEF ReviewTypes, RunRecords
  <2>3. run'.g[g] = word
    BY <1>0, <1>3 DEF ReviewTypes, RunRecords
  <2>4. \A h \in Groups : h # g => (h \in s.groupsDone <=> h \in run.st.groupsDone)
                               /\ (h \in run.st.groupsFailed => h \in s.groupsFailed)
    BY <1>2
  <2>5. g \in s.groupsDone <=> Review!HasOutput(g)
    BY <1>0, <1>1, <1>2, <1>4 DEF WordInv, Proceeding, Unread
  <2> QED BY <1>0, <1>1, <1>2, <1>3, <1>4, <2>1, <2>2, <2>3, <2>4, <2>5 DEF WordInv, Proceeding, Unread
<1>7. StateInv'
  BY <1>0, <1>1, <1>2, <1>3, <1>4 DEF StateInv, Proceeding, HasSynthesis, Reading, Writing
<1>8. RecordInv'
  BY <1>0, <1>1, <1>3 DEF RecordInv, Reading, Writing
<1>9. KillInv'
  BY <1>0, <1>1, <1>2, <1>3, <1>4 DEF KillInv, Proceeding, Review!HasOutput
<1>10. MortalInv' /\ (Mortal' => Sound')
  <2> SUFFICES ASSUME Mortal PROVE MortalInv' /\ Sound'
    BY <1>1 DEF MortalInv, Mortal
  <2>1. /\ ~HasSynthesis(run.st) /\ "disprove" \notin run.st.done
        /\ prior.page = run.asks /\ ~run.atGate
    BY <1>0, <1>1, <1>4 DEF MortalInv, Reading, Proceeding
  <2>2. s.done \subseteq {"scan"} /\ ~HasSynthesis(s) /\ "disprove" \notin s.done
    BY <1>2, <2>1 DEF ReviewStates, Phases, HasSynthesis
  <2>3. Unfinished(s) /\ Sound'
    BY <1>1, <1>2, <1>5, <2>2, UnfinishedSaysNothing DEF Unfinished, Sound
  <2> QED BY <1>1, <1>3, <1>4, <2>1, <2>2, <2>3 DEF MortalInv, Proceeding, Reading, Writing, Closing, Opening,
     Mortal
<1>11. SoundInv'
  BY <1>1, <1>3, <1>10 DEF SoundInv, Rest, Opening, Choosing, Closing
<1> QED BY <1>5, <1>6, <1>7, <1>8, <1>9, <1>10, <1>11 DEF ReviewInv

(* Steps of the phases that leave the files of the review alone.           *)
LEMMA ReadingGoesOn ==
  ASSUME ReviewInv, Proceeding, run.at \in Reading, run'.at \in Reading \ {"scan"},
         run'.st = run.st, run'.atGate = run.atGate, UNCHANGED <<state, record, meta, page>>,
         "scan" \in run.st.done,
         Mortal /\ HasSynthesis(run.st) =>
              \A g \in Groups : run'.g[g] \in {"reuse", "carried", "left", "unread"}
  PROVE  /\ HeadInv' /\ PriorInv' /\ AllChanged(commits')
         /\ StateInv' /\ RecordInv' /\ SoundInv' /\ MortalInv'
<1>0. /\ ReviewTypes /\ AllChanged(commits) /\ HeadInv /\ PriorInv /\ StateInv /\ RecordInv /\ SoundInv
      /\ MortalInv
      /\ UNCHANGED <<commits, prior, faults, kills>> /\ run'.asks = run.asks
  BY DEF ReviewInv, Proceeding
<1>1. HeadInv' /\ PriorInv' /\ AllChanged(commits')
  BY <1>0, StillHeaded
<1>2. StateInv'
  BY <1>0 DEF StateInv, Proceeding, HasSynthesis, Reading, Writing
<1>3. RecordInv'
  BY <1>0 DEF RecordInv, Reading, Writing
<1>4. SoundInv'
  BY <1>0 DEF SoundInv, Rest, Sound, Mortal, Opening, Choosing, Closing, Reading
<1>5. MortalInv'
  BY <1>0 DEF MortalInv, Mortal, Proceeding, Reading, Writing, Closing, Opening
<1> QED BY <1>1, <1>2, <1>3, <1>4, <1>5

(* An agent reads its group at the checkout; one that fails may leave the  *)
(* output of an older head.                                                *)
LEMMA GroupRuns ==
  ASSUME ReviewBounds, ReviewInv, NEW g \in Groups, Review!Agent(g) PROVE ReviewInv'
<1> DEFINE word == IF run.g[g] = "todo" THEN "ran" ELSE "reran"
<1>0. /\ ReviewTypes /\ AllChanged(commits) /\ HeadInv /\ PriorInv /\ WordInv
      /\ StateInv /\ KillInv /\ MortalInv
  BY DEF ReviewInv
<1>1. /\ run.at = "groups" /\ run.g[g] \in {"todo", "again"} /\ run' = [run EXCEPT !.g[g] = word]
      /\ UNCHANGED <<commits, state, record, meta, page, prior, runs, kills, faults>>
  BY DEF Review!Agent, Review!At, Review!Is, Review!Mark
<1>2. /\ run' \in RunRecords /\ run'.g = [run.g EXCEPT ![g] = word] /\ run'.at = "groups"
      /\ run'.head = run.head /\ run'.tree = run.tree /\ run'.asks = run.asks /\ run'.base = run.base
      /\ run'.atGate = run.atGate /\ run'.over = run.over /\ run'.next = run.next /\ run'.st = run.st
  BY <1>0, <1>1 DEF RunRecords, ReviewTypes, GroupWords, Unread
<1>3. Working /\ Working' /\ run.at \in Reading /\ run'.at \in Reading \ {"scan"}
  BY <1>1, <1>2 DEF Working, Reading
<1>4. Proceeding /\ run.tree = run.head /\ run.head \in 1..Len(commits) /\ run.head \in Nat
  BY <1>0, <1>1, <1>2, <1>3, InWork DEF Proceeding, Writing
<1>5. "scan" \in run.st.done /\ (Mortal => ~HasSynthesis(run.st))
  BY <1>0, <1>1, <1>3 DEF StateInv, MortalInv
<1>6. HeadInv' /\ PriorInv' /\ AllChanged(commits') /\ StateInv' /\ RecordInv' /\ SoundInv' /\ MortalInv'
  BY <1>1, <1>2, <1>3, <1>4, <1>5, ReadingGoesOn
<1> DEFINE v == Review!Version(run.tree, g)
<1>7. VersionIn(commits, run.head, g) = v /\ v \in 1..run.head /\ v \in Nat
  BY <1>0, <1>4, VersionIsLast DEF VersionIn, Review!Version, LastChange
<1> HIDE DEF v
<1>8. /\ outputs' \in ReviewReads
      /\ \A h \in Groups : h # g => outputs'[h] = outputs[h] /\ (h \in rejected' <=> h \in rejected)
      /\ outputs'[g] # 0 => v <= outputs'[g]
      /\ "fail" \notin faults => outputs'[g] # 0 /\ g \notin rejected'
  <2>0. outputs \in [Groups -> Nat] /\ run.head \in Nat
    BY <1>0, <1>4 DEF ReviewTypes, ReviewReads
  <2>1. CASE outputs' = [outputs EXCEPT ![g] = v] /\ rejected' = rejected \ {g}
    BY <1>7, <2>0, <2>1 DEF ReviewReads
  <2>2. CASE Review!Fails /\ UNCHANGED <<outputs, rejected>>
    <3>1. run.head = 1 /\ "fail" \in faults
      BY <2>2 DEF Review!Fails, ReviewBounds
    <3> QED BY <1>7, <2>0, <2>2, <3>1 DEF ReviewReads
  <2>3. CASE Review!Fails /\ outputs' = [outputs EXCEPT ![g] = v] /\ rejected' = rejected \cup {g}
    BY <1>7, <2>0, <2>3 DEF ReviewReads, Review!Fails
  <2> QED BY <2>1, <2>2, <2>3 DEF Review!Agent, v
<1>9. ReviewTypes'
  <2>1. spent' \in BOOLEAN
    BY <1>0 DEF Review!Agent, ReviewTypes
  <2> QED BY <1>0, <1>1, <1>2, <1>8, <2>1 DEF ReviewTypes, Review!Tip
<1>10. run'.g[g] = word /\ \A h \in Groups : h # g => run'.g[h] = run.g[h]
  BY <1>0, <1>2 DEF ReviewTypes, RunRecords
<1>11. g \notin run.st.groupsDone /\ run.st.groupsDone \subseteq Groups
  BY <1>0, <1>1, <1>3 DEF WordInv, Unread, ReviewTypes, RunRecords, ReviewStates
<1>12. WordInv'
  <2>1. ReadOf(commits, outputs', rejected', run.st, run.head)
    BY <1>0, <1>3, <1>7, <1>8, <1>11 DEF WordInv, ReadOf
  <2> HIDE DEF word
  <2>2. word \in {"ran", "reran"}
    BY DEF word
  <2> QED BY <1>0, <1>1, <1>2, <1>3, <1>4, <1>7, <1>8, <1>10, <1>11, <2>1, <2>2 DEF WordInv, Unread
<1>13. KillInv'
  BY <1>0, <1>1, <1>2, <1>3, <1>8, <1>10 DEF KillInv
<1> QED BY <1>6, <1>9, <1>12, <1>13 DEF ReviewInv

(* A group that is retried, or given up, is in no set of the state.        *)
LEMMA GroupWaits ==
  ASSUME ReviewBounds, ReviewInv, NEW g \in Groups, Review!Abort(g) \/ Review!Retry(g) PROVE ReviewInv'
<1>0. /\ ReviewTypes /\ AllChanged(commits) /\ HeadInv /\ PriorInv /\ WordInv
      /\ StateInv /\ KillInv /\ MortalInv
  BY DEF ReviewInv
<1>1. PICK word \in {"skipped", "again"} :
      /\ run.at = "groups" /\ run' = [run EXCEPT !.g[g] = word]
      /\ run.g[g] \in Unread /\ \E h \in Groups : run.g[h] \in {"failed", "lost", "skipped"}
  BY DEF Review!Abort, Review!Retry, Review!At, Review!Is, Review!Mark, Unread, Review!Unhindered
<1>2. UNCHANGED <<commits, state, outputs, rejected, spent, record, meta, page, prior, runs, kills, faults>>
  BY DEF Review!Abort, Review!Retry, Review!disk
<1>3. /\ run' \in RunRecords /\ run'.g = [run.g EXCEPT ![g] = word] /\ run'.at = "groups"
      /\ run'.head = run.head /\ run'.tree = run.tree /\ run'.asks = run.asks /\ run'.base = run.base
      /\ run'.atGate = run.atGate /\ run'.over = run.over /\ run'.next = run.next /\ run'.st = run.st
  BY <1>0, <1>1 DEF RunRecords, ReviewTypes, GroupWords, Unread
<1>4. Working /\ Working' /\ run.at \in Reading /\ run'.at \in Reading \ {"scan"}
  BY <1>1, <1>3 DEF Working, Reading
<1>5. Proceeding
  BY <1>0, <1>1, <1>2, <1>3, <1>4, InWork DEF Proceeding, Writing
<1>6. "scan" \in run.st.done /\ "fail" \in faults /\ ~Mortal
  BY <1>0, <1>1, <1>4 DEF StateInv, KillInv, ReviewTypes, Mortal
<1>7. HeadInv' /\ PriorInv' /\ AllChanged(commits') /\ StateInv' /\ RecordInv' /\ SoundInv' /\ MortalInv'
  BY <1>2, <1>3, <1>4, <1>5, <1>6, ReadingGoesOn
<1>8. ReviewTypes' /\ KillInv'
  BY <1>0, <1>2, <1>3, <1>6 DEF ReviewTypes, Review!Tip, KillInv
<1>9. run'.g[g] = word /\ \A h \in Groups : h # g => run'.g[h] = run.g[h]
  BY <1>0, <1>3 DEF ReviewTypes, RunRecords
<1>10. WordInv'
  BY <1>0, <1>1, <1>2, <1>3, <1>4, <1>9 DEF WordInv, Unread
<1> QED BY <1>7, <1>8, <1>10 DEF ReviewInv

(* What is left when the groups are over was taken over, or is said to be  *)
(* unread.                                                                 *)
LEMMA GroupsAreOver ==
  ASSUME ReviewBounds, ReviewInv, Review!GroupsEnd \/ Review!Unrun PROVE ReviewInv'
<1>0. /\ ReviewTypes /\ AllChanged(commits) /\ HeadInv /\ PriorInv /\ WordInv
      /\ StateInv /\ KillInv /\ MortalInv
  BY DEF ReviewInv
<1>1. UNCHANGED <<commits, state, outputs, rejected, spent, record, meta, page, prior, runs, kills, faults>>
  BY DEF Review!GroupsEnd, Review!Unrun, Review!disk
<1>2. PICK over \in BOOLEAN, words \in [Groups -> GroupWords] :
        /\ run' = [run EXCEPT !.at = "synthesis", !.over = over, !.g = words]
        /\ \A g \in Groups :
             words[g] # run.g[g] => words[g] = "unread" \/ (run.g[g] = "carried" /\ words[g] = "left")
        /\ \/ over /\ \A g \in Groups : words[g] \in {"left", "unread"}
           \/ \A g \in Groups : words[g] \in {"ok", "reuse", "carried"}
           \/ \E g \in Groups : words[g] \in {"failed", "lost"}
        /\ run.at \in {"groups", "unrun"}
  <2>1. CASE Review!GroupsEnd
    <3>1. PICK over \in {run.over, spent} : run' = [run EXCEPT !.at = "synthesis", !.over = over]
      BY <2>1 DEF Review!GroupsEnd
    <3>2. \A g \in Groups : run.g[g] \in {"failed", "lost", "skipped", "reuse", "carried", "ok"}
      BY <1>0, <2>1 DEF Review!GroupsEnd, Review!At, Review!Busy, Review!Is, WordInv, Working, Reading,
         ReviewTypes, RunRecords, GroupWords, Unread
    <3>3. \/ \A g \in Groups : run.g[g] \in {"ok", "reuse", "carried"}
          \/ \E g \in Groups : run.g[g] \in {"failed", "lost"}
      BY <2>1, <3>2 DEF Review!GroupsEnd, Review!Unhindered, Review!Is
    <3>4. over \in BOOLEAN /\ run.g \in [Groups -> GroupWords] /\ run.at = "groups"
          /\ run' = [run EXCEPT !.at = "synthesis", !.over = over, !.g = run.g]
      BY <1>0, <2>1, <3>1 DEF Review!GroupsEnd, Review!At, ReviewTypes, RunRecords
    <3> QED BY <3>3, <3>4
  <2>2. CASE Review!Unrun
    <3> DEFINE words == [g \in Groups |-> IF Review!Is(g, {"carried"}) THEN "left" ELSE "unread"]
    <3>1. run' = [run EXCEPT !.at = "synthesis", !.g = words] /\ run.at = "unrun"
      BY <2>2 DEF Review!Unrun, Review!At
    <3>2. run.over /\ run.over \in BOOLEAN
          /\ run' = [run EXCEPT !.at = "synthesis", !.over = run.over, !.g = words]
      BY <1>0, <3>1 DEF WordInv, Working, Reading, ReviewTypes, RunRecords
    <3>3. /\ words \in [Groups -> GroupWords] /\ \A g \in Groups : words[g] \in {"left", "unread"}
          /\ \A g \in Groups :
               words[g] # run.g[g] => words[g] = "unread" \/ (run.g[g] = "carried" /\ words[g] = "left")
      <4>1. \A g \in Groups : words[g] = IF run.g[g] = "carried" THEN "left" ELSE "unread"
        BY DEF Review!Is
      <4>2. words \in [Groups -> {"left", "unread"}]
        OBVIOUS
      <4> HIDE DEF words
      <4>3. words \in [Groups -> GroupWords]
        BY <4>2 DEF GroupWords
      <4> QED BY <4>1, <4>3
    <3> HIDE DEF words
    <3> QED BY <3>1, <3>2, <3>3
  <2> QED BY <2>1, <2>2
<1>3. /\ run' \in RunRecords /\ run'.g = words /\ run'.at = "synthesis" /\ run'.over = over
      /\ run'.head = run.head /\ run'.tree = run.tree /\ run'.asks = run.asks /\ run'.base = run.base
      /\ run'.atGate = run.atGate /\ run'.next = run.next /\ run'.st = run.st
  BY <1>0, <1>2 DEF RunRecords, ReviewTypes, RunStages, Reading
<1>4. Working /\ Working' /\ run.at \in Reading /\ run'.at \in Reading \ {"scan"}
  BY <1>2, <1>3 DEF Working, Reading
<1>5. Proceeding
  BY <1>0, <1>1, <1>2, <1>3, <1>4, InWork DEF Proceeding, Writing
<1>6. "scan" \in run.st.done
      /\ (Mortal /\ HasSynthesis(run.st) =>
           \A g \in Groups : words[g] \in {"reuse", "carried", "left", "unread"})
  BY <1>0, <1>2, <1>4 DEF StateInv, MortalInv
<1>7. HeadInv' /\ PriorInv' /\ AllChanged(commits') /\ StateInv' /\ RecordInv' /\ SoundInv' /\ MortalInv'
  BY <1>1, <1>3, <1>4, <1>5, <1>6, ReadingGoesOn
<1>8. ReviewTypes'
  BY <1>0, <1>1, <1>3 DEF ReviewTypes, Review!Tip
<1>9. KillInv'
  BY <1>0, <1>1, <1>2, <1>3, <1>4 DEF KillInv
<1>10. WordInv'
  BY <1>0, <1>1, <1>2, <1>3, <1>4 DEF WordInv, Unread
<1> QED BY <1>7, <1>8, <1>9, <1>10 DEF ReviewInv

(* The scan puts its phase on record before the groups are asked.          *)
LEMMA TreeScanned ==
  ASSUME ReviewBounds, ReviewInv, Review!Scan PROVE ReviewInv'
<1> DEFINE s == Review!PhaseDone(run.st, "scan", FALSE)
           step == IF run.over THEN "unrun" ELSE "groups"
<1>0. /\ ReviewTypes /\ AllChanged(commits) /\ HeadInv /\ PriorInv /\ WordInv
      /\ StateInv /\ RecordInv /\ SoundInv /\ KillInv /\ MortalInv
  BY DEF ReviewInv
<1>1. /\ run.at = "scan"
      /\ UNCHANGED <<commits, outputs, rejected, spent, record, meta, page, prior, runs, kills, faults>>
  BY DEF Review!Scan, Review!At
<1>2. Working /\ run.st \in ReviewStates /\ run.g \in [Groups -> GroupWords] /\ step \in {"unrun", "groups"}
      /\ (step = "unrun" => run.over)
  BY <1>0, <1>1 DEF Working, Reading, ReviewTypes, RunRecords
<1>3. CASE "scan" \in run.st.done
  <2>1. run' = [run EXCEPT !.at = step] /\ state' = state
    BY <1>3 DEF Review!Scan, Review!Go
  <2> HIDE DEF step
  <2>2. /\ run' \in RunRecords /\ run'.g = run.g /\ run'.at = step /\ run'.over = run.over
        /\ run'.head = run.head /\ run'.tree = run.tree /\ run'.asks = run.asks /\ run'.base = run.base
        /\ run'.atGate = run.atGate /\ run'.next = run.next /\ run'.st = run.st
    BY <1>0, <1>2, <2>1 DEF RunRecords, ReviewTypes, RunStages, Reading
  <2>3. Working' /\ run.at \in Reading /\ run'.at \in Reading \ {"scan"}
    BY <1>1, <1>2, <2>2 DEF Working, Reading
  <2>4. Proceeding
    BY <1>0, <1>1, <1>2, <2>1, <2>2, <2>3, InWork DEF Proceeding, Writing, Reading
  <2>5. Mortal /\ HasSynthesis(run.st) => \A g \in Groups : run'.g[g] \in {"reuse", "carried", "left", "unread"}
    BY <1>0, <2>2, <2>3 DEF MortalInv
  <2>6. HeadInv' /\ PriorInv' /\ AllChanged(commits') /\ StateInv' /\ RecordInv' /\ SoundInv' /\ MortalInv'
    BY <1>1, <1>3, <2>1, <2>2, <2>3, <2>4, <2>5, ReadingGoesOn
  <2>7. ReviewTypes' /\ KillInv' /\ WordInv'
    BY <1>0, <1>1, <1>2, <2>1, <2>2, <2>3 DEF ReviewTypes, Review!Tip, KillInv, WordInv
  <2> QED BY <2>6, <2>7 DEF ReviewInv
<1>4. CASE "scan" \notin run.st.done
  <2>1. run' = [run EXCEPT !.at = step, !.st = s] /\ state' = s
    BY <1>4 DEF Review!Scan
  <2>2. /\ s \in ReviewStates /\ s.head = run.st.head /\ s.done = run.st.done \cup {"scan"}
        /\ s.failed = run.st.failed
        /\ s.groupsDone = run.st.groupsDone /\ s.groupsFailed = run.st.groupsFailed
    BY <1>2 DEF Review!PhaseDone, ReviewStates, Phases
  <2> HIDE DEF step, s
  <2>3. /\ run' \in RunRecords /\ run'.g = run.g /\ run'.at = step /\ run'.over = run.over
        /\ run'.head = run.head /\ run'.tree = run.tree /\ run'.asks = run.asks /\ run'.base = run.base
        /\ run'.atGate = run.atGate /\ run'.next = run.next /\ run'.st = s
    BY <1>0, <1>2, <2>1, <2>2 DEF RunRecords, ReviewTypes, RunStages, Reading
  <2>4. Working' /\ run.at \in Reading /\ run'.at \in Reading \ {"scan"}
    BY <1>1, <1>2, <2>3 DEF Working, Reading
  <2>5. Proceeding
    BY <1>0, <1>1, <1>2, <2>1, <2>2, <2>3, <2>4, InWork DEF Proceeding, Writing, Reading
  <2>6. HeadInv' /\ PriorInv' /\ AllChanged(commits') /\ s # Review!Absent
    BY <1>0, <1>1, <2>1, <2>5, StillHeaded
  <2>7. ~HasSynthesis(run.st) /\ ~HasSynthesis(s) /\ ("disprove" \in s.done => "disprove" \in run.st.done)
    BY <1>0, <1>1, <1>4, <2>2, <2>4 DEF StateInv, HasSynthesis
  <2>8. ReviewTypes' /\ KillInv' /\ WordInv'
    <3>1. ReviewTypes'
      BY <1>0, <1>1, <2>1, <2>2, <2>3 DEF ReviewTypes, Review!Tip
    <3>2. KillInv'
      BY <1>0, <1>1, <1>2, <2>1, <2>2, <2>3, <2>4 DEF KillInv
    <3>3. ReadOf(commits, outputs, rejected, s, run.head)
      BY <1>0, <1>2, <2>2 DEF WordInv, ReadOf
    <3>4. WordInv'
      BY <1>0, <1>1, <1>2, <2>1, <2>2, <2>3, <2>4, <3>3 DEF WordInv
    <3> QED BY <3>1, <3>2, <3>4
  <2>9. StateInv'
    BY <1>0, <1>1, <1>2, <1>4, <2>1, <2>2, <2>3, <2>4, <2>5, <2>7
      DEF StateInv, Proceeding, HasSynthesis, Reading, Writing
  <2>10. RecordInv'
    BY <1>0, <1>1, <2>3, <2>4 DEF RecordInv, Reading, Writing
  <2>11. Mortal => MortalInv' /\ Sound'
    <3> SUFFICES ASSUME Mortal PROVE MortalInv' /\ Sound'
      OBVIOUS
    <3>1. "disprove" \notin run.st.done /\ prior.page = run.asks /\ ~run.atGate
      BY <1>0, <2>4, <1>1 DEF MortalInv, Reading
    <3>2. Unfinished(s)
      BY <2>2, <2>6, <2>7, <3>1 DEF Unfinished, HasSynthesis, ReviewStates, Phases
    <3>3. Sound'
      BY <2>1, <2>2, <3>2, UnfinishedSaysNothing DEF Sound
    <3> QED BY <1>1, <2>1, <2>3, <2>4, <2>5, <2>7, <3>1, <3>2, <3>3
            DEF MortalInv, Proceeding, Reading, Writing, Closing, Opening, Mortal
  <2>12. MortalInv' /\ SoundInv'
    BY <1>1, <2>3, <2>4, <2>11 DEF SoundInv, MortalInv, Mortal, Rest, Opening, Choosing, Closing, Reading
  <2> QED BY <2>6, <2>8, <2>9, <2>10, <2>12 DEF ReviewInv
<1> QED BY <1>3, <1>4

(* Steps that leave the groups as they are.                                *)
LEMMA GroupsStay ==
  ASSUME ReviewInv, Proceeding, run'.g = run.g, UNCHANGED <<outputs, rejected>>, run'.at \notin Reading,
         run'.st.groupsDone = run.st.groupsDone, run'.st.groupsFailed = run.st.groupsFailed,
         state' \in {state, run'.st}
  PROVE  HeadInv' /\ PriorInv' /\ AllChanged(commits') /\ WordInv' /\ KillInv' /\ state' # Review!Absent
<1>0. ReviewTypes /\ AllChanged(commits) /\ HeadInv /\ PriorInv /\ WordInv /\ KillInv
      /\ Working /\ Working' /\ UNCHANGED <<commits, faults>> /\ run'.head = run.head /\ run'.base = run.base
  BY DEF ReviewInv, Proceeding
<1>1. HeadInv' /\ PriorInv' /\ AllChanged(commits') /\ state' # Review!Absent
  BY <1>0, StillHeaded
<1>2. ReadOf(commits, outputs, rejected, run'.st, run.head)
  BY <1>0 DEF WordInv, ReadOf
<1>3. WordInv'
  BY <1>0, <1>2 DEF WordInv, Reading
<1>4. KillInv'
  BY <1>0 DEF KillInv
<1> QED BY <1>1, <1>3, <1>4

(* A group nobody touched since the last review is as that review read it. *)
LEMMA CarriedIsRead ==
  ASSUME ReviewTypes, AllChanged(commits), HeadInv, PriorInv, run.at \notin {"off"} \cup Opening,
         NEW g \in CarriedIn(commits, run.base, run.head)
  PROVE  VersionIn(commits, run.head, g) <= run.base.reads[g]
<1>1. run.head \in 1..Len(commits) /\ run.base \in PriorRecords /\ run.base.head \in 0..Len(commits)
  BY DEF HeadInv, ReviewTypes, RunRecords, Review!Tip
<1>2. g \in Groups
  BY DEF CarriedIn
<1>3. VersionIn(commits, run.head, g) <= VersionIn(commits, run.base.head, g) /\ run.base.there
  BY <1>1, <1>2, CarriedVersion
<1>4. run.base = prior /\ VersionIn(commits, run.base.head, g) <= run.base.reads[g]
  BY <1>2, <1>3 DEF PriorInv, Review!NoPrior, Whole
<1>5. run.base.reads[g] \in Nat
  BY <1>1, <1>2 DEF PriorRecords, ReviewReads
<1>6. VersionIn(commits, run.head, g) \in Nat /\ VersionIn(commits, run.base.head, g) \in Nat
  <2>1. VersionIn(commits, run.head, g) \in 1..run.head
    BY <1>1, <1>2, VersionIsLast DEF LastChange
  <2>2. run.base.head # 0 /\ run.base.head \in 1..Len(commits)
    BY <1>1 DEF CarriedIn
  <2>3. VersionIn(commits, run.base.head, g) \in 1..run.base.head
    BY <1>2, <2>2, VersionIsLast DEF LastChange
  <2> QED BY <2>1, <2>3
<1> HIDE DEF VersionIn
<1> QED BY <1>3, <1>4, <1>5, <1>6

(* What the merge is about, when no group failed.                          *)
LEMMA MergeIsWhole ==
  ASSUME ReviewInv, run.at = "synthesis", Review!Failed # Groups, run.st.groupsFailed = {}
  PROVE  /\ Whole(commits, Review!Merged, run.head)
         /\ Groups \subseteq run.st.groupsDone \cup CarriedIn(commits, run.base, run.head)
<1>0. ReviewTypes /\ AllChanged(commits) /\ HeadInv /\ PriorInv /\ WordInv /\ Working
  BY DEF ReviewInv, Working, Reading
<1>1. \A g \in Groups : run.g[g] \in {"ok", "reuse", "carried"}
  BY <1>0 DEF WordInv, Review!Failed, Review!Is
<1>2. ASSUME NEW g \in Groups
      PROVE  /\ VersionIn(commits, run.head, g) <= Review!Merged[g]
             /\ g \in run.st.groupsDone \cup CarriedIn(commits, run.base, run.head)
  <2>1. CASE run.g[g] = "carried"
    <3>1. g \in CarriedIn(commits, run.base, run.head)
      BY <1>0, <2>1 DEF WordInv
    <3> QED BY <1>0, <2>1, <3>1, CarriedIsRead DEF Review!Merged, Review!Is, Opening
  <2>2. CASE run.g[g] \in {"ok", "reuse"}
    <3>1. g \in run.st.groupsDone
      BY <1>0, <2>2 DEF WordInv
    <3>2. outputs[g] # 0 /\ g \notin rejected /\ VersionIn(commits, run.head, g) <= outputs[g]
      BY <1>0, <3>1 DEF WordInv, ReadOf
    <3> QED BY <2>2, <3>1, <3>2 DEF Review!Merged, Review!Is, Review!HasOutput
  <2> QED BY <1>1, <2>1, <2>2
<1> QED BY <1>2 DEF Whole

(* A merge is a reading of groups.                                         *)
LEMMA MergeIsReads == ReviewTypes => Review!Merged \in ReviewReads
<1> SUFFICES ASSUME ReviewTypes PROVE Review!Merged \in ReviewReads
  OBVIOUS
<1>1. \A g \in Groups : run.base.reads[g] \in Nat /\ outputs[g] \in Nat
  BY DEF ReviewTypes, ReviewReads, RunRecords, PriorRecords
<1> QED BY <1>1 DEF Review!Merged, ReviewReads

(* Over budget with nothing new, the review of before stands.              *)
LEMMA ReviewHasStood ==
  ASSUME ReviewBounds, ReviewInv, Review!ReviewStands PROVE ReviewInv'
<1>0. /\ ReviewTypes /\ AllChanged(commits) /\ HeadInv /\ PriorInv /\ WordInv
      /\ StateInv /\ RecordInv /\ SoundInv /\ KillInv /\ MortalInv
  BY DEF ReviewInv
<1>1. /\ run.at = "synthesis" /\ run.atGate /\ record.there /\ run' = [run EXCEPT !.at = "gate"]
      /\ UNCHANGED <<commits, state, outputs, rejected, spent, record, meta, page, prior, runs, kills, faults>>
  BY DEF Review!ReviewStands, Review!At, Review!Go, Review!disk
<1>2. /\ run' \in RunRecords /\ run'.at = "gate" /\ run'.g = run.g /\ run'.over = run.over
      /\ run'.head = run.head /\ run'.tree = run.tree /\ run'.asks = run.asks /\ run'.base = run.base
      /\ run'.atGate = run.atGate /\ run'.next = run.next /\ run'.st = run.st
  BY <1>0, <1>1 DEF RunRecords, ReviewTypes, RunStages, Judging
<1>3. Proceeding
  BY <1>0, <1>1, <1>2, InWork DEF Proceeding, Writing, Working, Reading, Judging
<1>4. HeadInv' /\ PriorInv' /\ AllChanged(commits') /\ WordInv' /\ KillInv'
  BY <1>1, <1>2, <1>3, GroupsStay DEF Reading
<1>5. state = run.st /\ HasSynthesis(state) /\ run.st.failed = {} /\ "scan" \in run.st.done /\ ~Mortal
  BY <1>0, <1>1 DEF StateInv, MortalInv, Reading
<1>6. ReviewTypes' /\ StateInv' /\ RecordInv'
  BY <1>0, <1>1, <1>2, <1>3, <1>5 DEF ReviewTypes, Review!Tip, StateInv, RecordInv, Proceeding, Reading, Writing,
     HasSynthesis
<1>7. SoundInv' /\ MortalInv'
  BY <1>1, <1>2, <1>5 DEF SoundInv, MortalInv, Mortal, Rest, Opening, Choosing, Closing
<1> QED BY <1>4, <1>6, <1>7 DEF ReviewInv

(* No group came through: the synthesis is failed, and the review          *)
(* unchallenged.                                                           *)
LEMMA NoGroupIsLeft ==
  ASSUME ReviewBounds, ReviewInv, Review!AllFailed PROVE ReviewInv'
<1> DEFINE s == Review!PhaseDone(run.st, "synthesis", TRUE)
<1>0. /\ ReviewTypes /\ AllChanged(commits) /\ HeadInv /\ PriorInv /\ WordInv
      /\ StateInv /\ RecordInv /\ SoundInv /\ KillInv /\ MortalInv
  BY DEF ReviewInv
<1>1. /\ run.at = "synthesis" /\ Review!Failed = Groups /\ state' = s
      /\ run' = [run EXCEPT !.at = "publish", !.st = s, !.doc = Review!Unchallenged,
                            !.status = Review!Status(s), !.next = "gate"]
      /\ UNCHANGED <<commits, outputs, rejected, spent, record, meta, page, prior, runs, kills, faults>>
  BY DEF Review!AllFailed, Review!At
<1>2. run.st \in ReviewStates /\ run.st.failed = {} /\ "scan" \in run.st.done
  BY <1>0, <1>1 DEF StateInv, Reading, ReviewTypes, RunRecords
<1>3. /\ s \in ReviewStates /\ s.head = run.st.head /\ s.done = run.st.done \cup {"synthesis"}
      /\ s.failed = {"synthesis"}
      /\ s.groupsDone = run.st.groupsDone /\ s.groupsFailed = run.st.groupsFailed
  BY <1>2 DEF Review!PhaseDone, ReviewStates, Phases
<1>4. Review!Unchallenged \in ReviewRecords /\ Review!Unchallenged.there
      /\ Review!Status(s) \in {"", "completed", "partial"}
  BY <1>0, MergeIsReads DEF Review!Unchallenged, ReviewRecords, Review!Status
<1> HIDE DEF s
<1>5. /\ run' \in RunRecords /\ run'.at = "publish" /\ run'.g = run.g /\ run'.over = run.over
      /\ run'.head = run.head /\ run'.tree = run.tree /\ run'.asks = run.asks /\ run'.base = run.base
      /\ run'.next = "gate" /\ run'.st = s /\ run'.doc = Review!Unchallenged
  BY <1>0, <1>1, <1>3, <1>4 DEF RunRecords, ReviewTypes, RunStages, Writing
<1>6. Proceeding
  BY <1>0, <1>1, <1>3, <1>5, InWork DEF Proceeding, Writing, Working, Reading, Judging
<1>7. HeadInv' /\ PriorInv' /\ AllChanged(commits') /\ WordInv' /\ KillInv' /\ s # Review!Absent
  BY <1>1, <1>3, <1>5, <1>6, GroupsStay DEF Reading
<1>8. ReviewTypes' /\ RecordInv'
  BY <1>0, <1>1, <1>3, <1>4, <1>5 DEF ReviewTypes, Review!Tip, RecordInv, Writing, Reading
<1>9. StateInv'
  BY <1>0, <1>1, <1>2, <1>3, <1>5, <1>6 DEF StateInv, Proceeding, Writing, Reading, HasSynthesis
<1>10. Unfinished(s) /\ Sound'
  BY <1>1, <1>3, <1>7, UnfinishedSaysNothing DEF Unfinished, Review!Clean, Sound
<1>11. MortalInv'
  <2> SUFFICES ASSUME Mortal PROVE MortalInv'
    BY <1>1 DEF MortalInv, Mortal
  <2>1. "disprove" \notin run.st.done /\ prior.page = run.asks
    BY <1>0, <1>1 DEF MortalInv, Reading
  <2>2. "fail" \notin faults
    BY <1>0 DEF Mortal, ReviewTypes
  <2>3. run.over
    <3>1. PICK g \in Groups : TRUE
      BY DEF ReviewBounds
    <3>2. run.g[g] # "ok" /\ run.g[g] # "carried" /\ (run.g[g] = "reuse" => outputs[g] = 0)
      BY <1>1, <3>1 DEF Review!Failed, Review!Is
    <3>3. Working
      BY <1>6 DEF Proceeding
    <3>4. run.g[g] # "reuse"
      BY <1>0, <3>2, <3>3 DEF WordInv, ReadOf
    <3> QED BY <1>0, <1>1, <2>2, <3>2, <3>3, <3>4 DEF WordInv, KillInv
  <2> QED BY <1>1, <1>3, <1>5, <1>6, <1>10, <2>1, <2>3
          DEF MortalInv, Mortal, Proceeding, Reading, Writing, Closing, Opening, HasSynthesis
<1> QED BY <1>7, <1>8, <1>9, <1>10, <1>11 DEF ReviewInv, SoundInv

(* The outputs and what was carried make the record that is written next.  *)
LEMMA ReviewIsMerged ==
  ASSUME ReviewBounds, ReviewInv, Review!Synthesis PROVE ReviewInv'
<1>0. /\ ReviewTypes /\ AllChanged(commits) /\ HeadInv /\ PriorInv /\ WordInv
      /\ StateInv /\ RecordInv /\ SoundInv /\ KillInv /\ MortalInv
  BY DEF ReviewInv
<1>1. /\ run.at = "synthesis" /\ Review!Failed # Groups
      /\ UNCHANGED <<commits, state, outputs, rejected, spent, record, meta, page, prior, runs, kills, faults>>
  BY DEF Review!Synthesis, Review!At, Review!disk
<1>2. PICK bad \in BOOLEAN, status \in {"", "completed", "partial"} :
        /\ bad => run.over \/ "fail" \in faults
        /\ run' = [run EXCEPT !.at = "publish", !.doc = Review!Unchallenged, !.bad = bad, !.status = status,
                     !.next = "synthesised"]
  <2>1. Review!Status(state) \in {"completed", "partial"}
    BY DEF Review!Status
  <2> QED BY <2>1 DEF Review!Synthesis, Review!Fails
<1>3. Review!Unchallenged \in ReviewRecords /\ Review!Unchallenged.there
      /\ Review!Unchallenged.reads = Review!Merged
  BY <1>0, MergeIsReads DEF Review!Unchallenged, ReviewRecords
<1>4. /\ run' \in RunRecords /\ run'.at = "publish" /\ run'.g = run.g /\ run'.over = run.over /\ run'.bad = bad
      /\ run'.head = run.head /\ run'.tree = run.tree /\ run'.asks = run.asks /\ run'.base = run.base
      /\ run'.next = "synthesised" /\ run'.st = run.st /\ run'.doc = Review!Unchallenged
  BY <1>0, <1>1, <1>2, <1>3 DEF RunRecords, ReviewTypes, RunStages, Writing
<1>5. Proceeding
  BY <1>0, <1>1, <1>4, InWork DEF Proceeding, Writing, Working, Reading, Judging
<1>6. HeadInv' /\ PriorInv' /\ AllChanged(commits') /\ WordInv' /\ KillInv'
  BY <1>1, <1>4, <1>5, GroupsStay DEF Reading
<1>7. run.st.failed = {} /\ "scan" \in run.st.done
  BY <1>0, <1>1 DEF StateInv, Reading
<1>8. run.st.groupsFailed = {} => /\ Whole(commits, Review!Merged, run.head)
                                  /\ Groups \subseteq run.st.groupsDone \cup CarriedIn(commits, run.base, run.head)
  BY <1>1, MergeIsWhole
<1>9. ReviewTypes' /\ StateInv' /\ RecordInv'
  BY <1>0, <1>1, <1>3, <1>4, <1>5, <1>7, <1>8
     DEF ReviewTypes, Review!Tip, StateInv, RecordInv, Proceeding, Reading, Writing, HasSynthesis
<1>10. MortalInv' /\ SoundInv'
  <2>1. SoundInv'
    BY <1>0, <1>1, <1>4 DEF SoundInv, Sound, Rest, Mortal, Opening, Choosing, Closing
  <2> SUFFICES ASSUME Mortal PROVE MortalInv'
    BY <1>1, <2>1 DEF MortalInv, Mortal
  <2>2. "fail" \notin faults /\ Working
    BY <1>0, <1>5 DEF Mortal, ReviewTypes, Proceeding
  <2>3. run.st.groupsFailed = {}
    BY <1>0, <2>2 DEF KillInv
  <2> QED BY <1>0, <1>1, <1>2, <1>4, <1>5, <1>7, <1>8, <2>2, <2>3
          DEF MortalInv, Mortal, Proceeding, Reading, Writing, Closing, Opening
<1> QED BY <1>6, <1>9, <1>10 DEF ReviewInv

(* The synthesis is in the state once record and sidecar are written.      *)
LEMMA SynthesisRecorded ==
  ASSUME ReviewBounds, ReviewInv, Review!Synthesised PROVE ReviewInv'
<1> DEFINE s == Review!PhaseDone(run.st, "synthesis", run.bad)
<1>0. /\ ReviewTypes /\ AllChanged(commits) /\ HeadInv /\ PriorInv /\ WordInv
      /\ StateInv /\ RecordInv /\ SoundInv /\ KillInv /\ MortalInv
  BY DEF ReviewInv
<1>1. /\ run.at = "synthesised" /\ state' = s
      /\ UNCHANGED <<commits, outputs, rejected, spent, record, meta, page, prior, runs, kills, faults>>
  BY DEF Review!Synthesised, Review!At
<1>2. PICK step \in {"stamp", "gate"} : run' = [run EXCEPT !.at = step, !.st = s, !.next = "gate"]
  BY DEF Review!Synthesised
<1>3. /\ run.st \in ReviewStates /\ run.st.failed = {} /\ "scan" \in run.st.done /\ run.next = "synthesised"
      /\ Working /\ run.bad \in BOOLEAN
  BY <1>0, <1>1 DEF StateInv, HeadInv, Judging, ReviewTypes, RunRecords, Working
<1>4. /\ s \in ReviewStates /\ s.head = run.st.head /\ s.done = run.st.done \cup {"synthesis"}
      /\ s.failed = (IF run.bad THEN {"synthesis"} ELSE {})
      /\ s.groupsDone = run.st.groupsDone /\ s.groupsFailed = run.st.groupsFailed
  BY <1>3 DEF Review!PhaseDone, ReviewStates, Phases
<1> HIDE DEF s
<1>5. /\ run' \in RunRecords /\ run'.at = step /\ run'.g = run.g /\ run'.over = run.over
      /\ run'.head = run.head /\ run'.tree = run.tree /\ run'.asks = run.asks /\ run'.base = run.base
      /\ run'.next = "gate" /\ run'.st = s
  BY <1>0, <1>2, <1>4 DEF RunRecords, ReviewTypes, RunStages, Judging
<1>6. Proceeding
  BY <1>0, <1>1, <1>3, <1>4, <1>5, InWork DEF Proceeding, Writing, Working, Reading, Judging
<1>7. HeadInv' /\ PriorInv' /\ AllChanged(commits') /\ WordInv' /\ KillInv' /\ s # Review!Absent
  BY <1>1, <1>4, <1>5, <1>6, GroupsStay DEF Reading
<1>8. ReviewTypes' /\ RecordInv'
  BY <1>0, <1>1, <1>4, <1>5 DEF ReviewTypes, Review!Tip, RecordInv, Writing, Reading, Review!Clean
<1>9. StateInv'
  <2>1. HasSynthesis(s) /\ "scan" \in s.done /\ "disprove" \notin s.failed
    BY <1>3, <1>4 DEF HasSynthesis
  <2> QED BY <1>1, <1>2, <1>5, <1>6, <2>1 DEF StateInv, Proceeding, Writing, Reading
<1>10. Mortal => MortalInv' /\ Sound'
  <2> SUFFICES ASSUME Mortal PROVE MortalInv' /\ Sound'
    OBVIOUS
  <2>1. /\ "disprove" \notin run.st.done /\ prior.page = run.asks /\ (run.bad => run.over)
        /\ Groups \subseteq run.st.groupsDone \cup CarriedIn(commits, run.base, run.head)
    BY <1>0, <1>1 DEF MortalInv
  <2>2. "disprove" \notin s.done /\ (Review!Clean(s) => run.st.groupsFailed = {})
    BY <1>4, <2>1 DEF Review!Clean
  <2>3. Sound'
    BY <1>0, <1>1, <1>7, <2>2 DEF Sound, Review!Status, Review!Finished, RecordInv
  <2>4. run.base = (IF prior.page THEN prior ELSE Review!NoPrior) /\ s.head = run.head
    BY <1>0, <1>3, <1>4, <2>1, InWork
  <2>5. Groups \subseteq s.groupsDone \cup (IF prior.page THEN CarriedIn(commits, prior, s.head) ELSE {})
    BY <1>4, <2>1, <2>4 DEF CarriedIn, Review!NoPrior
  <2> QED BY <1>1, <1>4, <1>5, <1>6, <2>1, <2>2, <2>3, <2>5
          DEF MortalInv, Mortal, Proceeding, Reading, Writing, Closing, Opening, HasSynthesis
<1>11. MortalInv' /\ SoundInv'
  BY <1>1, <1>5, <1>10 DEF SoundInv, MortalInv, Mortal, Rest, Opening, Choosing, Closing
<1> QED BY <1>7, <1>8, <1>9, <1>11 DEF ReviewInv

(* The verdict of the gate, and what the state says of it.                 *)
LEMMA GateIsJudged ==
  ASSUME ReviewBounds, ReviewInv, Review!Judged PROVE ReviewInv'
<1> DEFINE s == Review!PhaseDone(run.st, "disprove", run.bad)
<1>0. /\ ReviewTypes /\ AllChanged(commits) /\ HeadInv /\ PriorInv /\ WordInv
      /\ StateInv /\ RecordInv /\ SoundInv /\ KillInv /\ MortalInv
  BY DEF ReviewInv
<1>1. /\ run.at = "judged" /\ state' = s /\ run' = [run EXCEPT !.at = "stamp", !.st = s, !.next = "sweep"]
      /\ UNCHANGED <<commits, outputs, rejected, spent, record, meta, page, prior, runs, kills, faults>>
  BY DEF Review!Judged, Review!At
<1>3. /\ run.st \in ReviewStates /\ "scan" \in run.st.done /\ HasSynthesis(run.st) /\ state = run.st
      /\ "disprove" \notin run.st.failed /\ Working /\ run.bad \in BOOLEAN
  BY <1>0, <1>1 DEF StateInv, Judging, ReviewTypes, RunRecords, Working
<1>4. /\ s \in ReviewStates /\ s.head = run.st.head /\ s.done = run.st.done \cup {"disprove"}
      /\ s.failed = (IF run.bad THEN run.st.failed \cup {"disprove"} ELSE run.st.failed)
      /\ s.groupsDone = run.st.groupsDone /\ s.groupsFailed = run.st.groupsFailed
  BY <1>3 DEF Review!PhaseDone, ReviewStates, Phases
<1> HIDE DEF s
<1>5. /\ run' \in RunRecords /\ run'.at = "stamp" /\ run'.g = run.g /\ run'.over = run.over
      /\ run'.head = run.head /\ run'.tree = run.tree /\ run'.asks = run.asks /\ run'.base = run.base
      /\ run'.next = "sweep" /\ run'.st = s
  BY <1>0, <1>1, <1>4 DEF RunRecords, ReviewTypes, RunStages, Judging
<1>6. Proceeding
  BY <1>0, <1>1, <1>3, <1>4, <1>5, InWork DEF Proceeding, Writing, Working, Reading, Judging
<1>7. HeadInv' /\ PriorInv' /\ AllChanged(commits') /\ WordInv' /\ KillInv' /\ s # Review!Absent
  BY <1>1, <1>4, <1>5, <1>6, GroupsStay DEF Reading
<1>8. Review!Clean(s) => Review!Clean(run.st) /\ ~run.bad
  BY <1>3, <1>4 DEF Review!Clean
<1>9. ReviewTypes' /\ RecordInv'
  BY <1>0, <1>1, <1>4, <1>5, <1>8 DEF ReviewTypes, Review!Tip, RecordInv, Writing, Reading
<1>10. StateInv'
  BY <1>0, <1>1, <1>3, <1>4, <1>5, <1>6 DEF StateInv, Proceeding, Writing, Reading, HasSynthesis
<1>11. Mortal => MortalInv' /\ Sound'
  <2> SUFFICES ASSUME Mortal PROVE MortalInv' /\ Sound'
    OBVIOUS
  <2>1. prior.page = run.asks /\ ("synthesis" \in run.st.failed => run.bad) /\ "fail" \notin faults
    BY <1>0, <1>1 DEF MortalInv, Mortal, ReviewTypes
  <2>2. Sound'
    BY <1>0, <1>1, <1>7, <1>8 DEF Sound, Review!Status, RecordInv
  <2>3. "disprove" \in s.failed \/ Review!Status(s) = "completed"
    <3>1. CASE run.bad
      BY <1>4, <3>1
    <3>2. CASE ~run.bad
      <4>1. run.st.failed = {} /\ run.st.groupsFailed = {}
        BY <1>0, <1>3, <2>1, <3>2 DEF KillInv, ReviewStates
      <4> QED BY <1>4, <3>2, <4>1 DEF Review!Status, Review!Clean, Review!Finished
    <3> QED BY <3>1, <3>2
  <2>4. Groups \subseteq s.groupsDone \cup (IF prior.page THEN CarriedIn(commits, prior, s.head) ELSE {})
        \/ "synthesis" \in s.failed
    BY <1>0, <1>3, <1>4 DEF MortalInv
  <2>5. "synthesis" \in s.failed => "disprove" \in s.failed
    BY <1>4, <2>1
  <2> QED BY <1>1, <1>3, <1>4, <1>5, <1>6, <2>1, <2>2, <2>3, <2>4, <2>5
          DEF MortalInv, Mortal, Proceeding, Reading, Writing, Closing, Opening, HasSynthesis
<1>12. MortalInv' /\ SoundInv'
  BY <1>1, <1>5, <1>11 DEF SoundInv, MortalInv, Mortal, Rest, Opening, Choosing, Closing
<1> QED BY <1>7, <1>9, <1>10, <1>12 DEF ReviewInv

(* The gate challenges the record it finds, or fails and says so.          *)
LEMMA GateRuns ==
  ASSUME ReviewBounds, ReviewInv, Review!Gate \/ Review!GateFails PROVE ReviewInv'
<1>0. /\ ReviewTypes /\ AllChanged(commits) /\ HeadInv /\ PriorInv /\ WordInv
      /\ StateInv /\ RecordInv /\ SoundInv /\ KillInv /\ MortalInv
  BY DEF ReviewInv
<1>1. PICK bad \in BOOLEAN :
      /\ run.at = "gate" /\ run' = [run EXCEPT !.at = "judged", !.bad = bad]
      /\ record' = IF bad THEN record ELSE [record EXCEPT !.judged = TRUE]
      /\ ~bad => (run.over => "synthesis" \notin run.st.failed)
      /\ UNCHANGED <<commits, state, outputs, rejected, spent, meta, page, prior, runs, kills, faults>>
  BY DEF Review!Gate, Review!GateFails, Review!At, Review!disk
<1>2. record' \in ReviewRecords /\ record'.there = record.there /\ record'.reads = record.reads
      /\ (record.judged => record'.judged) /\ (~bad => record'.judged)
  BY <1>0, <1>1 DEF ReviewTypes, ReviewRecords
<1>3. /\ run' \in RunRecords /\ run'.at = "judged" /\ run'.g = run.g /\ run'.over = run.over /\ run'.bad = bad
      /\ run'.head = run.head /\ run'.tree = run.tree /\ run'.asks = run.asks /\ run'.base = run.base
      /\ run'.st = run.st /\ run'.next = run.next
  BY <1>0, <1>1 DEF RunRecords, ReviewTypes, RunStages, Judging
<1>4. Proceeding
  BY <1>0, <1>1, <1>3, InWork DEF Proceeding, Writing, Working, Reading, Judging
<1>5. HeadInv' /\ PriorInv' /\ AllChanged(commits') /\ WordInv' /\ KillInv'
  BY <1>1, <1>3, <1>4, GroupsStay DEF Reading
<1>6. ReviewTypes' /\ RecordInv' /\ StateInv'
  BY <1>0, <1>1, <1>2, <1>3, <1>4 DEF ReviewTypes, Review!Tip, RecordInv, StateInv, Proceeding, Writing, Reading
<1>7. SoundInv'
  BY <1>0, <1>1, <1>2, <1>3 DEF SoundInv, Sound, Mortal, Rest, Opening, Choosing, Closing
<1>8. MortalInv'
  BY <1>0, <1>1, <1>3, <1>4 DEF MortalInv, StateInv, Mortal, Proceeding, Reading, Writing, Opening, Closing
<1> QED BY <1>5, <1>6, <1>7, <1>8 DEF ReviewInv

(* A run that leaves, or that never came to its pipeline.                  *)
LEMMA NotWorking ==
  ASSUME run'.at \in {"off"} \cup Opening \cup Choosing \cup Closing
         \/ (run'.at \in Writing /\ run'.next = "sweep")
  PROVE  ~Working'
BY DEF Working, Opening, Choosing, Closing, Writing, Reading, Judging

(* The first of the two writes: the record is new, the head it states is   *)
(* not yet.                                                                *)
LEMMA RecordIsWritten ==
  ASSUME ReviewBounds, ReviewInv, Review!WriteRecord PROVE ReviewInv'
<1>0. /\ ReviewTypes /\ AllChanged(commits) /\ HeadInv /\ PriorInv /\ WordInv
      /\ StateInv /\ RecordInv /\ SoundInv /\ KillInv /\ MortalInv
  BY DEF ReviewInv
<1>1. /\ run.at = "publish" /\ record' = run.doc /\ run' = [run EXCEPT !.at = "publish meta"]
      /\ UNCHANGED <<commits, state, outputs, rejected, spent, meta, page, prior, runs, kills, faults>>
  BY DEF Review!WriteRecord, Review!At, Review!Go
<1>2. /\ run' \in RunRecords /\ run'.at = "publish meta" /\ run'.g = run.g /\ run'.over = run.over
      /\ run'.bad = run.bad
      /\ run'.head = run.head /\ run'.tree = run.tree /\ run'.asks = run.asks /\ run'.base = run.base
      /\ run'.st = run.st /\ run'.next = run.next /\ run'.doc = run.doc /\ run.doc \in ReviewRecords
  BY <1>0, <1>1 DEF RunRecords, ReviewTypes, RunStages, Writing
<1>3. Working' <=> Working
  BY <1>1, <1>2 DEF Working, Reading, Writing, Judging
<1>4. ReviewTypes' /\ AllChanged(commits') /\ HeadInv' /\ PriorInv'
  BY <1>0, <1>1, <1>2, <1>3 DEF ReviewTypes, Review!Tip, HeadInv, PriorInv, Opening, Choosing, Writing
<1>5. WordInv' /\ KillInv' /\ StateInv' /\ RecordInv'
  BY <1>0, <1>1, <1>2, <1>3 DEF WordInv, KillInv, StateInv, RecordInv, Writing, Reading
<1>6. MortalInv'
  BY <1>0, <1>1, <1>2, <1>3 DEF MortalInv, Mortal, Writing, Reading, Opening, Closing
<1>7. Mortal => Sound'
  <2> SUFFICES ASSUME Mortal PROVE Sound'
    OBVIOUS
  <2>1. CASE run.next = "sweep"
    <3>1. ~Working
      BY <1>1, <2>1 DEF Working, Reading, Writing, Judging
    <3>2. state = Review!Absent \/ (Review!Status(state) # "completed" /\ ~Review!Clean(state))
      BY <1>0, <1>1, <3>1 DEF MortalInv, Review!Status, Review!Clean
    <3>3. ASSUME state = Review!Absent PROVE Whole(commits, run.doc.reads, meta.head)
      <4>1. /\ meta.head \in 0..Len(commits) /\ run.head \in 1..Len(commits) /\ meta.head <= run.head
            /\ run.doc.reads \in ReviewReads
        BY <1>0, <1>1, <1>2, <3>3 DEF HeadInv, Choosing, Writing, Opening, ReviewTypes, Review!Tip,
           ReviewRecords
      <4>2. Whole(commits, run.doc.reads, run.head)
        BY <1>0, <1>1, <2>1 DEF RecordInv, Writing
      <4>3. ASSUME NEW g \in Groups PROVE VersionIn(commits, meta.head, g) <= run.doc.reads[g]
        <5>1. VersionIn(commits, meta.head, g) <= VersionIn(commits, run.head, g)
          BY <1>0, <4>1, OlderVersion
        <5>2. VersionIn(commits, run.head, g) <= run.doc.reads[g] /\ run.doc.reads[g] \in Nat
          BY <4>1, <4>2 DEF Whole, ReviewReads
        <5>3. VersionIn(commits, meta.head, g) \in Nat /\ VersionIn(commits, run.head, g) \in Nat
          <6>1. Len(commits) \in Nat /\ run.head \in 0..Len(commits)
            BY <1>0, <4>1, TipIsNat
          <6> QED BY <1>0, <4>1, <6>1, VersionIsNat
        <5> HIDE DEF VersionIn
        <5> QED BY <5>1, <5>2, <5>3
      <4> QED BY <4>3 DEF Whole
    <3> QED BY <1>0, <1>1, <2>1, <3>2, <3>3 DEF Sound, RecordInv, Writing
  <2>2. CASE run.next # "sweep"
    <3>1. Unfinished(state) /\ state \in ReviewStates
      BY <1>0, <1>1, <2>2 DEF MortalInv, Writing, ReviewTypes
    <3> QED BY <1>1, <3>1, UnfinishedSaysNothing DEF Sound
  <2> QED BY <2>1, <2>2
<1>8. SoundInv'
  BY <1>1, <1>2, <1>7 DEF SoundInv, Mortal, Rest, Opening, Choosing, Closing
<1> QED BY <1>4, <1>5, <1>6, <1>8 DEF ReviewInv

(* The second write: from here the head and the record belong together.    *)
LEMMA SidecarIsWritten ==
  ASSUME ReviewBounds, ReviewInv, Review!WriteMeta PROVE ReviewInv'
<1>0. /\ ReviewTypes /\ AllChanged(commits) /\ HeadInv /\ PriorInv /\ WordInv
      /\ StateInv /\ RecordInv /\ SoundInv /\ KillInv /\ MortalInv
  BY DEF ReviewInv
<1>1. /\ run.at = "publish meta" /\ meta' = [head |-> run.head, status |-> run.status] /\ page' = TRUE
      /\ run' = [run EXCEPT !.at = run.next] /\ record = run.doc
      /\ UNCHANGED <<commits, state, outputs, rejected, spent, record, prior, runs, kills, faults>>
  BY <1>0 DEF Review!WriteMeta, Review!At, Review!Go, RecordInv
<1>2. run.next \in {"sweep", "gate", "synthesised"} /\ run.status \in {"", "completed", "partial"}
      /\ run.head \in 1..Review!Tip /\ run.head \in 0..Review!Tip
  <2>1. run.next \in {"sweep", "gate", "synthesised"} /\ run.status \in {"", "completed", "partial"}
    BY <1>0, <1>1 DEF HeadInv, Writing, ReviewTypes, RunRecords
  <2>2. run.head \in 1..Review!Tip
    BY <1>0, <1>1 DEF HeadInv, Opening
  <2> QED BY <1>0, <2>1, <2>2, TipIsNat
<1>3. /\ run' \in RunRecords /\ run'.at = run.next /\ run'.g = run.g /\ run'.over = run.over
      /\ run'.bad = run.bad
      /\ run'.head = run.head /\ run'.tree = run.tree /\ run'.asks = run.asks /\ run'.base = run.base
      /\ run'.st = run.st /\ run'.next = run.next
  BY <1>0, <1>1, <1>2 DEF RunRecords, ReviewTypes, RunStages, Judging, Closing
<1>4. meta'.head = run.head /\ ReviewTypes'
  BY <1>0, <1>1, <1>2, <1>3 DEF ReviewTypes, Review!Tip
<1>5. CASE run.next # "sweep"
  <2>1. Proceeding
    BY <1>0, <1>1, <1>2, <1>3, <1>4, <1>5, InWork DEF Proceeding, Writing, Working, Reading, Judging
  <2>2. HeadInv' /\ PriorInv' /\ AllChanged(commits') /\ WordInv' /\ KillInv'
    BY <1>1, <1>2, <1>3, <2>1, GroupsStay DEF Reading
  <2>3. StateInv'
    <3>1. CASE run.next = "gate"
      <4>1. /\ run.st.failed = {"synthesis"} /\ "scan" \in run.st.done /\ HasSynthesis(run.st) /\ state = run.st
        BY <1>0, <1>1, <3>1 DEF StateInv, Writing
      <4>2. Working' /\ run'.at = "gate" /\ run'.st = run.st /\ state' = state
        BY <1>1, <1>3, <2>1, <3>1 DEF Proceeding
      <4> QED BY <4>1, <4>2 DEF StateInv, Writing, Reading
    <3>2. CASE run.next = "synthesised"
      BY <1>0, <1>1, <1>3, <2>1, <3>2 DEF StateInv, Proceeding, Writing, Reading
    <3> QED BY <1>2, <1>5, <3>1, <3>2
  <2>7. RecordInv'
    <3>1. run.next = "gate" => ~Review!Clean(run.st)
      BY <1>0, <1>1 DEF StateInv, Writing, Review!Clean
    <3> QED BY <1>0, <1>1, <1>2, <1>3, <1>4, <1>5, <3>1 DEF RecordInv, Writing, Reading
  <2>4. Mortal => Unfinished(state) /\ Sound'
    <3>1. Mortal => Unfinished(state) /\ state \in ReviewStates
      BY <1>0, <1>1, <1>5 DEF MortalInv, Writing, ReviewTypes
    <3> QED BY <1>1, <3>1, UnfinishedSaysNothing DEF Sound
  <2>5. SoundInv'
    BY <1>1, <1>2, <1>3, <1>5, <2>4 DEF SoundInv, Mortal, Rest, Opening, Choosing, Closing
  <2>6. MortalInv'
    BY <1>0, <1>1, <1>2, <1>3, <1>5, <2>1, <2>4 DEF MortalInv, Mortal, Proceeding, Writing, Reading, Opening,
       Closing
  <2> QED BY <1>4, <2>2, <2>3, <2>5, <2>6, <2>7 DEF ReviewInv
<1>6. CASE run.next = "sweep"
  <2>1. ~Working /\ ~Working'
    BY <1>1, <1>3, <1>6 DEF Working, Reading, Writing, Judging
  <2>2. HeadInv' /\ PriorInv' /\ AllChanged(commits') /\ WordInv' /\ KillInv'
    BY <1>0, <1>1, <1>2, <1>3, <1>4, <1>6, <2>1
       DEF HeadInv, PriorInv, WordInv, KillInv, Review!Tip, Opening, Choosing, Writing
  <2>3. StateInv' /\ RecordInv'
    BY <1>0, <1>1, <1>3, <1>6, <2>1 DEF StateInv, RecordInv, Writing, Reading
  <2>4. Sound'
    BY <1>0, <1>1, <1>4, <1>6 DEF RecordInv, Writing, Sound
  <2>5. MortalInv'
    BY <1>0, <1>1, <1>3, <1>6, <2>1 DEF MortalInv, Mortal, Writing, Reading, Opening, Closing
  <2> QED BY <1>4, <2>2, <2>3, <2>4, <2>5 DEF ReviewInv, SoundInv
<1> QED BY <1>5, <1>6

(* The status of a run is stamped after its state is saved.                *)
LEMMA SidecarIsStamped ==
  ASSUME ReviewBounds, ReviewInv, Review!Stamp PROVE ReviewInv'
<1>0. /\ ReviewTypes /\ AllChanged(commits) /\ HeadInv /\ PriorInv /\ WordInv
      /\ StateInv /\ RecordInv /\ SoundInv /\ KillInv /\ MortalInv
  BY DEF ReviewInv
<1>1. /\ run.at = "stamp" /\ meta' = [meta EXCEPT !.status = Review!Status(state)]
      /\ run' = [run EXCEPT !.at = run.next]
      /\ UNCHANGED <<commits, state, outputs, rejected, spent, record, page, prior, runs, kills, faults>>
  BY DEF Review!Stamp, Review!At, Review!Go
<1>2. run.next \in {"sweep", "gate"} /\ Review!Status(state) \in {"completed", "partial"} /\ Working
  BY <1>0, <1>1 DEF HeadInv, Review!Status, Working, Judging
<1>3. /\ run' \in RunRecords /\ run'.at = run.next /\ run'.g = run.g /\ run'.over = run.over
      /\ run'.bad = run.bad
      /\ run'.head = run.head /\ run'.tree = run.tree /\ run'.asks = run.asks /\ run'.base = run.base
      /\ run'.st = run.st /\ run'.next = run.next
  BY <1>0, <1>1, <1>2 DEF RunRecords, ReviewTypes, RunStages, Judging, Closing
<1>4. meta'.head = meta.head /\ ReviewTypes'
  BY <1>0, <1>1, <1>2, <1>3 DEF ReviewTypes, Review!Tip
<1>5. "scan" \in run.st.done /\ HasSynthesis(run.st) /\ state = run.st /\ state.head = run.head
      /\ state # Review!Absent
  BY <1>0, <1>1, <1>2, InWork DEF StateInv
<1>6. CASE run.next = "gate"
  <2>1. Proceeding
    BY <1>0, <1>1, <1>2, <1>3, <1>4, <1>6, InWork DEF Proceeding, Writing, Working, Reading, Judging
  <2>2. HeadInv' /\ PriorInv' /\ AllChanged(commits') /\ WordInv' /\ KillInv'
    BY <1>1, <1>3, <1>6, <2>1, GroupsStay DEF Reading
  <2>3. StateInv' /\ RecordInv'
    BY <1>0, <1>1, <1>3, <1>4, <1>6, <2>1 DEF StateInv, RecordInv, Proceeding, Writing, Reading
  <2>4. SoundInv'
    BY <1>0, <1>1, <1>3, <1>4, <1>6 DEF SoundInv, Sound, Mortal, Rest, Opening, Choosing, Closing
  <2>5. MortalInv'
    BY <1>0, <1>1, <1>3, <1>6, <2>1 DEF MortalInv, Mortal, Proceeding, Writing, Reading, Opening, Closing
  <2> QED BY <1>4, <2>2, <2>3, <2>4, <2>5 DEF ReviewInv
<1>7. CASE run.next = "sweep"
  <2>1. ~Working'
    BY <1>3, <1>7 DEF Working, Reading, Writing, Judging
  <2>2. HeadInv' /\ PriorInv' /\ AllChanged(commits') /\ WordInv' /\ KillInv'
    BY <1>0, <1>1, <1>3, <1>4, <1>7, <2>1
       DEF HeadInv, PriorInv, WordInv, KillInv, Review!Tip, Opening, Choosing, Writing
  <2>3. ReadOf(commits, outputs, rejected, state, state.head)
    BY <1>0, <1>2, <1>5 DEF WordInv
  <2>4. StateInv' /\ RecordInv'
    BY <1>0, <1>1, <1>3, <1>5, <1>7, <2>1, <2>3 DEF StateInv, RecordInv, Writing, Reading
  <2>5. Sound'
    BY <1>0, <1>1, <1>4, <1>5, <1>7 DEF RecordInv, Sound, Review!Status
  <2>6. MortalInv'
    BY <1>0, <1>1, <1>3, <1>7, <2>1 DEF MortalInv, Mortal, Writing, Reading, Opening, Closing
  <2> QED BY <1>4, <2>2, <2>4, <2>5, <2>6 DEF ReviewInv, SoundInv
<1> QED BY <1>2, <1>6, <1>7

(* A step outside a pipeline leaves what the groups and the state say.     *)
LEMMA StillIdle ==
  ASSUME ReviewInv, ~Working, run'.at \in {"off"} \cup Opening \cup Choosing \cup Closing,
         run'.at = "sweep state" => Review!Status(state) = "completed",
         UNCHANGED <<commits, state, outputs, rejected, faults>>
  PROVE  ~Working' /\ WordInv' /\ StateInv' /\ KillInv' /\ RecordInv' /\ AllChanged(commits')
<1>0. AllChanged(commits) /\ StateInv /\ KillInv
  BY DEF ReviewInv
<1>1. ~Working' /\ run'.at \notin Reading \cup Writing \cup Judging
  BY NotWorking DEF Opening, Choosing, Closing, Reading, Writing, Judging
<1>2. WordInv' /\ KillInv' /\ RecordInv'
  <2>1. WordInv'
    BY <1>1 DEF WordInv
  <2>2. KillInv'
    BY <1>0, <1>1 DEF KillInv
  <2>3. RecordInv'
    BY <1>1 DEF RecordInv, Judging, Writing
  <2> QED BY <2>1, <2>2, <2>3
<1>3. StateInv'
  BY <1>0, <1>1 DEF StateInv, Judging
<1> QED BY <1>0, <1>1, <1>2, <1>3

(* A run takes up the head of an unfinished state, or none yet.            *)
LEMMA RunStarts ==
  ASSUME ReviewBounds, ReviewInv, NEW recover \in BOOLEAN, Review!Start(recover) PROVE ReviewInv'
<1>0. /\ ReviewTypes /\ AllChanged(commits) /\ HeadInv /\ PriorInv /\ WordInv
      /\ StateInv /\ RecordInv /\ SoundInv /\ KillInv /\ MortalInv
  BY DEF ReviewInv
<1> DEFINE pin == IF recover THEN state.head ELSE 0
           tree == IF recover THEN state.head ELSE Review!Tip
           at == IF state = Review!Absent THEN "archive" ELSE "collect"
           asks == IF state = Review!Absent THEN page ELSE prior.page
<1>1. /\ run.at = "off" /\ (recover => state # Review!Absent)
      /\ run' = [Review!Off EXCEPT !.at = at, !.head = pin, !.tree = tree, !.asks = asks]
      /\ UNCHANGED <<commits, state, outputs, rejected, spent, record, meta, page, prior, kills, faults>>
  BY DEF Review!Start, Review!At, Review!disk
<1>2. /\ pin \in Nat /\ tree \in 1..Review!Tip /\ at \in {"archive", "collect"} /\ asks \in BOOLEAN
      /\ ((pin = 0 /\ tree = Review!Tip) \/ (pin = tree /\ state # Review!Absent))
  <2>1. pin \in Nat /\ tree \in 1..Review!Tip
        /\ ((pin = 0 /\ tree = Review!Tip) \/ (pin = tree /\ state # Review!Absent))
    <3>1. CASE recover
      BY <1>0, <1>1, <3>1, TipIsNat DEF HeadInv
    <3>2. CASE ~recover
      BY <1>0, <3>2, TipIsNat
    <3> QED BY <3>1, <3>2
  <2>2. at \in {"archive", "collect"} /\ asks \in BOOLEAN
    BY <1>0 DEF ReviewTypes, PriorRecords
  <2> QED BY <2>1, <2>2
<1>3. Review!NoPrior \in PriorRecords /\ Review!Absent \in ReviewStates /\ Review!NoRecord \in ReviewRecords
      /\ Review!Nothing \in ReviewReads
  BY DEF Review!NoPrior, PriorRecords, Review!Absent, ReviewStates, Review!NoRecord, ReviewRecords,
     Review!Nothing, ReviewReads
<1> HIDE DEF pin, tree, at, asks, Review!NoPrior, Review!Absent, Review!NoRecord
<1>4. /\ run' \in RunRecords /\ run'.at = at /\ run'.head = pin /\ run'.tree = tree /\ run'.asks = asks
      /\ run'.base = Review!NoPrior
  <2>1. at \in RunStages /\ tree \in Nat /\ [g \in Groups |-> "todo"] \in [Groups -> GroupWords]
    BY <1>0, <1>2, TipIsNat DEF RunStages, Opening, GroupWords, Unread
  <2> QED BY <1>1, <1>2, <1>3, <2>1 DEF RunRecords, Review!Off
<1>5. ~Working /\ run'.at \in Opening /\ run'.at \in {"off"} \cup Opening \cup Choosing \cup Closing
      /\ run'.at # "sweep state"
  BY <1>1, <1>2, <1>4 DEF Working, Reading, Writing, Judging, Opening
<1>6. ~Working' /\ WordInv' /\ StateInv' /\ KillInv' /\ RecordInv' /\ AllChanged(commits')
  BY <1>1, <1>5, StillIdle
<1>7. ReviewTypes'
  BY <1>0, <1>1, <1>4 DEF ReviewTypes, Review!Tip
<1>8. HeadInv'
  <2>1. run'.base.head = 0
    BY <1>4 DEF Review!NoPrior
  <2>2. at = "archive" => state = Review!Absent
    BY DEF at
  <2>3. Review!Tip' = Review!Tip /\ 0 \in 0..Review!Tip
        /\ run'.at \notin Choosing \cup Writing \cup {"stamp", "synthesised"}
    BY <1>0, <1>1, <1>5, TipIsNat DEF Review!Tip, Opening, Choosing, Writing
  <2> QED BY <1>0, <1>1, <1>2, <1>4, <1>5, <1>6, <2>1, <2>2, <2>3 DEF HeadInv
<1>9. PriorInv'
  BY <1>0, <1>1, <1>2, <1>4, <1>5 DEF PriorInv, at, asks
<1>10. MortalInv' /\ SoundInv'
  BY <1>0, <1>1, <1>2, <1>4, <1>5, <1>6 DEF MortalInv, Mortal, SoundInv, Sound, Rest, Opening, Reading, Writing,
     at, asks
<1> QED BY <1>6, <1>7, <1>8, <1>9, <1>10 DEF ReviewInv

(* The page of the last review goes to the archive; its record is what a   *)
(* round builds on.                                                        *)
LEMMA PageIsArchived ==
  ASSUME ReviewBounds, ReviewInv, Review!Archive PROVE ReviewInv'
<1>0. /\ ReviewTypes /\ AllChanged(commits) /\ HeadInv /\ PriorInv /\ WordInv
      /\ StateInv /\ RecordInv /\ SoundInv /\ KillInv /\ MortalInv
  BY DEF ReviewInv
<1>1. /\ run.at = "archive" /\ page' = FALSE /\ prior' = [prior EXCEPT !.page = @ \/ page]
      /\ run' = [run EXCEPT !.at = "archive record"]
      /\ UNCHANGED <<commits, state, outputs, rejected, spent, record, meta, runs, kills, faults>>
  BY DEF Review!Archive, Review!At, Review!Go
<1>2. /\ run' \in RunRecords /\ run'.at = "archive record" /\ run'.head = run.head /\ run'.tree = run.tree
      /\ run'.asks = run.asks /\ run'.base = run.base
  BY <1>0, <1>1 DEF RunRecords, ReviewTypes, RunStages, Opening
<1>3. /\ prior' \in PriorRecords /\ prior'.there = prior.there /\ prior'.reads = prior.reads
      /\ prior'.head = prior.head
      /\ prior'.page = (prior.page \/ page)
  BY <1>0, <1>1 DEF PriorRecords, ReviewTypes
<1>4. ~Working /\ run'.at \in {"off"} \cup Opening \cup Choosing \cup Closing /\ run'.at # "sweep state"
  BY <1>1, <1>2 DEF Working, Reading, Writing, Judging, Opening
<1>5. ~Working' /\ WordInv' /\ StateInv' /\ KillInv' /\ RecordInv' /\ AllChanged(commits')
  BY <1>1, <1>4, StillIdle
<1>6. ReviewTypes' /\ state = Review!Absent
  BY <1>0, <1>1, <1>2, <1>3 DEF ReviewTypes, Review!Tip, HeadInv
<1>7. HeadInv' /\ PriorInv'
  BY <1>0, <1>1, <1>2, <1>3, <1>5, <1>6 DEF HeadInv, PriorInv, Opening, Choosing, Writing, Review!Tip
<1>8. MortalInv' /\ SoundInv'
  <2>1. state.done = {}
    BY <1>6 DEF Review!Absent
  <2>2. Mortal => prior'.page = run.asks
    BY <1>0, <1>1, <1>3, <1>6 DEF MortalInv, PriorInv, ReviewTypes, PriorRecords
  <2> QED BY <1>0, <1>1, <1>2, <1>3, <1>5, <1>6, <2>1, <2>2
          DEF MortalInv, Mortal, SoundInv, Sound, Rest, Opening, Reading, Writing, HasSynthesis
<1> QED BY <1>5, <1>6, <1>7, <1>8 DEF ReviewInv

(* The record follows its page.                                            *)
LEMMA RecordIsArchived ==
  ASSUME ReviewBounds, ReviewInv, Review!ArchiveRecord PROVE ReviewInv'
<1>0. /\ ReviewTypes /\ AllChanged(commits) /\ HeadInv /\ PriorInv /\ WordInv
      /\ StateInv /\ RecordInv /\ SoundInv /\ KillInv /\ MortalInv
  BY DEF ReviewInv
<1>1. /\ run.at = "archive record" /\ record' = Review!NoRecord /\ run' = [run EXCEPT !.at = "collect"]
      /\ prior' = IF record.there
                  THEN [prior EXCEPT !.there = TRUE, !.reads = record.reads, !.head = meta.head]
                  ELSE [Review!NoPrior EXCEPT !.page = prior.page]
      /\ UNCHANGED <<commits, state, outputs, rejected, spent, meta, page, runs, kills, faults>>
  BY DEF Review!ArchiveRecord, Review!At, Review!Go
<1>2. /\ run' \in RunRecords /\ run'.at = "collect" /\ run'.head = run.head /\ run'.tree = run.tree
      /\ run'.asks = run.asks /\ run'.base = run.base
  BY <1>0, <1>1 DEF RunRecords, ReviewTypes, RunStages, Opening
<1>3. state = Review!Absent /\ Sound /\ meta.head \in 0..Review!Tip /\ meta.head \in Nat
  <2>1. state = Review!Absent /\ Sound
    BY <1>0, <1>1 DEF HeadInv, SoundInv, Rest, Opening
  <2> QED BY <1>0, <2>1, TipIsNat
<1>4. /\ prior' \in PriorRecords /\ prior'.page = prior.page /\ prior'.head \in 0..Review!Tip
      /\ prior'.there => prior'.reads = record.reads /\ prior'.head = meta.head /\ record.there
  <2>1. Review!Nothing \in ReviewReads /\ 0 \in 0..Review!Tip
    BY <1>0, TipIsNat DEF Review!Nothing, ReviewReads
  <2>2. CASE record.there
    BY <1>0, <1>1, <1>3, <2>2 DEF PriorRecords, ReviewTypes, ReviewRecords
  <2>3. CASE ~record.there
    BY <1>0, <1>1, <2>1, <2>3 DEF PriorRecords, ReviewTypes, Review!NoPrior
  <2> QED BY <2>2, <2>3
<1>5. ~Working /\ run'.at \in {"off"} \cup Opening \cup Choosing \cup Closing /\ run'.at # "sweep state"
  BY <1>1, <1>2 DEF Working, Reading, Writing, Judging, Opening
<1>6. ~Working' /\ WordInv' /\ StateInv' /\ KillInv' /\ RecordInv' /\ AllChanged(commits')
  BY <1>1, <1>5, StillIdle
<1>7. ReviewTypes'
  BY <1>0, <1>1, <1>2, <1>4 DEF ReviewTypes, Review!Tip, Review!NoRecord, ReviewRecords, Review!Nothing,
     ReviewReads
<1>8. HeadInv' /\ PriorInv'
  <2>1. HeadInv'
    BY <1>0, <1>1, <1>2, <1>4, <1>6 DEF HeadInv, Opening, Choosing, Writing, Review!Tip
  <2>2. PriorInv'
    BY <1>1, <1>2, <1>3, <1>4 DEF PriorInv, Sound, Opening
  <2> QED BY <2>1, <2>2
<1>9. MortalInv' /\ SoundInv'
  <2>1. state.done = {} /\ ~record'.there
    BY <1>1, <1>3 DEF Review!Absent, Review!NoRecord
  <2> QED BY <1>0, <1>1, <1>2, <1>3, <1>4, <1>6, <2>1
          DEF MortalInv, Mortal, SoundInv, Sound, Opening, Reading, Writing, HasSynthesis
<1> QED BY <1>6, <1>7, <1>8, <1>9 DEF ReviewInv

(* The head is read where nothing pinned it.                               *)
LEMMA HeadIsRead ==
  ASSUME ReviewBounds, ReviewInv, Review!Collect PROVE ReviewInv'
<1>0. /\ ReviewTypes /\ AllChanged(commits) /\ HeadInv /\ PriorInv /\ WordInv
      /\ StateInv /\ RecordInv /\ SoundInv /\ KillInv /\ MortalInv
  BY DEF ReviewInv
<1> DEFINE head == IF run.head = 0 THEN Review!Tip ELSE run.head
           base == IF run.asks THEN prior ELSE Review!NoPrior
<1>1. /\ run.at = "collect" /\ run' = [run EXCEPT !.at = "choose", !.head = head, !.base = base]
      /\ UNCHANGED <<commits, state, outputs, rejected, spent, record, meta, page, prior, runs, kills, faults>>
  BY DEF Review!Collect, Review!At, Review!disk
<1>2. /\ head \in 1..Review!Tip /\ head \in Nat /\ run.tree = head
      /\ (state = Review!Absent => head = Review!Tip)
      /\ meta.head <= Review!Tip
  <2>1. run.tree \in 1..Review!Tip
        /\ ((run.head = 0 /\ run.tree = Review!Tip) \/ (run.head = run.tree /\ state # Review!Absent))
    BY <1>0, <1>1 DEF HeadInv, Opening
  <2>2. run.tree # 0 /\ run.tree \in Nat
    BY <1>0, <2>1, TipIsNat
  <2> QED BY <1>0, <2>1, <2>2, TipIsNat
<1>3. base \in PriorRecords /\ base.head \in 0..Review!Tip
  <2>1. Review!NoPrior \in PriorRecords /\ Review!NoPrior.head = 0
    BY DEF PriorRecords, Review!NoPrior, ReviewReads, Review!Nothing
  <2>2. prior \in PriorRecords /\ prior.head \in 0..Review!Tip /\ 0 \in 0..Review!Tip
    BY <1>0, TipIsNat DEF ReviewTypes, HeadInv
  <2> HIDE DEF Review!NoPrior
  <2> QED BY <2>1, <2>2
<1> HIDE DEF head, base
<1>4. /\ run' \in RunRecords /\ run'.at = "choose" /\ run'.head = head /\ run'.tree = run.tree
      /\ run'.asks = run.asks /\ run'.base = base
  BY <1>0, <1>1, <1>2, <1>3 DEF RunRecords, ReviewTypes, RunStages, Choosing
<1>5. ~Working /\ run'.at \in {"off"} \cup Opening \cup Choosing \cup Closing /\ run'.at # "sweep state"
  BY <1>1, <1>4 DEF Working, Reading, Writing, Judging, Opening, Choosing
<1>6. ~Working' /\ WordInv' /\ StateInv' /\ KillInv' /\ RecordInv' /\ AllChanged(commits')
  BY <1>1, <1>5, StillIdle
<1>7. ReviewTypes'
  BY <1>0, <1>1, <1>4 DEF ReviewTypes, Review!Tip
<1>8. HeadInv' /\ PriorInv'
  BY <1>0, <1>1, <1>2, <1>3, <1>4, <1>6 DEF HeadInv, PriorInv, Opening, Choosing, Writing, Review!Tip, base
<1>9. MortalInv' /\ SoundInv'
  BY <1>0, <1>1, <1>4, <1>5, <1>6
     DEF MortalInv, Mortal, SoundInv, Sound, Rest, Opening, Choosing, Reading, Writing
<1> QED BY <1>6, <1>7, <1>8, <1>9 DEF ReviewInv

(* The record of a run that is none.                                       *)
LEMMA OffIsRecord == Review!Off \in RunRecords /\ Review!Off.at = "off" /\ Review!Off.base = Review!NoPrior
                     /\ Review!Off.base.head = 0
<1>1. /\ Review!NoPrior \in PriorRecords /\ Review!NoPrior.head = 0 /\ Review!Absent \in ReviewStates
      /\ Review!NoRecord \in ReviewRecords
      /\ [g \in Groups |-> "todo"] \in [Groups -> GroupWords]
  BY DEF Review!NoPrior, PriorRecords, Review!Absent, ReviewStates, Review!NoRecord, ReviewRecords,
     Review!Nothing, ReviewReads, GroupWords, Unread
<1> HIDE DEF Review!NoPrior, Review!Absent, Review!NoRecord
<1> QED BY <1>1 DEF Review!Off, RunRecords, RunStages

(* A review that is published with no pipeline.                            *)
LEMMA WholeIsPublished ==
  ASSUME ReviewInv, run.at = "choose", NEW doc \in ReviewRecords, doc.there, doc.judged,
         Whole(commits, doc.reads, run.head),
         run' = [run EXCEPT !.at = "publish", !.doc = doc, !.status = "", !.next = "sweep"],
         UNCHANGED <<commits, state, outputs, rejected, spent, record, meta, page, prior, runs, kills, faults>>
  PROVE  ReviewInv'
<1>0. /\ ReviewTypes /\ AllChanged(commits) /\ HeadInv /\ PriorInv /\ WordInv
      /\ StateInv /\ RecordInv /\ SoundInv /\ KillInv /\ MortalInv
  BY DEF ReviewInv
<1>1. /\ run' \in RunRecords /\ run'.at = "publish" /\ run'.head = run.head /\ run'.tree = run.tree
      /\ run'.asks = run.asks /\ run'.base = run.base /\ run'.doc = doc /\ run'.next = "sweep"
  BY <1>0 DEF RunRecords, ReviewTypes, RunStages, Writing
<1>2. ~Working /\ ~Working'
  BY <1>1 DEF Working, Reading, Writing, Judging
<1>3. ReviewTypes' /\ AllChanged(commits') /\ WordInv' /\ KillInv'
  BY <1>0, <1>1, <1>2 DEF ReviewTypes, Review!Tip, WordInv, KillInv
<1>4. HeadInv' /\ PriorInv'
  BY <1>0, <1>1, <1>2 DEF HeadInv, PriorInv, Opening, Choosing, Writing, Review!Tip
<1>5. StateInv' /\ RecordInv'
  BY <1>0, <1>1, <1>2 DEF StateInv, RecordInv, Writing, Reading
<1>6. MortalInv' /\ SoundInv'
  BY <1>0, <1>1, <1>2 DEF MortalInv, Mortal, SoundInv, Sound, Rest, Opening, Choosing, Reading, Writing
<1> QED BY <1>3, <1>4, <1>5, <1>6 DEF ReviewInv

(* What the plan carries over, in terms of the commits; with an empty      *)
(* delta that is every group.                                              *)
LEMMA CarriedIsCarriedIn ==
  ASSUME ReviewTypes, HeadInv, run.at \notin {"off"} \cup Opening
  PROVE  /\ Review!Carried = CarriedIn(commits, run.base, run.head)
         /\ Review!Incremental /\ Review!Delta = {} => CarriedIn(commits, run.base, run.head) = Groups
<1>1. run.tree = run.head
  BY DEF HeadInv
<1>2. \A g \in Groups : g \in Review!Delta <=> \E k \in (run.base.head + 1)..run.head : g \in commits[k]
  BY <1>1 DEF Review!Delta
<1> QED BY <1>2 DEF Review!Carried, Review!Incremental, CarriedIn

(* With nothing new the review of before is published again, at the new    *)
(* head.                                                                   *)
LEMMA NothingIsNew ==
  ASSUME ReviewBounds, ReviewInv, Review!NoOp PROVE ReviewInv'
<1>0. /\ ReviewTypes /\ AllChanged(commits) /\ HeadInv /\ PriorInv /\ run.at = "choose" /\ Review!Incremental
      /\ Review!Delta = {}
  BY DEF ReviewInv, Review!NoOp, Review!At
<1> DEFINE doc == [there |-> TRUE, reads |-> run.base.reads, judged |-> TRUE]
<1>1. run.at \notin {"off"} \cup Opening
  BY <1>0 DEF Opening
<1>2. doc \in ReviewRecords /\ doc.there /\ doc.judged /\ doc.reads = run.base.reads
  BY <1>0 DEF ReviewTypes, RunRecords, PriorRecords, ReviewRecords
<1>3. Whole(commits, doc.reads, run.head)
  BY <1>0, <1>1, <1>2, CarriedIsRead, CarriedIsCarriedIn DEF Whole
<1>4. run' = [run EXCEPT !.at = "publish", !.doc = doc, !.status = "", !.next = "sweep"]
      /\ UNCHANGED <<commits, state, outputs, rejected, spent, record, meta, page, prior, runs, kills, faults>>
  BY DEF Review!NoOp, Review!Publish, Review!disk
<1> HIDE DEF doc
<1> QED BY <1>0, <1>2, <1>3, <1>4, WholeIsPublished

(* One agent that reads everything, and whose review is challenged at      *)
(* once.                                                                   *)
LEMMA OneAgentReads ==
  ASSUME ReviewBounds, ReviewInv, Review!SingleAgent PROVE ReviewInv'
<1>0. /\ ReviewTypes /\ AllChanged(commits) /\ HeadInv /\ PriorInv /\ run.at = "choose" /\ "gate" \notin faults
  BY DEF ReviewInv, Review!SingleAgent, Review!At, ReviewTypes
<1> DEFINE reads == [g \in Groups |-> Review!ReadNow(g)]
           doc == [there |-> TRUE, reads |-> reads, judged |-> TRUE]
<1>1. run.at \notin {"off"} \cup Opening
  BY <1>0 DEF Opening
<1>2. run.tree = run.head /\ run.head \in 1..Len(commits) /\ run.head \in 0..Len(commits)
  BY <1>0, <1>1, TipIsNat DEF HeadInv
<1>3. ASSUME NEW g \in Groups
      PROVE  Review!ReadNow(g) \in Nat /\ VersionIn(commits, run.head, g) <= Review!ReadNow(g)
  <2>1. CASE g \in Review!Carried
    <3>1. run.base.reads[g] \in Nat
      BY <1>0 DEF ReviewTypes, RunRecords, PriorRecords, ReviewReads
    <3> QED BY <1>0, <1>1, <2>1, <3>1, CarriedIsRead, CarriedIsCarriedIn DEF Review!ReadNow
  <2>2. CASE g \notin Review!Carried
    <3>1. Review!ReadNow(g) = VersionIn(commits, run.head, g)
      BY <1>2, <2>2 DEF Review!ReadNow, Review!Version, VersionIn
    <3>2. VersionIn(commits, run.head, g) \in Nat
      BY <1>0, <1>2, TipIsNat, VersionIsNat
    <3> QED BY <3>1, <3>2
  <2> QED BY <2>1, <2>2
<1>4. doc \in ReviewRecords /\ doc.there /\ doc.judged /\ doc.reads = reads
  BY <1>3 DEF ReviewRecords, ReviewReads
<1>5. Whole(commits, doc.reads, run.head)
  BY <1>3, <1>4 DEF Whole
<1>6. run' = [run EXCEPT !.at = "publish", !.doc = doc, !.status = "", !.next = "sweep"]
      /\ UNCHANGED <<commits, state, outputs, rejected, spent, record, meta, page, prior, runs, kills, faults>>
  BY <1>0 DEF Review!SingleAgent, Review!Publish, Review!disk
<1> HIDE DEF doc
<1> QED BY <1>0, <1>4, <1>5, <1>6, WholeIsPublished

(* One agent that fails leaves what was there.                             *)
LEMMA OneAgentFails ==
  ASSUME ReviewBounds, ReviewInv, Review!SingleFails PROVE ReviewInv'
<1>0. /\ ReviewTypes /\ AllChanged(commits) /\ HeadInv /\ PriorInv /\ WordInv
      /\ StateInv /\ RecordInv /\ SoundInv /\ KillInv /\ MortalInv
  BY DEF ReviewInv
<1>1. /\ run.at = "choose" /\ run' = Review!Off /\ "fail" \in faults
      /\ UNCHANGED <<commits, state, outputs, rejected, spent, record, meta, page, prior, runs, kills, faults>>
  BY DEF Review!SingleFails, Review!At, Review!Fails, Review!disk
<1>2. ~Mortal /\ ~Mortal'
  BY <1>0, <1>1 DEF Mortal, ReviewTypes
<1>3. Review!Off \in RunRecords /\ Review!Off.at = "off" /\ Review!Off.base.head = 0
  BY OffIsRecord
<1>4. ~Working /\ run'.at \in {"off"} \cup Opening \cup Choosing \cup Closing /\ run'.at # "sweep state"
  BY <1>1, <1>3 DEF Working, Reading, Writing, Judging, Opening
<1>5. ~Working' /\ WordInv' /\ StateInv' /\ KillInv' /\ RecordInv' /\ AllChanged(commits')
  BY <1>1, <1>4, StillIdle
<1>6. ReviewTypes' /\ PriorInv'
  BY <1>0, <1>1, <1>3 DEF ReviewTypes, Review!Tip, PriorInv
<1>7. HeadInv'
  <2>1. Review!Tip' = Review!Tip /\ 0 \in 0..Review!Tip
    BY <1>0, <1>1, TipIsNat DEF Review!Tip
  <2> QED BY <1>0, <1>1, <1>3, <1>5, <2>1 DEF HeadInv, Opening, Choosing, Writing
<1>8. MortalInv' /\ SoundInv'
  BY <1>0, <1>1, <1>2, <1>3 DEF MortalInv, SoundInv, Rest, Sound, Choosing
<1> QED BY <1>5, <1>6, <1>7, <1>8 DEF ReviewInv

(* A run that is to have a pipeline, or whose review is complete already.  *)
LEMMA PipelineIsChosen ==
  ASSUME ReviewBounds, ReviewInv, Review!Choose \/ Review!AlreadyComplete PROVE ReviewInv'
<1>0. /\ ReviewTypes /\ AllChanged(commits) /\ HeadInv /\ PriorInv /\ WordInv
      /\ StateInv /\ RecordInv /\ SoundInv /\ KillInv /\ MortalInv
  BY DEF ReviewInv
<1>1. PICK at \in {"plan", "sweep"} :
      /\ run.at \in Choosing /\ run' = [run EXCEPT !.at = at]
      /\ at = "sweep" => Review!Status(state) = "completed"
      /\ UNCHANGED <<commits, state, outputs, rejected, spent, record, meta, page, prior, runs, kills, faults>>
  BY DEF Review!Choose, Review!AlreadyComplete, Review!At, Review!Go, Review!disk, Choosing, Review!Status
<1>2. /\ run' \in RunRecords /\ run'.at = at /\ run'.head = run.head /\ run'.tree = run.tree
      /\ run'.asks = run.asks /\ run'.base = run.base
  BY <1>0, <1>1 DEF RunRecords, ReviewTypes, RunStages, Choosing, Closing
<1>3. ~Working /\ run'.at \in {"off"} \cup Opening \cup Choosing \cup Closing /\ run'.at # "sweep state"
  BY <1>1, <1>2 DEF Working, Reading, Writing, Judging, Choosing, Closing
<1>4. ~Working' /\ WordInv' /\ StateInv' /\ KillInv' /\ RecordInv' /\ AllChanged(commits')
  BY <1>1, <1>3, StillIdle
<1>5. ReviewTypes' /\ HeadInv' /\ PriorInv'
  BY <1>0, <1>1, <1>2, <1>4 DEF ReviewTypes, Review!Tip, HeadInv, PriorInv, Opening, Choosing, Writing
<1>6. MortalInv' /\ SoundInv'
  BY <1>0, <1>1, <1>2, <1>3, <1>4 DEF MortalInv, Mortal, SoundInv, Sound, Rest, Opening, Choosing, Closing,
     Reading, Writing
<1> QED BY <1>4, <1>5, <1>6 DEF ReviewInv

(* A pipeline that begins with the state s in hand.                        *)
LEMMA PipelineBegins ==
  ASSUME ReviewBounds, ReviewInv, run.at = "plan",
         NEW s \in ReviewStates, NEW atGate \in BOOLEAN, NEW over \in BOOLEAN,
         Review!Plan(s, s.groupsDone, atGate, over),
         UNCHANGED <<commits, outputs, rejected, spent, record, meta, page, prior, runs, kills, faults>>,
         s.head = run.head, s.failed = {}, ReadOf(commits, outputs, rejected, s, run.head),
         HasSynthesis(s) => "scan" \in s.done,
         state' \in ReviewStates, state'.head = run.head, state'.groupsDone \subseteq s.groupsDone,
         state'.failed # {} => HasSynthesis(state'), HasSynthesis(state') => "scan" \in state'.done,
         atGate => state' = s /\ HasSynthesis(s) /\ (record.there => Whole(commits, record.reads, meta.head)),
         "fail" \notin faults => s.groupsFailed = {} /\ state'.groupsFailed = {},
         Mortal =>
           /\ ~atGate /\ "disprove" \notin s.done /\ Unfinished(state')
           /\ "disprove" \in state'.done => HasSynthesis(state')
           /\ HasSynthesis(s) => Groups \subseteq s.groupsDone \cup CarriedIn(commits, run.base, run.head)
           /\ HasSynthesis(state') /\ "synthesis" \notin state'.failed =>
                Groups \subseteq state'.groupsDone
                                 \cup (IF prior.page THEN CarriedIn(commits, prior, run.head) ELSE {})
  PROVE  ReviewInv'
<1>0. /\ ReviewTypes /\ AllChanged(commits) /\ HeadInv /\ PriorInv /\ WordInv
      /\ StateInv /\ RecordInv /\ SoundInv /\ KillInv /\ MortalInv
  BY DEF ReviewInv
<1> DEFINE words == [g \in Groups |-> IF g \in s.groupsDone THEN "reuse"
                                      ELSE IF g \in Review!Carried THEN "carried" ELSE "todo"]
<1>1. run' = [run EXCEPT !.at = "scan", !.st = s, !.atGate = atGate, !.over = over, !.g = words]
  BY DEF Review!Plan
<1>2. Review!Carried = CarriedIn(commits, run.base, run.head) /\ run.tree = run.head
      /\ run.head \in 1..Review!Tip /\ run.head # 0
  BY <1>0, CarriedIsCarriedIn, TipIsNat DEF HeadInv, Opening
<1>3. /\ words \in [Groups -> GroupWords]
      /\ \A g \in Groups : /\ words[g] \in {"reuse", "carried", "todo"}
                           /\ words[g] = "reuse" <=> g \in s.groupsDone
                           /\ words[g] = "carried" => g \in CarriedIn(commits, run.base, run.head)
                           /\ g \in CarriedIn(commits, run.base, run.head) => words[g] # "todo"
  BY <1>2 DEF GroupWords, Unread
<1> HIDE DEF words
<1>4. /\ run' \in RunRecords /\ run'.at = "scan" /\ run'.g = words /\ run'.over = over /\ run'.atGate = atGate
      /\ run'.head = run.head /\ run'.tree = run.tree /\ run'.asks = run.asks /\ run'.base = run.base
      /\ run'.next = run.next /\ run'.st = s
  BY <1>0, <1>1, <1>3 DEF RunRecords, ReviewTypes, RunStages, Reading
<1>5. ~Working /\ Working' /\ state' # Review!Absent
  BY <1>2, <1>4 DEF Working, Reading, Writing, Judging, Review!Absent
<1>6. ReviewTypes' /\ AllChanged(commits') /\ HeadInv' /\ PriorInv'
  <2>1. ReviewTypes' /\ AllChanged(commits') /\ Review!Tip' = Review!Tip
    BY <1>0, <1>4 DEF ReviewTypes, Review!Tip
  <2>2. HeadInv'
    BY <1>0, <1>2, <1>4, <1>5, <2>1 DEF HeadInv, Opening, Choosing, Writing
  <2>3. PriorInv'
    BY <1>0, <1>4 DEF PriorInv, Opening
  <2> QED BY <2>1, <2>2, <2>3
<1>7. WordInv'
  BY <1>3, <1>4 DEF WordInv, Unread
<1>8. StateInv'
  BY <1>4, <1>5 DEF StateInv, Reading, Writing, HasSynthesis
<1>9. RecordInv'
  BY <1>4 DEF RecordInv, Writing, Reading
<1>10. KillInv'
  BY <1>3, <1>4 DEF KillInv
<1>11. Mortal => MortalInv' /\ Sound'
  <2> SUFFICES ASSUME Mortal PROVE MortalInv' /\ Sound'
    OBVIOUS
  <2>1. Sound'
    BY UnfinishedSaysNothing DEF Sound
  <2>2. prior.page = run.asks
    BY <1>0 DEF MortalInv
  <2>3. HasSynthesis(s) => \A g \in Groups : words[g] \in {"reuse", "carried", "left", "unread"}
    BY <1>3
  <2> QED BY <1>4, <1>5, <2>1, <2>2, <2>3 DEF MortalInv, Reading, Writing, Opening, Closing
<1>12. MortalInv' /\ SoundInv'
  BY <1>4, <1>11 DEF MortalInv, Mortal, SoundInv, Rest, Opening, Choosing, Closing
<1> QED BY <1>6, <1>7, <1>8, <1>9, <1>10, <1>12 DEF ReviewInv

(* A pipeline with a fresh state: nothing is read, nothing is said.        *)
LEMMA AfreshBegins ==
  ASSUME ReviewBounds, ReviewInv, Review!Begin \/ Review!Restart PROVE ReviewInv'
<1>0. ReviewTypes /\ HeadInv /\ run.at = "plan"
  BY DEF ReviewInv, Review!Begin, Review!Restart, Review!At
<1>1. /\ state' = Review!Fresh /\ Review!Plan(Review!Fresh, {}, FALSE, FALSE)
      /\ UNCHANGED <<commits, outputs, rejected, spent, record, meta, page, prior, runs, kills, faults>>
  BY <1>0 DEF Review!Begin, Review!Restart, ReviewTypes
<1>2. run.head \in 1..Review!Tip /\ run.head \in Nat /\ run.head # 0
  BY <1>0, TipIsNat DEF HeadInv, Opening
<1>3. /\ Review!Fresh \in ReviewStates /\ Review!Fresh.head = run.head /\ Review!Fresh.groupsDone = {}
      /\ Review!Fresh.groupsFailed = {}
      /\ Review!Fresh.done = {} /\ Review!Fresh.failed = {} /\ Review!Fresh # Review!Absent
  BY <1>2 DEF Review!Fresh, Review!Absent, ReviewStates
<1> HIDE DEF Review!Fresh
<1>4. ReadOf(commits, outputs, rejected, Review!Fresh, run.head) /\ ~HasSynthesis(Review!Fresh)
      /\ Unfinished(Review!Fresh)
  BY <1>3 DEF ReadOf, HasSynthesis, Unfinished
<1>5. Review!Plan(Review!Fresh, Review!Fresh.groupsDone, FALSE, FALSE)
  BY <1>1, <1>3
<1> HIDE DEF Review!Plan
<1> QED BY <1>0, <1>1, <1>3, <1>4, <1>5, PipelineBegins

(* A recovery takes over what its state says was read, and no more.        *)
LEMMA PipelineIsRecovered ==
  ASSUME ReviewBounds, ReviewInv, Review!ResumeAtGate \/ Review!Recover \/ Review!Resume PROVE ReviewInv'
<1>0. /\ ReviewTypes /\ HeadInv /\ PriorInv /\ StateInv /\ SoundInv /\ KillInv /\ MortalInv
  BY DEF ReviewInv
<1>1. /\ run.at = "plan" /\ state # Review!Absent /\ state.head = run.head
      /\ UNCHANGED <<commits, state, outputs, rejected, spent, record, meta, page, prior, runs, kills, faults>>
  BY DEF Review!ResumeAtGate, Review!Recover, Review!Resume, Review!At, Review!Stale, Review!disk
<1>2. ~Working /\ Sound /\ state \in ReviewStates /\ spent \in BOOLEAN
  BY <1>0, <1>1 DEF Working, Reading, Writing, Judging, SoundInv, Rest, Choosing, ReviewTypes
<1>3. /\ Mortal => /\ "disprove" \in state.failed /\ HasSynthesis(state) /\ prior.page = run.asks
                   /\ "synthesis" \notin state.failed =>
                        Groups \subseteq state.groupsDone
                          \cup (IF prior.page THEN CarriedIn(commits, prior, state.head) ELSE {})
      /\ Mortal => "fail" \notin faults
      /\ run.base = IF run.asks THEN prior ELSE Review!NoPrior
      /\ HasSynthesis(state) => "scan" \in state.done
      /\ state.failed # {} => HasSynthesis(state)
      /\ "disprove" \in state.done => HasSynthesis(state)
      /\ Review!Status(state) # "completed" => ReadOf(commits, outputs, rejected, state, run.head)
      /\ "fail" \notin faults => state.groupsFailed = {}
  <2>1. Mortal => "disprove" \in state.failed /\ prior.page = run.asks
    BY <1>0, <1>1, <1>2 DEF MortalInv
  <2>2. HasSynthesis(state) => "scan" \in state.done
    BY <1>0 DEF StateInv
  <2>3. state.failed # {} => HasSynthesis(state)
    BY <1>0 DEF StateInv
  <2>4. /\ "disprove" \in state.done => HasSynthesis(state)
        /\ Review!Status(state) # "completed" => ReadOf(commits, outputs, rejected, state, run.head)
    BY <1>0, <1>1, <1>2 DEF StateInv
  <2>5. "fail" \notin faults => state.groupsFailed = {}
    BY <1>0 DEF KillInv
  <2>6. run.base = IF run.asks THEN prior ELSE Review!NoPrior
    BY <1>0, <1>1 DEF PriorInv, Opening
  <2>7. Mortal => "fail" \notin faults
    BY <1>0 DEF Mortal, ReviewTypes
  <2>8. Mortal => ("synthesis" \notin state.failed =>
                        Groups \subseteq state.groupsDone
                          \cup (IF prior.page THEN CarriedIn(commits, prior, state.head) ELSE {}))
    BY <1>0, <2>1, <2>3 DEF MortalInv
  <2> QED BY <2>1, <2>2, <2>3, <2>4, <2>5, <2>6, <2>7, <2>8
<1>4. CASE Review!ResumeAtGate
  <2>1. PICK over \in {FALSE, spent} : Review!Plan(state, state.groupsDone, TRUE, over)
    BY <1>4 DEF Review!ResumeAtGate
  <2>2. over \in BOOLEAN /\ HasSynthesis(state) /\ Review!Clean(state) /\ Review!Status(state) # "completed"
    BY <1>1, <1>2, <1>4 DEF Review!ResumeAtGate, HasSynthesis, Review!Status
  <2>3. ~Mortal /\ state.failed = {} /\ (record.there => Whole(commits, record.reads, meta.head))
    BY <1>2, <1>3, <2>2 DEF Review!Clean, Sound
  <2> QED BY <1>1, <1>2, <1>3, <2>1, <2>2, <2>3, PipelineBegins
<1>5. CASE Review!Recover
  <2> DEFINE s == Review!Retried(state)
  <2>1. PICK over \in {FALSE, spent} : Review!Plan(s, state.groupsDone, FALSE, over)
    BY <1>5 DEF Review!Recover
  <2>2. over \in BOOLEAN /\ HasSynthesis(state) /\ ~Review!Clean(state) /\ Review!Status(state) # "completed"
        /\ Unfinished(state)
    BY <1>1, <1>2, <1>5 DEF Review!Recover, HasSynthesis, Review!Status, Unfinished
  <2>3. /\ s \in ReviewStates /\ s.head = state.head /\ s.failed = {} /\ s.groupsFailed = {}
        /\ s.groupsDone = state.groupsDone /\ s.done = state.done \ state.failed
    BY <1>2 DEF Review!Retried, ReviewStates
  <2> HIDE DEF s
  <2>4. ReadOf(commits, outputs, rejected, s, run.head)
    BY <1>3, <2>2, <2>3 DEF ReadOf
  <2>5. HasSynthesis(s) => "scan" \in s.done /\ "synthesis" \notin state.failed
    BY <1>2, <1>3, <2>2, <2>3 DEF HasSynthesis, ReviewStates
  <2>6. Mortal =>
          /\ "disprove" \notin s.done
          /\ HasSynthesis(s) => Groups \subseteq s.groupsDone \cup CarriedIn(commits, run.base, run.head)
    <3> SUFFICES ASSUME Mortal, HasSynthesis(s)
                 PROVE Groups \subseteq s.groupsDone \cup CarriedIn(commits, run.base, run.head)
      BY <1>3, <2>3
    <3>1. Groups \subseteq
            state.groupsDone \cup (IF prior.page THEN CarriedIn(commits, prior, state.head) ELSE {})
      BY <1>3, <2>5
    <3>2. CASE prior.page
      BY <1>1, <1>3, <2>3, <3>1, <3>2
    <3>3. CASE ~prior.page
      BY <2>3, <3>1, <3>3
    <3> QED BY <3>2, <3>3
  <2> HIDE DEF Review!Plan
  <2>7. Review!Plan(s, s.groupsDone, FALSE, over) /\ s.head = run.head /\ FALSE \in BOOLEAN
    BY <1>1, <2>1, <2>3
  <2> QED BY <1>1, <1>2, <1>3, <2>2, <2>3, <2>4, <2>5, <2>6, <2>7, PipelineBegins
<1>6. CASE Review!Resume
  <2>1. PICK over \in {FALSE, spent} : Review!Plan(state, state.groupsDone, FALSE, over)
    BY <1>6 DEF Review!Resume
  <2>2. over \in BOOLEAN /\ ~HasSynthesis(state) /\ Review!Status(state) # "completed" /\ ~Mortal
    BY <1>1, <1>2, <1>3, <1>6 DEF Review!Resume, HasSynthesis, Review!Status, Review!Finished
  <2>3. FALSE \in BOOLEAN /\ state.failed = {}
    BY <1>3, <2>2
  <2> QED BY <1>1, <1>2, <1>3, <2>1, <2>2, <2>3, PipelineBegins
<1> QED BY <1>4, <1>5, <1>6

(* The sweep drops the outputs of a review that reads as completed.        *)
LEMMA DirectoryIsSwept ==
  ASSUME ReviewBounds, ReviewInv, Review!Sweep PROVE ReviewInv'
<1>0. /\ ReviewTypes /\ AllChanged(commits) /\ HeadInv /\ PriorInv /\ WordInv
      /\ StateInv /\ RecordInv /\ SoundInv /\ KillInv /\ MortalInv
  BY DEF ReviewInv
<1>1. PICK at \in {"sweep state", "finish"} :
      /\ run.at = "sweep" /\ run' = [run EXCEPT !.at = at]
      /\ at = "sweep state" => Review!Status(state) = "completed"
      /\ at = "finish" => Review!Status(state) # "completed" /\ UNCHANGED <<outputs, rejected, spent>>
      /\ outputs' \in {outputs, Review!Nothing} /\ spent' \in {spent, FALSE}
      /\ UNCHANGED <<commits, state, record, meta, page, prior, runs, kills, faults>>
  BY DEF Review!Sweep, Review!Sweeps, Review!At, Review!Go
<1>2. /\ run' \in RunRecords /\ run'.at = at /\ run'.head = run.head /\ run'.tree = run.tree
      /\ run'.asks = run.asks /\ run'.base = run.base
  BY <1>0, <1>1 DEF RunRecords, ReviewTypes, RunStages, Closing
<1>3. ~Working /\ ~Working' /\ run'.at \in Closing
  BY <1>1, <1>2 DEF Working, Reading, Writing, Judging, Closing
<1>4. ReviewTypes' /\ AllChanged(commits')
  <2>1. outputs' \in ReviewReads /\ spent' \in BOOLEAN
    <3>1. Review!Nothing \in ReviewReads /\ outputs \in ReviewReads /\ spent \in BOOLEAN
      BY <1>0 DEF ReviewTypes, ReviewReads, Review!Nothing
    <3> QED BY <1>1, <3>1
  <2> QED BY <1>0, <1>1, <1>2, <2>1 DEF ReviewTypes, Review!Tip
<1>5. HeadInv' /\ PriorInv' /\ WordInv' /\ KillInv' /\ RecordInv'
  <2>1. HeadInv' /\ PriorInv'
    BY <1>0, <1>1, <1>2, <1>3 DEF HeadInv, PriorInv, Opening, Choosing, Writing, Closing, Review!Tip
  <2>2. WordInv' /\ KillInv'
    BY <1>0, <1>1, <1>3 DEF WordInv, KillInv
  <2>3. RecordInv'
    BY <1>3 DEF RecordInv, Writing, Reading, Closing
  <2> QED BY <2>1, <2>2, <2>3
<1>6. StateInv'
  BY <1>0, <1>1, <1>2, <1>3 DEF StateInv, Writing, Reading, Closing
<1>7. MortalInv' /\ SoundInv'
  BY <1>0, <1>1, <1>2, <1>3 DEF MortalInv, Mortal, SoundInv, Sound, Rest, Opening, Closing, Reading, Writing
<1> QED BY <1>4, <1>5, <1>6, <1>7 DEF ReviewInv

(* The state goes last, so that nothing it stands for is left to be        *)
(* challenged.                                                             *)
LEMMA StateIsSwept ==
  ASSUME ReviewBounds, ReviewInv, Review!SweepState PROVE ReviewInv'
<1>0. /\ ReviewTypes /\ AllChanged(commits) /\ HeadInv /\ PriorInv /\ WordInv
      /\ StateInv /\ RecordInv /\ SoundInv /\ KillInv /\ MortalInv
  BY DEF ReviewInv
<1>1. /\ run.at = "sweep state" /\ run' = [run EXCEPT !.at = "finish"] /\ state' = Review!Absent
      /\ UNCHANGED <<commits, outputs, rejected, spent, record, meta, page, prior, runs, kills, faults>>
  BY DEF Review!SweepState, Review!At, Review!Go
<1>2. /\ run' \in RunRecords /\ run'.at = "finish" /\ run'.head = run.head /\ run'.tree = run.tree
      /\ run'.asks = run.asks /\ run'.base = run.base
  BY <1>0, <1>1 DEF RunRecords, ReviewTypes, RunStages, Closing
<1>3. ~Working /\ ~Working' /\ run'.at \in Closing
  BY <1>1, <1>2 DEF Working, Reading, Writing, Judging, Closing
<1>4. /\ state' \in ReviewStates /\ state'.done = {} /\ state'.failed = {} /\ state'.groupsDone = {}
      /\ state'.groupsFailed = {}
  BY <1>1 DEF ReviewStates, Review!Absent
<1>5. ReviewTypes' /\ AllChanged(commits')
  BY <1>0, <1>1, <1>2, <1>4 DEF ReviewTypes, Review!Tip
<1>6. HeadInv' /\ PriorInv' /\ WordInv' /\ KillInv' /\ RecordInv' /\ StateInv'
  <2>1. HeadInv' /\ PriorInv'
    BY <1>0, <1>1, <1>2, <1>3 DEF HeadInv, PriorInv, Opening, Choosing, Writing, Closing, Review!Tip
  <2>2. WordInv' /\ KillInv'
    BY <1>3, <1>4 DEF WordInv, KillInv
  <2>3. RecordInv'
    BY <1>3 DEF RecordInv, Writing, Reading, Closing
  <2>4. StateInv'
    BY <1>2, <1>4 DEF StateInv, Writing, Reading, ReadOf, HasSynthesis
  <2> QED BY <2>1, <2>2, <2>3, <2>4
<1>7. Sound'
  <2>1. Sound /\ Review!Status(state) = "completed" /\ ("disprove" \in state.done => HasSynthesis(state))
    BY <1>0, <1>1, <1>3 DEF StateInv, SoundInv, Rest, Closing
  <2>2. state = Review!Absent \/ (Review!Clean(state) /\ HasSynthesis(state))
    BY <2>1 DEF Review!Status, Review!Finished
  <2> QED BY <1>1, <2>1, <2>2 DEF Sound
<1>8. MortalInv' /\ SoundInv'
  BY <1>0, <1>1, <1>2, <1>3, <1>4, <1>7 DEF MortalInv, Mortal, SoundInv, Opening, Closing, Reading, Writing,
     HasSynthesis
<1> QED BY <1>5, <1>6, <1>8 DEF ReviewInv

(* A run that is over leaves a directory of which everything said is true. *)
LEMMA RunEnds ==
  ASSUME ReviewBounds, ReviewInv, Review!Finish PROVE ReviewInv'
<1>0. /\ ReviewTypes /\ AllChanged(commits) /\ HeadInv /\ PriorInv /\ WordInv
      /\ StateInv /\ RecordInv /\ SoundInv /\ KillInv /\ MortalInv
  BY DEF ReviewInv
<1>1. /\ run.at = "finish" /\ run' = Review!Off
      /\ prior' = IF run.asks /\ state = Review!Absent THEN Review!NoPrior ELSE prior
      /\ UNCHANGED <<commits, state, outputs, rejected, spent, record, meta, page, runs, kills, faults>>
  BY DEF Review!Finish, Review!At
<1>2. ~Working /\ run'.at \in {"off"} \cup Opening \cup Choosing \cup Closing /\ run'.at # "sweep state"
  BY <1>1, OffIsRecord DEF Working, Reading, Writing, Judging
<1>3. ~Working' /\ WordInv' /\ StateInv' /\ KillInv' /\ RecordInv' /\ AllChanged(commits')
  BY <1>1, <1>2, StillIdle
<1>4. prior' \in PriorRecords /\ prior'.head \in 0..Review!Tip /\ (prior'.there => prior' = prior)
  BY <1>0, <1>1, TipIsNat, OffIsRecord DEF ReviewTypes, HeadInv, Review!NoPrior, PriorRecords, Review!Nothing,
     ReviewReads
<1>5. ReviewTypes' /\ PriorInv'
  BY <1>0, <1>1, <1>4, OffIsRecord DEF ReviewTypes, Review!Tip, PriorInv
<1>6. HeadInv'
  <2>1. Review!Tip' = Review!Tip /\ 0 \in 0..Review!Tip
    BY <1>0, <1>1, TipIsNat DEF Review!Tip
  <2> QED BY <1>0, <1>1, <1>3, <1>4, <2>1, OffIsRecord DEF HeadInv, Opening, Choosing, Writing
<1>7. MortalInv' /\ SoundInv'
  <2>1. SoundInv'
    BY <1>0, <1>1, OffIsRecord DEF SoundInv, Rest, Sound, Closing
  <2>2. Mortal => MortalInv'
    <3> SUFFICES ASSUME Mortal PROVE MortalInv'
      OBVIOUS
    <3>1. state = Review!Absent => ~prior'.page /\ state.done = {}
      BY <1>0, <1>1 DEF MortalInv, Review!NoPrior, Review!Absent
    <3>2. state # Review!Absent => prior' = prior
      BY <1>1
    <3> QED BY <1>0, <1>1, <1>2, <1>3, <3>1, <3>2, OffIsRecord
            DEF MortalInv, Opening, Closing, Reading, Writing, HasSynthesis
  <2> QED BY <1>1, <2>1, <2>2 DEF MortalInv, Mortal
<1> QED BY <1>3, <1>5, <1>6, <1>7 DEF ReviewInv

(* Wherever the run is killed, what it leaves is sound.                    *)
LEMMA RunIsKilled ==
  ASSUME ReviewBounds, ReviewInv, Review!Kill PROVE ReviewInv'
<1>0. /\ ReviewTypes /\ AllChanged(commits) /\ HeadInv /\ PriorInv /\ WordInv
      /\ StateInv /\ RecordInv /\ SoundInv /\ KillInv /\ MortalInv
  BY DEF ReviewInv
<1>1. /\ Mortal /\ run' = Review!Off /\ kills' = kills + 1
      /\ UNCHANGED <<commits, state, outputs, rejected, spent, record, meta, page, prior, runs, faults>>
  BY DEF Review!Kill, Review!disk, Mortal
<1>2. ~Mortal' /\ kills' \in Nat
  <2>1. kills \in Nat /\ MaxKills \in {0, 1} /\ kills < MaxKills
    BY <1>0, <1>1 DEF Mortal, ReviewTypes, ReviewBounds
  <2>2. kills' \in Nat /\ ~(kills' < MaxKills)
    BY <1>1, <2>1
  <2> QED BY <2>2 DEF Mortal
<1>3. ~Working'
  BY <1>1, OffIsRecord DEF Working, Reading, Writing, Judging
<1>4. ReviewTypes' /\ AllChanged(commits')
  BY <1>0, <1>1, <1>2, OffIsRecord DEF ReviewTypes, Review!Tip
<1>5. HeadInv'
  <2>1. Review!Tip' = Review!Tip /\ 0 \in 0..Review!Tip
    BY <1>0, <1>1, TipIsNat DEF Review!Tip
  <2> QED BY <1>0, <1>1, <1>3, <2>1, OffIsRecord DEF HeadInv, Opening, Choosing, Writing
<1>6. PriorInv' /\ WordInv' /\ KillInv' /\ RecordInv' /\ MortalInv'
  BY <1>0, <1>1, <1>2, <1>3, OffIsRecord DEF PriorInv, WordInv, KillInv, RecordInv, MortalInv, Reading, Writing
<1>7. StateInv'
  <2>1. "disprove" \in state.done => HasSynthesis(state)
    BY <1>0, <1>1 DEF MortalInv
  <2>2. Review!Status(state) # "completed" => ReadOf(commits, outputs, rejected, state, state.head)
    <3>1. CASE Working
      <4>1. state.head = run.head
        BY <1>0, <3>1, InWork
      <4> QED BY <1>0, <3>1, <4>1 DEF WordInv, ReadOf
    <3>2. CASE ~Working
      BY <1>0, <3>2 DEF StateInv
    <3> QED BY <3>1, <3>2
  <2> QED BY <1>0, <1>1, <2>1, <2>2, OffIsRecord DEF StateInv, Reading, Writing
<1>8. SoundInv'
  BY <1>0, <1>1 DEF SoundInv, Sound
<1> QED BY <1>4, <1>5, <1>6, <1>7, <1>8 DEF ReviewInv

(* A commit makes no review of an older head worse.                        *)
LEMMA BranchGrows ==
  ASSUME ReviewBounds, ReviewInv, Review!Commit PROVE ReviewInv'
<1>0. /\ ReviewTypes /\ AllChanged(commits) /\ HeadInv /\ PriorInv /\ WordInv
      /\ StateInv /\ RecordInv /\ SoundInv /\ KillInv /\ MortalInv
  BY DEF ReviewInv
<1>1. /\ ~(run.at \in Opening /\ run.head = 0)
      /\ UNCHANGED <<state, outputs, rejected, spent, record, meta, page, prior, run, runs, kills, faults>>
  BY <1>0 DEF Review!Commit, Review!disk, Opening, ReviewTypes
<1>2. PICK changed \in SUBSET Groups : commits' = Append(commits, changed)
  BY DEF Review!Commit
<1>3. /\ commits' \in Seq(SUBSET Groups) /\ Review!Tip' = Review!Tip + 1 /\ AllChanged(commits')
      /\ \A h \in 0..Review!Tip : \A g \in Groups : VersionIn(commits', h, g) = VersionIn(commits, h, g)
      /\ \A base \in PriorRecords, h \in 0..Review!Tip : CarriedIn(commits', base, h) = CarriedIn(commits, base, h)
  <2>1. commits \in Seq(SUBSET Groups) /\ Len(commits) # 0
    BY <1>0 DEF ReviewTypes, Review!Tip
  <2> QED BY <1>0, <1>2, <2>1, CommitKeeps DEF Review!Tip
<1>4. /\ \A h \in 1..Review!Tip : h \in 1..Review!Tip' /\ h \in 0..Review!Tip
      /\ \A h \in 0..Review!Tip : h \in 0..Review!Tip'
  <2> HIDE DEF Review!Tip
  <2>1. Review!Tip \in Nat
    BY <1>0, TipIsNat
  <2> QED BY <1>3, <2>1
<1>5. Working' <=> Working
  BY <1>1 DEF Working
<1>6. /\ ReviewTypes' /\ HeadInv'
  <2> HIDE DEF Review!Tip
  <2>1. ReviewTypes'
    <3>1. Review!Tip' \in Nat \ {0}
      BY <1>0, <1>3, TipIsNat
    <3> QED BY <1>0, <1>1, <1>3, <1>4, <3>1 DEF ReviewTypes
  <2>2. HeadInv'
    BY <1>0, <1>1, <1>4, <1>5 DEF HeadInv
  <2> QED BY <2>1, <2>2
<1>7. /\ prior.head \in 0..Review!Tip /\ meta.head \in 0..Review!Tip /\ run.base.head \in 0..Review!Tip
      /\ prior \in PriorRecords /\ run.base \in PriorRecords
      /\ state # Review!Absent => state.head \in 0..Review!Tip
      /\ run.at \notin {"off"} \cup Opening => run.head \in 0..Review!Tip
      /\ Working => run.at \notin {"off"} \cup Opening /\ state # Review!Absent
      /\ run.at \in Writing => run.at \notin {"off"} \cup Opening
  BY <1>0, <1>4, TipIsNat DEF HeadInv, ReviewTypes, RunRecords, Working, Reading, Writing, Judging, Opening
<1>8. /\ \A h \in 0..Review!Tip : \A reads : Whole(commits, reads, h) <=> Whole(commits', reads, h)
      /\ \A h \in 0..Review!Tip, s \in ReviewStates :
           ReadOf(commits, outputs, rejected, s, h) <=> ReadOf(commits', outputs, rejected, s, h)
  <2> HIDE DEF VersionIn
  <2> QED BY <1>3 DEF Whole, ReadOf, ReviewStates
<1>9. PriorInv'
  BY <1>0, <1>1, <1>7, <1>8 DEF PriorInv
<1>10. WordInv'
  <2> SUFFICES ASSUME Working PROVE WordInv'
    BY <1>5 DEF WordInv
  <2>1. run.head \in 0..Review!Tip /\ run.st \in ReviewStates
    BY <1>0, <1>7 DEF ReviewTypes, RunRecords
  <2>2. \A g \in Groups : VersionIn(commits', run.head, g) = VersionIn(commits, run.head, g)
    BY <1>3, <2>1
  <2>3. CarriedIn(commits', run.base, run.head) = CarriedIn(commits, run.base, run.head)
    BY <1>3, <1>7, <2>1
  <2>4. ReadOf(commits', outputs, rejected, run.st, run.head)
    BY <1>0, <1>8, <2>1 DEF WordInv
  <2> QED BY <1>0, <1>1, <1>5, <2>2, <2>3, <2>4 DEF WordInv
<1>11. StateInv'
  <2>1. ReadOf(commits, outputs, rejected, state, state.head)
          => ReadOf(commits', outputs, rejected, state, state.head)
    <3>1. state \in ReviewStates
      BY <1>0 DEF ReviewTypes
    <3>2. CASE state = Review!Absent
      BY <3>2 DEF ReadOf, Review!Absent
    <3> QED BY <1>7, <1>8, <3>1, <3>2
  <2> QED BY <1>0, <1>1, <1>5, <2>1 DEF StateInv
<1>12. RecordInv' /\ KillInv'
  <2>1. run.at \in Writing =>
          (Whole(commits, run.doc.reads, run.head) <=> Whole(commits', run.doc.reads, run.head))
    BY <1>7, <1>8
  <2>2. Whole(commits, record.reads, meta.head) <=> Whole(commits', record.reads, meta.head)
    BY <1>7, <1>8
  <2>3. RecordInv'
    BY <1>0, <1>1, <2>1, <2>2 DEF RecordInv
  <2>4. KillInv'
    BY <1>0, <1>1, <1>5 DEF KillInv
  <2> QED BY <2>3, <2>4
<1>13. SoundInv'
  <2>1. Whole(commits, record.reads, meta.head) <=> Whole(commits', record.reads, meta.head)
    BY <1>7, <1>8
  <2> QED BY <1>0, <1>1, <2>1 DEF SoundInv, Rest, Sound, Mortal
<1>14. MortalInv'
  <2>1. state # Review!Absent => CarriedIn(commits', prior, state.head) = CarriedIn(commits, prior, state.head)
    BY <1>3, <1>7
  <2>2. HasSynthesis(state) => state # Review!Absent
    BY DEF HasSynthesis, Review!Absent
  <2>3. run.at \in Writing \cup {"synthesised"} =>
          CarriedIn(commits', run.base, run.head) = CarriedIn(commits, run.base, run.head)
    BY <1>3, <1>7 DEF Writing, Opening
  <2> QED BY <1>0, <1>1, <1>5, <2>1, <2>2, <2>3 DEF MortalInv, Mortal
<1> QED BY <1>3, <1>6, <1>9, <1>10, <1>11, <1>12, <1>13, <1>14 DEF ReviewInv

(* Every step of a review keeps its invariant.                             *)
LEMMA ReviewStep ==
  ASSUME ReviewBounds, ReviewInv, [Review!Next]_Review!vars PROVE ReviewInv'
<1>1. CASE UNCHANGED Review!vars
  <2>1. UNCHANGED <<commits, state, outputs, rejected, spent, record, meta, page, prior, run, kills, faults>>
    BY <1>1 DEF Review!vars
  <2>2. Working' <=> Working
    BY <2>1 DEF Working
  <2>3. /\ ReviewTypes /\ AllChanged(commits) /\ HeadInv /\ PriorInv /\ WordInv
        /\ StateInv /\ RecordInv /\ SoundInv /\ KillInv /\ MortalInv
    BY DEF ReviewInv
  <2>4. ReviewTypes' /\ AllChanged(commits')
    BY <2>1, <2>3 DEF ReviewTypes, Review!Tip
  <2>5. HeadInv'
    BY <2>1, <2>2, <2>3 DEF HeadInv, Review!Tip
  <2>6. PriorInv'
    BY <2>1, <2>3 DEF PriorInv
  <2>7. WordInv' /\ KillInv'
    BY <2>1, <2>2, <2>3 DEF WordInv, KillInv
  <2>8. StateInv'
    BY <2>1, <2>2, <2>3 DEF StateInv
  <2>9. RecordInv'
    BY <2>1, <2>3 DEF RecordInv
  <2>10. SoundInv'
    BY <2>1, <2>3 DEF SoundInv, Rest, Sound, Mortal
  <2>11. MortalInv'
    BY <2>1, <2>2, <2>3 DEF Mortal, MortalInv
  <2> QED BY <2>4, <2>5, <2>6, <2>7, <2>8, <2>9, <2>10, <2>11 DEF ReviewInv
<1>2. CASE \E recover \in BOOLEAN : Review!Start(recover)
  BY <1>2, RunStarts
<1>3. CASE Review!Archive \/ Review!ArchiveRecord \/ Review!Collect
  BY <1>3, PageIsArchived, RecordIsArchived, HeadIsRead
<1>4. CASE Review!NoOp \/ Review!SingleAgent \/ Review!SingleFails
  BY <1>4, NothingIsNew, OneAgentReads, OneAgentFails
<1>5. CASE \/ Review!Choose \/ Review!Restart \/ Review!Begin \/ Review!AlreadyComplete
           \/ Review!ResumeAtGate \/ Review!Recover \/ Review!Resume
  BY <1>5, PipelineIsChosen, AfreshBegins, PipelineIsRecovered
<1>6. CASE Review!Scan \/ Review!Unrun \/ Review!GroupsEnd
  BY <1>6, TreeScanned, GroupsAreOver
<1>7. CASE \E g \in Groups : Review!Agent(g) \/ Review!Settle(g) \/ Review!Abort(g) \/ Review!Retry(g)
  BY <1>7, GroupRuns, GroupSettles, GroupWaits
<1>8. CASE Review!ReviewStands \/ Review!AllFailed \/ Review!Synthesis
  BY <1>8, ReviewHasStood, NoGroupIsLeft, ReviewIsMerged
<1>9. CASE Review!WriteRecord \/ Review!WriteMeta \/ Review!Synthesised \/ Review!Stamp
  BY <1>9, RecordIsWritten, SidecarIsWritten, SynthesisRecorded, SidecarIsStamped
<1>10. CASE Review!Gate \/ Review!GateFails \/ Review!Judged
  BY <1>10, GateRuns, GateIsJudged
<1>11. CASE Review!Sweep \/ Review!SweepState \/ Review!Finish
  BY <1>11, DirectoryIsSwept, StateIsSwept, RunEnds
<1>12. CASE Review!Kill \/ Review!Commit
  BY <1>12, RunIsKilled, BranchGrows
<1> QED BY <1>1, <1>2, <1>3, <1>4, <1>5, <1>6, <1>7, <1>8, <1>9, <1>10, <1>11, <1>12 DEF Review!Next

(* The first commit brings every group, and no run has been here.          *)
LEMMA ReviewInit == ReviewBounds /\ Review!Init => ReviewInv
<1> SUFFICES ASSUME ReviewBounds, Review!Init PROVE ReviewInv
  OBVIOUS
<1>1. /\ Review!Absent \in ReviewStates /\ Review!Nothing \in ReviewReads /\ Review!NoRecord \in ReviewRecords
      /\ Review!NoPrior \in PriorRecords
      /\ Review!Absent.done = {} /\ Review!Absent.failed = {} /\ Review!Absent.groupsFailed = {}
      /\ Review!Absent.groupsDone = {}
      /\ Review!NoRecord.there = FALSE /\ Review!NoPrior.there = FALSE /\ Review!NoPrior.page = FALSE
      /\ Review!NoPrior.head = 0
  BY DEF Review!Absent, ReviewStates, Review!Nothing, ReviewReads, Review!NoRecord, ReviewRecords,
     Review!NoPrior, PriorRecords
<1>2. commits \in Seq(SUBSET Groups) /\ Len(commits) = 1 /\ commits[1] = Groups /\ Review!Tip = 1
      /\ Review!Tip \in Nat \ {0}
  <2>1. commits = <<Groups>>
    BY DEF Review!Init
  <2> QED BY <2>1 DEF Review!Tip
<1>3. AllChanged(commits)
  BY <1>2 DEF AllChanged, LastChange
<1>4. run = Review!Off /\ ~Working
  BY OffIsRecord DEF Review!Init, Working, Reading, Writing, Judging
<1>5. ReviewTypes
  <2>1. meta \in [head : 0..Review!Tip, status : {"", "completed", "partial"}]
    <3> HIDE DEF Review!Tip
    <3>1. meta = [head |-> 0, status |-> ""]
      BY DEF Review!Init
    <3>2. 0 \in 0..Review!Tip
      BY <1>2
    <3> QED BY <3>1, <3>2
  <2>2. kills \in Nat /\ faults \subseteq {"fail", "kill", "budget"}
        /\ ("fail" \in faults => "kill" \notin faults)
    BY DEF Review!Init, ReviewBounds
  <2> QED BY <1>1, <1>2, <1>4, <2>1, <2>2, OffIsRecord DEF Review!Init, ReviewTypes
<1>6. HeadInv /\ PriorInv
  <2> HIDE DEF Review!Tip
  <2>1. 0 \in 0..Review!Tip
    BY <1>2
  <2>4. prior = Review!NoPrior /\ state = Review!Absent
    BY DEF Review!Init
  <2>2. HeadInv
    BY <1>1, <1>4, <2>1, <2>4, OffIsRecord DEF HeadInv, Opening, Choosing, Writing
  <2>3. PriorInv
    BY <1>1, <1>4, <2>1, <2>4, OffIsRecord DEF PriorInv
  <2> QED BY <2>2, <2>3
<1>7. WordInv /\ KillInv /\ RecordInv /\ SoundInv /\ MortalInv
  BY <1>1, <1>4, OffIsRecord DEF Review!Init, WordInv, KillInv, RecordInv, SoundInv, Sound, MortalInv, Reading,
     Writing, HasSynthesis
<1>8. StateInv
  BY <1>1, <1>4, OffIsRecord DEF Review!Init, StateInv, Reading, Writing, HasSynthesis, ReadOf
<1> QED BY <1>3, <1>5, <1>6, <1>7, <1>8 DEF ReviewInv

(* A sound directory shows no review as completed that is not whole.       *)
LEMMA SoundIsWhole == ReviewInv => Review!CompletedIsWhole
<1> SUFFICES ASSUME ReviewInv, Review!ReadsAsCompleted
             PROVE record.judged /\ \A g \in Groups : record.reads[g] >= Review!Version(meta.head, g)
  BY DEF Review!CompletedIsWhole
<1>1. run.at = "off" /\ record.there /\ Review!Status(state) = "completed" /\ ~Working
  BY DEF Review!ReadsAsCompleted, Review!At, Working, Reading, Writing, Judging
<1>2. Sound /\ ("disprove" \in state.done => HasSynthesis(state))
  BY <1>1 DEF ReviewInv, SoundInv, Rest, StateInv
<1>3. state = Review!Absent \/ (Review!Clean(state) /\ HasSynthesis(state))
  BY <1>1, <1>2 DEF Review!Status, Review!Finished
<1>4. record.judged /\ Whole(commits, record.reads, meta.head)
  BY <1>1, <1>2, <1>3 DEF Sound
<1>5. ASSUME NEW g \in Groups PROVE record.reads[g] >= Review!Version(meta.head, g)
  <2>1. VersionIn(commits, meta.head, g) \in Nat /\ record.reads[g] \in Nat
    BY TipIsNat, VersionIsNat DEF ReviewInv, ReviewTypes, ReviewRecords, ReviewReads
  <2>2. Review!Version(meta.head, g) = VersionIn(commits, meta.head, g)
    BY DEF Review!Version, VersionIn
  <2>3. VersionIn(commits, meta.head, g) <= record.reads[g]
    BY <1>4 DEF Whole
  <2> HIDE DEF VersionIn
  <2> QED BY <2>1, <2>2, <2>3
<1> QED BY <1>4, <1>5

(* completion.py, state.py: whatever is killed, once, or whatever fails at *)
(* the first head, and however the budget runs out, a review that reads as *)
(* completed was challenged and has read every group as it was at the head *)
(* it states.                                                              *)
THEOREM WholeIsAlwaysRead == ASSUME ReviewBounds PROVE Spec => []CompletedIsWhole
<1>1. Init => ReviewInv
  BY EveryPartStarts, ReviewInit
<1>2. ReviewInv /\ [Next]_vars => ReviewInv'
  BY OnePartMoves, ReviewStep
<1>3. ReviewInv => CompletedIsWhole
  BY SoundIsWhole DEF CompletedIsWhole
<1> QED BY <1>1, <1>2, <1>3, PTL DEF Spec
=============================================================================
