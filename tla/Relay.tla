-------------------------------- MODULE Relay --------------------------------
(***************************************************************************)
(* A suite under its two wrappers, as bin/local/run-tests starts it: the   *)
(* outer holds the tree lock, the inner the job slots, and both run what   *)
(* they wrap through core/signal_relay.py.                                 *)
(*                                                                         *)
(* Each wrapped command leads a session of its own, so a stop gets to it   *)
(* only through the handlers of its wrapper.  Python runs a handler        *)
(* between two steps of the main thread.  A wrapper killed with SIGKILL    *)
(* runs nothing more, and the kernel drops its lock.                       *)
(***************************************************************************)
EXTENDS Naturals, FiniteSets

CONSTANTS
  Sigs,      \* the signals forwarded
  Signals,   \* bound: signals sent from outside
  Heirs,     \* whether the suite may leave a process in its group
  Deaf       \* whether the suite may ignore what it is sent

\* What the constants may be: whoever instantiates this module assumes it.
RelayConstants == Signals \in Nat /\ Heirs \in BOOLEAN /\ Deaf \in BOOLEAN

Levels == {1, 2}      \* the wrappers, outer and inner

VARIABLES
  pc,        \* per wrapper
  handles,   \* per wrapper: the signals its handler is installed for
  pending,   \* per wrapper: those recorded before there was a child
  replay,    \* per wrapper: those being replayed
  named,     \* per wrapper: whether the relay knows its child
  held,      \* per wrapper: its lock or its slots
  suite,     \* [st, deaf, told]
  heir,      \* a process of the suite's group outlives its leader
  signals,   \* signals still to come
  stopped    \* ghost: a signal was taken by the outer wrapper

vars == <<pc, handles, pending, replay, named, held, suite, heir, signals, stopped>>

Init ==
  /\ pc = [l \in Levels |-> IF l = 1 THEN "lock" ELSE "absent"]
  /\ handles = [l \in Levels |-> {}] /\ pending = [l \in Levels |-> {}]
  /\ replay = [l \in Levels |-> {}] /\ named = [l \in Levels |-> FALSE]
  /\ held = [l \in Levels |-> FALSE]
  /\ \E d \in BOOLEAN : (d => Deaf) /\ suite = [st |-> "absent", deaf |-> d, told |-> FALSE]
  /\ heir = FALSE /\ signals = Signals /\ stopped = FALSE

Lives(l) == pc[l] \notin {"absent", "gone"}
Go(l, at) == pc' = [pc EXCEPT ![l] = at]
Outside == UNCHANGED <<suite, heir, signals, stopped>>

-----------------------------------------------------------------------------
(* What a signal does.  `sent` is what a wrapper passes on to its child.   *)

\* With no handler a wrapper is ended by it, or leaves by KeyboardInterrupt
\* through the releases: there is no child then.
Dies(l) ==
  /\ pc' = [pc EXCEPT ![l] = "gone"] /\ held' = [held EXCEPT ![l] = FALSE]
  /\ UNCHANGED <<handles, pending, replay, named, suite, heir>>

Suited(s) ==
  /\ suite' = IF suite.st # "running" THEN suite
              ELSE [suite EXCEPT !.told = TRUE, !.st = IF suite.deaf THEN "running" ELSE "zombie"]
  /\ heir' \in {heir, heir \/ (Heirs /\ suite.st = "running" /\ ~suite.deaf)}

Records(l, s) ==
  /\ pending' = [pending EXCEPT ![l] = @ \cup {s}]
  /\ UNCHANGED <<pc, held, handles, replay, named, suite, heir>>

ToSuite(s) == Suited(s) /\ UNCHANGED <<pc, held, handles, pending, replay, named>>

\* `handle` of the inner wrapper, or its default disposition.
ToInner(s) ==
  IF ~Lives(2) THEN UNCHANGED <<pc, held, handles, pending, replay, named, suite, heir>>
  ELSE IF s \notin handles[2] THEN Dies(2)
  ELSE IF named[2] THEN ToSuite(s) ELSE Records(2, s)

ToOuter(s) ==
  IF s \notin handles[1] THEN Dies(1) ELSE IF named[1] THEN ToInner(s) ELSE Records(1, s)

\* A stop from outside: the terminal's, or a kill of the outer wrapper.
Signal(s) ==
  /\ signals > 0 /\ signals' = signals - 1
  /\ Lives(1) /\ ToOuter(s) /\ stopped' = TRUE

-----------------------------------------------------------------------------
(* A wrapper: lock, handlers, spawn, name, replay, wait, restore, release. *)

Lock(l) ==
  /\ pc[l] = "lock" /\ held' = [held EXCEPT ![l] = TRUE] /\ Go(l, "install")
  /\ UNCHANGED <<handles, pending, replay, named>> /\ Outside

\* Mutant: the handlers come after the child.
InstallLate(l) ==
  /\ pc[l] \in {"install", "wait"} /\ handles[l] # Sigs
  /\ IF pc[l] = "install" THEN Go(l, "spawn") /\ UNCHANGED handles
     ELSE \E s \in Sigs \ handles[l] : handles' = [handles EXCEPT ![l] = @ \cup {s}] /\ UNCHANGED pc
  /\ UNCHANGED <<pending, replay, named, held>> /\ Outside

Install(l) ==
  /\ pc[l] = "install"
  /\ IF handles[l] = Sigs THEN Go(l, "spawn") /\ UNCHANGED handles
     ELSE \E s \in Sigs \ handles[l] : handles' = [handles EXCEPT ![l] = @ \cup {s}] /\ UNCHANGED pc
  /\ UNCHANGED <<pending, replay, named, held>> /\ Outside

\* The command exists; a command that is missing ends the block.
Spawn(l) ==
  /\ pc[l] = "spawn"
  /\ \/ /\ IF l = 1 THEN pc' = [pc EXCEPT ![1] = "name", ![2] = "lock"] /\ UNCHANGED suite
                    ELSE Go(2, "name") /\ suite' = [suite EXCEPT !.st = "running"]
     \/ Go(l, "restore") /\ UNCHANGED suite
  /\ UNCHANGED <<handles, pending, replay, named, held, heir, signals, stopped>>

Name(l) ==
  /\ pc[l] = "name" /\ named' = [named EXCEPT ![l] = TRUE] /\ Go(l, "detach")
  /\ UNCHANGED <<handles, pending, replay, held>> /\ Outside

\* Mutant: the queue is forgotten with the child's name.
DetachEmpty(l) ==
  /\ pc[l] = "detach"
  /\ replay' = [replay EXCEPT ![l] = {}] /\ pending' = [pending EXCEPT ![l] = {}]
  /\ Go(l, "replay")
  /\ UNCHANGED <<handles, named, held>> /\ Outside

\* `pending, self._pending = self._pending, []`
Detach(l) ==
  /\ pc[l] = "detach"
  /\ replay' = [replay EXCEPT ![l] = pending[l]] /\ pending' = [pending EXCEPT ![l] = {}]
  /\ Go(l, "replay")
  /\ UNCHANGED <<handles, named, held>> /\ Outside

\* What was recorded is delivered, one signal after the other.
ReplayOuter ==
  /\ pc[1] = "replay" /\ replay[1] # {}
  /\ \E s \in replay[1] :
       /\ replay' = [replay EXCEPT ![1] = @ \ {s}]
       /\ IF ~Lives(2) THEN UNCHANGED <<pc, held, pending, suite, heir>>
          ELSE IF s \notin handles[2] THEN Go(2, "gone") /\ held' = [held EXCEPT ![2] = FALSE] /\ UNCHANGED <<pending, suite, heir>>
          ELSE IF named[2] THEN Suited(s) /\ UNCHANGED <<pc, held, pending>>
          ELSE pending' = [pending EXCEPT ![2] = @ \cup {s}] /\ UNCHANGED <<pc, held, suite, heir>>
  /\ UNCHANGED <<handles, named, signals, stopped>>

ReplayInner ==
  /\ pc[2] = "replay" /\ replay[2] # {}
  /\ \E s \in replay[2] : replay' = [replay EXCEPT ![2] = @ \ {s}] /\ Suited(s)
  /\ UNCHANGED <<pc, handles, pending, named, held, signals, stopped>>

Replayed(l) ==
  /\ pc[l] = "replay" /\ replay[l] = {} /\ Go(l, "wait")
  /\ UNCHANGED <<handles, pending, replay, named, held>> /\ Outside

SuiteEnds ==
  /\ suite.st = "running" /\ suite' = [suite EXCEPT !.st = "zombie"]
  /\ heir' \in {FALSE, Heirs}
  /\ UNCHANGED <<pc, handles, pending, replay, named, held, signals, stopped>>

HeirEnds ==
  /\ heir /\ heir' = FALSE
  /\ UNCHANGED <<pc, handles, pending, replay, named, held, suite, signals, stopped>>

ChildOver(l) == IF l = 1 THEN pc[2] = "gone" ELSE suite.st # "running"

\* Mutant: the wait ends with the first signal.
WaitInterrupted(l) ==
  /\ pc[l] = "wait" /\ (ChildOver(l) \/ stopped) /\ Go(l, "restore")
  /\ UNCHANGED <<handles, pending, replay, named, held>> /\ Outside

\* `proc.wait`: for the leader.
Wait(l) ==
  /\ pc[l] = "wait" /\ ChildOver(l) /\ Go(l, "restore")
  /\ UNCHANGED <<handles, pending, replay, named, held>> /\ Outside

Restore(l) ==
  /\ pc[l] = "restore"
  /\ IF handles[l] = {} THEN Go(l, "release") /\ UNCHANGED handles
     ELSE \E s \in handles[l] : handles' = [handles EXCEPT ![l] = @ \ {s}] /\ UNCHANGED pc
  /\ UNCHANGED <<pending, replay, named, held>> /\ Outside

\* Mutant: the release is skipped.
ReleaseSkipped(l) ==
  /\ pc[l] = "release" /\ Go(l, "gone")
  /\ UNCHANGED <<handles, pending, replay, named, held>> /\ Outside

Release(l) ==
  /\ pc[l] = "release" /\ held' = [held EXCEPT ![l] = FALSE] /\ Go(l, "gone")
  /\ UNCHANGED <<handles, pending, replay, named>> /\ Outside

-----------------------------------------------------------------------------
Wrapper(l) == Lock(l) \/ Install(l) \/ Spawn(l) \/ Name(l) \/ Detach(l) \/ Replayed(l) \/ Wait(l) \/ Restore(l) \/ Release(l)

Next ==
  \/ \E s \in Sigs : Signal(s)
  \/ \E l \in Levels : Wrapper(l)
  \/ ReplayOuter \/ ReplayInner \/ SuiteEnds \/ HeirEnds

Spec == Init /\ [][Next]_vars

\* The wrappers run; the suite need not end by itself.
FairSpec == Spec /\ WF_vars(ReplayOuter) /\ WF_vars(ReplayInner) /\ \A l \in Levels : WF_vars(Wrapper(l))

-----------------------------------------------------------------------------
TypeOK ==
  /\ \A l \in Levels :
       /\ pc[l] \in {"absent", "lock", "install", "spawn", "name", "detach", "replay", "wait", "restore", "release", "gone"}
       /\ handles[l] \subseteq Sigs /\ pending[l] \subseteq Sigs /\ replay[l] \subseteq Sigs
       /\ held[l] => Lives(l)
       /\ pc[l] \in {"detach", "replay", "wait"} <=> named[l] /\ pc[l] \notin {"restore", "release", "gone"}
  /\ suite.st \in {"absent", "running", "zombie"} /\ signals \in 0 .. Signals

\* While the suite runs the tree is locked and the slots are held: no stop, at
\* any step, leaves it running outside its locks.
SuiteIsCovered == suite.st = "running" => held[1] /\ held[2]

\* A stop the outer wrapper took reaches the suite or ends what would start it:
\* once nobody has it in hand, a suite that runs has been told.
StopIsTold ==
  stopped /\ suite.st = "running" /\ (\A l \in Levels : pc[l] = "wait") => suite.told

\* A stopped suite that heeds it leaves nothing waiting.
StopEnds == stopped /\ ~suite.deaf ~> pc[1] = "gone"

-----------------------------------------------------------------------------
(* What the sources say and the code does not do.                          *)

\* signal_relay.py, `run_child`: wait until that group is gone.
GroupIsGone == pc[2] \in {"release", "gone"} => ~heir
=============================================================================
