------------------------------- MODULE ProcRun -------------------------------
(***************************************************************************)
(* One call of `core.proc.run` with a relay: src/ai/lib/core/proc.py.      *)
(*                                                                         *)
(* The caller waits for the child under a bound, ends it with TERM, a      *)
(* grace and KILL, joins the pumps under a deadline and builds the result. *)
(* Two pumps copy the child's streams, line by line, into the capture and  *)
(* onto the relay.  What the child started may outlive it and hold its     *)
(* pipes; a write to the relay may block for ever; a child may outlive     *)
(* KILL.  The result is what the caller has when the call returns.         *)
(***************************************************************************)
EXTENDS Naturals, FiniteSets

CONSTANTS
  Lines,     \* bound: the lines the processes write, over both streams
  Group      \* kill_process_group

\* What the constants may be: whoever instantiates this module assumes it.
ProcConstants == Lines \in Nat /\ Group \in BOOLEAN

Pumps == {"stdout", "stderr"}

VARIABLES
  child,     \* [st, deaf, stuck]: the leader; deaf ignores TERM, stuck outlives KILL
  heir,      \* whether a process the child started lives and holds both pipes
  pipe,      \* per stream: the lines written and not yet read
  written,   \* how many lines were written
  pump,      \* per pump: [pc, line]
  parts,     \* the lines kept
  relayed,   \* the lines shown on the relay
  tee,       \* [detached, lock]; lock is a pump or "free"
  jam,       \* whether the relay takes no writes
  main,      \* the caller: [pc, expired, note, survivors]
  result,    \* the lines in the result
  late       \* ghost: the lines shown after the return

vars == <<child, heir, pipe, written, pump, parts, relayed, tee, jam, main, result, late>>

Running == child.st = "running"
Open == Running \/ heir       \* somebody can still write
Returned == main.pc = "returned"

Init ==
  /\ \E d, s \in BOOLEAN : child = [st |-> "running", deaf |-> d, stuck |-> s]
  /\ heir \in BOOLEAN /\ jam = FALSE
  /\ pipe = [p \in Pumps |-> {}] /\ written = 0
  /\ pump = [p \in Pumps |-> [pc |-> "read", line |-> 0]]
  /\ parts = {} /\ relayed = {} /\ result = {} /\ late = {}
  /\ tee = [detached |-> FALSE, lock |-> "free"]
  /\ main = [pc |-> "wait", expired |-> FALSE, note |-> FALSE, survivors |-> FALSE]

-----------------------------------------------------------------------------
(* The processes.                                                          *)

Write(p) ==
  /\ Open /\ written < Lines
  /\ written' = written + 1 /\ pipe' = [pipe EXCEPT ![p] = @ \cup {written + 1}]
  /\ UNCHANGED <<child, heir, pump, parts, relayed, tee, jam, main, result, late>>

ChildEnds ==
  /\ Running /\ ~child.stuck /\ child' = [child EXCEPT !.st = "zombie"]
  /\ UNCHANGED <<heir, pipe, written, pump, parts, relayed, tee, jam, main, result, late>>

\* The terminal is stopped, or goes on.
Jam ==
  /\ jam' = ~jam /\ UNCHANGED <<child, heir, pipe, written, pump, parts, relayed, tee, main, result, late>>

-----------------------------------------------------------------------------
(* The pumps.                                                              *)

Line(p) == pump[p].line
PumpAt(p, at) == pump' = [pump EXCEPT ![p].pc = at]
Machine == UNCHANGED <<child, heir, written, jam, main, result>>

ReadLine(p) ==
  /\ pump[p].pc = "read"
  /\ \/ \E l \in pipe[p] :
          /\ \A m \in pipe[p] : l <= m
          /\ pipe' = [pipe EXCEPT ![p] = @ \ {l}]
          /\ pump' = [pump EXCEPT ![p] = [pc |-> "got", line |-> l]]
     \/ pipe[p] = {} /\ ~Open /\ PumpAt(p, "done") /\ UNCHANGED pipe
  /\ UNCHANGED <<parts, relayed, tee, late>> /\ Machine

\* Mutant: the line is kept once it is shown.
KeepLater(p) ==
  /\ pump[p].pc = "got"
  /\ PumpAt(p, IF tee.detached THEN "read" ELSE "kept") /\ UNCHANGED parts
  /\ UNCHANGED <<pipe, relayed, tee, late>> /\ Machine

\* `copy`: the line is kept, unless the tee is detached ...
Keep(p) ==
  /\ pump[p].pc = "got"
  /\ IF tee.detached THEN PumpAt(p, "read") /\ UNCHANGED parts
                     ELSE PumpAt(p, "kept") /\ parts' = parts \cup {Line(p)}
  /\ UNCHANGED <<pipe, relayed, tee, late>> /\ Machine

\* Mutant: the lock is taken and nothing is asked again.
ShowUnasked(p) ==
  /\ pump[p].pc = "kept" /\ tee.lock = "free"
  /\ PumpAt(p, "write") /\ tee' = [tee EXCEPT !.lock = p]
  /\ UNCHANGED <<pipe, parts, relayed, late>> /\ Machine

\* ... and shown, under the lock, unless it has been detached since.
Show(p) ==
  /\ pump[p].pc = "kept" /\ tee.lock = "free"
  /\ IF tee.detached THEN PumpAt(p, "read") /\ UNCHANGED tee
                     ELSE PumpAt(p, "write") /\ tee' = [tee EXCEPT !.lock = p]
  /\ UNCHANGED <<pipe, parts, relayed, late>> /\ Machine

\* Mutant: the lock is not given back.
ShownHolding(p) ==
  /\ pump[p].pc = "write" /\ ~jam
  /\ relayed' = relayed \cup {Line(p)}
  /\ late' = IF Returned THEN late \cup {Line(p)} ELSE late
  /\ PumpAt(p, "read") /\ UNCHANGED <<pipe, parts, tee>> /\ Machine

Shown(p) ==
  /\ pump[p].pc = "write" /\ ~jam
  /\ relayed' = relayed \cup {Line(p)}
  /\ late' = IF Returned THEN late \cup {Line(p)} ELSE late
  /\ tee' = [tee EXCEPT !.lock = "free"] /\ PumpAt(p, "read")
  /\ UNCHANGED <<pipe, parts>> /\ Machine

-----------------------------------------------------------------------------
(* The caller.                                                             *)

At(at) == main' = [main EXCEPT !.pc = at]
Threads == UNCHANGED <<pipe, written, pump, parts, relayed, jam, late>>

WaitEnds ==
  /\ main.pc = "wait" /\ ~Running
  /\ child' = [child EXCEPT !.st = "reaped"] /\ At("join")
  /\ UNCHANGED <<heir, tee, result>> /\ Threads

\* The bound expires, or an exception leaves the wait: TERM.
Expire ==
  /\ main.pc = "wait"
  /\ main' = [main EXCEPT !.pc = "grace", !.expired = TRUE]
  /\ child' = IF Running /\ ~child.deaf /\ ~child.stuck THEN [child EXCEPT !.st = "zombie"] ELSE child
  /\ UNCHANGED <<heir, tee, result>> /\ Threads

\* Mutant: the group is left to the TERM.
RestStays == heir' = heir

\* A leader that went on TERM says nothing about its group, which still gets KILL.
Rest == heir' = (heir /\ ~Group)

WentInGrace ==
  /\ main.pc = "grace" /\ ~Running
  /\ child' = [child EXCEPT !.st = "reaped"] /\ Rest /\ At("join")
  /\ UNCHANGED <<tee, result>> /\ Threads

\* KILL, and a bounded reap that says what outlived it.
Kill ==
  /\ main.pc = "grace" /\ Running
  /\ child' = IF child.stuck THEN child ELSE [child EXCEPT !.st = "reaped"]
  /\ heir' = (heir /\ ~Group)
  /\ main' = [main EXCEPT !.pc = "join", !.survivors = child.stuck]
  /\ UNCHANGED <<tee, result>> /\ Threads

Alive(p) == pump[p].pc # "done"

\* Both pumps are done, or the deadline they share has passed.
JoinEnds ==
  /\ main.pc = "join" /\ At("detach")
  /\ UNCHANGED <<child, heir, tee, result>> /\ Threads

\* Mutant: the detach waits for the lock.
DetachLocked ==
  /\ main.pc = "detach" /\ tee.lock = "free"
  /\ tee' = [tee EXCEPT !.detached = TRUE] /\ At("note")
  /\ UNCHANGED <<child, heir, result>> /\ Threads

\* The detach does not take the lock: a write may be blocked inside it.
Detach ==
  /\ main.pc = "detach"
  /\ tee' = [tee EXCEPT !.detached = TRUE] /\ At("note")
  /\ UNCHANGED <<child, heir, result>> /\ Threads

Note ==
  /\ main.pc = "note"
  /\ main' = [main EXCEPT !.pc = "build", !.note = \E p \in Pumps : Alive(p)]
  /\ UNCHANGED <<child, heir, tee, result>> /\ Threads

Return ==
  /\ main.pc = "build" /\ At("returned") /\ result' = parts
  /\ UNCHANGED <<child, heir, tee>> /\ Threads

-----------------------------------------------------------------------------
Caller == WaitEnds \/ WentInGrace \/ Kill \/ JoinEnds \/ Detach \/ Note \/ Return
Pump(p) == ReadLine(p) \/ Keep(p) \/ Show(p) \/ Shown(p)

Next ==
  \/ \E p \in Pumps : Write(p) \/ ReadLine(p) \/ Keep(p) \/ Show(p) \/ Shown(p)
  \/ ChildEnds \/ Jam \/ Expire
  \/ WaitEnds \/ WentInGrace \/ Kill \/ JoinEnds \/ Detach \/ Note \/ Return

Spec == Init /\ [][Next]_vars

\* The threads run and the bound expires; no process has to end and no
\* terminal to go on.
FairSpec == Spec /\ WF_vars(Caller) /\ WF_vars(Expire) /\ \A p \in Pumps : WF_vars(Pump(p))

-----------------------------------------------------------------------------
TypeOK ==
  /\ child \in [st : {"running", "zombie", "reaped"}, deaf : BOOLEAN, stuck : BOOLEAN]
  /\ {heir, jam, tee.detached, main.expired, main.note, main.survivors} \subseteq BOOLEAN
  /\ written \in 0 .. Lines /\ tee.lock \in Pumps \cup {"free"}
  /\ \A p \in Pumps : pipe[p] \subseteq 1 .. written /\ pump[p].line \in 0 .. written
                      /\ pump[p].pc \in {"read", "got", "kept", "write", "done"}
  /\ parts \cup relayed \cup result \cup late \subseteq 1 .. written
  /\ main.pc \in {"wait", "grace", "join", "detach", "note", "build", "returned"}
  /\ \A p \in Pumps : pump[p].pc = "write" <=> tee.lock = p

\* What was shown is in the result: the relay never knows more than the caller.
ShownIsKept == Returned => relayed \subseteq result

\* After the return at most one line still lands, the one already past the
\* check when the tee was detached.
OneLate == Cardinality(late) <= 1

\* After an expired bound the group is gone, or the caller is told.
GroupIsGone == Returned /\ main.expired /\ Group => ~heir /\ (~Running \/ main.survivors)

\* The call returns, whatever outlives the child and whoever blocks the relay.
Returns == <>Returned

-----------------------------------------------------------------------------
(* What the sources say and the code does not do.                          *)

\* proc.py, `_finish_pumps`: a note is returned when a thread was late, the
\* captured output is then known to be short, and the empty string otherwise.
ShortIsSaid ==
  Returned /\ ~main.expired /\ ~heir /\ ~main.note
    => \A p \in Pumps : Alive(p) \/ 1 .. written \subseteq result
=============================================================================
