------------------------------- MODULE PiStream -------------------------------
(***************************************************************************)
(* One agent run over Pi's RPC mode: src/ai/lib/agent/backend_pi.py,       *)
(* backend_pi_rpc.py and stall.py.                                         *)
(*                                                                         *)
(* Three actors run side by side.  Pi (external) executes turns and tool   *)
(* calls, writes one event per line to `out` and reads commands from       *)
(* `inbox`.  The stream loop reads the events and enforces the turn cap.   *)
(* The stall watch, a thread, aborts a tool call that shows no work.  The  *)
(* loop is always one event behind Pi, and the watch reads what the loop   *)
(* last stamped, so each acts on a call that may already be over.          *)
(*                                                                         *)
(* Seconds are abstracted: the waits of the watch (a gap of 120, samples   *)
(* 15 apart, a cap of 1800) elapse only while nothing is being delivered,  *)
(* for no delivery takes seconds.  Between two such waits every order of   *)
(* the three actors is possible.  Budget, steers and costs only change the *)
(* text of messages and are left out.                                      *)
(***************************************************************************)
EXTENDS Naturals, Sequences

CONSTANTS
  MaxTurns,     \* the turn cap the caller asked for
  Work,         \* bound: turns Pi runs of its own accord
  Calls,        \* bound: tool calls Pi starts
  Samples,      \* CONFIRM_SAMPLES
  Pipe,         \* bound: unread events Pi may have written
  HasOutput     \* whether the caller named a deliverable

\* What the constants may be: whoever instantiates this module assumes it.
PiConstants ==
  /\ MaxTurns \in Nat \ {0} /\ Work \in Nat /\ Calls \in Nat
  /\ Samples \in Nat \ {0} /\ Pipe \in Nat \ {0} /\ HasOutput \in BOOLEAN

VARIABLES
  pi,       \* Pi: [st, child, work, calls, followups, cut, retried, writing, wrote]
  inbox,    \* commands written to Pi's stdin
  out,      \* events written to Pi's stdout and not yet read
  loop,     \* the stream loop: [pc, ev, sends, turns, aborted, stop, wrote, pending, asked]
  shared,   \* what loop and watch share: [gen, armed, baseline, quiet, capped, reason]
  watch     \* the watch thread: [pc, gen, baseline, n, kind]

vars == <<pi, inbox, out, loop, shared, watch>>

\* What a tool call runs: one child that spins, many short-lived children, a
\* child that hangs without output or CPU, or none yet.
Children == {"none", "spin", "build", "hang"}
PiStates == {"idle", "turn", "tool", "drain", "ended", "gone"}
EndEvents == {"agent_end", "agent_error"}         \* the run is over
AgentEnds == EndEvents \cup {"agent_retry"}        \* ... or Pi retries it itself
Events == AgentEnds \cup {"tool_start", "write_start", "tool_end", "turn_end", "settled", "refused", "eof"}
Commands == {"prompt", "abort", "follow_up"}

Init ==
  /\ pi = [st |-> "idle", child |-> "none", work |-> Work, calls |-> Calls,
           followups |-> 0, cut |-> FALSE, retried |-> FALSE, writing |-> FALSE, wrote |-> FALSE]
  /\ inbox = <<"prompt">>
  /\ out = <<>>
  /\ loop = [pc |-> "read", ev |-> "none", sends |-> <<>>, turns |-> 0, aborted |-> FALSE,
             stop |-> "completed", wrote |-> FALSE, pending |-> FALSE, asked |-> FALSE]
  /\ shared = [gen |-> 0, armed |-> FALSE, baseline |-> FALSE, quiet |-> FALSE,
               capped |-> FALSE, reason |-> FALSE]
  /\ watch = [pc |-> "poll", gen |-> 0, baseline |-> FALSE, n |-> 0, kind |-> "none"]

-----------------------------------------------------------------------------
(* Pi, modelled from what the code and its measurements say of it.         *)

Emit(e) == Len(out) < Pipe /\ out' = Append(out, e)
Running == pi.st \in {"turn", "tool"}

\* A prompt starts a run when Pi is idle and may be refused then; one sent to
\* a busy Pi is refused.
PiPrompt ==
  /\ inbox # <<>> /\ Head(inbox) = "prompt" /\ pi.st # "gone"
  /\ inbox' = Tail(inbox)
  /\ \/ pi.st = "idle" /\ pi' = [pi EXCEPT !.st = "turn"] /\ UNCHANGED out
     \/ Emit("refused") /\ UNCHANGED pi
  /\ UNCHANGED <<loop, shared, watch>>

\* An abort ends whatever call is executing and sends the run to its drain.
PiAbort ==
  /\ inbox # <<>> /\ Head(inbox) = "abort" /\ pi.st # "gone"
  /\ inbox' = Tail(inbox)
  /\ pi' = IF Running THEN [pi EXCEPT !.st = "drain", !.child = "none", !.writing = FALSE,
                                            !.work = 0, !.cut = TRUE]
                      ELSE pi
  /\ UNCHANGED <<out, loop, shared, watch>>

PiFollowUp ==
  /\ inbox # <<>> /\ Head(inbox) = "follow_up" /\ pi.st # "gone"
  /\ inbox' = Tail(inbox)
  /\ pi' = [pi EXCEPT !.followups = @ + 1]
  /\ UNCHANGED <<out, loop, shared, watch>>

PiStartsTool ==
  /\ pi.st = "turn" /\ pi.calls > 0
  /\ \E e \in {"tool_start", "write_start"} :
       /\ Emit(e)
       /\ pi' = [pi EXCEPT !.st = "tool", !.calls = @ - 1, !.writing = e = "write_start"]
  /\ UNCHANGED <<inbox, loop, shared, watch>>

\* The event is out before the call's process exists.  A write needs none.
PiSpawns ==
  /\ pi.st = "tool" /\ pi.child = "none" /\ ~pi.writing
  /\ \E c \in Children \ {"none"} : pi' = [pi EXCEPT !.child = c]
  /\ UNCHANGED <<inbox, out, loop, shared, watch>>

PiEndsTool ==
  /\ pi.st = "tool" /\ pi.child \in {"spin", "build"} /\ Emit("tool_end")
  /\ pi' = [pi EXCEPT !.st = "turn", !.child = "none"]
  /\ UNCHANGED <<inbox, loop, shared, watch>>

\* A write lands, or is refused by the guard or fails.
PiEndsWrite ==
  /\ pi.st = "tool" /\ pi.writing /\ Emit("tool_end")
  /\ \E ok \in BOOLEAN :
       pi' = [pi EXCEPT !.st = "turn", !.writing = FALSE, !.wrote = @ \/ ok]
  /\ UNCHANGED <<inbox, loop, shared, watch>>

PiEndsTurn ==
  /\ pi.st = "turn" /\ Emit("turn_end")
  /\ pi' = IF pi.work > 0 THEN [pi EXCEPT !.work = @ - 1] ELSE [pi EXCEPT !.st = "drain"]
  /\ UNCHANGED <<inbox, loop, shared, watch>>

\* The queues are drained before agent_end; a follow-up queued later is never run.
PiDrains ==
  /\ pi.st = "drain"
  /\ IF pi.followups > 0
     THEN pi' = [pi EXCEPT !.followups = @ - 1, !.st = "turn"] /\ UNCHANGED out
     ELSE \E e \in AgentEnds :
            /\ e = "agent_retry" => ~pi.retried
            /\ Emit(e)
            /\ pi' = IF e = "agent_retry" THEN [pi EXCEPT !.st = "turn", !.retried = TRUE]
                                          ELSE [pi EXCEPT !.st = "ended"]
  /\ UNCHANGED <<inbox, loop, shared, watch>>

PiSettles ==
  /\ pi.st = "ended" /\ Emit("settled")
  /\ pi' = [pi EXCEPT !.st = "idle"]
  /\ UNCHANGED <<inbox, loop, shared, watch>>

PiDies ==
  /\ pi.st # "gone" /\ Emit("eof")
  /\ pi' = [pi EXCEPT !.st = "gone", !.child = "none"]
  /\ UNCHANGED <<inbox, loop, shared, watch>>

-----------------------------------------------------------------------------
(* The stream loop: one line at a time.                                    *)

\* `_send`: False when Pi is gone.
Sent(cmds) == inbox' = IF pi.st = "gone" THEN inbox ELSE inbox \o cmds

\* A line is read and stamped.
Read ==
  /\ loop.pc = "read" /\ loop.sends = <<>> /\ out # <<>>
  /\ out' = Tail(out)
  /\ loop' = [loop EXCEPT !.ev = Head(out),
                          !.pc = CASE Head(out) = "eof" -> "done"
                                   [] Head(out) \in {"tool_start", "write_start"} -> "sample"
                                   [] Head(out) \in {"tool_end", "turn_end"} \cup AgentEnds -> "disarm"
                                   [] OTHER -> "handle"]
  /\ shared' = [shared EXCEPT !.quiet = FALSE]
  /\ UNCHANGED <<pi, inbox, watch>>

\* `arm` samples what runs now as what ran before the call ...
SampleBaseline ==
  /\ loop.pc = "sample"
  /\ shared' = [shared EXCEPT !.baseline = pi.child # "none"]
  /\ loop' = [loop EXCEPT !.pc = "arm"]
  /\ UNCHANGED <<pi, inbox, out, watch>>

\* Mutant: an abort is the last thing the watch does.
ArmOnce ==
  /\ loop.pc = "arm"
  /\ shared' = [shared EXCEPT !.gen = @ + 1, !.armed = ~shared.reason, !.quiet = FALSE, !.capped = FALSE]
  /\ loop' = [loop EXCEPT !.pc = "handle"]
  /\ UNCHANGED <<pi, inbox, out, watch>>

\* ... and then arms under the lock.
Arm ==
  /\ loop.pc = "arm"
  /\ shared' = [shared EXCEPT !.gen = @ + 1, !.armed = TRUE, !.quiet = FALSE, !.capped = FALSE]
  /\ loop' = [loop EXCEPT !.pc = "handle"]
  /\ UNCHANGED <<pi, inbox, out, watch>>

Disarm ==
  /\ loop.pc = "disarm"
  /\ shared' = [shared EXCEPT !.gen = @ + 1, !.armed = FALSE, !.quiet = FALSE, !.capped = FALSE]
  /\ loop' = [loop EXCEPT !.pc = "handle"]
  /\ UNCHANGED <<pi, inbox, out, watch>>

Unnoticed(l) == l        \* Mutant: the watch keeps its abort to itself.

\* The loop learns of the watch's abort at its next line.
Noticed(l) == IF shared.reason /\ ~l.aborted THEN [l EXCEPT !.stop = "stalled", !.aborted = TRUE] ELSE l

CappedLate(l) == [l EXCEPT !.turns = @ + 1]    \* Mutant: the cap is never enforced.

\* A turn that reaches the cap is aborted and asked for its summary.
Capped(l) ==
  IF l.turns + 1 >= MaxTurns
  THEN [l EXCEPT !.turns = @ + 1, !.stop = "max_turns", !.aborted = TRUE, !.sends = <<"abort", "follow_up">>]
  ELSE [l EXCEPT !.turns = @ + 1]

ShouldAsk(l, e) == HasOutput /\ e = "agent_end" /\ ~l.wrote /\ ~l.aborted /\ ~l.asked

\* Mutant: asked at agent_end, before Pi has settled.
AskAtEnd(l, e) ==
  IF ShouldAsk(l, e) THEN [l EXCEPT !.asked = TRUE, !.sends = <<"prompt">>] ELSE [l EXCEPT !.pc = "done"]

EndOfRun(l, e) ==
  LET told == IF e = "agent_error" /\ ~l.asked /\ ~l.aborted THEN [l EXCEPT !.stop = "error"] ELSE l
  IN  IF ShouldAsk(l, e) THEN [told EXCEPT !.pending = TRUE] ELSE [told EXCEPT !.pc = "done"]

\* `agent_settled` is when a new prompt is legal.
Ask(l) == IF l.pending THEN [l EXCEPT !.pending = FALSE, !.asked = TRUE, !.sends = <<"prompt">>] ELSE l

Handled(l) ==
  CASE l.ev = "refused"   -> [l EXCEPT !.pc = "done", !.stop = IF l.asked THEN @ ELSE "error"]
    [] l.ev = "write_start" -> [l EXCEPT !.wrote = TRUE]
    [] l.ev = "turn_end" /\ ~l.aborted -> Capped(l)
    [] l.ev \in EndEvents -> EndOfRun(l, l.ev)
    [] l.ev = "settled"   -> Ask(l)
    [] OTHER              -> l

Handle ==
  /\ loop.pc = "handle"
  /\ loop' = Handled(Noticed([loop EXCEPT !.pc = "read"]))
  /\ UNCHANGED <<pi, inbox, out, shared, watch>>

\* Commands go out one line at a time, under the stdin lock.  Only a prompt
\* that cannot be sent ends the loop.
SendNext ==
  /\ loop.pc = "read" /\ loop.sends # <<>>
  /\ Sent(<<Head(loop.sends)>>)
  /\ loop' = [loop EXCEPT !.sends = Tail(@),
                          !.pc = IF pi.st = "gone" /\ Head(loop.sends) = "prompt" THEN "done" ELSE @]
  /\ UNCHANGED <<pi, out, shared, watch>>

-----------------------------------------------------------------------------
(* The stall watch.                                                        *)

\* Nothing is on its way and a call is executing: what holds while seconds pass
\* with the watch armed.
Settled ==
  /\ out = <<>> /\ inbox = <<>> /\ loop.pc = "read" /\ loop.sends = <<>>
  /\ pi.st = "tool" /\ pi.child # "none"

\* Time passes: 120 seconds without an event, or 1800 of one call.
GapPasses ==
  /\ Settled /\ shared.armed /\ watch.pc = "poll" /\ ~shared.quiet
  /\ shared' = [shared EXCEPT !.quiet = TRUE]
  /\ UNCHANGED <<pi, inbox, out, loop, watch>>

CapPasses ==
  /\ Settled /\ shared.armed /\ watch.pc \in {"poll", "confirm"} /\ shared.quiet /\ ~shared.capped
  /\ shared' = [shared EXCEPT !.capped = TRUE]
  /\ UNCHANGED <<pi, inbox, out, loop, watch>>

\* One turn of `_run`: the state is read under the lock.
Poll ==
  /\ watch.pc = "poll" /\ loop.pc # "done" /\ shared.armed
  /\ \/ shared.capped
        /\ watch' = [watch EXCEPT !.pc = "decide", !.kind = "capped", !.gen = shared.gen]
     \/ ~shared.capped /\ shared.quiet
        /\ watch' = [watch EXCEPT !.pc = "confirm", !.kind = "stalled", !.gen = shared.gen,
                                  !.baseline = shared.baseline, !.n = 0]
  /\ UNCHANGED <<pi, inbox, out, loop, shared>>

CpuAlone == pi.child = "spin" /\ ~watch.baseline     \* Mutant: churn is no evidence.

\* `shows_work` over one interval: pids come and go, or a pid outside the
\* baseline burned CPU.
ShowsWork == pi.child = "build" \/ (pi.child = "spin" /\ ~watch.baseline)

\* One sample of `_confirm_stalled`, taken seconds after the last one.  It
\* declines when the call has ended, when there was work, or when the process
\* table could not be read.
Confirm ==
  /\ watch.pc = "confirm"
  /\ \/ /\ Settled /\ watch.gen = shared.gen /\ ~ShowsWork
        /\ watch' = IF watch.n + 1 = Samples THEN [watch EXCEPT !.pc = "decide"]
                                             ELSE [watch EXCEPT !.n = @ + 1]
     \/ watch' = [watch EXCEPT !.pc = "poll"]
  /\ UNCHANGED <<pi, inbox, out, loop, shared>>

\* `_abort` under the lock: a decision about a call that has ended is dropped.
Decide ==
  /\ watch.pc = "decide"
  /\ IF watch.gen = shared.gen
     THEN /\ shared' = [shared EXCEPT !.armed = FALSE, !.reason = TRUE]
          /\ watch' = [watch EXCEPT !.pc = "abort"]
     ELSE watch' = [watch EXCEPT !.pc = "poll"] /\ UNCHANGED shared
  /\ UNCHANGED <<pi, inbox, out, loop>>

\* The two commands are sent after the lock is released.
WatchAborts ==
  /\ watch.pc = "abort" /\ Sent(<<"abort">>)
  /\ watch' = [watch EXCEPT !.pc = "follow_up"]
  /\ UNCHANGED <<pi, out, loop, shared>>

WatchFollowsUp ==
  /\ watch.pc = "follow_up" /\ Sent(<<"follow_up">>)
  /\ watch' = [watch EXCEPT !.pc = "poll"]
  /\ UNCHANGED <<pi, out, loop, shared>>

-----------------------------------------------------------------------------
PiAnswers == PiPrompt \/ PiAbort \/ PiFollowUp
PiWorks == PiSpawns \/ PiEndsWrite \/ PiEndsTurn \/ PiDrains \/ PiSettles
Loop == Read \/ SampleBaseline \/ Arm \/ Disarm \/ Handle \/ SendNext
Watch == Poll \/ Decide \/ WatchAborts \/ WatchFollowsUp
Done == loop.pc = "done" /\ UNCHANGED vars

Next ==
  \/ PiPrompt \/ PiAbort \/ PiFollowUp \/ PiStartsTool \/ PiSpawns \/ PiEndsTool \/ PiEndsWrite
  \/ PiEndsTurn \/ PiDrains \/ PiSettles \/ PiDies
  \/ Read \/ SampleBaseline \/ Arm \/ Disarm \/ Handle \/ SendNext
  \/ GapPasses \/ CapPasses \/ Poll \/ Confirm \/ Decide \/ WatchAborts \/ WatchFollowsUp
  \/ Done

Spec == Init /\ [][Next]_vars

\* Threads are scheduled, Pi obeys its stdin and time passes; a tool call is
\* never obliged to end, and a confirm window never to decline.
FairSpec ==
  /\ Spec
  /\ WF_vars(PiAnswers) /\ WF_vars(PiWorks) /\ WF_vars(Loop) /\ WF_vars(Watch)
  /\ WF_vars(GapPasses) /\ WF_vars(CapPasses) /\ WF_vars(Confirm)
-----------------------------------------------------------------------------
TypeOK ==
  /\ pi.st \in PiStates /\ pi.child \in Children
  /\ pi.work \in 0 .. Work /\ pi.calls \in 0 .. Calls /\ pi.followups \in Nat
  /\ {pi.cut, pi.retried, pi.writing, pi.wrote} \subseteq BOOLEAN
  /\ inbox \in Seq(Commands) /\ out \in Seq(Events) /\ Len(out) <= Pipe
  /\ loop.pc \in {"read", "sample", "arm", "disarm", "handle", "done"}
  /\ loop.ev \in Events \cup {"none"} /\ loop.sends \in Seq(Commands) /\ loop.turns \in 0 .. MaxTurns
  /\ loop.stop \in {"completed", "max_turns", "stalled", "error"}
  /\ {loop.aborted, loop.wrote, loop.pending, loop.asked} \subseteq BOOLEAN
  /\ shared.gen \in Nat
  /\ {shared.armed, shared.baseline, shared.quiet, shared.capped, shared.reason} \subseteq BOOLEAN
  /\ watch.pc \in {"poll", "confirm", "decide", "abort", "follow_up"}
  /\ watch.n \in 0 .. Samples /\ watch.kind \in {"none", "stalled", "capped"}

\* A run that was cut, by the cap or by the watch, and read to its end is
\* never recorded as one that completed or failed of its own accord: the
\* reason is in place before Pi can answer the abort.
CutIsSaid ==
  loop.pc = "done" /\ loop.ev \in EndEvents /\ pi.cut => loop.stop \in {"max_turns", "stalled"}

\* Every prompt, the one that asks for a missing deliverable included, reaches
\* a Pi that is idle: one sent to a busy Pi would be refused.
AskIsHeard == [][PiPrompt => pi.st = "idle"]_vars

\* A stalled verdict is about a call that was hanging when it was reached, or
\* about a process the watch took for an older one.
VerdictIsQuiet ==
  watch.pc = "decide" /\ watch.kind = "stalled" /\ watch.gen = shared.gen /\ Settled
    => pi.child = "hang" \/ (pi.child = "spin" /\ watch.baseline)

\* The loop always ends, however a tool call hangs.
RunEnds == <>(loop.pc = "done")

-----------------------------------------------------------------------------
(* What the sources say and the code does not do.                          *)

\* stall.py:459-463: a decision about a call that has since ended is dropped
\* rather than delivered late, for the generation is compared under the lock
\* that serialises the write.
AbortIsCurrent == [][ WatchAborts => watch.gen = shared.gen ]_vars

\* stall.py, the table of what separates a stall from work: one spinning
\* child is live.
SpinIsLive ==
  watch.pc = "abort" /\ watch.kind = "stalled" /\ watch.gen = shared.gen /\ Settled
    => pi.child # "spin"

\* backend_pi.py, `_consume_stream`: a run that ends having written nothing is
\* asked once more for the file.
UnwrittenIsAsked ==
  loop.pc = "done" /\ loop.ev = "agent_end" /\ HasOutput /\ ~pi.wrote /\ ~pi.cut
    => loop.asked \/ loop.aborted
=============================================================================
