---------------------------- MODULE ProcessStops ----------------------------
(*****************************************************************************)
(* What is stopped: the children a stop has to find and kill (Children), a   *)
(* command whose output is relayed (ProcRun), the wrappers that pass a       *)
(* signal on (Relay), an agent the watch may abort (PiStream) and the        *)
(* rounds of a review, any of which may be killed (ReviewRun).  They share   *)
(* no state; part says which of them moves.                                  *)
(*****************************************************************************)

CONSTANTS
  \* Children
  Workers, Kids, Members, Main,
  \* ProcRun
  Lines, Group,
  \* Relay
  Sigs, MaxSignals, Heirs, Deaf,
  \* PiStream
  MaxTurns, Work, Calls, Samples, Pipe, Deliverable,
  \* ReviewRun
  Groups, MaxHead, MaxRuns, MaxKills, FaultSets, FailHeads

VARIABLES
  part,   \* the component that moves
  \* Children
  kid, live, lock, stopPc, own, stopSignals, stopping, handler, procs, timer, freed,
  stranger,
  \* ProcRun
  child, commandHeir, pipe, written, pump, parts, relayed, tee, jam, main, result, late,
  \* Relay
  signalsPc, handles, pending, replay, named, held, suite, signalsHeir, signalsSignals,
  stopped,
  \* PiStream
  pi, inbox, out, loop, shared, watch,
  \* ReviewRun
  commits, state, outputs, rejected, spent, record, meta, page, prior, run, runs, kills,
  faults

stopVars == <<kid, live, lock, stopPc, own, stopSignals, stopping, handler, procs, timer,
  freed, stranger>>
commandVars == <<child, commandHeir, pipe, written, pump, parts, relayed, tee, jam, main,
  result, late>>
signalsVars == <<signalsPc, handles, pending, replay, named, held, suite, signalsHeir,
  signalsSignals, stopped>>
agentVars == <<pi, inbox, out, loop, shared, watch>>
reviewVars == <<commits, state, outputs, rejected, spent, record, meta, page, prior, run,
  runs, kills, faults>>
vars == <<part, stopVars, commandVars, signalsVars, agentVars, reviewVars>>

Stop == INSTANCE Children WITH pc <- stopPc, signals <- stopSignals
Command == INSTANCE ProcRun WITH heir <- commandHeir
Signals == INSTANCE Relay WITH
  Signals <- MaxSignals, pc <- signalsPc, heir <- signalsHeir, signals <- signalsSignals
Agent == INSTANCE PiStream WITH HasOutput <- Deliverable
Review == INSTANCE ReviewRun

ASSUME ConstantsAssumption ==
  /\ Stop!ChildrenConstants
  /\ Command!ProcConstants
  /\ Signals!RelayConstants
  /\ Agent!PiConstants
  /\ Review!ReviewAssumption

Init ==
  /\ part \in {"stop", "command", "signals", "agent", "review"}
  /\ Stop!Init
  /\ Command!Init
  /\ Signals!Init
  /\ Agent!Init
  /\ Review!Init

Next ==
  \/ part = "stop" /\ Stop!Next
     /\ UNCHANGED <<part, commandVars, signalsVars, agentVars, reviewVars>>
  \/ part = "command" /\ Command!Next
     /\ UNCHANGED <<part, stopVars, signalsVars, agentVars, reviewVars>>
  \/ part = "signals" /\ Signals!Next
     /\ UNCHANGED <<part, stopVars, commandVars, agentVars, reviewVars>>
  \/ part = "agent" /\ Agent!Next
     /\ UNCHANGED <<part, stopVars, commandVars, signalsVars, reviewVars>>
  \/ part = "review" /\ Review!Next
     /\ UNCHANGED <<part, stopVars, commandVars, signalsVars, agentVars>>

Spec == Init /\ [][Next]_vars
-----------------------------------------------------------------------------
\* children.py, `stop_all`: a process that was stopped leaves nothing of
\* what it had recorded behind.
NoneLeft == Stop!NoneLeft

\* proc.py, `_pump`: what was shown on the terminal is in the result.
ShownIsKept == Command!ShownIsKept

\* signal_relay.py: while the suite runs, the tree lock and its slots are
\* held, whatever signals arrive.
SuiteIsCovered == Signals!SuiteIsCovered

\* backend_pi.py: a run that was cut short is never recorded as completed.
CutIsSaid == Agent!CutIsSaid

\* state.py, `status`: a review that reads as completed has read every group as it
\* was at the head it states and was challenged.
CompletedIsWhole == Review!CompletedIsWhole
=============================================================================
