------------------------------ MODULE BatchRun ------------------------------
(***************************************************************************)
(* One `pr batch` run as data: what a queued request does to it, how an    *)
(* idle run settles, and what a scheduler tick may change.  Every operator *)
(* is a pure function of a run; who may call it, and when the result       *)
(* reaches state.json, is BatchSession's business.                         *)
(*                                                                         *)
(* An item is "open" (queued, awaiting a decision, ready to publish),      *)
(* "running", or "terminal" (done, dropped, skipped); `stepping` holds the *)
(* items with a step record left RUNNING, which a release does not touch.  *)
(* A decision slot is "absent" until something raises it, then "open",     *)
(* then carries the action that resolved it; an id is never reused.        *)
(***************************************************************************)
EXTENDS Naturals

CONSTANTS Items, Decisions, Actions, Requests, Ask, ItemOf

ASSUME ItemOfAssumption == ItemOf \in [Decisions -> Items]

Asks == [kind : {"decide"}, decision : Decisions, action : Actions]
          \cup [kind : {"cancel"}, kill : BOOLEAN]
          \cup [kind : {"release"}, item : Items, kill : BOOLEAN]
          \cup [kind : {"malformed"}]

ASSUME AskAssumption == Ask \in [Requests -> Asks]
ASSUME ActionAssumption == Actions \cap {"absent", "open", "released"} = {}

Finished == {"done", "cancelled"}

Runs == [status : {"running", "waiting", "interrupted", "done", "cancelled"},
         cancel : {"none", "soft", "kill"},
         items : [Items -> {"open", "running", "terminal"}],
         stepping : SUBSET Items,
         decisions : [Decisions -> {"absent", "open", "released"} \cup Actions]]

OpenDecisions(run, i) == {d \in Decisions : ItemOf[d] = i /\ run.decisions[d] = "open"}

AllTerminal(run) == \A i \in Items : run.items[i] = "terminal"

-----------------------------------------------------------------------------
(* Applying one request: the set of possible outcomes.  `ran` says whether *)
(* a command was run on the way, which no later crash can take back.       *)

Outcome(run, ok, ran) == [run |-> run, ok |-> ok, ran |-> ran]

ApplyCancel(run, kill) ==
  IF run.status = "done" THEN Outcome(run, FALSE, FALSE)
  ELSE IF run.status = "cancelled" THEN Outcome(run, TRUE, FALSE)
  ELSE Outcome([run EXCEPT !.cancel = IF kill \/ @ = "kill" THEN "kill" ELSE "soft"],
               TRUE, FALSE)

Releasable(run, i, kill) ==
  /\ run.status \notin Finished
  /\ run.items[i] # "terminal"
  /\ run.items[i] = "running" => kill

Released(run, i) ==
  [run EXCEPT !.items[i] = "terminal",
              !.decisions = [d \in Decisions |->
                               IF d \in OpenDecisions(run, i) THEN "released" ELSE @[d]]]

ApplyRelease(run, i, kill) ==
  IF Releasable(run, i, kill) THEN Outcome(Released(run, i), TRUE, FALSE)
                              ELSE Outcome(run, FALSE, FALSE)

AbsentDecisions(run, i) == {d \in Decisions : ItemOf[d] = i /\ run.decisions[d] = "absent"}

(* Mutant: no notice is taken of a decision already resolved.              *)
ApplyDecideAgain(run, d, action) ==
  IF run.decisions[d] \in {"absent", "released"} THEN {Outcome(run, FALSE, FALSE)}
  ELSE {Outcome(run, FALSE, TRUE), Outcome([run EXCEPT !.decisions[d] = action], TRUE, TRUE)}

(* A decision not open is refused.  An open one is refused with its        *)
(* command tried or not, or is resolved: its item stays, or ends, or the   *)
(* command failed and left a new open decision in the old one's place.     *)
Resolve(run, d, action) ==
  LET i == ItemOf[d]
      resolved == [run EXCEPT !.decisions[d] = action]
  IN  IF run.decisions[d] # "open" THEN {Outcome(run, FALSE, FALSE)}
      ELSE {Outcome(run, FALSE, ran) : ran \in BOOLEAN}
             \cup {Outcome(done, TRUE, TRUE) :
                     done \in {resolved, [resolved EXCEPT !.items[i] = "terminal"]}
                               \cup {[resolved EXCEPT !.decisions[e] = "open"] :
                                       e \in AbsentDecisions(run, i)}}

(* A replay of the action a decision already carries runs nothing.         *)
ApplyDecide(run, d, action) ==
  IF run.decisions[d] = action THEN {Outcome(run, TRUE, FALSE)} ELSE Resolve(run, d, action)

ApplyOne(run, r) ==
  LET ask == Ask[r] IN
  CASE ask.kind = "decide"    -> ApplyDecide(run, ask.decision, ask.action)
    [] ask.kind = "cancel"    -> {ApplyCancel(run, ask.kill)}
    [] ask.kind = "release"   -> {ApplyRelease(run, ask.item, ask.kill)}
    [] ask.kind = "malformed" -> {Outcome(run, FALSE, FALSE)}

-----------------------------------------------------------------------------
(* Settlement, and the order a drain takes requests in.                    *)

(* Mutant: every item being over is looked at before the cancel.           *)
SettleIdleDoneFirst(run) ==
  IF run.status \in {"waiting", "running"} /\ AllTerminal(run)
  THEN [run EXCEPT !.status = "done"]
  ELSE IF run.cancel # "none" /\ run.status \notin Finished
  THEN [run EXCEPT !.status = "cancelled"]
  ELSE run

SettleIdle(run) ==
  IF run.cancel # "none" /\ run.status \notin Finished
  THEN [run EXCEPT !.status = "cancelled"]
  ELSE IF run.status \in {"waiting", "running"} /\ AllTerminal(run)
  THEN [run EXCEPT !.status = "done"]
  ELSE run

Cancels(requests) == {r \in requests : Ask[r].kind = "cancel"}

(* Every cancel goes ahead of everything else.  Within each group the code *)
(* sorts by file name, a time stamp two submitters take concurrently.      *)
DrainFirst(requests) ==
  IF Cancels(requests) # {} THEN Cancels(requests) ELSE requests

-----------------------------------------------------------------------------
(* What the scheduler does to a run.  Bound: a step raises a decision only *)
(* while a slot of its item is absent.                                     *)

(* Reaping a step: an item released meanwhile stays terminal; any other is *)
(* queued again, waits on a decision the step raised, or was published.    *)
StepOver(run, i) ==
  LET reaped == [run EXCEPT !.stepping = @ \ {i}] IN
  IF run.items[i] = "terminal" THEN {reaped}
  ELSE {[reaped EXCEPT !.items[i] = status] : status \in {"open", "terminal"}}
         \cup {[reaped EXCEPT !.items[i] = "open", !.decisions[d] = "open"] :
                 d \in AbsentDecisions(run, i)}

Reaped(run) == UNION {StepOver(run, i) : i \in run.stepping}

Ready(run, i) == run.items[i] = "open" /\ OpenDecisions(run, i) = {}

Admitted(run) ==
  IF run.cancel = "none"
  THEN {[run EXCEPT !.items[i] = "running", !.stepping = @ \cup {i}] :
          i \in {j \in Items : Ready(run, j)}}
  ELSE {}

Ticked(run) == {run} \cup Reaped(run) \cup Admitted(run)

(* The status a tick stops the loop with, or "running" to go round again.  *)
BlockedStatus(run, pending) ==
  IF run.stepping # {} \/ pending # {} THEN "running"
  ELSE IF run.cancel # "none" THEN "cancelled"
  ELSE IF AllTerminal(run) THEN "done"
  ELSE IF \A i \in Items : run.items[i] = "terminal" \/ OpenDecisions(run, i) # {}
  THEN "waiting"
  ELSE "running"

(* Every step record left RUNNING becomes an interrupted decision, in some *)
(* absent slot, and its item awaits it - whatever the item's status was.   *)
MarkInterrupted(run) ==
  LET raised == {CHOOSE d \in AbsentDecisions(run, i) : TRUE :
                   i \in {j \in run.stepping : AbsentDecisions(run, j) # {}}}
  IN  [run EXCEPT !.items = [i \in Items |-> IF i \in run.stepping THEN "open" ELSE @[i]],
                  !.decisions = [d \in Decisions |-> IF d \in raised THEN "open" ELSE @[d]],
                  !.stepping = {}]

-----------------------------------------------------------------------------
(* What the properties say of runs.                                        *)

(* Every way to be done is closed to a cancelled run.                      *)
Sound(run) == run.cancel # "none" => run.status # "done"

(* The trace a granted request leaves on a run.                            *)
Effect(run, r) ==
  LET ask == Ask[r] IN
  CASE ask.kind = "decide"    -> run.decisions[ask.decision] = ask.action
    [] ask.kind = "cancel"    -> run.cancel # "none" \/ run.status = "cancelled"
    [] ask.kind = "release"   -> run.items[ask.item] = "terminal"
    [] ask.kind = "malformed" -> FALSE

(* `new` keeps what `old` had settled for good: its resolutions, its       *)
(* cancel and its end.                                                     *)
Keeps(old, new) ==
  /\ \A d \in Decisions : old.decisions[d] \notin {"absent", "open"} =>
       new.decisions[d] = old.decisions[d]
  /\ old.cancel # "none" => new.cancel # "none"
  /\ Sound(new)
  /\ old.cancel = "kill" => new.cancel = "kill"
  /\ old.status \in Finished => new.status = old.status

(* `new` leaves every item `old` had ended ended.                          *)
KeepsTerminal(old, new) ==
  \A i \in Items : old.items[i] = "terminal" => new.items[i] = "terminal"
=============================================================================
