--------------------------- MODULE BatchRunProofs ---------------------------
(***************************************************************************)
(* What the operators of BatchRun do to any run, for every set of items,   *)
(* decisions and actions: the type of the result, what it keeps of the run *)
(* it was given, and the trace a request that applied leaves on it.        *)
(***************************************************************************)
EXTENDS BatchRun, TLAPS

(* What a session keeps, it keeps over any number of steps.                *)
LEMMA KeepsTransitive ==
  ASSUME NEW a \in Runs, NEW b \in Runs, NEW c \in Runs, Keeps(a, b), Keeps(b, c)
  PROVE  Keeps(a, c)
BY DEF Keeps, Runs, Finished

(* A run that changes nothing the properties look at keeps everything.     *)
LEMMA KeepsSame ==
  ASSUME NEW a \in Runs, NEW b \in Runs, Sound(a),
         b.status = a.status, b.cancel = a.cancel,
         \A d \in Decisions : a.decisions[d] \notin {"absent", "open"} =>
           b.decisions[d] = a.decisions[d]
  PROVE  Keeps(a, b)
BY DEF Keeps, Runs, Sound

(* The states an action can name are never those of an unresolved slot.    *)
LEMMA ActionsAreResolutions ==
  ASSUME NEW action \in Actions
  PROVE  action \notin {"absent", "open", "released"}
BY ActionAssumption

(* A request's demand, by its kind.                                        *)
LEMMA AskKinds ==
  ASSUME NEW r \in Requests
  PROVE  \/ /\ Ask[r].kind = "decide" /\ Ask[r].decision \in Decisions
            /\ Ask[r].action \in Actions
         \/ Ask[r].kind = "cancel" /\ Ask[r].kill \in BOOLEAN
         \/ Ask[r].kind = "release" /\ Ask[r].item \in Items /\ Ask[r].kill \in BOOLEAN
         \/ Ask[r].kind = "malformed"
BY AskAssumption DEF Asks

(* What every outcome of a request owes the run it was applied to.         *)
Faithful(run, o, r) ==
  /\ o.run \in Runs /\ o.ok \in BOOLEAN /\ o.ran \in BOOLEAN
  /\ o.run.status = run.status
  /\ Keeps(run, o.run)
  /\ o.ok => Effect(o.run, r)

(* A cancel.                                                               *)
LEMMA ApplyCancelFaithful ==
  ASSUME NEW run \in Runs, Sound(run), NEW r \in Requests, Ask[r].kind = "cancel",
         Ask[r].kill \in BOOLEAN
  PROVE  Faithful(run, ApplyCancel(run, Ask[r].kill), r)
BY DEF Faithful, ApplyCancel, Outcome, Runs, Keeps, Effect, Sound, Finished

(* A release.                                                              *)
LEMMA ApplyReleaseFaithful ==
  ASSUME NEW run \in Runs, Sound(run), NEW r \in Requests, Ask[r].kind = "release",
         Ask[r].item \in Items, Ask[r].kill \in BOOLEAN
  PROVE  Faithful(run, ApplyRelease(run, Ask[r].item, Ask[r].kill), r)
<1> DEFINE i == Ask[r].item
           new == Released(run, i)
<1>1. new \in Runs /\ new.status = run.status /\ new.cancel = run.cancel
  BY DEF Released, Runs
<1>2. \A d \in Decisions : run.decisions[d] \notin {"absent", "open"} =>
        new.decisions[d] = run.decisions[d]
  BY DEF Released, Runs, OpenDecisions
<1>3. new.items[i] = "terminal"
  BY DEF Released, Runs
<1>4. Keeps(run, new)
  BY <1>1, <1>2, KeepsSame
<1>5. Keeps(run, run)
  BY KeepsSame
<1>6. Effect(new, r)
  BY <1>3 DEF Effect
<1> QED
  BY <1>1, <1>4, <1>5, <1>6 DEF Faithful, ApplyRelease, Outcome

(* A decision: its slot is open before and carries the action after, and   *)
(* no slot that was resolved is touched.                                   *)
LEMMA ApplyDecideFaithful ==
  ASSUME NEW run \in Runs, Sound(run), NEW r \in Requests, Ask[r].kind = "decide",
         Ask[r].decision \in Decisions, Ask[r].action \in Actions,
         NEW o \in ApplyDecide(run, Ask[r].decision, Ask[r].action)
  PROVE  Faithful(run, o, r)
<1> DEFINE d == Ask[r].decision
           action == Ask[r].action
           i == ItemOf[d]
           resolved == [run EXCEPT !.decisions[d] = action]
           ended == [resolved EXCEPT !.items[i] = "terminal"]
           asked(e) == [resolved EXCEPT !.decisions[e] = "open"]
<1>1. Keeps(run, run)
  BY KeepsSame
<1>2. CASE run.decisions[d] = action
  <2>1. o = Outcome(run, TRUE, FALSE)
    BY <1>2 DEF ApplyDecide
  <2>2. Effect(run, r)
    BY <1>2 DEF Effect
  <2> QED
    BY <1>1, <2>1, <2>2 DEF Outcome, Faithful
<1>3. CASE run.decisions[d] \notin {action, "open"}
  <2>1. o = Outcome(run, FALSE, FALSE)
    BY <1>3 DEF ApplyDecide, Resolve
  <2> QED
    BY <1>1, <2>1 DEF Outcome, Faithful
<1>4. CASE run.decisions[d] = "open" /\ run.decisions[d] # action
  <2>1. i \in Items
    BY ItemOfAssumption
  <2>2. resolved \in Runs /\ Keeps(run, resolved) /\ Effect(resolved, r)
    BY <1>4 DEF Runs, Keeps, Sound, Effect
  <2>3. ended \in Runs /\ Keeps(run, ended) /\ Effect(ended, r)
    BY <1>4, <2>1 DEF Runs, Keeps, Sound, Effect
  <2>4. ASSUME NEW e \in AbsentDecisions(run, i)
        PROVE  asked(e) \in Runs /\ Keeps(run, asked(e)) /\ Effect(asked(e), r)
    BY <1>4 DEF AbsentDecisions, Runs, Keeps, Sound, Effect
  <2>5. resolved.status = run.status /\ ended.status = run.status
    BY DEF Runs
  <2>6. \A e \in AbsentDecisions(run, i) : asked(e).status = run.status
    BY DEF Runs
  <2>7. \/ \E ran \in BOOLEAN : o = Outcome(run, FALSE, ran)
        \/ o = Outcome(resolved, TRUE, TRUE)
        \/ o = Outcome(ended, TRUE, TRUE)
        \/ \E e \in AbsentDecisions(run, i) : o = Outcome(asked(e), TRUE, TRUE)
    BY <1>4 DEF ApplyDecide, Resolve
  <2> HIDE DEF resolved, ended, asked, d, i, action
  <2>8. \/ o.run = run /\ o.ok = FALSE /\ o.ran \in BOOLEAN
        \/ /\ o.ok = TRUE /\ o.ran = TRUE
           /\ o.run \in {resolved, ended} \cup {asked(e) : e \in AbsentDecisions(run, i)}
    BY <2>7 DEF Outcome
  <2>9. CASE o.run = run /\ o.ok = FALSE /\ o.ran \in BOOLEAN
    BY <1>1, <2>9 DEF Faithful
  <2>10. CASE o.ok = TRUE /\ o.ran = TRUE /\ o.run = resolved
    BY <2>2, <2>5, <2>10 DEF Faithful
  <2>11. CASE o.ok = TRUE /\ o.ran = TRUE /\ o.run = ended
    BY <2>3, <2>5, <2>11 DEF Faithful
  <2>12. ASSUME o.ok = TRUE, o.ran = TRUE, NEW e \in AbsentDecisions(run, i),
                o.run = asked(e)
         PROVE  Faithful(run, o, r)
    BY <2>4, <2>6, <2>12 DEF Faithful
  <2> QED
    BY <2>8, <2>9, <2>10, <2>11, <2>12
<1> QED
  BY <1>2, <1>3, <1>4

(* Whatever the request, applying it leaves a run of the right type, with  *)
(* its status, keeping what was settled, and showing what was granted.     *)
THEOREM ApplyOneFaithful ==
  ASSUME NEW run \in Runs, Sound(run), NEW r \in Requests, NEW o \in ApplyOne(run, r)
  PROVE  Faithful(run, o, r)
<1>1. CASE Ask[r].kind = "decide"
  <2>1. Ask[r].decision \in Decisions /\ Ask[r].action \in Actions
    BY <1>1, AskKinds
  <2>2. o \in ApplyDecide(run, Ask[r].decision, Ask[r].action)
    BY <1>1 DEF ApplyOne
  <2> QED
    BY <1>1, <2>1, <2>2, ApplyDecideFaithful
<1>2. CASE Ask[r].kind = "cancel"
  <2>1. Ask[r].kill \in BOOLEAN
    BY <1>2, AskKinds
  <2>2. o = ApplyCancel(run, Ask[r].kill)
    BY <1>2 DEF ApplyOne
  <2> QED
    BY <1>2, <2>1, <2>2, ApplyCancelFaithful
<1>3. CASE Ask[r].kind = "release"
  <2>1. Ask[r].item \in Items /\ Ask[r].kill \in BOOLEAN
    BY <1>3, AskKinds
  <2>2. o = ApplyRelease(run, Ask[r].item, Ask[r].kill)
    BY <1>3 DEF ApplyOne
  <2> QED
    BY <1>3, <2>1, <2>2, ApplyReleaseFaithful
<1>4. CASE Ask[r].kind = "malformed"
  <2>1. o = Outcome(run, FALSE, FALSE)
    BY <1>4 DEF ApplyOne
  <2>2. Keeps(run, run)
    BY KeepsSame
  <2> QED
    BY <2>1, <2>2 DEF Outcome, Faithful
<1> QED
  BY <1>1, <1>2, <1>3, <1>4, AskKinds

(* Settling an idle run.                                                   *)
LEMMA SettleIdleKeeps ==
  ASSUME NEW run \in Runs, Sound(run)
  PROVE  SettleIdle(run) \in Runs /\ Keeps(run, SettleIdle(run))
BY DEF SettleIdle, Runs, Keeps, Sound, Finished

(* Reaping the step of one item.                                           *)
LEMMA StepOverKeeps ==
  ASSUME NEW run \in Runs, Sound(run), NEW i \in run.stepping, NEW new \in StepOver(run, i)
  PROVE  new \in Runs /\ Keeps(run, new) /\ new.status = run.status
<1> DEFINE reaped == [run EXCEPT !.stepping = @ \ {i}]
<1>1. i \in Items
  BY DEF Runs
<1>2. reaped \in Runs /\ reaped.status = run.status /\ reaped.cancel = run.cancel
        /\ reaped.decisions = run.decisions
  BY DEF Runs
<1>3. \/ new = reaped
      \/ \E where \in {"open", "terminal"} : new = [reaped EXCEPT !.items[i] = where]
      \/ \E d \in AbsentDecisions(run, i) :
           new = [reaped EXCEPT !.items[i] = "open", !.decisions[d] = "open"]
  BY DEF StepOver
<1> HIDE DEF reaped
<1> DEFINE Kept == /\ new \in Runs /\ new.status = run.status /\ new.cancel = run.cancel
                   /\ \A d \in Decisions : run.decisions[d] \notin {"absent", "open"} =>
                        new.decisions[d] = run.decisions[d]
<1>4. ASSUME new = reaped PROVE Kept
  BY <1>2, <1>4
<1>5. ASSUME NEW where \in {"open", "terminal"}, new = [reaped EXCEPT !.items[i] = where]
      PROVE  Kept
  BY <1>1, <1>2, <1>5 DEF Runs
<1>6. ASSUME NEW d \in AbsentDecisions(run, i),
             new = [reaped EXCEPT !.items[i] = "open", !.decisions[d] = "open"]
      PROVE  Kept
  <2>1. d \in Decisions /\ run.decisions[d] = "absent"
    BY DEF AbsentDecisions
  <2>2. /\ new.items = [reaped.items EXCEPT ![i] = "open"]
        /\ new.decisions = [reaped.decisions EXCEPT ![d] = "open"]
        /\ new.stepping = reaped.stepping /\ new.status = reaped.status
        /\ new.cancel = reaped.cancel
    BY <1>2, <1>6 DEF Runs
  <2>3. new = [status |-> new.status, cancel |-> new.cancel, items |-> new.items,
               stepping |-> new.stepping, decisions |-> new.decisions]
    BY <1>2, <1>6 DEF Runs
  <2>4. new \in Runs
    BY <1>1, <1>2, <2>1, <2>2, <2>3 DEF Runs
  <2> QED
    BY <1>2, <2>1, <2>2, <2>4 DEF Runs
<1>7. Kept
  BY <1>3, <1>4, <1>5, <1>6
<1> QED
  BY <1>7, KeepsSame

(* One tick of the scheduler.                                              *)
LEMMA TickedKeeps ==
  ASSUME NEW run \in Runs, Sound(run), NEW new \in Ticked(run)
  PROVE  new \in Runs /\ Keeps(run, new) /\ new.status = run.status
<1>1. CASE new = run
  BY <1>1, KeepsSame
<1>2. CASE new \in Reaped(run)
  BY <1>2, StepOverKeeps DEF Reaped
<1>3. CASE new \in Admitted(run)
  <2>1. PICK i \in Items :
          new = [run EXCEPT !.items[i] = "running", !.stepping = @ \cup {i}]
    BY <1>3 DEF Admitted
  <2>2. new \in Runs /\ new.status = run.status /\ new.cancel = run.cancel
          /\ new.decisions = run.decisions
    BY <2>1 DEF Runs
  <2> QED
    BY <2>2, KeepsSame
<1> QED
  BY <1>1, <1>2, <1>3 DEF Ticked

(* Marking what was running as interrupted.                                *)
LEMMA MarkInterruptedKeeps ==
  ASSUME NEW run \in Runs, Sound(run)
  PROVE  /\ MarkInterrupted(run) \in Runs /\ Keeps(run, MarkInterrupted(run))
         /\ MarkInterrupted(run).status = run.status
         /\ MarkInterrupted(run).cancel = run.cancel
<1> DEFINE slot(i) == CHOOSE d \in AbsentDecisions(run, i) : TRUE
           raised == {slot(i) : i \in {j \in run.stepping : AbsentDecisions(run, j) # {}}}
           new == [run EXCEPT
                     !.items = [i \in Items |-> IF i \in run.stepping THEN "open" ELSE @[i]],
                     !.decisions = [d \in Decisions |-> IF d \in raised THEN "open" ELSE @[d]],
                     !.stepping = {}]
<1>1. \A d \in raised : run.decisions[d] = "absent"
  <2>1. \A i : AbsentDecisions(run, i) # {} => slot(i) \in AbsentDecisions(run, i)
    OBVIOUS
  <2> QED
    BY <2>1 DEF AbsentDecisions
<1>2. MarkInterrupted(run) = new
  BY DEF MarkInterrupted
<1> HIDE DEF raised
<1>3. new \in Runs /\ new.status = run.status /\ new.cancel = run.cancel
  BY DEF Runs
<1>4. \A d \in Decisions : run.decisions[d] \notin {"absent", "open"} =>
        new.decisions[d] = run.decisions[d]
  BY <1>1 DEF Runs
<1> QED
  BY <1>2, <1>3, <1>4, KeepsSame

(* The scheduler stopping: it never calls a cancelled run done.            *)
LEMMA BlockedKeeps ==
  ASSUME NEW run \in Runs, Sound(run), run.status \notin Finished, NEW pending
  PROVE  LET new == [run EXCEPT !.status = BlockedStatus(run, pending)] IN
         new \in Runs /\ Keeps(run, new)
<1>1. /\ BlockedStatus(run, pending) \in {"running", "waiting", "done", "cancelled"}
      /\ BlockedStatus(run, pending) = "done" => run.cancel = "none"
  BY DEF BlockedStatus
<1> QED
  BY <1>1 DEF Runs, Keeps, Sound, Finished

(* The scheduler starting, or failing.                                     *)
LEMMA MovedKeeps ==
  ASSUME NEW run \in Runs, Sound(run), run.status \notin Finished,
         NEW status \in {"running", "interrupted", "cancelled"}
  PROVE  LET new == [run EXCEPT !.status = status] IN
         new \in Runs /\ Keeps(run, new) /\ new.status = status
BY DEF Runs, Keeps, Sound, Finished
=============================================================================
