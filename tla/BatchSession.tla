---------------------------- MODULE BatchSession ----------------------------
(***************************************************************************)
(* The session protocol around one saved `pr batch` run: who may open the  *)
(* run directory, how a request put in its inbox reaches state.json, how a *)
(* finished run is removed, and what each process does when it is refused, *)
(* fails, or is killed.                                                    *)
(*                                                                         *)
(* Drivers are `pr batch resume` processes, submitters deliver one request *)
(* each (`pr batch resolve`, `cancel`, `release`), collectors are `pr gc`. *)
(* A request is named by its submitter.  The run directory is "live",      *)
(* renamed to its tombstone ("tomb"), or "gone"; run.lock is a file with   *)
(* an inode, since a flock belongs to the inode a process opened and a     *)
(* holder record to the file the path names.  Every process works through  *)
(* paths, so a tombstoned directory reads as missing.                      *)
(*                                                                         *)
(* Bounds: MaxTries pauses inside a take, MaxWaits pauses between takes    *)
(* (both stand for core.run_lock.retry_delays), MaxCrashes kills,          *)
(* MaxErrors exceptional exits.                                            *)
(***************************************************************************)
EXTENDS BatchRun, FiniteSets

CONSTANTS Drivers, Submitters, Collectors, Nobody, NoRun,
          InitialRuns, Survivors, MaxTries, MaxWaits, MaxCrashes, MaxErrors

Proc == Drivers \cup Submitters \cup Collectors

ASSUME ProcAssumption ==
  /\ Drivers \cap Submitters = {} /\ Drivers \cap Collectors = {}
  /\ Submitters \cap Collectors = {}
  /\ Nobody \notin Proc
  /\ Requests = Submitters

ASSUME RunAssumption ==
  /\ InitialRuns \subseteq {run \in Runs : Sound(run)} /\ NoRun \notin Runs
  /\ Survivors \subseteq SUBSET {"lock", "state"}

ASSUME BoundAssumption == {MaxTries, MaxWaits, MaxCrashes, MaxErrors} \subseteq Nat

VARIABLES
  dir, lockfile, inodes,           \* the directory, run.lock's inode (0: none), inodes made
  record,                          \* the holder record in the file run.lock names
  disk, refs, inbox, rejected,     \* state.json, the plan's refs, requests/, requests/rejected/
  pc, handle, passing, stage,      \* where a process is, what it has open, whether it is
  leaving, tries, waits,           \*   a hand-off pass, why it drains, how it leaves
  mem, peeked, current, okay,      \* its Session: run, requests to drain, the one in hand
  outcome,                         \* what `deliver` told each submitter
  crashes, errors,                 \* faults so far
  granted, lapsed,                 \* history: retired as applied; abandoned by a failed
  ran, redone                      \*   holder; commands run, in vain

place   == <<dir, lockfile, inodes>>
content == <<disk, refs, inbox, rejected>>
session == <<mem, peeked, current, okay>>
retry   == <<tries, waits>>
faults  == <<crashes, errors>>
history == <<granted, lapsed, ran, redone>>
vars == <<place, record, content, pc, handle, passing, stage, leaving, retry,
          session, outcome, faults, history>>

-----------------------------------------------------------------------------
(* Program counters.                                                       *)

Draining == {"drain", "commit", "retire", "unlink", "settle"}
Reaping  == {"gc_load", "gc_rename", "gc_scan", "gc_refs", "gc_rmtree"}
InSession == {"record", "load", "body", "loop", "work", "blocked"} \cup Draining \cup Reaping
Holding  == InSession \cup {"stamp", "unlock"}
Asking   == {"open", "flock", "contend"}
PCs == {"start", "handoff", "end", "dead"} \cup Asking \cup Holding

Dead == {p \in Proc : pc[p] = "dead"}
Locked(inode) == \E p \in Proc : pc[p] \in Holding /\ handle[p] = inode

NoRecord == [pid |-> Nobody, role |-> "none", released |-> FALSE]

Role(p) == IF p \in Collectors THEN "gc"
           ELSE IF p \in Drivers /\ ~passing[p] THEN "driver" ELSE "applier"

(* core.run_lock.is_live, of the record a reader at the path sees.         *)
SeenRecord == IF dir = "live" /\ lockfile # 0 THEN record ELSE NoRecord
IsLive(rec, me) == rec.pid \notin Dead \cup {Nobody, me} /\ ~rec.released

(* Mutant: any named holder, a collector too, is taken to drain.           *)
DrainsAny(role) == role # "none"

Drains(role) == role \in {"driver", "applier"}

HasState == dir = "live" /\ disk # NoRun
Pending == IF dir = "live" THEN inbox ELSE {}

(* The processes that still have to look at the inbox before they finish.  *)
Owes(p) == \/ pc[p] \in Holding /\ p \notin Collectors /\ leaving[p] # "missing"
           \/ pc[p] = "handoff"
           \/ pc[p] \in Asking /\ passing[p]

Accepted == {s \in Submitters : pc[s] # "start" /\ outcome[s] # "notfound"}

-----------------------------------------------------------------------------
Init ==
  /\ dir = "live" /\ lockfile = 1 /\ inodes = 1 /\ record = NoRecord
  /\ disk \in InitialRuns /\ refs = TRUE /\ inbox = {} /\ rejected = {}
  /\ pc = [p \in Proc |-> IF p \in Submitters THEN "start" ELSE "open"]
  /\ handle = [p \in Proc |-> 0]
  /\ passing = [p \in Proc |-> FALSE]
  /\ stage = [p \in Proc |-> "entry"]
  /\ leaving = [p \in Proc |-> "normal"]
  /\ tries = [p \in Proc |-> 0] /\ waits = [p \in Proc |-> 0]
  /\ mem = [p \in Proc |-> NoRun] /\ peeked = [p \in Proc |-> {}]
  /\ current = [p \in Proc |-> Nobody] /\ okay = [p \in Proc |-> FALSE]
  /\ outcome = [s \in Submitters |-> "none"]
  /\ crashes = 0 /\ errors = 0
  /\ granted = {} /\ lapsed = {}
  /\ ran = [r \in Requests |-> 0] /\ redone = [r \in Requests |-> 0]

Goto(p, label) == pc' = [pc EXCEPT ![p] = label]

-----------------------------------------------------------------------------
(* A submitter puts its request in the inbox.  No step of the write makes  *)
(* a missing parent, so it lands in the live directory or not at all.      *)

WriteRequest(s) ==
  /\ pc[s] = "start"
  /\ IF dir = "live"
     THEN inbox' = inbox \cup {s} /\ Goto(s, "open") /\ UNCHANGED outcome
     ELSE Goto(s, "end") /\ outcome' = [outcome EXCEPT ![s] = "notfound"] /\ UNCHANGED inbox
  /\ UNCHANGED <<place, record, disk, refs, rejected, handle, passing, stage, leaving, retry,
                 session, faults, history>>

-----------------------------------------------------------------------------
(* Taking the run's lock.                                                  *)

(* What a process does when it could not open the run: `deliver` reports   *)
(* queued, pauses or gives up; a hand-off pass stops, pauses or warns; a   *)
(* driver exits; gc never waits.                                           *)
Pause(p) == waits' = [waits EXCEPT ![p] = @ + 1] /\ waits[p] < MaxWaits

Told(s, what) == outcome' = [outcome EXCEPT ![s] = what]

(* Mutant: a collector's hold is reported as such, without a pause.        *)
DeliveringBusy(p, why) ==
  /\ Told(p, IF why = "drainer" THEN "queued" ELSE "busy")
  /\ Goto(p, "end") /\ UNCHANGED waits

Delivering(p, why) ==
  CASE why = "drainer" ->
         Told(p, "queued") /\ Goto(p, "end") /\ UNCHANGED waits
    [] why = "unreachable" ->
         Told(p, "unreachable") /\ Goto(p, "end") /\ UNCHANGED waits
    [] OTHER ->
         \/ Pause(p) /\ Goto(p, "open") /\ UNCHANGED outcome
         \/ /\ waits[p] = MaxWaits /\ UNCHANGED waits /\ Goto(p, "end")
            /\ Told(p, IF why = "missing" THEN "missing" ELSE "unreachable")

HandingOff(p, why) ==
  /\ UNCHANGED outcome
  /\ CASE why = "drainer" -> Goto(p, "end") /\ UNCHANGED <<waits, lapsed>>
       [] why = "unreachable" ->
            Goto(p, "end") /\ lapsed' = lapsed \cup inbox /\ UNCHANGED waits
       [] OTHER ->
            \/ Pause(p) /\ Goto(p, "handoff") /\ UNCHANGED lapsed
            \/ /\ waits[p] = MaxWaits /\ UNCHANGED waits
               /\ Goto(p, "end") /\ lapsed' = lapsed \cup inbox

Refused(p, why) ==
  IF passing[p] THEN HandingOff(p, why)
  ELSE IF p \in Submitters THEN Delivering(p, why) /\ UNCHANGED lapsed
  ELSE Goto(p, "end") /\ UNCHANGED <<waits, outcome, lapsed>>

(* The check that the run has state, and the open of its lock file, which  *)
(* makes the file but never the directory.  A collector skips the check.   *)
Open(p) ==
  /\ pc[p] = "open"
  /\ IF dir = "live" /\ (p \in Collectors \/ disk # NoRun)
     THEN /\ IF lockfile = 0
             THEN lockfile' = inodes + 1 /\ inodes' = inodes + 1 /\ record' = NoRecord
             ELSE UNCHANGED <<lockfile, inodes, record>>
          /\ handle' = [handle EXCEPT ![p] = lockfile']
          /\ tries' = [tries EXCEPT ![p] = 0]
          /\ Goto(p, "flock")
          /\ UNCHANGED <<waits, outcome, lapsed>>
     ELSE Refused(p, "missing") /\ UNCHANGED <<lockfile, inodes, record, handle, tries>>
  /\ UNCHANGED <<dir, content, passing, stage, leaving, session, faults, granted, ran, redone>>

(* Mutant: a vacated record is taken for a free lock.                      *)
FlockByRecord(p) ==
  /\ pc[p] = "flock"
  /\ Goto(p, IF IsLive(SeenRecord, p) THEN "contend" ELSE "record")
  /\ UNCHANGED <<place, record, content, handle, passing, stage, leaving, retry, session,
                 outcome, faults, history>>

Flock(p) ==
  /\ pc[p] = "flock"
  /\ Goto(p, IF Locked(handle[p]) THEN "contend" ELSE "record")
  /\ UNCHANGED <<place, record, content, handle, passing, stage, leaving, retry, session,
                 outcome, faults, history>>

(* The refusal is read from the record some time after the flock failed.   *)
Contend(p) ==
  /\ pc[p] = "contend"
  /\ LET rec == SeenRecord IN
     IF ~IsLive(rec, p) /\ tries[p] < MaxTries
     THEN /\ tries' = [tries EXCEPT ![p] = @ + 1] /\ Goto(p, "flock")
          /\ UNCHANGED <<handle, waits, outcome, lapsed>>
     ELSE /\ Refused(p, IF ~IsLive(rec, p) THEN "unreachable"
                        ELSE IF Drains(rec.role) THEN "drainer" ELSE "gc")
          /\ handle' = [handle EXCEPT ![p] = 0]
          /\ UNCHANGED tries
  /\ UNCHANGED <<place, record, content, passing, stage, leaving, session, faults,
                 granted, ran, redone>>

WriteRecord(p) ==
  /\ pc[p] = "record"
  /\ record' = IF handle[p] = lockfile
               THEN [pid |-> p, role |-> Role(p), released |-> FALSE] ELSE record
  /\ Goto(p, IF p \in Collectors THEN "gc_load" ELSE "load")
  /\ UNCHANGED <<place, content, handle, passing, stage, leaving, retry, session,
                 outcome, faults, history>>

-----------------------------------------------------------------------------
(* An open session.                                                        *)

(* Sessions start and end every drain by listing the inbox.                *)
StartDrain(p, why) ==
  /\ peeked' = [peeked EXCEPT ![p] = Pending]
  /\ stage' = [stage EXCEPT ![p] = why]
  /\ Goto(p, "drain")

Load(p) ==
  /\ pc[p] = "load"
  /\ IF HasState
     THEN mem' = [mem EXCEPT ![p] = disk] /\ StartDrain(p, "entry") /\ UNCHANGED leaving
     ELSE /\ leaving' = [leaving EXCEPT ![p] = "missing"] /\ Goto(p, "stamp")
          /\ UNCHANGED <<mem, peeked, stage>>
  /\ UNCHANGED <<place, record, content, handle, passing, retry, current, okay, outcome,
                 faults, history>>

(* A terminal commit also drops the plan's refs, which may fail.           *)
Save(run) ==
  /\ disk' = run
  /\ refs' \in IF run.status \in Finished THEN {FALSE, refs} ELSE {refs}

ApplyNext(p) ==
  /\ pc[p] = "drain" /\ peeked[p] # {}
  /\ \E r \in DrainFirst(peeked[p]) : \E o \in ApplyOne(mem[p], r) :
       /\ mem' = [mem EXCEPT ![p] = o.run]
       /\ current' = [current EXCEPT ![p] = r]
       /\ okay' = [okay EXCEPT ![p] = o.ok]
       /\ ran' = IF o.ran THEN [ran EXCEPT ![r] = @ + 1] ELSE ran
       /\ peeked' = [peeked EXCEPT ![p] = @ \ {r}]
  /\ Goto(p, "commit")
  /\ UNCHANGED <<place, record, content, handle, passing, stage, leaving, retry, outcome,
                 faults, granted, lapsed, redone>>

(* Mutant: the commit is left to the end of the drain.                     *)
CommitLater(p) ==
  /\ pc[p] = "commit"
  /\ Goto(p, "retire")
  /\ UNCHANGED <<place, record, content, handle, passing, stage, leaving, retry, session,
                 outcome, faults, history>>

Commit(p) ==
  /\ pc[p] = "commit"
  /\ Save(mem[p])
  /\ Goto(p, "retire")
  /\ UNCHANGED <<place, record, inbox, rejected, handle, passing, stage, leaving, retry,
                 session, outcome, faults, granted, lapsed, ran, redone>>

(* Only now does the request leave the inbox: at once when it applied,     *)
(* after a copy in rejected/ when it did not.                              *)
Retire(p) ==
  /\ pc[p] = "retire"
  /\ IF okay[p]
     THEN /\ inbox' = inbox \ {current[p]} /\ granted' = granted \cup {current[p]}
          /\ Goto(p, "drain") /\ UNCHANGED rejected
     ELSE /\ rejected' = rejected \cup {current[p]} /\ Goto(p, "unlink")
          /\ UNCHANGED <<inbox, granted>>
  /\ UNCHANGED <<place, record, disk, refs, handle, passing, stage, leaving, retry, session,
                 outcome, faults, lapsed, ran, redone>>

(* Mutant: a rejected request is copied, not moved.                        *)
UnlinkForgotten(p) ==
  /\ pc[p] = "unlink"
  /\ Goto(p, "drain")
  /\ UNCHANGED <<place, record, content, handle, passing, stage, leaving, retry, session,
                 outcome, faults, history>>

Unlink(p) ==
  /\ pc[p] = "unlink"
  /\ inbox' = inbox \ {current[p]}
  /\ Goto(p, "drain")
  /\ UNCHANGED <<place, record, disk, refs, rejected, handle, passing, stage, leaving, retry,
                 session, outcome, faults, history>>

(* The end of a drain.  A scheduler's tick does not settle; the entry      *)
(* drain and finish do, and finish commits whatever is left to save.       *)
Drained(p) ==
  /\ pc[p] = "drain" /\ peeked[p] = {}
  /\ current' = [current EXCEPT ![p] = Nobody] /\ okay' = [okay EXCEPT ![p] = FALSE]
  /\ Goto(p, IF stage[p] = "tick" THEN "work" ELSE "settle")
  /\ UNCHANGED <<place, record, content, handle, passing, stage, leaving, retry, mem, peeked,
                 outcome, faults, history>>

Settle(p) ==
  /\ pc[p] = "settle"
  /\ LET run == SettleIdle(mem[p]) IN
     /\ mem' = [mem EXCEPT ![p] = run]
     /\ IF run # mem[p] \/ stage[p] = "finish" THEN Save(run) ELSE UNCHANGED <<disk, refs>>
  /\ Goto(p, IF stage[p] = "finish" THEN "stamp" ELSE "body")
  /\ UNCHANGED <<place, record, inbox, rejected, handle, passing, stage, leaving, retry,
                 peeked, current, okay, outcome, faults, history>>

-----------------------------------------------------------------------------
(* What a session does between its entry drain and its finish.             *)

(* An applier has nothing to do; a driver may be refused its items, or     *)
(* find the run finished.                                                  *)
Finish(p) ==
  /\ pc[p] = "body"
  /\ StartDrain(p, "finish")
  /\ UNCHANGED <<place, record, content, handle, passing, leaving, retry, mem, current, okay,
                 outcome, faults, history>>

Resume(p) ==
  /\ pc[p] = "body" /\ Role(p) = "driver" /\ mem[p].status \notin Finished
  /\ mem' = [mem EXCEPT ![p] = [MarkInterrupted(@) EXCEPT !.status = "running"]]
  /\ Goto(p, "loop")
  /\ UNCHANGED <<place, record, content, handle, passing, stage, leaving, retry, peeked,
                 current, okay, outcome, faults, history>>

TickDrain(p) ==
  /\ pc[p] = "loop"
  /\ StartDrain(p, "tick")
  /\ UNCHANGED <<place, record, content, handle, passing, leaving, retry, mem, current, okay,
                 outcome, faults, history>>

Work(p) ==
  /\ pc[p] = "work"
  /\ \E run \in Ticked(mem[p]) : mem' = [mem EXCEPT ![p] = run] /\ Save(run)
  /\ Goto(p, "blocked")
  /\ UNCHANGED <<place, record, inbox, rejected, handle, passing, stage, leaving, retry,
                 peeked, current, okay, outcome, faults, history>>

Blocked(p) ==
  /\ pc[p] = "blocked"
  /\ LET run == [mem[p] EXCEPT !.status = BlockedStatus(mem[p], Pending)] IN
     IF run.status = "running"
     THEN Goto(p, "loop") /\ UNCHANGED <<disk, refs, mem, peeked, stage>>
     ELSE Save(run) /\ mem' = [mem EXCEPT ![p] = run] /\ StartDrain(p, "finish")
  /\ UNCHANGED <<place, record, inbox, rejected, handle, passing, leaving, retry,
                 current, okay, outcome, faults, history>>

-----------------------------------------------------------------------------
(* Letting go: the record is stamped while the flock is still held.        *)

(* Mutant: an exceptional exit skips the stamp.                            *)
NoteReleaseWhenNormal(p) ==
  /\ pc[p] = "stamp"
  /\ record' = IF dir = "live" /\ handle[p] = lockfile /\ leaving[p] = "normal"
               THEN [record EXCEPT !.released = TRUE] ELSE record
  /\ Goto(p, "unlock")
  /\ UNCHANGED <<place, content, handle, passing, stage, leaving, retry, session, outcome,
                 faults, history>>

NoteRelease(p) ==
  /\ pc[p] = "stamp"
  /\ record' = IF dir = "live" /\ handle[p] = lockfile
               THEN [record EXCEPT !.released = TRUE] ELSE record
  /\ Goto(p, "unlock")
  /\ UNCHANGED <<place, content, handle, passing, stage, leaving, retry, session, outcome,
                 faults, history>>

CloseSession(p) ==
  /\ handle' = [handle EXCEPT ![p] = 0]
  /\ mem' = [mem EXCEPT ![p] = NoRun] /\ peeked' = [peeked EXCEPT ![p] = {}]
  /\ current' = [current EXCEPT ![p] = Nobody] /\ okay' = [okay EXCEPT ![p] = FALSE]
  /\ stage' = [stage EXCEPT ![p] = "entry"]
  /\ leaving' = [leaving EXCEPT ![p] = "normal"]

(* After a normal exit a drainer looks at the inbox once more; `deliver`   *)
(* reports what its own session applied.                                   *)
Unlock(p) ==
  /\ pc[p] = "unlock"
  /\ CloseSession(p)
  /\ CASE leaving[p] = "missing" -> Refused(p, "missing")
       [] leaving[p] = "raised" ->
            Goto(p, "end") /\ lapsed' = lapsed \cup inbox /\ UNCHANGED <<waits, outcome>>
       [] leaving[p] = "normal" /\ p \in Collectors ->
            Goto(p, "end") /\ UNCHANGED <<waits, outcome, lapsed>>
       [] OTHER ->
            /\ Goto(p, "handoff")
            /\ waits' = IF passing[p] THEN waits ELSE [waits EXCEPT ![p] = 0]
            /\ outcome' = IF p \in Submitters /\ ~passing[p]
                          THEN [outcome EXCEPT ![p] = "here"] ELSE outcome
            /\ UNCHANGED lapsed
  /\ UNCHANGED <<place, record, content, passing, tries, faults, granted, ran, redone>>

(* Mutant: nobody looks at the inbox after the release.                    *)
HandOffNever(p) ==
  /\ pc[p] = "handoff"
  /\ Goto(p, "end")
  /\ UNCHANGED <<place, record, content, handle, passing, stage, leaving, retry, session,
                 outcome, faults, history>>

HandOff(p) ==
  /\ pc[p] = "handoff"
  /\ IF Pending = {}
     THEN Goto(p, "end") /\ UNCHANGED passing
     ELSE Goto(p, "open") /\ passing' = [passing EXCEPT ![p] = TRUE]
  /\ UNCHANGED <<place, record, content, handle, stage, leaving, retry, session, outcome,
                 faults, history>>

-----------------------------------------------------------------------------
(* `pr gc` removing a finished run.                                        *)

(* Whether a finished run is old enough to go is left open.                *)
GcLoad(p) ==
  /\ pc[p] = "gc_load"
  /\ \/ /\ HasState /\ Pending = {} /\ disk.status \in Finished
        /\ Goto(p, "gc_rename")
     \/ Goto(p, "stamp")
  /\ UNCHANGED <<place, record, content, handle, passing, stage, leaving, retry, session,
                 outcome, faults, history>>

GcRename(p) ==
  /\ pc[p] = "gc_rename"
  /\ IF dir = "live" THEN dir' = "tomb" /\ Goto(p, "gc_scan")
                     ELSE UNCHANGED dir /\ Goto(p, "stamp")
  /\ UNCHANGED <<lockfile, inodes, record, content, handle, passing, stage, leaving, retry,
                 session, outcome, faults, history>>

(* Mutant: the inbox is looked up by run id, where the rename hid it.      *)
GcScanByRunId(p) ==
  /\ pc[p] = "gc_scan"
  /\ IF Pending # {} THEN dir' = "live" /\ Goto(p, "stamp")
                     ELSE UNCHANGED dir /\ Goto(p, "gc_refs")
  /\ UNCHANGED <<lockfile, inodes, record, content, handle, passing, stage, leaving, retry,
                 session, outcome, faults, history>>

(* A request that beat the rename brings the directory back.               *)
GcScan(p) ==
  /\ pc[p] = "gc_scan"
  /\ IF inbox # {} THEN dir' = "live" /\ Goto(p, "stamp")
                   ELSE UNCHANGED dir /\ Goto(p, "gc_refs")
  /\ UNCHANGED <<lockfile, inodes, record, content, handle, passing, stage, leaving, retry,
                 session, outcome, faults, history>>

GcDropRefs(p) ==
  /\ pc[p] = "gc_refs"
  /\ \/ refs' = FALSE /\ Goto(p, "gc_rmtree") /\ UNCHANGED dir
     \/ refs /\ dir' = "live" /\ Goto(p, "stamp") /\ UNCHANGED refs
  /\ UNCHANGED <<lockfile, inodes, record, disk, inbox, rejected, handle, passing, stage,
                 leaving, retry, session, outcome, faults, history>>

GcRemove(p) ==
  /\ pc[p] = "gc_rmtree"
  /\ dir' = "gone" /\ lockfile' = 0 /\ disk' = NoRun /\ inbox' = {} /\ rejected' = {}
  /\ Goto(p, "stamp")
  /\ UNCHANGED <<inodes, record, refs, handle, passing, stage, leaving, retry, session,
                 outcome, faults, history>>

(* A removal that stops part way puts back what it left of the directory.  *)
GcRemoveFails(p) ==
  /\ pc[p] = "gc_rmtree"
  /\ dir' = "live"
  /\ \E kept \in Survivors :
       /\ lockfile' = IF "lock" \in kept THEN lockfile ELSE 0
       /\ disk' = IF "state" \in kept THEN disk ELSE NoRun
  /\ Goto(p, "stamp")
  /\ UNCHANGED <<inodes, record, refs, inbox, rejected, handle, passing, stage, leaving, retry,
                 session, outcome, faults, history>>

-----------------------------------------------------------------------------
(* Faults.  The kernel frees the flock of a killed process; its record     *)
(* stays as it was.                                                        *)

(* A command already run whose request will be drained again.              *)
InVain(p, kept) ==
  LET lost == (pc[p] = "commit" /\ ~kept)
                \/ (pc[p] \in {"commit", "retire", "unlink"} /\ ~okay[p])
  IN  redone' = IF lost THEN [redone EXCEPT ![current[p]] = @ + 1] ELSE redone

Crash(p) ==
  /\ pc[p] \notin {"start", "end", "dead"} /\ crashes < MaxCrashes
  /\ crashes' = crashes + 1
  /\ Goto(p, "dead") /\ CloseSession(p)
  /\ lapsed' = IF Owes(p) THEN lapsed \cup inbox ELSE lapsed
  /\ InVain(p, FALSE)
  /\ UNCHANGED <<place, record, content, passing, retry, outcome, errors, granted, ran>>

Ticking(p) == pc[p] \in {"loop", "work", "blocked"} \/ (pc[p] \in Draining /\ stage[p] = "tick")

(* An error or Ctrl-C in the scheduler's loop marks what was running and   *)
(* saves the run before the session is left.                               *)
Interrupt(p) ==
  /\ Ticking(p) /\ errors < MaxErrors
  /\ errors' = errors + 1
  /\ LET status == IF mem[p].cancel # "none" THEN "cancelled" ELSE "interrupted"
         run == [MarkInterrupted(mem[p]) EXCEPT !.status = status]
     IN  mem' = [mem EXCEPT ![p] = run] /\ Save(run)
  /\ leaving' = [leaving EXCEPT ![p] = "raised"] /\ Goto(p, "stamp")
  /\ InVain(p, TRUE)
  /\ UNCHANGED <<place, record, inbox, rejected, handle, passing, stage, retry, peeked,
                 current, okay, outcome, crashes, granted, lapsed, ran>>

(* An error anywhere else in a session releases and saves nothing.         *)
Raise(p) ==
  /\ pc[p] \in Draining \cup {"body"} /\ ~Ticking(p) /\ errors < MaxErrors
  /\ errors' = errors + 1
  /\ leaving' = [leaving EXCEPT ![p] = "raised"] /\ Goto(p, "stamp")
  /\ InVain(p, FALSE)
  /\ UNCHANGED <<place, record, content, handle, passing, stage, retry, session, outcome,
                 crashes, granted, lapsed, ran>>

-----------------------------------------------------------------------------
Locking(p) == Open(p) \/ Flock(p) \/ Contend(p) \/ WriteRecord(p)
InRun(p) ==
  \/ Load(p) \/ ApplyNext(p) \/ Commit(p) \/ Retire(p) \/ Unlink(p) \/ Drained(p) \/ Settle(p)
  \/ Finish(p) \/ Resume(p) \/ TickDrain(p) \/ Work(p) \/ Blocked(p)
Leaving(p) == NoteRelease(p) \/ Unlock(p) \/ HandOff(p)
Collecting(p) ==
  GcLoad(p) \/ GcRename(p) \/ GcScan(p) \/ GcDropRefs(p) \/ GcRemove(p) \/ GcRemoveFails(p)

Step(p) == \/ p \in Submitters /\ WriteRequest(p)
           \/ Locking(p) \/ InRun(p) \/ Leaving(p) \/ Collecting(p)

Fault(p) == Crash(p) \/ Interrupt(p) \/ Raise(p)

AllOver == (\A p \in Proc : pc[p] \in {"end", "dead"}) /\ UNCHANGED vars

Next == (\E p \in Proc : Step(p) \/ Fault(p)) \/ AllOver

Spec == Init /\ [][Next]_vars

(* Every process that is not killed keeps running.                         *)
FairSpec == Spec /\ \A p \in Proc : WF_vars(Step(p))

-----------------------------------------------------------------------------
(* Properties.                                                             *)

(* Every variable keeps its type.                                          *)
TypeOK ==
  /\ dir \in {"live", "tomb", "gone"} /\ lockfile \in Nat /\ inodes \in Nat
  /\ record \in [pid : Proc \cup {Nobody}, role : {"none", "driver", "applier", "gc"},
                 released : BOOLEAN]
  /\ disk \in Runs \cup {NoRun} /\ refs \in BOOLEAN
  /\ inbox \subseteq Requests /\ rejected \subseteq Requests
  /\ pc \in [Proc -> PCs] /\ handle \in [Proc -> Nat] /\ passing \in [Proc -> BOOLEAN]
  /\ stage \in [Proc -> {"entry", "tick", "finish"}]
  /\ leaving \in [Proc -> {"normal", "raised", "missing"}]
  /\ tries \in [Proc -> Nat] /\ waits \in [Proc -> Nat]
  /\ mem \in [Proc -> Runs \cup {NoRun}] /\ peeked \in [Proc -> SUBSET Requests]
  /\ current \in [Proc -> Requests \cup {Nobody}] /\ okay \in [Proc -> BOOLEAN]
  /\ outcome \in [Submitters -> {"none", "notfound", "queued", "here", "missing", "unreachable"}]
  /\ crashes \in Nat /\ errors \in Nat
  /\ granted \subseteq Requests /\ lapsed \subseteq Requests
  /\ ran \in [Requests -> Nat] /\ redone \in [Requests -> Nat]

(* state.json is written by one session at a time: no two processes are    *)
(* inside the run at once (a collector counts as inside).                  *)
Exclusive == \A p, q \in Proc : pc[p] \in InSession /\ pc[q] \in InSession => p = q

(* A record that reads as live names the process holding the flock, so a   *)
(* submitter told "queued" was refused by a holder that is still there.    *)
LiveRecordIsHolder ==
  IsLive(SeenRecord, Nobody) => pc[SeenRecord.pid] \in Holding /\ handle[SeenRecord.pid] = lockfile

(* A request reported queued and still in the inbox has somebody who will  *)
(* look at the inbox again, unless that somebody failed after it arrived.  *)
QueuedIsCarried ==
  \A s \in Submitters :
    s \in inbox \ lapsed /\ outcome[s] = "queued" => \E p \in Proc : Owes(p)

(* A submitter that opened the run itself leaves no request of its own.    *)
DeliveredHere == \A s \in Submitters : outcome[s] = "here" => s \notin inbox

(* A command behind a decision runs again only for an attempt whose result *)
(* was never both saved and retired.                                       *)
RunsOnce == \A r \in Requests : ran[r] <= 1 + redone[r]

(* A removed run leaves none of its refs behind.                           *)
GoneHasNoRefs == dir = "gone" => ~refs

(* A request leaves the inbox only once it was applied or rejected: no     *)
(* removal of the run, whatever it races with, takes a written request.    *)
LeavesSettled == [][\A r \in inbox \ inbox' : r \in granted' \cup rejected']_vars

(* A request is dropped as applied only when state.json already shows it.  *)
GrantedIsSaved == [][\A r \in granted' \ granted : Effect(disk, r)]_vars

(* What state.json settled stays settled: no later session, driver or      *)
(* replay takes back a resolution, a cancel or the end of the run.         *)
SavedIsKept == [][disk # NoRun /\ disk' # NoRun => Keeps(disk, disk')]_vars

(* A queued request is eventually retired, unless its holder failed.       *)
QueuedIsRetired ==
  \A s \in Submitters : (outcome[s] = "queued") ~> (s \notin inbox \/ s \in lapsed)

(* What the scheduler says of a release: its item is not queued again.     *)
ReleasedStaysDropped ==
  [][disk # NoRun /\ disk' # NoRun => KeepsTerminal(disk, disk')]_vars
=============================================================================
