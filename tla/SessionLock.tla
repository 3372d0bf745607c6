----------------------------- MODULE SessionLock -----------------------------
(***************************************************************************)
(* Which sessions edit a worktree: the record of core/session_lock.py, the *)
(* hooks that write it (ai/claude/bin/claude-session-lock and the Pi       *)
(* extension session-lock) and the fix pass that asks before it commits    *)
(* (fix/engine.py).                                                        *)
(*                                                                         *)
(* A record names a harness process by pid and start time.  A hook is a    *)
(* process of its own: it reads the file, asks `ps` about every record,    *)
(* writes a temporary file of a fixed name and renames it.  Nothing keeps  *)
(* two hooks apart; Overlap says whether two may run at once.              *)
(***************************************************************************)
EXTENDS Naturals, FiniteSets

CONSTANTS
  Sessions,   \* harness processes; each starts once
  Claude,     \* those of Claude Code: a refresh precedes every edit
  Pid(_),     \* the pid of a session; two that never live together may share one
  Id(_),      \* the session id in its record, "" for none
  Prefix,     \* pairs <<p, q>> where the text of pid p begins that of q
  Overlap,    \* whether hooks of two sessions run at once
  PsFails,    \* bound: how often `ps` does not answer about a live process
  Clears      \* bound: how often a session is cleared or reloaded

\* What the constants may be: whoever instantiates this module assumes it.
SessionLockConstants ==
  /\ IsFiniteSet(Sessions) /\ Claude \subseteq Sessions
  /\ Overlap \in BOOLEAN /\ PsFails \in Nat /\ Clears \in Nat

Inodes == 1 .. 2 + Cardinality(Sessions)

VARIABLES
  on,        \* the sessions that live
  seen,      \* the sessions that have started
  hook,      \* per session: [pc, op, text, fd]; op also says what follows it
  name,      \* the inode behind "lock" and behind "tmp", 0 for none
  disk,      \* per inode: [recs, whole]
  claimed,   \* ghost: sessions whose acquire said True and that released nothing since
  pass,      \* the fix pass: [pc, owner, text, claims, ghost]
  ps,        \* failures of `ps` left
  clears     \* clears left

vars == <<on, seen, hook, name, disk, claimed, pass, ps, clears>>

Idle == [pc |-> "none", op |-> "none", text |-> {}, fd |-> 0]
Blank == [recs |-> {}, whole |-> FALSE]

Init ==
  /\ on = {} /\ seen = {} /\ claimed = {}
  /\ hook = [s \in Sessions |-> Idle]
  /\ name = [lock |-> 0, tmp |-> 0]
  /\ disk = [i \in Inodes |-> Blank]
  /\ pass = [pc |-> "idle", owner |-> "nobody", text |-> {}, claims |-> {}, ghost |-> FALSE]
  /\ ps = PsFails /\ clears = Clears

File == IF name.lock = 0 THEN {} ELSE disk[name.lock].recs
At(s, at) == hook' = [hook EXCEPT ![s].pc = at]
Rest == hook' = hook
Calm == \A s \in Sessions : hook[s].pc = "none"

-----------------------------------------------------------------------------
(* `_alive`: the process exists and started when the record says.          *)

\* Mutant: the process exists.
AliveByPid(r, lost) == r \notin lost /\ \E s \in on : Pid(s) = Pid(r)

Alive(r, lost) == r \in on \ lost

\* What `ps` says nothing about, out of what is asked.
Unanswered(asked) == {{}} \cup {{r} : r \in IF ps > 0 THEN asked \cap on ELSE {}}
Asked(lost) == ps' = ps - Cardinality(lost)

-----------------------------------------------------------------------------
(* The sessions.                                                           *)

Starts(s, op) == hook' = [hook EXCEPT ![s] = [Idle EXCEPT !.pc = IF op = "refresh" THEN "look" ELSE "read", !.op = op]]

Begin(s) ==
  /\ s \notin seen
  /\ \A t \in on : Pid(t) # Pid(s)
  /\ \A t \in Sessions : Pid(t) = Pid(s) => hook[t].pc = "none"
  /\ on' = on \cup {s} /\ seen' = seen \cup {s}
  /\ Starts(s, "acquire")
  /\ UNCHANGED <<name, disk, claimed, pass, ps, clears>>

\* Claude's /clear releases and goes on; Pi's /reload releases and claims again.
Clear(s) ==
  /\ s \in on /\ hook[s].pc = "none" /\ clears > 0
  /\ clears' = clears - 1 /\ claimed' = claimed \ {s}
  /\ Starts(s, IF s \in Claude THEN "release" ELSE "reload")
  /\ UNCHANGED <<on, seen, name, disk, pass, ps>>

Edit(s) ==
  /\ s \in on \cap Claude /\ hook[s].pc = "none" /\ Starts(s, "refresh")
  /\ UNCHANGED <<on, seen, name, disk, claimed, pass, ps, clears>>

End(s) ==
  /\ s \in on /\ hook[s].pc = "none"
  /\ claimed' = claimed \ {s} /\ Starts(s, "end")
  /\ UNCHANGED <<on, seen, name, disk, pass, ps, clears>>

\* The session is killed; a hook of it may die with it at any step.
Kill(s) ==
  /\ s \in on /\ on' = on \ {s} /\ claimed' = claimed \ {s}
  /\ \/ hook' = [hook EXCEPT ![s] = Idle]
     \/ Rest
  /\ UNCHANGED <<seen, name, disk, pass, ps, clears>>

-----------------------------------------------------------------------------
(* A hook.                                                                 *)

Still == UNCHANGED <<seen, pass, clears>>

\* What follows a hook that is done: a reload claims, an end ends.
After(s) ==
  /\ hook' = [hook EXCEPT ![s] = IF @.op = "reload" THEN [Idle EXCEPT !.pc = "read", !.op = "acquire"] ELSE Idle]
  /\ on' = IF hook[s].op = "end" THEN on \ {s} ELSE on

\* Mutant: any holder will do.
ListedAny(s, recs) == recs # {}

\* `--refresh`: the holders are listed, and the pid is looked for as text.
Listed(s, recs) == \E r \in recs : Pid(r) = Pid(s) \/ <<Pid(s), Pid(r)>> \in Prefix

Look(s) ==
  /\ hook[s].pc = "look"
  /\ \E lost \in Unanswered(File) :
       /\ Asked(lost)
       /\ IF Listed(s, {r \in File : Alive(r, lost)})
          THEN hook' = [hook EXCEPT ![s] = Idle]
          ELSE hook' = [hook EXCEPT ![s].pc = "read", ![s].op = "acquire"]
  /\ UNCHANGED <<on, name, disk, claimed>> /\ Still

\* `holders`: the file is read ...
Read(s) ==
  /\ hook[s].pc = "read"
  /\ Overlap \/ \A t \in Sessions \ {s} : hook[t].pc \in {"none", "look", "read"}
  /\ IF hook[s].op # "acquire" /\ name.lock = 0
     THEN After(s)
     ELSE hook' = [hook EXCEPT ![s].pc = "ask", ![s].text = File] /\ UNCHANGED on
  /\ UNCHANGED <<name, disk, claimed, ps>> /\ Still

\* Mutant: a release takes the whole file with it.
AskToDrop(s, lost) == {}

\* ... and what is not this pid's and alive is kept.
Kept(s, lost) == {r \in hook[s].text : Alive(r, lost) /\ Pid(r) # Pid(s)}

Ask(s) ==
  /\ hook[s].pc = "ask"
  /\ \E lost \in Unanswered(hook[s].text) :
       /\ Asked(lost)
       /\ LET keep == Kept(s, lost) IN
            IF hook[s].op = "acquire"
            THEN hook' = [hook EXCEPT ![s].pc = IF s \in on THEN "open" ELSE "none", ![s].text = keep \cup {s}]
            ELSE hook' = [hook EXCEPT ![s].pc = IF keep = {} THEN "unlink" ELSE "open", ![s].text = keep]
  /\ UNCHANGED <<on, name, disk, claimed>> /\ Still

Unlink(s) ==
  /\ hook[s].pc = "unlink" /\ name' = [name EXCEPT !.lock = 0] /\ After(s)
  /\ UNCHANGED <<disk, claimed, ps>> /\ Still

Unused == {i \in Inodes : i # name.lock /\ i # name.tmp /\ \A t \in Sessions : hook[t].fd # i}
Fresh == CHOOSE i \in Unused : \A j \in Unused : i <= j

\* Mutant: the record is opened itself.
OpenInPlace(s) ==
  /\ hook[s].pc = "open"
  /\ LET i == IF name.lock = 0 THEN Fresh ELSE name.lock IN
       /\ name' = [lock |-> i, tmp |-> i] /\ disk' = [disk EXCEPT ![i] = Blank]
       /\ hook' = [hook EXCEPT ![s].pc = "write", ![s].fd = i]
  /\ UNCHANGED <<on, claimed, ps>> /\ Still

\* `_write`: a temporary file of one name for all, truncated when it exists.
Open(s) ==
  /\ hook[s].pc = "open"
  /\ LET i == IF name.tmp = 0 THEN Fresh ELSE name.tmp IN
       /\ name' = [name EXCEPT !.tmp = i] /\ disk' = [disk EXCEPT ![i] = Blank]
       /\ hook' = [hook EXCEPT ![s].pc = "write", ![s].fd = i]
  /\ UNCHANGED <<on, claimed, ps>> /\ Still

\* Text over another hook's text leaves the tail of the longer one.
Write(s) ==
  /\ hook[s].pc = "write"
  /\ \E w \in BOOLEAN : disk' = [disk EXCEPT ![hook[s].fd] =
       [recs |-> hook[s].text, whole |-> @.recs = {} \/ w]]
  /\ At(s, "replace")
  /\ UNCHANGED <<on, name, claimed, ps>> /\ Still

Replace(s) ==
  /\ hook[s].pc = "replace"
  /\ IF name.tmp = 0
     THEN At(s, "clean") /\ UNCHANGED <<on, name, claimed>>
     ELSE /\ name' = [lock |-> name.tmp, tmp |-> 0] /\ After(s)
          /\ claimed' = IF hook[s].op = "acquire" THEN (claimed \cup {s}) \cap on ELSE claimed
  /\ UNCHANGED <<disk, ps>> /\ Still

\* The rename failed: the temporary file is removed, whosever it is by now.
Clean(s) ==
  /\ hook[s].pc = "clean" /\ name' = [name EXCEPT !.tmp = 0] /\ After(s)
  /\ UNCHANGED <<disk, claimed, ps>> /\ Still

-----------------------------------------------------------------------------
(* The fix pass, started by hand, by a scheduler or from inside a session. *)

Nothing == UNCHANGED <<on, seen, hook, name, disk, claimed, clears>>

PassReads ==
  /\ pass.pc = "idle"
  /\ \E o \in on \cup {"nobody"} :
       pass' = [pass EXCEPT !.pc = "asks", !.owner = o, !.text = File,
                            !.claims = {s \in claimed : hook[s].pc = "none"}]
  /\ UNCHANGED ps /\ Nothing

\* Mutant: two records without an id are of one session.
ExemptBlank(o, r) ==
  IF o = "nobody" THEN Id(r) = "" ELSE Pid(o) = Pid(r) \/ Id(o) = Id(r)

\* Its own session: among its ancestors, or by the id in its environment.
Exempt(o, r) == o # "nobody" /\ (Pid(o) = Pid(r) \/ (Id(o) # "" /\ Id(o) = Id(r)))

PassAsks ==
  /\ pass.pc = "asks"
  /\ \E lost \in Unanswered(pass.text) :
       /\ Asked(lost)
       /\ LET held == {r \in pass.text : Alive(r, lost) /\ ~Exempt(pass.owner, r)} IN
            pass' = [pass EXCEPT !.pc = IF held = {} THEN "works" ELSE "refused",
                                 !.ghost = held \ on # {},
                                 !.claims = {s \in @ \cap on : ~(pass.owner # "nobody" /\ Pid(s) = Pid(pass.owner))}]
  /\ Nothing

PassCommits ==
  /\ pass.pc = "works" /\ pass' = [pass EXCEPT !.pc = "committed"]
  /\ UNCHANGED ps /\ Nothing

-----------------------------------------------------------------------------
Hook(s) ==
  \/ Look(s) \/ Read(s) \/ Ask(s) \/ Unlink(s) \/ Open(s) \/ Write(s) \/ Replace(s) \/ Clean(s)

Next ==
  \/ \E s \in Sessions : Begin(s) \/ Clear(s) \/ Edit(s) \/ End(s) \/ Kill(s)
  \/ \E s \in Sessions : Hook(s)
  \/ PassReads \/ PassAsks \/ PassCommits

Spec == Init /\ [][Next]_vars

\* A hook that runs goes on, and gets its turn where turns are taken; a
\* session of Claude goes on editing until it ends.
FairSpec ==
  /\ Spec
  /\ \A s \in Sessions : SF_vars(Hook(s))
  /\ \A s \in Claude : WF_vars(Edit(s))

-----------------------------------------------------------------------------
TypeOK ==
  /\ on \subseteq seen /\ seen \subseteq Sessions /\ claimed \subseteq on
  /\ \A s \in Sessions :
       /\ hook[s].pc \in {"none", "look", "read", "ask", "unlink", "open", "write", "replace", "clean"}
       /\ hook[s].op \in {"none", "acquire", "release", "reload", "refresh", "end"}
       /\ hook[s].text \subseteq Sessions /\ hook[s].fd \in Inodes \cup {0}
  /\ name.lock \in Inodes \cup {0} /\ name.tmp \in Inodes \cup {0}
  /\ name.lock # 0 => name.lock # name.tmp
  /\ \A i \in Inodes : disk[i].recs \subseteq Sessions
  /\ pass.pc \in {"idle", "asks", "works", "refused", "committed"}
  /\ ps \in 0 .. PsFails /\ clears \in 0 .. Clears

\* A session whose acquire answered True stays on record until it releases or
\* dies, whatever other hooks write, and wherever one of them is killed.
ClaimHolds == \A s \in claimed : hook[s].pc = "none" => s \in File

\* No reader sees a record file half-written.
FileIsWhole == name.lock # 0 => disk[name.lock].whole

\* A pass goes on only when no session of another's stood on record from
\* before its look to the end of it.
PassHeeds == pass.pc \in {"works", "committed"} => pass.claims = {}

\* No pass is refused for a session that was gone when it asked.
NoGhost == ~pass.ghost

\* A session of Claude that goes on editing is on record in the end for good,
\* after clears, failing lookups and killed hooks.
EditingIsRecorded == \A s \in Claude : <>[](s \in on => s \in File)

-----------------------------------------------------------------------------
(* What the sources say and the code does not do.                          *)

\* session_lock.py:17: a person is editing here, so an unattended pass must
\* not commit.
CommitIsAlone ==
  [][pass'.pc = "committed" /\ pass.pc # "committed" => \A s \in claimed : Exempt(pass.owner, s)]_vars

\* session_lock.py, `acquire`: dead records are pruned, live ones are not.
LiveIsKept == [][\A s \in File : s \in on /\ s \in on' /\ hook[s].pc = "none" => s \in File']_vars
=============================================================================
