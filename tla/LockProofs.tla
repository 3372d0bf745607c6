----------------------------- MODULE LockProofs -----------------------------
(***************************************************************************)
(* What holds of the locks of a checkout for any number of processes,      *)
(* scopes, sessions, guards and plans: the holder records of RunLock, the  *)
(* sessions on record of SessionLock, the validators of TreeLock, the      *)
(* claims of BatchClaims.  Each part has an inductive invariant of its     *)
(* own; the others' steps leave its variables alone.                       *)
(***************************************************************************)
EXTENDS CheckoutLocks, Sequences, FiniteSetTheorems, TLAPS

LEMMA OnePartMoves ==
  [Next]_vars =>
    /\ [Run!Next]_Run!vars /\ [Session!Next]_Session!vars
    /\ [Tree!Next]_Tree!vars /\ [Claims!Next]_Claims!vars
BY DEF Next, vars, runVars, sessionVars, treeVars, claimVars, Run!vars, Run!files,
       Run!registry, Run!tree, Session!vars, Tree!vars, Claims!vars

LEMMA EveryPartStarts == Init => Run!Init /\ Session!Init /\ Tree!Init /\ Claims!Init
BY DEF Init
-----------------------------------------------------------------------------
(* RunLock: the holder record and the flock of one scope.                  *)

RunPCs == {"off", "over", "killed", "taking", "recording", "contended", "working",
           "waiting", "dropping"}
HolderRecords == [pid : Processes \cup {None}, released : BOOLEAN]

RunTypes ==
  /\ runFlock \in [Locks -> Processes \cup {None, Prober}]
  /\ record \in [Locks -> HolderRecords]
  /\ runPc \in [Processes -> RunPCs]
  /\ depth \in [Processes -> [Locks -> Nat]]
  /\ DOMAIN want = Processes /\ DOMAIN mine = Processes

(* Whoever counts on a lock has its flock; whoever is about to say so in   *)
(* the record has it already.                                              *)
CountedIsHeld ==
  \A p \in Processes :
    /\ \A l \in Locks : depth[p][l] > 0 => runFlock[l] = p
    /\ \A l \in Locks : runPc[p] = "recording" /\ Head(want[p]) = l => runFlock[l] = p

(* A process that has not begun is named by no record, so none of them     *)
(* comes to life by its start.                                             *)
OffIsUnnamed == \A p \in Processes : runPc[p] = "off" => \A l \in Locks : record[l].pid # p

RunInv == RunTypes /\ CountedIsHeld /\ OffIsUnnamed /\ Run!RecordIsTrue

LEMMA RunInit == Run!LockAssumption /\ Run!Init => RunInv
BY DEF Run!LockAssumption, Run!Init, Run!Unwritten, RunInv, RunTypes, RunPCs, HolderRecords,
       CountedIsHeld, OffIsUnnamed, Run!RecordIsTrue, Run!Alive

(* A step that takes no lock, drops none and writes no record: what is     *)
(* left to say is who is alive and who is about to write.                  *)
LEMMA RunQuietStep ==
  ASSUME RunInv, UNCHANGED Run!files, depth' = depth, NEW p \in Processes,
         NEW at \in RunPCs \ {"off", "recording"}, runPc[p] \notin {"over", "killed"},
         runPc' = [runPc EXCEPT ![p] = at],
         DOMAIN want' = Processes, DOMAIN mine' = Processes, \A q \in Processes \ {p} : want'[q] = want[q]
  PROVE  RunInv'
<1> USE DEF RunInv, RunTypes
<1>1. RunTypes'
  BY DEF Run!files
<1>2. CountedIsHeld'
  BY DEF CountedIsHeld, Run!files
<1>3. OffIsUnnamed'
  BY DEF OffIsUnnamed, Run!files
<1>4. Run!RecordIsTrue'
  BY DEF Run!RecordIsTrue, Run!Alive, Run!Gone, Run!files, OffIsUnnamed, RunPCs
<1> QED BY <1>1, <1>2, <1>3, <1>4

LEMMA RunStep ==
  ASSUME Run!LockAssumption, RunInv, [Run!Next]_Run!vars PROVE RunInv'
<1> USE DEF RunInv, RunTypes, Run!Gone, RunPCs
<1>1. ASSUME NEW p \in Processes, Run!Launch(p) PROVE RunInv'
  <2>1. PICK scopes \in SUBSET Locks : Run!Begin(p, scopes, {}, None)
    BY <1>1 DEF Run!Launch
  <2> QED BY <1>1, <2>1, RunQuietStep DEF Run!Launch, Run!Begin
<1>2. ASSUME NEW p \in Processes, NEW q \in Processes, Run!Spawn(p, q) PROVE RunInv'
  <2>1. PICK scopes \in SUBSET Locks : Run!Begin(q, scopes, Run!Exported(p), p)
    BY <1>2 DEF Run!Spawn
  <2>2. /\ runPc[p] = "working" /\ runPc[q] = "off" /\ UNCHANGED Run!files /\ depth' = depth
        /\ runPc' = [runPc EXCEPT ![p] = "waiting", ![q] = "taking"]
        /\ DOMAIN want' = Processes /\ mine' = mine
        /\ \A r \in Processes \ {q} : want'[r] = want[r]
    BY <1>2, <2>1 DEF Run!Spawn, Run!Begin
  <2>3. RunTypes'
    BY <2>2 DEF Run!files
  <2>4. CountedIsHeld'
    BY <2>2 DEF CountedIsHeld, Run!files
  <2>5. OffIsUnnamed'
    BY <2>2 DEF OffIsUnnamed, Run!files
  <2>6. Run!RecordIsTrue'
    BY <2>2 DEF Run!RecordIsTrue, Run!Alive, Run!files, OffIsUnnamed
  <2> QED BY <2>3, <2>4, <2>5, <2>6
<1>3. ASSUME NEW p \in Processes, Run!Wait(p) PROVE RunInv'
  BY <1>3, RunQuietStep DEF Run!Wait, Run!registry
<1>4. ASSUME NEW p \in Processes, Run!TakeCounted(p) PROVE RunInv'
  <2>1. /\ depth' = [depth EXCEPT ![p][Head(want[p])] = @ + 1]
        /\ Head(want[p]) \in Locks /\ depth[p][Head(want[p])] > 0
        /\ runPc[p] = "taking" /\ UNCHANGED Run!files /\ runPc' = runPc
        /\ DOMAIN want' = Processes /\ DOMAIN mine' = Processes
        /\ \A q \in Processes \ {p} : want'[q] = want[q]
    BY <1>4 DEF Run!TakeCounted, Run!Taken, Run!Held
  <2>2. RunTypes'
    BY <2>1 DEF Run!files
  <2>3. CountedIsHeld'
    BY <2>1 DEF CountedIsHeld, Run!files
  <2> QED BY <2>1, <2>2, <2>3 DEF OffIsUnnamed, Run!RecordIsTrue, Run!Alive, Run!files
<1>5. ASSUME NEW p \in Processes, Run!TakePassed(p) PROVE RunInv'
  <2>1. /\ runPc[p] = "taking" /\ UNCHANGED Run!files /\ runPc' = runPc /\ depth' = depth
        /\ DOMAIN want' = Processes /\ mine' = mine /\ \A q \in Processes \ {p} : want'[q] = want[q]
    BY <1>5 DEF Run!TakePassed, Run!Taken
  <2> QED BY <2>1, RunQuietStep
<1>6. ASSUME NEW p \in Processes, Run!ClaimGets(p) PROVE RunInv'
  <2> DEFINE l == Head(want[p])
  <2>1. /\ runPc[p] = "taking" /\ runFlock[l] = None /\ runFlock' = [runFlock EXCEPT ![l] = p]
        /\ runPc' = [runPc EXCEPT ![p] = "recording"] /\ UNCHANGED <<record, want, mine, depth>>
    BY <1>6 DEF Run!ClaimGets, Run!Claims, Run!Free, Run!registry
  <2>2. None \notin Processes
    BY DEF Run!LockAssumption
  <2>3. RunTypes'
    BY <2>1
  <2>4. CountedIsHeld'
    BY <2>1, <2>2 DEF CountedIsHeld
  <2>5. OffIsUnnamed'
    BY <2>1 DEF OffIsUnnamed
  <2>6. Run!RecordIsTrue'
    BY <2>1, <2>2 DEF Run!RecordIsTrue, Run!Alive
  <2> QED BY <2>3, <2>4, <2>5, <2>6
<1>7. ASSUME NEW p \in Processes, Run!ClaimRecords(p) PROVE RunInv'
  <2> DEFINE l == Head(want[p])
  <2>1. /\ runPc[p] = "recording" /\ runFlock' = runFlock
        /\ record' = [record EXCEPT ![l] = [pid |-> p, released |-> FALSE]]
        /\ depth' = [depth EXCEPT ![p][l] = 1]
        /\ runPc' = [runPc EXCEPT ![p] = "taking"]
        /\ DOMAIN want' = Processes /\ DOMAIN mine' = Processes
        /\ \A q \in Processes \ {p} : want'[q] = want[q]
    BY <1>7 DEF Run!ClaimRecords, Run!Taken
  <2>2. RunTypes'
    BY <2>1 DEF HolderRecords
  <2>3. CountedIsHeld'
    BY <2>1 DEF CountedIsHeld
  <2>4. OffIsUnnamed'
    BY <2>1 DEF OffIsUnnamed
  <2>5. Run!RecordIsTrue'
    BY <2>1 DEF Run!RecordIsTrue, Run!Alive, CountedIsHeld
  <2> QED BY <2>2, <2>3, <2>4, <2>5
<1>8. ASSUME NEW p \in Processes, Run!ClaimContends(p) PROVE RunInv'
  BY <1>8, RunQuietStep DEF Run!ClaimContends, Run!Claims, Run!registry
<1>9. ASSUME NEW p \in Processes, Run!RefuseLive(p) \/ Run!RefuseSpent(p) PROVE RunInv'
  BY <1>9, RunQuietStep DEF Run!RefuseLive, Run!RefuseSpent, Run!Refuse
<1>10. ASSUME NEW p \in Processes, Run!RetryVacated(p) PROVE RunInv'
  BY <1>10, RunQuietStep DEF Run!RetryVacated, Run!registry
<1>11. ASSUME NEW p \in Processes, Run!AllTaken(p) \/ Run!OpenBlock(p) \/ Run!Leave(p) PROVE RunInv'
  BY <1>11, RunQuietStep DEF Run!AllTaken, Run!OpenBlock, Run!Leave, Run!registry
<1>12. ASSUME NEW p \in Processes, Run!KeepForProcess(p) PROVE RunInv'
  <2>1. runPc[p] = "working" /\ runPc' = [runPc EXCEPT ![p] = "working"]
    BY <1>12 DEF Run!KeepForProcess
  <2> QED BY <1>12, <2>1, RunQuietStep DEF Run!KeepForProcess
<1>13. ASSUME NEW p \in Processes, Run!DropCounted(p) PROVE RunInv'
  <2> DEFINE l == Run!Last(mine[p])
  <2>1. /\ depth' = [depth EXCEPT ![p][l] = @ - 1]
        /\ l \in Locks => depth[p][l] > 1
        /\ UNCHANGED <<runFlock, record, runPc, want>> /\ DOMAIN mine' = Processes
    BY <1>13 DEF Run!DropCounted, Run!files
  <2>2. depth' \in [Processes -> [Locks -> Nat]]
    <3>1. CASE l \in Locks
      <4>1. depth[p][l] - 1 \in Nat
        BY <2>1, <3>1
      <4> QED BY <2>1, <4>1
    <3>2. CASE l \notin Locks
      <4>1. [depth[p] EXCEPT ![l] = @ - 1] = depth[p]
        BY <3>2
      <4> QED BY <2>1, <4>1
    <3> QED BY <3>1, <3>2
  <2>3. RunTypes'
    BY <2>1, <2>2
  <2>4. CountedIsHeld'
    BY <2>1 DEF CountedIsHeld
  <2> QED BY <2>1, <2>3, <2>4 DEF OffIsUnnamed, Run!RecordIsTrue, Run!Alive
<1>14. ASSUME NEW p \in Processes, Run!DropStamps(p) PROVE RunInv'
  <2>1. PICK l : record' = [record EXCEPT ![l].released = TRUE]
    BY <1>14 DEF Run!DropStamps
  <2>2. UNCHANGED <<runFlock, runPc, want, mine, depth>>
    BY <1>14 DEF Run!DropStamps, Run!registry
  <2>3. RunTypes'
    BY <2>1, <2>2 DEF HolderRecords
  <2>4. \A k \in Locks : record'[k].pid = record[k].pid
                         /\ (record[k].released => record'[k].released)
    BY <2>1 DEF HolderRecords
  <2>5. CountedIsHeld' /\ OffIsUnnamed'
    BY <2>2, <2>4 DEF CountedIsHeld, OffIsUnnamed
  <2>6. Run!RecordIsTrue'
    BY <2>2, <2>4 DEF Run!RecordIsTrue, Run!Alive
  <2> QED BY <2>3, <2>5, <2>6
<1>15. ASSUME NEW p \in Processes, Run!DropUnlocks(p) PROVE RunInv'
  <2>1. PICK l \in Run!Dropping(p) :
          /\ record[l].released /\ runFlock' = [runFlock EXCEPT ![l] = None]
          /\ depth' = [depth EXCEPT ![p][l] = 0]
    BY <1>15 DEF Run!DropUnlocks, Run!Releasable
  <2>2. /\ UNCHANGED <<record, runPc, want>> /\ DOMAIN mine' = Processes /\ runPc[p] = "dropping"
    BY <1>15 DEF Run!DropUnlocks
  <2>3. l \in Locks => depth[p][l] > 0
    BY <2>1 DEF Run!Dropping, Run!Held
  <2>4. l \in Locks => runFlock[l] = p
    BY <2>3 DEF CountedIsHeld
  <2>5. RunTypes'
    BY <2>1, <2>2
  <2>6. CountedIsHeld'
    BY <2>1, <2>2, <2>4 DEF CountedIsHeld
  <2>7. Run!RecordIsTrue'
    BY <2>1, <2>2 DEF Run!RecordIsTrue, Run!Alive
  <2> QED BY <2>2, <2>5, <2>6, <2>7 DEF OffIsUnnamed
<1>16. ASSUME NEW p \in Processes, Run!Exit(p) PROVE RunInv'
  <2>1. /\ runPc[p] = "dropping" /\ runPc' = [runPc EXCEPT ![p] = "over"]
        /\ UNCHANGED <<runFlock, record, want, mine, depth>>
    BY <1>16 DEF Run!Exit, Run!files
  <2> QED BY <2>1, RunQuietStep DEF Run!files
<1>17. ASSUME NEW p \in Processes, Run!Kill(p) PROVE RunInv'
  <2>1. /\ runPc[p] \notin {"off", "over", "killed"} /\ runPc' = [runPc EXCEPT ![p] = "killed"]
        /\ runFlock' = [l \in Locks |-> IF runFlock[l] = p THEN None ELSE runFlock[l]]
        /\ depth' = [depth EXCEPT ![p] = [l \in Locks |-> 0]]
        /\ DOMAIN mine' = Processes /\ DOMAIN want' = Processes /\ record' = record
        /\ \A q \in Processes \ {p} : want'[q] = want[q]
    BY <1>17 DEF Run!Kill
  <2>2. RunTypes'
    BY <2>1
  <2>3. CountedIsHeld'
    BY <2>1 DEF CountedIsHeld
  <2>4. Run!RecordIsTrue'
    BY <2>1 DEF Run!RecordIsTrue, Run!Alive
  <2> QED BY <2>1, <2>2, <2>3, <2>4 DEF OffIsUnnamed
<1>18. ASSUME NEW l \in Locks, Run!Probe(l) \/ Run!ProbeEnds(l) PROVE RunInv'
  <2>1. PICK a, b \in {None, Prober} : runFlock[l] = a /\ runFlock' = [runFlock EXCEPT ![l] = b]
    BY <1>18 DEF Run!Probe, Run!ProbeEnds
  <2>2. UNCHANGED <<record, runPc, want, mine, depth>>
    BY <1>18 DEF Run!Probe, Run!ProbeEnds, Run!registry
  <2>3. None \notin Processes /\ Prober \notin Processes
    BY DEF Run!LockAssumption
  <2> QED BY <2>1, <2>2, <2>3 DEF CountedIsHeld, OffIsUnnamed, Run!RecordIsTrue, Run!Alive
<1>19. CASE UNCHANGED Run!vars
  BY <1>19 DEF Run!vars, Run!files, Run!registry, CountedIsHeld, OffIsUnnamed,
     Run!RecordIsTrue, Run!Alive
<1> QED
  BY <1>1, <1>2, <1>3, <1>4, <1>5, <1>6, <1>7, <1>8, <1>9, <1>10, <1>11, <1>12, <1>13,
     <1>14, <1>15, <1>16, <1>17, <1>18, <1>19 DEF Run!Next, Run!Step

(* run_lock.py: whatever processes are killed between their writes, and    *)
(* whoever probes, a record that names a living process as the holder of a *)
(* lock is true.                                                           *)
THEOREM RecordsAreTrue == Spec => []RecordIsTrue
<1>1. Init => RunInv
  BY EveryPartStarts, RunInit, ConstantsAssumption
<1>2. RunInv /\ [Next]_vars => RunInv'
  BY OnePartMoves, RunStep, ConstantsAssumption
<1>3. RunInv => RecordIsTrue
  BY DEF RunInv, RecordIsTrue
<1> QED BY <1>1, <1>2, <1>3, PTL DEF Spec
-----------------------------------------------------------------------------
(* SessionLock: the sessions on record.                                    *)

(* Where the promise holds: hooks take turns, and `ps` answers.            *)
HooksBehave == HooksOverlap = FALSE /\ PsFails = 0

HookStates ==
  [pc : {"none", "look", "read", "ask", "unlink", "open", "write", "replace", "clean"},
   op : {"none", "acquire", "release", "reload", "refresh", "end"},
   text : SUBSET Sessions, fd : Session!Inodes \cup {0}]

SessionTypes ==
  /\ on \subseteq Sessions /\ claimed \subseteq on
  /\ hook \in [Sessions -> HookStates]
  /\ name \in [lock : Session!Inodes \cup {0}, tmp : Session!Inodes \cup {0}]
  /\ disk \in [Session!Inodes -> [recs : SUBSET Sessions, whole : BOOLEAN]]
  /\ ps = 0

(* A hook that has read the record and has not replaced it yet.            *)
Busy(s) == hook[s].pc \in {"ask", "unlink", "open", "write", "replace"}

(* What a hook has in hand is the record, or the record to be, which keeps *)
(* whoever was told it is recorded.                                        *)
HookAgrees(s) ==
  /\ hook[s].pc # "clean"
  /\ hook[s].fd # 0 => hook[s].pc \in {"write", "replace"}
  /\ hook[s].pc \in {"write", "replace"} => hook[s].fd = name.tmp /\ name.tmp # 0
  /\ hook[s].pc = "ask" => hook[s].text = Session!File
  /\ hook[s].pc \in {"open", "write", "replace"} => claimed \subseteq hook[s].text
  /\ hook[s].pc \in {"open", "write", "replace"} /\ hook[s].op = "acquire" => s \in hook[s].text
  /\ hook[s].pc = "unlink" => claimed = {}
  /\ hook[s].pc = "replace" => disk[hook[s].fd].recs = hook[s].text
  /\ Busy(s) \/ hook[s].pc = "read" => hook[s].op \in {"acquire", "release", "reload", "end"}
  /\ hook[s].pc # "none" /\ hook[s].op \in {"release", "reload", "end"} => s \notin claimed

OneHook == \A s, t \in Sessions : Busy(s) /\ Busy(t) => s = t

(* A pid is given out again once its session and its hook are gone.        *)
OwnPid ==
  \A s \in on : \A t \in Sessions \ {s} : Pid(t) = Pid(s) => t \notin on /\ hook[t].pc = "none"

SessionInv ==
  /\ SessionTypes /\ OneHook /\ OwnPid
  /\ \A s \in Sessions : HookAgrees(s)
  /\ name.lock # 0 => name.lock # name.tmp
  /\ claimed \subseteq Session!File

(* FiniteSets, seen through the instance.                                  *)
LEMMA SameCount ==
  ASSUME NEW S
  PROVE  Session!Cardinality(S) = Cardinality(S) /\ (Session!IsFiniteSet(S) <=> IsFiniteSet(S))
BY DEF Session!Cardinality, Cardinality, Session!IsFiniteSet, IsFiniteSet

LEMMA InodesType ==
  ASSUME Session!SessionLockConstants
  PROVE  Session!Inodes \subseteq Nat \ {0} /\ {1, 2} \subseteq Session!Inodes
<1>1. Session!Cardinality(Sessions) \in Nat
  BY SameCount, FS_CardinalityType DEF Session!SessionLockConstants
<1> QED BY <1>1 DEF Session!Inodes

LEMMA SessionInit == Session!SessionLockConstants /\ HooksBehave /\ Session!Init => SessionInv
<1> SUFFICES ASSUME Session!SessionLockConstants, HooksBehave, Session!Init PROVE SessionInv
  OBVIOUS
<1> USE DEF Session!Init, Session!Idle, Session!Blank
<1>1. \A s \in Sessions : hook[s] = Session!Idle /\ hook[s] \in HookStates
  BY DEF HookStates
<1>2. SessionTypes
  BY <1>1 DEF SessionTypes, HooksBehave
<1>3. \A s \in Sessions : HookAgrees(s)
  BY <1>1 DEF HookAgrees, Busy
<1> QED BY <1>1, <1>2, <1>3 DEF SessionInv, OneHook, OwnPid, Session!File, Busy

(* A temporary file that is made is not the record.                        *)
LEMMA FreshIsUnused ==
  ASSUME Session!SessionLockConstants, SessionInv, NEW s \in Sessions, hook[s].pc = "open", name.tmp = 0
  PROVE  Session!Fresh \in Session!Inodes /\ Session!Fresh # name.lock
<1>1. \A t \in Sessions : hook[t].fd = 0
  BY DEF SessionInv, HookAgrees
<1>2. \A i \in Session!Inodes : i # name.lock => i \in Session!Unused
  BY <1>1, InodesType DEF Session!Unused
<1>3. \A i \in Session!Unused : i \in Nat /\ 1 <= i /\ (name.lock = 1 => 2 <= i)
  BY InodesType DEF Session!Unused
<1>4. \E i \in Session!Unused : \A j \in Session!Unused : i <= j
  <2>1. CASE name.lock = 1
    BY <2>1, <1>2, <1>3, InodesType
  <2>2. CASE name.lock # 1
    BY <2>2, <1>2, <1>3, InodesType
  <2> QED BY <2>1, <2>2
<1>5. Session!Fresh \in Session!Unused
  BY <1>4 DEF Session!Fresh
<1> QED BY <1>5 DEF Session!Unused

LEMMA HookGoes ==
  ASSUME SessionTypes, NEW s \in Sessions, NEW h \in HookStates, hook' = [hook EXCEPT ![s] = h]
  PROVE  /\ hook' \in [Sessions -> HookStates] /\ hook'[s] = h
         /\ \A t \in Sessions \ {s} : hook'[t] = hook[t]
BY DEF SessionTypes

(* A turn of a session or of its hook that leaves the files alone.         *)
LEMMA QuietTurn ==
  ASSUME SessionInv, NEW s \in Sessions, NEW h \in HookStates, hook' = [hook EXCEPT ![s] = h],
         UNCHANGED <<name, disk, ps>>, on' \subseteq on, claimed' \subseteq claimed, claimed' \subseteq on',
         HookAgrees(s)',
         Busy(s)' => Busy(s) \/ \A t \in Sessions \ {s} : ~Busy(t),
         hook'[s].pc # "none" => hook[s].pc # "none" \/ s \in on
  PROVE  SessionInv'
<1> USE DEF SessionInv
<1>1. /\ hook' \in [Sessions -> HookStates] /\ hook'[s] = h
      /\ \A t \in Sessions \ {s} : hook'[t] = hook[t]
  BY HookGoes
<1>2. SessionTypes'
  BY <1>1 DEF SessionTypes
<1>3. OneHook'
  BY <1>1 DEF OneHook, Busy
<1>4. OwnPid'
  BY <1>1 DEF OwnPid, SessionTypes
<1>5. Session!File' = Session!File
  BY DEF Session!File
<1>6. \A t \in Sessions : HookAgrees(t)'
  <2>1. ASSUME NEW t \in Sessions \ {s} PROVE HookAgrees(t)'
    BY <1>1, <1>5 DEF HookAgrees, Busy
  <2> QED BY <2>1
<1> QED BY <1>2, <1>3, <1>4, <1>5, <1>6

LEMMA NoneLost ==
  ASSUME SessionTypes, NEW asked, NEW lost \in Session!Unanswered(asked)
  PROVE  lost = {} /\ (Session!Asked(lost) => ps' = 0)
<1>1. lost = {}
  BY DEF SessionTypes, Session!Unanswered
<1>2. Session!Cardinality({}) = 0
  BY SameCount, FS_EmptySet
<1> QED BY <1>1, <1>2 DEF SessionTypes, Session!Asked

LEMMA SessionTurn ==
  ASSUME SessionInv, NEW s \in Sessions,
         Session!Clear(s) \/ Session!Edit(s) \/ Session!End(s) \/ Session!Kill(s)
  PROVE  SessionInv'
<1> USE DEF SessionInv
<1>0. SessionTypes /\ HookAgrees(s) /\ hook[s] \in HookStates
  BY DEF SessionTypes
<1>1. CASE Session!Kill(s)
  <2>1. PICK h \in {Session!Idle, hook[s]} : hook' = [hook EXCEPT ![s] = h]
    BY <1>0, <1>1 DEF Session!Kill, Session!Rest, SessionTypes
  <2>2. Session!Idle \in HookStates
    BY DEF Session!Idle, HookStates
  <2>3. h \in HookStates /\ hook'[s] = h
    BY <1>0, <2>1, <2>2 DEF SessionTypes
  <2>4. HookAgrees(s)' /\ (Busy(s)' => Busy(s))
    BY <1>0, <1>1, <2>1, <2>3 DEF HookAgrees, Busy, Session!Kill, Session!Idle, Session!File
  <2> QED BY <1>0, <1>1, <2>1, <2>3, <2>4, QuietTurn DEF Session!Kill, SessionTypes, Session!Idle
<1>2. ASSUME NEW op \in {"release", "reload", "end", "refresh"}, Session!Starts(s, op), hook[s].pc = "none",
             s \in on, op # "refresh" => claimed' = claimed \ {s}, op = "refresh" => claimed' = claimed,
             UNCHANGED <<on, name, disk, ps>>
      PROVE  SessionInv'
  <2> DEFINE h == [Session!Idle EXCEPT !.pc = IF op = "refresh" THEN "look" ELSE "read", !.op = op]
  <2>1. h \in HookStates /\ h.op = op /\ h.fd = 0 /\ h.pc = (IF op = "refresh" THEN "look" ELSE "read")
    BY DEF Session!Idle, HookStates
  <2>2. hook' = [hook EXCEPT ![s] = h]
    BY <1>2 DEF Session!Starts
  <2>3. hook'[s] = h
    BY <1>0, <2>1, <2>2, HookGoes
  <2>4. HookAgrees(s)' /\ ~Busy(s)'
    BY <1>2, <2>1, <2>3 DEF HookAgrees, Busy
  <2>5. claimed' \subseteq claimed /\ claimed' \subseteq on'
    BY <1>0, <1>2 DEF SessionTypes
  <2> HIDE DEF h
  <2> QED BY <1>2, <2>1, <2>2, <2>3, <2>4, <2>5, QuietTurn
<1> QED BY <1>1, <1>2 DEF Session!Clear, Session!Edit, Session!End

LEMMA SessionBegins ==
  ASSUME SessionInv, NEW s \in Sessions, Session!Begin(s) PROVE SessionInv'
<1> USE DEF SessionInv
<1> DEFINE h == [Session!Idle EXCEPT !.pc = "read", !.op = "acquire"]
<1>1. /\ h \in HookStates /\ h.op = "acquire" /\ h.fd = 0 /\ h.pc = "read"
      /\ hook' = [hook EXCEPT ![s] = h] /\ on' = on \cup {s}
      /\ UNCHANGED <<name, disk, claimed, ps>>
      /\ \A t \in on : Pid(t) # Pid(s)
      /\ \A t \in Sessions : Pid(t) = Pid(s) => hook[t].pc = "none"
  BY DEF Session!Begin, Session!Starts, Session!Idle, HookStates
<1> HIDE DEF h
<1>2. /\ hook' \in [Sessions -> HookStates] /\ hook'[s] = h
      /\ \A t \in Sessions \ {s} : hook'[t] = hook[t]
  BY <1>1, HookGoes
<1>3. SessionTypes'
  BY <1>1, <1>2 DEF SessionTypes
<1>4. OneHook'
  BY <1>1, <1>2 DEF OneHook, Busy
<1>5. OwnPid'
  <2> SUFFICES ASSUME NEW a \in on', NEW t \in Sessions \ {a}, Pid(t) = Pid(a)
               PROVE  t \notin on' /\ hook'[t].pc = "none"
    BY DEF OwnPid
  <2>1. CASE a = s
    BY <1>1, <1>2, <2>1
  <2>2. CASE a # s
    BY <1>1, <1>2, <2>2 DEF OwnPid
  <2> QED BY <2>1, <2>2
<1>6. Session!File' = Session!File
  BY <1>1 DEF Session!File
<1>7. \A t \in Sessions : HookAgrees(t)'
  <2>1. HookAgrees(s)'
    BY <1>1, <1>2 DEF HookAgrees, Busy
  <2>2. ASSUME NEW t \in Sessions \ {s} PROVE HookAgrees(t)'
    BY <1>1, <1>2, <1>6 DEF HookAgrees, Busy
  <2> QED BY <2>1, <2>2
<1> QED BY <1>1, <1>3, <1>4, <1>5, <1>6, <1>7

(* What follows a hook that is done.                                       *)
LEMMA AfterHook ==
  ASSUME SessionInv, NEW s \in Sessions, Session!After(s)
  PROVE  /\ \E h \in HookStates :
              /\ hook' = [hook EXCEPT ![s] = h] /\ h.fd = 0
              /\ \/ h.pc = "none"
                 \/ h.pc = "read" /\ h.op = "acquire" /\ hook[s].op = "reload"
         /\ on' \subseteq on /\ \A t \in on : t # s => t \in on'
         /\ on' # on => hook[s].op = "end"
<1> DEFINE h == IF hook[s].op = "reload" THEN [Session!Idle EXCEPT !.pc = "read", !.op = "acquire"]
                ELSE Session!Idle
<1>1. h \in HookStates /\ h.fd = 0 /\ (h.pc = "none" \/ (h.pc = "read" /\ h.op = "acquire" /\ hook[s].op = "reload"))
  BY DEF Session!Idle, HookStates
<1>2. hook' = [hook EXCEPT ![s] = h]
  BY DEF Session!After
<1> HIDE DEF h
<1>3. on' = IF hook[s].op = "end" THEN on \ {s} ELSE on
  BY DEF Session!After
<1> QED BY <1>1, <1>2, <1>3

LEMMA HookReads ==
  ASSUME HooksBehave, SessionInv, NEW s \in Sessions, Session!Look(s) \/ Session!Read(s) \/ Session!Ask(s)
  PROVE  SessionInv'
<1> USE DEF SessionInv
<1>0. SessionTypes /\ HookAgrees(s) /\ hook[s] \in HookStates /\ claimed \subseteq on
  BY DEF SessionTypes
<1>1. CASE Session!Look(s)
  <2>1. Session!Idle \in HookStates /\ Session!Idle.pc = "none" /\ Session!Idle.fd = 0
    BY DEF Session!Idle, HookStates
  <2>2. [hook[s] EXCEPT !.pc = "read", !.op = "acquire"] \in HookStates
    BY <1>0 DEF HookStates
  <2>3. hook[s].pc = "look" /\ ps' = ps /\ UNCHANGED <<on, name, disk, claimed>>
    BY <1>0, <1>1, NoneLost DEF Session!Look, SessionTypes
  <2>4. PICK h \in {Session!Idle, [hook[s] EXCEPT !.pc = "read", !.op = "acquire"]} : hook' = [hook EXCEPT ![s] = h]
    BY <1>0, <1>1 DEF Session!Look, SessionTypes, HookStates
  <2>5. h \in HookStates /\ hook'[s] = h /\ h.fd = 0 /\ (h.pc = "none" \/ (h.pc = "read" /\ h.op = "acquire"))
    <3>1. h \in HookStates /\ h.fd = 0 /\ (h.pc = "none" \/ (h.pc = "read" /\ h.op = "acquire"))
      BY <1>0, <2>1, <2>2, <2>3, <2>4 DEF HookAgrees, HookStates
    <3> QED BY <1>0, <2>4, <3>1, HookGoes
  <2>6. HookAgrees(s)' /\ ~Busy(s)'
    BY <2>3, <2>5 DEF HookAgrees, Busy
  <2> QED BY <1>0, <2>3, <2>4, <2>5, <2>6, QuietTurn
<1>2. CASE Session!Read(s)
  <2>1. hook[s].pc = "read" /\ (\A t \in Sessions \ {s} : ~Busy(t)) /\ UNCHANGED <<name, disk, claimed, ps>>
    BY <1>2 DEF Session!Read, HooksBehave, Busy
  <2>2. CASE hook[s].op # "acquire" /\ name.lock = 0 /\ Session!After(s)
    <3>1. PICK h \in HookStates :
              /\ hook' = [hook EXCEPT ![s] = h] /\ h.fd = 0
              /\ \/ h.pc = "none"
                 \/ h.pc = "read" /\ h.op = "acquire" /\ hook[s].op = "reload"
      BY <2>2, AfterHook
    <3>2. on' \subseteq on /\ claimed' \subseteq on'
      BY <1>0, <2>1, <2>2, AfterHook DEF HookAgrees
    <3>3. hook'[s] = h
      BY <1>0, <3>1, HookGoes
    <3>4. HookAgrees(s)' /\ ~Busy(s)'
      BY <3>1, <3>3 DEF HookAgrees, Busy
    <3> QED BY <2>1, <3>1, <3>2, <3>3, <3>4, QuietTurn
  <2>3. CASE hook' = [hook EXCEPT ![s].pc = "ask", ![s].text = Session!File] /\ UNCHANGED on
    <3> DEFINE h == [hook[s] EXCEPT !.pc = "ask", !.text = Session!File]
    <3>1. Session!File \subseteq Sessions
      BY <1>0 DEF SessionTypes, Session!File
    <3>2. h \in HookStates /\ h.pc = "ask" /\ h.text = Session!File /\ h.fd = hook[s].fd /\ h.op = hook[s].op
      BY <1>0, <3>1 DEF HookStates
    <3>3. hook' = [hook EXCEPT ![s] = h]
      BY <1>0, <2>3 DEF SessionTypes, HookStates
    <3>4. hook'[s] = h
      BY <1>0, <3>2, <3>3, HookGoes
    <3>5. Session!File' = Session!File
      BY <2>1 DEF Session!File
    <3> HIDE DEF h
    <3>6. HookAgrees(s)'
      BY <1>0, <2>1, <3>2, <3>4, <3>5 DEF HookAgrees, Busy
    <3> QED BY <1>0, <2>1, <2>3, <3>2, <3>3, <3>6, QuietTurn
  <2> QED BY <1>2, <2>2, <2>3 DEF Session!Read
<1>3. CASE Session!Ask(s)
  <2>1. hook[s].pc = "ask" /\ ps' = ps /\ UNCHANGED <<on, name, disk, claimed>>
    BY <1>0, <1>3, NoneLost DEF Session!Ask, SessionTypes
  <2> DEFINE keep == Session!Kept(s, {})
  <2>2. keep \subseteq Sessions
    BY <1>0 DEF Session!Kept, HookStates
  <2>3. \A t \in claimed : t # s => t \in keep
    <3> SUFFICES ASSUME NEW t \in claimed, t # s PROVE t \in keep
      OBVIOUS
    <3>1. t \in hook[s].text /\ t \in on /\ t \in Sessions
      BY <1>0, <2>1 DEF HookAgrees, SessionTypes
    <3>2. Pid(t) # Pid(s)
      BY <1>0, <2>1, <3>1 DEF OwnPid
    <3> QED BY <3>1, <3>2 DEF Session!Kept, Session!Alive
  <2> DEFINE h == IF hook[s].op = "acquire"
                  THEN [hook[s] EXCEPT !.pc = IF s \in on THEN "open" ELSE "none", !.text = keep \cup {s}]
                  ELSE [hook[s] EXCEPT !.pc = IF keep = {} THEN "unlink" ELSE "open", !.text = keep]
  <2>4. hook' = [hook EXCEPT ![s] = h]
    <3>1. hook' = IF hook[s].op = "acquire"
                  THEN [hook EXCEPT ![s].pc = IF s \in on THEN "open" ELSE "none", ![s].text = keep \cup {s}]
                  ELSE [hook EXCEPT ![s].pc = IF keep = {} THEN "unlink" ELSE "open", ![s].text = keep]
      BY <1>0, <1>3, NoneLost DEF Session!Ask
    <3> HIDE DEF keep
    <3>2. CASE hook[s].op = "acquire"
      BY <1>0, <3>1, <3>2 DEF SessionTypes, HookStates
    <3>3. CASE hook[s].op # "acquire"
      BY <1>0, <3>1, <3>3 DEF SessionTypes, HookStates
    <3> QED BY <3>2, <3>3
  <2>5. h \in HookStates /\ h.fd = hook[s].fd /\ h.op = hook[s].op
    BY <1>0, <2>2 DEF HookStates
  <2>6. \/ h.pc = "open" /\ h.op = "acquire" /\ h.text = keep \cup {s}
        \/ h.pc = "none"
        \/ h.pc = "unlink" /\ h.op # "acquire" /\ keep = {}
        \/ h.pc = "open" /\ h.op # "acquire" /\ h.text = keep
    BY <1>0 DEF HookStates
  <2>7. hook'[s] = h
    BY <1>0, <2>4, <2>5, HookGoes
  <2> HIDE DEF h, keep
  <2>8. HookAgrees(s)'
    BY <1>0, <2>1, <2>3, <2>5, <2>6, <2>7 DEF HookAgrees, Busy
  <2>9. Busy(s)
    BY <2>1 DEF Busy
  <2> QED BY <1>0, <2>1, <2>4, <2>5, <2>8, <2>9, QuietTurn
<1> QED BY <1>1, <1>2, <1>3

(* The hook whose turn it is and that touches the files.                   *)
LEMMA HookWrites ==
  ASSUME Session!SessionLockConstants, SessionInv, NEW s \in Sessions,
         Session!Unlink(s) \/ Session!Open(s) \/ Session!Write(s) \/ Session!Replace(s) \/ Session!Clean(s)
  PROVE  SessionInv'
<1> USE DEF SessionInv
<1>0. /\ SessionTypes /\ HookAgrees(s) /\ hook[s] \in HookStates /\ claimed \subseteq on
      /\ \A t \in Sessions : HookAgrees(t)
  BY DEF SessionTypes
<1>1. Busy(s) /\ \A t \in Sessions \ {s} : ~Busy(t) /\ hook[t].fd = 0
  BY <1>0 DEF OneHook, HookAgrees, Busy, Session!Unlink, Session!Open, Session!Write, Session!Replace, Session!Clean
<1>2. ASSUME NEW h \in HookStates, hook' = [hook EXCEPT ![s] = h], on' \subseteq on,
             claimed' \subseteq on',
             name' \in [lock : Session!Inodes \cup {0}, tmp : Session!Inodes \cup {0}],
             disk' \in [Session!Inodes -> [recs : SUBSET Sessions, whole : BOOLEAN]],
             ps' = ps, name'.lock # 0 => name'.lock # name'.tmp, claimed' \subseteq Session!File',
             HookAgrees(s)', \A t \in Sessions \ {s} : t \in claimed' => t \in claimed
      PROVE  SessionInv'
  <2>1. /\ hook' \in [Sessions -> HookStates] /\ hook'[s] = h
        /\ \A t \in Sessions \ {s} : hook'[t] = hook[t]
    BY <1>0, <1>2, HookGoes
  <2>2. SessionTypes'
    BY <1>0, <1>2, <2>1 DEF SessionTypes
  <2>3. OneHook'
    BY <1>1, <2>1 DEF OneHook, Busy
  <2>4. OwnPid'
    BY <1>0, <1>1, <1>2, <2>1 DEF OwnPid, SessionTypes, Busy
  <2>5. ASSUME NEW t \in Sessions \ {s} PROVE HookAgrees(t)'
    BY <1>0, <1>1, <1>2, <2>1 DEF HookAgrees, Busy
  <2> QED BY <1>2, <2>2, <2>3, <2>4, <2>5
<1>3. CASE Session!Unlink(s)
  <2>1. hook[s].pc = "unlink" /\ name' = [name EXCEPT !.lock = 0] /\ Session!After(s) /\ UNCHANGED <<disk, claimed, ps>>
    BY <1>3 DEF Session!Unlink
  <2>2. claimed = {}
    BY <1>0, <2>1 DEF HookAgrees
  <2>3. PICK h \in HookStates :
          /\ hook' = [hook EXCEPT ![s] = h] /\ h.fd = 0
          /\ \/ h.pc = "none"
             \/ h.pc = "read" /\ h.op = "acquire" /\ hook[s].op = "reload"
    BY <2>1, AfterHook
  <2>4. hook'[s] = h
    BY <1>0, <2>3, HookGoes
  <2>5. HookAgrees(s)'
    BY <2>1, <2>2, <2>3, <2>4 DEF HookAgrees, Busy
  <2>6. name' \in [lock : Session!Inodes \cup {0}, tmp : Session!Inodes \cup {0}] /\ name'.lock = 0
    BY <1>0, <2>1 DEF SessionTypes
  <2>7. on' \subseteq on
    BY <2>1, AfterHook
  <2> QED BY <1>0, <1>2, <2>1, <2>2, <2>3, <2>5, <2>6, <2>7 DEF SessionTypes
<1>4. CASE Session!Open(s)
  <2> DEFINE i == IF name.tmp = 0 THEN Session!Fresh ELSE name.tmp
             h == [hook[s] EXCEPT !.pc = "write", !.fd = i]
  <2>1. /\ hook[s].pc = "open" /\ name' = [name EXCEPT !.tmp = i]
        /\ disk' = [disk EXCEPT ![i] = Session!Blank] /\ UNCHANGED <<on, claimed, ps>>
        /\ hook' = [hook EXCEPT ![s].pc = "write", ![s].fd = i]
    BY <1>4 DEF Session!Open
  <2>2. i \in Session!Inodes /\ i # name.lock /\ i # 0
    BY <1>0, <2>1, FreshIsUnused, InodesType DEF SessionTypes
  <2>3. hook' = [hook EXCEPT ![s] = h]
    BY <1>0, <2>1 DEF SessionTypes, HookStates
  <2>4. h \in HookStates /\ h.pc = "write" /\ h.fd = i /\ h.text = hook[s].text /\ h.op = hook[s].op
    BY <1>0, <2>2 DEF HookStates
  <2> HIDE DEF h, i
  <2>5. hook'[s] = h
    BY <1>0, <2>3, <2>4, HookGoes
  <2>6. /\ name' \in [lock : Session!Inodes \cup {0}, tmp : Session!Inodes \cup {0}]
        /\ name'.tmp = i /\ name'.lock = name.lock
    BY <1>0, <2>1, <2>2 DEF SessionTypes
  <2>7. /\ disk' \in [Session!Inodes -> [recs : SUBSET Sessions, whole : BOOLEAN]]
        /\ \A j \in Session!Inodes \ {i} : disk'[j] = disk[j]
    BY <1>0, <2>1, <2>2 DEF SessionTypes, Session!Blank
  <2>8. Session!File' = Session!File
    BY <1>0, <2>2, <2>6, <2>7 DEF SessionTypes, Session!File
  <2>9. HookAgrees(s)'
    BY <1>0, <2>1, <2>2, <2>4, <2>5, <2>6 DEF HookAgrees, Busy
  <2> QED BY <1>0, <1>2, <2>1, <2>2, <2>3, <2>4, <2>6, <2>7, <2>8, <2>9
<1>5. CASE Session!Write(s)
  <2> DEFINE h == [hook[s] EXCEPT !.pc = "replace"]
  <2>1. hook[s].pc = "write" /\ UNCHANGED <<on, name, claimed, ps>> /\ hook' = [hook EXCEPT ![s].pc = "replace"]
    BY <1>5 DEF Session!Write, Session!At
  <2>2. PICK w \in BOOLEAN :
          disk' = [disk EXCEPT ![hook[s].fd] = [recs |-> hook[s].text, whole |-> @.recs = {} \/ w]]
    BY <1>5 DEF Session!Write
  <2>3. hook[s].fd \in Session!Inodes /\ hook[s].fd = name.tmp /\ hook[s].fd # name.lock
    BY <1>0, <2>1 DEF HookAgrees, HookStates
  <2>4. /\ disk' \in [Session!Inodes -> [recs : SUBSET Sessions, whole : BOOLEAN]]
        /\ disk'[hook[s].fd].recs = hook[s].text
        /\ \A j \in Session!Inodes \ {hook[s].fd} : disk'[j] = disk[j]
    BY <1>0, <2>2, <2>3 DEF SessionTypes, HookStates
  <2>5. hook' = [hook EXCEPT ![s] = h]
    BY <1>0, <2>1 DEF SessionTypes, HookStates
  <2>6. h \in HookStates /\ h.pc = "replace" /\ h.fd = hook[s].fd /\ h.text = hook[s].text /\ h.op = hook[s].op
    BY <1>0 DEF HookStates
  <2> HIDE DEF h
  <2>7. hook'[s] = h
    BY <1>0, <2>5, <2>6, HookGoes
  <2>8. Session!File' = Session!File
    BY <1>0, <2>1, <2>3, <2>4 DEF SessionTypes, Session!File
  <2>9. HookAgrees(s)'
    BY <1>0, <2>1, <2>4, <2>6, <2>7 DEF HookAgrees, Busy
  <2> QED BY <1>0, <1>2, <2>1, <2>4, <2>5, <2>6, <2>8, <2>9 DEF SessionTypes
<1>6. CASE Session!Replace(s)
  <2>1. /\ hook[s].pc = "replace" /\ name.tmp # 0 /\ name' = [lock |-> name.tmp, tmp |-> 0] /\ Session!After(s)
        /\ claimed' = (IF hook[s].op = "acquire" THEN (claimed \cup {s}) \cap on ELSE claimed)
        /\ UNCHANGED <<disk, ps>>
    BY <1>0, <1>6 DEF Session!Replace, HookAgrees
  <2>2. disk[name.tmp].recs = hook[s].text /\ claimed \subseteq hook[s].text
        /\ (hook[s].op = "acquire" => s \in hook[s].text)
    BY <1>0, <2>1 DEF HookAgrees
  <2>3. PICK h \in HookStates :
          /\ hook' = [hook EXCEPT ![s] = h] /\ h.fd = 0
          /\ \/ h.pc = "none"
             \/ h.pc = "read" /\ h.op = "acquire" /\ hook[s].op = "reload"
    BY <2>1, AfterHook
  <2>4. hook'[s] = h
    BY <1>0, <2>3, HookGoes
  <2>5. on' \subseteq on /\ (\A t \in on : t # s => t \in on') /\ (on' # on => hook[s].op = "end")
    BY <2>1, AfterHook
  <2>6. hook[s].op = "end" => s \notin claimed
    BY <1>0, <2>1 DEF HookAgrees
  <2>7. claimed' \subseteq on' /\ claimed' \subseteq hook[s].text /\ \A t \in Sessions \ {s} : t \in claimed' => t \in claimed
    BY <1>0, <2>1, <2>2, <2>5, <2>6
  <2>8. /\ name' \in [lock : Session!Inodes \cup {0}, tmp : Session!Inodes \cup {0}]
        /\ name'.lock = name.tmp /\ name'.tmp = 0
    BY <1>0, <2>1 DEF SessionTypes
  <2>9. Session!File' = hook[s].text
    BY <2>1, <2>2, <2>8 DEF Session!File
  <2>10. HookAgrees(s)'
    BY <2>3, <2>4 DEF HookAgrees, Busy
  <2> QED BY <1>0, <1>2, <2>1, <2>3, <2>5, <2>7, <2>8, <2>9, <2>10 DEF SessionTypes
<1>7. CASE Session!Clean(s)
  BY <1>0, <1>7 DEF Session!Clean, HookAgrees
<1> QED BY <1>3, <1>4, <1>5, <1>6, <1>7

LEMMA SessionStep ==
  ASSUME Session!SessionLockConstants, HooksBehave, SessionInv, [Session!Next]_Session!vars
  PROVE  SessionInv'
<1>1. ASSUME UNCHANGED <<on, hook, name, disk, claimed>>, ps' = 0 PROVE SessionInv'
  BY <1>1 DEF SessionInv, SessionTypes, OneHook, OwnPid, HookAgrees, Busy, Session!File
<1>2. CASE UNCHANGED Session!vars
  BY <1>1, <1>2 DEF Session!vars, SessionInv, SessionTypes
<1>3. CASE Session!PassReads \/ Session!PassCommits
  BY <1>1, <1>3 DEF Session!PassReads, Session!PassCommits, Session!Nothing, SessionInv, SessionTypes
<1>4. CASE Session!PassAsks
  <2>1. UNCHANGED <<on, hook, name, disk, claimed>> /\ ps' = 0
    BY <1>4, NoneLost DEF Session!PassAsks, Session!Nothing, SessionInv
  <2> QED BY <1>1, <2>1
<1> QED BY <1>2, <1>3, <1>4, SessionTurn, SessionBegins, HookReads, HookWrites DEF Session!Next, Session!Hook

(* session_lock.py, `acquire`: of hooks that take turns, whichever of them *)
(* is killed at any step and whatever pid is given out again, a session    *)
(* that was told it is recorded stays so until it releases or dies.        *)
THEOREM ClaimsAlwaysHold ==
  ASSUME HooksBehave PROVE Spec => []ClaimHolds
<1>1. Init => SessionInv
  BY EveryPartStarts, SessionInit, ConstantsAssumption
<1>2. SessionInv /\ [Next]_vars => SessionInv'
  BY OnePartMoves, SessionStep, ConstantsAssumption
<1>3. SessionInv => ClaimHolds
  BY DEF SessionInv, ClaimHolds, Session!ClaimHolds
<1> QED BY <1>1, <1>2, <1>3, PTL DEF Spec
-----------------------------------------------------------------------------
(* TreeLock: the validators that declared themselves and the guards.       *)

TreePCs == {"idle", "nested", "opened", "share", "reading", "truncating", "writing",
            "running", "done"}
GuardPCs == {"idle", "asked", "unlock", "free", "held", "unknown"}
GuardStates ==
  [pc : GuardPCs, inside : Validators \cup {"none"}, probed : SUBSET Validators]

TreeTypes ==
  /\ treePc \in [Validators -> TreePCs]
  /\ treeFlock \in [Tree!Procs -> {"none", "shared", "exclusive"}]
  /\ guard \in [Guards -> GuardStates]
  /\ made \in BOOLEAN
  /\ lines \subseteq Validators /\ existing \in [Validators -> SUBSET Validators]

(* What the kernel grants, and who was granted it: a validator that is     *)
(* past the lock has it shared, a guard about to unlock has it alone.      *)
LocksGranted ==
  /\ \A p, q \in Tree!Procs : treeFlock[p] = "exclusive" /\ p # q => treeFlock[q] = "none"
  /\ \A v \in Validators :
       /\ treePc[v] \in {"reading", "truncating", "writing", "running"} => treeFlock[v] = "shared"
       /\ treePc[v] \in {"idle", "nested", "opened", "done"} => treeFlock[v] = "none"
       /\ treePc[v] \notin {"idle", "nested", "done"} => made
  /\ \A g \in Guards : guard[g].pc = "unlock" => treeFlock[g] = "exclusive"

(* A validator a guard found declared still is, or is over for good.       *)
FoundIsRunning ==
  \A g \in Guards : \A v \in guard[g].probed :
    /\ made /\ treePc[v] \in {"running", "done"}
    /\ guard[g].pc = "free" => treePc[v] = "done"

TreeInv == TreeTypes /\ LocksGranted /\ FoundIsRunning /\ Tree!StaleIsStale

LEMMA TreeInit == Tree!TreeLockConstants /\ Tree!Init => TreeInv
<1> SUFFICES ASSUME Tree!TreeLockConstants, Tree!Init PROVE TreeInv
  OBVIOUS
<1>1. [pc |-> "idle", inside |-> "none", probed |-> {}] \in GuardStates
  BY DEF GuardStates, GuardPCs
<1> QED
  BY <1>1 DEF Tree!Init, Tree!Procs, TreeInv, TreeTypes, TreePCs, LocksGranted, FoundIsRunning,
              Tree!StaleIsStale

(* A validator's step that leaves the lock alone.                          *)
LEMMA ValidatorStep ==
  ASSUME TreeInv, NEW v \in Validators, NEW at \in TreePCs,
         treePc' = [treePc EXCEPT ![v] = at],
         UNCHANGED <<treeFlock, guard, dropped>>, made' \in BOOLEAN, made => made',
         treePc[v] \notin {"running", "done"},
         at \in {"reading", "truncating", "writing", "running"} => treeFlock[v] = "shared",
         at \in {"idle", "nested", "opened", "done"} => treeFlock[v] = "none",
         at \notin {"idle", "nested", "done"} => made',
         lines' \subseteq Validators, existing' \in [Validators -> SUBSET Validators]
  PROVE  TreeInv'
<1> USE DEF TreeInv, TreeTypes
<1>1. TreeTypes'
  OBVIOUS
<1>2. LocksGranted'
  BY DEF LocksGranted, TreePCs
<1>3. FoundIsRunning'
  BY DEF FoundIsRunning, GuardStates
<1> QED BY <1>1, <1>2, <1>3 DEF Tree!StaleIsStale

(* A validator's step that changes its lock, from one no guard found       *)
(* declared or to the end.                                                 *)
LEMMA ValidatorLocks ==
  ASSUME Tree!TreeLockConstants, TreeInv, NEW v \in Validators, NEW at \in TreePCs,
         NEW m \in {"none", "shared", "exclusive"},
         treePc' = [treePc EXCEPT ![v] = at], treeFlock' = [treeFlock EXCEPT ![v] = m],
         UNCHANGED <<guard, made>>, Tree!StaleIsStale',
         treePc[v] \in {"running", "done"} => at = "done",
         m = "exclusive" => Tree!CanExclude(v),
         m = "shared" => Tree!CanShare(v),
         at \in {"reading", "truncating", "writing", "running"} => m = "shared",
         at \in {"idle", "nested", "opened", "done"} => m = "none",
         at \notin {"idle", "nested", "done"} => made,
         lines' \subseteq Validators, existing' = existing
  PROVE  TreeInv'
<1> USE DEF TreeInv, TreeTypes, Tree!Procs
<1>1. TreeTypes'
  OBVIOUS
<1>2. LocksGranted'
  <2>1. \A g \in Guards : g # v
    BY DEF Tree!TreeLockConstants
  <2>2. \A p, q \in Tree!Procs : treeFlock'[p] = "exclusive" /\ p # q => treeFlock'[q] = "none"
    BY DEF LocksGranted, Tree!CanExclude, Tree!CanShare
  <2> QED BY <2>1, <2>2 DEF LocksGranted, TreePCs
<1>3. FoundIsRunning'
  BY DEF FoundIsRunning, GuardStates
<1> QED BY <1>1, <1>2, <1>3

(* A guard's step: it asks, has its answer, gives the lock back, or is     *)
(* done.                                                                   *)
LEMMA GuardStep ==
  ASSUME Tree!TreeLockConstants, TreeInv, NEW g \in Guards, NEW at \in GuardPCs,
         guard' = [guard EXCEPT ![g].pc = at],
         UNCHANGED <<treePc, made, dropped, lines, existing>>,
         \/ treeFlock' = treeFlock
         \/ treeFlock' = [treeFlock EXCEPT ![g] = "none"]
         \/ Tree!CanExclude(g) /\ treeFlock' = [treeFlock EXCEPT ![g] = "exclusive"],
         at = "unlock" => treeFlock'[g] = "exclusive",
         at = "free" => \A v \in guard[g].probed : treePc[v] = "done"
  PROVE  TreeInv'
<1> USE DEF TreeInv, TreeTypes, Tree!Procs
<1>1. TreeTypes'
  BY DEF GuardStates
<1>2. LocksGranted'
  <2>1. \A v \in Validators : v # g
    BY DEF Tree!TreeLockConstants
  <2>2. \A p, q \in Tree!Procs : treeFlock'[p] = "exclusive" /\ p # q => treeFlock'[q] = "none"
    BY DEF LocksGranted, Tree!CanExclude
  <2>3. \A h \in Guards : guard'[h].pc = "unlock" => treeFlock'[h] = "exclusive"
    BY DEF LocksGranted, GuardStates
  <2> QED BY <2>1, <2>2, <2>3 DEF LocksGranted
<1>3. FoundIsRunning'
  BY DEF FoundIsRunning, GuardStates
<1> QED BY <1>1, <1>2, <1>3 DEF Tree!StaleIsStale

LEMMA TreeStep ==
  ASSUME Tree!TreeLockConstants, TreeInv, [Tree!Next]_Tree!vars PROVE TreeInv'
<1> USE DEF TreeInv, TreeTypes, TreePCs, GuardPCs, Tree!Guarded, Tree!Go, Tree!Lock, Tree!Procs
<1>1. ASSUME NEW v \in Validators, Tree!Nested(v) PROVE TreeInv'
  <2>1. treeFlock[v] = "none"
    BY <1>1 DEF Tree!Nested, LocksGranted
  <2> QED BY <1>1, <2>1, ValidatorStep DEF Tree!Nested
<1>2. ASSUME NEW v \in Validators, Tree!Start(v) PROVE TreeInv'
  <2>1. treeFlock[v] = "none"
    BY <1>2 DEF Tree!Start, LocksGranted
  <2> QED BY <1>2, <2>1, ValidatorStep DEF Tree!Start
<1>3. ASSUME NEW v \in Validators, Tree!ProveEmpty(v) PROVE TreeInv'
  <2>1. made /\ treePc[v] = "opened" /\ UNCHANGED <<guard, made>>
        /\ treePc' = [treePc EXCEPT ![v] = "share"]
    BY <1>3 DEF Tree!ProveEmpty, LocksGranted
  <2>2. CASE Tree!CanExclude(v)
    <3>1. treeFlock' = [treeFlock EXCEPT ![v] = "exclusive"]
      BY <1>3, <2>2 DEF Tree!ProveEmpty
    <3>2. \A w \in Validators : ~Tree!Declared(w)
      BY <2>1, <2>2 DEF Tree!CanExclude, Tree!Declared
    <3>3. Tree!StaleIsStale' /\ lines' = {} /\ existing' = existing
      BY <1>3, <2>2, <3>2 DEF Tree!ProveEmpty, Tree!StaleIsStale
    <3> QED BY <2>1, <2>2, <3>1, <3>3, ValidatorLocks
  <2>3. CASE ~Tree!CanExclude(v)
    <3>1. UNCHANGED <<treeFlock, lines, dropped, existing>>
      BY <1>3, <2>3 DEF Tree!ProveEmpty
    <3> QED BY <2>1, <3>1, ValidatorStep
  <2> QED BY <2>2, <2>3
<1>4. ASSUME NEW v \in Validators, Tree!GiveUp(v) PROVE TreeInv'
  <2>1. made /\ treePc' = [treePc EXCEPT ![v] = "share"]
    BY <1>4 DEF Tree!GiveUp, LocksGranted
  <2> QED BY <1>4, <2>1, ValidatorLocks DEF Tree!GiveUp, Tree!StaleIsStale
<1>5. ASSUME NEW v \in Validators, Tree!Share(v) PROVE TreeInv'
  <2>1. made
    BY <1>5 DEF Tree!Share, LocksGranted
  <2> QED BY <1>5, <2>1, ValidatorLocks DEF Tree!Share, Tree!StaleIsStale
<1>6. ASSUME NEW v \in Validators, Tree!ReadLines(v) \/ Tree!Truncate(v) \/ Tree!WriteLines(v)
      PROVE TreeInv'
  <2>1. made /\ treeFlock[v] = "shared"
    BY <1>6 DEF Tree!ReadLines, Tree!Truncate, Tree!WriteLines, LocksGranted
  <2>2. CASE Tree!ReadLines(v)
    <3>1. {w \in lines : Tree!Alive(w)} \subseteq Validators
      OBVIOUS
    <3>2. existing' \in [Validators -> SUBSET Validators]
      BY <2>2, <3>1 DEF Tree!ReadLines
    <3> QED BY <2>1, <2>2, <3>2, ValidatorStep DEF Tree!ReadLines
  <2>3. CASE Tree!Truncate(v)
    BY <2>1, <2>3, ValidatorStep DEF Tree!Truncate
  <2>4. CASE Tree!WriteLines(v)
    BY <2>1, <2>4, ValidatorStep DEF Tree!WriteLines
  <2> QED BY <1>6, <2>2, <2>3, <2>4
<1>7. ASSUME NEW v \in Validators, Tree!End(v) \/ Tree!Kill(v) PROVE TreeInv'
  <2>1. /\ treePc' = [treePc EXCEPT ![v] = "done"]
        /\ treeFlock' = [treeFlock EXCEPT ![v] = "none"]
        /\ UNCHANGED <<guard, made, lines, existing, dropped>>
    BY <1>7 DEF Tree!End, Tree!Kill
  <2> QED BY <2>1, ValidatorLocks DEF Tree!StaleIsStale
<1> USE DEF Tree!Set, Tree!Still
<1>8. ASSUME NEW g \in Guards, Tree!Ask(g) PROVE TreeInv'
  <2>1. PICK i \in Validators \cup {"none"} :
          guard' = [guard EXCEPT ![g] = [pc |-> "asked", inside |-> i,
                                         probed |-> {v \in Validators : Tree!Declared(v)}]]
    BY <1>8 DEF Tree!Ask
  <2>2. UNCHANGED <<treePc, treeFlock, made, dropped, lines, existing>>
    BY <1>8 DEF Tree!Ask
  <2>3. TreeTypes'
    BY <2>1, <2>2 DEF GuardStates
  <2>4. LocksGranted'
    BY <2>1, <2>2 DEF LocksGranted, GuardStates
  <2>5. FoundIsRunning'
    BY <2>1, <2>2 DEF FoundIsRunning, GuardStates, Tree!Declared, LocksGranted
  <2> QED BY <2>2, <2>3, <2>4, <2>5 DEF Tree!StaleIsStale
<1>9. ASSUME NEW g \in Guards, Tree!Probe(g) PROVE TreeInv'
  <2>1. UNCHANGED <<treePc, made, dropped, lines, existing>>
    BY <1>9 DEF Tree!Probe
  <2>2. ~made => guard[g].probed = {}
    BY DEF FoundIsRunning
  <2>3. CASE ~made
    BY <1>9, <2>1, <2>2, <2>3, GuardStep DEF Tree!Probe
  <2>4. CASE made /\ Tree!CanExclude(g)
    BY <1>9, <2>1, <2>4, GuardStep DEF Tree!Probe
  <2>5. CASE made /\ ~Tree!CanExclude(g)
    BY <1>9, <2>1, <2>5, GuardStep DEF Tree!Probe
  <2> QED BY <2>3, <2>4, <2>5
<1>10. ASSUME NEW g \in Guards, Tree!Unlock(g) PROVE TreeInv'
  <2>1. treeFlock[g] = "exclusive"
    BY <1>10 DEF Tree!Unlock, LocksGranted
  <2>2. \A v \in guard[g].probed : treePc[v] = "done"
    BY <2>1 DEF LocksGranted, FoundIsRunning, Tree!TreeLockConstants, GuardStates
  <2> QED BY <1>10, <2>2, GuardStep DEF Tree!Unlock
<1>11. ASSUME NEW g \in Guards, Tree!ProbeFails(g) \/ Tree!Land(g) \/ Tree!Refuse(g)
       PROVE TreeInv'
  BY <1>11, GuardStep DEF Tree!ProbeFails, Tree!Land, Tree!Refuse
<1>12. CASE UNCHANGED Tree!vars
  BY <1>12 DEF Tree!vars, LocksGranted, FoundIsRunning, Tree!StaleIsStale, Tree!Declared
<1> QED
  BY <1>1, <1>2, <1>3, <1>4, <1>5, <1>6, <1>7, <1>8, <1>9, <1>10, <1>11, <1>12
  DEF Tree!Next, Tree!Validate, Tree!Guarding

(* tree_lock.py: a guard that asked while a validation was declared lets   *)
(* its edit through only after that validation is over, whichever other    *)
(* validators and guards take and give back the lock meanwhile, and        *)
(* wherever a wrapper is killed.                                           *)
THEOREM DeclaredIsAlwaysHeeded == Spec => []DeclaredIsHeeded
<1>1. Init => TreeInv
  BY EveryPartStarts, TreeInit, ConstantsAssumption
<1>2. TreeInv /\ [Next]_vars => TreeInv'
  BY OnePartMoves, TreeStep, ConstantsAssumption
<1>3. TreeInv => DeclaredIsHeeded
  BY DEF TreeInv, FoundIsRunning, DeclaredIsHeeded, Tree!DeclaredIsHeeded, Tree!Declared
<1> QED BY <1>1, <1>2, <1>3, PTL DEF Spec

(* tree_lock.py: whoever gets the exclusive lock and empties the file      *)
(* takes no line of a validator that still has its lock.                   *)
THEOREM OnlyStaleLinesGo == Spec => []Tree!StaleIsStale
<1>1. Init => TreeInv
  BY EveryPartStarts, TreeInit, ConstantsAssumption
<1>2. TreeInv /\ [Next]_vars => TreeInv'
  BY OnePartMoves, TreeStep, ConstantsAssumption
<1>3. TreeInv => Tree!StaleIsStale
  BY DEF TreeInv
<1> QED BY <1>1, <1>2, <1>3, PTL DEF Spec
-----------------------------------------------------------------------------
(* BatchClaims: who owns the refs of a plan.                               *)

(* Where the promise holds: no git fetches on in a checkout the machine    *)
(* does not list, the first commit and the removal of the claim are not    *)
(* torn apart by a Ctrl-C, and where a `pr gc` may die no run dies and no  *)
(* ref stays while a run drops it.                                         *)
FaultsApart ==
  \A F \in FaultSets :
    /\ "stray" \notin F /\ "interrupt" \notin F
    /\ "sweeper" \in F => "kill" \notin F /\ "drop" \notin F

PlanStages == {"new", "fetch", "planned", "committed", "driving", "drop", "out"}
RunStates == {"none", "open", "over", "moved", "gone"}
SweepStages ==
  {"idle", "runs", "reap", "scan runs", "scan repos", "claims", "owners", "drop", "dropping"}
PlanStates == [at : PlanStages, left : SUBSET Repos, ok : BOOLEAN]
SweepStates ==
  [at : SweepStages, found : [Plans -> SUBSET Repos], owned : SUBSET Plans,
   todo : SUBSET Plans, on : SUBSET Plans, left : SUBSET Repos, ok : BOOLEAN]

ClaimTypes ==
  /\ claims \subseteq Plans /\ writers \subseteq Plans
  /\ refs \in [Plans -> SUBSET Repos] /\ got \in [Plans -> SUBSET Repos]
  /\ late \in [Plans -> SUBSET Repos]
  /\ saved \in [Plans -> RunStates]
  /\ plan \in [Plans -> PlanStates]
  /\ sweep \in [Sweepers -> SweepStates]
  /\ faults \in FaultSets

(* The refs that only a claim or a run leads a sweep to.                   *)
Far(p) == refs[p] \ Registered

(* What is for good: a plan past its claim fetches nothing more, a run     *)
(* past its drive is never driven again.                                   *)
Begun(p) == plan[p].at \notin {"new", "fetch", "planned", "committed"}
Ended(p) == Begun(p) /\ saved[p] # "open"

StageAgrees(p) ==
  /\ plan[p].at = "new" =>
       p \notin claims /\ refs[p] = {} /\ got[p] = {} /\ late[p] = {} /\ saved[p] = "none"
  /\ plan[p].at \in {"fetch", "planned"} => saved[p] = "none"
  /\ plan[p].at \in {"committed", "driving"} => saved[p] = "open"
  /\ plan[p].at \in {"fetch", "planned", "committed"} => p \in claims /\ p \in writers
  /\ plan[p].at = "drop" => saved[p] \in {"none", "over"}
  /\ saved[p] \in {"moved", "gone"} => plan[p].at = "out"
  /\ late[p] \subseteq Registered
  /\ Far(p) \subseteq got[p]
  /\ plan[p].at = "drop" /\ plan[p].ok => Far(p) \subseteq plan[p].left

(* A sweep drops what nobody will need: the owners it read were all there  *)
(* were, and what begins later was not in its scan.                        *)
SweepAgrees(w) ==
  /\ \A p, q \in w.on : p = q
  /\ w.at \notin {"reap", "dropping"} => w.on = {}
  /\ \A p \in Plans : w.found[p] # {} => plan[p].at # "new"
  /\ w.at = "owners" => \A p \in Plans \ w.owned : w.found[p] # {} => Begun(p)
  /\ w.at \in {"drop", "dropping"} => \A p \in w.todo \cup w.on : Ended(p)
  /\ w.at = "reap" => \A p \in w.on : saved[p] = "moved" /\ (w.ok => Far(p) \subseteq w.left)
  /\ w.at = "dropping" => \A p \in w.on : w.ok /\ p \in claims => Far(p) \subseteq w.left

(* Where a sweep may die, a run that is over has dropped its refs already. *)
OverIsClean(p) ==
  "sweeper" \in faults =>
    /\ plan[p].at = "drop" => plan[p].ok
    /\ plan[p].at = "out" /\ saved[p] \in {"over", "moved"} => Far(p) = {}

Needed(p) == plan[p].at \in {"fetch", "planned", "committed"} \/ saved[p] = "open"
Kept(p) == Needed(p) => got[p] \subseteq refs[p]
Named(p) ==
  Far(p) # {} => p \in claims \/ Claims!Saved(p) \/ \E s \in Sweepers : Claims!Removes(s, p)

PlanAgrees(p) == StageAgrees(p) /\ OverIsClean(p) /\ Kept(p)
OneReaps ==
  \A s, t \in Sweepers : \A p \in Plans : Claims!Removes(s, p) /\ Claims!Removes(t, p) => s = t

ClaimInv ==
  /\ ClaimTypes
  /\ \A p \in Plans : PlanAgrees(p) /\ Named(p)
  /\ \A s \in Sweepers : SweepAgrees(sweep[s])
  /\ OneReaps

LEMMA OwnedPointwise == ClaimInv => Claims!RefsAreOwned
<1> SUFFICES ASSUME ClaimInv PROVE Claims!RefsAreOwned
  OBVIOUS
<1>1. Claims!RefsAreKept
  BY DEF ClaimInv, PlanAgrees, Kept, Needed, Claims!RefsAreKept
<1>2. Claims!RefsAreNamed
  BY DEF ClaimInv, PlanAgrees, Named, StageAgrees, Far, Claims!RefsAreNamed
<1> QED BY <1>1, <1>2 DEF Claims!RefsAreOwned

LEMMA ClaimsInit == Claims!ClaimAssumption /\ Claims!Init => ClaimInv
<1> SUFFICES ASSUME Claims!Init PROVE ClaimInv
  OBVIOUS
<1> USE DEF Claims!Init, Claims!NoDirs, Claims!Out, Claims!Idle
<1>1. \A p \in Plans : plan[p] = [at |-> "new", left |-> {}, ok |-> TRUE] /\ plan[p] \in PlanStates
  BY DEF PlanStates, PlanStages
<1>2. \A s \in Sweepers : sweep[s] \in SweepStates /\ sweep[s].at = "idle" /\ sweep[s].on = {}
                          /\ sweep[s].found = [p \in Plans |-> {}]
  BY DEF SweepStates, SweepStages
<1>3. ClaimTypes
  BY <1>1, <1>2 DEF ClaimTypes, RunStates
<1>4. \A p \in Plans : PlanAgrees(p) /\ Named(p)
  BY <1>1 DEF PlanAgrees, StageAgrees, OverIsClean, Kept, Needed, Named, Far
<1>5. \A s \in Sweepers : SweepAgrees(sweep[s])
  BY <1>2 DEF SweepAgrees
<1>6. OneReaps
  BY <1>2 DEF OneReaps, Claims!Removes
<1> QED BY <1>3, <1>4, <1>5, <1>6 DEF ClaimInv

(* A step of plan p, whatever it is, is fine for the sweeps and for the    *)
(* other plans when what was for good stays so.                            *)
LEMMA PlanStep ==
  ASSUME ClaimInv, NEW p \in Plans, ClaimTypes', UNCHANGED <<sweep, faults>>,
         \A q \in Plans \ {p} :
           /\ plan'[q] = plan[q] /\ refs'[q] = refs[q] /\ got'[q] = got[q]
           /\ late'[q] = late[q] /\ saved'[q] = saved[q]
           /\ q \in claims' <=> q \in claims
           /\ q \in writers' <=> q \in writers,
         plan'[p].at # "new", Begun(p) => Begun(p)', Ended(p) => Ended(p)',
         saved[p] = "moved" => saved'[p] = "moved",
         Begun(p) => Far(p)' \subseteq Far(p) /\ (p \in claims' => p \in claims),
         PlanAgrees(p)', Named(p)'
  PROVE  ClaimInv'
<1>1. \A q \in Plans : PlanAgrees(q)'
  BY DEF ClaimInv, PlanAgrees, StageAgrees, OverIsClean, Kept, Needed, Far
<1>2. \A q \in Plans : Named(q)'
  BY DEF ClaimInv, Named, Far, Claims!Saved, Claims!Removes
<1>3. \A s \in Sweepers : SweepAgrees(sweep[s])'
  <2> SUFFICES ASSUME NEW s \in Sweepers PROVE SweepAgrees(sweep[s])'
    OBVIOUS
  <2>1. SweepAgrees(sweep[s]) /\ sweep[s] \in SweepStates /\ sweep'[s] = sweep[s]
    BY DEF ClaimInv, ClaimTypes
  <2>2. \A q \in Plans :
          /\ plan[q].at # "new" => plan'[q].at # "new"
          /\ Begun(q) => Begun(q)' /\ Far(q)' \subseteq Far(q) /\ (q \in claims' => q \in claims)
          /\ Ended(q) => Ended(q)'
          /\ saved[q] = "moved" => saved'[q] = "moved"
    BY DEF Begun, Ended, Far
  <2>3. \A q \in Plans : saved[q] = "moved" => Begun(q)
    BY DEF ClaimInv, PlanAgrees, StageAgrees, Begun
  <2>4. \A q \in Plans : Ended(q) => Begun(q)
    BY DEF Ended
  <2>5. \A q \in Plans : sweep[s].found[q] # {} => plan'[q].at # "new"
    BY <2>1, <2>2 DEF SweepAgrees
  <2>6. sweep[s].at = "owners" =>
          \A q \in Plans \ sweep[s].owned : sweep[s].found[q] # {} => Begun(q)'
    BY <2>1, <2>2 DEF SweepAgrees
  <2>7. sweep[s].todo \subseteq Plans /\ sweep[s].on \subseteq Plans
    BY <2>1 DEF SweepStates
  <2>8. sweep[s].at \in {"drop", "dropping"} => \A q \in sweep[s].todo \cup sweep[s].on : Ended(q)'
    BY <2>1, <2>2, <2>7 DEF SweepAgrees
  <2>9. sweep[s].at = "reap" =>
          \A q \in sweep[s].on : saved'[q] = "moved" /\ (sweep[s].ok => Far(q)' \subseteq sweep[s].left)
    BY <2>1, <2>2, <2>3, <2>7 DEF SweepAgrees
  <2>10. sweep[s].at = "dropping" =>
          \A q \in sweep[s].on : sweep[s].ok /\ q \in claims' => Far(q)' \subseteq sweep[s].left
    BY <2>1, <2>2, <2>4, <2>7 DEF SweepAgrees
  <2> QED BY <2>1, <2>5, <2>6, <2>8, <2>9, <2>10 DEF SweepAgrees
<1>4. OneReaps'
  BY DEF ClaimInv, OneReaps, Claims!Removes
<1> QED BY <1>1, <1>2, <1>3, <1>4 DEF ClaimInv

(* A step of a sweep that drops nothing and moves no run.                  *)
LEMMA ScanStep ==
  ASSUME ClaimInv, NEW s \in Sweepers, NEW w \in SweepStates,
         UNCHANGED <<claims, writers, refs, saved, got, plan, late, faults>>,
         sweep' = [sweep EXCEPT ![s] = w],
         sweep[s].at # "reap", w.at # "reap", SweepAgrees(w)
  PROVE  ClaimInv'
<1>1. ClaimTypes'
  BY DEF ClaimInv, ClaimTypes
<1>2. \A t \in Sweepers : sweep'[t] = IF t = s THEN w ELSE sweep[t]
  BY DEF ClaimInv, ClaimTypes
<1>3. \A t \in Sweepers : \A p \in Plans : Claims!Removes(t, p)' <=> Claims!Removes(t, p)
  BY <1>2 DEF Claims!Removes
<1>4. \A p \in Plans : PlanAgrees(p)'
  BY DEF ClaimInv, PlanAgrees, StageAgrees, OverIsClean, Kept, Needed, Far
<1>5. \A p \in Plans : Named(p)'
  BY <1>3 DEF ClaimInv, Named, Far, Claims!Saved
<1>6. \A t \in Sweepers : SweepAgrees(sweep[t])'
  <2>1. \A t \in Sweepers : SweepAgrees(sweep'[t])
    BY <1>2 DEF ClaimInv
  <2> QED BY <2>1 DEF SweepAgrees, Begun, Ended, Far
<1>7. OneReaps'
  BY <1>3 DEF ClaimInv, OneReaps
<1> QED BY <1>1, <1>4, <1>5, <1>6, <1>7 DEF ClaimInv

(* What a change of the record of a plan, or of a sweep, comes to.         *)
LEMMA PlanGoes ==
  ASSUME ClaimTypes, NEW p \in Plans, NEW at \in PlanStages
  PROVE  /\ [plan EXCEPT ![p].at = at] \in [Plans -> PlanStates]
         /\ [plan EXCEPT ![p].at = at][p].at = at
         /\ [plan EXCEPT ![p].at = at][p].left = plan[p].left
         /\ [plan EXCEPT ![p].at = at][p].ok = plan[p].ok
         /\ \A q \in Plans \ {p} : [plan EXCEPT ![p].at = at][q] = plan[q]
BY DEF ClaimTypes, PlanStates

LEMMA PlanBecomes ==
  ASSUME ClaimTypes, NEW p \in Plans, NEW e \in PlanStates
  PROVE  /\ [plan EXCEPT ![p] = e] \in [Plans -> PlanStates]
         /\ [plan EXCEPT ![p] = e][p] = e
         /\ \A q \in Plans \ {p} : [plan EXCEPT ![p] = e][q] = plan[q]
BY DEF ClaimTypes, PlanStates

LEMMA PlanStates1 ==
  ASSUME NEW at \in PlanStages, NEW left \in SUBSET Repos, NEW ok \in BOOLEAN
  PROVE  [at |-> at, left |-> left, ok |-> ok] \in PlanStates
BY DEF PlanStates

LEMMA DropDirsTyped ==
  ASSUME ClaimTypes, NEW p \in Plans, NEW dirs \in SUBSET Repos
  PROVE  Claims!DropDirs(p, dirs) \in SUBSET Repos /\ dirs \subseteq Claims!DropDirs(p, dirs)
BY DEF Claims!DropDirs

(* A plan or a run that begins to drop the refs it has.                    *)
LEMMA BeginsToDrop ==
  ASSUME ClaimInv, NEW p \in Plans, NEW dirs \in SUBSET Repos, got[p] \subseteq dirs,
         Claims!Dropping(p, dirs), UNCHANGED <<claims, writers, refs, got, late, sweep, faults>>,
         plan[p].at # "new",
         saved' \in [Plans -> RunStates], \A q \in Plans \ {p} : saved'[q] = saved[q],
         saved'[p] \in {"none", "over"}, saved[p] \in {"none", "open", "over"},
         Ended(p) => saved'[p] # "open",
         Named(p)'
  PROVE  ClaimInv'
<1> USE DEF ClaimInv, ClaimTypes
<1> DEFINE e == [at |-> "drop", left |-> Claims!DropDirs(p, dirs), ok |-> TRUE]
<1>1. e \in PlanStates
  BY DropDirsTyped DEF PlanStates, PlanStages
<1>2. plan' = [plan EXCEPT ![p] = e]
  BY DEF Claims!Dropping
<1>3. /\ plan' \in [Plans -> PlanStates] /\ plan'[p] = e
      /\ \A q \in Plans \ {p} : plan'[q] = plan[q]
  BY <1>1, <1>2, PlanBecomes
<1>4. ClaimTypes'
  BY <1>3
<1>5. dirs \subseteq plan'[p].left /\ plan'[p].at = "drop" /\ plan'[p].ok
  BY <1>3, DropDirsTyped
<1>6. PlanAgrees(p)'
  BY <1>5 DEF PlanAgrees, StageAgrees, OverIsClean, Kept, Needed, Far
<1> QED BY <1>3, <1>4, <1>5, <1>6, PlanStep DEF Begun, Ended, Far

LEMMA PlanActs ==
  ASSUME Claims!ClaimAssumption, FaultsApart, ClaimInv, NEW p \in Plans,
         \/ Claims!WriteClaim(p) \/ Claims!Planned(p) \/ Claims!GiveUp(p) \/ Claims!FirstCommit(p)
         \/ Claims!RemoveClaim(p) \/ Claims!Commit(p) \/ Claims!DropEnds(p) \/ Claims!Leave(p)
         \/ Claims!Reopen(p) \/ Claims!Kill(p)
         \/ \E r \in Repos : Claims!Fetch(p, r) \/ Claims!DropOne(p, r) \/ Claims!LateFetch(p, r)
  PROVE  ClaimInv'
<1> USE DEF ClaimInv, Claims!At, Claims!Go
<1>0. ClaimTypes /\ PlanAgrees(p) /\ Named(p)
  OBVIOUS
<1>1. CASE Claims!WriteClaim(p)
  <2> DEFINE e == [at |-> "fetch", left |-> Repos, ok |-> TRUE]
  <2>1. plan' = [plan EXCEPT ![p] = e] /\ e \in PlanStates
    BY <1>1 DEF Claims!WriteClaim, PlanStates, PlanStages
  <2>2. plan' \in [Plans -> PlanStates] /\ plan'[p] = e /\ \A q \in Plans \ {p} : plan'[q] = plan[q]
    BY <2>1, PlanBecomes
  <2>3. ClaimTypes'
    BY <1>1, <2>2 DEF Claims!WriteClaim, ClaimTypes
  <2>4. PlanAgrees(p)' /\ Named(p)'
    BY <1>0, <1>1, <2>2 DEF Claims!WriteClaim, PlanAgrees, StageAgrees, OverIsClean, Kept, Needed, Named, Far
  <2> QED BY <1>1, <2>2, <2>3, <2>4, PlanStep DEF Claims!WriteClaim, Begun, Ended
<1>2. CASE Claims!Planned(p)
  <2>1. plan' = [plan EXCEPT ![p].at = "planned"] /\ "planned" \in PlanStages
    BY <1>2 DEF Claims!Planned, PlanStages
  <2>2. plan' \in [Plans -> PlanStates] /\ plan'[p].at = "planned"
        /\ \A q \in Plans \ {p} : plan'[q] = plan[q]
    BY <2>1, PlanGoes
  <2>3. ClaimTypes'
    BY <1>2, <2>2 DEF Claims!Planned, ClaimTypes
  <2>4. PlanAgrees(p)' /\ Named(p)'
    BY <1>0, <1>2, <2>2 DEF Claims!Planned, PlanAgrees, StageAgrees, OverIsClean, Kept, Needed, Named, Far
  <2> QED BY <1>2, <2>2, <2>3, <2>4, PlanStep DEF Claims!Planned, Begun, Ended
<1>3. CASE Claims!GiveUp(p)
  <2>1. "interrupt" \notin faults
    BY DEF FaultsApart, ClaimTypes
  <2>2. PICK dirs \in {Repos, got[p]} : Claims!Dropping(p, dirs)
    BY <1>3, <2>1 DEF Claims!GiveUp
  <2>3. plan[p].at \in {"fetch", "planned"} /\ saved[p] = "none" /\ p \in claims
        /\ UNCHANGED <<claims, writers, refs, saved, got, late, sweep, faults>>
    BY <1>0, <1>3, <2>1 DEF Claims!GiveUp, PlanAgrees, StageAgrees
  <2>4. dirs \in SUBSET Repos /\ got[p] \subseteq dirs
    BY <2>2 DEF ClaimTypes
  <2>5. Named(p)'
    BY <2>3 DEF Named
  <2> QED BY <2>2, <2>3, <2>4, <2>5, BeginsToDrop DEF ClaimTypes
<1>4. CASE Claims!FirstCommit(p)
  <2>1. plan' = [plan EXCEPT ![p].at = "committed"] /\ "committed" \in PlanStages
    BY <1>4 DEF Claims!FirstCommit, PlanStages
  <2>2. plan' \in [Plans -> PlanStates] /\ plan'[p].at = "committed"
        /\ \A q \in Plans \ {p} : plan'[q] = plan[q]
    BY <2>1, PlanGoes
  <2>3. ClaimTypes'
    BY <1>4, <2>2 DEF Claims!FirstCommit, ClaimTypes, RunStates
  <2>4. PlanAgrees(p)' /\ Named(p)'
    BY <1>0, <1>4, <2>2 DEF Claims!FirstCommit, ClaimTypes, PlanAgrees, StageAgrees, OverIsClean, Kept, Needed,
       Named, Far
  <2> QED BY <1>0, <1>4, <2>2, <2>3, <2>4, PlanStep
          DEF Claims!FirstCommit, Begun, Ended, PlanAgrees, StageAgrees
<1>5. CASE Claims!RemoveClaim(p)
  <2>1. plan' = [plan EXCEPT ![p].at = "driving"] /\ "driving" \in PlanStages
    BY <1>5 DEF Claims!RemoveClaim, PlanStages
  <2>2. plan' \in [Plans -> PlanStates] /\ plan'[p].at = "driving"
        /\ \A q \in Plans \ {p} : plan'[q] = plan[q]
    BY <2>1, PlanGoes
  <2>3. ClaimTypes'
    BY <1>5, <2>2 DEF Claims!RemoveClaim, ClaimTypes
  <2>4. PlanAgrees(p)' /\ Named(p)'
    BY <1>0, <1>5, <2>2 DEF Claims!RemoveClaim, PlanAgrees, StageAgrees, OverIsClean, Kept, Needed,
       Named, Far, Claims!Saved
  <2> QED BY <1>0, <1>5, <2>2, <2>3, <2>4, PlanStep
          DEF Claims!RemoveClaim, Begun, Ended, PlanAgrees, StageAgrees
<1>6. CASE Claims!Commit(p)
  <2>1. Claims!Dropping(p, got[p]) /\ saved' = [saved EXCEPT ![p] = "over"]
        /\ plan[p].at = "driving" /\ saved[p] = "open"
        /\ UNCHANGED <<claims, writers, refs, got, late, sweep, faults>>
    BY <1>0, <1>6 DEF Claims!Commit, PlanAgrees, StageAgrees
  <2>2. saved' \in [Plans -> RunStates] /\ saved'[p] = "over" /\ \A q \in Plans \ {p} : saved'[q] = saved[q]
    BY <2>1 DEF ClaimTypes, RunStates
  <2>3. Named(p)'
    BY <2>2 DEF Named, Claims!Saved
  <2> QED BY <2>1, <2>2, <2>3, BeginsToDrop DEF ClaimTypes
<1>7. CASE Claims!DropEnds(p)
  <2>1. Claims!Out \in PlanStates
    BY DEF Claims!Out, PlanStates, PlanStages
  <2>2. plan' = [plan EXCEPT ![p] = Claims!Out] /\ plan[p].at = "drop" /\ plan[p].left = {}
        /\ claims' = (IF plan[p].ok THEN claims \ {p} ELSE claims) /\ writers' = writers \ {p}
        /\ UNCHANGED <<refs, saved, got, late, sweep, faults>>
    BY <1>7 DEF Claims!DropEnds, Claims!Retires
  <2>3. plan' \in [Plans -> PlanStates] /\ plan'[p].at = "out" /\ \A q \in Plans \ {p} : plan'[q] = plan[q]
    BY <2>1, <2>2, PlanBecomes DEF Claims!Out
  <2>4. ClaimTypes'
    BY <2>2, <2>3 DEF ClaimTypes
  <2>5. PlanAgrees(p)'
    BY <1>0, <2>2, <2>3 DEF PlanAgrees, StageAgrees, OverIsClean, Kept, Needed, Far
  <2>6. Named(p)'
    BY <1>0, <2>2 DEF Named, PlanAgrees, StageAgrees, Far, Claims!Saved, Claims!Removes
  <2> QED BY <2>2, <2>3, <2>4, <2>5, <2>6, PlanStep DEF Begun, Ended, Far
<1>8. CASE Claims!Leave(p)
  <2>1. Claims!Out \in PlanStates
    BY DEF Claims!Out, PlanStates, PlanStages
  <2>2. plan' = [plan EXCEPT ![p] = Claims!Out] /\ plan[p].at = "driving" /\ writers' = writers \ {p}
        /\ UNCHANGED <<claims, refs, saved, got, late, sweep, faults>>
    BY <1>8 DEF Claims!Leave
  <2>3. plan' \in [Plans -> PlanStates] /\ plan'[p].at = "out" /\ \A q \in Plans \ {p} : plan'[q] = plan[q]
    BY <2>1, <2>2, PlanBecomes DEF Claims!Out
  <2>4. ClaimTypes'
    BY <2>2, <2>3 DEF ClaimTypes
  <2>5. PlanAgrees(p)'
    BY <1>0, <2>2, <2>3 DEF PlanAgrees, StageAgrees, OverIsClean, Kept, Needed, Far
  <2>6. Named(p)'
    BY <1>0, <2>2 DEF Named, Far, Claims!Saved, Claims!Removes
  <2> QED BY <2>2, <2>3, <2>4, <2>5, <2>6, PlanStep DEF Begun, Ended, Far
<1>9. CASE Claims!Reopen(p)
  <2>1. plan[p].at = "out" /\ UNCHANGED <<claims, writers, refs, saved, got, late, sweep, faults>>
    BY <1>9 DEF Claims!Reopen
  <2>2. Named(p)'
    BY <1>0, <2>1 DEF Named, Far, Claims!Saved, Claims!Removes
  <2>3. CASE saved[p] = "open" /\ plan' = [plan EXCEPT ![p].at = "driving"]
    <3>1. "driving" \in PlanStages
      BY DEF PlanStages
    <3>2. plan' \in [Plans -> PlanStates] /\ plan'[p].at = "driving"
          /\ \A q \in Plans \ {p} : plan'[q] = plan[q]
      BY <2>3, <3>1, PlanGoes
    <3>3. ClaimTypes'
      BY <2>1, <3>2 DEF ClaimTypes
    <3>4. PlanAgrees(p)'
      BY <1>0, <2>1, <2>3, <3>2 DEF PlanAgrees, StageAgrees, OverIsClean, Kept, Needed, Far
    <3> QED BY <2>1, <2>2, <2>3, <3>2, <3>3, <3>4, PlanStep DEF Begun, Ended, Far
  <2>4. CASE saved[p] = "over" /\ Claims!Dropping(p, got[p])
    BY <2>1, <2>2, <2>4, BeginsToDrop DEF ClaimTypes
  <2> QED BY <1>9, <2>3, <2>4 DEF Claims!Reopen
<1>10. CASE Claims!Kill(p)
  <2>1. Claims!Out \in PlanStates
    BY DEF Claims!Out, PlanStates, PlanStages
  <2>2. "stray" \notin faults /\ ("sweeper" \in faults => "kill" \notin faults)
    BY DEF FaultsApart, ClaimTypes
  <2>3. plan' = [plan EXCEPT ![p] = Claims!Out] /\ plan[p].at \notin {"new", "out"}
        /\ writers' = writers \ {p} /\ "kill" \in faults
        /\ UNCHANGED <<claims, refs, saved, got, sweep, faults>>
    BY <1>10 DEF Claims!Kill
  <2>4. late' = late \/ \E r \in Registered : late' = [late EXCEPT ![p] = {r}]
    BY <1>10, <2>2 DEF Claims!Kill
  <2>5. plan' \in [Plans -> PlanStates] /\ plan'[p].at = "out" /\ \A q \in Plans \ {p} : plan'[q] = plan[q]
    BY <2>1, <2>3, PlanBecomes DEF Claims!Out
  <2>6. /\ late' \in [Plans -> SUBSET Repos] /\ \A q \in Plans \ {p} : late'[q] = late[q]
        /\ late'[p] \subseteq Registered
    BY <1>0, <2>4 DEF ClaimTypes, PlanAgrees, StageAgrees, Claims!ClaimAssumption
  <2>7. ClaimTypes'
    BY <2>3, <2>5, <2>6 DEF ClaimTypes
  <2>8. PlanAgrees(p)'
    BY <1>0, <2>2, <2>3, <2>5, <2>6 DEF PlanAgrees, StageAgrees, OverIsClean, Kept, Needed, Far
  <2>9. Named(p)'
    BY <1>0, <2>3 DEF Named, Far, Claims!Saved, Claims!Removes
  <2> QED BY <2>3, <2>5, <2>6, <2>7, <2>8, <2>9, PlanStep DEF Begun, Ended, Far
<1>11. ASSUME NEW r \in Repos, Claims!Fetch(p, r) PROVE ClaimInv'
  <2>1. plan[p].at = "fetch" /\ plan' = [plan EXCEPT ![p].left = @ \ {r}]
        /\ UNCHANGED <<claims, writers, saved, late, sweep, faults>>
        /\ \/ refs' = [refs EXCEPT ![p] = @ \cup {r}] /\ got' = [got EXCEPT ![p] = @ \cup {r}]
           \/ UNCHANGED <<refs, got>>
    BY <1>11 DEF Claims!Fetch
  <2>2. plan' \in [Plans -> PlanStates] /\ plan'[p].at = "fetch" /\ \A q \in Plans \ {p} : plan'[q] = plan[q]
    BY <2>1 DEF ClaimTypes, PlanStates
  <2>3. /\ refs' \in [Plans -> SUBSET Repos] /\ got' \in [Plans -> SUBSET Repos]
        /\ \A q \in Plans \ {p} : refs'[q] = refs[q] /\ got'[q] = got[q]
        /\ \/ refs'[p] = refs[p] \cup {r} /\ got'[p] = got[p] \cup {r}
           \/ refs'[p] = refs[p] /\ got'[p] = got[p]
    BY <2>1 DEF ClaimTypes
  <2>4. ClaimTypes'
    BY <2>1, <2>2, <2>3 DEF ClaimTypes
  <2>5. PlanAgrees(p)' /\ Named(p)'
    BY <1>0, <2>1, <2>2, <2>3 DEF PlanAgrees, StageAgrees, OverIsClean, Kept, Needed, Named, Far
  <2> QED BY <2>1, <2>2, <2>3, <2>4, <2>5, PlanStep DEF Begun, Ended
<1>12. ASSUME NEW r \in Repos, Claims!DropOne(p, r) PROVE ClaimInv'
  <2>1. plan[p].at = "drop" /\ UNCHANGED <<claims, writers, saved, got, late, sweep, faults>>
    BY <1>12 DEF Claims!DropOne
  <2>2. \/ /\ refs' = [refs EXCEPT ![p] = @ \ {r}] /\ plan' = [plan EXCEPT ![p].left = @ \ {r}]
        \/ /\ "drop" \in faults /\ refs' = refs
           /\ plan' = [plan EXCEPT ![p].left = @ \ {r}, ![p].ok = FALSE]
    BY <1>12 DEF Claims!DropOne, Claims!Deletes, Claims!MayFail
  <2>3. plan' \in [Plans -> PlanStates] /\ plan'[p].at = "drop" /\ \A q \in Plans \ {p} : plan'[q] = plan[q]
    <3>1. /\ [plan[p] EXCEPT !.left = @ \ {r}] \in PlanStates
          /\ [plan[p] EXCEPT !.left = @ \ {r}, !.ok = FALSE] \in PlanStates
          /\ [plan[p] EXCEPT !.left = @ \ {r}].at = "drop"
          /\ [plan[p] EXCEPT !.left = @ \ {r}, !.ok = FALSE].at = "drop"
      BY <2>1 DEF ClaimTypes, PlanStates
    <3>2. PICK e \in PlanStates : plan' = [plan EXCEPT ![p] = e] /\ e.at = "drop"
      BY <2>2, <3>1
    <3> QED BY <3>2, PlanBecomes
  <2>4. \/ refs'[p] = refs[p] \ {r} /\ plan'[p].left = plan[p].left \ {r} /\ plan'[p].ok = plan[p].ok
        \/ refs'[p] = refs[p] /\ "drop" \in faults /\ ~plan'[p].ok
    BY <2>1, <2>2 DEF ClaimTypes, PlanStates
  <2>5. refs' \in [Plans -> SUBSET Repos] /\ \A q \in Plans \ {p} : refs'[q] = refs[q]
    BY <2>2 DEF ClaimTypes
  <2>6. ClaimTypes'
    BY <2>1, <2>3, <2>5 DEF ClaimTypes
  <2>7. "sweeper" \in faults => "drop" \notin faults
    BY DEF FaultsApart, ClaimTypes
  <2>8. PlanAgrees(p)'
    BY <1>0, <2>1, <2>3, <2>4, <2>7 DEF PlanAgrees, StageAgrees, OverIsClean, Kept, Needed, Far
  <2>9. Named(p)'
    BY <1>0, <2>1, <2>4 DEF Named, Far, Claims!Saved, Claims!Removes
  <2> QED BY <2>1, <2>3, <2>4, <2>5, <2>6, <2>8, <2>9, PlanStep DEF Begun, Ended, Far
<1>13. ASSUME NEW r \in Repos, Claims!LateFetch(p, r) PROVE ClaimInv'
  <2>1. r \in late[p] /\ late' = [late EXCEPT ![p] = @ \ {r}] /\ refs' = [refs EXCEPT ![p] = @ \cup {r}]
        /\ UNCHANGED <<claims, writers, saved, got, plan, sweep, faults>>
    BY <1>13 DEF Claims!LateFetch
  <2>2. ClaimTypes'
    BY <2>1 DEF ClaimTypes
  <2>3. r \in Registered /\ plan[p].at # "new"
    BY <1>0, <2>1 DEF PlanAgrees, StageAgrees
  <2>4. /\ Far(p)' = Far(p) /\ refs'[p] = refs[p] \cup {r} /\ late'[p] \subseteq late[p]
        /\ \A q \in Plans \ {p} : late'[q] = late[q] /\ refs'[q] = refs[q]
    BY <2>1, <2>3 DEF ClaimTypes, Far
  <2>5. PlanAgrees(p)'
    BY <1>0, <2>1, <2>3, <2>4 DEF PlanAgrees, StageAgrees, OverIsClean, Kept, Needed
  <2>6. Named(p)'
    BY <1>0, <2>1, <2>4 DEF Named, Claims!Saved, Claims!Removes
  <2> QED BY <2>1, <2>2, <2>3, <2>4, <2>5, <2>6, PlanStep DEF Begun, Ended
<1> QED BY <1>1, <1>2, <1>3, <1>4, <1>5, <1>6, <1>7, <1>8, <1>9, <1>10, <1>11, <1>12, <1>13

LEMMA SweepTyped ==
  ASSUME ClaimTypes, NEW s \in Sweepers, NEW w \in SweepStates, sweep' = [sweep EXCEPT ![s] = w]
  PROVE  /\ sweep' \in [Sweepers -> SweepStates] /\ sweep'[s] = w
         /\ \A t \in Sweepers \ {s} : sweep'[t] = sweep[t]
BY DEF ClaimTypes

(* The steps that only look: what a sweep knows, and who it takes for the  *)
(* owners.                                                                 *)
LEMMA SweepScans ==
  ASSUME ClaimInv, NEW s \in Sweepers,
         \/ Claims!Begin(s) \/ Claims!ScanClaims(s) \/ Claims!ScanRuns(s) \/ Claims!ScanRepos(s)
         \/ Claims!ReadClaims(s) \/ Claims!ReadRuns(s) \/ Claims!End(s)
         \/ \E p \in Plans : Claims!Pick(s, p)
  PROVE  ClaimInv'
<1> USE DEF ClaimInv, Claims!Sweeps, Claims!Swept
<1> DEFINE v == sweep[s]
<1>0. ClaimTypes /\ v \in SweepStates /\ SweepAgrees(v) /\ \A p \in Plans : StageAgrees(p)
  BY DEF ClaimTypes, PlanAgrees
<1>1. CASE Claims!Begin(s)
  <2> DEFINE w == [v EXCEPT !.at = "runs"]
  <2>1. sweep' = [sweep EXCEPT ![s] = w] /\ v.at = "idle"
    BY <1>1 DEF Claims!Begin
  <2>2. w \in SweepStates /\ w.at = "runs" /\ w.on = v.on /\ w.found = v.found
    BY <1>0 DEF SweepStates, SweepStages
  <2>3. SweepAgrees(w)
    BY <1>0, <2>1, <2>2 DEF SweepAgrees
  <2> QED BY <1>1, <2>1, <2>2, <2>3, ScanStep DEF Claims!Begin
<1>2. CASE Claims!ScanClaims(s)
  <2> DEFINE f == [p \in Plans |-> IF p \in claims THEN Repos ELSE {}]
             w == [v EXCEPT !.at = "scan runs", !.found = f]
  <2>1. sweep' = [sweep EXCEPT ![s] = w] /\ v.at = "runs"
    BY <1>2 DEF Claims!ScanClaims
  <2>2. f \in [Plans -> SUBSET Repos]
    OBVIOUS
  <2>3. w \in SweepStates /\ w.at = "scan runs" /\ w.on = v.on /\ w.found = f
    BY <1>0, <2>2 DEF SweepStates, SweepStages
  <2>4. SweepAgrees(w)
    BY <1>0, <2>1, <2>3 DEF SweepAgrees, StageAgrees
  <2> QED BY <1>2, <2>1, <2>3, <2>4, ScanStep DEF Claims!ScanClaims
<1>3. CASE Claims!ScanRuns(s)
  <2> DEFINE f == [p \in Plans |-> v.found[p] \cup IF Claims!Saved(p) THEN got[p] ELSE {}]
             w == [v EXCEPT !.at = "scan repos", !.found = f]
  <2>1. sweep' = [sweep EXCEPT ![s] = w] /\ v.at = "scan runs"
    BY <1>3 DEF Claims!ScanRuns
  <2>2. f \in [Plans -> SUBSET Repos]
    BY <1>0 DEF SweepStates, ClaimTypes
  <2>3. w \in SweepStates /\ w.at = "scan repos" /\ w.on = v.on /\ w.found = f
    BY <1>0, <2>2 DEF SweepStates, SweepStages
  <2>4. \A p \in Plans : f[p] # {} => plan[p].at # "new"
    <3> SUFFICES ASSUME NEW p \in Plans, plan[p].at = "new" PROVE f[p] = {}
      OBVIOUS
    <3>1. v.found[p] = {} /\ ~Claims!Saved(p)
      BY <1>0 DEF SweepAgrees, StageAgrees, Claims!Saved
    <3> QED BY <3>1
  <2>5. v.on = {}
    BY <1>0, <2>1 DEF SweepAgrees
  <2> HIDE DEF f, w
  <2>6. SweepAgrees(w)
    BY <2>3, <2>4, <2>5 DEF SweepAgrees
  <2> QED BY <1>3, <2>1, <2>3, <2>6, ScanStep DEF Claims!ScanRuns
<1>4. CASE Claims!ScanRepos(s)
  <2> DEFINE known == Registered \cup UNION {v.found[p] : p \in Plans}
             f == [p \in Plans |-> v.found[p] \cup (refs[p] \cap known)]
             w == [v EXCEPT !.at = "claims", !.found = f]
  <2>1. sweep' = [sweep EXCEPT ![s] = w] /\ v.at = "scan repos"
    BY <1>4 DEF Claims!ScanRepos
  <2>2. f \in [Plans -> SUBSET Repos]
    BY <1>0 DEF SweepStates, ClaimTypes
  <2>3. w \in SweepStates /\ w.at = "claims" /\ w.on = v.on /\ w.found = f
    BY <1>0, <2>2 DEF SweepStates, SweepStages
  <2>4. \A p \in Plans : f[p] # {} => plan[p].at # "new"
    <3> SUFFICES ASSUME NEW p \in Plans, plan[p].at = "new" PROVE f[p] = {}
      OBVIOUS
    <3>1. v.found[p] = {} /\ refs[p] = {}
      BY <1>0 DEF SweepAgrees, StageAgrees
    <3> QED BY <3>1
  <2>5. v.on = {}
    BY <1>0, <2>1 DEF SweepAgrees
  <2> HIDE DEF f, w
  <2>6. SweepAgrees(w)
    BY <2>3, <2>4, <2>5 DEF SweepAgrees
  <2> QED BY <1>4, <2>1, <2>3, <2>6, ScanStep DEF Claims!ScanRepos
<1>5. CASE Claims!ReadClaims(s)
  <2>1. PICK live \in SUBSET claims :
          /\ \A p \in claims : (p \in live) \in Claims!Live(p)
          /\ sweep' = [sweep EXCEPT ![s].at = "owners", ![s].owned = live]
    BY <1>5 DEF Claims!ReadClaims
  <2> DEFINE w == [v EXCEPT !.at = "owners", !.owned = live]
  <2>2. sweep' = [sweep EXCEPT ![s] = w] /\ v.at = "claims"
    BY <1>5, <2>1 DEF Claims!ReadClaims
  <2>3. w \in SweepStates /\ w.at = "owners" /\ w.on = v.on /\ w.found = v.found /\ w.owned = live
    BY <1>0 DEF SweepStates, SweepStages, ClaimTypes
  <2>4. \A p \in Plans : p \notin live /\ p \in claims => p \notin writers
    BY <2>1 DEF Claims!Live
  <2>5. \A p \in Plans \ live : v.found[p] # {} => Begun(p)
    BY <1>0, <2>4 DEF SweepAgrees, StageAgrees, Begun
  <2>6. SweepAgrees(w)
    BY <1>0, <2>2, <2>3, <2>5 DEF SweepAgrees
  <2> QED BY <1>5, <2>2, <2>3, <2>6, ScanStep DEF Claims!ReadClaims
<1>6. CASE Claims!ReadRuns(s)
  <2> DEFINE owned == v.owned \cup {p \in Plans : Claims!Saved(p)}
             todo == {p \in Plans \ owned : v.found[p] # {}}
             w == [v EXCEPT !.at = "drop", !.owned = {}, !.todo = todo]
  <2>1. sweep' = [sweep EXCEPT ![s] = w] /\ v.at = "owners"
    BY <1>6 DEF Claims!ReadRuns
  <2>2. w \in SweepStates /\ w.at = "drop" /\ w.on = v.on /\ w.found = v.found /\ w.todo = todo
    BY <1>0 DEF SweepStates, SweepStages
  <2>3. \A p \in todo : Ended(p)
    BY <1>0, <2>1 DEF SweepAgrees, Ended, Claims!Saved
  <2>4. SweepAgrees(w)
    BY <1>0, <2>1, <2>2, <2>3 DEF SweepAgrees
  <2> QED BY <1>6, <2>1, <2>2, <2>4, ScanStep DEF Claims!ReadRuns
<1>7. CASE Claims!End(s)
  <2>1. Claims!Idle \in SweepStates /\ Claims!Idle.at = "idle" /\ Claims!Idle.on = {}
        /\ Claims!Idle.found = [p \in Plans |-> {}]
    BY DEF Claims!Idle, Claims!NoDirs, SweepStates, SweepStages
  <2>2. SweepAgrees(Claims!Idle)
    BY <2>1 DEF SweepAgrees
  <2> QED BY <1>7, <2>1, <2>2, ScanStep DEF Claims!End
<1>8. ASSUME NEW p \in Plans, Claims!Pick(s, p) PROVE ClaimInv'
  <2> DEFINE left == Claims!DropDirs(p, v.found[p])
             w == [v EXCEPT !.at = "dropping", !.on = {p}, !.todo = v.todo \ {p}, !.left = left, !.ok = TRUE]
  <2>1. sweep' = [sweep EXCEPT ![s] = w] /\ v.at = "drop" /\ p \in v.todo
    <3> DEFINE f == [sweep EXCEPT ![s].at = "dropping", ![s].on = {p}, ![s].todo = @ \ {p},
                      ![s].left = left, ![s].ok = TRUE]
    <3>1. sweep' = f /\ v.at = "drop" /\ p \in v.todo
      BY <1>8 DEF Claims!Pick
    <3>2. f \in [Sweepers -> {f[t] : t \in Sweepers}] /\ \A t \in Sweepers \ {s} : f[t] = sweep[t]
      BY <1>0 DEF ClaimTypes
    <3>3. f[s] = w
      BY <1>0 DEF ClaimTypes, SweepStates
    <3> HIDE DEF f, w
    <3>4. f = [sweep EXCEPT ![s] = w]
      BY <1>0, <3>2, <3>3 DEF ClaimTypes
    <3> QED BY <3>1, <3>4
  <2>2. left \in SUBSET Repos /\ (p \in claims => Far(p) \subseteq left)
    BY <1>0 DEF Claims!DropDirs, SweepStates, ClaimTypes, Far
  <2>3. w \in SweepStates /\ w.at = "dropping" /\ w.on = {p} /\ w.found = v.found
        /\ w.todo = v.todo \ {p} /\ w.left = left
    BY <1>0, <2>2 DEF SweepStates, SweepStages
  <2>4. SweepAgrees(w)
    BY <1>0, <2>1, <2>2, <2>3 DEF SweepAgrees
  <2> QED BY <1>8, <2>1, <2>3, <2>4, ScanStep DEF Claims!Pick
<1> QED BY <1>1, <1>2, <1>3, <1>4, <1>5, <1>6, <1>7, <1>8

(* The steps that drop refs, a claim or a run.                             *)
LEMMA SweepDrops ==
  ASSUME Claims!ClaimAssumption, FaultsApart, ClaimInv, NEW s \in Sweepers, NEW p \in Plans,
         \/ Claims!Reap(s, p) \/ Claims!ReapEnds(s, p) \/ Claims!PickEnds(s, p)
         \/ \E r \in Repos : Claims!SweepOne(s, p, r)
  PROVE  ClaimInv'
<1> USE DEF ClaimInv, Claims!Sweeps, Claims!Swept
<1> DEFINE v == sweep[s]
<1>0. /\ ClaimTypes /\ v \in SweepStates /\ SweepAgrees(v) /\ OneReaps
      /\ \A q \in Plans : PlanAgrees(q) /\ StageAgrees(q) /\ Named(q)
      /\ \A t \in Sweepers : SweepAgrees(sweep[t])
  BY DEF ClaimTypes, PlanAgrees
<1>1. CASE Claims!Reap(s, p)
  <2> DEFINE left == Claims!DropDirs(p, got[p])
             w == [v EXCEPT !.at = "reap", !.on = {p}, !.left = left, !.ok = TRUE]
  <2>1. sweep' = [sweep EXCEPT ![s] = w] /\ v.at = "runs" /\ saved[p] = "over" /\ plan[p].at = "out"
        /\ saved' = [saved EXCEPT ![p] = "moved"]
        /\ UNCHANGED <<claims, writers, refs, got, plan, late, faults>>
    BY <1>1 DEF Claims!Reap, Claims!At
  <2>2. left \in SUBSET Repos /\ Far(p) \subseteq left
    BY <1>0 DEF Claims!DropDirs, ClaimTypes, StageAgrees
  <2>3. w \in SweepStates /\ w.at = "reap" /\ w.on = {p} /\ w.found = v.found /\ w.left = left
    BY <1>0, <2>2 DEF SweepStates, SweepStages
  <2>4. saved' \in [Plans -> RunStates] /\ saved'[p] = "moved" /\ \A q \in Plans \ {p} : saved'[q] = saved[q]
    BY <1>0, <2>1 DEF ClaimTypes, RunStates
  <2>5. sweep' \in [Sweepers -> SweepStates] /\ sweep'[s] = w
        /\ \A t \in Sweepers \ {s} : sweep'[t] = sweep[t]
    BY <1>0, <2>1, <2>3, SweepTyped
  <2>6. ClaimTypes'
    BY <1>0, <2>1, <2>4, <2>5 DEF ClaimTypes
  <2>7. \A q \in Plans : PlanAgrees(q)'
    BY <1>0, <2>1, <2>4 DEF PlanAgrees, StageAgrees, OverIsClean, Kept, Needed, Far
  <2>8. Claims!Removes(s, p)'
    BY <2>3, <2>5 DEF Claims!Removes
  <2>9. \A t \in Sweepers, q \in Plans : Claims!Removes(t, q) => Claims!Removes(t, q)'
    BY <2>1, <2>5 DEF Claims!Removes
  <2>10. \A q \in Plans : Named(q)'
    BY <1>0, <2>1, <2>4, <2>8, <2>9 DEF Named, Far, Claims!Saved
  <2>11. SweepAgrees(sweep[s])'
    BY <1>0, <2>1, <2>2, <2>3, <2>4, <2>5 DEF SweepAgrees, Far
  <2>12. \A t \in Sweepers \ {s} : SweepAgrees(sweep[t])'
    BY <1>0, <2>1, <2>4, <2>5 DEF SweepAgrees, Begun, Ended, Far, ClaimTypes, SweepStates
  <2>13. \A t \in Sweepers \ {s} : ~Claims!Removes(t, p)
    BY <1>0, <2>1 DEF SweepAgrees, Claims!Removes
  <2>14. OneReaps'
    <3>1. \A q \in Plans : Claims!Removes(s, q)' => q = p
      BY <2>3, <2>5 DEF Claims!Removes
    <3>2. \A t \in Sweepers \ {s}, q \in Plans : Claims!Removes(t, q)' <=> Claims!Removes(t, q)
      BY <2>5 DEF Claims!Removes
    <3> QED BY <1>0, <2>13, <3>1, <3>2 DEF OneReaps
  <2> QED BY <2>6, <2>7, <2>10, <2>11, <2>12, <2>14
<1>2. CASE Claims!ReapEnds(s, p)
  <2> DEFINE w == [v EXCEPT !.at = "runs", !.on = {}]
             end == IF v.ok THEN "gone" ELSE "over"
  <2>1. sweep' = [sweep EXCEPT ![s] = w] /\ v.at = "reap" /\ p \in v.on /\ v.left = {}
        /\ saved' = [saved EXCEPT ![p] = end]
        /\ claims' = (IF v.ok THEN claims \ {p} ELSE claims)
        /\ UNCHANGED <<writers, refs, got, plan, late, faults>>
    BY <1>2 DEF Claims!ReapEnds, Claims!Retires
  <2>2. w \in SweepStates /\ w.at = "runs" /\ w.on = {} /\ w.found = v.found
    BY <1>0 DEF SweepStates, SweepStages
  <2>3. saved' \in [Plans -> RunStates] /\ saved'[p] = end /\ \A q \in Plans \ {p} : saved'[q] = saved[q]
    BY <1>0, <2>1 DEF ClaimTypes, RunStates
  <2>4. sweep' \in [Sweepers -> SweepStates] /\ sweep'[s] = w
        /\ \A t \in Sweepers \ {s} : sweep'[t] = sweep[t]
    BY <1>0, <2>1, <2>2, SweepTyped
  <2>5. saved[p] = "moved" /\ plan[p].at = "out" /\ (v.ok => Far(p) = {})
    BY <1>0, <2>1 DEF SweepAgrees, StageAgrees
  <2>6. ClaimTypes'
    BY <1>0, <2>1, <2>3, <2>4 DEF ClaimTypes
  <2>7. \A q \in Plans : PlanAgrees(q)'
    BY <1>0, <2>1, <2>3, <2>5 DEF PlanAgrees, StageAgrees, OverIsClean, Kept, Needed, Far
  <2>8. \A t \in Sweepers, q \in Plans \ {p} : Claims!Removes(t, q) => Claims!Removes(t, q)'
    BY <1>0, <2>1, <2>4 DEF Claims!Removes, SweepAgrees
  <2>9. Named(p)'
    BY <2>1, <2>3, <2>5 DEF Named, Far, Claims!Saved
  <2>10. \A q \in Plans \ {p} : Named(q)'
    BY <1>0, <2>1, <2>3, <2>8 DEF Named, Far, Claims!Saved
  <2>11. SweepAgrees(sweep[s])'
    BY <1>0, <2>1, <2>2, <2>4 DEF SweepAgrees
  <2>12. ASSUME NEW t \in Sweepers \ {s} PROVE SweepAgrees(sweep[t])'
    <3>1. SweepAgrees(sweep[t]) /\ sweep'[t] = sweep[t] /\ sweep[t] \in SweepStates
      BY <1>0, <2>4 DEF ClaimTypes
    <3>2. sweep[t].at = "reap" => p \notin sweep[t].on
      BY <1>0, <2>1 DEF OneReaps, Claims!Removes
    <3>3. \A q \in Plans : (Begun(q) => Begun(q)') /\ (Ended(q) => Ended(q)')
      BY <2>1, <2>3 DEF Begun, Ended
    <3> QED BY <2>1, <2>3, <3>1, <3>2, <3>3 DEF SweepAgrees, Far, SweepStates
  <2>13. OneReaps'
    BY <1>0, <2>2, <2>4 DEF OneReaps, Claims!Removes
  <2> QED BY <2>6, <2>7, <2>9, <2>10, <2>11, <2>12, <2>13
<1>3. CASE Claims!PickEnds(s, p)
  <2> DEFINE w == [v EXCEPT !.at = "drop", !.on = {}]
  <2>1. sweep' = [sweep EXCEPT ![s] = w] /\ v.at = "dropping" /\ p \in v.on /\ v.left = {}
        /\ claims' = (IF v.ok THEN claims \ {p} ELSE claims)
        /\ UNCHANGED <<writers, refs, saved, got, plan, late, faults>>
    BY <1>3 DEF Claims!PickEnds, Claims!Retires
  <2>2. w \in SweepStates /\ w.at = "drop" /\ w.on = {} /\ w.found = v.found /\ w.todo = v.todo
    BY <1>0 DEF SweepStates, SweepStages
  <2>3. sweep' \in [Sweepers -> SweepStates] /\ sweep'[s] = w
        /\ \A t \in Sweepers \ {s} : sweep'[t] = sweep[t]
    BY <1>0, <2>1, <2>2, SweepTyped
  <2>4. Ended(p) /\ (v.ok /\ p \in claims => Far(p) = {})
    BY <1>0, <2>1 DEF SweepAgrees
  <2>5. ClaimTypes'
    BY <1>0, <2>1, <2>3 DEF ClaimTypes
  <2>6. \A q \in Plans : PlanAgrees(q)'
    BY <1>0, <2>1, <2>4 DEF PlanAgrees, StageAgrees, OverIsClean, Kept, Needed, Far, Ended, Begun
  <2>7. \A t \in Sweepers, q \in Plans : Claims!Removes(t, q)' <=> Claims!Removes(t, q)
    BY <2>1, <2>2, <2>3 DEF Claims!Removes
  <2>8. \A q \in Plans : Named(q)'
    BY <1>0, <2>1, <2>4, <2>7 DEF Named, Far, Claims!Saved
  <2>9. SweepAgrees(sweep[s])'
    BY <1>0, <2>1, <2>2, <2>3 DEF SweepAgrees, Begun, Ended
  <2>10. \A t \in Sweepers \ {s} : SweepAgrees(sweep[t])'
    BY <1>0, <2>1, <2>3 DEF SweepAgrees, Begun, Ended, Far
  <2>11. OneReaps'
    BY <1>0, <2>7 DEF OneReaps
  <2> QED BY <2>5, <2>6, <2>8, <2>9, <2>10, <2>11
<1>4. ASSUME NEW r \in Repos, Claims!SweepOne(s, p, r) PROVE ClaimInv'
  <2>1. /\ v.at \in {"reap", "dropping"} /\ p \in v.on /\ r \in v.left
        /\ UNCHANGED <<claims, writers, saved, got, plan, late, faults>>
    BY <1>4 DEF Claims!SweepOne
  <2>2. PICK w \in SweepStates :
          /\ sweep' = [sweep EXCEPT ![s] = w]
          /\ w.at = v.at /\ w.on = v.on /\ w.found = v.found /\ w.todo = v.todo /\ w.owned = v.owned
          /\ \/ refs' = [refs EXCEPT ![p] = @ \ {r}] /\ w.left = v.left \ {r} /\ w.ok = v.ok
             \/ refs' = refs /\ ~w.ok
    <3> DEFINE a == [v EXCEPT !.left = @ \ {r}]
               b == [v EXCEPT !.left = @ \ {r}, !.ok = FALSE]
    <3>1. \/ refs' = [refs EXCEPT ![p] = @ \ {r}] /\ sweep' = [sweep EXCEPT ![s] = a]
          \/ refs' = refs /\ sweep' = [sweep EXCEPT ![s] = b]
      BY <1>4 DEF Claims!SweepOne, Claims!Deletes
    <3>2. /\ a \in SweepStates /\ b \in SweepStates
          /\ a.at = v.at /\ a.on = v.on /\ a.found = v.found /\ a.todo = v.todo /\ a.owned = v.owned
          /\ a.left = v.left \ {r} /\ a.ok = v.ok
          /\ b.at = v.at /\ b.on = v.on /\ b.found = v.found /\ b.todo = v.todo /\ b.owned = v.owned
          /\ ~b.ok
      BY <1>0 DEF SweepStates
    <3> HIDE DEF a, b
    <3> QED BY <3>1, <3>2
  <2>3. sweep' \in [Sweepers -> SweepStates] /\ sweep'[s] = w
        /\ \A t \in Sweepers \ {s} : sweep'[t] = sweep[t]
    BY <1>0, <2>2, SweepTyped
  <2>4. /\ refs' \in [Plans -> SUBSET Repos] /\ \A q \in Plans \ {p} : refs'[q] = refs[q]
        /\ \/ refs'[p] = refs[p] \ {r} /\ w.left = v.left \ {r} /\ w.ok = v.ok
           \/ refs'[p] = refs[p] /\ ~w.ok
    BY <1>0, <2>2 DEF ClaimTypes
  <2>5. \A q \in Plans : Far(q)' \subseteq Far(q) /\ (q # p => Far(q)' = Far(q))
    BY <2>4 DEF Far
  <2>6. ~Needed(p)
    BY <1>0, <2>1 DEF SweepAgrees, StageAgrees, Needed, Ended, Begun
  <2>7. plan[p].at # "new"
    BY <2>6, <1>0, <2>1 DEF SweepAgrees, StageAgrees, Ended, Begun
  <2>8. ClaimTypes'
    BY <1>0, <2>1, <2>3, <2>4 DEF ClaimTypes
  <2>9. \A q \in Plans : PlanAgrees(q)'
    BY <1>0, <2>1, <2>4, <2>5, <2>6, <2>7 DEF PlanAgrees, StageAgrees, OverIsClean, Kept, Needed
  <2>10. \A t \in Sweepers, q \in Plans : Claims!Removes(t, q)' <=> Claims!Removes(t, q)
    BY <2>2, <2>3 DEF Claims!Removes
  <2>11. \A q \in Plans : Named(q)'
    BY <1>0, <2>1, <2>5, <2>10 DEF Named, Claims!Saved
  <2>12. SweepAgrees(sweep[s])'
    <3>1. SweepAgrees(v) /\ v.on \subseteq Plans /\ \A q \in v.on : q = p
      BY <1>0, <2>1 DEF SweepAgrees, SweepStates
    <3>2. \A q \in Plans : (Begun(q)' <=> Begun(q)) /\ (Ended(q)' <=> Ended(q))
      BY <2>1 DEF Begun, Ended
    <3>3. w.ok => v.ok /\ (Far(p) \subseteq v.left => Far(p)' \subseteq w.left)
      BY <2>4 DEF Far
    <3>5. \A q \in w.on : w.ok => v.ok /\ (Far(q) \subseteq v.left => Far(q)' \subseteq w.left)
      BY <2>2, <3>1, <3>3
    <3>6. (\A q \in Plans : w.found[q] # {} => plan'[q].at # "new") /\ w.at # "owners"
      BY <2>1, <2>2, <3>1 DEF SweepAgrees
    <3>7. w.at \in {"drop", "dropping"} => \A q \in w.todo \cup w.on : Ended(q)'
      <4>1. w.todo \subseteq Plans /\ w.on \subseteq Plans
        BY <2>2 DEF SweepStates
      <4> QED BY <2>2, <3>1, <3>2, <4>1 DEF SweepAgrees
    <3>8. w.at = "reap" => \A q \in w.on : saved'[q] = "moved" /\ (w.ok => Far(q)' \subseteq w.left)
      BY <2>1, <2>2, <3>1, <3>5 DEF SweepAgrees
    <3>9. w.at = "dropping" => \A q \in w.on : w.ok /\ q \in claims' => Far(q)' \subseteq w.left
      BY <2>1, <2>2, <3>1, <3>5 DEF SweepAgrees
    <3>10. (\A q, t \in w.on : q = t) /\ (w.at \notin {"reap", "dropping"} => w.on = {})
      BY <2>1, <2>2, <3>1 DEF SweepAgrees
    <3> QED BY <2>3, <3>6, <3>7, <3>8, <3>9, <3>10 DEF SweepAgrees
  <2>13. ASSUME NEW t \in Sweepers \ {s} PROVE SweepAgrees(sweep[t])'
    <3>1. SweepAgrees(sweep[t]) /\ sweep'[t] = sweep[t] /\ sweep[t] \in SweepStates
      BY <1>0, <2>3 DEF ClaimTypes
    <3>2. \A q \in Plans : (Begun(q)' <=> Begun(q)) /\ (Ended(q)' <=> Ended(q))
      BY <2>1 DEF Begun, Ended
    <3> QED BY <2>1, <2>5, <3>1, <3>2 DEF SweepAgrees, SweepStates
  <2>14. OneReaps'
    BY <1>0, <2>10 DEF OneReaps
  <2> QED BY <2>8, <2>9, <2>11, <2>12, <2>13, <2>14
<1> QED BY <1>1, <1>2, <1>3, <1>4

(* A `pr gc` that dies leaves the run it had moved aside without a name,   *)
(* which is harmless for it has no refs left.                              *)
LEMMA SweeperDies ==
  ASSUME ClaimInv, NEW s \in Sweepers, Claims!KillSweeper(s) PROVE ClaimInv'
<1> USE DEF ClaimInv
<1>1. /\ "sweeper" \in faults /\ sweep' = [sweep EXCEPT ![s] = Claims!Idle]
      /\ UNCHANGED <<claims, writers, refs, saved, got, plan, late, faults>>
  BY DEF Claims!KillSweeper
<1>2. Claims!Idle \in SweepStates /\ Claims!Idle.at = "idle" /\ Claims!Idle.on = {}
      /\ Claims!Idle.found = [p \in Plans |-> {}]
  BY DEF Claims!Idle, Claims!NoDirs, SweepStates, SweepStages
<1>3. sweep' \in [Sweepers -> SweepStates] /\ sweep'[s] = Claims!Idle
      /\ \A t \in Sweepers \ {s} : sweep'[t] = sweep[t]
  BY <1>1, <1>2, SweepTyped
<1>4. ClaimTypes'
  BY <1>1, <1>3 DEF ClaimTypes
<1>5. \A p \in Plans : PlanAgrees(p)'
  BY <1>1 DEF PlanAgrees, StageAgrees, OverIsClean, Kept, Needed, Far
<1>6. ASSUME NEW p \in Plans PROVE Named(p)'
  <2>1. CASE Claims!Removes(s, p)
    <3>1. saved[p] = "moved" /\ plan[p].at = "out"
      BY <2>1 DEF Claims!Removes, SweepAgrees, PlanAgrees, StageAgrees
    <3>2. Far(p)' = {}
      BY <1>1, <3>1 DEF PlanAgrees, OverIsClean, Far
    <3> QED BY <3>2 DEF Named
  <2>2. CASE ~Claims!Removes(s, p)
    <3>1. \A t \in Sweepers : Claims!Removes(t, p) => Claims!Removes(t, p)'
      BY <1>3, <2>2 DEF Claims!Removes
    <3> QED BY <1>1, <3>1 DEF Named, Far, Claims!Saved
  <2> QED BY <2>1, <2>2
<1>7. \A t \in Sweepers : SweepAgrees(sweep[t])'
  <2>1. SweepAgrees(Claims!Idle)'
    BY <1>2 DEF SweepAgrees, Claims!Idle, Claims!NoDirs
  <2>2. SweepAgrees(sweep[s])'
    BY <1>2, <1>3 DEF SweepAgrees
  <2>3. \A t \in Sweepers \ {s} : SweepAgrees(sweep[t])'
    BY <1>1, <1>3 DEF SweepAgrees, Begun, Ended, Far
  <2> QED BY <2>2, <2>3
<1>8. OneReaps'
  BY <1>2, <1>3 DEF OneReaps, Claims!Removes
<1> QED BY <1>4, <1>5, <1>6, <1>7, <1>8

LEMMA ClaimStep ==
  ASSUME Claims!ClaimAssumption, FaultsApart, ClaimInv, [Claims!Next]_Claims!vars PROVE ClaimInv'
<1>1. CASE UNCHANGED Claims!vars
  BY <1>1 DEF Claims!vars, ClaimInv, ClaimTypes, PlanAgrees, StageAgrees, OverIsClean, Kept, Needed,
     Named, Far, SweepAgrees, Begun, Ended, OneReaps, Claims!Saved, Claims!Removes
<1> QED BY <1>1, PlanActs, SweepScans, SweepDrops, SweeperDies DEF Claims!Next

(* plan.py, gc.py: whatever plans, runs and sweeps run side by side, and   *)
(* whichever of them dies under FaultsApart, no sweep takes the refs of a  *)
(* plan being made or of a run that is not over, and the refs that are     *)
(* left are led to by a claim, a run or the list of projects.              *)
THEOREM RefsAreAlwaysOwned ==
  ASSUME FaultsApart PROVE Spec => []RefsAreOwned
<1>1. Init => ClaimInv
  BY EveryPartStarts, ClaimsInit, ConstantsAssumption
<1>2. ClaimInv /\ [Next]_vars => ClaimInv'
  BY OnePartMoves, ClaimStep, ConstantsAssumption
<1>3. ClaimInv => RefsAreOwned
  BY OwnedPointwise DEF RefsAreOwned
<1> QED BY <1>1, <1>2, <1>3, PTL DEF Spec
=============================================================================
