---------------------------- MODULE RebaseStash ----------------------------
(***************************************************************************)
(* The auto-stash of `pr rebase` (rebase/stash.py, rebase/commands.py):    *)
(* uncommitted work is stashed before a replay and given back after it, by *)
(* this run or, when the replay stopped, by the run that finishes it.      *)
(* The linked worktrees of one repository have one stash stack, and each   *)
(* may run its own rebase.                                                 *)
(***************************************************************************)
EXTENDS Naturals, Sequences, FiniteSets, SequencesExt

CONSTANTS
  Trees,
  Edits,            \* the pieces of uncommitted work that are ever made
  MaxRuns,
  Kills

\* What the constants may be: whoever instantiates this module assumes it.
StashAssumption == MaxRuns \in Nat /\ Kills \in BOOLEAN

VARIABLES
  tree,       \* the uncommitted work that lies in a worktree
  stack,      \* the stash, newest entry first
  replaying,  \* a rebase is in progress in the worktree
  pc,
  owes,       \* this run owes the restore
  ref,        \* the stash@{n} it looked up
  home, made, \* history: where a piece was made; which were made
  excused,    \* history: the worktree's entry was left behind on purpose, or by a kill
  runs

vars == <<tree, stack, replaying, pc, owes, ref, home, made, excused, runs>>

Entry(w, msg) == [from |-> w, msg |-> msg, work |-> tree[w]]
Stashed == UNION {stack[i].work : i \in DOMAIN stack}

Init ==
  /\ tree = [w \in Trees |-> {}] /\ stack = <<>> /\ replaying = [w \in Trees |-> FALSE]
  /\ pc = [w \in Trees |-> "off"] /\ owes = [w \in Trees |-> FALSE] /\ ref = [w \in Trees |-> 0]
  /\ home = [e \in Edits |-> CHOOSE w \in Trees : TRUE] /\ made = {}
  /\ excused = [w \in Trees |-> FALSE] /\ runs = 0

To(w, label) == pc' = [pc EXCEPT ![w] = label]
History == <<home, made, excused>>
-----------------------------------------------------------------------------
(* auto_stash, the replay, and the guard of restore.                       *)

Fresh(w) ==
  /\ pc[w] = "off" /\ ~replaying[w] /\ runs < MaxRuns /\ runs' = runs + 1
  /\ \/ tree[w] # {} /\ stack' = <<Entry(w, "auto")>> \o stack /\ tree' = [tree EXCEPT ![w] = {}]
     \/ tree[w] = {} /\ UNCHANGED <<stack, tree>>
  /\ owes' = [owes EXCEPT ![w] = tree[w] # {}]
  /\ To(w, "replay")
  /\ UNCHANGED <<replaying, ref, History>>

ResumeOwesNot(w) == FALSE     \* Mutant: only the run that stashed restores.
ResumeOwes(w) == TRUE

Resume(w) ==
  /\ pc[w] = "off" /\ replaying[w] /\ runs < MaxRuns /\ runs' = runs + 1
  /\ owes' = [owes EXCEPT ![w] = ResumeOwes(w)]
  /\ To(w, "replay")
  /\ UNCHANGED <<tree, stack, replaying, ref, History>>

\* Finished, stopped, refused or aborted: the restore comes in any case.
Replay(w) ==
  /\ pc[w] = "replay"
  /\ \E stopped \in BOOLEAN : replaying' = [replaying EXCEPT ![w] = stopped]
  /\ To(w, IF owes[w] THEN "restore" ELSE "off")
  /\ UNCHANGED <<tree, stack, owes, ref, History, runs>>

IsNewest(i) == i = 1          \* Mutant: whatever was stashed last.
IsOurs(i) == stack[i].msg = "auto" /\ \A j \in 1..(i - 1) : stack[j].msg # "auto"
GuardNone(w) == FALSE         \* Mutant: pops into the index of a replay.
Guard(w) == replaying[w]

Restore(w) ==
  /\ pc[w] = "restore"
  /\ \/ /\ ~Guard(w)
        /\ \E i \in DOMAIN stack : IsOurs(i) /\ ref' = [ref EXCEPT ![w] = i]
        /\ To(w, "pop")
     \/ /\ Guard(w) \/ ~\E i \in DOMAIN stack : IsOurs(i)
        /\ To(w, "off") /\ UNCHANGED ref
  /\ UNCHANGED <<tree, stack, replaying, owes, History, runs>>

PoppedFrom(w, i) == tree' = [tree EXCEPT ![w] = @ \cup stack[i].work]
There(w) == pc[w] = "pop" /\ ref[w] \in DOMAIN stack

Pop(w) ==
  /\ There(w) /\ ~replaying[w]
  /\ PoppedFrom(w, ref[w]) /\ stack' = RemoveAt(stack, ref[w])
  /\ To(w, "off")
  /\ UNCHANGED <<replaying, owes, ref, History, runs>>

\* git refuses, or there is nothing at the index any more: the entry is kept and named.
PopFails(w) ==
  /\ pc[w] = "pop" /\ To(w, "off")
  /\ excused' = [excused EXCEPT ![w] = TRUE]
  /\ UNCHANGED <<tree, stack, replaying, owes, ref, home, made, runs>>

\* The pop conflicts: the work is in the tree with markers, and the entry is kept.
PopConflicts(w) ==
  /\ There(w) /\ ~replaying[w]
  /\ PoppedFrom(w, ref[w])
  /\ \/ To(w, "drop") /\ UNCHANGED excused
     \/ To(w, "off") /\ excused' = [excused EXCEPT ![w] = TRUE]
  /\ UNCHANGED <<stack, replaying, owes, ref, home, made, runs>>

\* After the model resolved every file, the index that was looked up is dropped.
DropFirst(w) == 1             \* Mutant: drops stash@{0}.
DropAt(w) == ref[w]

Drop(w) ==
  /\ pc[w] = "drop" /\ To(w, "off")
  /\ stack' = IF DropAt(w) \in DOMAIN stack THEN RemoveAt(stack, DropAt(w)) ELSE stack
  /\ UNCHANGED <<tree, replaying, owes, ref, History, runs>>
-----------------------------------------------------------------------------
(* The operator, and a kill.                                               *)

AbortCommand(w) ==
  /\ pc[w] = "off" /\ replaying[w] /\ replaying' = [replaying EXCEPT ![w] = FALSE]
  /\ excused' = [excused EXCEPT ![w] = TRUE]
  /\ UNCHANGED <<tree, stack, pc, owes, ref, home, made, runs>>

Edit(w, e) ==
  /\ pc[w] = "off" /\ ~replaying[w] /\ e \notin made
  /\ tree' = [tree EXCEPT ![w] = @ \cup {e}]
  /\ made' = made \cup {e} /\ home' = [home EXCEPT ![e] = w]
  /\ UNCHANGED <<stack, replaying, pc, owes, ref, excused, runs>>

\* An entry of the operator's own: of what lies there, or of work done in a paused replay.
OwnStash(w) ==
  /\ pc[w] = "off" /\ ~replaying[w] /\ tree[w] # {}
  /\ stack' = <<Entry(w, "own")>> \o stack /\ tree' = [tree EXCEPT ![w] = {}]
  /\ UNCHANGED <<replaying, pc, owes, ref, History, runs>>

StashPaused(w, e) ==
  /\ pc[w] = "off" /\ replaying[w] /\ e \notin made
  /\ stack' = <<[from |-> w, msg |-> "own", work |-> {e}]>> \o stack
  /\ made' = made \cup {e} /\ home' = [home EXCEPT ![e] = w]
  /\ UNCHANGED <<tree, replaying, pc, owes, ref, excused, runs>>

Kill(w) ==
  /\ Kills /\ pc[w] # "off" /\ To(w, "off") /\ excused' = [excused EXCEPT ![w] = TRUE]
  /\ UNCHANGED <<tree, stack, replaying, owes, ref, home, made, runs>>

Next == \E w \in Trees :
  \/ Fresh(w) \/ Resume(w) \/ Replay(w) \/ Restore(w) \/ Pop(w) \/ PopFails(w) \/ PopConflicts(w)
  \/ Drop(w) \/ AbortCommand(w) \/ OwnStash(w) \/ Kill(w) \/ (\E e \in Edits : Edit(w, e) \/ StashPaused(w, e))

Spec == Init /\ [][Next]_vars
-----------------------------------------------------------------------------
TypeOK ==
  /\ tree \in [Trees -> SUBSET Edits] /\ replaying \in [Trees -> BOOLEAN]
  /\ \A i \in DOMAIN stack : stack[i] \in [from : Trees, msg : {"auto", "own"}, work : SUBSET Edits]
  /\ pc \in [Trees -> {"off", "replay", "restore", "pop", "drop"}]
  /\ \A w \in Trees : pc[w] \in {"pop", "drop"} => ~replaying[w]

\* stash.auto_unstash: "Nothing is lost either way": each piece of work lies in a
\* worktree or in the stash.
WorkKept == made \subseteq Stashed \cup UNION {tree[w] : w \in Trees}

\* stash.auto_stash_ref: a restore gives a worktree its own work back.
OwnWorkReturns == \A w \in Trees : \A e \in tree[w] : home[e] = w

\* The same where the operator has entries of their own: a restore pops ours only.
PopsOursOnly ==
  [][\A w \in Trees : pc[w] \in {"pop", "drop"} /\ pc'[w] = "off" =>
       \A i \in DOMAIN stack : stack[i].msg = "own" => Contains(stack', stack[i])]_vars

\* stash.restore: the run that ends a rebase leaves no auto-stash of that worktree behind,
\* unless the pop failed, the operator aborted or a run was killed.
RestoredAtEnd ==
  \A w \in Trees : pc[w] = "off" /\ ~replaying[w] /\ ~excused[w] =>
    \A i \in DOMAIN stack : ~(stack[i].msg = "auto" /\ stack[i].from = w)
=============================================================================
