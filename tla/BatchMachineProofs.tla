------------------------- MODULE BatchMachineProofs -------------------------
(***************************************************************************)
(* What holds of the drivers' registry for any number of drivers, pool and *)
(* work.                                                                   *)
(***************************************************************************)
EXTENDS BatchMachine, TLAPS

(* An item in hand is one of those the pass still has to look at, and      *)
(* those are among the items with a step to start.                         *)
ItemsCounted ==
  \A d \in Drivers :
    /\ left[d] <= work[d]
    /\ pc[d] \in {"floor", "confirm"} => left[d] > 0

TypeInv == TypeOK /\ ItemsCounted

LEMMA EntriesTyped ==
  /\ NoEntry \in Entries /\ Blank \in [Drivers -> Entries]
  /\ \A e \in Entries : Aged(e) \in Entries
<1>1. MaxClock \in Nat
  BY BoundAssumption
<1>2. NoEntry \in Entries
  BY <1>1 DEF NoEntry, Entries
<1>3. ASSUME NEW e \in Entries PROVE Aged(e) \in Entries
  BY DEF Entries, Aged
<1> QED BY <1>2, <1>3 DEF Blank

LEMMA InitTypes == Init => TypeInv
BY EntriesTyped, WorkAssumption, BoundAssumption
DEF Init, TypeInv, TypeOK, ItemsCounted, PCs

(* The steps that write the driver's own entry.                            *)
LEMMA WriteTyped ==
  ASSUME TypeOK, NEW d \in Drivers, NEW stamp \in 0 .. MaxClock, NEW steps \in Nat,
         Write(d, stamp, steps)
  PROVE /\ entry' \in [Drivers -> Entries] /\ degraded' \in [Drivers -> BOOLEAN]
        /\ failures' \in Nat
        /\ inpass' \subseteq Drivers \X Drivers /\ before' \subseteq Drivers \X Drivers
<1> USE DEF TypeOK, history
<1>1. MaxClock \in Nat
  BY BoundAssumption
<1>2. entry' \in [Drivers -> Entries]
  <2>1. \A b \in BOOLEAN : [since |-> stamp, live |-> steps, fresh |-> b] \in Entries
    BY <1>1 DEF Entries
  <2>2. \/ entry' = [entry EXCEPT ![d] = [since |-> stamp, live |-> steps, fresh |-> TRUE]]
        \/ entry' = entry
    BY DEF Write
  <2> QED BY <2>1, <2>2
<1>3. degraded' \in [Drivers -> BOOLEAN] /\ failures' \in Nat
  <2>1. degraded' = degraded \/ degraded' = [degraded EXCEPT ![d] = TRUE]
    BY DEF Write, Degrade
  <2>2. degraded' \in [Drivers -> BOOLEAN]
    BY <2>1, Zenon
  <2> QED BY <2>2 DEF Write, Degrade
<1>4. inpass' \subseteq Drivers \X Drivers /\ before' \subseteq Drivers \X Drivers
  BY DEF Write, KeepHistory, Forget
<1> QED BY <1>2, <1>3, <1>4

LEMMA QueueTyped ==
  ASSUME TypeOK, NEW d \in Drivers, Queue(d)
  PROVE /\ entry' \in [Drivers -> Entries] /\ degraded' \in [Drivers -> BOOLEAN]
        /\ failures' \in Nat /\ clock' \in 0 .. MaxClock /\ abreast' \subseteq Drivers
        /\ since' \in [Drivers -> 0 .. MaxClock]
        /\ peers' \in [Drivers -> [Drivers -> Entries]]
        /\ inpass' \subseteq Drivers \X Drivers /\ before' \subseteq Drivers \X Drivers
<1>1. CASE since[d] # 0
  BY <1>1 DEF TypeOK, Queue, time, history
<1>2. CASE since[d] = 0
  <2>1. PICK now \in {clock + 1} \cup (IF d \in abreast THEN {clock} ELSE {}) :
          /\ now <= MaxClock /\ clock' = now
          /\ abreast' = IF now = clock THEN abreast ELSE {e \in Drivers : pc[e] \in InPass}
          /\ since' = [since EXCEPT ![d] = now]
          /\ Write(d, now, live[d]) /\ Sees(d)
    BY <1>2 DEF Queue
  <2>2. now \in 0 .. MaxClock /\ live[d] \in Nat
    BY <2>1, BoundAssumption DEF TypeOK
  <2>3. peers' \in [Drivers -> [Drivers -> Entries]]
    BY <2>1, EntriesTyped DEF TypeOK, Sees
  <2> QED BY <2>1, <2>2, <2>3, WriteTyped DEF TypeOK
<1> QED BY <1>1, <1>2 DEF TypeOK

LEMMA StepTypes == TypeInv /\ [Next]_vars => TypeInv'
<1> SUFFICES ASSUME TypeInv, [Next]_vars PROVE TypeInv'
  OBVIOUS
<1> USE EntriesTyped, BoundAssumption
    DEF TypeInv, TypeOK, ItemsCounted, PCs, Registered, InPass, files, time, sight, own,
        items, faults, history
<1>1. ASSUME NEW d \in Drivers, Open(d) PROVE TypeInv'
  <2>1. made' \in [Drivers -> Nat] /\ lock' \in [Drivers -> Nat]
    BY <1>1 DEF Open
  <2>2. fd' \in [Drivers -> Nat] /\ starts' \in [Drivers -> Nat]
    <3>1. lock'[d] \in Nat
      BY <2>1
    <3>2. fd' = [fd EXCEPT ![d] = lock'[d]] /\ starts' = [starts EXCEPT ![d] = @ + 1]
      BY <1>1 DEF Open
    <3> QED BY <3>1, <3>2
  <2> QED BY <1>1, <2>1, <2>2 DEF Open, Goto
<1>2. ASSUME NEW d \in Drivers, Register(d) PROVE TypeInv'
  BY <1>2 DEF Register, Goto
<1>3. ASSUME NEW d \in Drivers, BeginPass(d) PROVE TypeInv'
  <2>1. live' \in [Drivers -> Nat] /\ left' \in [Drivers -> Nat]
    BY <1>3 DEF BeginPass
  <2>2. since' \in [Drivers -> 0 .. MaxClock] /\ floor' \in Drivers \cup {Nobody}
    <3>1. MaxClock \in Nat
      BY BoundAssumption
    <3>2. \/ floor' = Nobody /\ since' = [since EXCEPT ![d] = 0]
          \/ UNCHANGED <<floor, since>>
      BY <1>3 DEF BeginPass
    <3>3. 0 \in 0 .. MaxClock
      BY <3>1
    <3>4. since' \in [Drivers -> 0 .. MaxClock]
      BY <3>2, <3>3
    <3> QED BY <3>2, <3>4
  <2>3. todo' \in [Drivers -> SUBSET Drivers] /\ peers' \in [Drivers -> [Drivers -> Entries]]
    BY <1>3 DEF BeginPass
  <2>4. pc' \in [Drivers -> PCs] /\ \A e \in Drivers : e # d => pc'[e] = pc[e]
    BY <1>3 DEF BeginPass, Goto
  <2>5. pc'[d] \notin {"floor", "confirm"}
    BY <1>3 DEF BeginPass, Goto
  <2>6. ItemsCounted'
    BY <1>3, <2>1, <2>4, <2>5 DEF BeginPass
  <2>7. /\ abreast' \subseteq Drivers
        /\ inpass' \subseteq Drivers \X Drivers /\ before' \subseteq Drivers \X Drivers
    BY <1>3 DEF BeginPass
  <2> QED BY <1>3, <2>1, <2>2, <2>3, <2>4, <2>6, <2>7 DEF BeginPass
<1>4. ASSUME NEW d \in Drivers, NEW e \in Drivers, ReadPeer(d, e) PROVE TypeInv'
  <2>1. CASE HeldElsewhere(e)
    <3>1. peers' = [peers EXCEPT ![d][e] = entry[e]]
      BY <1>4, <2>1 DEF ReadPeer
    <3>2. [peers[d] EXCEPT ![e] = entry[e]] \in [Drivers -> Entries]
      OBVIOUS
    <3>3. peers' = [peers EXCEPT ![d] = [peers[d] EXCEPT ![e] = entry[e]]]
      BY <3>1
    <3>4. peers' \in [Drivers -> [Drivers -> Entries]]
      BY <3>2, <3>3
    <3>5. /\ todo' = [todo EXCEPT ![d] = @ \ {e}] /\ UNCHANGED probed
          /\ pc' = [pc EXCEPT ![d] = IF todo[d] = {e} THEN "items" ELSE "peers"]
      BY <1>4, <2>1 DEF ReadPeer, ReadOn, Goto
    <3>6. /\ todo' \in [Drivers -> SUBSET Drivers] /\ pc' \in [Drivers -> PCs]
          /\ \A o \in Drivers : pc'[o] \in {"floor", "confirm"} => pc[o] = pc'[o]
      BY <3>5
    <3> QED BY <1>4, <3>4, <3>5, <3>6 DEF ReadPeer
  <2>2. CASE ~HeldElsewhere(e)
    BY <1>4, <2>2 DEF ReadPeer, Goto
  <2> QED BY <2>1, <2>2
<1>5. ASSUME NEW d \in Drivers, NEW e \in Drivers, RemoveEntry(d, e) PROVE TypeInv'
  BY <1>5 DEF RemoveEntry, ReadOn, Goto, KeepHistory, Forget
<1>6. ASSUME NEW d \in Drivers, ReadFails(d) PROVE TypeInv'
  BY <1>6 DEF ReadFails, Goto, Degrade
<1>7. ASSUME NEW d \in Drivers, Defer(d) PROVE TypeInv'
  BY <1>7, QueueTyped DEF Defer, Considers, Refuse
<1>8. ASSUME NEW d \in Drivers, HostAdmits(d) PROVE TypeInv'
  BY <1>8 DEF HostAdmits, Considers, Goto
<1>9. ASSUME NEW d \in Drivers, HostRefuses(d) PROVE TypeInv'
  BY <1>9 DEF HostRefuses, Considers, Refuse
<1>10. ASSUME NEW d \in Drivers, HostStarves(d) PROVE TypeInv'
  BY <1>10, QueueTyped DEF HostStarves, Considers, Goto
<1>11. ASSUME NEW d \in Drivers, TakeFloor(d) PROVE TypeInv'
  <2>1. CASE FloorIsDue(d) /\ floor = Nobody
    BY <1>11, <2>1 DEF TakeFloor, Goto
  <2>2. CASE ~(FloorIsDue(d) /\ floor = Nobody)
    <3>1. /\ pc[d] = "floor" /\ left' = [left EXCEPT ![d] = @ - 1]
          /\ refused' = [refused EXCEPT ![d] = TRUE] /\ pc' = [pc EXCEPT ![d] = "items"]
          /\ UNCHANGED <<work, floor>>
      BY <1>11, <2>2 DEF TakeFloor, Refuse, Goto
    <3>2. left' \in [Drivers -> Nat] /\ ItemsCounted'
      BY <3>1
    <3> QED BY <1>11, <3>1, <3>2 DEF TakeFloor
  <2> QED BY <2>1, <2>2
<1>12. ASSUME NEW d \in Drivers, FloorFails(d) PROVE TypeInv'
  BY <1>12 DEF FloorFails, Degrade, Goto
<1>13. ASSUME NEW d \in Drivers, Start(d) PROVE TypeInv'
  BY <1>13 DEF Start, Overtaken, Goto
<1>14. ASSUME NEW d \in Drivers, Drop(d) PROVE TypeInv'
  BY <1>14 DEF Drop, Goto
<1>15. ASSUME NEW d \in Drivers, Settle(d) PROVE TypeInv'
  <2>1. since' \in [Drivers -> 0 .. MaxClock]
    BY <1>15 DEF Settle
  <2>2. since'[d] \in 0 .. MaxClock /\ live[d] \in Nat /\ Write(d, since'[d], live[d])
    BY <2>1, <1>15 DEF Settle
  <2> QED BY <1>15, <2>1, <2>2, WriteTyped DEF Settle, Goto
<1>16. ASSUME NEW d \in Drivers, Cancel(d) PROVE TypeInv'
  BY <1>16 DEF Cancel, Goto
<1>17. ASSUME NEW d \in Drivers, Leave(d) PROVE TypeInv'
  BY <1>17 DEF Leave, Goto
<1>18. ASSUME NEW d \in Drivers, CloseEntry(d) PROVE TypeInv'
  BY <1>18 DEF CloseEntry, Goto, KeepHistory, Forget
<1>19. ASSUME NEW d \in Drivers, CloseLock(d) PROVE TypeInv'
  BY <1>19 DEF CloseLock, Forgets, Goto
<1>20. ASSUME NEW d \in Drivers, StepExits(d) PROVE TypeInv'
  BY <1>20 DEF StepExits
<1>21. ASSUME NEW d \in Drivers, Kill(d) PROVE TypeInv'
  BY <1>21 DEF Kill, Forgets, Goto
<1>22. ASSUME NEW d \in Drivers, Dawdle(d) PROVE TypeInv'
  BY <1>22 DEF Dawdle, KeepHistory, Forget
<1>23. CASE UNCHANGED vars
  BY <1>23 DEF vars
<1> QED
  BY <1>1, <1>2, <1>3, <1>4, <1>5, <1>6, <1>7, <1>8, <1>9, <1>10, <1>11, <1>12, <1>13, <1>14,
     <1>15, <1>16, <1>17, <1>18, <1>19, <1>20, <1>21, <1>22, <1>23
  DEF Next, Step, Fault

(* Types: every variable stays within its set.                             *)
THEOREM TypesHold == Spec => []TypeOK
<1>1. TypeInv => TypeOK
  BY DEF TypeInv
<1> QED BY <1>1, InitTypes, StepTypes, PTL DEF Spec

-----------------------------------------------------------------------------
(* Why one step at a time runs on a starved host.  A driver counts at      *)
(* least the steps it has, holds the floor from the grant of its step to   *)
(* the sync that finds the step gone, and is granted one only with none.   *)
Counts(d) ==
  /\ running[d] <= live[d]
  /\ pc[d] \in {"off", "flock", "close", "unlock"} => running[d] = 0
  /\ pc[d] = "floor" => live[d] = 0

Granted(d) == running[d] > 0 \/ pc[d] = "confirm"
OnTheFloor(d) ==
  StarvedHost /\ ~degraded[d] =>
    /\ Granted(d) => floor = d
    /\ pc[d] = "confirm" => live[d] = 0
    /\ running[d] <= 1

FloorInv == \A d \in Drivers : Counts(d) /\ OnTheFloor(d)

LEMMA InitFloor == Init => FloorInv
<1> SUFFICES ASSUME Init, NEW d \in Drivers PROVE Counts(d) /\ OnTheFloor(d)
  BY DEF FloorInv
<1>1. pc[d] = "off" /\ running[d] = 0 /\ live[d] = 0
  BY DEF Init
<1> QED BY <1>1 DEF Counts, OnTheFloor, Granted

(* No step makes a degraded driver whole but its own end.                  *)
LEMMA WriteDegrades ==
  ASSUME NEW d \in Drivers, NEW stamp, NEW steps, Write(d, stamp, steps)
  PROVE degraded' = degraded \/ degraded' = [degraded EXCEPT ![d] = TRUE]
BY DEF Write, Degrade

LEMMA QueueDegrades ==
  ASSUME NEW d \in Drivers, Queue(d)
  PROVE degraded' = degraded \/ degraded' = [degraded EXCEPT ![d] = TRUE]
BY WriteDegrades DEF Queue

LEMMA StepFloor == TypeInv /\ FloorInv /\ [Next]_vars => FloorInv'
<1> SUFFICES ASSUME TypeInv, FloorInv, [Next]_vars PROVE FloorInv'
  OBVIOUS
<1> USE DriverAssumption
    DEF TypeInv, TypeOK, FloorInv, Counts, OnTheFloor, Granted, files, time, sight, own,
        items, faults, history
<1>1. ASSUME NEW d \in Drivers, Open(d) PROVE FloorInv'
  BY <1>1 DEF Open, Goto
<1>2. ASSUME NEW d \in Drivers, Register(d) PROVE FloorInv'
  BY <1>2 DEF Register, Goto
<1>3. ASSUME NEW d \in Drivers, BeginPass(d) PROVE FloorInv'
  BY <1>3 DEF BeginPass, GivesBack, Goto
<1>4. ASSUME NEW d \in Drivers, NEW e \in Drivers, ReadPeer(d, e) PROVE FloorInv'
  BY <1>4 DEF ReadPeer, ReadOn, Goto
<1>5. ASSUME NEW d \in Drivers, NEW e \in Drivers, RemoveEntry(d, e) PROVE FloorInv'
  BY <1>5 DEF RemoveEntry, ReadOn, Goto
<1>6. ASSUME NEW d \in Drivers, ReadFails(d) PROVE FloorInv'
  BY <1>6 DEF ReadFails, Degrade, Goto
<1>7. ASSUME NEW d \in Drivers, Defer(d) PROVE FloorInv'
  BY <1>7, QueueDegrades DEF Defer, Considers
<1>8. ASSUME NEW d \in Drivers, HostAdmits(d) PROVE FloorInv'
  BY <1>8 DEF HostAdmits, Goto
<1>9. ASSUME NEW d \in Drivers, HostRefuses(d) PROVE FloorInv'
  BY <1>9 DEF HostRefuses
<1>10. ASSUME NEW d \in Drivers, HostStarves(d) PROVE FloorInv'
  BY <1>10, QueueDegrades DEF HostStarves, Considers, Goto
<1>11. ASSUME NEW d \in Drivers, TakeFloor(d) PROVE FloorInv'
  BY <1>11 DEF TakeFloor, Goto
<1>12. ASSUME NEW d \in Drivers, FloorFails(d) PROVE FloorInv'
  BY <1>12 DEF FloorFails, Degrade, Goto
<1>13. ASSUME NEW d \in Drivers, Start(d) PROVE FloorInv'
  BY <1>13 DEF Start, Goto
<1>14. ASSUME NEW d \in Drivers, Drop(d) PROVE FloorInv'
  BY <1>14 DEF Drop, Goto
<1>15. ASSUME NEW d \in Drivers, Settle(d) PROVE FloorInv'
  BY <1>15, WriteDegrades DEF Settle, Goto
<1>16. ASSUME NEW d \in Drivers, Cancel(d) PROVE FloorInv'
  BY <1>16 DEF Cancel, Goto
<1>17. ASSUME NEW d \in Drivers, Leave(d) PROVE FloorInv'
  BY <1>17 DEF Leave, Goto
<1>18. ASSUME NEW d \in Drivers, CloseEntry(d) PROVE FloorInv'
  BY <1>18 DEF CloseEntry, Goto
<1>19. ASSUME NEW d \in Drivers, CloseLock(d) PROVE FloorInv'
  BY <1>19 DEF CloseLock, Forgets, Goto
<1>20. ASSUME NEW d \in Drivers, StepExits(d) PROVE FloorInv'
  BY <1>20 DEF StepExits
<1>21. ASSUME NEW d \in Drivers, Kill(d) PROVE FloorInv'
  BY <1>21 DEF Kill, Forgets, Goto
<1>22. ASSUME NEW d \in Drivers, Dawdle(d) PROVE FloorInv'
  BY <1>22 DEF Dawdle
<1>23. CASE UNCHANGED vars
  BY <1>23 DEF vars
<1> QED
  BY <1>1, <1>2, <1>3, <1>4, <1>5, <1>6, <1>7, <1>8, <1>9, <1>10, <1>11, <1>12,
     <1>13, <1>14, <1>15, <1>16, <1>17, <1>18, <1>19, <1>20, <1>21, <1>22, <1>23
  DEF Next, Step, Fault

(* On a host with room for nothing, the drivers that share the registry    *)
(* run one step between them: the machine-wide floor slot.                 *)
THEOREM OneStepWhenStarvedHolds == Spec => []OneStepWhenStarved
<1>1. TypeInv /\ FloorInv => OneStepWhenStarved
  BY DEF TypeInv, TypeOK, FloorInv, Counts, OnTheFloor, Granted, OneStepWhenStarved
<1> QED BY <1>1, InitTypes, StepTypes, InitFloor, StepFloor, PTL DEF Spec

-----------------------------------------------------------------------------
(* Why a driver overtakes another in one pass only.  A pair of `before` is *)
(* a driver d and one, e, that waits since before the pass d is in: d is   *)
(* not in the queue or behind e in it, has e still to read or has read     *)
(* that it waits, and so is not granted a step while it sees its peers.  A *)
(* pair of `inpass` is of a driver that has a step, which is why it is not *)
(* in the queue when its pass is over.                                     *)
Stamped(d) == since[d] <= clock /\ entry[d].since <= clock

Behind(d, e) == since[d] = 0 \/ entry[e].since < since[d]
Known(d, e) ==
  e \in todo[d] \/ (Waiting(peers[d][e]) /\ peers[d][e].since = entry[e].since)
Defers(d, e) ==
  /\ Behind(d, e) /\ pc[d] # "confirm"
  /\ pc[d] \in InPass => Known(d, e)
  /\ pc[d] \in InPass /\ d \in abreast => entry[e].since < clock

Mindful(d) ==
  /\ pc[d] \notin {"peers", "remove"} => todo[d] = {}
  /\ \A e \in Drivers :
       /\ <<d, e>> \in before \cup inpass => d # e /\ Waiting(entry[e])
       /\ <<d, e>> \in inpass => live[d] > 0 /\ (pc[d] \notin InPass => since[d] = 0)
       /\ <<d, e>> \in before /\ ~degraded[d] => Defers(d, e)

QueueInv == NoBarging /\ \A d \in Drivers : Stamped(d) /\ Mindful(d)

LEMMA InitQueue == Init => QueueInv
<1> SUFFICES ASSUME Init PROVE QueueInv
  OBVIOUS
<1>1. NoBarging
  BY DEF Init, NoBarging
<1>2. ASSUME NEW d \in Drivers PROVE Stamped(d) /\ Mindful(d)
  BY DEF Init, Stamped, Mindful, Blank, NoEntry
<1> QED BY <1>1, <1>2 DEF QueueInv

(* What every step but the start of a pass and of a step does to the pairs *)
(* of a driver; what it does to a driver that does not take it.            *)
Keeps(d) ==
  \A e \in Drivers :
    /\ <<d, e>> \in inpass' => <<d, e>> \in inpass
    /\ <<d, e>> \in before' => <<d, e>> \in before
    /\ <<d, e>> \in inpass' \cup before' => Waiting(entry'[e]) /\ entry'[e].since = entry[e].since
Same(d) ==
  /\ since'[d] = since[d] /\ todo'[d] = todo[d] /\ peers'[d] = peers[d] /\ pc'[d] = pc[d]
  /\ degraded'[d] = degraded[d] /\ live'[d] = live[d]
Ticks == clock < clock' \/ (clock = clock' /\ abreast' \subseteq abreast)

LEMMA HistoryKept == TypeOK /\ KeepHistory => \A d \in Drivers : Keeps(d)
BY DEF KeepHistory, Forget, Keeps

LEMMA HistoryUnchanged == QueueInv /\ UNCHANGED <<entry, history>> => \A d \in Drivers : Keeps(d)
BY DEF QueueInv, Mindful, Keeps, history

(* The pairs of a driver, whatever it does, and its place in the queue.    *)
LEMMA PairsStay ==
  ASSUME TypeInv, QueueInv, Ticks, clock' \in Nat, NEW d \in Drivers, NEW e \in Drivers, Keeps(d)
  PROVE  /\ <<d, e>> \in before' \cup inpass' => d # e /\ Waiting(entry'[e])
         /\ <<d, e>> \in inpass' => live[d] > 0 /\ (pc[d] \notin InPass => since[d] = 0)
         /\ <<d, e>> \in before' /\ ~degraded[d] =>
              /\ Defers(d, e) /\ entry'[e].since = entry[e].since
              /\ pc[d] \in InPass /\ d \in abreast' => entry'[e].since < clock'
<1>1. Mindful(d) /\ Stamped(e)
  BY DEF QueueInv
<1>2. entry[e].since \in Nat /\ clock \in Nat /\ entry[e].since <= clock
  BY <1>1, BoundAssumption DEF TypeInv, TypeOK, Entries, Stamped
<1>3. /\ <<d, e>> \in before' \cup inpass' => d # e /\ Waiting(entry'[e])
      /\ <<d, e>> \in inpass' => live[d] > 0 /\ (pc[d] \notin InPass => since[d] = 0)
  BY <1>1 DEF Mindful, Keeps
<1>4. <<d, e>> \in before' /\ ~degraded[d] => Defers(d, e) /\ entry'[e].since = entry[e].since
  BY <1>1 DEF Mindful, Keeps
<1>5. <<d, e>> \in before' /\ ~degraded[d] /\ pc[d] \in InPass /\ d \in abreast'
        => entry'[e].since < clock'
  BY <1>2, <1>4 DEF Defers, Ticks
<1> QED BY <1>3, <1>4, <1>5

(* A driver that looks on.                                                 *)
LEMMA Bystander ==
  ASSUME TypeInv, QueueInv, Ticks, clock' \in Nat, NEW d \in Drivers, Keeps(d), Same(d)
  PROVE  Mindful(d)'
<1>1. pc'[d] \notin {"peers", "remove"} => todo'[d] = {}
  BY DEF QueueInv, Mindful, Same
<1>2. ASSUME NEW e \in Drivers, <<d, e>> \in before', ~degraded'[d] PROVE Defers(d, e)'
  BY <1>2, PairsStay DEF Defers, Behind, Known, Same
<1>3. \A e \in Drivers :
        /\ <<d, e>> \in before' \cup inpass' => d # e /\ Waiting(entry'[e])
        /\ <<d, e>> \in inpass' => live'[d] > 0 /\ (pc'[d] \notin InPass => since'[d] = 0)
  BY PairsStay DEF Same
<1> QED BY <1>1, <1>2, <1>3 DEF Mindful

(* The driver that takes the step.                                         *)
LEMMA Acting ==
  ASSUME TypeInv, QueueInv, Ticks, clock' \in Nat, NEW d \in Drivers, Keeps(d),
         degraded[d] => degraded'[d], live'[d] = live[d],
         pc'[d] \in InPass => pc[d] \in InPass,
         pc'[d] \notin InPass /\ live[d] > 0 => since'[d] = 0 \/ (pc[d] \notin InPass /\ since'[d] = since[d]),
         pc'[d] \notin {"peers", "remove"} => todo'[d] = {},
         \A e \in Drivers :
           <<d, e>> \in before' /\ ~degraded'[d] /\ Defers(d, e) =>
             Behind(d, e)' /\ pc'[d] # "confirm" /\ (pc'[d] \in InPass => Known(d, e)')
  PROVE  Mindful(d)'
<1>1. ASSUME NEW e \in Drivers, <<d, e>> \in before', ~degraded'[d] PROVE Defers(d, e)'
  BY <1>1, PairsStay DEF Defers
<1>2. \A e \in Drivers :
        /\ <<d, e>> \in before' \cup inpass' => d # e /\ Waiting(entry'[e])
        /\ <<d, e>> \in inpass' => live'[d] > 0 /\ (pc'[d] \notin InPass => since'[d] = 0)
  BY PairsStay
<1> QED BY <1>1, <1>2 DEF Mindful

(* A step that keeps the pairs of every driver, and one that does not.     *)
LEMMA NoNewBarging == TypeInv' /\ QueueInv /\ (\A d \in Drivers : Keeps(d)) => NoBarging'
<1> SUFFICES ASSUME TypeInv', QueueInv, \A d \in Drivers : Keeps(d), NEW p \in inpass' \cap before'
             PROVE  FALSE
  BY DEF NoBarging
<1>1. PICK d \in Drivers, e \in Drivers : p = <<d, e>>
  BY DEF TypeInv, TypeOK
<1> QED BY <1>1 DEF Keeps, QueueInv, NoBarging

(* What a step that writes no stamp but 0, and asks no host, leaves alone: *)
(* the drivers that look on and the bounds on the stamps.                  *)
StampsStay(d) ==
  /\ since'[d] \in {0, since[d]} /\ entry'[d].since \in {0, entry[d].since, since'[d]}

LEMMA StampedStay ==
  ASSUME TypeInv, TypeInv', QueueInv, clock <= clock', NEW d \in Drivers, StampsStay(d)
  PROVE  Stamped(d)'
<1>1. Stamped(d)
  BY DEF QueueInv
<1>2. since[d] \in Nat /\ entry[d].since \in Nat /\ clock \in Nat /\ clock' \in Nat
  BY BoundAssumption DEF TypeInv, TypeOK, Entries
<1> QED BY <1>1, <1>2 DEF Stamped, StampsStay

(* A step of one driver that leaves the clock alone.                       *)
LEMMA OneActs ==
  ASSUME TypeInv, TypeInv', QueueInv, UNCHANGED time, NEW d \in Drivers, Mindful(d)',
         \A e \in Drivers : Keeps(e), \A e \in Drivers : e # d => Same(e),
         \A e \in Drivers : StampsStay(e)
  PROVE  QueueInv'
<1>1. Ticks /\ clock' \in Nat /\ clock <= clock'
  BY BoundAssumption DEF TypeInv, TypeOK, time, Ticks
<1>2. \A e \in Drivers : Stamped(e)'
  BY <1>1, StampedStay
<1>3. \A e \in Drivers : Mindful(e)'
  BY <1>1, Bystander
<1> QED BY <1>2, <1>3, NoNewBarging DEF QueueInv

(* The same, of a driver that stays in its pass or stays out of one, and   *)
(* keeps its place in the queue or gives it up.                            *)
LEMMA OneKeeps ==
  ASSUME TypeInv, TypeInv', QueueInv, UNCHANGED time, NEW d \in Drivers,
         \A e \in Drivers : Keeps(e), \A e \in Drivers : e # d => Same(e),
         \A e \in Drivers : StampsStay(e),
         degraded[d] => degraded'[d], live'[d] = live[d],
         pc'[d] \in InPass => pc[d] \in InPass,
         pc'[d] \notin InPass /\ live[d] > 0 =>
           since'[d] = 0 \/ (pc[d] \notin InPass /\ since'[d] = since[d]),
         pc'[d] \notin {"peers", "remove"} => todo'[d] = {},
         \A e \in Drivers :
           <<d, e>> \in before /\ ~degraded'[d] /\ Defers(d, e) /\ entry'[e].since = entry[e].since =>
             pc'[d] # "confirm" /\ (pc'[d] \in InPass => Known(d, e)')
  PROVE  QueueInv'
<1>1. Ticks /\ clock' \in Nat
  BY BoundAssumption DEF TypeInv, TypeOK, time, Ticks
<1>2. ASSUME NEW e \in Drivers, <<d, e>> \in before', ~degraded'[d], Defers(d, e)
      PROVE  Behind(d, e)' /\ pc'[d] # "confirm" /\ (pc'[d] \in InPass => Known(d, e)')
  BY <1>2 DEF Keeps, StampsStay, Defers, Behind
<1>3. Mindful(d)'
  BY <1>1, <1>2, Acting
<1> QED BY <1>3, OneActs

(* `_write` of a stamp that is 0 or the one the driver has.                *)
LEMMA WriteKeeps ==
  ASSUME TypeInv, QueueInv, NEW d \in Drivers, NEW stamp \in 0 .. MaxClock, NEW steps \in Nat,
         Write(d, stamp, steps)
  PROVE  /\ \A e \in Drivers : Keeps(e)
         /\ \A e \in Drivers : e # d => entry'[e] = entry[e] /\ degraded'[e] = degraded[e]
         /\ entry'[d].since \in {stamp, entry[d].since}
         /\ degraded[d] => degraded'[d]
<1>1. \A e \in Drivers : Keeps(e)
  BY HistoryKept, HistoryUnchanged DEF Write, TypeInv, history
<1>2. \/ entry' = [entry EXCEPT ![d] = [since |-> stamp, live |-> steps, fresh |-> TRUE]]
      \/ entry' = entry
  BY DEF Write
<1>3. /\ \A e \in Drivers : e # d => entry'[e] = entry[e]
      /\ entry'[d].since \in {stamp, entry[d].since}
  BY <1>2 DEF TypeInv, TypeOK
<1>4. /\ \A e \in Drivers : e # d => degraded'[e] = degraded[e]
      /\ degraded[d] => degraded'[d]
  BY WriteDegrades DEF TypeInv, TypeOK
<1> QED BY <1>1, <1>3, <1>4

(* A driver that enters the queue stands behind everyone it has overtaken: *)
(* they were in it before its pass, and the stamp is taken within it.      *)
LEMMA QueueActs ==
  ASSUME TypeInv, TypeInv', QueueInv, NEW d \in Drivers, Queue(d), pc[d] = "items", live[d] = 0,
         UNCHANGED <<live, todo>>, pc'[d] \in {"items", "floor"},
         \A e \in Drivers : e # d => pc'[e] = pc[e]
  PROVE  QueueInv'
<1>1. CASE since[d] # 0
  <2>1. UNCHANGED <<entry, clock, abreast, since, degraded, peers, inpass, before>>
    BY <1>1 DEF Queue, time, history
  <2>2. \A e \in Drivers : Keeps(e)
    BY <2>1, HistoryUnchanged DEF history
  <2>3. todo'[d] = {}
    BY DEF QueueInv, Mindful
  <2>4. ASSUME NEW e \in Drivers, Defers(d, e) PROVE Known(d, e)'
    BY <2>1, <2>4 DEF Defers, Known, InPass
  <2> QED BY <1>1, <2>1, <2>2, <2>3, <2>4, OneKeeps DEF Same, StampsStay, time, InPass
<1>2. CASE since[d] = 0
  <2>1. PICK now \in {clock + 1} \cup (IF d \in abreast THEN {clock} ELSE {}) :
          /\ now <= MaxClock /\ clock' = now
          /\ abreast' = IF now = clock THEN abreast ELSE {e \in Drivers : pc[e] \in InPass}
          /\ since' = [since EXCEPT ![d] = now]
          /\ Write(d, now, live[d]) /\ Sees(d)
    BY <1>2 DEF Queue
  <2>2. clock \in Nat /\ clock' \in Nat /\ now \in 0 .. MaxClock /\ live[d] \in Nat
    BY <2>1, BoundAssumption DEF TypeInv, TypeOK
  <2>3. /\ \A e \in Drivers : Keeps(e)
        /\ \A e \in Drivers : e # d => entry'[e] = entry[e] /\ degraded'[e] = degraded[e]
        /\ entry'[d].since \in {now, entry[d].since}
        /\ degraded[d] => degraded'[d]
    BY <2>1, <2>2, WriteKeeps
  <2>4. Ticks
    BY <2>1, <2>2 DEF Ticks
  <2>5. ASSUME NEW e \in Drivers PROVE Stamped(e)'
    <3>1. Stamped(e) /\ since[e] \in Nat /\ entry[e].since \in Nat
      BY BoundAssumption DEF QueueInv, TypeInv, TypeOK, Entries
    <3>2. since'[e] = IF e = d THEN now ELSE since[e]
      BY <2>1 DEF TypeInv, TypeOK
    <3> QED BY <2>1, <2>2, <2>3, <3>1, <3>2 DEF Stamped
  <2>6. ASSUME NEW e \in Drivers, e # d PROVE Mindful(e)'
    <3>1. Same(e)
      BY <2>1, <2>3, <2>6 DEF Same, Sees, TypeInv, TypeOK
    <3> QED BY <2>2, <2>3, <2>4, <3>1, Bystander
  <2>7. ASSUME NEW e \in Drivers, <<d, e>> \in before', ~degraded'[d], Defers(d, e)
        PROVE  Behind(d, e)' /\ pc'[d] # "confirm" /\ (pc'[d] \in InPass => Known(d, e)')
    <3>1. entry'[e].since = entry[e].since
      BY <2>3, <2>7 DEF Keeps
    <3>2. Stamped(e) /\ entry[e].since \in Nat
      BY BoundAssumption DEF QueueInv, TypeInv, TypeOK, Entries
    <3>3. d \in abreast => entry[e].since < clock
      BY <2>7 DEF Defers, InPass
    <3>4. entry'[e].since < since'[d]
      BY <2>1, <2>2, <3>1, <3>2, <3>3 DEF Stamped, TypeInv, TypeOK
    <3>5. peers'[d] = peers[d]
      BY <2>1, <2>7 DEF Sees, TypeInv, TypeOK
    <3>6. Known(d, e)'
      BY <2>7, <3>1, <3>5 DEF Defers, Known, InPass
    <3> QED BY <3>4, <3>6 DEF Behind
  <2>8. Mindful(d)'
    <3>1. todo'[d] = {}
      BY DEF QueueInv, Mindful
    <3> QED BY <2>2, <2>3, <2>4, <2>7, <3>1, Acting DEF InPass
  <2> QED BY <2>3, <2>5, <2>6, <2>8, NoNewBarging DEF QueueInv
<1> QED BY <1>1, <1>2 DEF TypeInv, TypeOK

(* Forgetting a driver's pairs with all it had in memory.                  *)
LEMMA ForgottenActs ==
  ASSUME TypeInv, TypeInv', QueueInv, NEW d \in Drivers, Forgets(d), UNCHANGED <<entry, clock, abreast>>,
         inpass' = {pair \in inpass : pair[1] # d}, before' = {pair \in before : pair[1] # d}
  PROVE  QueueInv'
<1>1. ASSUME NEW e \in Drivers PROVE Keeps(e)
  BY DEF Keeps, QueueInv, Mindful
<1>2. \A e \in Drivers : e # d => Same(e)
  BY DEF Forgets, Goto, Same, TypeInv, TypeOK
<1>3. \A e \in Drivers : StampsStay(e)
  BY DEF Forgets, StampsStay, TypeInv, TypeOK
<1>4. Mindful(d)'
  BY DEF Forgets, Mindful, TypeInv, TypeOK
<1> QED BY <1>1, <1>2, <1>3, <1>4, OneActs DEF time

LEMMA StepQueue ==
  ASSUME SlowAt \subseteq {"tick"}, TypeInv, TypeInv', QueueInv, [Next]_vars
  PROVE  QueueInv'
<1> USE DEF files, time, sight, own, items, faults, history
<1>1. ASSUME NEW d \in Drivers,
             Open(d) \/ Register(d) \/ HostRefuses(d) \/ Cancel(d) \/ Leave(d) \/ StepExits(d)
      PROVE  QueueInv'
  <2>1. /\ UNCHANGED <<entry, clock, abreast, since, live, degraded, todo, peers, inpass, before>>
        /\ \A e \in Drivers : e # d => pc'[e] = pc[e]
        /\ \/ pc'[d] = pc[d]
           \/ {pc[d], pc'[d]} \subseteq {"off", "flock", "tick", "stopping", "close"}
    BY <1>1 DEF Open, Register, HostRefuses, Cancel, Leave, StepExits, Goto, TypeInv, TypeOK
  <2>2. \A e \in Drivers : Keeps(e)
    BY <2>1, HistoryUnchanged
  <2>3. Mindful(d)
    BY DEF QueueInv
  <2>4. \A e \in Drivers : Known(d, e)' <=> Known(d, e)
    BY <2>1 DEF Known
  <2>5. /\ pc'[d] \in InPass => pc[d] = pc'[d]
        /\ pc'[d] \notin InPass /\ live[d] > 0 => pc[d] \notin InPass
        /\ pc'[d] \notin {"peers", "remove"} => todo'[d] = {}
    BY <2>1, <2>3 DEF Mindful, InPass
  <2>6. \A e \in Drivers : Defers(d, e) => pc'[d] # "confirm" /\ (pc'[d] \in InPass => Known(d, e)')
    BY <2>1, <2>4, <2>5 DEF Defers, InPass
  <2> QED BY <2>1, <2>2, <2>5, <2>6, OneKeeps DEF Same, StampsStay
<1>2. ASSUME NEW d \in Drivers, BeginPass(d) PROVE QueueInv'
  <2>1. /\ pc[d] = "tick" /\ UNCHANGED <<entry, clock, degraded>>
        /\ \A e \in Drivers : e # d =>
             /\ since'[e] = since[e] /\ live'[e] = live[e] /\ todo'[e] = todo[e]
             /\ peers'[e] = peers[e] /\ pc'[e] = pc[e]
        /\ abreast' = abreast \ {d}
        /\ since'[d] \in {0, since[d]}
        /\ todo'[d] = {e \in Drivers \ {d} : ~degraded[d] /\ entry[e] # NoEntry}
        /\ pc'[d] = IF todo'[d] = {} THEN "items" ELSE "peers"
        /\ before' = before \cup {pair \in inpass : pair[1] = d}
        /\ inpass' = {pair \in inpass : pair[1] # d}
    BY <1>2 DEF BeginPass, Goto, TypeInv, TypeOK
  <2>2. Ticks /\ clock' \in Nat /\ clock <= clock'
    BY <2>1, BoundAssumption DEF TypeInv, TypeOK, Ticks
  <2>3. ASSUME NEW e \in Drivers PROVE Stamped(e)'
    BY <2>1, <2>2, StampedStay DEF StampsStay
  <2>4. ASSUME NEW e \in Drivers, e # d PROVE Mindful(e)'
    <3>1. Keeps(e)
      BY <2>1, <2>4 DEF Keeps, QueueInv, Mindful
    <3>2. Same(e)
      BY <2>1, <2>4 DEF Same
    <3> QED BY <2>2, <3>1, <3>2, Bystander
  <2>5. Mindful(d)'
    <3>1. Mindful(d)
      BY DEF QueueInv
    <3>2. ASSUME NEW e \in Drivers, <<d, e>> \in before', ~degraded'[d] PROVE Defers(d, e)'
      <4>1. d # e /\ Waiting(entry[e]) /\ Behind(d, e)'
        BY <2>1, <3>1, <3>2 DEF Mindful, Defers, Behind, InPass
      <4>2. e \in todo'[d]
        BY <2>1, <3>2, <4>1 DEF Waiting, NoEntry
      <4> QED BY <2>1, <4>1, <4>2 DEF Defers, Known
    <3>3. \A e \in Drivers : <<d, e>> \in before' => <<d, e>> \in before \cup inpass
      BY <2>1
    <3>4. pc'[d] \notin {"peers", "remove"} => todo'[d] = {}
      BY <2>1
    <3>5. \A e \in Drivers : <<d, e>> \notin inpass'
      BY <2>1
    <3>6. \A e \in Drivers : <<d, e>> \in before' => d # e /\ Waiting(entry'[e])
      BY <2>1, <3>1, <3>3 DEF Mindful
    <3> QED BY <3>2, <3>4, <3>5, <3>6 DEF Mindful
  <2>6. NoBarging'
    BY <2>1 DEF QueueInv, NoBarging
  <2> QED BY <2>3, <2>4, <2>5, <2>6 DEF QueueInv
<1>3. ASSUME NEW d \in Drivers, NEW e \in Drivers, ReadPeer(d, e) PROVE QueueInv'
  <2>1. /\ pc[d] = "peers" /\ e \in todo[d]
        /\ UNCHANGED <<entry, clock, abreast, since, live, degraded, inpass, before>>
        /\ \A o \in Drivers : o # d => pc'[o] = pc[o] /\ todo'[o] = todo[o] /\ peers'[o] = peers[o]
    BY <1>3 DEF ReadPeer, ReadOn, Goto, IsNext, TypeInv, TypeOK
  <2>2. \/ pc'[d] = "remove" /\ todo'[d] = todo[d] /\ peers'[d] = peers[d]
        \/ /\ todo'[d] = todo[d] \ {e} /\ pc'[d] = IF todo[d] = {e} THEN "items" ELSE "peers"
           /\ peers'[d] = [peers[d] EXCEPT ![e] = entry[e]]
    BY <1>3 DEF ReadPeer, ReadOn, Goto, TypeInv, TypeOK
  <2>3. \A o \in Drivers : Keeps(o)
    BY <2>1, HistoryUnchanged
  <2>4. ASSUME NEW o \in Drivers, <<d, o>> \in before, Defers(d, o) PROVE Known(d, o)'
    <3>1. Waiting(entry[o]) /\ Known(d, o)
      BY <2>1, <2>4 DEF QueueInv, Mindful, Defers, InPass
    <3>2. peers[d] \in [Drivers -> Entries]
      BY DEF TypeInv, TypeOK
    <3> QED BY <2>1, <2>2, <3>1, <3>2 DEF Known
  <2>5. /\ pc'[d] \in {"remove", "items", "peers"}
        /\ pc'[d] \notin {"peers", "remove"} => todo'[d] = {}
    BY <2>1, <2>2
  <2> QED BY <2>1, <2>3, <2>4, <2>5, OneKeeps DEF Same, StampsStay, InPass
<1>4. ASSUME NEW d \in Drivers, NEW e \in Drivers, RemoveEntry(d, e) PROVE QueueInv'
  <2>1. /\ pc[d] = "remove" /\ e \in todo[d] /\ entry' = [entry EXCEPT ![e] = NoEntry] /\ KeepHistory
        /\ UNCHANGED <<clock, abreast, since, live, degraded, peers>>
        /\ \A o \in Drivers : o # d => pc'[o] = pc[o] /\ todo'[o] = todo[o]
        /\ todo'[d] = todo[d] \ {e} /\ pc'[d] = IF todo[d] = {e} THEN "items" ELSE "peers"
    BY <1>4 DEF RemoveEntry, ReadOn, Goto, IsNext, TypeInv, TypeOK
  <2>2. \A o \in Drivers : Keeps(o)
    BY <2>1, HistoryKept DEF TypeInv
  <2>3. \A o \in Drivers : StampsStay(o)
    BY <2>1 DEF StampsStay, NoEntry, TypeInv, TypeOK
  <2>4. \A o \in Drivers : Keeps(d) /\ <<d, o>> \in before' => o # e
    BY <2>1 DEF Keeps, Waiting, NoEntry, TypeInv, TypeOK
  <2>5. ASSUME NEW o \in Drivers, <<d, o>> \in before', Defers(d, o)
        PROVE  Known(d, o)'
    BY <2>1, <2>2, <2>4, <2>5 DEF Known, Defers, InPass, TypeInv, TypeOK
  <2>6. /\ pc'[d] \in {"items", "peers"}
        /\ pc'[d] \notin {"peers", "remove"} => todo'[d] = {}
    BY <2>1
  <2>7. Ticks /\ clock' \in Nat
    BY <2>1, BoundAssumption DEF TypeInv, TypeOK, Ticks
  <2>8. Mindful(d)'
    <3>1. \A o \in Drivers : <<d, o>> \in before' /\ ~degraded'[d] /\ Defers(d, o) =>
            Behind(d, o)' /\ pc'[d] # "confirm" /\ (pc'[d] \in InPass => Known(d, o)')
      BY <2>1, <2>2, <2>5, <2>6 DEF Keeps, Defers, Behind
    <3> QED BY <2>1, <2>2, <2>6, <2>7, <3>1, Acting DEF InPass
  <2> QED BY <2>1, <2>2, <2>3, <2>8, OneActs DEF Same
<1>5. ASSUME NEW d \in Drivers, ReadFails(d) \/ FloorFails(d) PROVE QueueInv'
  <2>1. /\ UNCHANGED <<entry, clock, abreast, since, live, inpass, before>>
        /\ \A o \in Drivers : o # d => /\ pc'[o] = pc[o] /\ todo'[o] = todo[o]
                                       /\ peers'[o] = peers[o] /\ degraded'[o] = degraded[o]
        /\ degraded'[d] /\ pc[d] \in InPass /\ pc'[d] \in {"items", "confirm"}
        /\ todo'[d] = {} \/ (pc[d] = "floor" /\ todo'[d] = todo[d])
    BY <1>5 DEF ReadFails, FloorFails, Degrade, Goto, InPass, TypeInv, TypeOK
  <2>2. \A o \in Drivers : Keeps(o)
    BY <2>1, HistoryUnchanged
  <2>3. todo'[d] = {}
    BY <2>1 DEF QueueInv, Mindful
  <2> QED BY <2>1, <2>2, <2>3, OneKeeps DEF Same, StampsStay, InPass
<1>6. ASSUME NEW d \in Drivers, Defer(d) PROVE QueueInv'
  <2>1. pc[d] = "items" /\ UNCHANGED <<pc, todo, live>>
    BY <1>6 DEF Defer, Considers
  <2>2. CASE live[d] = 0
    BY <1>6, <2>1, <2>2, QueueActs DEF Defer
  <2>3. CASE live[d] # 0
    <3>1. UNCHANGED <<entry, clock, abreast, since, degraded, peers, inpass, before>>
      BY <1>6, <2>3 DEF Defer
    <3>2. \A o \in Drivers : Keeps(o)
      BY <3>1, HistoryUnchanged
    <3>3. todo'[d] = {} /\ \A e \in Drivers : Defers(d, e) => Known(d, e)'
      BY <2>1, <3>1 DEF QueueInv, Mindful, Defers, Known, InPass
    <3> QED BY <2>1, <3>1, <3>2, <3>3, OneKeeps DEF Same, StampsStay, InPass
  <2> QED BY <2>2, <2>3
(* A driver of a pair sees the other ahead of it, and is granted nothing.  *)
<1>7. ASSUME NEW d \in Drivers, NEW e \in Drivers, pc[d] \in {"items", "floor"}, ~Ahead(d),
             <<d, e>> \in before, ~degraded[d]
      PROVE  FALSE
  <2>1. Defers(d, e) /\ todo[d] = {}
    BY <1>7 DEF QueueInv, Mindful
  <2>2. Behind(d, e) /\ Waiting(peers[d][e]) /\ peers[d][e].since = entry[e].since
    BY <1>7, <2>1 DEF Defers, Known, InPass
  <2> QED BY <1>7, <2>2 DEF Ahead, Precedes, Behind
<1>8. ASSUME NEW d \in Drivers, HostAdmits(d) \/ TakeFloor(d) PROVE QueueInv'
  <2>1. /\ UNCHANGED <<entry, clock, abreast, since, live, degraded, todo, peers, inpass, before>>
        /\ \A e \in Drivers : e # d => pc'[e] = pc[e]
        /\ pc[d] \in {"items", "floor"}
        /\ pc'[d] = "items" \/ (pc'[d] = "confirm" /\ ~Ahead(d))
    BY <1>8 DEF HostAdmits, TakeFloor, FloorIsDue, Considers, Refuse, Goto, TypeInv, TypeOK
  <2>2. \A e \in Drivers : Keeps(e)
    BY <2>1, HistoryUnchanged
  <2>3. todo'[d] = {} /\ \A e \in Drivers : Defers(d, e) => Known(d, e)'
    BY <2>1 DEF QueueInv, Mindful, Defers, Known, InPass
  <2>4. \A e \in Drivers : <<d, e>> \in before /\ ~degraded'[d] => pc'[d] # "confirm"
    BY <1>7, <2>1
  <2> QED BY <2>1, <2>2, <2>3, <2>4, OneKeeps DEF Same, StampsStay, InPass
<1>9. ASSUME NEW d \in Drivers, HostStarves(d) PROVE QueueInv'
  <2>1. /\ pc[d] = "items" /\ ~Ahead(d) /\ live[d] = 0 /\ UNCHANGED <<todo, live>>
        /\ \A e \in Drivers : e # d => pc'[e] = pc[e]
    BY <1>9 DEF HostStarves, Considers, Goto, TypeInv, TypeOK
  <2>2. CASE ~(degraded[d] \/ floor = d)
    BY <1>9, <2>1, <2>2, QueueActs DEF HostStarves, Goto, TypeInv, TypeOK
  <2>3. CASE degraded[d] \/ floor = d
    <3>1. /\ UNCHANGED <<entry, clock, abreast, since, degraded, peers, inpass, before>>
          /\ pc'[d] = "confirm"
      BY <1>9, <2>3 DEF HostStarves, Goto, TypeInv, TypeOK
    <3>2. \A e \in Drivers : Keeps(e)
      BY <3>1, HistoryUnchanged
    <3>3. todo'[d] = {} /\ \A e \in Drivers : Defers(d, e) => Known(d, e)'
      BY <2>1, <3>1 DEF QueueInv, Mindful, Defers, Known, InPass
    <3>4. \A e \in Drivers : ~(<<d, e>> \in before /\ ~degraded'[d])
      BY <1>7, <2>1, <3>1
    <3> QED BY <2>1, <3>1, <3>2, <3>3, <3>4, OneKeeps DEF Same, StampsStay, InPass
  <2> QED BY <2>2, <2>3
<1>10. ASSUME NEW d \in Drivers, Start(d) PROVE QueueInv'
  <2>1. /\ pc[d] = "confirm" /\ pc'[d] = "items" /\ live'[d] = live[d] + 1
        /\ UNCHANGED <<entry, clock, abreast, since, degraded, todo, peers, before>>
        /\ \A e \in Drivers : e # d => pc'[e] = pc[e] /\ live'[e] = live[e]
        /\ inpass' = IF degraded[d] THEN inpass ELSE inpass \cup Overtaken(d)
    BY <1>10 DEF Start, Goto, TypeInv, TypeOK
  <2>2. Ticks /\ clock' \in Nat
    BY <2>1, BoundAssumption DEF TypeInv, TypeOK, Ticks
  <2>3. \A e \in Drivers : Stamped(e)'
    BY <2>1 DEF QueueInv, Stamped
  <2>4. ASSUME NEW e \in Drivers, e # d PROVE Mindful(e)'
    <3>1. Keeps(e)
      BY <2>1, <2>4 DEF Keeps, QueueInv, Mindful, Overtaken
    <3>2. Same(e)
      BY <2>1, <2>4 DEF Same
    <3> QED BY <2>2, <3>1, <3>2, Bystander
  <2>5. Mindful(d)'
    <3>1. Mindful(d) /\ live'[d] > 0
      BY <2>1 DEF QueueInv, TypeInv, TypeOK
    <3>2. \A e \in Drivers : <<d, e>> \in before => degraded[d]
      BY <2>1, <3>1 DEF Mindful, Defers
    <3>3. \A e \in Drivers : <<d, e>> \in inpass' => d # e /\ Waiting(entry[e])
      BY <2>1, <3>1 DEF Mindful, Overtaken
    <3> QED BY <2>1, <3>1, <3>2, <3>3 DEF Mindful, InPass
  <2>6. NoBarging'
    <3>1. \A e \in Drivers : <<d, e>> \in before => degraded[d]
      BY <2>1 DEF QueueInv, Mindful, Defers
    <3> QED BY <2>1, <3>1 DEF QueueInv, NoBarging, Overtaken
  <2> QED BY <2>3, <2>4, <2>5, <2>6 DEF QueueInv
<1>11. ASSUME NEW d \in Drivers, Drop(d) PROVE QueueInv'
  <2>1. /\ UNCHANGED <<entry, clock, abreast, since, live, degraded, todo, peers, inpass, before>>
        /\ \A e \in Drivers : e # d => pc'[e] = pc[e]
        /\ pc[d] = "confirm" /\ pc'[d] = "items"
    BY <1>11 DEF Drop, Goto, TypeInv, TypeOK
  <2>2. \A e \in Drivers : Keeps(e)
    BY <2>1, HistoryUnchanged
  <2>3. todo'[d] = {} /\ \A e \in Drivers : ~Defers(d, e)
    BY <2>1 DEF QueueInv, Mindful, Defers
  <2> QED BY <2>1, <2>2, <2>3, OneKeeps DEF Same, StampsStay, InPass
<1>12. ASSUME NEW d \in Drivers, Settle(d) PROVE QueueInv'
  <2>1. /\ since' = [since EXCEPT ![d] = IF StillWaiting(d) THEN @ ELSE 0]
        /\ Write(d, since'[d], live[d]) /\ pc[d] = "items" /\ pc'[d] \in {"close", "tick"}
        /\ UNCHANGED <<clock, abreast, todo, live>>
        /\ \A e \in Drivers : e # d => pc'[e] = pc[e] /\ peers'[e] = peers[e]
    BY <1>12 DEF Settle, Goto, TypeInv, TypeOK
  <2>2. since'[d] \in {0, since[d]} /\ since'[d] \in 0 .. MaxClock /\ live[d] \in Nat
    BY <2>1, BoundAssumption DEF TypeInv, TypeOK
  <2>3. /\ \A e \in Drivers : Keeps(e)
        /\ \A e \in Drivers : e # d => entry'[e] = entry[e] /\ degraded'[e] = degraded[e]
        /\ entry'[d].since \in {since'[d], entry[d].since}
        /\ degraded[d] => degraded'[d]
    BY <2>1, <2>2, WriteKeeps
  <2>4. \A e \in Drivers : e # d => since'[e] = since[e]
    BY <2>1 DEF TypeInv, TypeOK
  <2>5. live[d] > 0 => since'[d] = 0
    BY <2>1 DEF StillWaiting, TypeInv, TypeOK
  <2>6. todo'[d] = {}
    BY <2>1 DEF QueueInv, Mindful
  <2> QED BY <2>1, <2>2, <2>3, <2>4, <2>5, <2>6, OneKeeps DEF Same, StampsStay, InPass
<1>13. ASSUME NEW d \in Drivers, CloseEntry(d) PROVE QueueInv'
  <2>1. /\ entry' = [entry EXCEPT ![d] = NoEntry] /\ KeepHistory
        /\ UNCHANGED <<clock, abreast, since, live, degraded, todo, peers>>
        /\ \A e \in Drivers : e # d => pc'[e] = pc[e]
        /\ pc[d] = "close" /\ pc'[d] = "unlock"
    BY <1>13 DEF CloseEntry, Goto, TypeInv, TypeOK
  <2>2. \A e \in Drivers : Keeps(e) /\ StampsStay(e)
    BY <2>1, HistoryKept DEF StampsStay, NoEntry, TypeInv, TypeOK
  <2>3. todo'[d] = {}
    BY <2>1 DEF QueueInv, Mindful
  <2> QED BY <2>1, <2>2, <2>3, OneKeeps DEF Same, InPass
<1>14. ASSUME NEW d \in Drivers, CloseLock(d) \/ Kill(d) PROVE QueueInv'
  BY <1>14, ForgottenActs DEF CloseLock, Kill
<1>15. ASSUME NEW d \in Drivers, Dawdle(d) PROVE QueueInv'
  <2>1. /\ entry' = [entry EXCEPT ![d] = Aged(@)] /\ KeepHistory
        /\ UNCHANGED <<clock, abreast, since, live, degraded, todo, pc>>
        /\ pc[d] \in {"tick", "stopping"} \/ degraded[d]
        /\ \A e \in Drivers : e # d => peers'[e] = peers[e]
    BY <1>15 DEF Dawdle, TypeInv, TypeOK
  <2>2. \A e \in Drivers : Keeps(e) /\ StampsStay(e)
    BY <2>1, HistoryKept DEF StampsStay, Aged, TypeInv, TypeOK
  <2>3. Mindful(d)
    BY DEF QueueInv
  <2>4. Mindful(d)'
    <3>1. Ticks /\ clock' \in Nat
      BY <2>1, BoundAssumption DEF TypeInv, TypeOK, Ticks
    <3>2. ASSUME NEW e \in Drivers, <<d, e>> \in before', ~degraded'[d] PROVE Defers(d, e)'
      BY <2>1, <2>2, <3>1, <3>2, PairsStay DEF Defers, Behind, InPass
    <3>3. \A e \in Drivers :
            /\ <<d, e>> \in before' \cup inpass' => d # e /\ Waiting(entry'[e])
            /\ <<d, e>> \in inpass' => live'[d] > 0 /\ (pc'[d] \notin InPass => since'[d] = 0)
      BY <2>1, <2>2, <3>1, PairsStay
    <3> QED BY <2>1, <2>3, <3>2, <3>3 DEF Mindful
  <2> QED BY <2>1, <2>2, <2>4, OneActs DEF Same
<1>16. CASE UNCHANGED vars
  BY <1>16 DEF vars, QueueInv, Stamped, Mindful, Defers, Behind, Known, NoBarging
<1> QED
  BY <1>1, <1>2, <1>3, <1>4, <1>5, <1>6, <1>8, <1>9, <1>10, <1>11, <1>12, <1>13, <1>14, <1>15,
     <1>16
  DEF Next, Step, Fault

(* A driver in the queue sees each other driver start steps in at most one *)
(* of its passes (`ahead`), kills and failing registry reads or writes     *)
(* included, as long as no pass takes so long that what it read of its     *)
(* peers goes stale.                                                       *)
THEOREM NoBargingHolds ==
  ASSUME SlowAt \subseteq {"tick"}
  PROVE  Spec => []NoBarging
<1>1. QueueInv => NoBarging
  BY DEF QueueInv
<1>2. TypeInv /\ QueueInv /\ [Next]_vars => TypeInv' /\ QueueInv'
  BY StepTypes, StepQueue
<1> QED BY <1>1, <1>2, InitTypes, InitQueue, PTL DEF Spec
=============================================================================
