------------------------- MODULE RadioManagerProofs -------------------------
(***************************************************************************)
(* For any number of presses, faults and people at the button: one attempt *)
(* to connect at a time, and a start-up reconcile that leaves the record   *)
(* and the state machine agreeing, whatever the record file said.          *)
(***************************************************************************)
EXTENDS RadioManager, TLAPS

Places == {"readback", "resolve", "reconciled", "idle", "tick", "connect", "spawn",
           "gather", "step", "apply", "cut", "commandOff",
           "poll", "look", "commandOn", "start", "loop"}

Evidence == [power : {"On", "Off", "Unknown"}, up : BOOLEAN, present : {"there", "gone", "unknown"}]

\* Until its first tick the monitor only reconciles, nobody presses, and a
\* transition that it has still to apply is that of the machine.
Reconciling ==
    next[Monitor] = "reconciled" =>
        /\ pc[Monitor] \in {"readback", "resolve", "apply", "reconciled"}
        /\ \A p \in Users : pc[p] = "idle"
        /\ pc[Monitor] = "apply" => to[Monitor] = life
        /\ pc[Monitor] = "reconciled" => record = life

\* What was reconciled is only passed through once.
OnlyOnce ==
    /\ pc[Monitor] \in {"readback", "resolve", "reconciled"} => next[Monitor] = "reconciled"
    /\ \A p \in Users : /\ pc[p] \notin {"readback", "resolve", "reconciled"}
                        /\ next[p] # "reconciled"

Inv == TypeOK /\ Reconciling /\ OnlyOnce

----------------------------------------------------------------------------
(* The kinds of step: where a process goes, and who is connecting.         *)

ProcTypes ==
    /\ pc \in [Procs -> Places]
    /\ next \in [Procs -> {"reconciled", "idle", "poll", "look", "start", "loop"}]
    /\ evidence \in [Procs -> Evidence]
    /\ to \in [Procs -> RadioStates] /\ reboot \in [Procs -> BOOLEAN]

WorldTypes ==
    /\ switch \in {"On", "Off", "Unknown"} /\ answers \in BOOLEAN
    /\ link \in {"Absent", "Up", "Retrying", "Dead"} /\ present \in {"there", "gone", "unknown"}
    /\ life \in RadioStates /\ record \in RadioStates /\ prev \in {"there", "gone", "unknown"}
    /\ overdue \in BOOLEAN /\ due \in BOOLEAN
    /\ presses \in Nat /\ moves \in Nat /\ refusals \in Nat

OneConnects ==
    /\ connecting \in Procs \union {None}
    /\ \A p \in Procs : pc[p] = "spawn" <=> connecting = p

LEMMA TypeParts ==
    /\ TypeOK <=> ProcTypes /\ WorldTypes /\ OneConnects
    /\ TypeOK' <=> ProcTypes' /\ WorldTypes' /\ OneConnects'
BY DEF TypeOK, ProcTypes, WorldTypes, OneConnects, Places, Evidence

LEMMA ProcFacts == Monitor \in Procs /\ Monitor \notin Users /\ Users \subseteq Procs /\ None \notin Procs
BY ManagerAssumption DEF ManagerAssumption, Procs

LEMMA SnapshotType ==
    ASSUME WorldTypes, NEW power \in {"On", "Off", "Unknown"}
    PROVE  Snapshot(power) \in Evidence
<1>1. (link = "Up") \in BOOLEAN
  OBVIOUS
<1>. QED
  BY <1>1 DEF WorldTypes, Snapshot, Evidence

LEMMA InitInv == Init => Inv
<1> SUFFICES ASSUME Init PROVE Inv
  OBVIOUS
<1>1. WorldTypes
  <2>1. answers \in BOOLEAN /\ overdue \in BOOLEAN /\ due \in BOOLEAN
    BY Zenon DEF Init
  <2>. QED
    BY <2>1 DEF Init, WorldTypes, RadioStates
<1>2. ProcTypes
  <2>1. reboot \in [Procs -> BOOLEAN]
    BY DEF Init
  <2>2. NoEvidence \in Evidence
    BY DEF NoEvidence, Evidence
  <2>. QED
    BY <2>1, <2>2 DEF Init, ProcTypes, Places, RadioStates
<1>3. OneConnects
  BY ProcFacts DEF Init, OneConnects
<1>4. Reconciling /\ OnlyOnce
  BY ProcFacts DEF Init, Reconciling, OnlyOnce
<1>. QED
  BY <1>1, <1>2, <1>3, <1>4, TypeParts DEF Inv

----------------------------------------------------------------------------
(* Types, step by step.                                                    *)

LEMMA ConnectTypes ==
    ASSUME TypeOK, NEW p \in Procs, CheckDue(p) \/ Connect(p) \/ Spawn(p)
    PROVE  TypeOK'
<1> USE TypeParts, ProcFacts
    DEF ConnectUnchanged, worldVars, lifeVars, boundVars, Goto, ProcTypes, WorldTypes, Places
<1>1. CASE CheckDue(p)
  BY <1>1 DEF CheckDue, OneConnects
<1>2. CASE Connect(p)
  <2>1. ProcTypes'
    BY <1>2 DEF Connect
  <2>2. WorldTypes'
    BY <1>2 DEF Connect
  <2>3. OneConnects'
    BY <1>2 DEF Connect, OneConnects
  <2>. QED
    BY <2>1, <2>2, <2>3
<1>3. CASE Spawn(p)
  <2>1. due' \in BOOLEAN
    BY <1>3, Zenon DEF Spawn
  <2>. QED
    BY <1>3, <2>1 DEF Spawn, OneConnects
<1>. QED
  BY <1>1, <1>2, <1>3

LEMMA GatherTypes ==
    ASSUME TypeOK, NEW p \in Procs, Gather(p)
    PROVE  TypeOK'
<1>1. Snapshot(switch) \in Evidence
  BY TypeParts, SnapshotType DEF WorldTypes
<1>. QED
  BY <1>1, TypeParts
     DEF Gather, Goto, worldVars, lifeVars, boundVars, ProcTypes, WorldTypes, OneConnects, Places

LEMMA TransitTypes ==
    ASSUME TypeOK, NEW p \in Procs, NEW target \in RadioStates, pc[p] # "spawn",
           NEW after \in {"reconciled", "idle", "poll", "look", "start", "loop"},
           Transit(p, target, after)
    PROVE  /\ pc' \in [Procs -> Places]
           /\ next' \in [Procs -> {"reconciled", "idle", "poll", "look", "start", "loop"}]
           /\ to' \in [Procs -> RadioStates]
           /\ life' \in RadioStates /\ overdue' \in BOOLEAN
           /\ \A q \in Procs : pc'[q] = "spawn" <=> pc[q] = "spawn"
<1>1. overdue' \in BOOLEAN
  BY TypeParts, Zenon DEF Transit, WorldTypes
<1>. QED
  BY <1>1, TypeParts DEF Transit, Goto, ProcTypes, WorldTypes, Places

LEMMA StepTypes ==
    ASSUME TypeOK, NEW p \in Procs, Step(p)
    PROVE  TypeOK'
<1>1. PICK target \in RadioStates : Transit(p, target, next[p])
  BY TypeParts DEF Step, WorldTypes
<1>2. NoEvidence \in Evidence /\ evidence[p] \in Evidence
  BY TypeParts DEF NoEvidence, Evidence, ProcTypes
<1>3. /\ pc[p] = "step" /\ next[p] \in {"reconciled", "idle", "poll", "look", "start", "loop"}
      /\ prev' = evidence[p].present /\ evidence' = [evidence EXCEPT ![p] = NoEvidence]
      /\ UNCHANGED <<worldVars, connecting, due, record, reboot, presses, moves, refusals>>
  BY TypeParts DEF Step, ProcTypes
<1>. QED
  BY <1>1, <1>2, <1>3, TransitTypes, TypeParts
     DEF worldVars, ProcTypes, WorldTypes, OneConnects, Evidence

LEMMA ApplyTypes ==
    ASSUME TypeOK, NEW p \in Procs, Apply(p)
    PROVE  TypeOK'
BY TypeParts
   DEF Apply, Pending, Return, Goto, worldVars, lifeVars, boundVars, ProcTypes, WorldTypes,
       OneConnects, Places, RadioStates

LEMMA MonitorTypes ==
    ASSUME TypeOK, ReadBack \/ Resolve \/ Tick
    PROVE  TypeOK'
<1> USE TypeParts, ProcFacts
    DEF worldVars, lifeVars, boundVars, Goto, Return, ProcTypes, WorldTypes, OneConnects, Places
<1>1. CASE ReadBack
  <2>1. switch' \in {"On", "Off", "Unknown"}
    BY <1>1 DEF ReadBack
  <2>2. Snapshot(switch') \in Evidence
    BY <2>1, SnapshotType
  <2>. QED
    BY <1>1, <2>1, <2>2 DEF ReadBack
<1>2. CASE Resolve
  <2>1. Resolved(evidence[Monitor]) \in RadioStates
    BY DEF Resolved, RadioStates
  <2>2. NoEvidence \in Evidence
    BY DEF NoEvidence, Evidence
  <2> DEFINE target == Resolved(evidence[Monitor])
  <2>3. /\ pc[Monitor] = "resolve" /\ life' = target /\ overdue' = FALSE /\ prev' = "unknown"
        /\ \/ Goto(Monitor, "apply") /\ to' = [to EXCEPT ![Monitor] = target]
           \/ Return(Monitor) /\ UNCHANGED to
        /\ evidence' = [evidence EXCEPT ![Monitor] = NoEvidence]
        /\ UNCHANGED <<worldVars, connecting, due, record, next, reboot, boundVars>>
    BY <1>2 DEF Resolve
  <2> HIDE DEF target
  <2>4. ProcTypes'
    BY <2>1, <2>2, <2>3 DEF target
  <2>5. WorldTypes'
    BY <2>1, <2>3 DEF target
  <2>6. OneConnects'
    BY <2>3
  <2>. QED
    BY <2>4, <2>5, <2>6
<1>3. CASE Tick
  BY <1>3 DEF Tick, Begin
<1>. QED
  BY <1>1, <1>2, <1>3

LEMMA PressTypes ==
    ASSUME TypeOK, NEW p \in Users, Press(p)
    PROVE  TypeOK'
<1>1. PICK button \in {"On", "Off", "Reboot"} :
          /\ Goto(p, IF button = "On" THEN "look" ELSE "cut")
          /\ reboot' = [reboot EXCEPT ![p] = button = "Reboot"]
  BY DEF Press
<1>2. reboot' \in [Procs -> BOOLEAN]
  <2>1. (button = "Reboot") \in BOOLEAN
    OBVIOUS
  <2>. QED
    BY <1>1, <2>1, TypeParts DEF ProcTypes
<1>3. presses' \in Nat /\ pc[p] = "idle"
  BY TypeParts DEF Press, WorldTypes
<1>. QED
  BY <1>1, <1>2, <1>3, TypeParts, ProcFacts
     DEF Press, PressUnchanged, worldVars, lifeVars, boundVars, Goto, ProcTypes, WorldTypes,
         OneConnects, Places

LEMMA UserTypes ==
    ASSUME TypeOK, NEW p \in Users,
           Cut(p) \/ CommandOff(p) \/ Poll(p) \/ Look(p) \/ CommandOn(p) \/ Start(p) \/ Loop(p)
              \/ Deadline(p)
    PROVE  TypeOK'
<1> USE TypeParts, ProcFacts
<1>1. CASE Cut(p)
  <2>1. ProcTypes'
    <3>1. /\ \/ Goto(p, "poll") /\ UNCHANGED <<next, reboot>>
             \/ Goto(p, "commandOff") /\ UNCHANGED <<next, reboot>>
             \/ End(p)
          /\ UNCHANGED <<evidence, to>>
      BY <1>1 DEF Cut
    <3>. QED
      BY <3>1 DEF End, Begin, Goto, ProcTypes, Places
  <2>2. WorldTypes'
    BY <1>1 DEF Cut, End, Begin, Goto, lifeVars, WorldTypes
  <2>3. OneConnects'
    BY <1>1 DEF Cut, End, Begin, Goto, ProcTypes, OneConnects
  <2>. QED
    BY <2>1, <2>2, <2>3
<1>2. CASE CommandOff(p)
  <2>1. Transit(p, "Off", "poll") /\ pc[p] # "spawn" /\ "Off" \in RadioStates
    BY <1>2 DEF CommandOff, RadioStates
  <2>. QED
    BY <1>2, <2>1, TransitTypes
       DEF CommandOff, PressUnchanged, worldVars, ProcTypes, WorldTypes, OneConnects
<1>3. CASE Poll(p)
  <2>1. ProcTypes'
    BY <1>3 DEF Poll, PressUnchanged, Begin, Goto, worldVars, lifeVars, boundVars, ProcTypes, Places
  <2>2. WorldTypes'
    BY <1>3 DEF Poll, PressUnchanged, Begin, Goto, worldVars, lifeVars, boundVars, WorldTypes
  <2>3. OneConnects'
    BY <1>3 DEF Poll, PressUnchanged, Begin, Goto, worldVars, lifeVars, boundVars, ProcTypes,
               OneConnects
  <2>. QED
    BY <2>1, <2>2, <2>3
<1>4. CASE Look(p)
  <2>1. ProcTypes'
    BY <1>4 DEF Look, PressUnchanged, End, Begin, Goto, worldVars, lifeVars, boundVars, ProcTypes, Places
  <2>2. WorldTypes'
    BY <1>4 DEF Look, PressUnchanged, End, Begin, Goto, worldVars, lifeVars, boundVars, WorldTypes
  <2>3. OneConnects'
    BY <1>4 DEF Look, PressUnchanged, End, Begin, Goto, worldVars, lifeVars, boundVars, ProcTypes,
               OneConnects
  <2>. QED
    BY <2>1, <2>2, <2>3
<1>5. CASE CommandOn(p)
  <2>1. PICK target \in RadioStates : Transit(p, target, "start") /\ pc[p] # "spawn"
    BY <1>5 DEF CommandOn, RadioStates, WorldTypes
  <2>. QED
    BY <1>5, <2>1, TransitTypes
       DEF CommandOn, PressUnchanged, worldVars, ProcTypes, WorldTypes, OneConnects
<1>6. CASE Start(p)
  <2>1. ProcTypes'
    BY <1>6 DEF Start, Begin, Goto, worldVars, lifeVars, ProcTypes, Places
  <2>2. WorldTypes'
    BY <1>6 DEF Start, Begin, Goto, worldVars, lifeVars, WorldTypes
  <2>3. OneConnects'
    BY <1>6 DEF Start, Begin, Goto, worldVars, lifeVars, ProcTypes,
               OneConnects
  <2>. QED
    BY <2>1, <2>2, <2>3
<1>7. CASE Loop(p) \/ Deadline(p)
  <2>1. ProcTypes'
    BY <1>7 DEF Loop, Deadline, PressUnchanged, End, Begin, Goto, lifeVars, ProcTypes, Places
  <2>2. WorldTypes'
    BY <1>7 DEF Loop, Deadline, PressUnchanged, End, Begin, Goto, worldVars, lifeVars, boundVars,
                WorldTypes
  <2>3. OneConnects'
    BY <1>7 DEF Loop, Deadline, PressUnchanged, End, Begin, Goto, worldVars, lifeVars, boundVars,
                ProcTypes, OneConnects
  <2>. QED
    BY <2>1, <2>2, <2>3
<1>. QED
  BY <1>1, <1>2, <1>3, <1>4, <1>5, <1>6, <1>7

LEMMA WorldStepTypes ==
    ASSUME TypeOK, WorldMoves \/ Retries \/ StateTimeout \/ BackoffPasses \/ UNCHANGED vars
    PROVE  TypeOK'
<1>1. procVars' = procVars /\ connecting' = connecting
  BY DEF WorldMoves, Retries, StateTimeout, BackoffPasses, WorldUnchanged, vars
<1>2. ProcTypes' /\ OneConnects'
  BY <1>1, TypeParts DEF procVars, ProcTypes, OneConnects
<1>3. answers' \in BOOLEAN /\ overdue' \in BOOLEAN /\ due' \in BOOLEAN
  BY TypeParts, Zenon
     DEF WorldMoves, Retries, StateTimeout, BackoffPasses, WorldUnchanged, vars, worldVars,
         lifeVars, WorldTypes
<1>4. WorldTypes'
  BY <1>3, TypeParts
     DEF WorldMoves, Retries, StateTimeout, BackoffPasses, WorldUnchanged, vars, worldVars,
         lifeVars, boundVars, WorldTypes
<1>. QED
  BY <1>2, <1>4, TypeParts

LEMMA NextTypes == TypeOK /\ [Next]_vars => TypeOK'
<1> SUFFICES ASSUME TypeOK, [Next]_vars PROVE TypeOK'
  OBVIOUS
<1>1. ASSUME NEW p \in Procs, TickStep(p) \/ Spawn(p) PROVE TypeOK'
  BY <1>1, ConnectTypes, GatherTypes, StepTypes, ApplyTypes DEF TickStep
<1>2. CASE MonitorStep \/ ReadBack
  BY <1>1, <1>2, ProcFacts, MonitorTypes DEF MonitorStep
<1>3. ASSUME NEW p \in Users, Press(p) \/ UserStep(p) \/ Cut(p) \/ Start(p) \/ Deadline(p)
      PROVE  TypeOK'
  BY <1>1, <1>3, ProcFacts, PressTypes, UserTypes DEF UserStep
<1>4. CASE WorldMoves \/ Retries \/ StateTimeout \/ BackoffPasses \/ UNCHANGED vars
  BY <1>4, WorldStepTypes
<1>. QED
  BY <1>1, <1>2, <1>3, <1>4 DEF Next

\* Every variable keeps its type; at most one process is inside connect, and it is
\* the one that the lock says (TypeOK, one_connect).
THEOREM TypeCorrect == Spec => []TypeOK
<1>1. Init => TypeOK
  BY InitInv DEF Inv
<1>. QED
  BY <1>1, NextTypes, PTL DEF Spec

----------------------------------------------------------------------------
(* The start-up reconcile.                                                 *)

\* A step of the monitor's tick, during the reconcile, only applies its transition.
LEMMA TickReconciles ==
    ASSUME Inv, NEW p \in Procs, TickStep(p) \/ Spawn(p)
    PROVE  Reconciling' /\ OnlyOnce'
<1>1. /\ next'[Monitor] = next[Monitor]
      /\ \A q \in Procs \ {p} : pc'[q] = pc[q]
      /\ \A q \in Procs : next'[q] = next[q]
      /\ pc[p] \in {"tick", "connect", "spawn", "gather", "step", "apply"}
      /\ pc'[p] \in {"connect", "spawn", "gather", "step", "apply", next[p]}
  BY TypeParts, ProcFacts
     DEF Inv, ProcTypes, TickStep, CheckDue, Connect, Spawn, Gather, Step, Apply, Pending, Return,
         Transit, Goto, ConnectUnchanged, NoEvidence
<1>2. OnlyOnce'
  BY <1>1, TypeParts, ProcFacts DEF Inv, ProcTypes, OnlyOnce
<1>3. Reconciling'
  <2> SUFFICES ASSUME next[Monitor] = "reconciled" PROVE Reconciling'
    BY <1>1 DEF Reconciling
  <2>1. p = Monitor /\ pc[p] = "apply"
    BY <1>1 DEF Inv, Reconciling, Procs
  <2>2. Apply(p)
    BY <2>1 DEF TickStep, CheckDue, Connect, Spawn, Gather, Step
  <2>. QED
    BY <1>1, <2>1, <2>2, TypeParts, ProcFacts
       DEF Inv, Reconciling, ProcTypes, Apply, Return, Goto, lifeVars
<1>. QED
  BY <1>2, <1>3

LEMMA MonitorReconciles ==
    ASSUME Inv, ReadBack \/ Resolve \/ Tick
    PROVE  Reconciling' /\ OnlyOnce'
<1> USE TypeParts, ProcFacts DEF Inv, ProcTypes, Reconciling, OnlyOnce, Goto
<1>1. CASE ReadBack
  BY <1>1 DEF ReadBack, lifeVars
<1>2. CASE Resolve
  <2> DEFINE target == Resolved(evidence[Monitor])
  <2>1. /\ pc[Monitor] = "resolve" /\ life' = target
        /\ \/ Goto(Monitor, "apply") /\ to' = [to EXCEPT ![Monitor] = target]
           \/ ~Recorded(target) /\ Return(Monitor) /\ UNCHANGED to
        /\ UNCHANGED <<record, next>>
    BY <1>2 DEF Resolve
  <2> HIDE DEF target
  <2>. QED
    BY <2>1 DEF Recorded, Return
<1>3. CASE Tick
  BY <1>3 DEF Tick, Begin
<1>. QED
  BY <1>1, <1>2, <1>3

\* Nobody presses before the reconcile is over.
LEMMA UserReconciles ==
    ASSUME Inv, NEW p \in Users,
           Press(p) \/ Cut(p) \/ CommandOff(p) \/ Poll(p) \/ Look(p) \/ CommandOn(p) \/ Start(p)
              \/ Loop(p) \/ Deadline(p)
    PROVE  Reconciling' /\ OnlyOnce'
<1>1. next[Monitor] # "reconciled"
  BY DEF Inv, Reconciling, Press, Cut, CommandOff, Poll, Look, CommandOn, Start, Loop, Deadline
<1>2. /\ \A q \in Procs \ {p} : pc'[q] = pc[q] /\ next'[q] = next[q]
      /\ pc'[p] \notin {"readback", "resolve", "reconciled"} /\ next'[p] # "reconciled"
  BY TypeParts, ProcFacts
     DEF Inv, ProcTypes, OnlyOnce, Press, Cut, CommandOff, Poll, Look, CommandOn, Start, Loop,
         Deadline, Transit, Begin, End, Goto
<1>. QED
  BY <1>1, <1>2, ProcFacts DEF Inv, Reconciling, OnlyOnce

LEMMA NextReconciles == Inv /\ [Next]_vars => Reconciling' /\ OnlyOnce'
<1> SUFFICES ASSUME Inv, [Next]_vars PROVE Reconciling' /\ OnlyOnce'
  OBVIOUS
<1>1. CASE MonitorStep \/ ReadBack
  BY <1>1, ProcFacts, TickReconciles, MonitorReconciles DEF MonitorStep
<1>2. ASSUME NEW p \in Users, Press(p) \/ UserStep(p) \/ Cut(p) \/ Start(p) \/ Deadline(p)
      PROVE  Reconciling' /\ OnlyOnce'
  BY <1>2, ProcFacts, TickReconciles, UserReconciles DEF UserStep
<1>3. CASE WorldMoves \/ Retries \/ StateTimeout \/ BackoffPasses \/ UNCHANGED vars
  <2>1. UNCHANGED <<procVars, record, life>>
    BY <1>3 DEF WorldMoves, Retries, StateTimeout, BackoffPasses, WorldUnchanged, vars, lifeVars
  <2>. QED
    BY <2>1 DEF Inv, Reconciling, OnlyOnce, procVars
<1>4. ASSUME NEW p \in Procs, Spawn(p) PROVE Reconciling' /\ OnlyOnce'
  BY <1>4, TickReconciles
<1>. QED
  BY <1>1, <1>2, <1>3, <1>4 DEF Next

\* After the start-up reconcile the record is that of the machine, whatever record
\* the last run left behind (ReconcileCorrects).
THEOREM ReconcileMendsTheRecord == Spec => []ReconcileCorrects
<1>1. Inv => ReconcileCorrects
  BY DEF Inv, Reconciling, OnlyOnce, ReconcileCorrects
<1>2. Inv /\ [Next]_vars => Inv'
  BY NextTypes, NextReconciles DEF Inv
<1>. QED
  BY <1>1, <1>2, InitInv, PTL DEF Spec
=============================================================================
