------------------------ MODULE TransmitLeaseProofs ------------------------
(***************************************************************************)
(* However many leases there are, however they overlap and however they    *)
(* end, on a runtime of any number of workers: an open gate and a          *)
(* transmission are owed to a lease whose end has still to come, and when  *)
(* every lease has ended the gate is closed and the rig unkeyed, but for   *)
(* the one way to leave them open, a drop that finds its own abort         *)
(* completed.                                                              *)
(***************************************************************************)
EXTENDS TransmitLease, TLAPS

Step(l) == Opens(l) \/ Uses(l) \/ Ends(l) \/ Timer(l)

LEMMA NextSteps == Next <=> Actor \/ \E l \in Leases : Step(l)
BY DEF Next, Step

----------------------------------------------------------------------------
(* Types.                                                                  *)

LEMMA InitTypes == Init => TypeOK
<1> SUFFICES ASSUME Init PROVE TypeOK
  OBVIOUS
<1> USE DEF Init, Ending
<1>1. /\ gate \in BOOLEAN /\ permit \in Leases \union {None} /\ tx \in BOOLEAN
      /\ serving \in {"none", "key", "unkey"} /\ leftOpen \in BOOLEAN
  BY Zenon
<1>5. unkeys \in Nat
  OBVIOUS
<1>6. normal \in Seq(Leases)
  <2>. << >> \in Seq(Leases)
    OBVIOUS
  <2>. normal = << >>
    BY Zenon
  <2>. QED
    BY Zenon
<1>2. calls \in [Leases -> Nat]
  OBVIOUS
<1>3. holder \in [Leases -> {"free", "asking", "refused", "permitted", "opening", "opened",
                            "live", "dropping", "ended"} \union Ending]
  OBVIOUS
<1>4. timer \in [Leases -> {"none", "sleeping", "aborted", "cancelled", "finished"} \union Ending]
  OBVIOUS
<1>. QED
  BY <1>1, <1>2, <1>3, <1>4, <1>5, <1>6, Zenon DEF TypeOK

LEMMA OpensTypes ==
    ASSUME TypeOK, NEW l \in Leases, Opens(l)
    PROVE  TypeOK'
BY LeaseAssumption
   DEF TypeOK, Ending, Opens, AskGate, AskPermit, SetPermit, OpenGate, SpawnTimer, SetHolder,
       SetTimer, GateUnchanged, rigVars

LEMMA UsesTypes ==
    ASSUME TypeOK, NEW l \in Leases, Uses(l)
    PROVE  TypeOK'
<1>1. CASE Key(l)
  BY <1>1 DEF TypeOK, Ending, Key, Called, GateUnchanged
<1>2. CASE Unkey(l)
  BY <1>2 DEF TypeOK, Ending, Unkey, Called, GateUnchanged
<1>3. CASE Release(l) \/ Drop(l)
  BY <1>3 DEF TypeOK, Ending, Release, Drop, Aborted, SetHolder, SetTimer, GateUnchanged, rigVars
<1>. QED
  BY <1>1, <1>2, <1>3 DEF Uses

LEMMA EndStepTypes ==
    ASSUME TypeOK, NEW where, NEW next, EndStep(where, next)
    PROVE  /\ gate' \in BOOLEAN /\ permit' \in Leases \union {None} /\ unkeys' \in Nat
           /\ normal' = normal /\ serving' = serving /\ tx' = tx /\ leftOpen' \in BOOLEAN
<1>1. CASE /\ where = "gate" /\ next = "permit"
           /\ gate' = FALSE /\ leftOpen' = FALSE /\ UNCHANGED <<permit, rigVars>>
  BY <1>1 DEF TypeOK, rigVars
<1>2. CASE /\ where = "permit" /\ next = "unkey"
           /\ permit' = None /\ UNCHANGED <<gate, leftOpen, rigVars>>
  BY <1>2 DEF TypeOK, rigVars
<1>3. CASE /\ where = "unkey" /\ next = "over" /\ unkeys' = unkeys + 1
           /\ GateUnchanged /\ UNCHANGED <<normal, serving, tx>>
  BY <1>3 DEF TypeOK, GateUnchanged
<1>. QED
  BY <1>1, <1>2, <1>3 DEF EndStep

LEMMA EndsTypes ==
    ASSUME TypeOK, NEW l \in Leases, Ends(l)
    PROVE  TypeOK'
<1>1. CASE DropLooks(l)
  BY <1>1 DEF TypeOK, Ending, DropLooks, Finished, SetHolder, rigVars
<1>2. CASE HolderEnds(l)
  <2>1. PICK next \in {"permit", "unkey", "over"} :
            /\ EndStep(holder[l], next)
            /\ SetHolder(l, IF next = "over" THEN "ended" ELSE next)
            /\ UNCHANGED <<timer, calls>>
    BY <1>2 DEF HolderEnds
  <2>2. holder[l] \in Ending
    BY <2>1 DEF EndStep, Ending
  <2>. QED
    BY <2>1, <2>2, EndStepTypes DEF TypeOK, Ending, SetHolder
<1>. QED
  BY <1>1, <1>2 DEF Ends

LEMMA TimerTypes ==
    ASSUME TypeOK, NEW l \in Leases, Timer(l)
    PROVE  TypeOK'
<1>1. CASE TimerWakes(l) \/ AbortLands(l)
  BY <1>1 DEF TypeOK, Ending, TimerWakes, AbortLands, SetTimer, GateUnchanged, rigVars
<1>2. CASE TimerEnds(l)
  <2>1. PICK next \in {"permit", "unkey", "over"} :
            /\ EndStep(timer[l], next)
            /\ SetTimer(l, IF next = "over" THEN "finished" ELSE next)
            /\ UNCHANGED <<holder, calls>>
    BY <1>2 DEF TimerEnds
  <2>2. timer[l] \in Ending
    BY <2>1 DEF EndStep, Ending
  <2>. QED
    BY <2>1, <2>2, EndStepTypes DEF TypeOK, Ending, SetTimer
<1>. QED
  BY <1>1, <1>2 DEF Timer

LEMMA ActorTypes ==
    ASSUME TypeOK, Actor
    PROVE  TypeOK'
<1> USE DEF ActorUnchanged, GateUnchanged, callVars
<1>1. CASE Take
  <2>1. normal' \in Seq(Leases)
    <3>1. normal' = normal \/ (normal # << >> /\ normal' = Tail(normal))
      BY <1>1, Zenon DEF Take
    <3>2. normal \in Seq(Leases)
      BY Zenon DEF TypeOK
    <3>. QED
      BY <3>1, <3>2
  <2>2. unkeys' \in Nat /\ serving' \in {"none", "key", "unkey"}
    BY <1>1 DEF TypeOK, Take
  <2>. QED
    BY <1>1, <2>1, <2>2 DEF TypeOK, Take
<1>2. CASE Carry \/ Preempt
  BY <1>2 DEF TypeOK, Carry, Preempt
<1>. QED
  BY <1>1, <1>2 DEF Actor

\* Every variable of the leases keeps its type (transmit_lease and its end).
THEOREM TypeCorrect == Spec => []TypeOK
<1>1. TypeOK /\ [Next]_vars => TypeOK'
  <2> SUFFICES ASSUME TypeOK, [Next]_vars PROVE TypeOK'
    OBVIOUS
  <2>1. CASE Actor
    BY <2>1, ActorTypes
  <2>2. CASE \E l \in Leases : Step(l)
    BY <2>2, OpensTypes, UsesTypes, EndsTypes, TimerTypes DEF Step
  <2>3. CASE UNCHANGED vars
    BY <2>3 DEF TypeOK, vars, callVars, rigVars
  <2>. QED
    BY <2>1, <2>2, <2>3, NextSteps
<1>. QED
  BY <1>1, InitTypes, PTL DEF Spec

----------------------------------------------------------------------------
(* Who closes the gate and who unkeys.                                     *)

\* A lease that has still to close the gate keeps that duty in every step that
\* leaves the gate open, unless it is a drop that leaves it so.
LEMMA HoldsGateKept ==
    ASSUME TypeOK, NEW l \in Leases, Step(l), NEW m \in Leases, HoldsGate(m), gate, gate'
    PROVE  HoldsGate(m)' \/ leftOpen'
<1> USE DEF TypeOK, HoldsGate
<1>1. CASE Opens(l)
  BY <1>1 DEF Opens, AskGate, AskPermit, SetPermit, OpenGate, SpawnTimer, SetHolder, SetTimer
<1>2. CASE Uses(l)
  BY <1>2 DEF Uses, Key, Unkey, Called, Release, Drop, Aborted, SetHolder, SetTimer
<1>3. CASE DropLooks(l)
  BY <1>3 DEF DropLooks, Finished, SetHolder
<1>4. CASE HolderEnds(l)
  BY <1>4 DEF HolderEnds, EndStep, SetHolder
<1>5. CASE TimerWakes(l) \/ AbortLands(l)
  BY <1>5 DEF TimerWakes, AbortLands, SetTimer
<1>6. CASE TimerEnds(l)
  BY <1>6 DEF TimerEnds, EndStep, SetTimer
<1>. QED
  BY <1>1, <1>2, <1>3, <1>4, <1>5, <1>6 DEF Step, Ends, Timer

\* A gate that a drop left open stays so until somebody closes it.
LEMMA LeftOpenKept ==
    ASSUME NEW l \in Leases, Step(l), leftOpen, gate'
    PROVE  leftOpen'
BY DEF Step, Opens, AskGate, AskPermit, SetPermit, OpenGate, SpawnTimer, Uses, Key, Unkey, Release,
       Drop, Ends, DropLooks, HolderEnds, Timer, TimerWakes, TimerEnds, AbortLands, EndStep,
       GateUnchanged

\* The gate is opened by a lease that owes its closing, and by nothing else.
LEMMA OpenerHoldsGate ==
    ASSUME TypeOK, NEW l \in Leases, Step(l), ~gate, gate'
    PROVE  HoldsGate(l)'
<1>1. OpenGate(l)
  BY DEF Step, Opens, AskGate, AskPermit, SetPermit, SpawnTimer, Uses, Key, Unkey, Release, Drop,
         Ends, DropLooks, HolderEnds, Timer, TimerWakes, TimerEnds, AbortLands, EndStep,
         GateUnchanged
<1>. QED
  BY <1>1 DEF OpenGate, SetHolder, HoldsGate, TypeOK

LEMMA GateInductive ==
    ASSUME TypeOK, GateHasLease, [Next]_vars
    PROVE  GateHasLease'
<1>1. CASE Actor
  BY <1>1 DEF Actor, Take, Carry, Preempt, ActorUnchanged, GateUnchanged, callVars, GateHasLease,
              HoldsGate
<1>2. ASSUME NEW l \in Leases, Step(l), gate'
      PROVE  leftOpen' \/ \E m \in Leases : HoldsGate(m)'
  <2>1. CASE gate
    BY <1>2, <2>1, HoldsGateKept, LeftOpenKept DEF GateHasLease
  <2>2. CASE ~gate
    BY <1>2, <2>2, OpenerHoldsGate
  <2>. QED
    BY <2>1, <2>2
<1>3. CASE UNCHANGED vars
  BY <1>3 DEF vars, callVars, GateHasLease, HoldsGate
<1>. QED
  BY <1>1, <1>2, <1>3, NextSteps DEF GateHasLease

\* However many leases overlap and on however many workers, a gate that is open is
\* owed to a lease whose end has still to close it, or was left open by a drop that
\* found its own abort completed (close_transmit_gate in end_lease, release, drop).
THEOREM OpenGateIsOwed == Spec => []GateHasLease
<1>1. Init => GateHasLease
  BY DEF Init, GateHasLease
<1>2. TypeOK /\ GateHasLease /\ [Next]_vars => GateHasLease'
  BY GateInductive
<1>. QED
  BY <1>1, <1>2, TypeCorrect, PTL DEF Spec

----------------------------------------------------------------------------
(* With the gate closed, a radio on the air has an unkey coming for certain. *)

\* This lease has closed the gate and has still to submit its unkey.
SubmitsUnkey(l) == holder[l] \in {"permit", "unkey"} \/ timer[l] \in {"permit", "unkey"}

ClosedAirHasUnkey ==
    ~gate /\ (tx \/ serving = "key") =>
        unkeys > 0 \/ serving = "unkey" \/ \E l \in Leases : SubmitsUnkey(l)

\* A lease that has still to submit an unkey does so before it forgets.
LEMMA SubmitsUnkeyKept ==
    ASSUME TypeOK, NEW l \in Leases, Step(l), NEW m \in Leases, SubmitsUnkey(m)
    PROVE  SubmitsUnkey(m)' \/ unkeys' > 0
<1> USE DEF TypeOK, SubmitsUnkey
<1>1. CASE Opens(l)
  BY <1>1 DEF Opens, AskGate, AskPermit, SetPermit, OpenGate, SpawnTimer, SetHolder, SetTimer
<1>2. CASE Uses(l)
  BY <1>2 DEF Uses, Key, Unkey, Called, Release, Drop, Aborted, SetHolder, SetTimer
<1>3. CASE DropLooks(l)
  BY <1>3 DEF DropLooks, Finished, SetHolder
<1>4. CASE HolderEnds(l)
  BY <1>4 DEF HolderEnds, EndStep, SetHolder
<1>5. CASE TimerWakes(l) \/ AbortLands(l)
  BY <1>5 DEF TimerWakes, AbortLands, SetTimer
<1>6. CASE TimerEnds(l)
  BY <1>6 DEF TimerEnds, EndStep, SetTimer
<1>. QED
  BY <1>1, <1>2, <1>3, <1>4, <1>5, <1>6 DEF Step, Ends, Timer

\* The gate is closed by a lease that goes on to unkey, and by nothing else.
LEMMA CloserUnkeys ==
    ASSUME TypeOK, NEW l \in Leases, Step(l), gate, ~gate'
    PROVE  SubmitsUnkey(l)'
<1>1. HolderEnds(l) \/ TimerEnds(l)
  BY DEF Step, Opens, AskGate, AskPermit, SetPermit, OpenGate, SpawnTimer, Uses, Key, Unkey,
         Release, Drop, Ends, DropLooks, Timer, TimerWakes, AbortLands, GateUnchanged
<1>. QED
  BY <1>1 DEF HolderEnds, TimerEnds, EndStep, GateUnchanged, SetHolder, SetTimer, SubmitsUnkey,
              TypeOK

\* A caller or a timer changes neither the radio nor what the rig has begun,
\* and takes no unkey away.
LEMMA StepKeepsRig ==
    ASSUME TypeOK, NEW l \in Leases, Step(l)
    PROVE  tx' = tx /\ serving' = serving /\ (unkeys > 0 => unkeys' > 0)
BY DEF TypeOK, Step, Opens, AskGate, AskPermit, SetPermit, OpenGate, SpawnTimer, Uses, Key, Unkey,
       Called, Release, Drop, Ends, DropLooks, HolderEnds, Timer, TimerWakes, TimerEnds,
       AbortLands, EndStep, GateUnchanged, rigVars

\* The rig begins a key only at an open gate, and forgets an unkey only by
\* beginning it.
LEMMA ActorKeepsUnkey ==
    ASSUME TypeOK, ClosedAirHasUnkey, Actor
    PROVE  ClosedAirHasUnkey'
<1> USE DEF TypeOK, ActorUnchanged, GateUnchanged, callVars, SubmitsUnkey
<1>1. CASE Take
  BY <1>1 DEF Take, Served, ClosedAirHasUnkey
<1>2. CASE Carry
  BY <1>2 DEF Carry, ClosedAirHasUnkey
<1>3. CASE Preempt
  BY <1>3 DEF Preempt, ClosedAirHasUnkey
<1>. QED
  BY <1>1, <1>2, <1>3 DEF Actor

LEMMA ClosedAirInductive ==
    ASSUME TypeOK, ClosedAirHasUnkey, [Next]_vars
    PROVE  ClosedAirHasUnkey'
<1>1. CASE Actor
  BY <1>1, ActorKeepsUnkey
<1>2. ASSUME NEW l \in Leases, Step(l), ~gate', tx' \/ serving' = "key"
      PROVE  unkeys' > 0 \/ serving' = "unkey" \/ \E m \in Leases : SubmitsUnkey(m)'
  <2>1. CASE gate
    BY <1>2, <2>1, CloserUnkeys
  <2>2. CASE ~gate
    BY <1>2, <2>2, StepKeepsRig, SubmitsUnkeyKept DEF ClosedAirHasUnkey
  <2>. QED
    BY <2>1, <2>2 DEF TypeOK
<1>3. CASE UNCHANGED vars
  BY <1>3 DEF vars, callVars, rigVars, ClosedAirHasUnkey, SubmitsUnkey
<1>. QED
  BY <1>1, <1>2, <1>3, NextSteps DEF ClosedAirHasUnkey

LEMMA ClosedAir == Spec => []ClosedAirHasUnkey
<1>1. Init => ClosedAirHasUnkey
  BY DEF Init, ClosedAirHasUnkey
<1>2. TypeOK /\ ClosedAirHasUnkey /\ [Next]_vars => ClosedAirHasUnkey'
  BY ClosedAirInductive
<1>. QED
  BY <1>1, <1>2, TypeCorrect, PTL DEF Spec

\* However many leases overlap and on however many workers, a radio on the air, or
\* about to be, has an unkey coming, or a drop that found its own abort completed
\* left the gate open (end_lease closes the gate before it unkeys, and the rig looks
\* at the gate again before it keys).
THEOREM TransmissionIsOwed == Spec => []AirHasUnkey
<1>1. GateHasLease /\ ClosedAirHasUnkey => AirHasUnkey
  BY DEF GateHasLease, ClosedAirHasUnkey, AirHasUnkey, OwesUnkey, SubmitsUnkey
<1>. QED
  BY <1>1, OpenGateIsOwed, ClosedAir, PTL

\* When every lease has ended and the rig has served what was queued, the gate is
\* closed and the radio unkeyed (the promise of transmit_lease), unless a drop that
\* found its own abort completed left the gate open.
THEOREM EveryEndUnkeys == Spec => []EndedMeansUnkeyed
<1>1. GateHasLease /\ AirHasUnkey => EndedMeansUnkeyed
  BY DEF GateHasLease, AirHasUnkey, EndedMeansUnkeyed, AllOver, Over, OwesUnkey, HoldsGate
<1>. QED
  BY <1>1, OpenGateIsOwed, TransmissionIsOwed, PTL
=============================================================================
