---------------------------- MODULE RadioManager ----------------------------
(***************************************************************************)
(* The lifecycle of one radio of radioctl-station: its state machine       *)
(* (lifecycle.rs), the monitor that ticks it, the power button             *)
(* (manager.rs), and the link that connects to it through a new actor      *)
(* (actor_link.rs).                                                        *)
(*                                                                         *)
(* The monitor and the presses run side by side.  Each gathers its         *)
(* evidence piece by piece, then steps the state machine under a lock,     *)
(* then applies the transition: record, file and event.  The radio is      *)
(* powered by a switch that can be read back; what the switch, the radio   *)
(* and its link do by themselves is left open.                             *)
(***************************************************************************)
EXTENDS Integers

CONSTANTS
    Monitor,  \* the task of spawn_monitor
    Users,    \* those who press the power button
    None,
    Presses,  \* bound: presses of the button
    Moves,    \* bound: changes of the switch, the radio and the link
    Refusals  \* bound: operations of the station that fail

Procs == {Monitor} \union Users

ASSUME ManagerAssumption ==
    Monitor \notin Users /\ None \notin Procs /\ Presses \in Nat /\ Moves \in Nat /\ Refusals \in Nat

RadioStates == {"Off", "PoweringOn", "Booting", "Ready", "Degraded", "Unreachable"}

VARIABLES
    switch,         \* Station::device_power: the confirmed state
    answers,        \* whether the radio would answer a new actor
    link, present,  \* ActorLinks::slot_state, RadioLink::present
    connecting,     \* ActorLinks::one_connect: who is inside, or None
    life, prev,     \* Lifecycle::state, Lifecycle::prev_present
    overdue,        \* the state has lasted as long as it may
    due,            \* the backoff since the last attempt has passed
    record,         \* RadioRecord::lifecycle, and the last event
    pc, next,       \* where each process stands, and where its tick or step returns to
    evidence, to,   \* what it has gathered, and the transition it has still to apply
    reboot,         \* its button was Reboot
    presses, moves, refusals  \* bounds used up

worldVars == <<switch, answers, link, present>>
lifeVars  == <<life, prev, overdue>>
procVars  == <<pc, next, evidence, to, reboot>>
boundVars == <<presses, moves, refusals>>

vars == <<worldVars, connecting, lifeVars, due, record, procVars, boundVars>>

NoEvidence == [power |-> "Unknown", up |-> FALSE, present |-> "unknown"]

Goto(p, where) == pc' = [pc EXCEPT ![p] = where]
Return(p)      == Goto(p, next[p])

\* Goes to `where`, and on to `after` when that has returned.
Begin(p, where, after) ==
    /\ Goto(p, where)
    /\ next' = [next EXCEPT ![p] = after]

\* The press has ended.
End(p) ==
    /\ Begin(p, "idle", "idle")
    /\ reboot' = [reboot EXCEPT ![p] = FALSE]

----------------------------------------------------------------------------
(* connect_step: one attempt to reconnect, if one is due.                  *)

\* Seeded fault: an Unreachable radio is given up.
DueUntilUnreachable == life \in {"Booting", "Degraded"} /\ due /\ switch # "Off" /\ link # "Up"

\* The state, the backoff, the switch and the link call for an attempt; an
\* Unreachable radio is tried only when it is present.
Due ==
    /\ life \in {"Booting", "Degraded", "Unreachable"} /\ due /\ switch # "Off"
    /\ link # "Up" /\ (life = "Unreachable" => present = "there")

ConnectUnchanged ==
    UNCHANGED <<worldVars, lifeVars, record, next, evidence, to, reboot, boundVars>>

CheckDue(p) ==
    /\ pc[p] = "tick"
    /\ Goto(p, IF Due THEN "connect" ELSE "gather")
    /\ UNCHANGED <<connecting, due>> /\ ConnectUnchanged

\* ActorLinks::connect: one at a time; a transport that reconnects by itself is left alone.
Connect(p) ==
    /\ pc[p] = "connect" /\ connecting = None
    /\ \/ /\ link = "Up" /\ due' = TRUE /\ Goto(p, "gather") /\ UNCHANGED connecting
       \/ /\ link = "Retrying" /\ due' = FALSE /\ Goto(p, "gather") /\ UNCHANGED connecting
       \/ /\ link \in {"Absent", "Dead"}
          /\ connecting' = p /\ Goto(p, "spawn") /\ UNCHANGED due
    /\ ConnectUnchanged

\* Seeded fault: an attempt that fails keeps the lock.
SpawnKeepsLock(p) ==
    /\ pc[p] = "spawn"
    /\ connecting' = IF answers THEN None ELSE connecting
    /\ link' = IF answers THEN "Up" ELSE link
    /\ due' = answers
    /\ Goto(p, "gather")
    /\ UNCHANGED <<switch, answers, present, lifeVars, record, next, evidence, to, reboot, boundVars>>

\* The new actor takes the slot after its unkey pass, or is dropped.
Spawn(p) ==
    /\ pc[p] = "spawn"
    /\ connecting' = None
    /\ link' = IF answers THEN "Up" ELSE link
    /\ due' = answers
    /\ Goto(p, "gather")
    /\ UNCHANGED <<switch, answers, present, lifeVars, record, next, evidence, to, reboot, boundVars>>

----------------------------------------------------------------------------
(* gather, Lifecycle::step, apply.                                         *)

\* A snapshot of the evidence, which may be old when the machine is stepped.
Snapshot(power) == [power |-> power, up |-> link = "Up", present |-> present]

Gather(p) ==
    /\ pc[p] = "gather"
    /\ evidence' = [evidence EXCEPT ![p] = Snapshot(switch)]
    /\ Goto(p, "step")
    /\ UNCHANGED <<worldVars, connecting, lifeVars, due, record, next, to, reboot, boundVars>>

\* A device that has been there all along is not appearing.
Appeared(e) == e.present = "there" /\ prev # "there"

OnLink(from, target, e) == e.up /\ from # "PoweringOn" /\ target = "Ready"

OnSwitch(from, target, e) ==
    /\ e.power = "On" /\ target = "Booting"
    /\ from = "PoweringOn" \/ (from = "Off" /\ ~e.up)

OnLoss(from, target, e) ==
    /\ ~e.up
    /\ \/ from = "Ready" /\ target = "Degraded" /\ e.present # "gone"
       \/ from \in {"Ready", "Degraded"} /\ target = "Unreachable" /\ e.present = "gone"
       \/ from = "Unreachable" /\ target = "Booting" /\ Appeared(e)

\* Seeded fault: a switch may take for ever.
OnTimeoutBooted(from, target, e) ==
    overdue /\ target = "Unreachable" /\ from \in {"Booting", "Degraded"} /\ ~e.up

OnTimeout(from, target, e) ==
    /\ overdue /\ target = "Unreachable"
    /\ \/ from = "PoweringOn" /\ e.power # "On"
       \/ from \in {"Booting", "Degraded"} /\ ~e.up

\* Seeded fault: a link that is up is believed over the switch.
LinkOverSwitch(from, target, e) ==
    \/ target = "Off" /\ e.power = "Off" /\ ~e.up
    \/ /\ e.power # "Off" \/ e.up
       /\ \/ OnLink(from, target, e) \/ OnSwitch(from, target, e)
          \/ OnLoss(from, target, e) \/ OnTimeout(from, target, e)

\* The transition that the evidence calls for: a switch that is off comes first.
Follows(from, target, e) ==
    \/ target = "Off" /\ e.power = "Off"
    \/ /\ e.power # "Off"
       /\ \/ OnLink(from, target, e) \/ OnSwitch(from, target, e)
          \/ OnLoss(from, target, e) \/ OnTimeout(from, target, e)

Pending(p) == pc[p] = "apply"

\* Lifecycle::goto, with the transition it leaves to apply; then on to `after`.
Transit(p, target, after) ==
    /\ next' = [next EXCEPT ![p] = after]
    /\ IF life = target
       THEN Goto(p, after) /\ UNCHANGED <<life, overdue, to>>
       ELSE /\ life' = target /\ overdue' = FALSE
            /\ to' = [to EXCEPT ![p] = target]
            /\ Goto(p, "apply")

Step(p) ==
    /\ pc[p] = "step"
    /\ LET e == evidence[p] IN
        /\ \/ \E target \in RadioStates : Follows(life, target, e) /\ Transit(p, target, next[p])
           \/ /\ \A target \in RadioStates : ~Follows(life, target, e)
              /\ Transit(p, life, next[p])
        /\ prev' = e.present
    /\ evidence' = [evidence EXCEPT ![p] = NoEvidence]
    /\ UNCHANGED <<worldVars, connecting, due, record, reboot, presses, moves, refusals>>

\* apply: the record, the file and the event.
Apply(p) ==
    /\ Pending(p)
    /\ record' = to[p]
    /\ to' = [to EXCEPT ![p] = "Unreachable"]
    /\ Return(p)
    /\ UNCHANGED <<worldVars, connecting, lifeVars, due, next, evidence, reboot, boundVars>>

----------------------------------------------------------------------------
(* reconcile, at start-up: the switch is read, never written.              *)

ReadBack ==
    /\ pc[Monitor] = "readback"
    /\ switch' \in {"On", "Off", "Unknown"}
    /\ evidence' = [evidence EXCEPT ![Monitor] = Snapshot(switch')]
    /\ Goto(Monitor, "resolve")
    /\ UNCHANGED <<answers, link, present, connecting, lifeVars, due, record, next, to, reboot, boundVars>>

Resolved(e) ==
    CASE e.power = "Off" -> "Off"
      [] e.power # "Off" /\ e.up -> "Ready"
      [] e.power = "On" /\ ~e.up -> "Booting"
      [] OTHER -> "Unreachable"

\* Seeded fault: only a change of the state machine is recorded.
OnlyChanges(target) == target # life

\* The state changed, or the record says something else.
Recorded(target) == target # life \/ record # target

Resolve ==
    /\ pc[Monitor] = "resolve"
    /\ LET target == Resolved(evidence[Monitor]) IN
        /\ life' = target /\ overdue' = FALSE /\ prev' = "unknown"
        /\ IF Recorded(target)
           THEN Goto(Monitor, "apply") /\ to' = [to EXCEPT ![Monitor] = target]
           ELSE Return(Monitor) /\ UNCHANGED to
    /\ evidence' = [evidence EXCEPT ![Monitor] = NoEvidence]
    /\ UNCHANGED <<worldVars, connecting, due, record, next, reboot, boundVars>>

\* spawn_monitor: the next tick.
Tick ==
    /\ pc[Monitor] \in {"idle", "reconciled"}
    /\ Begin(Monitor, "tick", "idle")
    /\ UNCHANGED <<worldVars, connecting, lifeVars, due, record, evidence, to, reboot, boundVars>>

----------------------------------------------------------------------------
(* press: the power button, after the start-up reconcile.                  *)

PressUnchanged == UNCHANGED <<worldVars, connecting, due, record, evidence>>

Press(p) ==
    /\ pc[p] = "idle" /\ next[Monitor] # "reconciled" /\ presses < Presses
    /\ presses' = presses + 1
    /\ \E button \in {"On", "Off", "Reboot"} :
        /\ Goto(p, IF button = "On" THEN "look" ELSE "cut")
        /\ reboot' = [reboot EXCEPT ![p] = button = "Reboot"]
    /\ PressUnchanged /\ UNCHANGED <<lifeVars, next, to, moves, refusals>>

\* Station::power_off: what is known to be off is left alone; a failure ends the press.
Cut(p) ==
    /\ pc[p] = "cut"
    /\ \/ switch = "Off" /\ Goto(p, "poll") /\ UNCHANGED <<switch, refusals, next, reboot>>
       \/ /\ switch # "Off" /\ switch' = "Off" /\ Goto(p, "commandOff")
          /\ UNCHANGED <<refusals, next, reboot>>
       \/ /\ switch # "Off" /\ refusals < Refusals /\ refusals' = refusals + 1
          /\ switch' \in {switch, "Unknown"} /\ End(p)
    /\ UNCHANGED <<answers, link, present, connecting, lifeVars, due, record, evidence, to,
                   presses, moves>>

\* power_off_commanded.
CommandOff(p) ==
    /\ pc[p] = "commandOff"
    /\ Transit(p, "Off", "poll")
    /\ PressUnchanged /\ UNCHANGED <<prev, reboot, presses, moves, refusals>>

\* The poll after a power-off; a reboot then waits its time and goes on.
Poll(p) ==
    /\ pc[p] = "poll"
    /\ Begin(p, "gather", IF reboot[p] THEN "look" ELSE "idle")
    /\ PressUnchanged /\ UNCHANGED <<lifeVars, to, reboot, boundVars>>

\* On does nothing to a radio that is up, and is refused to one that is powered
\* but Unreachable.
LeftAlone ==
    \/ life \in {"PoweringOn", "Booting", "Ready", "Degraded"}
    \/ life = "Unreachable" /\ switch = "On"

Look(p) ==
    /\ pc[p] = "look"
    /\ IF ~reboot[p] /\ LeftAlone THEN End(p)
       ELSE Goto(p, "commandOn") /\ reboot' = [reboot EXCEPT ![p] = FALSE] /\ UNCHANGED next
    /\ PressUnchanged /\ UNCHANGED <<lifeVars, to, boundVars>>

\* power_on_commanded.
CommandOn(p) ==
    /\ pc[p] = "commandOn"
    /\ Transit(p, IF life \in {"Off", "Unreachable"} THEN "PoweringOn" ELSE life, "start")
    /\ PressUnchanged /\ UNCHANGED <<prev, reboot, presses, moves, refusals>>

\* Station::power_on; after a failure the state is looked at once more.
Start(p) ==
    /\ pc[p] = "start"
    /\ \/ switch' = "On" /\ Begin(p, "tick", "loop") /\ UNCHANGED refusals
       \/ /\ refusals < Refusals /\ refusals' = refusals + 1
          /\ switch' \in {switch, "On", "Unknown"} /\ Begin(p, "gather", "idle")
    /\ UNCHANGED <<answers, link, present, connecting, lifeVars, due, record, evidence, to, reboot,
                   presses, moves>>

\* press_on ticks until the radio is Ready, Unreachable or Off.
Loop(p) ==
    /\ pc[p] = "loop"
    /\ IF life \in {"Ready", "Unreachable", "Off"} THEN End(p)
       ELSE Begin(p, "tick", "loop") /\ UNCHANGED reboot
    /\ PressUnchanged /\ UNCHANGED <<lifeVars, to, boundVars>>

\* The deadline of press_on.
Deadline(p) ==
    /\ pc[p] = "loop" /\ End(p)
    /\ PressUnchanged /\ UNCHANGED <<lifeVars, to, boundVars>>

----------------------------------------------------------------------------
(* The switch, the radio and the link by themselves; time.                 *)

WorldUnchanged == UNCHANGED <<connecting, lifeVars, due, record, procVars, presses, refusals>>

\* The switch is set by hand, the radio fails or boots, its device comes and goes.
WorldMoves ==
    /\ moves < Moves /\ moves' = moves + 1
    /\ \/ switch' \in {"On", "Off", "Unknown"} \ {switch} /\ UNCHANGED <<answers, present, link>>
       \/ answers' = ~answers /\ UNCHANGED <<switch, present, link>>
       \/ present' \in {"there", "gone", "unknown"} \ {present} /\ UNCHANGED <<switch, answers, link>>
       \/ link = "Up" /\ link' \in {"Retrying", "Dead"} /\ UNCHANGED <<switch, answers, present>>
    /\ WorldUnchanged

\* A transport that reconnects by itself comes back or gives up.
Retries ==
    /\ link = "Retrying"
    /\ link' \in (IF answers THEN {"Up", "Dead"} ELSE {"Dead"})
    /\ WorldUnchanged /\ UNCHANGED <<switch, answers, present, moves>>

StateTimeout ==
    /\ ~overdue /\ life \in {"PoweringOn", "Booting", "Degraded"} /\ overdue' = TRUE
    /\ UNCHANGED <<worldVars, connecting, life, prev, due, record, procVars, boundVars>>

BackoffPasses ==
    /\ ~due /\ due' = TRUE
    /\ UNCHANGED <<worldVars, connecting, lifeVars, record, procVars, boundVars>>

----------------------------------------------------------------------------

\* RadioManager::new: Unreachable, whatever the record file says; the monitor
\* begins with the reconcile.
Init ==
    /\ switch = "Unknown" /\ answers \in BOOLEAN /\ link = "Absent"
    /\ present \in {"there", "unknown"} /\ connecting = None
    /\ life = "Unreachable" /\ prev = "unknown" /\ overdue = FALSE /\ due = TRUE
    /\ record \in RadioStates
    /\ pc = [p \in Procs |-> IF p = Monitor THEN "readback" ELSE "idle"]
    /\ next = [p \in Procs |-> IF p = Monitor THEN "reconciled" ELSE "idle"]
    /\ evidence = [p \in Procs |-> NoEvidence] /\ to = [p \in Procs |-> "Unreachable"]
    /\ reboot = [p \in Procs |-> FALSE]
    /\ presses = 0 /\ moves = 0 /\ refusals = 0

TickStep(p) == CheckDue(p) \/ Connect(p) \/ Gather(p) \/ Step(p) \/ Apply(p)

MonitorStep == Resolve \/ Tick \/ TickStep(Monitor)

UserStep(p) == CommandOff(p) \/ Poll(p) \/ Look(p) \/ CommandOn(p) \/ Loop(p) \/ TickStep(p)

Next ==
    \/ MonitorStep \/ ReadBack
    \/ \E p \in Procs : Spawn(p)
    \/ \E p \in Users : Press(p) \/ UserStep(p) \/ Cut(p) \/ Start(p) \/ Deadline(p)
    \/ WorldMoves \/ Retries \/ StateTimeout \/ BackoffPasses

Spec == Init /\ [][Next]_vars

\* Tasks run, time passes, and one_connect is a fair lock (tokio's Mutex is first
\* in, first out), so nobody waits for it for ever once the others leave it.
\* Nothing is said of ReadBack, Cut and Start, which wait for a driver under the
\* lock of its channel (channel.rs:687), nor of Spawn, which waits for a new
\* transport (actor_link.rs:270): none of them has a timeout.
Fairness ==
    /\ \A p \in Procs : SF_vars(Connect(p))
    /\ WF_vars(MonitorStep) /\ WF_vars(StateTimeout) /\ WF_vars(BackoffPasses)
    /\ \A p \in Users : WF_vars(UserStep(p)) /\ SF_vars(Deadline(p))

FairSpec == Spec /\ Fairness

----------------------------------------------------------------------------
(* Properties.                                                             *)

\* Every variable has its type; the one who connects is the one inside connect.
TypeOK ==
    /\ switch \in {"On", "Off", "Unknown"} /\ answers \in BOOLEAN
    /\ link \in {"Absent", "Up", "Retrying", "Dead"} /\ present \in {"there", "gone", "unknown"}
    /\ life \in RadioStates /\ record \in RadioStates /\ prev \in {"there", "gone", "unknown"}
    /\ overdue \in BOOLEAN /\ due \in BOOLEAN
    /\ pc \in [Procs -> {"readback", "resolve", "reconciled", "idle", "tick", "connect", "spawn",
                         "gather", "step", "apply", "cut", "commandOff",
                         "poll", "look", "commandOn", "start", "loop"}]
    /\ next \in [Procs -> {"reconciled", "idle", "poll", "look", "start", "loop"}]
    /\ evidence \in [Procs -> [power : {"On", "Off", "Unknown"}, up : BOOLEAN,
                               present : {"there", "gone", "unknown"}]]
    /\ to \in [Procs -> RadioStates] /\ reboot \in [Procs -> BOOLEAN]
    /\ presses \in Nat /\ moves \in Nat /\ refusals \in Nat
    /\ connecting \in Procs \union {None} /\ \A p \in Procs : pc[p] = "spawn" <=> connecting = p

Started == next[Monitor] # "reconciled"

Quiet == Started /\ \A p \in Procs : ~Pending(p)

\* The record is the state of the machine once every transition is applied
\* ("Applies a transition: updates the record's health and lifecycle, saves, and
\* publishes the event", manager.rs).
RecordAgrees == Quiet => record = life

\* Whatever record the last run left, also one cut short between a step and its
\* apply, the start-up reconcile makes it that of the machine (reconcile).
ReconcileCorrects == pc[Monitor] = "reconciled" => record = life

\* What the monitor waits for without a timeout comes to an end: the read-back of
\* the reconcile, and every attempt to connect.
AttemptsEnd == \A p \in Procs : []<>(pc[p] \notin {"readback", "spawn"})

\* A radio that is left alone ends in the state of its switch and its link,
\* however old the evidence that some tick still carries, given that attempts to
\* connect end (step, tick, press): Off when the switch stays off, Ready when the
\* link stays up under a switch that is not off, and anything but Ready when the
\* link stays away.
LifecycleFollows ==
    AttemptsEnd =>
        /\ <>[](switch = "Off") => <>[](life = "Off")
        /\ <>[](link = "Up" /\ switch # "Off") => <>[](life = "Ready")
        /\ <>[](link # "Up") => <>[](life # "Ready")

\* A radio that is on and answers is connected again, unless its old transport is
\* still trying, or it has become Unreachable and nothing shows that it is there
\* (connect_step, its backoff, and step together).
Reconnects ==
    AttemptsEnd /\ <>[](switch = "On" /\ answers) =>
        []<>(link \in {"Up", "Retrying"} \/ (life = "Unreachable" /\ present # "there"))

\* "The manager's backoff tries again" (actor_link.rs:17), for ever.  ActorLinks has
\* no evidence that a radio is present (actor_link.rs:243), and connect_step leaves
\* an Unreachable radio alone without it: MCManagerGivenUp.cfg.
TriesAgain ==
    AttemptsEnd /\ <>[](switch = "On" /\ answers) => []<>(link \in {"Up", "Retrying"})

\* No radio waits for ever to be switched, to boot or to come back, given that
\* attempts to connect end: again and again it is Off, Ready or Unreachable (the
\* timeouts of step).
Settles == AttemptsEnd => []<>(life \in {"Off", "Ready", "Unreachable"})

\* Every press ends, also when both the monitor and the press try to connect, given
\* that attempts to connect end; unless the station never answers what the press
\* asked of it (press, press_on).
PressEnds ==
    AttemptsEnd =>
        \A p \in Users : []<>(pc[p] = "idle") \/ <>[](pc[p] \in {"cut", "start"})

\* The same for a button that is "bounded by the boot time" (manager.rs:665): the
\* deadline is looked at between two ticks only: MCManagerHangs.cfg.
PressBounded == \A p \in Users : []<>(pc[p] = "idle")
=============================================================================
