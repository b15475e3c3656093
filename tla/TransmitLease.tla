---------------------------- MODULE TransmitLease ----------------------------
(***************************************************************************)
(* Transmit leases of radioctl-core (rig/easy.rs) over the transmit gate   *)
(* and the queues of a rig (rig.rs).                                       *)
(*                                                                         *)
(* Each lease is a caller that asks for one, keys and unkeys under it, and *)
(* releases or drops it, and a timer task that ends it after its time.     *)
(* The gate is two values, a flag and a permit, changed one after the      *)
(* other.  The rig serves one command at a time, unkeys first, and looks   *)
(* at the gate again before a key; that the radio does what it is told is  *)
(* RigActor's subject and is assumed here.                                 *)
(*                                                                         *)
(* The tasks run on the workers of a multi-threaded runtime, as radioctld  *)
(* builds: an aborted timer may be completed at any moment, also between   *)
(* the two statements of the drop that aborted it.                         *)
(***************************************************************************)
EXTENDS Integers, Sequences

CONSTANTS
    Leases,    \* the calls of transmit_lease, each with its timer
    None,      \* no permit
    Calls      \* bound: keys and unkeys asked for under each lease

ASSUME LeaseAssumption == None \notin Leases /\ Calls \in Nat

VARIABLES
    gate, permit,  \* Shared::gate, Shared::permit
    holder,        \* where the caller of each lease stands
    timer,         \* where its timer task stands
    calls,
    normal,        \* keys in the ordinary queue
    unkeys,        \* unkeys in the emergency queue, or riding on one
    serving,       \* what the actor has begun: "none", "key", "unkey"
    tx,            \* the radio transmits
    leftOpen       \* history: a drop took its own abort for the timer's end and
                   \* left the gate open, and nobody has closed it since

callVars == <<holder, timer, calls>>
rigVars  == <<normal, unkeys, serving, tx>>
vars     == <<gate, permit, callVars, rigVars, leftOpen>>

SetHolder(l, where) == holder' = [holder EXCEPT ![l] = where]
SetTimer(l, where)  == timer' = [timer EXCEPT ![l] = where]

----------------------------------------------------------------------------
(* RigHandle::transmit_lease.                                              *)

GateUnchanged == UNCHANGED <<gate, permit, leftOpen>>

\* transmit_permit reads the flag, then the permit.
AskGate(l) ==
    /\ holder[l] = "free"
    /\ SetHolder(l, IF gate THEN "asking" ELSE "permitted")
    /\ GateUnchanged /\ UNCHANGED <<timer, calls, rigVars>>

AskPermit(l) ==
    /\ holder[l] = "asking"
    /\ SetHolder(l, IF permit = None THEN "permitted" ELSE "refused")
    /\ GateUnchanged /\ UNCHANGED <<timer, calls, rigVars>>

\* open_transmit_gate: the permit, then the flag; then the timer is spawned.
SetPermit(l) ==
    /\ holder[l] = "permitted"
    /\ permit' = l
    /\ SetHolder(l, "opening")
    /\ UNCHANGED <<gate, leftOpen, timer, calls, rigVars>>

OpenGate(l) ==
    /\ holder[l] = "opening"
    /\ gate' = TRUE
    /\ SetHolder(l, "opened")
    /\ UNCHANGED <<permit, leftOpen, timer, calls, rigVars>>

\* Seeded fault: the lease is returned without its timer.
UntimedLease(l) ==
    /\ holder[l] = "opened"
    /\ SetHolder(l, "live")
    /\ GateUnchanged /\ UNCHANGED <<timer, calls, rigVars>>

SpawnTimer(l) ==
    /\ holder[l] = "opened"
    /\ SetTimer(l, "sleeping") /\ SetHolder(l, "live")
    /\ GateUnchanged /\ UNCHANGED <<calls, rigVars>>

----------------------------------------------------------------------------
(* A live lease: key, unkey, transmit_for, release and drop.               *)

Called(l) ==
    /\ holder[l] = "live" /\ calls[l] < Calls
    /\ calls' = [calls EXCEPT ![l] = @ + 1]

\* key, and the first half of transmit_for: refused at a closed gate.
Key(l) ==
    /\ Called(l)
    /\ normal' = IF gate THEN Append(normal, l) ELSE normal
    /\ GateUnchanged /\ UNCHANGED <<holder, timer, unkeys, serving, tx>>

Unkey(l) ==
    /\ Called(l)
    /\ unkeys' = unkeys + 1
    /\ GateUnchanged /\ UNCHANGED <<holder, timer, normal, serving, tx>>

Aborted(l) == IF timer[l] = "sleeping" THEN "aborted" ELSE timer[l]

Release(l) ==
    /\ holder[l] = "live"
    /\ SetTimer(l, Aborted(l)) /\ SetHolder(l, "gate")
    /\ GateUnchanged /\ UNCHANGED <<calls, rigVars>>

Drop(l) ==
    /\ holder[l] = "live"
    /\ SetTimer(l, Aborted(l)) /\ SetHolder(l, "dropping")
    /\ GateUnchanged /\ UNCHANGED <<calls, rigVars>>

\* Seeded fault: a timer that was aborted is taken for one that ends the lease.
DropTrustsAbort(l) ==
    /\ holder[l] = "dropping"
    /\ SetHolder(l, IF timer[l] = "sleeping" THEN "gate" ELSE "ended")
    /\ GateUnchanged /\ UNCHANGED <<timer, calls, rigVars>>

\* A timer task that is over (JoinHandle::is_finished) has ended the lease, or was
\* cancelled by the abort above: the drop does not tell the two apart.
Finished(l) == timer[l] \in {"finished", "cancelled"}

DropLooks(l) ==
    /\ holder[l] = "dropping"
    /\ SetHolder(l, IF Finished(l) THEN "ended" ELSE "gate")
    /\ leftOpen' = (leftOpen \/ (timer[l] = "cancelled" /\ gate))
    /\ UNCHANGED <<gate, permit, timer, calls, rigVars>>

----------------------------------------------------------------------------
(* The end of a lease (end_lease, release): close_transmit_gate is the     *)
(* flag, then the permit; then an unkey is submitted.                      *)

\* Seeded fault: the unkey is submitted before the gate is closed.
EndStepUnkeyFirst(where, next) ==
    \/ /\ where = "gate" /\ next = "permit"
       /\ unkeys' = unkeys + 1 /\ GateUnchanged /\ UNCHANGED <<normal, serving, tx>>
    \/ /\ where = "permit" /\ next = "unkey"
       /\ gate' = FALSE /\ leftOpen' = FALSE /\ UNCHANGED <<permit, rigVars>>
    \/ /\ where = "unkey" /\ next = "over"
       /\ permit' = None /\ UNCHANGED <<gate, leftOpen, rigVars>>

\* The steps of an end, by the caller or by the timer.
EndStep(where, next) ==
    \/ /\ where = "gate" /\ next = "permit"
       /\ gate' = FALSE /\ leftOpen' = FALSE /\ UNCHANGED <<permit, rigVars>>
    \/ /\ where = "permit" /\ next = "unkey"
       /\ permit' = None /\ UNCHANGED <<gate, leftOpen, rigVars>>
    \/ /\ where = "unkey" /\ next = "over"
       /\ unkeys' = unkeys + 1 /\ GateUnchanged /\ UNCHANGED <<normal, serving, tx>>

HolderEnds(l) ==
    \E next \in {"permit", "unkey", "over"} :
        /\ EndStep(holder[l], next)
        /\ SetHolder(l, IF next = "over" THEN "ended" ELSE next)
        /\ UNCHANGED <<timer, calls>>

TimerWakes(l) ==
    /\ timer[l] = "sleeping"
    /\ SetTimer(l, "gate")
    /\ GateUnchanged /\ UNCHANGED <<holder, calls, rigVars>>

TimerEnds(l) ==
    \E next \in {"permit", "unkey", "over"} :
        /\ EndStep(timer[l], next)
        /\ SetTimer(l, IF next = "over" THEN "finished" ELSE next)
        /\ UNCHANGED <<holder, calls>>

\* A worker completes an aborted task.
AbortLands(l) ==
    /\ timer[l] = "aborted"
    /\ SetTimer(l, "cancelled")
    /\ GateUnchanged /\ UNCHANGED <<holder, calls, rigVars>>

----------------------------------------------------------------------------
(* The actor: RigActor in three steps.                                     *)

ActorUnchanged == GateUnchanged /\ UNCHANGED callVars

\* Seeded fault: the gate is not looked at again before a key is served.
ServedAnyway(open) == TRUE

\* run_command refuses a transmit command at a closed gate.
Served(open) == open

Take ==
    /\ serving = "none"
    /\ \/ /\ unkeys > 0
          /\ unkeys' = unkeys - 1 /\ serving' = "unkey" /\ UNCHANGED normal
       \/ /\ unkeys = 0 /\ normal # <<>>
          /\ normal' = Tail(normal)
          /\ serving' = IF Served(gate) THEN "key" ELSE "none"
          /\ UNCHANGED unkeys
    /\ UNCHANGED tx /\ ActorUnchanged

Carry ==
    /\ serving # "none"
    /\ tx' = (serving = "key") /\ serving' = "none"
    /\ UNCHANGED <<normal, unkeys>> /\ ActorUnchanged

\* An emergency cuts the wait of a key short before it is written.
Preempt ==
    /\ serving = "key" /\ unkeys > 0
    /\ serving' = "none"
    /\ UNCHANGED <<normal, unkeys, tx>> /\ ActorUnchanged

----------------------------------------------------------------------------

Init ==
    /\ gate = FALSE /\ permit = None /\ leftOpen = FALSE
    /\ holder = [l \in Leases |-> "free"] /\ timer = [l \in Leases |-> "none"]
    /\ calls = [l \in Leases |-> 0]
    /\ normal = <<>> /\ unkeys = 0 /\ serving = "none" /\ tx = FALSE

Opens(l)  == AskGate(l) \/ AskPermit(l) \/ SetPermit(l) \/ OpenGate(l) \/ SpawnTimer(l)
Uses(l)   == Key(l) \/ Unkey(l) \/ Release(l) \/ Drop(l)
Ends(l)   == DropLooks(l) \/ HolderEnds(l)
Timer(l)  == TimerWakes(l) \/ TimerEnds(l) \/ AbortLands(l)
Actor     == Take \/ Carry \/ Preempt

Next == Actor \/ \E l \in Leases : Opens(l) \/ Uses(l) \/ Ends(l) \/ Timer(l)

Spec == Init /\ [][Next]_vars

\* A caller inside a call goes on (transmit_lease, release and drop wait for
\* nothing), timers and the actor run.  A caller may keep its lease for ever.
Fairness ==
    /\ \A l \in Leases : WF_vars(Opens(l)) /\ WF_vars(Ends(l)) /\ WF_vars(Timer(l))
    /\ WF_vars(Actor)

FairSpec == Spec /\ Fairness

----------------------------------------------------------------------------
(* Properties.                                                             *)

Ending == {"gate", "permit", "unkey"}

\* Every variable has its type: the gate, the callers, the timers, the queues.
TypeOK ==
    /\ gate \in BOOLEAN /\ permit \in Leases \union {None} /\ tx \in BOOLEAN
    /\ leftOpen \in BOOLEAN
    /\ holder \in [Leases -> {"free", "asking", "refused", "permitted", "opening", "opened",
                              "live", "dropping", "ended"} \union Ending]
    /\ timer \in [Leases -> {"none", "sleeping", "aborted", "cancelled", "finished"} \union Ending]
    /\ \A l \in Leases : timer[l] = "none" <=>
            holder[l] \in {"free", "asking", "refused", "permitted", "opening", "opened"}
    /\ calls \in [Leases -> Nat]
    /\ normal \in Seq(Leases) /\ unkeys \in Nat /\ serving \in {"none", "key", "unkey"}

\* The caller or the timer of this lease has still to close the gate, or the drop
\* has still to look whether the timer does.
HoldsGate(l) ==
    \/ holder[l] \in {"opened", "gate"}
    \/ timer[l] \in {"sleeping", "gate"}
    \/ holder[l] = "dropping" /\ timer[l] \in {"aborted", "cancelled"}

\* However leases overlap, an open gate is owed to a lease that will still close
\* it, unless a drop that found its own abort completed left it open: there is no
\* other way (transmit_lease, end_lease, drop, close_transmit_gate).
GateHasLease == gate => leftOpen \/ \E l \in Leases : HoldsGate(l)

\* The end of this lease has still to submit its unkey.
OwesUnkey(l) ==
    HoldsGate(l) \/ holder[l] \in {"permit", "unkey"} \/ timer[l] \in {"permit", "unkey"}

\* A radio on the air, or about to be, has an unkey coming that is served after:
\* queued, or owed by a lease (end_lease closes the gate first), unless a drop that
\* found its own abort completed left the gate open.
AirHasUnkey ==
    tx \/ serving = "key" =>
        leftOpen \/ unkeys > 0 \/ serving = "unkey" \/ \E l \in Leases : OwesUnkey(l)

Over(l) ==
    /\ holder[l] \in {"free", "refused", "ended"}
    /\ timer[l] \in {"none", "finished", "cancelled"}

AllOver == (\A l \in Leases : Over(l)) /\ normal = <<>> /\ unkeys = 0 /\ serving = "none"

\* When no lease is left the gate is closed and the rig unkeyed, whatever the way
\* each lease ended, but for the drop that left the gate open (end_lease, release).
EndedMeansUnkeyed == AllOver => leftOpen \/ (~gate /\ ~tx)

\* "When the lease ends (released, dropped, or `max` elapsed) the gate is closed and
\* the rig is unkeyed" (easy.rs, transmit_lease and TransmitLease).
LeaseEndCloses == AllOver => ~gate /\ ~tx

\* A gate is open, and a radio on the air, for a bounded time only, even when the
\* caller keeps its lease for ever (the timer of transmit_lease), or until a drop
\* that found its own abort completed leaves them so.
BoundedTransmission == (gate ~> ~gate \/ leftOpen) /\ (tx ~> ~tx \/ leftOpen)
=============================================================================
