------------------------------ MODULE RigActor ------------------------------
(***************************************************************************)
(* The rig actor of radioctl-core (rig.rs) and the callers of its handle.  *)
(*                                                                         *)
(* Callers (tasks holding a RigHandle) submit commands from any thread:    *)
(* ordinary ones to a bounded queue, the unkey and the stop-Morse to a     *)
(* bounded emergency queue with a counter and a wake-up beside it.  One    *)
(* actor task serves them one at a time over a byte stream to the radio,   *)
(* matches replies to requests by order, runs the transmit watchdog, polls *)
(* the transmit state and, when a command's outcome is unknown or the link *)
(* comes back, unkeys the rig through the fail-closed path.                *)
(*                                                                         *)
(* Time is abstract: a deadline, a reply timeout, the lapse of a watchdog  *)
(* or of a late reply's window is a step that may happen whenever the code *)
(* lets that clock run.                                                    *)
(***************************************************************************)
EXTENDS Integers, Sequences, FiniteSets

CONSTANTS
    Clients,         \* tasks that hold a RigHandle
    NoClient,        \* the submitter of a command nobody waits for (a poll)
    ClientOps,       \* the operations the clients submit
    EmergencyQueue,  \* EMERGENCY_QUEUE
    QueueCapacity,   \* RigOptions::queue_capacity
    UnkeyAttempts,   \* UNKEY_ATTEMPTS
    Attempts,        \* 1 + timing.retries
    SetReply,        \* what the rig answers to a set: "ack", or "none"
    PttPolled,       \* polling is on and the rig can read PTT
    Supervised,      \* RigOptions::link_watch is set (a serial supervisor)
    SessionRequests, \* how many requests open_requests / link_restored give
    MaxWire,         \* requests (and replies) the byte stream buffers
    Budget,          \* bound: commands each client submits
    Faults,          \* bound: lost or refused requests, lost replies and links
    GateMoves,       \* bound: times the owner opens or closes the gate
    PanelMoves,      \* bound: times the operator keys or unkeys at the rig
    Transceive,      \* the rig reports such a change on its own
    MaxGeneration    \* bound: opens of the serial port

Operations == {"key", "cw", "unkey", "stop", "get", "tune"}

ASSUME ConstantsAssumption ==
    /\ IsFiniteSet(Clients) /\ NoClient \notin Clients
    /\ ClientOps \subseteq Operations
    /\ EmergencyQueue \in Nat \ {0} /\ QueueCapacity \in Nat \ {0}
    /\ UnkeyAttempts \in Nat \ {0} /\ Attempts \in Nat \ {0}
    /\ SetReply \in {"ack", "none"}
    /\ PttPolled \in BOOLEAN /\ Supervised \in BOOLEAN
    /\ SessionRequests \in Nat /\ MaxWire \in Nat \ {0}
    /\ Budget \in Nat /\ Faults \in Nat /\ GateMoves \in Nat
    /\ PanelMoves \in Nat /\ Transceive \in BOOLEAN
    /\ MaxGeneration \in Nat \ {0}

VARIABLES
    \* shared between the handles and the actor (struct Shared, the channels)
    gate,              \* the transmit gate is open
    emergency,         \* the emergency channel: commands, oldest first
    emergency_pending, \* counter of emergency commands not yet taken
    emergency_wake,    \* the Notify holds a permit
    unkey_waiters,     \* clients whose unkey rides on a queued one
    normal,            \* the ordinary queue
    link_up,
    \* the callers
    calls,             \* where each client stands in submit
    request,           \* its current or last operation
    answer,            \* the answer to it
    budget,
    \* the actor
    pc, cur, held, tries, after,
    late,              \* the current command's deadline has passed
    outstanding,       \* requests written whose reply has not been seen
    keyed_since,       \* the watchdog: "off", "armed", or "due" (lapsed)
    cache_ptt,         \* the cached transmit state
    link_generation,   \* the last generation seen connected
    \* the radio and the stream to it
    wire, replies,
    tx,                \* what keeps the radio on the air: subset of {"ptt","cw"}
    stream,            \* the byte stream works
    status, generation, watch_seen, \* LinkStatus and whether it was looked at
    faults, gate_moves, panel_moves,
    \* history, for the properties
    quiet,             \* clients since whose last request the rig was off the air
    aired,             \* the rig is on the air on an acknowledged command
    alarm,             \* what the last failure to unkey was reported of: the "air", the "port"
    stragglers,        \* transmit commands written since the gate closed
    exposed            \* the port was lost under the actor, no unkey has reached the rig since

gateVars  == <<gate, gate_moves, stragglers>>
queueVars == <<emergency, emergency_pending, emergency_wake, normal>>
callVars  == <<calls, request, answer, budget, unkey_waiters>>
taskVars  == <<pc, cur, held, tries, after, late>>
stateVars == <<keyed_since, cache_ptt>>
linkVars  == <<link_up, link_generation, watch_seen>>
portVars  == <<stream, status, generation, panel_moves>>
radioVars == <<tx, quiet, exposed>>
wireVars  == <<wire, replies, outstanding>>

vars == <<gateVars, queueVars, callVars, taskVars, stateVars, linkVars, portVars,
          radioVars, wireVars, aired, alarm, faults>>

----------------------------------------------------------------------------
(* Operations and replies.                                                 *)

NoCommand == [client |-> NoClient, op |-> "none"]
Poll      == [client |-> NoClient, op |-> "get"]

Transmits(op)   == op \in {"key", "cw"}
IsUnkey(op)     == op = "unkey"
IsEmergency(op) == op \in {"unkey", "stop"}

ReplyKind(op) == IF op = "get" THEN "ptt" ELSE SetReply

\* What executing an operation does to the transmitter.
Effect(op) ==
    CASE op = "key"   -> tx \union {"ptt"}
      [] op = "cw"    -> tx \union {"cw"}
      [] op = "stop"  -> tx \ {"cw"}
      [] op = "unkey" -> {}
      [] OTHER        -> tx

Report(on) == IF on THEN "on" ELSE "off"

Answer(op) == IF op = "get" THEN Report(Effect(op) # {}) ELSE "ack"

(***************************************************************************)
(* Outstanding requests and the order rule (claim_reply, absorb).          *)
(***************************************************************************)

\* A reply answers the oldest outstanding request it fits.
Fits(frame, entry) ==
    CASE frame = "ack" -> entry.kind = "ack"
      [] frame = "nak" -> TRUE
      [] OTHER         -> entry.kind = "ptt"

Oldest(S) == CHOOSE i \in S : \A j \in S : i <= j
Newest(S) == CHOOSE i \in S : \A j \in S : i >= j

\* Seeded fault: the latest request is taken for the one answered.
ClaimLatest(frame) ==
    LET fitting == {i \in DOMAIN outstanding : Fits(frame, outstanding[i])}
    IN  IF fitting = {} THEN 0 ELSE Newest(fitting)

\* The position a frame claims in the outstanding requests; 0 for none.
Claim(frame) ==
    LET fitting == {i \in DOMAIN outstanding : Fits(frame, outstanding[i])}
    IN  IF fitting = {} THEN 0 ELSE Oldest(fitting)

Without(s, i) ==
    IF i \in DOMAIN s THEN SubSeq(s, 1, i - 1) \o SubSeq(s, i + 1, Len(s)) ELSE s

\* The frame is owed to an abandoned command.
Stale(frame) == LET i == Claim(frame) IN i # 0 /\ ~outstanding[i].mine

\* What a frame decides for a command that expects `kind`: "ok", "Rejected",
\* or "none" when the command keeps waiting.
Decides(frame, kind) ==
    IF Stale(frame) THEN "none"
    ELSE CASE frame = "ack" /\ kind = "ack"           -> "ok"
           [] frame = "nak"                           -> "Rejected"
           [] frame \in {"on", "off"} /\ kind = "ptt" -> "ok"
           [] OTHER                                   -> "none"

\* A new command identity: everything outstanding now belongs to older ones.
Disowned == [i \in DOMAIN outstanding |-> [outstanding[i] EXCEPT !.mine = FALSE]]

NoteWritten(out, kind) ==
    IF kind = "none" THEN out ELSE Append(out, [kind |-> kind, mine |-> TRUE])

----------------------------------------------------------------------------
(* The watchdog and the cached transmit state (observe, apply_set).        *)

ArmWatchdog == IF keyed_since = "off" THEN "armed" ELSE keyed_since

Observe(on) ==
    /\ keyed_since' = IF on THEN ArmWatchdog ELSE "off"
    /\ cache_ptt' = Report(on)

\* Seeded fault: a report updates the cache and leaves the watchdog alone.
CacheFrame(frame) ==
    /\ cache_ptt' = IF frame \in {"on", "off"} THEN frame ELSE cache_ptt
    /\ UNCHANGED keyed_since

ObserveFrame(frame) ==
    IF frame \in {"on", "off"} THEN Observe(frame = "on") ELSE UNCHANGED stateVars

ApplySet(op) ==
    CASE op = "key"   -> Observe(TRUE)
      [] op = "unkey" -> Observe(FALSE)
      [] op = "cw"    -> keyed_since' = ArmWatchdog /\ UNCHANGED cache_ptt
      [] OTHER        -> UNCHANGED stateVars

Absorb(frame) ==
    /\ replies' = Tail(replies)
    /\ outstanding' = Without(outstanding, Claim(frame))

----------------------------------------------------------------------------
(* Callers: RigHandle::submit, one step per access to shared state.        *)

Submitting(c, op) ==
    /\ calls[c] = "idle" /\ budget[c] > 0 /\ op \in ClientOps
    /\ budget' = [budget EXCEPT ![c] = @ - 1]
    /\ request' = [request EXCEPT ![c] = op]
    /\ quiet' = IF tx = {} THEN quiet \union {c} ELSE quiet \ {c}
    /\ UNCHANGED <<gateVars, taskVars, stateVars, linkVars, portVars, wireVars,
                   tx, exposed, aired, alarm, faults, unkey_waiters>>

\* An ordinary command: refused at a closed gate or a full queue, or queued.
Submit(c, op) ==
    /\ Submitting(c, op) /\ ~IsEmergency(op)
    /\ \/ /\ Transmits(op) => gate
          /\ Len(normal) < QueueCapacity
          /\ normal' = Append(normal, [client |-> c, op |-> op])
          /\ calls' = [calls EXCEPT ![c] = "waiting"]
          /\ answer' = [answer EXCEPT ![c] = "none"]
       \/ /\ Transmits(op) /\ ~gate
          /\ answer' = [answer EXCEPT ![c] = "TransmitGateClosed"]
          /\ UNCHANGED <<normal, calls>>
       \/ /\ Transmits(op) => gate
          /\ Len(normal) = QueueCapacity
          /\ answer' = [answer EXCEPT ![c] = "QueueFull"]
          /\ UNCHANGED <<normal, calls>>
    /\ UNCHANGED <<emergency, emergency_pending, emergency_wake>>

\* emergency_pending.fetch_add, before the command is in the queue.
SubmitEmergency(c, op) ==
    /\ Submitting(c, op) /\ IsEmergency(op)
    /\ emergency_pending' = emergency_pending + 1
    /\ calls' = [calls EXCEPT ![c] = "counted"]
    /\ answer' = [answer EXCEPT ![c] = "none"]
    /\ UNCHANGED <<emergency, emergency_wake, normal>>

InSubmit(c, where) ==
    /\ calls[c] = where
    /\ UNCHANGED <<gateVars, taskVars, stateVars, linkVars, portVars, radioVars, wireVars,
                   normal, request, budget, aired, alarm, faults>>

\* try_send found a slot.
SendEmergency(c) ==
    /\ InSubmit(c, "counted")
    /\ Len(emergency) < EmergencyQueue
    /\ emergency' = Append(emergency, [client |-> c, op |-> request[c]])
    /\ calls' = [calls EXCEPT ![c] = "sent"]
    /\ UNCHANGED <<emergency_pending, emergency_wake, answer, unkey_waiters>>

\* Seeded fault: the permit is left as it was.
NotWoken == emergency_wake

\* notify_one leaves a permit for the next wait.
Notified == TRUE

\* notify_one: the actor may already have answered.
WakeActor(c) ==
    /\ InSubmit(c, "sent")
    /\ emergency_wake' = Notified
    /\ calls' = [calls EXCEPT ![c] = IF answer[c] = "none" THEN "waiting" ELSE "idle"]
    /\ UNCHANGED <<emergency, emergency_pending, answer, unkey_waiters>>

\* Seeded fault: a command that found the queue full stays counted.
StillCounted == emergency_pending

\* The counter after a command that found the queue full.
Uncounted == emergency_pending - 1

\* The queue is full: an unkey will ride, a stop-Morse is refused.
FindEmergencyFull(c) ==
    /\ InSubmit(c, "counted")
    /\ Len(emergency) = EmergencyQueue
    /\ emergency_pending' = Uncounted
    /\ IF IsUnkey(request[c])
       THEN calls' = [calls EXCEPT ![c] = "riding"] /\ UNCHANGED answer
       ELSE /\ calls' = [calls EXCEPT ![c] = "idle"]
            /\ answer' = [answer EXCEPT ![c] = "QueueFull"]
    /\ UNCHANGED <<emergency, emergency_wake, unkey_waiters>>

\* Seeded fault: one slot for the waiters instead of a list.
OnlyWaiter(c) == {c}

WithWaiter(c) == unkey_waiters \union {c}

\* unkey_waiters.push, some time after the queue was found full.
Ride(c) ==
    /\ InSubmit(c, "riding")
    /\ unkey_waiters' = WithWaiter(c)
    /\ calls' = [calls EXCEPT ![c] = "waiting"]
    /\ UNCHANGED <<emergency, emergency_pending, emergency_wake, answer>>

\* The owner of the rig opens and closes its transmit gate.
MoveGate ==
    /\ gate_moves < GateMoves
    /\ gate_moves' = gate_moves + 1
    /\ gate' = ~gate
    /\ stragglers' = 0
    /\ UNCHANGED <<queueVars, callVars, taskVars, stateVars, linkVars, portVars,
                   radioVars, wireVars, aired, alarm, faults>>

----------------------------------------------------------------------------
(* The end of a command (serve) and its start (run_command up to the       *)
(* first wait).                                                            *)

\* Whose requests ride on a command and get its result.
Riders(op) == IF IsUnkey(op) THEN unkey_waiters ELSE {}

\* A failure to unkey is news of the transmission until another is acknowledged,
\* and of a lost port until the next loss.
Failures == {"air", "port"}

Complete(cmd, result, failed) ==
    LET answered == Riders(cmd.op) \union ({cmd.client} \ {NoClient}) IN
    /\ answer' = [c \in Clients |-> IF c \in answered THEN result ELSE answer[c]]
    /\ calls' = [c \in Clients |->
                    IF c \in answered /\ calls[c] = "waiting" THEN "idle" ELSE calls[c]]
    /\ unkey_waiters' = unkey_waiters \ Riders(cmd.op)
    /\ LET acknowledged == Transmits(cmd.op) /\ result = "ok" IN
       /\ aired' = \/ aired
                   \/ acknowledged /\ (tx # {} \/ ReplyKind(cmd.op) = "none")
       /\ alarm' = IF failed \/ (IsUnkey(cmd.op) /\ result # "ok") THEN Failures
                   ELSE IF acknowledged THEN alarm \ {"air"} ELSE alarm
    /\ pc' = IF cmd = Poll /\ held # NoCommand THEN "held" ELSE "select"
    /\ cur' = NoCommand /\ tries' = 0 /\ late' = FALSE
    /\ UNCHANGED <<request, budget>>

\* Why run_command refuses a command before it waits for anything.
Refusals(cmd) ==
    IF ~link_up THEN {"LinkDown"}
    ELSE (IF cmd = Poll THEN {} ELSE {"Timeout"})
         \union (IF ~Transmits(cmd.op) THEN {}
                 ELSE IF gate THEN {"TransmitFrequencyUnknown"}
                 ELSE {"TransmitGateClosed"})

\* Seeded fault: the gate is checked when a command is submitted, not again.
AdmittedUnchecked(cmd) == link_up

Admitted(cmd) == link_up /\ (Transmits(cmd.op) => gate)

Begin(cmd) ==
    \/ \E reason \in Refusals(cmd) :
          Complete(cmd, reason, FALSE) /\ UNCHANGED outstanding
    \/ /\ Admitted(cmd)
       /\ cur' = cmd /\ tries' = 0 /\ late' = FALSE
       /\ outstanding' = Disowned
       /\ pc' = IF IsEmergency(cmd.op) THEN "write" ELSE "drain"
       /\ UNCHANGED <<callVars, aired, alarm>>

\* unkey_fail_closed is entered; `next` names what follows it.
FailClosed(next) ==
    /\ pc' = "unkey" /\ tries' = 0 /\ after' = next
    /\ outstanding' = Disowned

----------------------------------------------------------------------------
(* The actor between commands (the biased select of run).                  *)

Idle == pc = "select"

\* Seeded fault: the select picks any branch that is ready.
Unbiased == watch_seen /\ keyed_since # "due"

\* Everything the select looks at before the ordinary queue.
NothingUrgent == emergency = <<>> /\ watch_seen /\ keyed_since # "due"

TakeEmergency ==
    /\ Idle /\ emergency # <<>>
    /\ emergency' = Tail(emergency)
    /\ emergency_pending' = emergency_pending - 1
    /\ Begin(Head(emergency))
    /\ UNCHANGED <<emergency_wake, normal, held, after, gateVars, stateVars, linkVars,
                   portVars, radioVars, wire, replies, faults>>

\* Seeded fault: a link that never looked down needs no unkey.
NeverLookedDown == link_up

\* The first connection, of a link that was up all along.
NothingToUnkey == link_generation = 0 /\ link_up

\* link_status_changed, at the start of the actor and on a change of the watch.
LinkStatusChanged ==
    /\ \/ pc = "start"
       \/ Idle /\ emergency = <<>> /\ ~watch_seen
    /\ watch_seen' = TRUE
    /\ CASE status # "Connected" ->
              /\ link_up' = FALSE
              /\ pc' = "select"
              /\ UNCHANGED <<link_generation, tries, after, outstanding>>
         [] status = "Connected" /\ generation = link_generation ->
              UNCHANGED <<pc, link_up, link_generation, tries, after, outstanding>>
         [] status = "Connected" /\ generation # link_generation ->
              /\ link_generation' = generation
              /\ link_up' = TRUE
              /\ IF NothingToUnkey
                 THEN /\ pc' = IF pc = "start" THEN "session" ELSE "select"
                      /\ UNCHANGED <<tries, after, outstanding>>
                 ELSE FailClosed("restored")
    /\ UNCHANGED <<queueVars, callVars, cur, held, late, gateVars, stateVars, portVars,
                   radioVars, wire, replies, aired, alarm, faults>>

\* Seeded fault: the watchdog reports the lapse and disarms, nothing more.
WatchdogReports ==
    /\ Idle /\ emergency = <<>> /\ watch_seen /\ keyed_since = "due"
    /\ keyed_since' = "off"
    /\ UNCHANGED <<queueVars, callVars, taskVars, gateVars, cache_ptt, linkVars, portVars,
                   radioVars, wireVars, aired, alarm, faults>>

\* watchdog_fire: disarm first, then unkey.
WatchdogFire ==
    /\ Idle /\ emergency = <<>> /\ watch_seen /\ keyed_since = "due"
    /\ keyed_since' = "off"
    /\ FailClosed("select")
    /\ UNCHANGED <<queueVars, callVars, cur, held, late, gateVars, cache_ptt, linkVars,
                   portVars, radioVars, wire, replies, aired, alarm, faults>>

\* An ordinary command is taken; the reserved poll of the transmit state
\* (poll_reserved), when it is due, runs in front of it.
TakeNormal ==
    /\ Idle /\ NothingUrgent /\ normal # <<>>
    /\ normal' = Tail(normal)
    /\ \/ Begin(Head(normal)) /\ UNCHANGED held
       \/ /\ PttPolled /\ link_up
          /\ held' = Head(normal)
          /\ cur' = Poll /\ pc' = "drain" /\ tries' = 0 /\ late' = FALSE
          /\ outstanding' = Disowned
          /\ UNCHANGED <<callVars, aired, alarm>>
    /\ UNCHANGED <<emergency, emergency_pending, emergency_wake, after, gateVars,
                   stateVars, linkVars, portVars, radioVars, wire, replies, faults>>

\* The command the reserved poll was put in front of.
ServeHeld ==
    /\ pc = "held"
    /\ held' = NoCommand
    /\ Begin(held)
    /\ UNCHANGED <<queueVars, after, gateVars, stateVars, linkVars, portVars, radioVars,
                   wire, replies, faults>>

\* Input while no command waits: transceive reports and late replies.
ReadIdle ==
    /\ Idle /\ NothingUrgent /\ normal = <<>> /\ link_up /\ replies # <<>>
    /\ Absorb(Head(replies)) /\ ObserveFrame(Head(replies))
    /\ UNCHANGED <<queueVars, callVars, taskVars, gateVars, linkVars, portVars,
                   radioVars, wire, aired, alarm, faults>>

\* End of stream or a read error while no command waits.
LoseLinkIdle ==
    /\ Idle /\ NothingUrgent /\ normal = <<>> /\ link_up /\ replies = <<>> /\ ~stream
    /\ link_up' = FALSE
    /\ UNCHANGED <<queueVars, callVars, taskVars, gateVars, stateVars, link_generation,
                   watch_seen, portVars, radioVars, wireVars, aired, alarm, faults>>

PollOnce ==
    /\ Idle /\ NothingUrgent /\ normal = <<>> /\ link_up /\ replies = <<>> /\ stream
    /\ PttPolled
    /\ Begin(Poll)
    /\ UNCHANGED <<queueVars, held, after, gateVars, stateVars, linkVars, portVars,
                   radioVars, wire, replies, faults>>

\* Seeded fault: only the gate says whether to unkey.
GateWasOpen == gate

\* The rig may be transmitting when the last handle goes.
MayTransmit == cache_ptt = "on" \/ gate

\* The last handle is dropped: unkey_on_stop.
Stop ==
    /\ Idle /\ emergency = <<>> /\ \A c \in Clients : calls[c] = "idle"
    /\ budget' = [c \in Clients |-> 0] /\ gate_moves' = GateMoves
    /\ IF MayTransmit
       THEN FailClosed("stopped")
       ELSE pc' = "stopped" /\ UNCHANGED <<tries, after, outstanding>>
    /\ UNCHANGED <<queueVars, calls, request, answer, unkey_waiters, cur, held, late, gate,
                   stragglers, stateVars, linkVars, portVars, radioVars, wire, replies,
                   aired, alarm, faults>>

----------------------------------------------------------------------------
(* Serving a command (run_command after its first checks).                 *)

\* What the byte stream does with a request: a lost port drops it, or leaves
\* it queued for the next open.
Written(op) ==
    \/ wire' = Append(wire, op)
    \/ status # "Connected" /\ UNCHANGED wire

Room == Len(wire) < MaxWire

\* emergency_wake is consumed; only a counted emergency preempts.
Woken ==
    /\ pc = "await" \/ (pc = "drain" /\ outstanding # <<>>)
    /\ ~IsEmergency(cur.op) /\ emergency_wake
    /\ emergency_wake' = FALSE
    /\ IF emergency_pending > 0
       THEN Complete(cur, "Cancelled", FALSE)
       ELSE UNCHANGED <<callVars, aired, alarm, pc, cur, tries, late>>
    /\ UNCHANGED <<emergency, emergency_pending, normal, held, after, gateVars, stateVars,
                   linkVars, portVars, radioVars, wireVars, faults>>

\* No emergency preempts the wait; nor, in await_reply, does the watchdog.
Undisturbed == IsEmergency(cur.op) \/ ~emergency_wake
Unexpired   == IsEmergency(cur.op) \/ keyed_since # "due"

\* drain_stale: input is matched to the abandoned commands it answers.
DrainStale ==
    /\ pc = "drain" /\ Undisturbed /\ outstanding # <<>> /\ replies # <<>>
    /\ Absorb(Head(replies)) /\ ObserveFrame(Head(replies))
    /\ UNCHANGED <<queueVars, callVars, taskVars, gateVars, linkVars, portVars,
                   radioVars, wire, aired, alarm, faults>>

\* The current command ends because the stream failed under it.
LinkLost ==
    /\ link_up' = FALSE
    /\ Complete(cur, "LinkDown", FALSE)
    /\ UNCHANGED <<queueVars, held, after, gateVars, stateVars, link_generation, watch_seen,
                   portVars, radioVars, wireVars, faults>>

LoseLinkServing ==
    \/ pc = "drain" /\ Undisturbed /\ outstanding # <<>> /\ replies = <<>> /\ ~stream
       /\ LinkLost
    \/ pc = "drain" /\ outstanding = <<>> /\ ~stream /\ LinkLost
    \/ pc = "write" /\ ~stream /\ LinkLost
    \/ pc = "await" /\ Undisturbed /\ Unexpired /\ replies = <<>> /\ ~stream /\ LinkLost

\* drain_stale is over: nothing abandoned is owed a reply, or the deadline came.
Drained(expired) == expired \/ outstanding = <<>>

CountStraggler(op) == IF Transmits(op) /\ ~gate THEN stragglers + 1 ELSE stragglers

\* The request goes out.  A rig that does not acknowledge sets is done here.
WriteCommand(expired) ==
    /\ \/ pc = "drain" /\ Drained(expired)
       \/ pc = "write" /\ ~expired
    /\ stream /\ Room
    /\ Written(cur.op)
    /\ stragglers' = CountStraggler(cur.op)
    /\ outstanding' = NoteWritten(outstanding, ReplyKind(cur.op))
    /\ IF ReplyKind(cur.op) = "none"
       THEN ApplySet(cur.op) /\ Complete(cur, "ok", FALSE)
       ELSE /\ pc' = "await" /\ late' = (late \/ expired)
            /\ UNCHANGED <<callVars, aired, alarm, stateVars, cur, tries>>
    /\ UNCHANGED <<queueVars, held, after, gate, gate_moves, linkVars, portVars, radioVars,
                   replies, faults>>

\* The stream took no more until the deadline; part of the request may be out.
WriteTimesOut ==
    /\ pc \in {"drain", "write"} /\ stream /\ ~Room
    /\ IF Transmits(cur.op)
       THEN FailClosed("timeout") /\ UNCHANGED <<callVars, aired, alarm, cur, late>>
       ELSE Complete(cur, "Timeout", FALSE) /\ UNCHANGED <<after, outstanding>>
    /\ UNCHANGED <<queueVars, held, gateVars, stateVars, linkVars, portVars, radioVars,
                   wire, replies, faults>>

\* A frame arrives: it decides the command, or the command keeps waiting.
AwaitReply ==
    /\ pc = "await" /\ Undisturbed /\ Unexpired /\ replies # <<>>
    /\ Absorb(Head(replies))
    /\ LET frame == Head(replies)
           outcome == Decides(frame, ReplyKind(cur.op))
       IN  /\ IF outcome = "ok" /\ frame = "ack" THEN ApplySet(cur.op) ELSE ObserveFrame(frame)
           /\ IF outcome = "none"
              THEN UNCHANGED <<callVars, aired, alarm, pc, cur, tries, late>>
              ELSE Complete(cur, outcome, FALSE)
    /\ UNCHANGED <<queueVars, held, after, gateVars, linkVars, portVars, radioVars, wire,
                   faults>>

\* The watchdog lapses while a command waits for its reply.
WatchdogPreempts ==
    /\ pc = "await" /\ ~IsEmergency(cur.op) /\ ~emergency_wake /\ keyed_since = "due"
    /\ Complete(cur, "Cancelled", FALSE)
    /\ UNCHANGED <<queueVars, held, after, gateVars, stateVars, linkVars, portVars,
                   radioVars, wireVars, faults>>

\* A transmit command is written once; the others are retried.
AttemptsFor(op) == IF Transmits(op) THEN 1 ELSE Attempts

\* Seeded fault: attempts are not counted.
SameAttempt == tries

NextAttempt == tries + 1

\* No answer in time: retry, or give up; a transmit command given up is
\* followed by the fail-closed unkey.
ReplyTimesOut ==
    /\ pc = "await" /\ Undisturbed /\ Unexpired /\ replies = <<>> /\ stream
    /\ \/ /\ ~late /\ NextAttempt < AttemptsFor(cur.op)
          /\ tries' = NextAttempt
          /\ pc' = IF IsEmergency(cur.op) THEN "write" ELSE "drain"
          /\ UNCHANGED <<callVars, aired, alarm, cur, late, after, outstanding>>
       \/ /\ Transmits(cur.op)
          /\ FailClosed("timeout") /\ UNCHANGED <<callVars, aired, alarm, cur, late>>
       \/ /\ ~Transmits(cur.op)
          /\ Complete(cur, "Timeout", FALSE) /\ UNCHANGED <<after, outstanding>>
    /\ UNCHANGED <<queueVars, held, gateVars, stateVars, linkVars, portVars, radioVars,
                   wire, replies, faults>>

----------------------------------------------------------------------------
(* The fail-closed unkey and what follows it.                              *)

\* The unkey is done, or every attempt failed: go on with what it was for.
UnkeyDone(ok) ==
    /\ IF ok THEN Observe(FALSE) ELSE UNCHANGED stateVars
    /\ IF after = "timeout"
       THEN Complete(cur, "Timeout", ~ok)
       ELSE /\ pc' = IF after = "restored" THEN "session" ELSE after
            /\ tries' = 0
            /\ alarm' = IF ok THEN alarm ELSE Failures
            /\ UNCHANGED <<callVars, aired, cur, late>>

UnkeyUnchanged == <<queueVars, held, after, gateVars, portVars, radioVars, faults>>

WriteUnkey ==
    /\ pc = "unkey" /\ link_up /\ tries < UnkeyAttempts /\ stream /\ Room
    /\ Written("unkey")
    /\ outstanding' = NoteWritten(outstanding, SetReply)
    /\ IF SetReply = "none"
       THEN UnkeyDone(TRUE)
       ELSE /\ pc' = "unkeyAwait"
            /\ UNCHANGED <<callVars, aired, alarm, stateVars, cur, tries, late>>
    /\ UNCHANGED <<UnkeyUnchanged, linkVars, replies>>

\* The write failed: the link is down and there is no further attempt.
UnkeyWriteFails ==
    /\ pc = "unkey" /\ link_up /\ tries < UnkeyAttempts /\ ~stream
    /\ link_up' = FALSE
    /\ UnkeyDone(FALSE)
    /\ UNCHANGED <<UnkeyUnchanged, link_generation, watch_seen, wireVars>>

\* The attempt ends unanswered, refused or unwritten.
NextUnkeyAttempt == pc' = "unkey" /\ tries' = tries + 1

UnkeyAttemptFails ==
    /\ \/ pc = "unkey" /\ link_up /\ tries < UnkeyAttempts /\ stream /\ ~Room
       \/ pc = "unkeyAwait" /\ replies = <<>>
    /\ NextUnkeyAttempt
    /\ UNCHANGED <<UnkeyUnchanged, callVars, aired, alarm, stateVars, cur, late, linkVars,
                   wireVars>>

UnkeyAwait ==
    /\ pc = "unkeyAwait" /\ replies # <<>>
    /\ Absorb(Head(replies))
    /\ LET outcome == Decides(Head(replies), SetReply) IN
       \/ outcome = "ok" /\ UnkeyDone(TRUE)
       \/ /\ outcome # "ok"
          /\ ObserveFrame(Head(replies))
          /\ IF outcome = "none" THEN UNCHANGED <<pc, tries>> ELSE NextUnkeyAttempt
          /\ UNCHANGED <<callVars, aired, alarm, cur, late>>
    /\ UNCHANGED <<UnkeyUnchanged, linkVars, wire>>

\* Seeded fault: giving up passes for success.
UnkeyPretends ==
    /\ pc = "unkey" /\ (tries = UnkeyAttempts \/ ~link_up)
    /\ UnkeyDone(TRUE)
    /\ UNCHANGED <<UnkeyUnchanged, linkVars, wireVars>>

UnkeyGivesUp ==
    /\ pc = "unkey" /\ (tries = UnkeyAttempts \/ ~link_up)
    /\ UnkeyDone(FALSE)
    /\ UNCHANGED <<UnkeyUnchanged, linkVars, wireVars>>

\* open_session and restore_session: each request written once, in order.
SessionUnchanged == <<UnkeyUnchanged, callVars, aired, alarm, cur, late>>

SessionStep ==
    /\ pc = "session"
    /\ \/ /\ tries < SessionRequests /\ link_up /\ stream /\ Room
          /\ Written("session")
          /\ outstanding' = NoteWritten(Disowned, SetReply)
          /\ IF SetReply = "none" THEN pc' = pc /\ tries' = tries + 1
             ELSE pc' = "sessionAwait" /\ UNCHANGED tries
          /\ UNCHANGED linkVars
       \/ /\ tries < SessionRequests /\ link_up /\ stream /\ ~Room
          /\ tries' = tries + 1
          /\ UNCHANGED <<pc, linkVars, wire, outstanding>>
       \/ /\ tries < SessionRequests /\ link_up /\ ~stream
          /\ link_up' = FALSE /\ pc' = "select" /\ tries' = 0
          /\ UNCHANGED <<link_generation, watch_seen, wire, outstanding>>
       \/ /\ tries = SessionRequests \/ ~link_up
          /\ pc' = "select" /\ tries' = 0
          /\ UNCHANGED <<linkVars, wire, outstanding>>
    /\ UNCHANGED <<SessionUnchanged, stateVars, replies>>

SessionAwait ==
    /\ pc = "sessionAwait"
    /\ \/ /\ replies # <<>>
          /\ Absorb(Head(replies)) /\ ObserveFrame(Head(replies))
          /\ IF Decides(Head(replies), SetReply) = "none"
             THEN UNCHANGED <<pc, tries>>
             ELSE pc' = "session" /\ tries' = tries + 1
       \/ /\ replies = <<>>
          /\ pc' = "session" /\ tries' = tries + 1
          /\ UNCHANGED <<replies, outstanding, stateVars>>
    /\ UNCHANGED <<SessionUnchanged, linkVars, wire>>

----------------------------------------------------------------------------
(* Clocks, the radio and the link to it.                                   *)

Actors == <<gateVars, queueVars, callVars, taskVars, link_up, link_generation>>

Environment == <<Actors, alarm>>

\* The transmit limit, or the caller's heartbeat, lapses.
WatchdogLapses ==
    /\ keyed_since = "armed"
    /\ keyed_since' = "due"
    /\ UNCHANGED <<Environment, cache_ptt, watch_seen, portVars, radioVars, wireVars, aired,
                   faults>>

\* A late reply's window closes.  The rig answers within it or not at all, and
\* the request being waited for is younger than its window.
Expire ==
    /\ outstanding # <<>> /\ wire = <<>> /\ replies = <<>>
    /\ pc \in {"await", "unkeyAwait", "sessionAwait"} => Len(outstanding) > 1
    /\ outstanding' = Tail(outstanding)
    /\ UNCHANGED <<Environment, stateVars, watch_seen, portVars, radioVars, wire, replies,
                   aired, faults>>

OnAir(new) ==
    /\ tx' = new
    /\ quiet' = IF new = {} THEN Clients ELSE quiet
    /\ aired' = (aired /\ ~(tx # {} /\ new = {}))

\* The radio executes the next request and answers it, if it answers at all.
RigExecutes ==
    /\ wire # <<>> /\ status = "Connected" /\ Len(replies) < MaxWire
    /\ wire' = Tail(wire)
    /\ LET op == Head(wire) IN
       \/ /\ OnAir(Effect(op))
          /\ exposed' = (exposed /\ op # "unkey")
          /\ \/ /\ replies' = IF ReplyKind(op) = "none" THEN replies
                              ELSE Append(replies, Answer(op))
                /\ UNCHANGED faults
             \/ faults < Faults /\ faults' = faults + 1 /\ UNCHANGED replies
       \/ \* refused, or lost on the way
          /\ faults < Faults /\ faults' = faults + 1
          /\ replies' \in {replies, Append(replies, "nak")}
          /\ UNCHANGED <<radioVars, aired>>
    /\ UNCHANGED <<Environment, stateVars, watch_seen, portVars, outstanding>>

\* Morse in progress ends by itself.
CwEnds ==
    /\ "cw" \in tx
    /\ OnAir(tx \ {"cw"})
    /\ UNCHANGED <<Environment, stateVars, watch_seen, portVars, exposed, wireVars, faults>>

\* The operator keys or unkeys at the rig, which may report it on its own.
FrontPanel ==
    /\ panel_moves < PanelMoves
    /\ panel_moves' = panel_moves + 1
    /\ \E on \in BOOLEAN :
          /\ OnAir(IF on THEN tx \union {"ptt"} ELSE {})
          /\ IF Transceive /\ status = "Connected" /\ Len(replies) < MaxWire
             THEN replies' = Append(replies, Report(on))
             ELSE UNCHANGED replies
    /\ UNCHANGED <<Environment, stateVars, watch_seen, stream, status, generation, exposed,
                   wire, outstanding, faults>>

\* A transport without a supervisor fails for good.
StreamFails ==
    /\ ~Supervised /\ stream /\ faults < Faults
    /\ stream' = FALSE /\ faults' = faults + 1
    /\ wire' = <<>>
    /\ UNCHANGED <<Environment, stateVars, watch_seen, status, generation, panel_moves, radioVars,
                   replies, outstanding, aired>>

\* The supervisor publishes a lost port, a reopened one, or its own end.
PortLost ==
    /\ Supervised /\ status = "Connected" /\ faults < Faults
    /\ status' = "Reconnecting" /\ watch_seen' = FALSE /\ faults' = faults + 1
    /\ wire' = <<>> /\ exposed' = (link_generation # 0) /\ alarm' = alarm \ {"port"}
    /\ UNCHANGED <<Actors, stateVars, stream, generation, panel_moves, tx, quiet,
                   replies, outstanding, aired>>

PortReopened ==
    /\ status = "Reconnecting" /\ generation < MaxGeneration
    /\ status' = "Connected" /\ generation' = generation + 1 /\ watch_seen' = FALSE
    /\ UNCHANGED <<Environment, stateVars, stream, panel_moves, radioVars, wireVars, aired,
                   faults>>

SupervisorCloses ==
    /\ status = "Reconnecting"
    /\ status' = "Closed" /\ stream' = FALSE /\ watch_seen' = FALSE
    /\ UNCHANGED <<Environment, stateVars, generation, panel_moves, radioVars, wireVars, aired,
                   faults>>

----------------------------------------------------------------------------

Init ==
    /\ gate = FALSE /\ gate_moves = 0 /\ stragglers = 0
    /\ emergency = <<>> /\ emergency_pending = 0 /\ emergency_wake = FALSE /\ normal = <<>>
    /\ calls = [c \in Clients |-> "idle"] /\ request = [c \in Clients |-> "none"]
    /\ answer = [c \in Clients |-> "none"] /\ budget = [c \in Clients |-> Budget]
    /\ unkey_waiters = {}
    /\ pc = "start" /\ cur = NoCommand /\ held = NoCommand /\ tries = 0
    /\ after = "select" /\ late = FALSE
    /\ keyed_since = "off" /\ cache_ptt = "unknown"
    /\ link_up = TRUE /\ link_generation = 0 /\ watch_seen = TRUE
    /\ stream = TRUE /\ status = "Connected" /\ generation = 1 /\ panel_moves = 0
    /\ tx = {} /\ quiet = Clients /\ exposed = FALSE
    /\ wire = <<>> /\ replies = <<>> /\ outstanding = <<>>
    /\ aired = FALSE /\ alarm = {} /\ faults = 0

SubmitStep(c) ==
    SendEmergency(c) \/ WakeActor(c) \/ FindEmergencyFull(c) \/ Ride(c)

Call(c) == \E op \in ClientOps : Submit(c, op) \/ SubmitEmergency(c, op)

Actor ==
    \/ TakeEmergency \/ LinkStatusChanged \/ WatchdogFire \/ TakeNormal \/ ServeHeld
    \/ ReadIdle \/ LoseLinkIdle \/ PollOnce
    \/ Woken \/ DrainStale \/ LoseLinkServing \/ (\E expired \in BOOLEAN : WriteCommand(expired))
    \/ WriteTimesOut \/ AwaitReply \/ WatchdogPreempts \/ ReplyTimesOut
    \/ WriteUnkey \/ UnkeyWriteFails \/ UnkeyAttemptFails \/ UnkeyAwait \/ UnkeyGivesUp
    \/ SessionStep \/ SessionAwait

Radio == RigExecutes \/ CwEnds \/ FrontPanel \/ Expire \/ WatchdogLapses
Link  == StreamFails \/ PortLost \/ PortReopened \/ SupervisorCloses

Next ==
    \/ \E c \in Clients : Call(c) \/ SubmitStep(c)
    \/ MoveGate \/ Stop \/ Actor \/ Radio \/ Link

Spec == Init /\ [][Next]_vars

\* Threads and the actor keep running, the radio keeps reading its input, and
\* the windows and timers of the actor keep elapsing.
Fairness ==
    /\ \A c \in Clients : WF_vars(SubmitStep(c))
    /\ WF_vars(Actor) /\ WF_vars(RigExecutes) /\ WF_vars(Expire) /\ WF_vars(WatchdogLapses)

FairSpec == Spec /\ Fairness

----------------------------------------------------------------------------
(* What the callers are promised.                                          *)

ClientsOf(queue) == [i \in DOMAIN queue |-> queue[i].client]

\* A command has its turn while it is served, and while a poll runs in front of it.
InTurn == IF cur.client # NoClient THEN cur.client ELSE held.client

Service == INSTANCE RigService WITH
    line <- ClientsOf(normal), urgent <- ClientsOf(emergency),
    served <- InTurn, begun <- cur.client # NoClient

\* The actor and its handles keep the promise: whatever the stream, the clocks, the
\* watchdog, the polls and the link do, a caller sees commands served one at a time,
\* in order, each answered once, emergencies first and never cancelled.
ServiceKept == Service!Spec

----------------------------------------------------------------------------
(* Properties.                                                             *)

Results == {"none", "ok", "Timeout", "LinkDown", "Cancelled", "Rejected", "QueueFull",
            "TransmitGateClosed", "TransmitFrequencyUnknown"}

Requests == [client : Clients, op : Operations]

QueueTypes ==
    /\ gate \in BOOLEAN /\ gate_moves \in Nat /\ stragglers \in Nat
    /\ emergency \in Seq(Requests) /\ normal \in Seq(Requests)
    /\ emergency_pending \in Nat /\ emergency_wake \in BOOLEAN

CallTypes ==
    /\ unkey_waiters \subseteq Clients
    /\ calls \in [Clients -> {"idle", "counted", "sent", "riding", "waiting"}]
    /\ request \in [Clients -> Operations \union {"none"}]
    /\ answer \in [Clients -> Results] /\ budget \in [Clients -> Nat]
    /\ aired \in BOOLEAN /\ alarm \subseteq Failures

TaskTypes ==
    /\ pc \in {"start", "select", "held", "drain", "write", "await", "unkey", "unkeyAwait",
               "session", "sessionAwait", "stopped"}
    /\ cur \in Requests \union {Poll, NoCommand} /\ held \in Requests \union {NoCommand}
    /\ tries \in Nat /\ late \in BOOLEAN
    /\ after \in {"select", "timeout", "restored", "stopped"}
    /\ keyed_since \in {"off", "armed", "due"} /\ cache_ptt \in {"unknown", "on", "off"}

LinkTypes ==
    /\ link_up \in BOOLEAN /\ link_generation \in Nat /\ watch_seen \in BOOLEAN
    /\ stream \in BOOLEAN /\ status \in {"Connected", "Reconnecting", "Closed"}
    /\ generation \in Nat /\ panel_moves \in Nat /\ faults \in Nat

RadioTypes ==
    /\ tx \subseteq {"ptt", "cw"} /\ quiet \subseteq Clients /\ exposed \in BOOLEAN
    /\ wire \in Seq(Operations \union {"session"})
    /\ replies \in Seq({"ack", "nak", "on", "off"})
    /\ outstanding \in Seq([kind : {"ack", "ptt"}, mine : BOOLEAN])

\* Every variable has its type: the state of submit, of the actor, of the stream.
TypeOK == QueueTypes /\ CallTypes /\ TaskTypes /\ LinkTypes /\ RadioTypes

\* The counter beside the emergency queue (rig.rs submit, run) never drifts and
\* never underflows: it counts the queued commands and those about to be.
PendingIsExact ==
    emergency_pending = Len(emergency) + Cardinality({c \in Clients : calls[c] = "counted"})

\* Where a client's unanswered command can be.
InQueue(queue, c) == {i \in DOMAIN queue : queue[i].client = c}

Places(c) ==
    Cardinality(InQueue(emergency, c)) + Cardinality(InQueue(normal, c))
    + (IF cur.client = c THEN 1 ELSE 0) + (IF held.client = c THEN 1 ELSE 0)
    + (IF c \in unkey_waiters THEN 1 ELSE 0)

\* A command is answered exactly once: a client that waits is in exactly one
\* queue, in service, or riding, and a client that does not is nowhere.
NobodyForgotten ==
    \A c \in Clients :
        Places(c) = IF answer[c] = "none" /\ calls[c] \in {"sent", "waiting"} THEN 1 ELSE 0

\* A caller told its unkey worked can rely on it: the rig was off the air at
\* some moment since it asked, whatever late replies were around (absorb).
UnkeyOkMeansQuiet ==
    \A c \in Clients : request[c] = "unkey" /\ answer[c] = "ok" => c \in quiet

UnkeyUnderWay == pc \in {"unkey", "unkeyAwait"} \/ \E i \in DOMAIN wire : wire[i] = "unkey"

\* A rig on the air on an acknowledged command has its dead-man timer running,
\* is being unkeyed, or the failure to unkey it has been reported.
AckedKeyIsWatched ==
    aired /\ tx # {} => keyed_since # "off" \/ UnkeyUnderWay \/ "air" \in alarm

\* Closing the gate stops every queued transmit command; only the one in
\* service can still go out.
OneStraggler == stragglers <= 1

\* After a reopen was noticed and handled, an unkey reached the rig or its
\* failure was reported since the port was lost.
RestoredMeansUnkeyed ==
    pc = "select" /\ watch_seen /\ status = "Connected" /\ link_up => ~exposed \/ "port" \in alarm

\* The owner that drops the last handle leaves no rig on the air unreported, but for
\* one whose link is down.
StoppedMeansUnkeyed ==
    pc = "stopped" => tx = {} \/ "air" \in alarm \/ UnkeyUnderWay \/ ~link_up

\* A transmit command reported as timed out after it was written leaves the rig
\* unkeyed, or the failure reported.
TimedOutKeyIsUnkeyed ==
    [][\A c \in Clients :
          /\ pc \in {"unkey", "unkeyAwait"}
          /\ answer[c] = "none" /\ answer'[c] = "Timeout" /\ Transmits(request[c])
          => tx' = {} \/ "air" \in alarm']_vars

\* An announced emergency is never slept through by a wait it should cut short.
Announced == \E i \in DOMAIN emergency : calls[emergency[i].client] = "waiting"

EmergencyIsHeard ==
    /\ Announced /\ ~IsEmergency(cur.op)
    /\ pc = "await" \/ (pc = "drain" /\ outstanding # <<>>)
    => emergency_wake

\* An unkey is in service or queued, and will answer whoever rides.
UnkeyAhead == IsUnkey(cur.op) \/ \E i \in DOMAIN emergency : IsUnkey(emergency[i].op)

\* A riding request has an unkey ahead of it that will answer it.
RiderIsServed == unkey_waiters # {} => UnkeyAhead

\* The dead-man timer runs from the moment a command keyed the rig: when
\* everything written has been executed and read, a rig on the air is watched.
KeyedIsWatched ==
    pc = "select" /\ wire = <<>> /\ replies = <<>> /\ emergency = <<>> /\ tx # {}
    => keyed_since # "off" \/ "air" \in alarm

\* Nothing on its way answers this client: its unkey joined the waiters when the
\* unkey it was to ride on had been served, or behind a queue of stop-Morse only.
Stranded(c) == c \in unkey_waiters /\ ~UnkeyAhead

\* Every command is answered, but for an unkey that finds the queue full and then
\* nobody to ride on; a rider that has an unkey ahead is answered with it, also
\* when the unkey came after it was stranded (submit, run, serve).
EveryCallAnswered ==
    \A c \in Clients :
        /\ calls[c] = "waiting" ~> calls[c] = "idle" \/ Stranded(c)
        /\ c \in unkey_waiters /\ UnkeyAhead ~> c \notin unkey_waiters

\* With polling, a rig keyed by anybody is noticed: the dead-man timer starts,
\* or the transmission ends first (poll_once, poll_reserved, note_unsolicited).
KeyedIsNoticed ==
    tx # {} ~> tx = {} \/ keyed_since # "off" \/ "air" \in alarm \/ pc = "stopped" \/ ~link_up

\* A transmission on an acknowledged command ends, or the failure is reported.
TransmissionEnds == aired /\ tx # {} ~> tx = {} \/ "air" \in alarm
=============================================================================
