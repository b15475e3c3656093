# Rig control: a verification project

This directory holds TLA+ models of the rig-control programs of this repository,
`src/daemons/radioctl`: the actor that owns a radio, the links that carry its bytes, the
transmit lease, the splitter that shares a radio between programs, and the station
controller that switches radios, amplifiers and antennas; the configurations that check them
with TLC, and proofs checked by TLAPS. The repository also holds a web site (Odoo modules),
signal-processing crates and several unrelated daemons; they are listed under "Not
modelled".

Why this part: `radioctl` puts a transmitter on the air. Several threads, a watchdog, a byte
stream that loses and delays replies, and a serial port that goes away meet in one actor
(`radioctl-core/src/rig.rs`), and the code makes strong promises ("never a hang", "a dropped
handle never leaves RF on the air"). Paths below are relative to
`src/daemons/radioctl/crates/`.

## The system

| Component | State it keeps | Operations | Talks to |
|---|---|---|---|
| `RigHandle` (`radioctl-core/src/rig.rs` 286-760) | shared with the actor: transmit gate, emergency counter, wake-up, waiters, cache | `execute*`, `submit`, open and close the gate, subscribe | the actor, by two bounded queues |
| rig actor (`rig.rs` 760-2030) | command in service, outstanding requests, watchdog, poll schedule, link state | the select loop, `run_command`, `unkey_fail_closed`, `watchdog_fire`, `poll_reserved`, `link_status_changed` | the byte stream; the link's watch channel |
| serial supervisor (`serial.rs`) | port, reader thread, two bounded queues, status and generation | open, read, write, reopen with a delay, close | the actor, by a byte stream and a watch channel |
| network link (`net.rs`) | wire and its handshake, status and generation | attempt, session, wait and drop, close | the actor, the same way |
| transmit lease (`rig/easy.rs`) | deadline, timer task, ended flag | take, key, release, drop, time out | the handle's gate and `submit` |
| poll schedule (`poll.rs`), transmit state (`txstate.rs`), delay (`backoff.rs`) | entries and due times; derived frequencies; an attempt number | pure functions | the actor, the supervisors |
| protocol engines (`radioctl-protocols`) | decoder buffers | encode a command, decode bytes | the actor |
| splitter (`radioctl-splitter`) | PTT owner, one task per client | emulate a rig for legacy programs | the handle |
| switchboard (`radioctl-station/src/channel.rs`) | per channel: a lock, commanded and confirmed value, last turn-off | `set`, `verify`, `force_off`, `pulse` | a driver per relay board |
| station (`station.rs`, `model.rs`) | none of its own: the definition | `power_on`, `power_off`, `select`, `run_profile`, `all_off`, interlocks | the switchboard; the keyed state of the rigs |
| radio manager (`manager.rs`, `lifecycle.rs`, `actor_link.rs`) | per radio: lifecycle, record, backoff; the current actor | `tick`, `press`, `reconcile`, `connect` | the station; new rig actors |
| `radioctld`, `radioctl-capi` | client sessions | serve commands over TCP, C and a web channel | the handle, the station |

What is hard here: callers on any thread race with the actor over four pieces of shared
state (`submit` does them one after the other); a reply carries no request number and is
matched to requests by order, also after its command was given up; a command may have
reached the radio although it failed; the waits of the actor are cut short by emergencies,
deadlines and the watchdog; the serial port disappears and reappears with the radio keyed. A
lease's timer and its drop race to end it, and the aborted timer may complete at any moment.
In the station several tasks switch relays that may stick or fail to answer, a timeout drops
an operation half way, an emergency does not wait for anybody, and the manager's tasks act
on evidence that was gathered before something changed.

What makes it correct: no call is answered twice, and every call is answered; an unkey
overtakes everything; "unkeyed" is never reported of a rig that is on the air; a rig on the
air has its dead-man timer running or is being unkeyed; a closed gate stops transmit
commands; a reconnection unkeys. Bytes of an old port never mix with those of a new one, and
every request is written or accounted for. An open gate has somebody who will close it. No
two antennas are joined, no relay moves under a key, a confirmed value is the real one. A
radio's lifecycle settles on what its switch and its link say.

That is what the code means to do, and it does not do all of it. Where it falls short, the
property checked names the exception and nothing more, and a configuration shows the
exception happening:

| Meant | Except | Shown by |
|---|---|---|
| every call is answered | an unkey that rides on a queue already drained (rig.rs:607 to 616) | `MCRigRider` |
| every request is written or accounted for | the request whose write fails, one for each open port (serial.rs:644); those an attempt took before the shutdown cut it short (net.rs:554) | `MCSerialLost`; `uncounted` in `NetLink` |
| an open gate, a rig on the air: somebody will end it | a drop that trusted a timer its own abort had cancelled (easy.rs:203) | `MCLeaseDropped` |
| a confirmed value is the real one | after a timeout dropped an operation half way (station.rs:583 and 681) | `MCStationCut`, `MCStationSlow` |
| an unresponsive program loses the transmitter | one that keeps sending (session.rs:274), or takes no more replies (session.rs:571) | `MCSplitterStalled` |
| a supervisor gets past its reader | the caller stops reading for good; no worker is left for the downlink (serial.rs:744) | `CallerStalls` in `SerialLink`; `MCSerialWorker` |
| a radio is tried again | it was Unreachable, and nothing can show that it is there (actor_link.rs:243) | `MCManagerGivenUp` |
| a press ends | a power operation or a transport never answers (channel.rs:687, actor_link.rs:270) | `MCManagerHangs` |

## Modules

| Module | What it is |
|---|---|
| `RigService` | the abstract service a rig is to its callers: two lines of commands, one turn at a time |
| `RigActor` | the handles' `submit`, the gate, the actor, the radio and the stream to it; the properties |
| `MCRigActor` | client model values and their symmetry set |
| `RigActorProofs` | its inductive invariants: types, the counter, the gate, the places of commands, the wake-up; the refinement of `RigService` |
| `RigActorStreamProofs` | what the actor may conclude from a reply: the stream matched with the outstanding requests, and the theorems on unkeying |
| `Link` | the abstract contract of a link: what it may publish, and when it closes |
| `SerialLink`, `NetLink` | the two detailed links; each implements `Link` |
| `SerialLinkProofs`, `NetLinkProofs` | invariants, and the refinement as a theorem |
| `TransmitLease`, `TransmitLeaseProofs` | leases over the two-step gate, with a small actor behind them |
| `Splitter`, `MCSplitter`, `SplitterProofs` | PTT arbitration between the programs of the protocol splitter |
| `Station`, `MCStation`, `StationProofs` | the switchboard and the station's operations; a small station |
| `RadioManager`, `RadioManagerProofs` | the lifecycle of a radio, its monitor and its power button |

How they fit together. `RigService` is what `RigActor` is to whoever holds a handle, and
`RigActor` is shown to implement it. `Link` is what `RigActor` assumes of its stream: its steps
`PortLost`, `PortReopened` and `SupervisorCloses` follow `Lose`, `Open` and `Close`, and the
two links are shown to allow no others. `TransmitLease` sits on the handle: its `Take`,
`Carry` and `Preempt` are `RigActor` seen from a lease. `Splitter` sees the same handle
through the answers its requests get. `RadioManager` uses `Station` through the outcome of
`power_on` and `power_off` (done or refused) and an actor through its link state.

### RigService

The description at the head of `rig.rs` (14-26) as a specification. A caller asks (`Ask`); an
ordinary command joins `line` or is refused on the spot, an emergency is aside until it
joins `urgent` (`LineUp`) or rides on another unkey. One command at a time has its turn
(`served`), the urgent ones first; it is refused, or `begun` and ended with one of
`Outcomes`, and an unkey's result is told to unkeys that are aside as well. Stream, replies,
retries, polls, watchdog and link are not in it.

Two things it says are weaker than a first reading of the description, because the code is. A
command whose turn has come while a poll runs in front of it keeps its turn: `BeginKept`
does not look at `urgent` (see `MCRigLostWake`). And a caller that is aside has no claim to
an answer: `Sharing` lets it be told, nothing makes it (see `MCRigRider`).

In `RigActor`, `Service` is the refinement mapping: `line` and `urgent` are the clients of the
two queues, `served` the client of `cur`, or of `held` while `cur` is a poll, and `begun` says
which of the two. Counting, waking, joining the waiters, draining, writing, reading, unkeying
and every step of the environment but `MoveGate` are invisible.

### RigActor

One variable or two per piece of state in the code:

| Model | Code |
|---|---|
| `gate` | `Shared::gate_open` |
| `emergency`, `normal` | the two `mpsc` channels of `spawn` |
| `emergency_pending`, `emergency_wake`, `unkey_waiters` | the counter, the `Notify` and the list of `Shared` |
| `calls`, `request`, `answer` | where a caller stands inside `submit`, and what its reply channel holds |
| `pc`, `cur`, `held`, `tries`, `after`, `late` | the control point of the actor's task and the locals that live across its awaits |
| `outstanding` | `Actor::outstanding`, with whether an entry belongs to the command in service |
| `keyed_since`, `cache_ptt` | the watchdog and the cached `Field::Ptt` |
| `link_up`, `link_generation`, `watch_seen`, `status`, `generation` | link state in the actor, and the watch channel of the supervisor |
| `wire`, `replies`, `stream` | requests and replies in flight; whether the stream works |
| `tx` | what keeps the radio on the air: PTT, Morse or both |

`quiet`, `aired`, `alarm`, `stragglers` and `exposed` are history variables: no action reads
them in a guard. `alarm` stands for the failure the actor publishes (`WatchdogUnkeyFailed`
and the errors an unkey returns): each failure is news of the transmission (`"air"`), until
another is acknowledged, and of the lost port (`"port"`), until the next loss.

Steps. A caller's `submit` is one step per access to shared state: count
(`SubmitEmergency`), queue (`SendEmergency`) or find the queue full (`FindEmergencyFull`),
wake (`WakeActor`) or join the waiters (`Ride`). The actor's steps end where the code
awaits: `TakeEmergency`, `TakeNormal`, `PollOnce` and `LinkStatusChanged` are arms of the
biased select in `run`, in its order; `Begin` is `run_command` up to its first wait,
`DrainStale` the `drain_stale` loop, `WriteCommand` the write, `AwaitReply` one frame of
`await_reply`, `ReplyTimesOut` the retry loop; `Complete` is the tail of `serve` with its
riders. `FailClosed` and the `Unkey...` actions are `unkey_fail_closed`, entered from a
timeout, the watchdog, a restored link and the stop. `SessionStep` writes the requests of
`open_session` and `restore_session`.

Abstractions. Frequencies, modes and texts are gone: the six operations are the ones the
control flow tells apart (key, Morse, unkey, stop-Morse, a read of the transmit state, any
other set). Time is gone: a deadline, the reply timeout, the watchdog and the window of a
late reply may lapse at any step at which the code lets that clock run. One assumption ties
clocks together, and it is the documented meaning of `late_reply_window`: a radio answers
within the window or not at all (`Expire`). The fail-closed frequency check may refuse any
transmit command (`TransmitFrequencyUnknown`). A request the port drops while it is being
reopened is lost or kept, both are tried (`Written`).

External. The radio (`RigExecutes`, `Effect`, `Answer`, `CwEnds`), its operator
(`FrontPanel`), the kind of reply an engine announces (`ReplyKind`) and a stream that fails
(`StreamFails`) are environment; they are as free as the code's own comments allow: a
request can be refused or lost, a reply can be lost, an operator can key at any moment.

### Splitter

`owner` is `PttOwner::owner`; `task`, `request` and `outcome` are where a client's
`run_client` stands, its request and the `Outcome`; `pending` are the requests the handle
has not answered. The lock around the owner is held for one access at a time, so the claim
(`Request`), the rig's answer (`Serve`) and what the task does with it (`Settle`) are three
steps with others in between. `Reply` delivers the answer over the bounded output channel; a
program may stop reading it (`StopsReading`). A program that asks only for readings (`Read`)
keeps its task busy and its connection alive without touching the owner: the idle timeout
starts anew with every byte (session.rs:274). `talking` says whether a program still sends;
`FallsSilent` is the last byte it ever will, and only then does the timeout have to come.
`Leave`, `End` and `Left` are the ends of `run_client` with `cleanup`; a client in
`Persistent` (a pty) goes on after a disconnect. `Abort` is `ClientHandle::abort`, which
keeps the claim, as its comment says.

The rig behind the handle is `RigActor` seen from outside: it does a request, refuses it,
abandons an ordinary one for an emergency (`Cancel`, whose effect is uncertain), or follows
a transmit request in doubt with an unkey (the second alternative of `Refuse`); its watchdog
may unkey at any time (`FallsQuiet`). `last_claim`, `displaced`, `sounding` and
`left_owning` are history variables.

### Link, SerialLink and NetLink

`Link` has four variables, the ones a caller can see: whether it `held` its end, the
`status` published, the `generation` and the `attempt`. `Open`, `Lose`, `Retry` and `Close`
are what a link may publish: generations by one, attempts by one between two of them, no end
before the caller drops the stream unless the link never opened, and an end without undue
delay after that.

`SerialLink` is serial.rs with its actors apart: the caller, the uplink and the downlink
task with what each holds across an await (`offered`, `carried`), the supervisor's thread
(`sup`), and the threads of its readers (`readers`), also those not yet joined. Requests and
chunks are the generation they were written in or read from, so that order and staleness can
be told. `commands` and `inbound` are the two channels, `port`, `port_ok` and `shared` the
open port, whether it still works and the control lines handed out. `PortFails` may come at
any step. A request whose write fails is in no count of the code; the history variable
`uncounted` keeps it. The uplink hands its `Shutdown` over with the standard library's
blocking send (serial.rs:744), inside an async task: as long as the queue is full it holds
one of the `Workers` of the runtime (`BlocksWorker`), and the downlink runs only while one
is left (`DownlinkRuns`).

`NetLink` is the one task of net.rs: `Dial` and `HandshakeDone` are an attempt's awaits with
`AttemptDrops` and `AttemptSeesEnd` beside them in the select, `SleepDrops` the wait, and
the `Session...` actions the arms of the session's select. `dropping` is the local count of
an attempt, `uncounted` (a history variable) what the shutdown in an attempt loses of it.

### TransmitLease

`gate` and `permit` are the two halves of the gate (rig.rs:421 to 441), written one after
the other. `holder` is where the owner of a lease stands in `transmit_lease`, `release` or
`drop`, `timer` where the spawned timer does; both run `end_lease` (`EndStep`) gate first.
An abort ends a timer that has not begun; `AbortLands` is the runtime completing it (the
timer is then `"cancelled"`), at any step after the abort: radioctld builds its runtime with
several threads (main.rs:88). A drop that finds the timer finished does nothing more, whether
it finished its work or was cancelled before it; `leftOpen` is the history of the second.
The actor is reduced to what a lease can see: keys in order, unkeys before them, the gate
read when a key is taken, and a key cut short by an unkey.

### Station

`on` are the lines that carry current; `commanded` and `confirmed` are a channel's state,
`resting` its minimum off time, `lock` its operation lock. A call becomes a list of items
(`todo`): one per `set`, with the order of `dependents` for a power-off, for each device of
a `stop_profile` that is not known to be off, and that of `power_on_order` reversed for an
all-off. `pc` is the point inside the item: the guard, the check, the wait for the lock,
each write, each read-back, the make. `Look` is the read-back between break and make,
`Record` the end of `verify`. `CutShort` is the profile's timeout, which drops the future
wherever it waits and releases its lock. The all-off's items (`ForceOff`) take no lock; each
of their writes and reads may be refused by the driver, which marks the channel unknown, or
outlast the step's timeout (station.rs:681), which drops `force_off` and marks nothing, so
that the channel keeps the value confirmed last (`ForceWrite`; the HTTP relays take up to 3
s, Home Assistant 5 s, the step has 3 s). `cuts` counts both kinds of timeout. A write may
fail, with the line moved or not, and a relay may stay as it is (`faults`). The key may move
at any step (`KeyMoved`); `forced`, `seen`, `overlap` and `byHand` are history variables.
`Boards` are the boards the program may find at its start (`StationBoards` in the runs: all
off, the radio on, or radio, amplifier and an antenna on): what was switched before the
program ran is not the code's doing, so none of them starts with a device on without what it
depends on, or with two antennas joined. `OrderAssumption` says that a power-off switches a
device off before what it depends on, as `model.rs` ensures by refusing a cycle.

### RadioManager

`life`, `prev` and `overdue` are the `Lifecycle`; `record` the stored state; `due` the
backoff; `connecting` the lock `one_connect`; `switch`, `answers`, `link` and `present` the
world. `present` is what the link layer knows of the radio apart from its answers, and may
be unknown for ever: behind `ActorLinks` it always is (actor_link.rs:243). Each process (the
monitor, the users of the button) has its own `evidence` and transition `to` apply, so a
tick is `CheckDue`, `Connect`, `Spawn`, `Gather`, `Step` and `Apply` with anything in
between. `next` is where the tick returns to. Times are gone: a state may have lasted long
enough (`StateTimeout`) whenever its timeout runs. `ReadBack` and `Resolve` are the start-up
reconcile, which comes before the monitor's first tick.

## Runs

Clients are model values; runs without liveness use their symmetry. Every bound below is a
constant of the module and a guard of the step it limits: `Budget` commands per client,
`Faults` lost or refused requests, lost replies, lost ports, `GateMoves` and `PanelMoves`
moves of the gate and the operator, `MaxWire` requests and replies in flight,
`MaxGeneration` opens of the port. The other modules name theirs `Writes`, `Reads`, `Calls`,
`KeyMoves`, `Timeouts`, `Presses`, `Moves`, `Refusals`. Deadlock is not checked: the bounds
are exhausted, and an actor, a link or a lease that ended is a proper end.

| Run | Instance | Shows |
|---|---|---|
| `MCRigQueues` | 3 clients, 1 command each (key, unkey, tune, stop-Morse), one emergency slot, 1 gate move, an operator whose rig reports | the counter is exact; every command is in one place and answered once; no announced emergency is slept through; each step is one `RigService` allows: order, one turn at a time, emergencies first |
| `MCRigKeying` | 2 clients, 2 commands each, 1 fault, 2 gate moves | an acknowledged unkey is real; an acknowledged key is watched; one straggler at most; the last handle unkeys; a timed-out key is unkeyed or alarmed |
| `MCRigPolled` | 1 client that keys, sends and stops Morse, a rig that acknowledges no set, polling, an operator who keys at the panel | a rig keyed by anybody is noticed or watched |
| `MCRigSupervised` | 2 clients, one emergency slot, one unkey attempt, a port lost and reopened or closed | a reopen is followed by an unkey or an alarm; every call is answered, except one that started to ride after the last drain; every acknowledged transmission ends or its failure is reported |
| `MCRigCancelledKey` | a key and a stop-Morse | a divergence |
| `MCSplitter` | a connection and a pty, 2 requests each, 1 refusal, 1 abort | claims match the requests on their way; a refused request holds nothing; a departing owner unkeys; a program that falls silent and reads its replies gives the transmitter up |
| `MCSerial` | a stream of 1, queues of 2 and 1, 2 workers, 2 first attempts, 2 requests, 4 reads, 2 losses | nothing of an old port overtakes, in either direction; at most one request for each open port is neither written nor dropped; current control lines; the contract of `Link`; a loss is acted on and the port released, unless the caller has stopped reading for good |
| `MCNet` | a stream of 2, 2 first attempts, 3 requests, 3 reads, 3 faults | the accounting: only a shutdown inside an attempt leaves requests uncounted; the contract of `Link` |
| `MCLease` | 2 leases, each used once more than it must, several runtime threads | the gate and the air are owed to somebody, the end of all leases is silence, and a transmission and an open gate end, unless a drop trusted a timer that its own abort had cancelled |
| `MCStation` | a radio, an amplifier that depends on it, its operate line, a selector with 2 antennas, 2 callers with 2 calls together, 1 change of the key, 1 timeout of a profile or of a step of an all-off, 1 fault | break before make, dependencies, no switching under a key, the all-off ends; until the timeout, real confirmations and selections |
| `MCStationCut` | the same, without liveness | a divergence |
| `MCManager` | the monitor and one user, 1 press, 1 change of the world, 1 refusal | the record after a start; as long as attempts to connect end, the lifecycle follows the switch and the link, settles, and tries a radio again that shows itself; a press ends if the station answers too |

Why the bounds are enough: each hazard needs at most three actors (two callers and the
actor), one fault and one command of each kind that meet; the emergency queue is contended
as soon as it is smaller than the number of callers, and then unkeys ride, in `MCRigQueues`
and in `MCRigSupervised`; one retry (`Attempts = 2`, `UnkeyAttempts = 2`) has a first and a
last attempt, `MCRigSupervised` retries commands but not its unkeys, and `MCRigQueues`,
which is about the queues, has no retry; a late reply needs one abandoned request and one
new one on the wire; a claim is contended by two programs, and two requests each let one key
again while the other's unkey is on its way. `MCRigKeying` leaves the panel out on purpose:
on a rig that acknowledges no sets and reports on its own, an "off" report already in flight
when a key is written is read after it and disarms the watchdog. A serial link is lost
twice, so a third port exists whose bytes two older ones could overtake, while every queue
is full at 1 or 2. Two leases overlap in every way; a third would only repeat the second. A
station with one dependency, one selector and two callers has every pair of operations that
can meet in a channel; each of the fault, the timeout and the key's move can meet each of
them. A serial link needs a second worker as soon as one may be blocked, and no third: one
task only blocks. The manager's monitor and one user are the two tasks that can hold stale
evidence; the change of the world may come between any two of their steps, before the first
tick too, where the record is any state.

Every property has been broken on purpose: the definitions marked "Seeded fault" are what a
plausible slip in the code would make of the definition after them (a dropped check, a
missing reset, a swapped order), and TLC finds each property violated when one of them takes
the real definition's place. PROJECT.json pairs them.

Configurations kept beside the runs. Most modules have
further instances in this directory, which TLC finds violated or which another run subsumes;
they are described under "Where the code and its documentation disagree": `MCRigRider`,
`MCRigLostWake`, `MCRigStop`, `MCSplitterGone`, `MCSplitterStalled`, `MCSerialLost`,
`MCSerialWorker`, `MCLeaseDropped`, `MCStationSlow`, `MCManagerRecord`, `MCManagerGivenUp`,
`MCManagerHangs`. Two more hold: `MCRigSilent` is
`AckedKeyIsWatched` for a rig that acknowledges no set, and `MCRigService` is `ServiceKept`
for a rig that is polled, in front of commands already taken too.

### Fairness

`RigActor!FairSpec` is used by the two runs of the actor with liveness. Each conjunct is a
promise of the code or its runtime:

- `WF(SubmitStep(c))`: a thread inside `submit` is between two statements with
  nothing to wait for.
- `WF(Actor)`: the actor's task is scheduled while any of its waits is over; its
  select is biased, and the model keeps the order of its arms in guards.
- `WF(RigExecutes)`: a connected radio reads its input.
- `WF(Expire)`, `WF(WatchdogLapses)`: timers elapse.

Nothing is assumed of callers, the owner of the gate, the operator or the link. In
particular `PortReopened` is not fair: a port may stay lost for ever.

`SerialLink!FairSpec` and `NetLink!FairSpec`: the tasks and threads of the link run, a delay
ends, and an open of the port succeeds or fails; a task of the serial link runs while a worker
is free for it. Nothing is assumed of the caller: it may write, stop reading or drop the
stream at any step, or do nothing for ever, and no action of it is fair. A caller that leaves
the stream full for good is the case `CallerStalls`, in which the downlink, a reader and the
supervisor that joins it wait with it; `SupervisorMovesOn` exempts that case and no other.

`TransmitLease!FairSpec`: the timers elapse, an abort is completed, a function that does not
await runs to its end, and the actor serves its queues, emergencies first (what
`EveryCallAnswered` shows of `RigActor`). The holder of a lease need never end it.

`Station!FairSpec`: only the all-off runs on. Each of its steps has its own timeout
(`ALL_OFF_STEP_TIMEOUT`) and waits for no lock, so nothing is needed of the others, and they
get no fairness: they may hang inside their channel.

`RadioManager!FairSpec`: the monitor and a press run on; timeouts and backoffs pass; and
`one_connect` is tokio's Mutex, which is first in, first out, hence the strong fairness of
`Connect`. `Deadline` is strongly fair because the deadline of a press is compared again in
every turn of its loop. Nothing is assumed of what has no timeout: a power operation and a
read-back wait for the lock of a channel and its driver (`ReadBack`, `Cut`, `Start`;
channel.rs:687), an attempt to connect for a transport (`Spawn`; actor_link.rs:270). Each may
last for ever. What the manager promises when they end is stated with that condition:
`AttemptsEnd`, that nobody stays in an attempt for ever, is a premise of
`LifecycleFollows`, `Settles` and `Reconnects`, and `PressEnds` is about a press that does not
stay in a power operation. `PressBounded`, without it, is false.

`Splitter!FairSpec`: the handle answers every request (what `EveryCallAnswered` shows of the
actor, but for an unkey that rides too late), tasks run on, a reply reaches a program that
reads, and a stream client that has fallen silent is disconnected (`idle_timeout`; it does not
apply to a pty). The timeout starts anew with every byte, so a program that keeps polling need
never be disconnected, and none has to fall silent. A program that has stopped reading gets
no fairness.

### Where the code and its documentation disagree

Two are runs that TLC must find violated, the others are the configurations beside them,
with the property each breaks, and one is an exemption that a passing run names:

- `MCRigCancelledKey` (`KeyedIsWatched`; a run): a key whose reply is awaited is abandoned for a
  stop-Morse at rig.rs:1574 with neither a watchdog nor an unkey; its late
  acknowledgement arms nothing. rig.rs:18 promises the timer "from the moment the
  rig is keyed".
- `MCStationCut` (`SelectedIsClosed`; a run): `run_profile` drops `set` when its time is over
  (station.rs:583), also after the old antenna opened and before the new one closed. The
  confirmed value still names the old one, so selecting it again returns Ok at
  channel.rs:721 with no antenna closed. channel.rs:676 says `set` "confirms it by
  read-back".
- `MCRigRider` (`RiderIsServed`): `submit` finds the emergency queue full (rig.rs:602) and pushes
  its waiter at rig.rs:611. In between, the actor can serve the queue and drain
  the waiters, and nothing answers this caller. rig.rs:608 says the request
  "rides on it and is answered with its result".
- `MCRigLostWake` (`EmergencyIsHeard`): the reserved poll takes the wake-up meant for the command
  behind it (rig.rs:1087 to 1091), so an unkey waits out that command's reply timeout.
  rig.rs:13 says an unkey "abandons a command that is waiting for a reply".
- `MCRigStop` (`StoppedMeansUnkeyed`): `unkey_on_stop` looks at the cached PTT and the gate; Morse in
  progress is in neither. rig.rs:1205 says "a dropped handle never leaves RF on
  the air".
- `MCSplitterGone` (`SenderGoneIsQuiet`): `execute` clears the owner after it awaited an unkey
  (session.rs:492), whoever owns the transmitter by then. A program that keyed in
  between is on the air without a claim, and when it goes nothing unkeys.
  session.rs:509 says "a sender that goes away unkeys the rig". A key abandoned
  for a stop-Morse has the same effect when its sender was keyed already.
- `MCSplitterStalled` (`NobodyHoldsForEver`): a task waits without a limit to deliver a
  reply (session.rs:571), so it never reads the disconnect that the idle timeout queued; and
  the timeout is that of a silent program (session.rs:274), so one that keys and goes on
  polling holds the transmitter as long as it likes. session.rs:70 says "an abandoned
  connection cannot hold a slot, or the transmitter, for ever".
- `MCSerialLost` (`EveryDropIsCounted`): the writer takes a request from the queue and its write
  fails on a dead port (serial.rs:644); the request is in neither `bytes_out` nor
  `bytes_dropped`. serial.rs:15 to 16 says that when a write fails the link is reconnecting and
  "bytes written meanwhile are dropped and counted", as does serial.rs:247.
- `NetLink`'s `uncounted` is the same on the network: a shutdown cuts an attempt short
  (net.rs:554) and the requests it had taken are in no count, where net.rs:540 says that
  "while this runs, actor writes are dropped and counted". `WritesAccounted` says that it happens to
  no other request.
- `MCSerialWorker` (`SupervisorMovesOn` with `Workers = 1`): on a runtime with one worker the
  blocking send of the `Shutdown` (serial.rs:744) keeps the downlink from running. The queue
  is emptied by the supervisor, which waits for a reader, which waits for the downlink: all of
  them stand for ever. radioctld has two workers (main.rs:88), where this does not happen.
- `MCLeaseDropped` (`LeaseEndCloses`): on a runtime with several threads (`radioctld` builds two
  workers, main.rs:88) the abort at easy.rs:202 can complete before the test at
  easy.rs:203, so the drop takes the timer for one that has ended the lease and does nothing. The
  comment at easy.rs:199 says "the gate closes and the rig is unkeyed".
- `MCStationSlow` (`AllOffLeavesTruth`): a step of an all-off that takes longer than its 3 s
  (station.rs:681) is dropped between the write and the mark, so a line that did go off stays
  confirmed as on, with nothing else going on in the station. The HTTP relay waits 3 s for its
  board, Home Assistant 5 s.
- `MCManagerGivenUp` (`TriesAgain`): a radio that was Unreachable and answers again is not tried
  again behind `ActorLinks`, whose evidence of presence is always `None` (actor_link.rs:243);
  manager.rs:575 to 580 asks for it. actor_link.rs:17 says that after a failed connection "the
  manager's backoff tries again".
- `MCManagerHangs` (`PressBounded`): the deadline of a press is compared between its steps, and
  `power_off`, `power_on` and the spawn of an actor have no timeout, so a press may last for
  ever. manager.rs:665 says that it is "bounded by the boot time".
- `MCManagerRecord` (`RecordAgrees`): a step is taken under the lock and applied after it
  (manager.rs:611 and 619), so two tasks can apply in the other order and leave the
  record at a state the radio has left.

Recorded as hazards without a run of their own: a queue full of stop-Morse commands gives an
unkey nothing to ride on (rig.rs:619 says "the queue holds unkeys only"), and the gate is
checked before the wait for late replies and not again before the write, so one command
outlives the closing (which `OneStraggler` bounds). In the station, the key is looked at
before a command waits for its channel and its settle time and not again (`NoHotSwitch`
speaks of a key that was there and stays), two callers can switch a device and what it
depends on at once (`DependenciesHold` speaks of calls in turn), a power channel set off by
hand takes no dependents along (`byHand` leaves it out of that property, as station.rs:321
promises no more), and the comment at channel.rs:818 says that `force_off` "does not read
back" where it does.

## Proofs

### The rig actor

`RigActorProofs` proves, for any number of clients, any queue capacity, any number of
attempts and any bound:

- `TypeCorrect`: `Spec => []TypeOK`;
- `PendingExact`: `Spec => []PendingIsExact`, the counter beside the emergency queue is the
  number of queued emergencies plus the callers between counting and queueing;
- `OneStragglerHolds`: `Spec => []OneStraggler`, at most one transmit command is written
  after the gate was closed;
- `Invariance`: `Spec => []IInv`, on which the three rest;
- `AnsweredOnce`: `Spec => []NobodyForgotten`, a client that waits is in exactly one place
  from which an answer comes, one that does not is in none;
- `ImplementsService`: `Spec => ServiceKept`, the actor and its callers implement
  `RigService`;
- `EmergencyHeard`: `Spec => []EmergencyIsHeard` where the transmit state is not polled
  (`~PttPolled`). With polling it is false: see `MCRigLostWake`.

The only other assumption is `ConstantsAssumption`: finitely many clients, `NoClient` is none
of them, capacities and attempts are positive, the switches are Boolean.

The argument. None of these is inductive alone. `IInv` adds `CommandsAreReal` (a caller
that is counted holds a real operation, a control point that serves or holds a command has
one: otherwise a refusal could put a non-command in a queue) and `Straggling` (an open gate
has no straggler; a transmit command that is drained but not written was admitted at an open
gate and so finds `stragglers = 0`; a transmit command is never at `write`, which only
emergencies use). The counter needs the set of counted callers to be finite
(`CountedFinite`) and to change by one element per step (`CountedMore`, `CountedFewer`).

The steps of the actor are of four kinds, and each kind is one lemma: a command begins
(`BeginsStep`), ends (`EndsStep`), a fail-closed unkey ends (`UnkeyEndsStep`), or the actor
goes on with what it was doing (`GoesOnStep`). Each action of `Actor` is then a short lemma
that says which kind it is; `RadioStep` and `LinkStep` rest on `EnvironmentKeeps`, the
callers on `CallerKeeps`.

`NobodyForgotten` counts the places of a client, so its invariant `CInv` adds where the
served and the held command can be (`CommandInPlace`) and that nobody inside `submit` has
an answer (`AnswersPending`). A sum of five natural numbers that is at most one, and of
which one is one, leaves the others zero (`OnlyPlace`): that is why an answer reaches its
client once, also when it rides and is queued in the same breath. `EmergencyIsHeard` rests
on `CInv` and on `Heard`: while an ordinary command drains the line or awaits its reply, an
announced emergency has left its permit unspent. (A poll could have spent it, hence `~PttPolled`.)

The refinement adds to `CInv` what the mapping needs (`VInv`): each command carries what its
client asked for (`Requested`), an idle client has its answer and only emergencies are
counted (`Asked`), and the ordinary queue holds no emergency (`LinesApart`). That a rider may
be told a result, and a counted caller may be lined up or turned away, follows from
`NobodyForgotten`: whoever is in one place is in no other (`RidersAside`, `CountedAside`).
Each action then either leaves what callers see alone (`GoesOn`), ends the command in
service (`Ends`, which is `Finish`), or begins one (`BeginSeen`, which is `Turn` or
`BeginKept`); the lemmas named `...Seen` say which. No premise beyond
`ConstantsAssumption` is needed: it holds with polling, with riders, and for rigs of any kind.

`RigActorStreamProofs` is about replies. A reply carries no number; `claim_reply` takes it
for the oldest outstanding request it fits. What makes that safe is `Stream`: there is a
matching of what is in flight, replies first and requests behind them, with outstanding
requests, strictly increasing and kind by kind (`Matching`). A reply then claims a request
no later than its own (`FirstReply`, from `ClaimIsOldest`), so a claim that reaches an
attempt of the command in service (`Ours`: they are the latest) means that the reply and
everything behind it is an answer to this command. The matching also carries what the rig
did: an attempt of an unkey is acknowledged only if `Cleared` holds since
(`UnkeyTold`). One lemma says what each change of the stream does to a matching (`MatchWritten`,
`MatchCut`, `MatchAbsorbed`, `MatchReplied`, ...), one what each kind of step does to `Stream`,
and each action is one of these. Five theorems follow:

| Theorem | Property | For a rig that acknowledges sets, and |
|---|---|---|
| `AckedKeyWatched` | `AckedKeyIsWatched` | does not report on its own, or has nobody at its panel |
| `RestoredUnkeyed` | `RestoredMeansUnkeyed` | the same |
| `TimedOutUnkeyed` | `TimedOutKeyIsUnkeyed` | has nobody at its panel |
| `UnkeyOkQuiet` | `UnkeyOkMeansQuiet` | has nobody at its panel |
| `StoppedUnkeyed` | `StoppedMeansUnkeyed` | the same, and callers that send no Morse and no stop-Morse |

Polling, supervision, retries, lost and refused requests, lost ports and any number of
callers are all allowed. `RInv` is the invariant of the first three: `Streaming`, and
`Airing` (an `"off"` still unread is older than what put the rig on the air, so it disarms
no watchdog), `Generations` and `Restored`. `UInv` adds that every command carries what its
client asks for (`Requested`).

`SInv` is the invariant of the last. The actor that stops with the gate closed and the cache
not on unkeys nothing, so every key that was executed, or still may be, must be accounted for
at every step before. `Mindful` is that account: whatever may put the rig on the air is
reported, or about to be ended (`Handled`: the link is down, an unkey is queued, counted or
under way, or the watchdog is due), or it was acknowledged, the cache says `"on"` and no old
unkey is in flight that would end it unseen (`Minded`). The key in service is the exception
while its reply is awaited: what else is in flight is minded, or the key was executed and
nothing that answers it is a refusal (`KeyExecuted`). That takes the matching again: a key is
written once (`Once`), so the reply that decides it is the last thing in flight
(`KeyDecided`), and behind the reply that decides an unkey there are only attempts of it
(`UnkeyDecided`). An emergency that preempts a key is an unkey, which is why it may.

The premises are needed. A rig that reports on its own can have an `"off"` in flight when a
key is written: it is read after the acknowledgement and disarms the watchdog. It can also
report `"on"` and `"off"` where the matching expects the answer to a poll. An operator who
keys again after the unkey was executed makes "the rig is off the air" false without any
fault of the actor; a caller that rides joins after that moment. A rig that acknowledges no
set gives the actor nothing to conclude from: there an answered unkey was written, not
executed, and only `AckedKeyIsWatched` is still meant (`MCRigSilent` checks it). Without its
last premise `StoppedMeansUnkeyed` is false: Morse in progress is in neither the cache nor the
gate (`MCRigStop`), and a key abandoned for a stop-Morse (`MCRigCancelledKey`) is in neither
once its gate is closed.

### The links

`NetLinkProofs`, for any sizes and counts: `TypeCorrect`, `RequestsAddUp` (`WritesAccounted`:
the requests add up, and one is uncounted only once the caller has gone and the link is
closing) and `KeepsTheContract` (`Spec => Contract!Spec`, with `Contract == INSTANCE Link WITH
...`). The status says where the supervisor stands (`StatusFollows`), which is what the
refinement needs to see that no step but the proper one publishes.

`SerialLinkProofs`, for any queue sizes and any number of losses: `ControlNeverStale`
(`ControlIsCurrent`), because the lines are published and withdrawn by the thread that owns
the port (`ControlFollows`); `KeepsTheContract`, from the same invariant and the steps of
the supervisor alone, as no other task publishes; `TypeCorrect`; `NothingOvertaken`
(`NothingOvertakes`), where the two queues with what the tasks hold between them are one
ascending sequence; and `RequestsAddUp` (`WritesAccounted`), which counts the requests of
that sequence beside those written, dropped and lost in a failed write, and bounds the last
by the number of times the port was opened: a failed write ends the session. No queue size,
number of workers or number of losses is bounded in them.

### The lease and the splitter

`TransmitLeaseProofs`, for any set of leases and any number of threads: `TypeCorrect`,
`OpenGateIsOwed` (`GateHasLease`), `TransmissionIsOwed` (`AirHasUnkey`) and `EveryEndUnkeys`
(`EndedMeansUnkeyed`). All three exempt one thing, `leftOpen`: a drop found the timer finished
because its own abort had cancelled it, and left the gate open. It ends with the next closing
of the gate. With the types, `GateHasLease` and `AirHasUnkey`
are inductive one after the other: a lease that passes its obligation on does so to its
timer or to the queue of unkeys, in that order, because `end_lease` closes the gate before
it submits. `EndedMeansUnkeyed` follows from the two when nobody is left to owe anything.
Nothing is assumed of the runtime; `MCLeaseDropped` shows the exempted case.

`SplitterProofs` proves, for any number of programs, `TypeCorrect`, `OneTransmitterHolds`
(`Spec => []OneTransmitter`) and `RefusedHoldsNothing` (`Spec => []RefusedKeyHoldsNothing`),
from `SplitterAssumption`. The missing part of the invariant is `OwnerIsEarning`: what an
owner whose task is busy is doing. A request to transmit is unanswered, or was answered as
`last_claim` records; under another request the last one to transmit was done; a client on
its way out has given its claim up. `OwnerGoneHolds` (`Spec => []OwnerGoneIsQuiet`) follows
from `LeftQuiet`: the last request of an owner that left is its unkey.

### The station and the manager

`StationProofs`, for any station that `StationAssumption`, `ItemsAssumption`,
`OrderAssumption` and `BoardsAssumption` describe, any number of callers and any bounds:

- `AloneInside`: no two callers are inside the switching of one channel, because a caller
  inside one holds its lock (`Holds`);
- `NeverTwoAntennas` (`BreakBeforeMake`): one who is about to close a way has seen every
  other one open (`Selects`), so at most one is closed (`OneWay`); an all-off, which takes no
  lock, only opens lines, and none of them is a way;
- `TypeCorrect`, from that invariant and `WellTyped`: the line a caller switches is one of
  the board because its item is (`HeadItem`), and a task is idle exactly when its items are
  used up;
- `ConfirmedReal` (`ConfirmedIsReal`) and `SelectionHolds` (`UncutSelection`): what a channel's
  lines are while a caller is at each point of switching it, so that what it records is what
  they are, until a timeout drops a profile or a step of an all-off half way (`cuts`);
- `NothingHot` (`NoHotSwitch`): a caller past its guard saw the rig unkeyed since it came;
- `DependenciesKept` (`DependenciesHold`): in the midst of a call the devices still to be
  switched are exactly those whose turn has not come, in an order in which dependents go
  first (`OrderAssumption`, which an order without cycles gives), and the board the program
  starts with has no device on without what it depends on (`BoardsAssumption`).

`ItemsAssumption` says that the profile is a sequence of steps and that `OffOrder` and
`StopProfile` yield sequences of devices, the first never an empty one: they filter a
sequence by a predicate, whose typing the library states with an operator parameter, outside
what the provers can instantiate. `OrderAssumption` is what `Station` in the code gets from
`model.rs`, which refuses a dependency cycle. TLC evaluates the assumptions in both runs of
the module.

`RadioManagerProofs`, for any number of users: `TypeCorrect`, with the exclusion inside
`connect`, and `ReconcileMendsTheRecord` (`ReconcileCorrects`): until the monitor has
reconciled it is the only process that steps the machine, and it applies what it stepped.

### Model-checked only

- The five properties of `RigActorStreamProofs` for rigs outside their premises; of these
  `MCRigSilent` checks `AckedKeyIsWatched` for a rig that acknowledges no set.
- Every liveness property (`EveryCallAnswered`, `TransmissionEnds`, `KeyedIsNoticed`,
  `SilentLetGo`, `SupervisorMovesOn`, `BoundedTransmission`, `AllOffEnds`, those of the
  manager) and the fairness part of `LinkContract`: the provers do not reason about
  fairness and ENABLED.

## Plan

What would come next, in this order: `Splitter` and `TransmitLease` over `RigService`;
momentary power and pulses in `Station`; the poll timetable, the transmit-state rules and
the delay as functions against reference definitions.

## Not modelled

- Control-line keying sequences (`LineSequence`), event, scope and statistics
  streams, the typed getters and setters of `RigHandle`: they change nothing the
  properties speak of.
- A caller that drops its future while waiting: its reply channel closes and
  the actor ignores that.
- A command an engine cannot encode: it ends like a refused one, before anything is written.
- The wire formats of `radioctl-protocols`: about fifty pure encoders and
  decoders; the model sees an engine by the kind of reply it announces.
- Rig files, descriptions, units and USB transport
  (`radioctl-core/src/rigfile.rs`, `description.rs`, `usb_link.rs`, `power.rs`, `keyer.rs`): parsing and
  input/output. The framings of `net.rs` (Telnet, ICOM, Flex) are pure decoders; `NetLink`
  sees a handshake that is or is not complete.
- The poll timetable (`poll.rs`), the transmit-state rules (`txstate.rs`) and the delay
  (`backoff.rs`): pure; the models allow every outcome of theirs.
- In the station: momentary power and `pulse`, fault inputs, boards that only record what
  they were told, devices that are always on. In the manager: momentary power
  (`assume_powered`), more than one radio, health counters, saving as a step of its own (it
  follows the record at once), the radio's reported state; a snapshot's link and presence
  are read in one step after the switch.
- Rotators, power meters and the relay drivers (`rotator.rs`, `power_meter.rs`, `modbus.rs`,
  `http_relay.rs`, `homeassistant.rs`, `ws.rs`, `gpio_map.rs`): one device's wire format
  each; `Station` sees a line that obeys, fails or sticks.
- `radioctld`: its sessions share one `PttOwner` as the splitter's do, which `Splitter` models; the rest
  translates text commands.
- What the splitter's reads return and their cache, the rig changes it forwards, the connection
  slots of `serve_tcp` and the two personalities' parsers: they neither read nor write the
  owner. (A task blocked forwarding a change stalls as one blocked on a reply does.)
- `radioctl-capi`: a foreign-function layer without state of its own.
- The other daemons (`relay_broker`, `hams_local_relay`, `hpsdr`, `rsp_open`,
  `vnwa_open`, `bench_mcp`, `radiod_client`, `codec2_3200_capi`), the digital
  modes in `ham_digital_modes` (signal processing) and the vendored `cloudflared`.
- The Odoo modules at the top of the repository: a web site in Python, a
  separate system.
