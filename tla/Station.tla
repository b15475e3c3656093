------------------------------- MODULE Station -------------------------------
(***************************************************************************)
(* The station controller of radioctl-station: the switchboard             *)
(* (channel.rs) with its one operation at a time per channel, and over it  *)
(* the dependency graph, the interlock, the profiles and the emergency     *)
(* all-off (station.rs).                                                   *)
(*                                                                         *)
(* A device stands for its power channel.  There is one antenna selector   *)
(* and one operate channel, the amplifier's.  Every driver can be read     *)
(* back.  A task carries out one call at a time as a list of items, each   *)
(* the switching of one channel; between two of its steps it may wait.     *)
(***************************************************************************)
EXTENDS Integers, Sequences, FiniteSets, SequencesExt

CONSTANTS
    Devices, Radios,   \* Radios: those whose power is no shared supply
    DependsOn,         \* DeviceDef::depends_on
    OnOrder,           \* power_on_order
    NeedsAntenna,      \* devices that need the selector set
    Amp, Operate,      \* a device and its operate channel
    Selector, Ways,    \* the selector and its ways
    Profile,           \* ProfileDef::steps, as items
    Boards,            \* the lines that may be on when the program starts
    Tasks, None,
    Calls,             \* bound: calls made
    KeyMoves,          \* bound: changes of the keyed state
    Timeouts,          \* bound: profiles, and steps of an all-off, that run out of time
    Faults             \* bound: driver errors and stuck relays

Channels == Devices \union {Operate, Selector}

ASSUME StationAssumption ==
    /\ Radios \subseteq Devices /\ NeedsAntenna \subseteq Devices /\ Amp \in Devices
    /\ DependsOn \in [Devices -> SUBSET Devices]
    /\ OnOrder \in Seq(Devices) /\ ToSet(OnOrder) = Devices
    /\ Operate \notin Devices /\ Selector \notin Devices \union {Operate} /\ None \notin Tasks
    /\ Ways \intersect (Channels \union {"On", "Off", "unknown"}) = {}
    /\ Calls \in Nat /\ KeyMoves \in Nat /\ Timeouts \in Nat /\ Faults \in Nat

\* The program starts on a board whose selector joins no two antennas, and on
\* which no device is on without those it depends on.
ASSUME BoardsAssumption ==
    \A b \in Boards :
        /\ b \subseteq Devices \union {Operate} \union Ways
        /\ \A v, w \in b \intersect Ways : v = w
        /\ \A d \in Devices \intersect b : DependsOn[d] \subseteq b

VARIABLES
    on,                   \* the lines that are on: devices, Operate, ways
    commanded, confirmed, \* ChannelState, for each channel
    resting,              \* power channels inside their minimum off time
    lock,                 \* Chan::op: the task inside, or None
    key,                  \* what the keyed source says of the rig
    pc, todo, left, got,  \* a task: where it stands, its items, ways to open, a value read
    timed,                \* the task runs a profile, under its timeout
    result,               \* how its last call ended
    forced,               \* history: an emergency all-off was called
    calls, moves, faults, \* bounds used up
    cuts,                 \* the same: operations that a timeout dropped half way
    seen,                 \* history: the rig was unkeyed at some moment of the call
    overlap,              \* history: calls overlapped, or one overlapped an all-off
    byHand                \* history: a power channel was set off by hand

boardVars == <<on, commanded, confirmed, resting>>
taskVars  == <<pc, todo, left, got, timed, result>>
histVars  == <<calls, moves, cuts, seen, overlap, byHand>>

vars == <<boardVars, lock, key, taskVars, forced, faults, histVars>>

Unknown == "unknown"

Item(do, channel, want) == [do |-> do, channel |-> channel, want |-> want]

----------------------------------------------------------------------------
(* The calls, as items in the order they are carried out.                  *)

\* StationDef::dependents, in power-off order, and the device itself.
OffOrder(d) ==
    LET in[i \in 0..Len(OnOrder)] ==
            IF i = 0 THEN {d}
            ELSE LET x == OnOrder[i] IN
                 IF DependsOn[x] \intersect in[i - 1] # {} THEN in[i - 1] \union {x} ELSE in[i - 1]
    IN  SelectSeq(Reverse(OnOrder), LAMBDA x : x \in in[Len(OnOrder)])

Each(do, channels, want) == [i \in DOMAIN channels |-> Item(do, channels[i], want)]

\* Seeded fault: the devices go off in the order they went on.
ForwardOrder(d) == Each("off", Reverse(OffOrder(d)), "Off")

PowerOff(d) == Each("off", OffOrder(d), "Off")

AllOff == Each("force", <<Operate>> \o Reverse(OnOrder), "Off")

\* stop_profile: the devices it powers, in reverse order.
StopProfile ==
    LET powered == SelectSeq(Profile, LAMBDA i : i.do = "step")
    IN  Reverse([n \in DOMAIN powered |-> Item("stop", powered[n].channel, "Off")])

\* A power channel set off by hand, which takes no dependents along.
OffByHand == {<<Item("set", d, "Off")>> : d \in Devices}

\* A call with nothing to do has returned at once.
Requests ==
    ({PowerOff(d) : d \in Devices} \union {<<Item("on", d, "On")>> : d \in Devices}
        \union {<<Item("select", Selector, w)>> : w \in Ways}
        \union {<<Item("set", c, v)>> : c \in Devices \union {Operate}, v \in {"On", "Off"}}
        \union {<<Item("read", c, Unknown)>> : c \in Channels}
        \union {Profile, StopProfile, AllOff}) \ {<<>>}

Items == [do : {"on", "step", "stop", "select", "set", "off", "standby", "cut", "force", "read"},
          channel : Channels, want : {"On", "Off", Unknown} \union Ways]

PowerStep  == {i \in Items : i.do = "step" /\ i.channel \in Devices /\ i.want = "On"}
SelectStep == {i \in Items : i.do = "select" /\ i.channel = Selector /\ i.want \in Ways}
StopStep   == {i \in Items : i.do = "stop" /\ i.channel \in Devices /\ i.want = "Off"}

\* What a profile may list, and what the two orders make of it.
ASSUME ItemsAssumption ==
    /\ Profile \in Seq(PowerStep \union SelectStep) /\ StopProfile \in Seq(StopStep)
    /\ \A d \in Devices : OffOrder(d) \in Seq(Devices) \ {<<>>}

\* The definition of a station is refused when its dependencies form a cycle, so
\* each device comes on behind those it depends on; what goes off does so in the
\* opposite order, and takes along what depends on it.
DependentsFirst(s) ==
    \A n \in DOMAIN s : \A d \in Devices :
        s[n] \in DependsOn[d] => \E m \in 1..(n - 1) : s[m] = d

ASSUME OrderAssumption ==
    /\ DependentsFirst(Reverse(OnOrder))
    /\ \A d \in Devices : DependentsFirst(OffOrder(d))

InAllOff(items) == items # <<>> /\ Head(items).do = "force"

Call(t) ==
    /\ pc[t] = "idle" /\ calls < Calls
    /\ calls' = calls + 1
    /\ \E r \in Requests :
        /\ todo' = [todo EXCEPT ![t] = r]
        /\ timed' = [timed EXCEPT ![t] = r = Profile]
        /\ forced' = (forced \/ r = AllOff)
        /\ byHand' = (byHand \/ r \in OffByHand)
    /\ pc' = [pc EXCEPT ![t] = "next"]
    /\ result' = [result EXCEPT ![t] = "none"]
    /\ seen' = [seen EXCEPT ![t] = key = "unkeyed"]
    /\ overlap' = IF \A u \in Tasks \ {t} : pc[u] = "idle" THEN overlap
                  ELSE IF \E u \in Tasks : InAllOff(todo'[u]) THEN "allOff"
                  ELSE IF overlap = "none" THEN "calls" ELSE overlap
    /\ UNCHANGED <<boardVars, lock, key, left, got, moves, cuts, faults>>

Goto(t, where) == pc' = [pc EXCEPT ![t] = where]

\* The item is done: on to the next, or the call has succeeded.
Done(t) ==
    /\ todo' = [todo EXCEPT ![t] = Tail(@)]
    /\ IF Len(todo[t]) = 1
       THEN Goto(t, "idle") /\ result' = [result EXCEPT ![t] = "ok"]
       ELSE Goto(t, "next") /\ UNCHANGED result

\* The item failed: the call ends, unless it was the standby before a power-off
\* or a channel of the all-off.
Fail(t) ==
    IF Head(todo[t]).do \in {"standby", "force"} THEN Done(t)
    ELSE /\ todo' = [todo EXCEPT ![t] = <<>>]
         /\ Goto(t, "idle") /\ result' = [result EXCEPT ![t] = "error"]

Unlock(c) == lock' = [lock EXCEPT ![c] = None]

----------------------------------------------------------------------------
(* Before the switchboard: skips, interlock, dependencies.                 *)

At(t, where) == pc[t] = where /\ todo[t] # <<>>

\* power_off, standby, run_profile and stop_profile skip what is known to be done.
Skips(i) ==
    \/ i.do \in {"off", "standby", "stop"} /\ confirmed[i.channel] = "Off"
    \/ i.do = "step" /\ confirmed[i.channel] = "On"

\* Seeded fault: an amplifier's operate is taken for a power-off.
RfPathButOperate(i) == i.want # "Off" /\ i.channel \notin Radios \union {Operate}

\* classify_on, classify_channel: what could hot-switch an RF path.
RfPath(i) == i.want # "Off" /\ i.channel \notin Radios

Refused(i) == RfPath(i) /\ key # "unkeyed"

BoardUnchanged == UNCHANGED <<boardVars, lock, key, left, got, timed, forced, faults, histVars>>

Begin(t) ==
    /\ At(t, "next") /\ Head(todo[t]).do # "force"
    /\ LET i == Head(todo[t]) IN
       \/ Skips(i) /\ Done(t)
       \/ /\ ~Skips(i) /\ i.do = "off"
          /\ todo' = [todo EXCEPT ![t] =
                (IF i.channel = Amp THEN <<Item("standby", Operate, "Off")>> ELSE <<>>)
                    \o <<Item("cut", i.channel, "Off")>> \o Tail(@)]
          /\ UNCHANGED <<pc, result>>
       \/ /\ ~Skips(i) /\ i.do = "stop"
          /\ todo' = [todo EXCEPT ![t] = PowerOff(i.channel) \o Tail(@)]
          /\ UNCHANGED <<pc, result>>
       \/ /\ ~Skips(i) /\ i.do \in {"standby", "cut", "read"}
          /\ Goto(t, "wait") /\ UNCHANGED <<todo, result>>
       \/ /\ ~Skips(i) /\ i.do \in {"on", "step", "select", "set"}
          /\ \/ Refused(i) /\ Fail(t)
             \/ ~Refused(i) /\ Goto(t, "check") /\ UNCHANGED <<todo, result>>
    /\ BoardUnchanged

\* check_power_on, check_operate.
Allowed(i) ==
    i.want = "On" =>
        /\ i.channel \in Devices => \A d \in DependsOn[i.channel] : confirmed[d] = "On"
        /\ i.channel \in NeedsAntenna => confirmed[Selector] \in Ways
        /\ i.channel = Operate => confirmed[Amp] = "On"

Check(t) ==
    /\ At(t, "check")
    /\ \/ Allowed(Head(todo[t])) /\ Goto(t, "wait") /\ UNCHANGED <<todo, result>>
       \/ ~Allowed(Head(todo[t])) /\ Fail(t)
    /\ BoardUnchanged

----------------------------------------------------------------------------
(* Switchboard::set, and read_back, under the channel's lock.              *)

\* The off time is stamped on an edge from a known value to off (store).
Stamped(c, old, new) ==
    IF c \in Devices /\ new = "Off" /\ old \notin {"Off", Unknown}
    THEN resting \union {c} ELSE resting

Command(c, value) ==
    /\ commanded' = [commanded EXCEPT ![c] = value]
    /\ resting' = Stamped(c, commanded[c], value)

Confirm(c, value) ==
    /\ confirmed' = [confirmed EXCEPT ![c] = value]
    /\ resting' = Stamped(c, confirmed[c], value)

SetUnchanged == UNCHANGED <<key, timed, forced, histVars>>

\* Seeded fault: two operations may be inside the same channel.
NeverHeld(c) == TRUE

Free(c) == lock[c] = None

Enter(t) ==
    LET i == Head(todo[t]) c == i.channel IN
    /\ At(t, "wait") /\ Free(c)
    /\ \/ /\ i.want = "On" /\ c \in resting
          /\ Fail(t) /\ UNCHANGED <<lock, left, commanded, resting>>
       \/ /\ c = Selector /\ i.do = "select" /\ confirmed[c] = i.want
          /\ Done(t) /\ UNCHANGED <<lock, left, commanded, resting>>
       \/ /\ i.do = "read"
          /\ lock' = [lock EXCEPT ![c] = t] /\ Goto(t, "read")
          /\ UNCHANGED <<todo, result, left, commanded, resting>>
       \/ /\ i.do # "read"
          /\ ~(i.want = "On" /\ c \in resting)
          /\ ~(c = Selector /\ confirmed[c] = i.want)
          /\ lock' = [lock EXCEPT ![c] = t]
          /\ Command(c, i.want)
          /\ left' = [left EXCEPT ![t] = IF c = Selector THEN Ways \ {i.want} ELSE {}]
          /\ Goto(t, IF c = Selector THEN "break" ELSE "write")
          /\ UNCHANGED <<todo, result>>
    /\ UNCHANGED <<on, confirmed, got, faults>> /\ SetUnchanged

Switched(line, value) == IF value = "Off" THEN on \ {line} ELSE on \union {line}

\* Seeded fault: a driver error leaves the confirmed value as it was.
ErrorIsSilent(c) == UNCHANGED <<confirmed, resting>>

\* Switchboard::fault.
DriverError(c) == Confirm(c, Unknown)

\* One write of a line: done, acknowledged by a stuck relay, or an error after
\* which the line is either way.
Write(t, line, value, where) ==
    LET c == Head(todo[t]).channel IN
    \/ /\ on' = Switched(line, value) /\ Goto(t, where)
       /\ UNCHANGED <<confirmed, resting, faults, todo, result, lock>>
    \/ /\ faults < Faults /\ faults' = faults + 1
       /\ UNCHANGED on /\ Goto(t, where)
       /\ UNCHANGED <<confirmed, resting, todo, result, lock>>
    \/ /\ faults < Faults /\ faults' = faults + 1
       /\ on' \in {on, Switched(line, value)}
       /\ DriverError(c) /\ Unlock(c) /\ Fail(t)

WriteBinary(t) ==
    /\ At(t, "write")
    /\ LET i == Head(todo[t]) IN Write(t, i.channel, i.want, "read")
    /\ UNCHANGED <<commanded, left, got>> /\ SetUnchanged

\* Break: every other way is opened, one after the other.
Break(t) ==
    /\ At(t, "break")
    /\ \/ \E w \in left[t] :
            /\ left' = [left EXCEPT ![t] = @ \ {w}]
            /\ Write(t, w, "Off", "break")
       \/ /\ left[t] = {} /\ Goto(t, "look")
          /\ UNCHANGED <<on, confirmed, resting, faults, todo, result, lock, left>>
    /\ UNCHANGED <<commanded, got>> /\ SetUnchanged

Closed == on \intersect Ways

Real(c) ==
    IF c # Selector THEN (IF c \in on THEN "On" ELSE "Off")
    ELSE IF Closed = {} THEN "Off"
    ELSE IF Cardinality(Closed) = 1 THEN CHOOSE w \in Closed : TRUE
    ELSE Unknown

\* Seeded fault: a way that was told to open is taken to be open.
OpenAsTold(want) == TRUE

OthersOpen(want) == Closed \ {want} = {}

\* The other ways are read before anything is closed.
Look(t) ==
    /\ At(t, "look")
    /\ LET i == Head(todo[t]) IN
       \/ /\ OthersOpen(i.want) /\ Goto(t, "make")
          /\ UNCHANGED <<confirmed, resting, todo, result, lock, faults>>
       \/ /\ ~OthersOpen(i.want)
          /\ Confirm(Selector, Real(Selector)) /\ Unlock(Selector) /\ Fail(t)
          /\ UNCHANGED faults
       \/ /\ faults < Faults /\ faults' = faults + 1
          /\ DriverError(Selector) /\ Unlock(Selector) /\ Fail(t)
    /\ UNCHANGED <<on, commanded, left, got>> /\ SetUnchanged

\* Make: the settle time has passed.
Make(t) ==
    /\ At(t, "make")
    /\ Write(t, Head(todo[t]).want, "On", "read")
    /\ UNCHANGED <<commanded, left, got>> /\ SetUnchanged

\* verify and read_back: the value is read, then recorded.
Read(t) ==
    /\ At(t, "read")
    /\ LET c == Head(todo[t]).channel IN
       \/ /\ got' = [got EXCEPT ![t] = Real(c)] /\ Goto(t, "store")
          /\ UNCHANGED <<confirmed, resting, lock, todo, result, faults>>
       \/ /\ faults < Faults /\ faults' = faults + 1
          /\ DriverError(c) /\ Unlock(c) /\ Fail(t) /\ UNCHANGED got
    /\ UNCHANGED <<on, commanded, left>> /\ SetUnchanged

\* A device that was switched on may still fail to answer in time (wait_ready).
Record(t) ==
    /\ At(t, "store")
    /\ LET i == Head(todo[t]) IN
        /\ Confirm(i.channel, got[t]) /\ Unlock(i.channel)
        /\ \/ (i.do = "read" \/ got[t] = i.want) /\ Done(t)
           \/ i.do # "read" /\ got[t] # i.want /\ Fail(t)
           \/ i.do \in {"on", "step"} /\ got[t] = i.want /\ Fail(t)
    /\ got' = [got EXCEPT ![t] = Unknown]
    /\ UNCHANGED <<on, commanded, left, faults>> /\ SetUnchanged

----------------------------------------------------------------------------
(* The timeout of a profile; the emergency all-off; the surroundings.      *)

\* The timeout of run_profile drops the call wherever it waits, and its lock.
CutShort(t) ==
    /\ timed[t] /\ pc[t] # "idle" /\ cuts < Timeouts
    /\ cuts' = cuts + 1
    /\ lock' = [c \in Channels |-> IF lock[c] = t THEN None ELSE lock[c]]
    /\ Goto(t, "idle")
    /\ todo' = [todo EXCEPT ![t] = <<>>] /\ result' = [result EXCEPT ![t] = "error"]
    /\ left' = [left EXCEPT ![t] = {}] /\ got' = [got EXCEPT ![t] = Unknown]
    /\ UNCHANGED <<boardVars, key, timed, forced, calls, moves, faults, seen, overlap,
                   byHand>>

\* Seeded fault: the all-off waits for the operation in progress.
WhenFree(c) == lock[c] = None

AtOnce(c) == TRUE

\* force_off: no lock, no minimum time.  The driver answers or fails; or the
\* timeout of all_off drops the call, which then records nothing.
ForceWrite(t) ==
    LET c == Head(todo[t]).channel IN
    /\ At(t, "next") /\ Head(todo[t]).do = "force" /\ AtOnce(c)
    /\ \/ /\ on' = Switched(c, "Off")
          /\ commanded' = [commanded EXCEPT ![c] = "Off"]
          /\ confirmed' = [confirmed EXCEPT ![c] = Unknown]
          /\ resting' = Stamped(c, commanded[c], "Off")
          /\ Goto(t, "forceRead") /\ UNCHANGED <<todo, result, faults, cuts>>
       \/ /\ faults < Faults /\ faults' = faults + 1
          /\ on' \in {on, Switched(c, "Off")} /\ UNCHANGED <<commanded, cuts>>
          /\ DriverError(c) /\ Fail(t)
       \/ /\ cuts < Timeouts /\ cuts' = cuts + 1
          /\ on' \in {on, Switched(c, "Off")}
          /\ UNCHANGED <<commanded, confirmed, resting, faults>> /\ Fail(t)
    /\ UNCHANGED <<lock, key, left, got, timed, forced, calls, moves, seen, overlap, byHand>>

\* The value is read; it stays unknown when the read fails or runs out of time.
ForceRead(t) ==
    /\ At(t, "forceRead")
    /\ \/ /\ got' = [got EXCEPT ![t] = Real(Head(todo[t]).channel)]
          /\ Goto(t, "forceStore") /\ UNCHANGED <<todo, result, faults>>
       \/ /\ faults < Faults /\ faults' = faults + 1
          /\ Fail(t) /\ UNCHANGED got
    /\ UNCHANGED <<boardVars, lock, key, left, timed, forced, histVars>>

ForceRecord(t) ==
    /\ At(t, "forceStore")
    /\ Confirm(Head(todo[t]).channel, got[t])
    /\ Done(t)
    /\ got' = [got EXCEPT ![t] = Unknown]
    /\ UNCHANGED <<on, commanded, lock, key, left, timed, forced, faults, histVars>>

\* The minimum off time of a channel passes.
Rested ==
    /\ \E d \in resting : resting' = resting \ {d}
    /\ UNCHANGED <<on, commanded, confirmed, lock, key, taskVars, forced, faults, histVars>>

\* The rig is keyed or unkeyed, or its link comes and goes.
KeyMoved ==
    /\ moves < KeyMoves /\ moves' = moves + 1
    /\ key' \in {"unkeyed", "keyed", "unknown"} \ {key}
    /\ seen' = [t \in Tasks |-> seen[t] \/ (key' = "unkeyed" /\ pc[t] # "idle")]
    /\ UNCHANGED <<boardVars, lock, taskVars, forced, faults, calls, cuts, overlap, byHand>>

----------------------------------------------------------------------------

\* After the channels were read back at start-up.
Init ==
    /\ on \in Boards
    /\ commanded = [c \in Channels |-> Unknown]
    /\ confirmed = [c \in Channels |-> Real(c)]
    /\ resting = {} /\ lock = [c \in Channels |-> None] /\ key \in {"unkeyed", "keyed"}
    /\ pc = [t \in Tasks |-> "idle"] /\ todo = [t \in Tasks |-> <<>>]
    /\ left = [t \in Tasks |-> {}] /\ got = [t \in Tasks |-> Unknown]
    /\ timed = [t \in Tasks |-> FALSE] /\ result = [t \in Tasks |-> "none"]
    /\ forced = FALSE /\ calls = 0 /\ moves = 0 /\ cuts = 0 /\ faults = 0
    /\ seen = [t \in Tasks |-> FALSE] /\ overlap = "none" /\ byHand = FALSE

Set(t)      == Enter(t) \/ WriteBinary(t) \/ Break(t) \/ Look(t) \/ Make(t) \/ Read(t) \/ Record(t)
ForceOff(t) == ForceWrite(t) \/ ForceRead(t) \/ ForceRecord(t)

Next ==
    \/ \E t \in Tasks : Call(t) \/ Begin(t) \/ Check(t) \/ Set(t) \/ CutShort(t) \/ ForceOff(t)
    \/ Rested \/ KeyMoved

Spec == Init /\ [][Next]_vars

\* Only the all-off is sure to go on: its steps are bounded by a timeout each.
\* Any other operation may wait for its driver for ever, inside its lock.
FairSpec == Spec /\ \A t \in Tasks : WF_vars(ForceOff(t))

----------------------------------------------------------------------------
(* Properties.                                                             *)

Values == {"On", "Off", Unknown} \union Ways

\* Every variable has its type: the board, its locks, the calls in progress.
TypeOK ==
    /\ on \subseteq Devices \union {Operate} \union Ways
    /\ commanded \in [Channels -> Values] /\ confirmed \in [Channels -> Values]
    /\ resting \subseteq Devices /\ lock \in [Channels -> Tasks \union {None}]
    /\ key \in {"unkeyed", "keyed", "unknown"}
    /\ pc \in [Tasks -> {"idle", "next", "check", "wait", "write", "break", "look", "make",
                         "read", "store", "forceRead", "forceStore"}]
    /\ todo \in [Tasks -> Seq(Items)] /\ \A t \in Tasks : pc[t] = "idle" <=> todo[t] = <<>>
    /\ left \in [Tasks -> SUBSET Ways] /\ got \in [Tasks -> Values]
    /\ timed \in [Tasks -> BOOLEAN]
    /\ result \in [Tasks -> {"none", "ok", "error"}] /\ forced \in BOOLEAN
    /\ calls \in Nat /\ moves \in Nat /\ cuts \in Nat /\ faults \in Nat
    /\ seen \in [Tasks -> BOOLEAN] /\ overlap \in {"none", "calls", "allOff"}
    /\ byHand \in BOOLEAN

\* Two antennas are never joined, whatever relay sticks, write fails or profile
\* runs out of time half way (set: break before make).
BreakBeforeMake == Cardinality(Closed) <= 1

\* A confirmed value is the real one whenever no operation is inside the channel,
\* as long as no timeout dropped an operation half way (a profile, or the step of
\* an all-off) and no all-off crossed another call (verify, fault, read_back).
ConfirmedIsReal ==
    cuts = 0 /\ overlap # "allOff" =>
        \A c \in Channels : lock[c] = None => confirmed[c] \in {Unknown, Real(c)}

\* What an all-off leaves behind when nothing crosses it and no profile ran.  A
\* step that runs out of time leaves the confirmed value it found (station.rs:681,
\* no fault), so that this does not hold: MCStationSlow.cfg.
AllOffLeavesTruth ==
    forced /\ overlap = "none" /\ (\A t \in Tasks : ~timed[t]) =>
        \A c \in Channels : lock[c] = None => confirmed[c] \in {Unknown, Real(c)}

\* When calls come one after the other and none is dropped by a timeout, no device
\* is on without those it depends on, also when one of them fails half way
\* (power_off, check_power_on).
DependenciesHold ==
    overlap = "none" /\ cuts = 0 /\ ~byHand /\ (forced => faults = 0) =>
        \A d \in Devices \intersect on : DependsOn[d] \subseteq on

\* A command that comes while the rig is keyed, or not known to be unkeyed, and
\* stays so, switches no RF path: the selector, operate on, an amplifier on.
RfLines == Ways \union {Operate} \union (Devices \ Radios)

NoHotSwitch ==
    [][\A t \in Tasks : pc[t] \in {"write", "break", "make"} /\ pc'[t] # pc[t] /\ ~seen[t]
            => on' \intersect RfLines \subseteq on]_vars

\* A selection that was answered with success has its antenna, and no other.
SelectedIsClosed ==
    [][\A t \in Tasks : result'[t] = "ok" /\ result[t] # "ok" /\ todo[t] # <<>>
            /\ Last(todo[t]).do = "select" => Closed' = {Last(todo[t]).want}]_vars

\* The same, until a timeout dropped an operation half way.
UncutSelection ==
    [][\A t \in Tasks : cuts = 0 /\ result'[t] = "ok" /\ result[t] # "ok" /\ todo[t] # <<>>
            /\ Last(todo[t]).do = "select" => Closed' = {Last(todo[t]).want}]_vars

\* The emergency all-off ends, even when an operation hangs inside its channel.
AllOffEnds ==
    \A t \in Tasks : InAllOff(todo[t]) ~> ~InAllOff(todo[t])
=============================================================================
