--------------------------- MODULE StationProofs ---------------------------
(***************************************************************************)
(* However many antennas, devices, callers and faults there are, the       *)
(* selector never joins two antennas, what is recorded of a channel is     *)
(* real, no RF path is switched under power, and no device is on without   *)
(* those it depends on.                                                    *)
(*                                                                         *)
(* The arguments: what a task does inside a channel, it does alone,        *)
(* because it holds the lock (Inv).  In the selector it closes its way     *)
(* only after it saw every other one open, and from there to the closing   *)
(* nobody else closes one.  The all-off takes no lock, but it touches no   *)
(* way.  A line moves only under its channel's lock or in an all-off, and  *)
(* an all-off that crosses no call has the board for itself: what was read *)
(* is still real when it is recorded (KInv).  A task past the interlock    *)
(* has seen the rig unkeyed, or has nothing to do with an RF path          *)
(* (SawUnkeyed).  The items of a power-off are in an order in which what   *)
(* depends on a device goes before it, at every step of the call (Tidy).   *)
(***************************************************************************)
EXTENDS Station, FiniteSetTheorems, SequenceTheorems, TLAPS

----------------------------------------------------------------------------
(* The inductive invariant.                                                *)

\* The selector is only told to select a way, or read.
SelectorItem(i) ==
    i.channel = Selector => i.do = "read" \/ (i.do = "select" /\ i.want \in Ways)

\* What each kind of item is about.
Proper(i) ==
    /\ i.do \in {"off", "stop", "cut", "on", "step"} => i.channel \in Devices
    /\ i.do \in {"force", "set"} => i.channel \in Devices \union {Operate}
    /\ i.do = "standby" => i.channel = Operate
    /\ i.do \in {"off", "stop", "cut", "standby", "force"} => i.want = "Off"
    /\ i.do \in {"on", "step"} => i.want = "On"
    /\ i.do = "set" => i.want \in {"On", "Off"}
    /\ i.do = "select" => i.channel = Selector

GoodItems == {i \in Items : SelectorItem(i) /\ Proper(i)}

\* The items of an emergency all-off, and those of every other call.
Forced == {i \in GoodItems : i.do = "force"}
Plain  == {i \in GoodItems : i.do # "force"}

Types ==
    /\ lock \in [Channels -> Tasks \union {None}]
    /\ pc \in [Tasks -> {"idle", "next", "check", "wait", "write", "break", "look", "make",
                         "read", "store", "forceRead", "forceStore"}]
    /\ todo \in [Tasks -> Seq(GoodItems)]

Inside == {"write", "break", "look", "make", "read", "store"}

\* A task inside a channel holds its lock.
Holds(t) ==
    pc[t] \in Inside => todo[t] # <<>> /\ lock[Head(todo[t]).channel] = t

\* Where a task that switches the selector stands, and what it has seen.
Selects(t) ==
    /\ pc[t] \in {"break", "look", "make"} =>
            Head(todo[t]).channel = Selector /\ Head(todo[t]).want \in Ways
    /\ pc[t] = "write" => Head(todo[t]).channel # Selector
    /\ pc[t] = "make" => Closed \subseteq {Head(todo[t]).want}

OneWay == \E w : Closed \subseteq {w}

Inv == Types /\ OneWay /\ \A t \in Tasks : Holds(t) /\ Selects(t)

----------------------------------------------------------------------------
(* What a step of one task leaves to the others.                           *)

Frame(t) ==
    /\ \A u \in Tasks \ {t} : pc'[u] = pc[u] /\ todo'[u] = todo[u]
    /\ \A c \in Channels : lock[c] \in Tasks \ {t} => lock'[c] = lock[c]
    /\ Closed' \subseteq Closed \/ lock[Selector] = t

LEMMA FrameKeeps ==
    ASSUME Inv, NEW t \in Tasks, Types', OneWay', Frame(t), Holds(t)', Selects(t)'
    PROVE  Inv'
<1> SUFFICES ASSUME NEW u \in Tasks \ {t} PROVE Holds(u)' /\ Selects(u)'
  BY DEF Inv
<1>1. pc'[u] = pc[u] /\ todo'[u] = todo[u] /\ Holds(u) /\ Selects(u)
  BY DEF Inv, Frame
<1>2. Holds(u)'
  <2> SUFFICES ASSUME pc[u] \in Inside
               PROVE  lock'[Head(todo[u]).channel] = u /\ todo[u] # <<>>
    BY <1>1 DEF Holds
  <2>1. todo[u] # <<>> /\ lock[Head(todo[u]).channel] = u
    BY <1>1 DEF Holds
  <2>2. Head(todo[u]).channel \in Channels
    <3>1. Head(todo[u]) \in GoodItems
      BY <2>1 DEF Inv, Types
    <3>. QED
      BY <3>1 DEF GoodItems, Items
  <2>. QED
    BY <2>1, <2>2 DEF Frame
<1>3. Selects(u)'
  <2>1. pc[u] = "make" => lock[Selector] = u
    BY <1>1 DEF Holds, Selects, Inside
  <2>2. pc[u] = "make" => Closed' \subseteq Closed
    BY <2>1 DEF Frame
  <2>. QED
    BY <1>1, <2>2 DEF Selects
<1>. QED
  BY <1>2, <1>3

\* A step that only takes locks of nobody or gives up its own, moves one task
\* that is then outside every channel, and closes no way.
LEMMA OutsideKeeps ==
    ASSUME Inv, NEW t \in Tasks, Types', Frame(t), pc'[t] \notin Inside, Closed' \subseteq Closed
    PROVE  Inv'
<1>1. Holds(t)' /\ Selects(t)'
  BY DEF Holds, Selects, Inside
<1>2. OneWay'
  BY DEF Inv, OneWay
<1>. QED
  BY <1>1, <1>2, FrameKeeps

----------------------------------------------------------------------------
(* The items of a task.                                                    *)

LEMMA TailItems ==
    ASSUME Inv, NEW t \in Tasks, todo[t] # <<>>
    PROVE  /\ Tail(todo[t]) \in Seq(GoodItems)
           /\ Head(todo[t]) \in GoodItems /\ Head(todo[t]) \in Items
BY DEF Inv, Types, GoodItems

LEMMA DoneMoves ==
    ASSUME Inv, NEW t \in Tasks, todo[t] # <<>>, Done(t) \/ Fail(t)
    PROVE  /\ pc' \in [Tasks -> {"idle", "next", "check", "wait", "write", "break", "look", "make",
                                 "read", "store", "forceRead", "forceStore"}]
           /\ todo' \in [Tasks -> Seq(GoodItems)]
           /\ pc'[t] \notin Inside
           /\ \A u \in Tasks \ {t} : pc'[u] = pc[u] /\ todo'[u] = todo[u]
<1>1. Tail(todo[t]) \in Seq(GoodItems) /\ << >> \in Seq(GoodItems)
  BY TailItems
<1>2. CASE Done(t)
  BY <1>1, <1>2 DEF Inv, Types, Done, Goto, Inside
<1>3. CASE Fail(t) /\ ~Done(t)
  BY <1>1, <1>3 DEF Inv, Types, Fail, Goto, Inside
<1>. QED
  BY <1>2, <1>3

LEMMA UnlockKeeps ==
    ASSUME Inv, NEW t \in Tasks, NEW c \in Channels, lock[c] = t, Unlock(c)
    PROVE  /\ lock' \in [Channels -> Tasks \union {None}]
           /\ \A d \in Channels : lock[d] \in Tasks \ {t} => lock'[d] = lock[d]
BY DEF Inv, Types, Unlock

----------------------------------------------------------------------------
(* The steps.                                                              *)

\* What each kind of call is made of.
LEMMA GoodOnes ==
    /\ \A d \in Devices : /\ Item("off", d, "Off") \in Plain /\ Item("cut", d, "Off") \in Plain
                          /\ Item("on", d, "On") \in Plain
    /\ \A c \in Devices \union {Operate} :
            /\ Item("force", c, "Off") \in Forced
            /\ \A v \in {"On", "Off"} : Item("set", c, v) \in Plain
    /\ Item("standby", Operate, "Off") \in Plain
    /\ \A w \in Ways : Item("select", Selector, w) \in Plain
    /\ \A c \in Channels : Item("read", c, Unknown) \in Plain
<1> USE StationAssumption DEF StationAssumption
<1>1. Devices \union {Operate} \subseteq Channels /\ Selector \in Channels
  BY DEF Channels
<1>2. ASSUME NEW do \in {"on", "step", "stop", "select", "set", "off", "standby", "cut", "force", "read"},
             NEW c \in Channels, NEW v \in {"On", "Off", Unknown} \union Ways
      PROVE  /\ Item(do, c, v) \in Items
             /\ Item(do, c, v).do = do /\ Item(do, c, v).channel = c /\ Item(do, c, v).want = v
  BY DEF Item, Items
<1>3. \A d \in Devices : /\ Item("off", d, "Off") \in Plain /\ Item("cut", d, "Off") \in Plain
                         /\ Item("on", d, "On") \in Plain
  BY <1>1, <1>2 DEF Plain, GoodItems, SelectorItem, Proper
<1>4. \A c \in Devices \union {Operate} :
            /\ Item("force", c, "Off") \in Forced
            /\ \A v \in {"On", "Off"} : Item("set", c, v) \in Plain
  BY <1>1, <1>2 DEF Plain, Forced, GoodItems, SelectorItem, Proper
<1>5. Item("standby", Operate, "Off") \in Plain
  BY <1>1, <1>2 DEF Plain, GoodItems, SelectorItem, Proper
<1>6. \A w \in Ways : Item("select", Selector, w) \in Plain
  <2> SUFFICES ASSUME NEW w \in Ways PROVE Item("select", Selector, w) \in Plain
    OBVIOUS
  <2> DEFINE i == Item("select", Selector, w)
  <2>1. i \in Items /\ i.do = "select" /\ i.channel = Selector /\ i.want = w
    BY <1>1 DEF Item, Items
  <2>. HIDE DEF i
  <2>2. SelectorItem(i) /\ Proper(i)
    BY <2>1 DEF SelectorItem, Proper
  <2>3. i \in Plain
    BY <2>1, <2>2 DEF Plain, GoodItems
  <2>. QED
    BY <2>3 DEF i
<1>7. \A c \in Channels : Item("read", c, Unknown) \in Plain
  <2> SUFFICES ASSUME NEW c \in Channels PROVE Item("read", c, Unknown) \in Plain
    OBVIOUS
  <2> DEFINE i == Item("read", c, Unknown)
  <2>1. i \in Items /\ i.do = "read"
    BY DEF Item, Items
  <2>. HIDE DEF i
  <2>2. SelectorItem(i) /\ Proper(i)
    BY <2>1 DEF SelectorItem, Proper
  <2>3. i \in Plain
    BY <2>1, <2>2 DEF Plain, GoodItems
  <2>. QED
    BY <2>3 DEF i
<1>. QED
  BY <1>3, <1>4, <1>5, <1>6, <1>7

LEMMA PowerOffItems ==
    ASSUME NEW d \in Devices
    PROVE  PowerOff(d) \in Seq(Plain) /\ PowerOff(d) # <<>> /\ PowerOff(d) \in Seq(GoodItems)
<1> DEFINE s == OffOrder(d)
<1>1. s \in Seq(Devices) /\ s # <<>>
  BY ItemsAssumption DEF ItemsAssumption
<1> HIDE DEF s
<1>2. \A n \in DOMAIN s : Item("off", s[n], "Off") \in Plain
  BY <1>1, GoodOnes
<1>3. Each("off", s, "Off") \in Seq(Plain)
  BY <1>1, <1>2 DEF Each
<1>4. 1 \in DOMAIN Each("off", s, "Off")
  BY <1>1 DEF Each
<1>5. Plain \subseteq GoodItems
  BY DEF Plain
<1>. QED
  BY <1>3, <1>4, <1>5 DEF PowerOff, s

LEMMA AllOffItems == AllOff \in Seq(Forced) /\ AllOff # <<>>
<1> DEFINE s == <<Operate>> \o Reverse(OnOrder)
<1>1. Reverse(OnOrder) \in Seq(Devices)
  BY StationAssumption DEF StationAssumption, Reverse
<1>2. s \in Seq(Devices \union {Operate}) /\ s # <<>>
  BY <1>1
<1>. HIDE DEF s
<1>3. \A n \in DOMAIN s : Item("force", s[n], "Off") \in Forced
  BY <1>2, GoodOnes
<1>4. Each("force", s, "Off") \in Seq(Forced)
  BY <1>2, <1>3 DEF Each
<1>5. 1 \in DOMAIN Each("force", s, "Off")
  BY <1>2 DEF Each
<1>. QED
  BY <1>4, <1>5 DEF AllOff, s

LEMMA RequestKinds ==
    ASSUME NEW r \in Requests
    PROVE  r # <<>> /\ (r \in Seq(Plain) \/ (r \in Seq(Forced) /\ r = AllOff))
<1> USE GoodOnes
<1>1. \A d \in Devices : PowerOff(d) \in Seq(Plain) /\ <<Item("on", d, "On")>> \in Seq(Plain)
  BY PowerOffItems
<1>2. \A w \in Ways : <<Item("select", Selector, w)>> \in Seq(Plain)
  OBVIOUS
<1>3. \A c \in Devices \union {Operate}, v \in {"On", "Off"} : <<Item("set", c, v)>> \in Seq(Plain)
  OBVIOUS
<1>4. \A c \in Channels : <<Item("read", c, Unknown)>> \in Seq(Plain)
  OBVIOUS
<1>5. Profile \in Seq(Plain) /\ StopProfile \in Seq(Plain)
  <2>1. PowerStep \union SelectStep \subseteq Plain /\ StopStep \subseteq Plain
    BY StationAssumption DEF StationAssumption, PowerStep, SelectStep, StopStep, Plain, GoodItems,
                             SelectorItem, Proper, Channels
  <2>2. Profile \in Seq(PowerStep \union SelectStep) /\ StopProfile \in Seq(StopStep)
    BY ItemsAssumption DEF ItemsAssumption
  <2>. QED
    BY <2>1, <2>2
<1>6. AllOff \in Seq(Forced)
  BY AllOffItems
<1>7. \/ \E d \in Devices : r = PowerOff(d)
      \/ \E d \in Devices : r = <<Item("on", d, "On")>>
      \/ \E w \in Ways : r = <<Item("select", Selector, w)>>
      \/ \E c \in Devices \union {Operate}, v \in {"On", "Off"} : r = <<Item("set", c, v)>>
      \/ r \in {Profile, StopProfile, AllOff}
      \/ \E c \in Channels : r = <<Item("read", c, Unknown)>>
  BY DEF Requests
<1>8. r # <<>>
  BY DEF Requests
<1>. QED
  BY <1>1, <1>2, <1>3, <1>4, <1>5, <1>6, <1>7, <1>8

LEMMA RequestItems == Requests \subseteq Seq(GoodItems)
<1>1. Plain \subseteq GoodItems /\ Forced \subseteq GoodItems
  BY DEF Plain, Forced
<1>. QED
  BY <1>1, RequestKinds

LEMMA CallStep ==
    ASSUME Inv, NEW t \in Tasks, Call(t)
    PROVE  Inv'
<1>1. PICK r \in Requests : todo' = [todo EXCEPT ![t] = r]
  BY DEF Call
<1>2. r \in Seq(GoodItems)
  BY <1>1, RequestItems
<1>3. Types' /\ pc'[t] \notin Inside
  BY <1>1, <1>2 DEF Call, Inv, Types, Inside, boardVars
<1>4. Frame(t) /\ Closed' \subseteq Closed
  BY <1>1 DEF Call, Inv, Types, Frame, Closed, boardVars
<1>. QED
  BY <1>3, <1>4, OutsideKeeps

\* The items that take the place of a stop_profile's.
LEMMA StopItems ==
    ASSUME Inv, NEW t \in Tasks, todo[t] # <<>>, Head(todo[t]).do = "stop"
    PROVE  /\ Tail(todo[t]) \in Seq(GoodItems) /\ PowerOff(Head(todo[t]).channel) \in Seq(GoodItems)
           /\ PowerOff(Head(todo[t]).channel) # <<>>
<1>1. Head(todo[t]).channel \in Devices
  BY TailItems DEF GoodItems, Proper
<1>. QED
  BY <1>1, TailItems, PowerOffItems

LEMMA BeginStep ==
    ASSUME Inv, NEW t \in Tasks, Begin(t)
    PROVE  Inv'
<1>0. lock' = lock /\ Closed' = Closed /\ pc[t] = "next" /\ todo[t] # <<>>
  BY DEF Begin, At, BoardUnchanged, boardVars, Closed
<1> DEFINE i == Head(todo[t])
<1>1. CASE Done(t) \/ Fail(t)
  <2>1. Types' /\ pc'[t] \notin Inside /\ Frame(t)
    BY <1>0, <1>1, DoneMoves DEF Inv, Types, Frame
  <2>. QED
    BY <1>0, <2>1, OutsideKeeps
<1>2. CASE /\ i.do = "off" /\ UNCHANGED <<pc, result>>
           /\ todo' = [todo EXCEPT ![t] =
                (IF i.channel = Amp THEN <<Item("standby", Operate, "Off")>> ELSE <<>>)
                    \o <<Item("cut", i.channel, "Off")>> \o Tail(@)]
  <2>1. i \in GoodItems /\ Tail(todo[t]) \in Seq(GoodItems)
    BY <1>0, TailItems
  <2>2. Item("standby", Operate, "Off") \in GoodItems /\ Item("cut", i.channel, "Off") \in GoodItems
    BY <1>2, <2>1, GoodOnes DEF GoodItems, Proper, Plain
  <2> DEFINE first == IF i.channel = Amp THEN <<Item("standby", Operate, "Off")>> ELSE <<>>
             r == first \o <<Item("cut", i.channel, "Off")>> \o Tail(todo[t])
  <2>3. first \in Seq(GoodItems) /\ <<Item("cut", i.channel, "Off")>> \in Seq(GoodItems)
    BY <2>2
  <2>4. r \in Seq(GoodItems)
    <3> HIDE DEF first
    <3>. QED
      BY <2>1, <2>3
  <2>5. todo' = [todo EXCEPT ![t] = r]
    BY <1>2
  <2> HIDE DEF r
  <2>6. Types' /\ pc'[t] \notin Inside /\ Frame(t)
    BY <1>0, <1>2, <2>4, <2>5 DEF Inv, Types, Frame, Inside
  <2>. QED
    BY <1>0, <2>6, OutsideKeeps
<1>3. CASE /\ i.do = "stop" /\ UNCHANGED <<pc, result>>
           /\ todo' = [todo EXCEPT ![t] = PowerOff(i.channel) \o Tail(@)]
  <2>1. Tail(todo[t]) \in Seq(GoodItems) /\ PowerOff(i.channel) \in Seq(GoodItems)
    BY <1>0, <1>3, StopItems
  <2> DEFINE r == PowerOff(i.channel) \o Tail(todo[t])
  <2>2. r \in Seq(GoodItems) /\ todo' = [todo EXCEPT ![t] = r]
    BY <1>3, <2>1
  <2> HIDE DEF r
  <2>3. Types' /\ pc'[t] \notin Inside /\ Frame(t)
    BY <1>0, <1>3, <2>2 DEF Inv, Types, Frame, Inside
  <2>. QED
    BY <1>0, <2>3, OutsideKeeps
<1>4. CASE (Goto(t, "wait") \/ Goto(t, "check")) /\ UNCHANGED <<todo, result>>
  <2>1. Types' /\ pc'[t] \notin Inside /\ Frame(t)
    BY <1>0, <1>4 DEF Inv, Types, Frame, Goto, Inside
  <2>. QED
    BY <1>0, <2>1, OutsideKeeps
<1>. QED
  BY <1>1, <1>2, <1>3, <1>4 DEF Begin

LEMMA CheckStep ==
    ASSUME Inv, NEW t \in Tasks, Check(t)
    PROVE  Inv'
<1>0. lock' = lock /\ Closed' = Closed /\ todo[t] # <<>>
  BY DEF Check, At, BoardUnchanged, boardVars, Closed
<1>1. CASE Goto(t, "wait") /\ UNCHANGED <<todo, result>>
  <2>1. Types' /\ pc'[t] \notin Inside /\ Frame(t)
    BY <1>0, <1>1 DEF Inv, Types, Frame, Goto, Inside
  <2>. QED
    BY <1>0, <2>1, OutsideKeeps
<1>2. CASE Fail(t)
  <2>1. Types' /\ pc'[t] \notin Inside /\ Frame(t)
    BY <1>0, <1>2, DoneMoves DEF Inv, Types, Frame
  <2>. QED
    BY <1>0, <2>1, OutsideKeeps
<1>. QED
  BY <1>1, <1>2 DEF Check

\* Into a channel that is free: with its lock, and on the way that its item says.
LEMMA EnterStep ==
    ASSUME Inv, NEW t \in Tasks, Enter(t)
    PROVE  Inv'
<1> DEFINE i == Head(todo[t])
           c == i.channel
<1>0. /\ todo[t] # <<>> /\ lock[c] = None /\ Closed' = Closed
      /\ i \in GoodItems /\ c \in Channels /\ SelectorItem(i)
  <2>1. todo[t] # <<>> /\ lock[c] = None /\ Closed' = Closed
    BY DEF Enter, At, Free, Closed
  <2>2. i \in GoodItems
    BY <2>1, TailItems
  <2>. QED
    BY <2>1, <2>2 DEF GoodItems, Items
<1>1. CASE (Fail(t) \/ Done(t)) /\ UNCHANGED lock
  <2>1. Types' /\ pc'[t] \notin Inside /\ Frame(t)
    BY <1>0, <1>1, DoneMoves DEF Inv, Types, Frame
  <2>. QED
    BY <1>0, <2>1, OutsideKeeps
<1>2. CASE /\ lock' = [lock EXCEPT ![c] = t] /\ UNCHANGED <<todo, result>>
           /\ \/ Goto(t, "read")
              \/ i.do # "read" /\ Goto(t, IF c = Selector THEN "break" ELSE "write")
  <2>1. Types'
    BY <1>0, <1>2 DEF Inv, Types, Goto
  <2>2. Frame(t)
    BY <1>0, <1>2, StationAssumption DEF StationAssumption, Inv, Types, Frame, Goto
  <2>3. Holds(t)' /\ Selects(t)'
    BY <1>0, <1>2 DEF Inv, Types, Holds, Selects, SelectorItem, Goto
  <2>4. OneWay'
    BY <1>0 DEF Inv, OneWay
  <2>. QED
    BY <2>1, <2>2, <2>3, <2>4, FrameKeeps
<1>. QED
  <2>. HIDE DEF i, c
  <2>. QED
    BY <1>1, <1>2 DEF Enter, i, c

\* Out of a channel whose lock the task holds.
LEMMA LeaveKeeps ==
    ASSUME Inv, NEW t \in Tasks, pc[t] \in Inside,
           Unlock(Head(todo[t]).channel), Done(t) \/ Fail(t),
           Closed' \subseteq Closed \/ (lock[Selector] = t /\ OneWay')
    PROVE  Inv'
<1>1. todo[t] # <<>> /\ lock[Head(todo[t]).channel] = t
  BY DEF Inv, Holds
<1>2. Head(todo[t]).channel \in Channels
  <2>1. Head(todo[t]) \in Items
    BY <1>1, TailItems
  <2>. QED
    BY <2>1 DEF Items
<1>3. Types' /\ Frame(t) /\ pc'[t] \notin Inside
  BY <1>1, <1>2, DoneMoves, UnlockKeeps DEF Types, Frame
<1>4. Holds(t)' /\ Selects(t)'
  BY <1>3 DEF Holds, Selects, Inside
<1>5. OneWay'
  BY DEF Inv, OneWay
<1>. QED
  BY <1>3, <1>4, <1>5, FrameKeeps

\* On inside a channel, from one place to another.
LEMMA StayKeeps ==
    ASSUME Inv, NEW t \in Tasks, pc[t] \in Inside, NEW where \in Inside, Goto(t, where),
           UNCHANGED <<todo, lock>>, Selects(t)',
           Closed' \subseteq Closed \/ (lock[Selector] = t /\ OneWay')
    PROVE  Inv'
<1>1. Types' /\ Frame(t) /\ Holds(t)'
  BY DEF Inv, Types, Frame, Holds, Goto, Inside
<1>2. OneWay'
  BY DEF Inv, OneWay
<1>. QED
  BY <1>1, <1>2, FrameKeeps

LEMMA WriteBinaryStep ==
    ASSUME Inv, NEW t \in Tasks, WriteBinary(t)
    PROVE  Inv'
<1> DEFINE i == Head(todo[t])
<1>1. /\ todo[t] # <<>> /\ pc[t] = "write" /\ pc[t] \in Inside /\ i.channel # Selector
      /\ i.channel \in Channels
  <2>1. todo[t] # <<>> /\ pc[t] = "write" /\ i.channel # Selector
    BY DEF WriteBinary, At, Inv, Selects
  <2>2. i \in Items
    BY <2>1, TailItems
  <2>. QED
    BY <2>1, <2>2 DEF Items, Inside
<1>2. i.channel \notin Ways
  BY <1>1, StationAssumption DEF StationAssumption
<1>3. on' \in {on, Switched(i.channel, i.want)}
  BY DEF WriteBinary, Write
<1>4. Closed' \subseteq Closed
  BY <1>2, <1>3 DEF Closed, Switched
<1>5. \/ Goto(t, "read") /\ UNCHANGED <<todo, lock>>
      \/ Unlock(i.channel) /\ Fail(t)
  BY DEF WriteBinary, Write
<1>6. CASE Goto(t, "read") /\ UNCHANGED <<todo, lock>>
  <2>1. Selects(t)'
    BY <1>6 DEF Inv, Types, Selects, Goto
  <2>. QED
    BY <1>1, <1>4, <1>6, <2>1, StayKeeps DEF Inside
<1>7. CASE Unlock(i.channel) /\ Fail(t)
  BY <1>1, <1>4, <1>7, LeaveKeeps
<1>. QED
  BY <1>5, <1>6, <1>7

LEMMA BreakStep ==
    ASSUME Inv, NEW t \in Tasks, Break(t)
    PROVE  Inv'
<1> DEFINE i == Head(todo[t])
<1>1. /\ todo[t] # <<>> /\ pc[t] = "break" /\ pc[t] \in Inside
      /\ i.channel = Selector /\ i.want \in Ways
  BY DEF Break, At, Inv, Selects, Inside
<1>2. Closed' \subseteq Closed
  BY DEF Break, Write, Closed, Switched
<1>3. \/ (Goto(t, "break") \/ Goto(t, "look")) /\ UNCHANGED <<todo, lock>>
      \/ Unlock(i.channel) /\ Fail(t)
  BY DEF Break, Write
<1>4. CASE (Goto(t, "break") \/ Goto(t, "look")) /\ UNCHANGED <<todo, lock>>
  <2>1. Selects(t)'
    BY <1>1, <1>4 DEF Inv, Types, Selects, Goto
  <2>. QED
    BY <1>1, <1>2, <1>4, <2>1, StayKeeps DEF Inside
<1>5. CASE Unlock(i.channel) /\ Fail(t)
  BY <1>1, <1>2, <1>5, LeaveKeeps
<1>. QED
  BY <1>3, <1>4, <1>5

LEMMA LookStep ==
    ASSUME Inv, NEW t \in Tasks, Look(t)
    PROVE  Inv'
<1> DEFINE i == Head(todo[t])
<1>1. /\ todo[t] # <<>> /\ pc[t] = "look" /\ pc[t] \in Inside
      /\ i.channel = Selector /\ i.want \in Ways /\ Closed' = Closed
  BY DEF Look, At, Inv, Selects, Inside, Closed
<1>2. CASE OthersOpen(i.want) /\ Goto(t, "make") /\ UNCHANGED <<todo, lock>>
  <2>1. Selects(t)'
    BY <1>1, <1>2 DEF Inv, Types, Selects, Goto, OthersOpen
  <2>. QED
    BY <1>1, <1>2, <2>1, StayKeeps DEF Inside
<1>3. CASE Unlock(Selector) /\ Fail(t)
  BY <1>1, <1>3, LeaveKeeps
<1>. QED
  BY <1>2, <1>3 DEF Look

\* The only step that closes a way: it holds the selector, and saw the others open.
LEMMA MakeStep ==
    ASSUME Inv, NEW t \in Tasks, Make(t)
    PROVE  Inv'
<1> DEFINE i == Head(todo[t])
<1>1. /\ todo[t] # <<>> /\ pc[t] = "make" /\ pc[t] \in Inside
      /\ i.channel = Selector /\ i.want \in Ways /\ Closed \subseteq {i.want}
      /\ lock[Selector] = t
  BY DEF Make, At, Inv, Selects, Holds, Inside
<1>2. OneWay'
  <2>1. on' \in {on, on \union {i.want}}
    BY DEF Make, Write, Switched
  <2>2. Closed' \subseteq {i.want}
    BY <1>1, <2>1 DEF Closed
  <2>. QED
    BY <2>2 DEF OneWay
<1>3. \/ Goto(t, "read") /\ UNCHANGED <<todo, lock>>
      \/ Unlock(i.channel) /\ Fail(t)
  BY DEF Make, Write
<1>4. CASE Goto(t, "read") /\ UNCHANGED <<todo, lock>>
  <2>1. Selects(t)'
    BY <1>4 DEF Inv, Types, Selects, Goto
  <2>. QED
    BY <1>1, <1>2, <1>4, <2>1, StayKeeps DEF Inside
<1>5. CASE Unlock(i.channel) /\ Fail(t)
  BY <1>1, <1>2, <1>5, LeaveKeeps
<1>. QED
  BY <1>3, <1>4, <1>5

LEMMA ReadStep ==
    ASSUME Inv, NEW t \in Tasks, Read(t)
    PROVE  Inv'
<1> DEFINE i == Head(todo[t])
<1>1. todo[t] # <<>> /\ pc[t] = "read" /\ pc[t] \in Inside /\ Closed' = Closed
  BY DEF Read, At, Inside, Closed
<1>2. CASE Goto(t, "store") /\ UNCHANGED <<todo, lock>>
  <2>1. Selects(t)'
    BY <1>1, <1>2 DEF Inv, Types, Selects, Goto
  <2>. QED
    BY <1>1, <1>2, <2>1, StayKeeps DEF Inside
<1>3. CASE Unlock(i.channel) /\ Fail(t)
  BY <1>1, <1>3, LeaveKeeps
<1>. QED
  BY <1>2, <1>3 DEF Read

LEMMA RecordStep ==
    ASSUME Inv, NEW t \in Tasks, Record(t)
    PROVE  Inv'
<1>1. pc[t] \in Inside /\ Closed' = Closed
  BY DEF Record, At, Inside, Closed
<1>2. Unlock(Head(todo[t]).channel) /\ (Done(t) \/ Fail(t))
  BY DEF Record
<1>. QED
  BY <1>1, <1>2, LeaveKeeps

\* The timeout drops a task out of whatever channel it is in.
LEMMA CutShortStep ==
    ASSUME Inv, NEW t \in Tasks, CutShort(t)
    PROVE  Inv'
<1>1. Closed' \subseteq Closed
  BY DEF CutShort, boardVars, Closed
<1>2. Types' /\ pc'[t] \notin Inside
  BY DEF CutShort, Inv, Types, Goto, Inside
<1>3. Frame(t)
  BY <1>1 DEF CutShort, Inv, Types, Frame, Goto
<1>. QED
  BY <1>1, <1>2, <1>3, OutsideKeeps

\* The all-off opens lines, and none of them is a way.
LEMMA ForceStep ==
    ASSUME Inv, NEW t \in Tasks, ForceOff(t)
    PROVE  Inv'
<1>1. CASE ForceWrite(t)
  <2>1. todo[t] # <<>> /\ Closed' \subseteq Closed /\ lock' = lock
    BY <1>1 DEF ForceWrite, At, Closed, Switched
  <2>2. Fail(t) \/ (Goto(t, "forceRead") /\ UNCHANGED todo)
    BY <1>1 DEF ForceWrite
  <2>3. Types' /\ pc'[t] \notin Inside /\ Frame(t)
    <3>1. CASE Fail(t)
      BY <2>1, <3>1, DoneMoves DEF Inv, Types, Frame
    <3>2. CASE Goto(t, "forceRead") /\ UNCHANGED todo
      BY <2>1, <3>2 DEF Inv, Types, Frame, Goto, Inside
    <3>. QED
      BY <2>2, <3>1, <3>2
  <2>. QED
    BY <2>1, <2>3, OutsideKeeps
<1>2. CASE ForceRead(t)
  <2>1. todo[t] # <<>> /\ Closed' \subseteq Closed /\ lock' = lock
    BY <1>2 DEF ForceRead, At, boardVars, Closed
  <2>2. Fail(t) \/ (Goto(t, "forceStore") /\ UNCHANGED todo)
    BY <1>2 DEF ForceRead
  <2>3. Types' /\ pc'[t] \notin Inside /\ Frame(t)
    <3>1. CASE Fail(t)
      BY <2>1, <3>1, DoneMoves DEF Inv, Types, Frame
    <3>2. CASE Goto(t, "forceStore") /\ UNCHANGED todo
      BY <2>1, <3>2 DEF Inv, Types, Frame, Goto, Inside
    <3>. QED
      BY <2>2, <3>1, <3>2
  <2>. QED
    BY <2>1, <2>3, OutsideKeeps
<1>3. CASE ForceRecord(t)
  <2>1. Closed' \subseteq Closed /\ lock' = lock /\ todo[t] # <<>> /\ Done(t)
    BY <1>3 DEF ForceRecord, At, Closed
  <2>2. Types' /\ pc'[t] \notin Inside /\ Frame(t)
    BY <2>1, DoneMoves DEF Inv, Types, Frame
  <2>. QED
    BY <2>1, <2>2, OutsideKeeps
<1>. QED
  BY <1>1, <1>2, <1>3 DEF ForceOff

LEMMA StillStep ==
    ASSUME Inv, UNCHANGED <<on, lock, pc, todo>>
    PROVE  Inv'
BY DEF Inv, Types, OneWay, Holds, Selects, Closed

LEMMA InitInv == Init => Inv
<1> SUFFICES ASSUME Init PROVE Inv
  OBVIOUS
<1>1. Types
  <2>. << >> \in Seq(GoodItems)
    OBVIOUS
  <2>. QED
    BY DEF Init, Types
<1>2. OneWay
  <2>1. \A v, w \in Closed : v = w
    BY BoardsAssumption DEF BoardsAssumption, Init, Closed
  <2>2. CASE Closed = {}
    BY <2>2 DEF OneWay
  <2>3. CASE Closed # {}
    <3>1. PICK w : w \in Closed
      BY <2>3
    <3>. QED
      BY <2>1, <3>1 DEF OneWay
  <2>. QED
    BY <2>2, <2>3
<1>3. \A t \in Tasks : Holds(t) /\ Selects(t)
  BY DEF Init, Holds, Selects, Inside
<1>. QED
  BY <1>1, <1>2, <1>3 DEF Inv

LEMMA NextStep == Inv /\ [Next]_vars => Inv'
<1> SUFFICES ASSUME Inv, [Next]_vars PROVE Inv'
  OBVIOUS
<1>1. ASSUME NEW t \in Tasks, Call(t) \/ Begin(t) \/ Check(t) \/ Set(t) \/ CutShort(t) \/ ForceOff(t)
      PROVE  Inv'
  <2>1. CASE Set(t)
    BY <2>1, EnterStep, WriteBinaryStep, BreakStep, LookStep, MakeStep, ReadStep, RecordStep DEF Set
  <2>. QED
    BY <1>1, <2>1, CallStep, BeginStep, CheckStep, CutShortStep, ForceStep
<1>2. CASE Rested \/ KeyMoved \/ UNCHANGED vars
  <2>1. UNCHANGED <<on, lock, pc, todo>>
    BY <1>2 DEF Rested, KeyMoved, vars, boardVars, taskVars
  <2>. QED
    BY <2>1, StillStep
<1>. QED
  BY <1>1, <1>2 DEF Next

\* Two antennas are never joined, for any number of ways, devices, callers, stuck
\* relays, failed writes and profiles cut short (BreakBeforeMake).
THEOREM NeverTwoAntennas == Spec => []BreakBeforeMake
<1>1. Inv => BreakBeforeMake
  <2> SUFFICES ASSUME NEW w, Closed \subseteq {w} PROVE Cardinality(Closed) <= 1
    BY DEF Inv, OneWay, BreakBeforeMake
  <2>1. Closed = {} \/ Closed = {w}
    OBVIOUS
  <2>2. Cardinality({}) = 0 /\ Cardinality({w}) = 1
    BY FS_EmptySet, FS_Singleton, Zenon
  <2>. QED
    BY <2>1, <2>2
<1>. QED
  BY <1>1, InitInv, NextStep, PTL DEF Spec

\* A task that switches a channel, or reads it, is alone in it (Free, Unlock).
THEOREM AloneInside ==
    Spec => [](\A t, u \in Tasks : t # u /\ pc[t] \in Inside /\ pc[u] \in Inside
                   => Head(todo[t]).channel # Head(todo[u]).channel)
<1>1. Inv => \A t, u \in Tasks : t # u /\ pc[t] \in Inside /\ pc[u] \in Inside
                   => Head(todo[t]).channel # Head(todo[u]).channel
  BY DEF Inv, Holds
<1>. QED
  BY <1>1, InitInv, NextStep, PTL DEF Spec
----------------------------------------------------------------------------
(* The types of the other variables.                                       *)

Board ==
    /\ on \subseteq Devices \union {Operate} \union Ways
    /\ commanded \in [Channels -> Values] /\ confirmed \in [Channels -> Values]
    /\ resting \subseteq Devices

Locals ==
    /\ left \in [Tasks -> SUBSET Ways] /\ got \in [Tasks -> Values]
    /\ timed \in [Tasks -> BOOLEAN] /\ result \in [Tasks -> {"none", "ok", "error"}]

Counts ==
    /\ key \in {"unkeyed", "keyed", "unknown"} /\ forced \in BOOLEAN
    /\ calls \in Nat /\ moves \in Nat /\ cuts \in Nat /\ faults \in Nat
    /\ seen \in [Tasks -> BOOLEAN] /\ overlap \in {"none", "calls", "allOff"}
    /\ byHand \in BOOLEAN

\* A task is idle exactly when it has no items.
Busy == \A t \in Tasks : pc[t] = "idle" <=> todo[t] = <<>>

WellTyped == Board /\ Locals /\ Counts /\ Busy

LEMMA RealType ==
    ASSUME Board, NEW c \in Channels
    PROVE  Real(c) \in Values
<1>1. Closed \subseteq Ways
  BY DEF Closed
<1>2. CASE Closed = {}
  BY <1>2 DEF Real, Values
<1>3. CASE Closed # {}
  <2>1. (CHOOSE w \in Closed : TRUE) \in Closed
    BY <1>3
  <2>. QED
    BY <1>1, <1>3, <2>1 DEF Real, Values
<1>. QED
  BY <1>2, <1>3

LEMMA ConfirmType ==
    ASSUME Board, NEW c \in Channels, NEW v \in Values, Confirm(c, v)
    PROVE  confirmed' \in [Channels -> Values] /\ resting' \subseteq Devices
BY DEF Board, Confirm, Stamped

LEMMA FaultType ==
    ASSUME Board, NEW c \in Channels, DriverError(c)
    PROVE  confirmed' \in [Channels -> Values] /\ resting' \subseteq Devices
<1>1. Unknown \in Values
  BY DEF Values
<1>. QED
  BY <1>1, ConfirmType DEF DriverError

\* The item in hand of a task.
LEMMA HeadItem ==
    ASSUME Inv, NEW t \in Tasks, todo[t] # <<>>
    PROVE  /\ Head(todo[t]).channel \in Channels /\ Head(todo[t]).want \in Values
<1>1. Head(todo[t]) \in Items
  BY TailItems
<1>. QED
  BY <1>1 DEF Items, Values

LEMMA OnlyItem ==
    ASSUME NEW S, NEW s \in Seq(S), s # <<>>
    PROVE  Len(s) = 1 <=> Tail(s) = <<>>
<1>1. Len(s) \in Nat /\ Len(s) # 0 /\ Tail(s) \in Seq(S) /\ Len(Tail(s)) = Len(s) - 1
  BY HeadTailProperties, EmptySeq
<1>2. Tail(s) = <<>> <=> Len(Tail(s)) = 0
  BY <1>1, EmptySeq
<1>. QED
  BY <1>1, <1>2

LEMMA DoneBusy ==
    ASSUME Inv, Busy, Locals, NEW t \in Tasks, todo[t] # <<>>, Done(t) \/ Fail(t)
    PROVE  Busy' /\ result' \in [Tasks -> {"none", "ok", "error"}]
<1>1. todo[t] \in Seq(GoodItems) /\ DOMAIN pc = Tasks /\ DOMAIN todo = Tasks
  BY DEF Inv, Types
<1>2. Len(todo[t]) = 1 <=> Tail(todo[t]) = <<>>
  BY <1>1, OnlyItem
<1>3. CASE Done(t)
  BY <1>1, <1>2, <1>3 DEF Inv, Types, Done, Goto, Busy, Locals
<1>4. CASE Fail(t) /\ ~Done(t)
  BY <1>1, <1>4 DEF Inv, Types, Fail, Goto, Busy, Locals
<1>. QED
  BY <1>3, <1>4

LEMMA MoveBusy ==
    ASSUME Inv, Busy, NEW t \in Tasks, todo[t] # <<>>, NEW where, where # "idle",
           Goto(t, where), UNCHANGED todo
    PROVE  Busy'
BY DEF Inv, Types, Busy, Goto

LEMMA CallTypes ==
    ASSUME Inv, WellTyped, NEW t \in Tasks, Call(t)
    PROVE  WellTyped'
<1>1. PICK r \in Requests : /\ todo' = [todo EXCEPT ![t] = r]
                            /\ timed' = [timed EXCEPT ![t] = r = Profile]
                            /\ forced' = (forced \/ r = AllOff)
  BY DEF Call
<1>2. Board'
  BY DEF Call, WellTyped, Board, boardVars
<1>3. Locals'
  BY <1>1 DEF Call, WellTyped, Locals
<1>4. Counts'
  <2>1. overlap' \in {"none", "calls", "allOff"}
    BY DEF Call, WellTyped, Counts
  <2>2. forced' \in BOOLEAN
    BY <1>1 DEF WellTyped, Counts
  <2>. QED
    BY <2>1, <2>2 DEF Call, WellTyped, Counts
<1>5. Busy'
  <2>1. r # <<>>
    BY DEF Requests
  <2>. QED
    BY <1>1, <2>1 DEF Call, Inv, Types, WellTyped, Busy
<1>. QED
  BY <1>2, <1>3, <1>4, <1>5 DEF WellTyped

\* Before the switchboard nothing but the items and the place of the task change.
LEMMA BoardTypes ==
    ASSUME WellTyped, BoardUnchanged, Busy', result' \in [Tasks -> {"none", "ok", "error"}]
    PROVE  WellTyped'
BY DEF WellTyped, Board, Locals, Counts, BoardUnchanged, boardVars, histVars

LEMMA BeginTypes ==
    ASSUME Inv, WellTyped, NEW t \in Tasks, Begin(t)
    PROVE  WellTyped'
<1>0. BoardUnchanged /\ pc[t] = "next" /\ todo[t] # <<>> /\ Busy /\ Locals
  BY DEF Begin, At, WellTyped
<1> DEFINE i == Head(todo[t])
<1>1. CASE Done(t) \/ Fail(t)
  BY <1>0, <1>1, DoneBusy, BoardTypes
<1>2. CASE /\ UNCHANGED <<pc, result>>
           /\ todo' = [todo EXCEPT ![t] =
                (IF i.channel = Amp THEN <<Item("standby", Operate, "Off")>> ELSE <<>>)
                    \o <<Item("cut", i.channel, "Off")>> \o Tail(@)]
  <2>1. Tail(todo[t]) \in Seq(GoodItems)
    BY <1>0, TailItems
  <2> DEFINE standby == Item("standby", Operate, "Off")
             cut == Item("cut", i.channel, "Off")
             all == GoodItems \union {standby, cut}
             first == IF i.channel = Amp THEN <<standby>> ELSE <<>>
             rest == Tail(todo[t])
             r == first \o <<cut>> \o rest
  <2>2. rest \in Seq(all)
    BY <2>1
  <2>3. r # <<>>
    <3> HIDE DEF standby, cut, rest
    <3>1. standby \in all /\ cut \in all
      OBVIOUS
    <3> HIDE DEF all
    <3>2. first \in Seq(all) /\ <<cut>> \in Seq(all) /\ Len(<<cut>>) = 1
      BY <3>1
    <3> HIDE DEF first
    <3>. QED
      BY <2>2, <3>2
  <2>4. todo' = [todo EXCEPT ![t] = r]
    BY <1>2
  <2> HIDE DEF r
  <2>5. Busy'
    BY <1>0, <1>2, <2>3, <2>4 DEF Inv, Types, Busy
  <2>. QED
    BY <1>0, <1>2, <2>5, BoardTypes DEF Locals
<1>3. CASE /\ i.do = "stop" /\ UNCHANGED <<pc, result>>
           /\ todo' = [todo EXCEPT ![t] = PowerOff(i.channel) \o Tail(@)]
  <2> DEFINE first == PowerOff(i.channel)
             rest == Tail(todo[t])
             r == first \o rest
  <2>1. first \in Seq(GoodItems) /\ first # <<>> /\ rest \in Seq(GoodItems)
    BY <1>0, <1>3, StopItems
  <2>2. todo' = [todo EXCEPT ![t] = r]
    BY <1>3
  <2> HIDE DEF first, rest
  <2>3. r # <<>>
    BY <2>1
  <2> HIDE DEF r
  <2>4. Busy'
    BY <1>0, <1>3, <2>2, <2>3 DEF Inv, Types, Busy
  <2>. QED
    BY <1>0, <1>3, <2>4, BoardTypes DEF Locals
<1>4. CASE (Goto(t, "wait") \/ Goto(t, "check")) /\ UNCHANGED <<todo, result>>
  BY <1>0, <1>4, MoveBusy, BoardTypes DEF Locals
<1>. QED
  BY <1>1, <1>2, <1>3, <1>4 DEF Begin

LEMMA CheckTypes ==
    ASSUME Inv, WellTyped, NEW t \in Tasks, Check(t)
    PROVE  WellTyped'
<1>0. BoardUnchanged /\ todo[t] # <<>> /\ Busy /\ Locals
  BY DEF Check, At, WellTyped
<1>1. CASE Goto(t, "wait") /\ UNCHANGED <<todo, result>>
  BY <1>0, <1>1, MoveBusy, BoardTypes DEF Locals
<1>2. CASE Fail(t)
  BY <1>0, <1>2, DoneBusy, BoardTypes
<1>. QED
  BY <1>1, <1>2 DEF Check

\* A step of the switching or the reading of a channel.
LEMMA SetTypes ==
    ASSUME WellTyped, SetUnchanged, Board', Busy', result' \in [Tasks -> {"none", "ok", "error"}],
           left' \in [Tasks -> SUBSET Ways], got' \in [Tasks -> Values],
           faults' \in {faults, faults + 1}
    PROVE  WellTyped'
<1>1. Locals'
  BY DEF WellTyped, Locals, SetUnchanged
<1>2. Counts'
  BY DEF WellTyped, Counts, SetUnchanged, histVars
<1>. QED
  BY <1>1, <1>2 DEF WellTyped

LEMMA StepBusy ==
    ASSUME Inv, WellTyped, NEW t \in Tasks, todo[t] # <<>>,
           \/ Done(t) \/ Fail(t)
           \/ /\ \E where \in {"wait", "write", "break", "look", "make", "read", "store",
                               "forceRead", "forceStore"} : Goto(t, where)
              /\ UNCHANGED <<todo, result>>
    PROVE  Busy' /\ result' \in [Tasks -> {"none", "ok", "error"}]
<1>0. Busy /\ Locals
  BY DEF WellTyped
<1>1. CASE Done(t) \/ Fail(t)
  BY <1>0, <1>1, DoneBusy
<1>2. ASSUME NEW where \in {"wait", "write", "break", "look", "make", "read", "store",
                            "forceRead", "forceStore"},
             Goto(t, where), UNCHANGED <<todo, result>>
      PROVE  Busy' /\ result' \in [Tasks -> {"none", "ok", "error"}]
  BY <1>0, <1>2, MoveBusy DEF Locals
<1>. QED
  BY <1>1, <1>2

LEMMA EnterTypes ==
    ASSUME Inv, WellTyped, NEW t \in Tasks, Enter(t)
    PROVE  WellTyped'
<1> DEFINE i == Head(todo[t])
           c == i.channel
<1>1. todo[t] # <<>> /\ SetUnchanged /\ UNCHANGED <<on, confirmed, got, faults>>
  BY DEF Enter, At
<1>2. c \in Channels /\ i.want \in Values
  BY <1>1, HeadItem
<1>3. \/ UNCHANGED <<left, commanded, resting>>
      \/ /\ Command(c, i.want)
         /\ left' = [left EXCEPT ![t] = IF c = Selector THEN Ways \ {i.want} ELSE {}]
  BY DEF Enter
<1>4. left' \in [Tasks -> SUBSET Ways]
  BY <1>3 DEF WellTyped, Locals
<1>5. Board'
  BY <1>1, <1>2, <1>3 DEF WellTyped, Board, Command, Stamped
<1>6. \/ Done(t) \/ Fail(t)
      \/ (Goto(t, "read") \/ Goto(t, "break") \/ Goto(t, "write")) /\ UNCHANGED <<todo, result>>
  BY DEF Enter
<1>7. Busy' /\ result' \in [Tasks -> {"none", "ok", "error"}]
  BY <1>1, <1>6, StepBusy
<1>. QED
  BY <1>1, <1>4, <1>5, <1>7, SetTypes DEF WellTyped, Locals

\* A write of a line that exists.
LEMMA WriteTypes ==
    ASSUME Inv, WellTyped, NEW t \in Tasks, todo[t] # <<>>,
           NEW line \in Devices \union {Operate} \union Ways, NEW value,
           NEW where \in {"read", "break"}, Write(t, line, value, where), UNCHANGED commanded
    PROVE  /\ Board' /\ Busy' /\ result' \in [Tasks -> {"none", "ok", "error"}]
           /\ faults' \in {faults, faults + 1}
<1> DEFINE c == Head(todo[t]).channel
<1>1. c \in Channels
  BY HeadItem
<1>2. on' \in {on, Switched(line, value)}
  BY DEF Write
<1>3. on' \subseteq Devices \union {Operate} \union Ways
  BY <1>2 DEF WellTyped, Board, Switched
<1>4. DriverError(c) \/ UNCHANGED <<confirmed, resting>>
  BY DEF Write
<1>5. confirmed' \in [Channels -> Values] /\ resting' \subseteq Devices
  BY <1>1, <1>4, FaultType DEF WellTyped, Board
<1>6. Board'
  BY <1>3, <1>5 DEF WellTyped, Board
<1>7. Fail(t) \/ (Goto(t, where) /\ UNCHANGED <<todo, result>>)
  BY DEF Write
<1>8. Busy' /\ result' \in [Tasks -> {"none", "ok", "error"}]
  BY <1>7, StepBusy
<1>. QED
  BY <1>6, <1>8 DEF Write

LEMMA WriteBinaryTypes ==
    ASSUME Inv, WellTyped, NEW t \in Tasks, WriteBinary(t)
    PROVE  WellTyped'
<1> DEFINE i == Head(todo[t])
<1>1. todo[t] # <<>> /\ pc[t] = "write" /\ i.channel # Selector /\ i.channel \in Channels
  <2>1. todo[t] # <<>> /\ pc[t] = "write" /\ i.channel # Selector
    BY DEF WriteBinary, At, Inv, Selects
  <2>. QED
    BY <2>1, HeadItem
<1>2. i.channel \in Devices \union {Operate} \union Ways
  BY <1>1 DEF Channels
<1>3. SetUnchanged /\ UNCHANGED <<commanded, left, got>> /\ Write(t, i.channel, i.want, "read")
  BY DEF WriteBinary
<1>. QED
  BY <1>1, <1>2, <1>3, WriteTypes, SetTypes DEF WellTyped, Locals

LEMMA BreakTypes ==
    ASSUME Inv, WellTyped, NEW t \in Tasks, Break(t)
    PROVE  WellTyped'
<1>1. todo[t] # <<>> /\ SetUnchanged /\ UNCHANGED <<commanded, got>>
  BY DEF Break, At
<1>2. ASSUME NEW w \in left[t], left' = [left EXCEPT ![t] = @ \ {w}], Write(t, w, "Off", "break")
      PROVE  WellTyped'
  <2>1. w \in Ways /\ left' \in [Tasks -> SUBSET Ways]
    BY <1>2 DEF WellTyped, Locals
  <2>. QED
    BY <1>1, <1>2, <2>1, WriteTypes, SetTypes DEF WellTyped, Locals
<1>3. CASE Goto(t, "look") /\ UNCHANGED <<on, confirmed, resting, faults, todo, result, lock, left>>
  <2>1. Board'
    BY <1>1, <1>3 DEF WellTyped, Board
  <2>. QED
    BY <1>1, <1>3, <2>1, StepBusy, SetTypes DEF WellTyped, Locals
<1>. QED
  BY <1>2, <1>3 DEF Break

LEMMA MakeTypes ==
    ASSUME Inv, WellTyped, NEW t \in Tasks, Make(t)
    PROVE  WellTyped'
<1> DEFINE i == Head(todo[t])
<1>1. todo[t] # <<>> /\ i.want \in Ways
  BY DEF Make, At, Inv, Selects
<1>2. SetUnchanged /\ UNCHANGED <<commanded, left, got>> /\ Write(t, i.want, "On", "read")
  BY DEF Make
<1>. QED
  BY <1>1, <1>2, WriteTypes, SetTypes DEF WellTyped, Locals
LEMMA LookTypes ==
    ASSUME Inv, WellTyped, NEW t \in Tasks, Look(t)
    PROVE  WellTyped'
<1>1. /\ todo[t] # <<>> /\ SetUnchanged /\ UNCHANGED <<on, commanded, left, got>>
      /\ faults' \in {faults, faults + 1} /\ Selector \in Channels
  BY DEF Look, At, Channels
<1>2. \/ UNCHANGED <<confirmed, resting>>
      \/ Confirm(Selector, Real(Selector))
      \/ DriverError(Selector)
  BY DEF Look
<1>3. confirmed' \in [Channels -> Values] /\ resting' \subseteq Devices
  <2>1. Real(Selector) \in Values
    BY <1>1, RealType DEF WellTyped
  <2>. QED
    BY <1>1, <1>2, <2>1, ConfirmType, FaultType DEF WellTyped, Board
<1>4. Board'
  BY <1>1, <1>3 DEF WellTyped, Board
<1>5. Fail(t) \/ (Goto(t, "make") /\ UNCHANGED <<todo, result>>)
  BY DEF Look
<1>6. Busy' /\ result' \in [Tasks -> {"none", "ok", "error"}]
  BY <1>1, <1>5, StepBusy
<1>. QED
  BY <1>1, <1>4, <1>6, SetTypes DEF WellTyped, Locals

LEMMA ReadTypes ==
    ASSUME Inv, WellTyped, NEW t \in Tasks, Read(t)
    PROVE  WellTyped'
<1> DEFINE c == Head(todo[t]).channel
<1>1. /\ todo[t] # <<>> /\ SetUnchanged /\ UNCHANGED <<on, commanded, left>>
      /\ faults' \in {faults, faults + 1}
  BY DEF Read, At
<1>2. c \in Channels
  BY <1>1, HeadItem
<1>3. got' \in [Tasks -> Values]
  <2>1. Real(c) \in Values
    BY <1>2, RealType DEF WellTyped
  <2>. QED
    BY <2>1 DEF Read, WellTyped, Locals
<1>4. confirmed' \in [Channels -> Values] /\ resting' \subseteq Devices
  <2>1. UNCHANGED <<confirmed, resting>> \/ DriverError(c)
    BY DEF Read
  <2>. QED
    BY <1>2, <2>1, FaultType DEF WellTyped, Board
<1>5. Board'
  BY <1>1, <1>4 DEF WellTyped, Board
<1>6. Fail(t) \/ (Goto(t, "store") /\ UNCHANGED <<todo, result>>)
  BY DEF Read
<1>7. Busy' /\ result' \in [Tasks -> {"none", "ok", "error"}]
  BY <1>1, <1>6, StepBusy
<1>. QED
  BY <1>1, <1>3, <1>5, <1>7, SetTypes DEF WellTyped, Locals

LEMMA RecordTypes ==
    ASSUME Inv, WellTyped, NEW t \in Tasks, Record(t)
    PROVE  WellTyped'
<1> DEFINE c == Head(todo[t]).channel
<1>1. /\ todo[t] # <<>> /\ SetUnchanged /\ UNCHANGED <<on, commanded, left, faults>>
      /\ Confirm(c, got[t]) /\ (Done(t) \/ Fail(t)) /\ got' = [got EXCEPT ![t] = Unknown]
  BY DEF Record, At
<1>2. c \in Channels /\ got[t] \in Values
  BY <1>1, HeadItem DEF WellTyped, Locals
<1>3. Board'
  BY <1>1, <1>2, ConfirmType DEF WellTyped, Board
<1>4. Busy' /\ result' \in [Tasks -> {"none", "ok", "error"}]
  BY <1>1, StepBusy
<1>. QED
  BY <1>1, <1>3, <1>4, SetTypes DEF WellTyped, Locals, Values

LEMMA CutShortTypes ==
    ASSUME Inv, WellTyped, NEW t \in Tasks, CutShort(t)
    PROVE  WellTyped'
<1>1. Board'
  BY DEF CutShort, WellTyped, Board, boardVars
<1>2. Locals' /\ Counts'
  BY DEF CutShort, WellTyped, Locals, Counts, Values
<1>3. Busy'
  BY DEF CutShort, Inv, Types, WellTyped, Busy, Goto
<1>. QED
  BY <1>1, <1>2, <1>3 DEF WellTyped

LEMMA ForceTypes ==
    ASSUME Inv, WellTyped, NEW t \in Tasks, ForceOff(t)
    PROVE  WellTyped'
<1> DEFINE c == Head(todo[t]).channel
<1>0. todo[t] # <<>> /\ c \in Channels
  <2>1. todo[t] # <<>>
    BY DEF ForceOff, ForceWrite, ForceRead, ForceRecord, At
  <2>. QED
    BY <2>1, HeadItem
<1>1. CASE ForceWrite(t)
  <2>0. pc[t] = "next" /\ Head(todo[t]).do = "force" /\ Head(todo[t]) \in GoodItems
    BY <1>0, <1>1, TailItems DEF ForceWrite, At
  <2>1. c \in Devices \union {Operate}
    BY <1>0, <2>0 DEF GoodItems, SelectorItem, Channels
  <2>2. on' \in {on, Switched(c, "Off")}
    BY <1>1 DEF ForceWrite
  <2>3. on' \subseteq Devices \union {Operate} \union Ways
    BY <2>2 DEF WellTyped, Board, Switched
  <2>4. /\ commanded' \in [Channels -> Values] /\ confirmed' \in [Channels -> Values]
        /\ resting' \subseteq Devices
    <3>1. CASE /\ commanded' = [commanded EXCEPT ![c] = "Off"]
               /\ confirmed' = [confirmed EXCEPT ![c] = Unknown]
               /\ resting' = Stamped(c, commanded[c], "Off")
      BY <1>0, <3>1 DEF WellTyped, Board, Stamped, Values
    <3>2. CASE UNCHANGED commanded /\ DriverError(c)
      BY <1>0, <3>2, FaultType DEF WellTyped, Board
    <3>3. CASE UNCHANGED <<commanded, confirmed, resting>>
      BY <3>3 DEF WellTyped, Board
    <3>. QED
      BY <1>1, <3>1, <3>2, <3>3 DEF ForceWrite
  <2>5. Board'
    BY <2>3, <2>4 DEF WellTyped, Board
  <2>6. Fail(t) \/ (Goto(t, "forceRead") /\ UNCHANGED <<todo, result>>)
    BY <1>1 DEF ForceWrite
  <2>7. Busy' /\ result' \in [Tasks -> {"none", "ok", "error"}]
    BY <1>0, <2>6, StepBusy
  <2>8. Locals' /\ Counts'
    BY <1>1, <2>7 DEF ForceWrite, WellTyped, Locals, Counts, histVars
  <2>. QED
    BY <2>5, <2>7, <2>8 DEF WellTyped
<1>2. CASE ForceRead(t)
  <2>1. Real(c) \in Values
    BY <1>0, RealType DEF WellTyped
  <2>2. Fail(t) \/ (Goto(t, "forceStore") /\ UNCHANGED <<todo, result>>)
    BY <1>2 DEF ForceRead
  <2>3. Busy' /\ result' \in [Tasks -> {"none", "ok", "error"}]
    BY <1>0, <2>2, StepBusy
  <2>4. got' \in [Tasks -> Values] /\ faults' \in Nat
    BY <1>2, <2>1 DEF ForceRead, WellTyped, Locals, Counts
  <2>5. Board' /\ Locals' /\ Counts'
    BY <1>2, <2>3, <2>4 DEF ForceRead, WellTyped, Board, Locals, Counts, boardVars, histVars
  <2>. QED
    BY <2>3, <2>5 DEF WellTyped
<1>3. CASE ForceRecord(t)
  <2>1. /\ Confirm(c, got[t]) /\ Done(t)
        /\ got' = [got EXCEPT ![t] = Unknown]
        /\ UNCHANGED <<on, commanded, lock, key, left, timed, forced, faults, histVars>>
    BY <1>3 DEF ForceRecord
  <2>2. got[t] \in Values
    BY DEF WellTyped, Locals
  <2>3. Board'
    BY <1>0, <2>1, <2>2, ConfirmType DEF WellTyped, Board
  <2>4. Busy' /\ result' \in [Tasks -> {"none", "ok", "error"}]
    BY <1>0, <2>1, StepBusy
  <2>5. Locals' /\ Counts'
    BY <2>1, <2>4 DEF WellTyped, Locals, Counts, Values, histVars
  <2>. QED
    BY <2>3, <2>4, <2>5 DEF WellTyped
<1>. QED
  BY <1>1, <1>2, <1>3 DEF ForceOff

LEMMA AroundTypes ==
    ASSUME WellTyped, Rested \/ KeyMoved \/ UNCHANGED vars
    PROVE  WellTyped'
<1>1. CASE Rested
  BY <1>1 DEF Rested, WellTyped, Board, Locals, Counts, Busy, taskVars, histVars
<1>2. CASE KeyMoved
  BY <1>2 DEF KeyMoved, WellTyped, Board, Locals, Counts, Busy, boardVars, taskVars
<1>3. CASE UNCHANGED vars
  BY <1>3 DEF vars, WellTyped, Board, Locals, Counts, Busy, boardVars, taskVars, histVars
<1>. QED
  BY <1>1, <1>2, <1>3

LEMMA InitTypes == Init => WellTyped
<1> SUFFICES ASSUME Init PROVE WellTyped
  OBVIOUS
<1>1. on \subseteq Devices \union {Operate} \union Ways
  BY BoardsAssumption DEF BoardsAssumption, Init
<1>2. ASSUME NEW c \in Channels PROVE Real(c) \in Values
  <2>1. Closed \subseteq Ways
    BY DEF Closed
  <2>2. Closed # {} => (CHOOSE w \in Closed : TRUE) \in Closed
    OBVIOUS
  <2>. QED
    BY <2>1, <2>2 DEF Real, Values
<1>3. Board
  BY <1>1, <1>2 DEF Init, Board, Values
<1>4. Locals /\ Counts /\ Busy
  BY DEF Init, Locals, Counts, Busy, Values
<1>. QED
  BY <1>3, <1>4 DEF WellTyped

LEMMA TypesStep == Inv /\ WellTyped /\ [Next]_vars => WellTyped'
<1> SUFFICES ASSUME Inv, WellTyped, [Next]_vars PROVE WellTyped'
  OBVIOUS
<1>1. ASSUME NEW t \in Tasks, Call(t) \/ Begin(t) \/ Check(t) \/ Set(t) \/ CutShort(t) \/ ForceOff(t)
      PROVE  WellTyped'
  <2>1. CASE Set(t)
    BY <2>1, EnterTypes, WriteBinaryTypes, BreakTypes, LookTypes, MakeTypes, ReadTypes,
       RecordTypes DEF Set
  <2>. QED
    BY <1>1, <2>1, CallTypes, BeginTypes, CheckTypes, CutShortTypes, ForceTypes
<1>. QED
  BY <1>1, AroundTypes DEF Next

\* The board, its locks and the calls in progress are well formed, for any board
\* and any number of callers; a task is idle exactly when it has nothing to do
\* (StationState, ChannelState, the locals of the calls).
THEOREM TypeCorrect == Spec => []TypeOK
<1>1. Inv /\ WellTyped => TypeOK
  <2>1. GoodItems \subseteq Items
    BY DEF GoodItems
  <2> SUFFICES ASSUME Inv, WellTyped PROVE TypeOK
    OBVIOUS
  <2>2. todo \in [Tasks -> Seq(Items)]
    <3> SUFFICES ASSUME NEW t \in Tasks PROVE todo[t] \in Seq(Items)
      BY DEF Inv, Types
    <3>1. todo[t] \in Seq(GoodItems)
      BY DEF Inv, Types
    <3>. QED
      BY <2>1, <3>1
  <2>. QED
    BY <2>2 DEF Inv, Types, WellTyped, Board, Locals, Counts, Busy, TypeOK
<1>. QED
  BY <1>1, InitInv, NextStep, InitTypes, TypesStep, PTL DEF Spec

----------------------------------------------------------------------------
(* What is confirmed is real, as long as no timeout dropped an operation   *)
(* half way and no all-off crossed another call.                           *)

Kinds == \A t \in Tasks : todo[t] \in Seq(Plain) \union Seq(Forced)

\* Where a task stands says what kind of item it carries out.
Stands(t) ==
    /\ pc[t] \in {"forceRead", "forceStore"} => Head(todo[t]).do = "force"
    /\ pc[t] \in {"check", "wait"} \union Inside => Head(todo[t]).do # "force"
    /\ pc[t] \in {"check", "write", "break", "look", "make"} => Head(todo[t]).do # "read"

\* A lock is held by a task inside the channel.
Locked ==
    \A c \in Channels, t \in Tasks :
        lock[c] = t => pc[t] \in Inside /\ Head(todo[t]).channel = c

\* An all-off that crosses no call has the board for itself.
Alone ==
    overlap # "allOff" =>
        \A t, u \in Tasks : t # u /\ InAllOff(todo[t]) => todo[u] = <<>>

\* The all-off never concerns the selector.
Trusted(c) == cuts = 0 /\ (c = Selector \/ overlap # "allOff")

\* What is recorded, and what was read and is about to be recorded, is real.
Truth ==
    /\ \A c \in Channels : Trusted(c) /\ lock[c] = None => confirmed[c] \in {Unknown, Real(c)}
    /\ \A t \in Tasks :
          pc[t] \in {"store", "forceStore"} /\ Trusted(Head(todo[t]).channel)
          => got[t] = Real(Head(todo[t]).channel)

Orderly == Kinds /\ Locked /\ Alone /\ \A t \in Tasks : Stands(t)

KInv == Inv /\ WellTyped /\ Orderly /\ Truth

\* A task at work, and what its step leaves to the others.
Moves(t) ==
    /\ todo[t] # <<>> /\ overlap' = overlap /\ cuts' \in {cuts, cuts + 1}
    /\ \A u \in Tasks \ {t} : pc'[u] = pc[u] /\ todo'[u] = todo[u] /\ got'[u] = got[u]

\* What is left of a call after an item is of the same kind.
LEMMA RestKinds ==
    ASSUME Orderly, Inv, NEW t \in Tasks, todo[t] # <<>>, Done(t) \/ Fail(t)
    PROVE  /\ todo'[t] \in Seq(Plain) \union Seq(Forced)
           /\ InAllOff(todo'[t]) => InAllOff(todo[t])
           /\ pc'[t] \in {"idle", "next"}
<1>1. todo'[t] \in {<<>>, Tail(todo[t])} /\ pc'[t] \in {"idle", "next"}
  BY DEF Done, Fail, Goto, Inv, Types
<1>2. CASE todo[t] \in Seq(Plain)
  <2>1. Tail(todo[t]) \in Seq(Plain) /\ <<>> \in Seq(Plain)
    BY <1>2
  <2>2. ~InAllOff(todo'[t])
    <3>1. todo'[t] \in Seq(Plain)
      BY <1>1, <2>1
    <3>2. todo'[t] # <<>> => Head(todo'[t]) \in Plain
      BY <3>1
    <3>. QED
      BY <3>2 DEF InAllOff, Plain
  <2>. QED
    BY <1>1, <2>1, <2>2
<1>3. CASE todo[t] \in Seq(Forced)
  <2>1. Tail(todo[t]) \in Seq(Forced) /\ <<>> \in Seq(Forced) /\ Head(todo[t]) \in Forced
    BY <1>3
  <2>2. InAllOff(todo[t])
    BY <2>1 DEF InAllOff, Forced
  <2>. QED
    BY <1>1, <2>1, <2>2
<1>. QED
  BY <1>2, <1>3 DEF Orderly, Kinds

LEMMA OrderlyKeeps ==
    ASSUME Inv, WellTyped, Orderly, NEW t \in Tasks, Moves(t), Stands(t)',
           todo'[t] \in Seq(Plain) \union Seq(Forced),
           InAllOff(todo'[t]) => InAllOff(todo[t]),
           \A c \in Channels :
              /\ lock'[c] \in {lock[c], None, t}
              /\ lock'[c] = t => pc'[t] \in Inside /\ Head(todo'[t]).channel = c
    PROVE  Orderly'
<1>1. Kinds' /\ \A u \in Tasks : Stands(u)'
  BY DEF Moves, Orderly, Kinds, Stands
<1>2. Locked'
  <2> SUFFICES ASSUME NEW c \in Channels, NEW u \in Tasks, lock'[c] = u
               PROVE  pc'[u] \in Inside /\ Head(todo'[u]).channel = c
    BY DEF Locked
  <2>1. CASE u = t
    BY <2>1
  <2>2. CASE u # t
    <3>1. lock[c] = u
      BY <2>2, StationAssumption DEF StationAssumption
    <3>. QED
      BY <2>2, <3>1 DEF Moves, Orderly, Locked
  <2>. QED
    BY <2>1, <2>2
<1>3. Alone'
  <2> SUFFICES ASSUME overlap' # "allOff", NEW u \in Tasks, NEW v \in Tasks, u # v, InAllOff(todo'[u])
               PROVE  todo'[v] = <<>>
    BY DEF Alone
  <2>1. InAllOff(todo[u])
    BY DEF Moves
  <2>2. todo[v] = <<>>
    BY <2>1 DEF Moves, Orderly, Alone
  <2>. QED
    BY <2>2 DEF Moves
<1>. QED
  BY <1>1, <1>2, <1>3 DEF Orderly

\* A line of the channel a task works on moves only under its lock, or in an
\* all-off that works alone.
LEMMA TruthKeeps ==
    ASSUME KInv, NEW t \in Tasks, Moves(t), NEW c \in Channels,
           \A d \in Channels \ {c} :
              confirmed'[d] = confirmed[d] /\ Real(d)' = Real(d) /\ lock'[d] = lock[d],
           Trusted(c)' /\ lock'[c] = None => confirmed'[c] \in {Unknown, Real(c)'},
           Real(c)' = Real(c) \/ lock[c] = t \/ (c # Selector /\ InAllOff(todo[t])),
           pc'[t] \in {"store", "forceStore"} =>
              Head(todo'[t]).channel = c /\ (Trusted(c)' => got'[t] = Real(c)')
    PROVE  Truth'
<1>1. \A d : Trusted(d)' => Trusted(d)
  BY DEF Moves, Trusted, KInv, WellTyped, Counts
<1>2. \A d \in Channels : Trusted(d)' /\ lock'[d] = None => confirmed'[d] \in {Unknown, Real(d)'}
  <2> SUFFICES ASSUME NEW d \in Channels, Trusted(d)', lock'[d] = None
               PROVE  confirmed'[d] \in {Unknown, Real(d)'}
    OBVIOUS
  <2>1. CASE d # c
    BY <1>1, <2>1 DEF KInv, Truth
  <2>. QED
    BY <2>1
<1>3. ASSUME NEW u \in Tasks, pc'[u] \in {"store", "forceStore"}, Trusted(Head(todo[u]).channel)'
      PROVE  got'[u] = Real(Head(todo[u]).channel)'
  <2> DEFINE d == Head(todo[u]).channel
  <2>1. CASE u = t
    BY <1>3, <2>1
  <2>2. CASE u # t
    <3>1. pc[u] \in {"store", "forceStore"} /\ todo'[u] = todo[u] /\ got'[u] = got[u]
      BY <1>3, <2>2 DEF Moves
    <3>2. todo[u] # <<>>
      BY <3>1 DEF KInv, WellTyped, Busy
    <3>3. d \in Channels
      BY <3>2, HeadItem DEF KInv
    <3>4. Trusted(d) /\ got[u] = Real(d)
      BY <1>1, <1>3, <3>1 DEF KInv, Truth
    <3>5. Real(d)' = Real(d)
      <4>1. CASE d # c
        BY <3>1, <3>3, <4>1
      <4>2. CASE d = c /\ lock[c] = t
        <5>1. pc[u] # "store"
          BY <2>2, <4>2 DEF KInv, Inv, Holds, Inside
        <5>2. InAllOff(todo[u])
          BY <3>1, <3>2, <5>1 DEF KInv, Orderly, Stands, InAllOff
        <5>3. d # Selector
          <6>1. Head(todo[u]) \in GoodItems /\ Head(todo[u]).do = "force"
            BY <3>2, <5>2, TailItems DEF KInv, InAllOff
          <6>. QED
            BY <6>1 DEF GoodItems, SelectorItem
        <5>. QED
          BY <2>2, <3>4, <5>2, <5>3 DEF Trusted, KInv, Orderly, Alone, Moves
      <4>3. CASE d = c /\ c # Selector /\ InAllOff(todo[t])
        BY <2>2, <3>2, <3>4, <4>3 DEF Trusted, KInv, Orderly, Alone
      <4>4. Real(c)' = Real(c) /\ d = c => Real(d)' = Real(d)
        BY <3>1
      <4>. QED
        BY <4>1, <4>2, <4>3, <4>4
    <3>. QED
      BY <3>1, <3>4, <3>5
  <2>. QED
    BY <2>1, <2>2
<1>. QED
  BY <1>2, <1>3 DEF Truth

LEMMA RealSame ==
    ASSUME NEW c, c # Selector => (c \in on' <=> c \in on), c = Selector => Closed' = Closed
    PROVE  Real(c)' = Real(c)
<1> DEFINE any(S) == CHOOSE w \in S : TRUE
           real(line, S) == IF c # Selector THEN (IF line THEN "On" ELSE "Off")
                            ELSE IF S = {} THEN "Off"
                            ELSE IF Cardinality(S) = 1 THEN any(S) ELSE Unknown
<1>1. Real(c) = real(c \in on, Closed) /\ Real(c)' = real(c \in on', Closed')
  BY DEF Real
<1>. HIDE DEF any
<1>2. CASE c = Selector
  BY <1>1, <1>2
<1>3. CASE c # Selector
  BY <1>1, <1>3
<1>. QED
  BY <1>2, <1>3

\* A step that leaves the board and the locks alone, of a task outside.
LEMMA BeforeKeeps ==
    ASSUME KInv, NEW t \in Tasks, todo[t] # <<>>, pc[t] \notin Inside,
           UNCHANGED <<on, confirmed, lock, got, overlap, cuts>>,
           \A u \in Tasks \ {t} : pc'[u] = pc[u] /\ todo'[u] = todo[u],
           todo'[t] \in Seq(Plain) \union Seq(Forced),
           InAllOff(todo'[t]) => InAllOff(todo[t]),
           Stands(t)', pc'[t] \notin Inside \union {"forceRead", "forceStore"}
    PROVE  Orderly' /\ Truth'
<1> DEFINE c == Head(todo[t]).channel
<1>1. Moves(t) /\ c \in Channels
  BY HeadItem DEF Moves, KInv
<1>2. \A d \in Channels : lock'[d] \in {lock[d], None, t} /\ lock'[d] # t
  BY DEF KInv, Orderly, Locked
<1>3. Orderly'
  BY <1>1, <1>2, OrderlyKeeps DEF KInv
<1>4. \A d : Real(d)' = Real(d)
  BY RealSame DEF Closed
<1>5. Truth'
  <2>1. pc'[t] \notin {"store", "forceStore"}
    BY DEF Inside
  <2>2. \A d \in Channels : Trusted(d)' => Trusted(d)
    BY DEF Trusted
  <2>3. \A d \in Channels : Trusted(d)' /\ lock'[d] = None => confirmed'[d] \in {Unknown, Real(d)'}
    BY <1>4, <2>2 DEF KInv, Truth
  <2>4. ASSUME NEW u \in Tasks, pc'[u] \in {"store", "forceStore"}, Trusted(Head(todo[u]).channel)'
        PROVE  got'[u] = Real(Head(todo[u]).channel)'
    <3>1. u # t /\ todo'[u] = todo[u] /\ pc'[u] = pc[u]
      BY <2>1, <2>4
    <3>2. Trusted(Head(todo[u]).channel) /\ pc[u] \in {"store", "forceStore"}
      BY <2>4, <3>1 DEF Trusted
    <3>3. got[u] = Real(Head(todo[u]).channel)
      BY <3>2 DEF KInv, Truth
    <3>. QED
      BY <1>4, <3>1, <3>3
  <2>. QED
    BY <2>3, <2>4 DEF Truth
<1>. QED
  BY <1>3, <1>5

\* A task outside gives its place or its item up.
LEMMA LeavesBefore ==
    ASSUME KInv, NEW t \in Tasks, todo[t] # <<>>, pc[t] \notin Inside, Done(t) \/ Fail(t),
           UNCHANGED <<on, confirmed, lock, got, overlap, cuts>>
    PROVE  Orderly' /\ Truth'
<1>1. /\ todo'[t] \in Seq(Plain) \union Seq(Forced)
      /\ InAllOff(todo'[t]) => InAllOff(todo[t])
      /\ pc'[t] \in {"idle", "next"}
  BY RestKinds DEF KInv
<1>2. \A u \in Tasks \ {t} : pc'[u] = pc[u] /\ todo'[u] = todo[u]
  BY DoneMoves DEF KInv
<1>3. Stands(t)'
  BY <1>1 DEF Stands, Inside
<1>. QED
  BY <1>1, <1>2, <1>3, BeforeKeeps DEF Inside

\* The same item, at another place outside.
LEMMA GoesBefore ==
    ASSUME KInv, NEW t \in Tasks, todo[t] # <<>>, pc[t] \notin Inside, NEW where, Goto(t, where),
           UNCHANGED <<todo, on, confirmed, lock, got, overlap, cuts>>,
           where \in {"wait", "check", "forceRead"},
           where = "forceRead" <=> Head(todo[t]).do = "force",
           where = "check" => Head(todo[t]).do # "read"
    PROVE  Orderly' /\ (where # "forceRead" => Truth')
<1>1. pc'[t] = where /\ \A u \in Tasks \ {t} : pc'[u] = pc[u] /\ todo'[u] = todo[u]
  BY DEF Goto, KInv, Inv, Types
<1>2. Stands(t)'
  BY <1>1 DEF Stands, Inside
<1>3. todo'[t] \in Seq(Plain) \union Seq(Forced) /\ InAllOff(todo'[t]) => InAllOff(todo[t])
  BY DEF KInv, Orderly, Kinds
<1>4. CASE where # "forceRead"
  BY <1>1, <1>2, <1>3, <1>4, BeforeKeeps DEF Inside, KInv, Orderly, Kinds
<1>5. Orderly'
  <2>1. \A d \in Channels : lock'[d] \in {lock[d], None, t} /\ lock'[d] # t
    BY DEF KInv, Orderly, Locked
  <2>2. Moves(t)
    BY <1>1 DEF Moves
  <2>3. todo'[t] \in Seq(Plain) \union Seq(Forced)
    BY DEF KInv, Orderly, Kinds
  <2>. QED
    BY <1>2, <2>1, <2>2, <2>3, OrderlyKeeps DEF KInv
<1>. QED
  BY <1>4, <1>5

LEMMA BeginTruth ==
    ASSUME KInv, NEW t \in Tasks, Begin(t)
    PROVE  Orderly' /\ Truth'
<1> DEFINE i == Head(todo[t])
<1>1. /\ UNCHANGED <<on, confirmed, lock, got, overlap, cuts>>
      /\ pc[t] = "next" /\ pc[t] \notin Inside /\ todo[t] # <<>> /\ i.do # "force"
  BY DEF Begin, At, BoardUnchanged, boardVars, histVars, Inside
<1>2. CASE Done(t) \/ Fail(t)
  BY <1>1, <1>2, LeavesBefore
<1>3. ASSUME NEW first \in Seq(Plain), todo' = [todo EXCEPT ![t] = first \o Tail(@)],
             UNCHANGED <<pc, result>>
      PROVE  Orderly' /\ Truth'
  <2>1. todo[t] \in Seq(Plain)
    <3>1. todo[t] \notin Seq(Forced)
      BY <1>1 DEF Forced
    <3>. QED
      BY <3>1 DEF KInv, Orderly, Kinds
  <2>2. Tail(todo[t]) \in Seq(Plain)
    BY <1>1, <2>1
  <2> DEFINE r == first \o Tail(todo[t])
  <2>3. r \in Seq(Plain) /\ todo' = [todo EXCEPT ![t] = r]
    BY <1>3, <2>2
  <2>. HIDE DEF r
  <2>4. todo'[t] = r /\ \A u \in Tasks \ {t} : pc'[u] = pc[u] /\ todo'[u] = todo[u]
    BY <1>3, <2>3 DEF KInv, Inv, Types
  <2>5. ~InAllOff(r)
    <3>1. r # <<>> => Head(r) \in Plain
      BY <2>3
    <3>. QED
      BY <3>1 DEF InAllOff, Plain
  <2>6. pc'[t] = "next" /\ Stands(t)'
    BY <1>1, <1>3 DEF Stands, Inside
  <2>. QED
    BY <1>1, <2>3, <2>4, <2>5, <2>6, BeforeKeeps DEF Inside
<1>4. CASE /\ i.do = "off" /\ UNCHANGED <<pc, result>>
           /\ todo' = [todo EXCEPT ![t] =
                (IF i.channel = Amp THEN <<Item("standby", Operate, "Off")>> ELSE <<>>)
                    \o <<Item("cut", i.channel, "Off")>> \o Tail(@)]
  <2> DEFINE first == (IF i.channel = Amp THEN <<Item("standby", Operate, "Off")>> ELSE <<>>)
                          \o <<Item("cut", i.channel, "Off")>>
  <2>1. i.channel \in Devices
    BY <1>1, <1>4, TailItems DEF KInv, GoodItems, Proper
  <2>2. first \in Seq(Plain)
    BY <2>1, GoodOnes
  <2>3. todo' = [todo EXCEPT ![t] = first \o Tail(@)]
    BY <1>4
  <2>. HIDE DEF first
  <2>. QED
    BY <1>3, <1>4, <2>2, <2>3
<1>5. CASE /\ i.do = "stop" /\ UNCHANGED <<pc, result>>
           /\ todo' = [todo EXCEPT ![t] = PowerOff(i.channel) \o Tail(@)]
  <2>1. i.channel \in Devices
    BY <1>1, <1>5, TailItems DEF KInv, GoodItems, Proper
  <2>2. PowerOff(i.channel) \in Seq(Plain)
    BY <2>1, PowerOffItems
  <2>. QED
    BY <1>3, <1>5, <2>2
<1>6. CASE i.do \in {"standby", "cut", "read"} /\ Goto(t, "wait") /\ UNCHANGED <<todo, result>>
  BY <1>1, <1>6, GoesBefore
<1>7. CASE /\ i.do \in {"on", "step", "select", "set"}
           /\ Goto(t, "check") /\ UNCHANGED <<todo, result>>
  BY <1>1, <1>7, GoesBefore
<1>. QED
  BY <1>2, <1>4, <1>5, <1>6, <1>7 DEF Begin

LEMMA CheckTruth ==
    ASSUME KInv, NEW t \in Tasks, Check(t)
    PROVE  Orderly' /\ Truth'
<1>1. /\ UNCHANGED <<on, confirmed, lock, got, overlap, cuts>>
      /\ pc[t] = "check" /\ pc[t] \notin Inside /\ todo[t] # <<>> /\ Head(todo[t]).do # "force"
  BY DEF Check, At, BoardUnchanged, boardVars, histVars, Inside, KInv, Orderly, Stands
<1>2. CASE Goto(t, "wait") /\ UNCHANGED <<todo, result>>
  BY <1>1, <1>2, GoesBefore
<1>3. CASE Fail(t)
  BY <1>1, <1>3, LeavesBefore
<1>. QED
  BY <1>2, <1>3 DEF Check

\* A write moves a line of one channel, and no value of another is made of it.
LEMMA OneLine ==
    ASSUME NEW c \in Channels, NEW line, NEW value, on' \in {on, Switched(line, value)},
           IF c = Selector THEN line \in Ways ELSE line = c, NEW d \in Channels \ {c}
    PROVE  Real(d)' = Real(d)
<1>1. Ways \intersect Channels = {}
  BY StationAssumption DEF StationAssumption
<1>2. d # Selector => (d \in on' <=> d \in on)
  BY <1>1 DEF Switched
<1>3. d = Selector => Closed' = Closed
  BY <1>1 DEF Switched, Closed
<1>. QED
  BY <1>2, <1>3, RealSame

\* What a task inside a channel knows of the locks.
LEMMA InsideHolds ==
    ASSUME KInv, NEW t \in Tasks, pc[t] \in Inside, NEW c, c = Head(todo[t]).channel
    PROVE  /\ todo[t] # <<>> /\ c \in Channels /\ lock[c] = t
           /\ \A d \in Channels \ {c} : lock[d] # t
<1>1. todo[t] # <<>> /\ lock[c] = t
  BY DEF KInv, Inv, Holds
<1>2. c \in Channels
  BY <1>1, HeadItem DEF KInv
<1>. QED
  BY <1>1, <1>2 DEF KInv, Orderly, Locked

\* On inside the channel.
LEMMA StayTruth ==
    ASSUME KInv, NEW t \in Tasks, pc[t] \in Inside, NEW c, c = Head(todo[t]).channel,
           NEW where \in Inside, Goto(t, where), UNCHANGED <<todo, lock, confirmed, overlap, cuts>>,
           where \in {"break", "look", "make"} => Head(todo[t]).do # "read", where # "write",
           \A u \in Tasks \ {t} : got'[u] = got[u],
           \A d \in Channels \ {c} : Real(d)' = Real(d),
           where = "store" => got'[t] = Real(c)'
    PROVE  Orderly' /\ Truth'
<1>1. todo[t] # <<>> /\ c \in Channels /\ lock[c] = t
  BY InsideHolds
<1>2. pc'[t] = where /\ \A u \in Tasks \ {t} : pc'[u] = pc[u] /\ todo'[u] = todo[u]
  BY DEF Goto, KInv, Inv, Types
<1>3. Moves(t)
  BY <1>1, <1>2 DEF Moves
<1>4. Orderly'
  <2>1. Stands(t)'
    BY <1>2 DEF KInv, Orderly, Stands, Inside
  <2>2. todo'[t] \in Seq(Plain) \union Seq(Forced) /\ (InAllOff(todo'[t]) => InAllOff(todo[t]))
    BY DEF KInv, Orderly, Kinds
  <2>3. \A d \in Channels :
           /\ lock'[d] \in {lock[d], None, t}
           /\ lock'[d] = t => pc'[t] \in Inside /\ Head(todo'[t]).channel = d
    BY <1>2 DEF KInv, Orderly, Locked
  <2>. QED
    BY <1>3, <2>1, <2>2, <2>3, OrderlyKeeps DEF KInv
<1>5. Truth'
  <2>1. lock'[c] # None
    BY <1>1, StationAssumption DEF StationAssumption
  <2>2. pc'[t] \in {"store", "forceStore"} =>
           Head(todo'[t]).channel = c /\ (Trusted(c)' => got'[t] = Real(c)')
    BY <1>2 DEF Inside
  <2>. QED
    BY <1>1, <1>3, <2>1, <2>2, TruthKeeps
<1>. QED
  BY <1>4, <1>5

\* Out of the channel, with what is then recorded of it.
LEMMA LeaveTruth ==
    ASSUME KInv, NEW t \in Tasks, pc[t] \in Inside, NEW c, c = Head(todo[t]).channel,
           Unlock(c), Done(t) \/ Fail(t), UNCHANGED <<overlap, cuts>>,
           \A u \in Tasks \ {t} : got'[u] = got[u],
           \A d \in Channels \ {c} : confirmed'[d] = confirmed[d] /\ Real(d)' = Real(d),
           Trusted(c)' => confirmed'[c] \in {Unknown, Real(c)'}
    PROVE  Orderly' /\ Truth'
<1>1. todo[t] # <<>> /\ c \in Channels /\ lock[c] = t /\ \A d \in Channels \ {c} : lock[d] # t
  BY InsideHolds
<1>2. \A u \in Tasks \ {t} : pc'[u] = pc[u] /\ todo'[u] = todo[u]
  BY <1>1, DoneMoves DEF KInv
<1>3. Moves(t)
  BY <1>1, <1>2 DEF Moves
<1>4. /\ todo'[t] \in Seq(Plain) \union Seq(Forced)
      /\ InAllOff(todo'[t]) => InAllOff(todo[t])
      /\ pc'[t] \in {"idle", "next"}
  BY <1>1, RestKinds DEF KInv
<1>5. \A d \in Channels : lock'[d] = IF d = c THEN None ELSE lock[d]
  BY <1>1 DEF Unlock, KInv, Inv, Types
<1>6. Orderly'
  <2>1. Stands(t)'
    BY <1>4 DEF Stands, Inside
  <2>2. \A d \in Channels : lock'[d] \in {lock[d], None, t} /\ lock'[d] # t
    BY <1>1, <1>5, StationAssumption DEF StationAssumption
  <2>. QED
    BY <1>3, <1>4, <2>1, <2>2, OrderlyKeeps DEF KInv
<1>7. Truth'
  <2>1. pc'[t] \notin {"store", "forceStore"}
    BY <1>4
  <2>. QED
    BY <1>1, <1>3, <1>5, <2>1, TruthKeeps
<1>. QED
  BY <1>6, <1>7

LEMMA EnterTruth ==
    ASSUME KInv, NEW t \in Tasks, Enter(t)
    PROVE  Orderly' /\ Truth'
<1>1. /\ todo[t] # <<>> /\ pc[t] = "wait" /\ pc[t] \notin Inside
      /\ UNCHANGED <<on, confirmed, got, overlap, cuts>>
  BY DEF Enter, At, Inside, SetUnchanged, histVars
<1>2. CASE (Fail(t) \/ Done(t)) /\ UNCHANGED lock
  BY <1>1, <1>2, LeavesBefore
<1>3. ASSUME NEW where, Goto(t, where), UNCHANGED todo,
             lock' = [lock EXCEPT ![Head(todo[t]).channel] = t],
             \/ where = "read"
             \/ where \in {"write", "break"} /\ Head(todo[t]).do # "read"
      PROVE  Orderly' /\ Truth'
  <2>1. PICK c \in Channels : c = Head(todo[t]).channel
    BY <1>1, HeadItem DEF KInv
  <2>2. pc'[t] = where /\ \A u \in Tasks \ {t} : pc'[u] = pc[u] /\ todo'[u] = todo[u]
    BY <1>3 DEF Goto, KInv, Inv, Types
  <2>3. Moves(t)
    BY <1>1, <2>2 DEF Moves
  <2>4. \A d \in Channels : lock'[d] = (IF d = c THEN t ELSE lock[d]) /\ lock[d] # t
    BY <1>1, <1>3, <2>1 DEF KInv, Inv, Types, Orderly, Locked
  <2>5. Orderly'
    <3>1. Stands(t)'
      BY <1>1, <1>3, <2>2 DEF KInv, Orderly, Stands, Inside
    <3>2. todo'[t] \in Seq(Plain) \union Seq(Forced) /\ (InAllOff(todo'[t]) => InAllOff(todo[t]))
      BY <1>3 DEF KInv, Orderly, Kinds
    <3>3. \A d \in Channels :
             /\ lock'[d] \in {lock[d], None, t}
             /\ lock'[d] = t => pc'[t] \in Inside /\ Head(todo'[t]).channel = d
      BY <1>3, <2>1, <2>2, <2>4 DEF Inside
    <3>. QED
      BY <2>3, <3>1, <3>2, <3>3, OrderlyKeeps DEF KInv
  <2>6. Truth'
    <3>1. \A d \in Channels : Real(d)' = Real(d)
      BY <1>1, RealSame DEF Closed
    <3>2. lock'[c] # None
      BY <2>4, StationAssumption DEF StationAssumption
    <3>3. pc'[t] \notin {"store", "forceStore"}
      BY <1>3, <2>2
    <3>. QED
      BY <1>1, <2>3, <2>4, <3>1, <3>2, <3>3, TruthKeeps
  <2>. QED
    BY <2>5, <2>6
<1>4. \/ (Fail(t) \/ Done(t)) /\ UNCHANGED lock
      \/ \E where :
           /\ Goto(t, where) /\ UNCHANGED todo
           /\ lock' = [lock EXCEPT ![Head(todo[t]).channel] = t]
           /\ \/ where = "read"
              \/ where \in {"write", "break"} /\ Head(todo[t]).do # "read"
  <2>1. CASE Fail(t) \/ Done(t)
    BY <2>1 DEF Enter
  <2>2. CASE ~(Fail(t) \/ Done(t))
    BY <2>2 DEF Enter
  <2>. QED
    BY <2>1, <2>2
<1>. QED
  BY <1>2, <1>3, <1>4

\* An error leaves nothing recorded of the channel.
LEMMA FaultLeaves ==
    ASSUME KInv, NEW c \in Channels, DriverError(c)
    PROVE  confirmed'[c] = Unknown /\ \A d \in Channels \ {c} : confirmed'[d] = confirmed[d]
BY DEF DriverError, Confirm, KInv, WellTyped, Board

LEMMA ConfirmLeaves ==
    ASSUME KInv, NEW c \in Channels, NEW v, Confirm(c, v)
    PROVE  confirmed'[c] = v /\ \A d \in Channels \ {c} : confirmed'[d] = confirmed[d]
BY DEF Confirm, KInv, WellTyped, Board

LEMMA WriteTruth ==
    ASSUME KInv, NEW t \in Tasks, pc[t] \in Inside, NEW c, c = Head(todo[t]).channel,
           NEW line, NEW value, IF c = Selector THEN line \in Ways ELSE line = c,
           NEW where \in {"read", "break"}, Head(todo[t]).do # "read",
           Write(t, line, value, where), SetUnchanged, UNCHANGED got
    PROVE  Orderly' /\ Truth'
<1>1. c \in Channels /\ UNCHANGED <<overlap, cuts>>
  BY InsideHolds DEF SetUnchanged, histVars
<1>2. on' \in {on, Switched(line, value)}
  BY DEF Write
<1>3. \A d \in Channels \ {c} : Real(d)' = Real(d)
  BY <1>1, <1>2, OneLine
<1>4. CASE Goto(t, where) /\ UNCHANGED <<confirmed, todo, lock>>
  BY <1>1, <1>3, <1>4, StayTruth DEF Inside
<1>5. CASE DriverError(c) /\ Unlock(c) /\ Fail(t)
  <2>1. confirmed'[c] = Unknown /\ \A d \in Channels \ {c} : confirmed'[d] = confirmed[d]
    BY <1>1, <1>5, FaultLeaves
  <2>. QED
    BY <1>1, <1>3, <1>5, <2>1, LeaveTruth
<1>. QED
  BY <1>4, <1>5 DEF Write

LEMMA WriteBinaryTruth ==
    ASSUME KInv, NEW t \in Tasks, WriteBinary(t)
    PROVE  Orderly' /\ Truth'
<1>1. /\ pc[t] \in Inside /\ Head(todo[t]).do # "read" /\ Head(todo[t]).channel # Selector
      /\ SetUnchanged /\ UNCHANGED got
      /\ Write(t, Head(todo[t]).channel, Head(todo[t]).want, "read")
  BY DEF WriteBinary, At, Inside, KInv, Inv, Selects, Orderly, Stands
<1>. QED
  BY <1>1, WriteTruth

LEMMA BreakTruth ==
    ASSUME KInv, NEW t \in Tasks, Break(t)
    PROVE  Orderly' /\ Truth'
<1>1. /\ pc[t] \in Inside /\ Head(todo[t]).do # "read" /\ Head(todo[t]).channel = Selector
      /\ SetUnchanged /\ UNCHANGED <<got, overlap, cuts>>
  BY DEF Break, At, Inside, KInv, Inv, Selects, Orderly, Stands, SetUnchanged, histVars
<1>2. ASSUME NEW w \in left[t], Write(t, w, "Off", "break")
      PROVE  Orderly' /\ Truth'
  <2>1. w \in Ways
    BY DEF KInv, WellTyped, Locals
  <2>. QED
    BY <1>1, <1>2, <2>1, WriteTruth
<1>3. CASE Goto(t, "look") /\ UNCHANGED <<on, confirmed, resting, faults, todo, result, lock, left>>
  <2>1. \A d \in Channels : Real(d)' = Real(d)
    BY <1>3, RealSame DEF Closed
  <2>. QED
    BY <1>1, <1>3, <2>1, StayTruth DEF Inside
<1>. QED
  BY <1>2, <1>3 DEF Break

LEMMA LookTruth ==
    ASSUME KInv, NEW t \in Tasks, Look(t)
    PROVE  Orderly' /\ Truth'
<1>1. /\ pc[t] \in Inside /\ Head(todo[t]).do # "read" /\ Head(todo[t]).channel = Selector
      /\ UNCHANGED <<on, got, overlap, cuts>>
  BY DEF Look, At, Inside, KInv, Inv, Selects, Orderly, Stands, SetUnchanged, histVars
<1>2. \A d \in Channels : Real(d)' = Real(d)
  BY <1>1, RealSame DEF Closed
<1>3. CASE Goto(t, "make") /\ UNCHANGED <<confirmed, resting, todo, result, lock, faults>>
  BY <1>1, <1>2, <1>3, StayTruth DEF Inside
<1>4. ASSUME NEW v, v \in {Unknown, Real(Selector)}, Confirm(Selector, v), Unlock(Selector), Fail(t)
      PROVE  Orderly' /\ Truth'
  <2>1. Selector \in Channels
    BY DEF Channels
  <2>2. confirmed'[Selector] = v /\ \A d \in Channels \ {Selector} : confirmed'[d] = confirmed[d]
    BY <1>4, <2>1, ConfirmLeaves
  <2>. QED
    BY <1>1, <1>2, <1>4, <2>1, <2>2, LeaveTruth
<1>. QED
  BY <1>3, <1>4 DEF Look, DriverError

LEMMA MakeTruth ==
    ASSUME KInv, NEW t \in Tasks, Make(t)
    PROVE  Orderly' /\ Truth'
<1>1. /\ pc[t] \in Inside /\ Head(todo[t]).do # "read" /\ Head(todo[t]).channel = Selector
      /\ Head(todo[t]).want \in Ways /\ SetUnchanged /\ UNCHANGED got
      /\ Write(t, Head(todo[t]).want, "On", "read")
  BY DEF Make, At, Inside, KInv, Inv, Selects, Orderly, Stands
<1>. QED
  BY <1>1, WriteTruth

LEMMA ReadTruth ==
    ASSUME KInv, NEW t \in Tasks, Read(t)
    PROVE  Orderly' /\ Truth'
<1>1. PICK c : c = Head(todo[t]).channel
  OBVIOUS
<1>2. pc[t] \in Inside /\ UNCHANGED <<on, overlap, cuts>>
  BY DEF Read, At, Inside, SetUnchanged, histVars
<1>3. c \in Channels /\ \A d \in Channels : Real(d)' = Real(d)
  BY <1>1, <1>2, InsideHolds, RealSame DEF Closed
<1>4. CASE got' = [got EXCEPT ![t] = Real(c)] /\ Goto(t, "store") /\ UNCHANGED <<confirmed, lock, todo>>
  <2>1. got'[t] = Real(c)' /\ \A u \in Tasks \ {t} : got'[u] = got[u]
    BY <1>3, <1>4 DEF KInv, WellTyped, Locals
  <2>. QED
    BY <1>1, <1>2, <1>3, <1>4, <2>1, StayTruth DEF Inside
<1>5. CASE DriverError(c) /\ Unlock(c) /\ Fail(t) /\ UNCHANGED got
  <2>1. confirmed'[c] = Unknown /\ \A d \in Channels \ {c} : confirmed'[d] = confirmed[d]
    BY <1>3, <1>5, FaultLeaves
  <2>. QED
    BY <1>1, <1>2, <1>3, <1>5, <2>1, LeaveTruth
<1>. QED
  BY <1>1, <1>4, <1>5 DEF Read

LEMMA RecordTruth ==
    ASSUME KInv, NEW t \in Tasks, Record(t)
    PROVE  Orderly' /\ Truth'
<1>1. PICK c : c = Head(todo[t]).channel
  OBVIOUS
<1>2. /\ pc[t] = "store" /\ pc[t] \in Inside /\ UNCHANGED <<on, overlap, cuts>>
      /\ Confirm(c, got[t]) /\ Unlock(c) /\ (Done(t) \/ Fail(t))
      /\ got' = [got EXCEPT ![t] = Unknown]
  BY <1>1 DEF Record, At, Inside, SetUnchanged, histVars
<1>3. c \in Channels /\ \A d \in Channels : Real(d)' = Real(d)
  BY <1>1, <1>2, InsideHolds, RealSame DEF Closed
<1>4. confirmed'[c] = got[t] /\ \A d \in Channels \ {c} : confirmed'[d] = confirmed[d]
  BY <1>2, <1>3, ConfirmLeaves
<1>5. Trusted(c)' => got[t] = Real(c)
  BY <1>1, <1>2 DEF Trusted, KInv, Truth
<1>6. \A u \in Tasks \ {t} : got'[u] = got[u]
  BY <1>2
<1>. QED
  BY <1>1, <1>2, <1>3, <1>4, <1>5, <1>6, LeaveTruth

\* A profile cut short leaves its channel as it is: nothing is trusted any more.
LEMMA CutShortTruth ==
    ASSUME KInv, NEW t \in Tasks, CutShort(t)
    PROVE  Orderly' /\ Truth'
<1>1. /\ pc[t] # "idle" /\ pc'[t] = "idle" /\ todo'[t] = <<>>
      /\ overlap' = overlap /\ cuts' = cuts + 1
      /\ \A u \in Tasks \ {t} : pc'[u] = pc[u] /\ todo'[u] = todo[u] /\ got'[u] = got[u]
      /\ lock' = [c \in Channels |-> IF lock[c] = t THEN None ELSE lock[c]]
  BY DEF CutShort, Goto, KInv, Inv, Types
<1>2. todo[t] # <<>>
  BY <1>1 DEF KInv, WellTyped, Busy
<1>3. Moves(t) /\ Stands(t)'
  BY <1>1, <1>2 DEF Moves, Stands, Inside
<1>4. \A c \in Channels : lock'[c] \in {lock[c], None, t} /\ lock'[c] # t
  BY <1>1, StationAssumption DEF StationAssumption
<1>5. <<>> \in Seq(Plain) /\ ~InAllOff(<<>>)
  BY DEF InAllOff
<1>6. Orderly'
  BY <1>1, <1>3, <1>4, <1>5, OrderlyKeeps DEF KInv
<1>7. Truth'
  <2>1. \A c : ~Trusted(c)'
    BY <1>1 DEF Trusted, KInv, WellTyped, Counts
  <2>. QED
    BY <2>1 DEF Truth
<1>. QED
  BY <1>6, <1>7

\* A step of the all-off: it takes no lock, and concerns no selector.
LEMMA ForceTruth ==
    ASSUME KInv, NEW t \in Tasks, ForceOff(t)
    PROVE  Orderly' /\ Truth'
<1>1. PICK c : c = Head(todo[t]).channel
  OBVIOUS
<1>2. /\ todo[t] # <<>> /\ Head(todo[t]).do = "force" /\ InAllOff(todo[t])
      /\ pc[t] \in {"next", "forceRead", "forceStore"}
  BY DEF ForceOff, ForceWrite, ForceRead, ForceRecord, At, KInv, Orderly, Stands, InAllOff
<1>3. c \in Channels /\ c # Selector
  BY <1>1, <1>2, HeadItem, TailItems DEF KInv, GoodItems, SelectorItem
<1>4. /\ UNCHANGED <<lock, overlap>> /\ cuts' \in {cuts, cuts + 1}
      /\ \A d : Trusted(d)' => Trusted(d)
  <2>1. UNCHANGED <<lock, overlap>> /\ cuts' \in {cuts, cuts + 1}
    BY DEF ForceOff, ForceWrite, ForceRead, ForceRecord, histVars
  <2>. QED
    BY <2>1 DEF Trusted, KInv, WellTyped, Counts
<1>5. \A d \in Channels : lock'[d] \in {lock[d], None, t} /\ lock'[d] # t
  BY <1>2, <1>4 DEF KInv, Orderly, Locked, Inside
<1>6. CASE Done(t) \/ Fail(t)
  <2>1. \A u \in Tasks \ {t} : pc'[u] = pc[u] /\ todo'[u] = todo[u]
    BY <1>2, <1>6, DoneMoves DEF KInv
  <2>2. \A u \in Tasks \ {t} : got'[u] = got[u]
    BY DEF ForceOff, ForceWrite, ForceRead, ForceRecord, KInv, WellTyped, Locals
  <2>3. /\ todo'[t] \in Seq(Plain) \union Seq(Forced)
        /\ InAllOff(todo'[t]) => InAllOff(todo[t])
        /\ pc'[t] \in {"idle", "next"}
    BY <1>2, <1>6, RestKinds DEF KInv
  <2>4. Moves(t) /\ Stands(t)'
    BY <1>2, <1>4, <2>1, <2>2, <2>3 DEF Moves, Stands, Inside
  <2>5. Orderly'
    BY <1>5, <2>3, <2>4, OrderlyKeeps DEF KInv
  <2>6. /\ \A d \in Channels \ {c} : confirmed'[d] = confirmed[d] /\ Real(d)' = Real(d)
        /\ Trusted(c)' /\ lock'[c] = None => confirmed'[c] \in {Unknown, Real(c)'}
    <3>1. CASE ForceWrite(t) /\ DriverError(c) /\ on' \in {on, Switched(c, "Off")}
      <4>1. confirmed'[c] = Unknown /\ \A d \in Channels \ {c} : confirmed'[d] = confirmed[d]
        BY <1>3, <3>1, FaultLeaves
      <4>2. \A d \in Channels \ {c} : Real(d)' = Real(d)
        BY <1>3, <3>1, OneLine
      <4>. QED
        BY <4>1, <4>2
    <3>2. CASE ForceWrite(t) /\ Goto(t, "forceRead")
      BY <2>3, <3>2 DEF Goto, KInv, Inv, Types
    <3>3. CASE ForceRead(t)
      <4>1. UNCHANGED <<on, confirmed>>
        BY <3>3 DEF ForceRead, boardVars
      <4>2. \A d \in Channels : Real(d)' = Real(d)
        BY <4>1, RealSame DEF Closed
      <4>. QED
        BY <1>3, <1>4, <4>1, <4>2 DEF KInv, Truth
    <3>5. CASE /\ ForceWrite(t) /\ cuts' = cuts + 1 /\ UNCHANGED confirmed
               /\ on' \in {on, Switched(c, "Off")}
      <4>1. ~Trusted(c)'
        BY <3>5 DEF Trusted, KInv, WellTyped, Counts
      <4>2. \A d \in Channels \ {c} : Real(d)' = Real(d)
        BY <1>3, <3>5, OneLine
      <4>. QED
        BY <3>5, <4>1, <4>2
    <3>4. CASE ForceRecord(t)
      <4>1. Confirm(c, got[t]) /\ on' = on /\ pc[t] = "forceStore"
        BY <1>1, <3>4 DEF ForceRecord, At
      <4>2. confirmed'[c] = got[t] /\ \A d \in Channels \ {c} : confirmed'[d] = confirmed[d]
        BY <1>3, <4>1, ConfirmLeaves
      <4>3. \A d \in Channels : Real(d)' = Real(d)
        BY <4>1, RealSame DEF Closed
      <4>4. Trusted(c)' => got[t] = Real(c)
        BY <1>1, <1>4, <4>1 DEF Trusted, KInv, Truth
      <4>. QED
        BY <1>3, <4>2, <4>3, <4>4
    <3>. QED
      BY <1>1, <3>1, <3>2, <3>3, <3>4, <3>5 DEF ForceOff, ForceWrite
  <2>. QED
    BY <1>2, <1>3, <1>4, <2>3, <2>4, <2>5, <2>6, TruthKeeps
<1>7. ASSUME NEW where \in {"forceRead", "forceStore"}, Goto(t, where), UNCHANGED todo,
             \A u \in Tasks \ {t} : got'[u] = got[u],
             /\ \A d \in Channels \ {c} : confirmed'[d] = confirmed[d] /\ Real(d)' = Real(d)
             /\ Trusted(c)' /\ lock'[c] = None => confirmed'[c] \in {Unknown, Real(c)'},
             where = "forceStore" => got'[t] = Real(c)'
      PROVE  Orderly' /\ Truth'
  <2>1. pc'[t] = where /\ \A u \in Tasks \ {t} : pc'[u] = pc[u] /\ todo'[u] = todo[u]
    BY <1>7 DEF Goto, KInv, Inv, Types
  <2>2. Moves(t) /\ Stands(t)'
    BY <1>2, <1>4, <1>7, <2>1 DEF Moves, Stands, Inside
  <2>3. todo'[t] \in Seq(Plain) \union Seq(Forced) /\ (InAllOff(todo'[t]) => InAllOff(todo[t]))
    BY <1>7 DEF KInv, Orderly, Kinds
  <2>4. Orderly'
    BY <1>5, <2>2, <2>3, OrderlyKeeps DEF KInv
  <2>5. pc'[t] \in {"store", "forceStore"} =>
           Head(todo'[t]).channel = c /\ (Trusted(c)' => got'[t] = Real(c)')
    BY <1>1, <1>7, <2>1
  <2>6. Truth'
    BY <1>2, <1>3, <1>4, <1>7, <2>2, <2>5, TruthKeeps
  <2>. QED
    BY <2>4, <2>6
<1>8. CASE ForceWrite(t) /\ Goto(t, "forceRead") /\ UNCHANGED todo
  <2>1. (~Done(t) /\ ~Fail(t)) \/ Done(t) \/ Fail(t)
    OBVIOUS
  <2>2. CASE ~Done(t) /\ ~Fail(t)
    <3>1. on' = Switched(c, "Off") /\ confirmed' = [confirmed EXCEPT ![c] = Unknown] /\ got' = got
      BY <1>1, <1>8, <2>2 DEF ForceWrite
    <3>2. confirmed'[c] = Unknown /\ \A d \in Channels \ {c} : confirmed'[d] = confirmed[d]
      BY <1>3, <3>1 DEF KInv, WellTyped, Board
    <3>3. \A d \in Channels \ {c} : Real(d)' = Real(d)
      BY <1>3, <3>1, OneLine
    <3>. QED
      BY <1>7, <1>8, <3>1, <3>2, <3>3
  <2>. QED
    BY <1>6, <2>2
<1>9. CASE ForceRead(t) /\ ~Fail(t)
  <2>1. /\ UNCHANGED <<on, confirmed, todo>> /\ Goto(t, "forceStore")
        /\ got' = [got EXCEPT ![t] = Real(c)]
    BY <1>1, <1>9 DEF ForceRead, boardVars
  <2>2. \A d \in Channels : Real(d)' = Real(d)
    BY <2>1, RealSame DEF Closed
  <2>3. got'[t] = Real(c)' /\ \A u \in Tasks \ {t} : got'[u] = got[u]
    BY <1>3, <2>1, <2>2 DEF KInv, WellTyped, Locals
  <2>4. Trusted(c)' /\ lock'[c] = None => confirmed'[c] \in {Unknown, Real(c)'}
    BY <1>3, <1>4, <2>1, <2>2 DEF KInv, Truth
  <2>. QED
    BY <1>7, <2>1, <2>2, <2>3, <2>4
<1>. QED
  <2>1. ForceWrite(t) => Done(t) \/ Fail(t) \/ (Goto(t, "forceRead") /\ UNCHANGED todo)
    BY DEF ForceWrite
  <2>2. ForceRecord(t) => Done(t)
    BY DEF ForceRecord
  <2>. QED
    BY <1>6, <1>8, <1>9, <2>1, <2>2 DEF ForceOff

\* A call that finds others under way, and is or meets an all-off, is known for it.
LEMMA CallTruth ==
    ASSUME KInv, NEW t \in Tasks, Call(t)
    PROVE  Orderly' /\ Truth'
<1>1. PICK r \in Requests : todo' = [todo EXCEPT ![t] = r]
  BY DEF Call
<1>2. /\ UNCHANGED <<on, confirmed, lock, got, cuts>>
      /\ pc[t] = "idle" /\ pc' = [pc EXCEPT ![t] = "next"] /\ todo[t] = <<>>
      /\ overlap' = IF \A u \in Tasks \ {t} : pc[u] = "idle" THEN overlap
                    ELSE IF \E u \in Tasks : InAllOff(todo'[u]) THEN "allOff"
                    ELSE IF overlap = "none" THEN "calls" ELSE overlap
  BY DEF Call, boardVars, KInv, WellTyped, Busy
<1>3. /\ todo'[t] = r /\ pc'[t] = "next"
      /\ \A u \in Tasks \ {t} : pc'[u] = pc[u] /\ todo'[u] = todo[u]
  BY <1>1, <1>2 DEF KInv, Inv, Types
<1>4. Kinds'
  BY <1>3, RequestKinds DEF KInv, Orderly, Kinds
<1>5. \A u \in Tasks : Stands(u)'
  BY <1>3 DEF KInv, Orderly, Stands, Inside
<1>6. Locked'
  BY <1>2, <1>3 DEF KInv, Orderly, Locked, Inside
<1>7. Alone'
  <2>1. CASE \A u \in Tasks \ {t} : pc[u] = "idle"
    <3>1. \A u \in Tasks \ {t} : todo'[u] = <<>>
      BY <1>3, <2>1 DEF KInv, WellTyped, Busy
    <3>2. \A u \in Tasks \ {t} : ~InAllOff(todo'[u])
      BY <3>1 DEF InAllOff
    <3>. QED
      BY <3>1, <3>2 DEF Alone
  <2>2. CASE ~\A u \in Tasks \ {t} : pc[u] = "idle"
    <3>1. overlap' # "allOff" => ~\E u \in Tasks : InAllOff(todo'[u])
      BY <1>2, <2>2
    <3>. QED
      BY <3>1 DEF Alone
  <2>. QED
    BY <2>1, <2>2
<1>8. Truth'
  <2>1. overlap' # "allOff" => overlap # "allOff"
    BY <1>2
  <2>2. \A d : Real(d)' = Real(d)
    BY <1>2, RealSame DEF Closed
  <2>3. \A d : Trusted(d)' => Trusted(d)
    BY <1>2, <2>1 DEF Trusted
  <2>4. \A d \in Channels : Trusted(d)' /\ lock'[d] = None => confirmed'[d] \in {Unknown, Real(d)'}
    BY <1>2, <2>2, <2>3 DEF KInv, Truth
  <2>5. ASSUME NEW u \in Tasks, pc'[u] \in {"store", "forceStore"}, Trusted(Head(todo[u]).channel)'
        PROVE  got'[u] = Real(Head(todo[u]).channel)'
    <3>1. u # t /\ todo'[u] = todo[u] /\ pc'[u] = pc[u]
      BY <1>3, <2>5
    <3>2. Trusted(Head(todo[u]).channel) /\ pc[u] \in {"store", "forceStore"}
      BY <1>2, <2>1, <2>5, <3>1 DEF Trusted
    <3>3. got[u] = Real(Head(todo[u]).channel)
      BY <3>2 DEF KInv, Truth
    <3>. QED
      BY <1>2, <2>2, <3>1, <3>3
  <2>. QED
    BY <2>4, <2>5 DEF Truth
<1>. QED
  BY <1>4, <1>5, <1>6, <1>7, <1>8 DEF Orderly

LEMMA AroundTruth ==
    ASSUME KInv, Rested \/ KeyMoved \/ UNCHANGED vars
    PROVE  Orderly' /\ Truth'
<1>1. UNCHANGED <<on, confirmed, lock, pc, todo, got, overlap, cuts>>
  BY DEF Rested, KeyMoved, vars, boardVars, taskVars, histVars
<1>2. Orderly'
  BY <1>1 DEF KInv, Orderly, Kinds, Stands, Locked, Alone
<1>3. Truth'
  <2>1. \A d : Real(d)' = Real(d)
    BY <1>1, RealSame DEF Closed
  <2>2. \A d \in Channels : Trusted(d)' /\ lock'[d] = None => confirmed'[d] \in {Unknown, Real(d)'}
    BY <1>1, <2>1 DEF Trusted, KInv, Truth
  <2>3. ASSUME NEW u \in Tasks, pc'[u] \in {"store", "forceStore"}, Trusted(Head(todo[u]).channel)'
        PROVE  got'[u] = Real(Head(todo[u]).channel)'
    <3>1. Trusted(Head(todo[u]).channel) /\ pc[u] \in {"store", "forceStore"}
      BY <1>1, <2>3 DEF Trusted
    <3>2. got[u] = Real(Head(todo[u]).channel)
      BY <3>1 DEF KInv, Truth
    <3>. QED
      BY <1>1, <2>1, <3>2
  <2>. QED
    BY <2>2, <2>3 DEF Truth
<1>. QED
  BY <1>2, <1>3

LEMMA InitKInv == Init => KInv
<1> SUFFICES ASSUME Init PROVE KInv
  OBVIOUS
<1>1. Inv /\ WellTyped
  BY InitInv, InitTypes
<1>2. <<>> \in Seq(Plain) /\ ~InAllOff(<<>>)
  BY DEF InAllOff
<1>3. Orderly
  BY <1>2, StationAssumption DEF StationAssumption, Init, Orderly, Kinds, Stands, Locked, Alone, Inside
<1>4. Truth
  BY DEF Init, Truth
<1>. QED
  BY <1>1, <1>3, <1>4 DEF KInv

LEMMA NextKInv == KInv /\ [Next]_vars => KInv'
<1> SUFFICES ASSUME KInv, [Next]_vars PROVE KInv'
  OBVIOUS
<1>1. Inv' /\ WellTyped'
  BY NextStep, TypesStep DEF KInv
<1>2. ASSUME NEW t \in Tasks, Call(t) \/ Begin(t) \/ Check(t) \/ Set(t) \/ CutShort(t) \/ ForceOff(t)
      PROVE  Orderly' /\ Truth'
  <2>1. CASE Set(t)
    BY <2>1, EnterTruth, WriteBinaryTruth, BreakTruth, LookTruth, MakeTruth, ReadTruth,
       RecordTruth DEF Set
  <2>. QED
    BY <1>2, <2>1, CallTruth, BeginTruth, CheckTruth, CutShortTruth, ForceTruth
<1>3. Orderly' /\ Truth'
  BY <1>2, AroundTruth DEF Next
<1>. QED
  BY <1>1, <1>3 DEF KInv

\* What is recorded of a channel that nobody is inside of is real or unknown, for
\* any number of callers, stuck relays and driver errors, until a timeout drops an
\* operation half way or an all-off crosses another call (verify, fault, read_back).
THEOREM ConfirmedReal == Spec => []ConfirmedIsReal
<1>1. KInv => ConfirmedIsReal
  BY DEF KInv, Truth, Trusted, ConfirmedIsReal
<1>. QED
  BY <1>1, InitKInv, NextKInv, PTL DEF Spec

----------------------------------------------------------------------------
(* A selection that was answered with success.                             *)

\* Success is answered at the end of the last item, and by nothing else.
LEMMA AnsweredOk ==
    ASSUME KInv, NEW u \in Tasks, NEW t \in Tasks, result'[t] = "ok", result[t] # "ok",
           Call(u) \/ Begin(u) \/ Check(u) \/ Set(u) \/ CutShort(u) \/ ForceOff(u)
    PROVE  t = u /\ Done(t) /\ Len(todo[t]) = 1
<1>1. result \in [Tasks -> {"none", "ok", "error"}]
  BY DEF KInv, WellTyped, Locals
<1>2. CASE Done(u)
  BY <1>1, <1>2 DEF Done
<1>3. CASE Fail(u) /\ ~Done(u)
  BY <1>1, <1>3 DEF Fail
<1>4. \/ Done(u) \/ Fail(u) \/ UNCHANGED result
      \/ \E v \in {"none", "error"} : result' = [result EXCEPT ![u] = v]
  <2>1. CASE Enter(u) \/ WriteBinary(u) \/ Break(u) \/ Make(u)
    BY <2>1 DEF Enter, WriteBinary, Break, Make, Write
  <2>2. CASE Look(u) \/ Read(u) \/ Record(u)
    BY <2>2 DEF Look, Read, Record
  <2>3. CASE Call(u) \/ Begin(u) \/ Check(u) \/ CutShort(u)
    BY <2>3 DEF Call, Begin, Check, CutShort
  <2>4. CASE ForceOff(u)
    BY <2>4 DEF ForceOff, ForceWrite, ForceRead, ForceRecord
  <2>. QED
    BY <2>1, <2>2, <2>3, <2>4 DEF Set
<1>. QED
  BY <1>1, <1>2, <1>3, <1>4

\* The selector stands at a way exactly when that one is closed, alone.
LEMMA RealWay ==
    ASSUME OneWay, NEW w \in Ways, Real(Selector) = w
    PROVE  Closed = {w}
<1> DEFINE any(S) == CHOOSE x \in S : TRUE
<1>1. w # "Off" /\ w # Unknown
  BY StationAssumption DEF StationAssumption, Unknown
<1>2. Real(Selector) = IF Closed = {} THEN "Off"
                       ELSE IF Cardinality(Closed) = 1 THEN any(Closed) ELSE Unknown
  BY DEF Real
<1>3. Closed # {} /\ Cardinality(Closed) = 1 /\ w = any(Closed)
  <2>. HIDE DEF any
  <2>. QED
    BY <1>1, <1>2
<1>4. w \in Closed
  BY <1>3
<1>. QED
  BY <1>4 DEF OneWay

\* The step that answers a selection: nothing to do, or what was read is recorded.
LEMMA AnsweredSelection ==
    ASSUME KInv, NEW t \in Tasks, todo[t] # <<>>, Head(todo[t]).do = "select", Done(t), cuts = 0,
           result'[t] = "ok", result[t] # "ok",
           Call(t) \/ Begin(t) \/ Check(t) \/ Set(t) \/ CutShort(t) \/ ForceOff(t)
    PROVE  Closed' = {Head(todo[t]).want}
<1> DEFINE i == Head(todo[t])
<1>1. i.channel = Selector /\ i.want \in Ways /\ i.want # Unknown
  BY TailItems, StationAssumption DEF StationAssumption, Unknown, KInv, GoodItems, Proper,
                                      SelectorItem
<1>2. Trusted(Selector) /\ OneWay /\ Selector \in Channels
  BY DEF Trusted, KInv, Inv, Channels
<1>3. pc'[t] \in {"idle", "next"}
  BY DEF Done, Goto, KInv, Inv, Types
<1>4. ~Fail(t)
  BY DEF Fail, KInv, WellTyped, Locals
<1>5. CASE Enter(t)
  <2>1. confirmed[Selector] = i.want /\ lock[Selector] = None /\ on' = on
    <3>1. lock[Selector] = None /\ on' = on
      BY <1>1, <1>5 DEF Enter, Free
    <3>2. ~Goto(t, "read") /\ ~Goto(t, IF i.channel = Selector THEN "break" ELSE "write")
      BY <1>3 DEF Goto, KInv, Inv, Types
    <3>. QED
      BY <1>1, <1>4, <1>5, <3>1, <3>2 DEF Enter
  <2>2. Real(Selector) = i.want
    BY <1>1, <1>2, <2>1 DEF KInv, Truth
  <2>3. Closed = {i.want}
    BY <1>1, <1>2, <2>2, RealWay
  <2>. QED
    BY <2>1, <2>3 DEF Closed
<1>6. CASE Record(t)
  <2>1. got[t] = i.want /\ on' = on /\ pc[t] = "store"
    BY <1>4, <1>6 DEF Record, At
  <2>2. Real(Selector) = i.want
    BY <1>1, <1>2, <2>1 DEF KInv, Truth
  <2>3. Closed = {i.want}
    BY <1>1, <1>2, <2>2, RealWay
  <2>. QED
    BY <2>1, <2>3 DEF Closed
<1>7. CASE WriteBinary(t) \/ Break(t) \/ Make(t)
  <2>1. \E where \in {"read", "break", "look"} : Goto(t, where)
    BY <1>4, <1>7 DEF WriteBinary, Break, Make, Write
  <2>. QED
    BY <1>3, <2>1 DEF Goto, KInv, Inv, Types
<1>8. CASE Look(t) \/ Read(t)
  <2>1. \E where \in {"make", "store"} : Goto(t, where)
    BY <1>4, <1>8 DEF Look, Read
  <2>. QED
    BY <1>3, <2>1 DEF Goto, KInv, Inv, Types
<1>9. CASE Begin(t)
  <2>1. ~Skips(i) /\ i.do \notin {"off", "stop", "standby", "cut", "read"}
    BY DEF Skips
  <2>2. Goto(t, "check")
    BY <1>4, <1>9, <2>1 DEF Begin
  <2>. QED
    BY <1>3, <2>2 DEF Goto, KInv, Inv, Types
<1>10. CASE Check(t)
  <2>1. Goto(t, "wait")
    BY <1>4, <1>10 DEF Check
  <2>. QED
    BY <1>3, <2>1 DEF Goto, KInv, Inv, Types
<1>11. CASE Call(t) \/ CutShort(t)
  BY <1>11 DEF Call, CutShort, KInv, WellTyped, Locals
<1>12. ~ForceOff(t)
  BY DEF ForceOff, ForceWrite, ForceRead, ForceRecord, At, KInv, Orderly, Stands
<1>. QED
  BY <1>5, <1>6, <1>7, <1>8, <1>9, <1>10, <1>11, <1>12 DEF Set

\* A selection that is answered with success has its antenna closed and no other,
\* for any number of ways, callers and faults, until a timeout drops an operation
\* (set, select, verify).
THEOREM SelectionHolds == Spec => UncutSelection
<1> DEFINE A == \A t \in Tasks : cuts = 0 /\ result'[t] = "ok" /\ result[t] # "ok" /\ todo[t] # <<>>
                  /\ Last(todo[t]).do = "select" => Closed' = {Last(todo[t]).want}
<1>1. KInv /\ [Next]_vars => [A]_vars
  <2> SUFFICES ASSUME KInv, Next, NEW t \in Tasks, cuts = 0, result'[t] = "ok", result[t] # "ok",
                      todo[t] # <<>>, Last(todo[t]).do = "select"
               PROVE  Closed' = {Last(todo[t]).want}
    OBVIOUS
  <2>1. PICK u \in Tasks :
              Call(u) \/ Begin(u) \/ Check(u) \/ Set(u) \/ CutShort(u) \/ ForceOff(u)
    <3>1. ~Rested /\ ~KeyMoved
      BY DEF Rested, KeyMoved, taskVars
    <3>. QED
      BY <3>1 DEF Next
  <2>2. t = u /\ Done(t) /\ Len(todo[t]) = 1
    BY <2>1, AnsweredOk
  <2>3. Last(todo[t]) = Head(todo[t])
    <3>1. todo[t] \in Seq(GoodItems)
      BY DEF KInv, Inv, Types
    <3>. QED
      BY <2>2, <3>1 DEF Last
  <2>. QED
    BY <2>1, <2>2, <2>3, AnsweredSelection
<1>. QED
  BY <1>1, InitKInv, NextKInv, PTL DEF Spec, UncutSelection

----------------------------------------------------------------------------
(* No RF path is switched under power: who goes on towards a channel of an *)
(* RF path has seen the rig unkeyed.                                       *)

\* From the interlock on, up to the last write.
Cleared == {"check", "wait", "write", "break", "look", "make"}

\* The rig was seen unkeyed by a call that it found unkeyed, and by one that the
\* interlock let through.
SawUnkeyed ==
    \A t \in Tasks :
        /\ pc[t] # "idle" /\ key = "unkeyed" => seen[t]
        /\ pc[t] \in Cleared /\ Head(todo[t]).do # "read" /\ RfPath(Head(todo[t])) => seen[t]

\* A step of a task that is past the interlock, or that passes it now.
LEMMA SawKeeps ==
    ASSUME KInv, SawUnkeyed, NEW t \in Tasks, pc[t] # "idle", UNCHANGED <<key, seen>>,
           \A u \in Tasks \ {t} : pc'[u] = pc[u] /\ todo'[u] = todo[u],
           pc'[t] \in Cleared =>
              /\ todo'[t] = todo[t]
              /\ \/ pc[t] \in Cleared
                 \/ Head(todo[t]).do = "read" \/ ~RfPath(Head(todo[t])) \/ key = "unkeyed"
    PROVE  SawUnkeyed'
<1> SUFFICES ASSUME NEW u \in Tasks
             PROVE  /\ pc'[u] # "idle" /\ key = "unkeyed" => seen[u]
                    /\ pc'[u] \in Cleared /\ Head(todo'[u]).do # "read" /\ RfPath(Head(todo'[u]))
                           => seen[u]
  BY DEF SawUnkeyed, RfPath
<1>1. CASE u = t
  BY <1>1 DEF SawUnkeyed
<1>2. CASE u # t
  BY <1>2 DEF SawUnkeyed
<1>. QED
  BY <1>1, <1>2

LEMMA SawStep ==
    ASSUME KInv, SawUnkeyed, NEW t \in Tasks,
           Begin(t) \/ Check(t) \/ Set(t) \/ CutShort(t) \/ ForceOff(t)
    PROVE  SawUnkeyed'
<1> DEFINE i == Head(todo[t])
<1>1. pc[t] # "idle" /\ UNCHANGED <<key, seen>>
  <2>1. CASE Begin(t) \/ Check(t)
    BY <2>1 DEF Begin, Check, At, BoardUnchanged, histVars
  <2>2. CASE Enter(t) \/ WriteBinary(t) \/ Break(t) \/ Make(t)
    BY <2>2 DEF Enter, WriteBinary, Break, Make, At, SetUnchanged, histVars
  <2>3. CASE Look(t) \/ Read(t) \/ Record(t)
    BY <2>3 DEF Look, Read, Record, At, SetUnchanged, histVars
  <2>4. CASE CutShort(t)
    BY <2>4 DEF CutShort
  <2>5. CASE ForceOff(t)
    BY <2>5 DEF ForceOff, ForceWrite, ForceRead, ForceRecord, At, histVars
  <2>. QED
    BY <2>1, <2>2, <2>3, <2>4, <2>5 DEF Set
<1>2. todo[t] # <<>> /\ i \in GoodItems
  BY <1>1, TailItems DEF KInv, WellTyped, Busy
<1>3. ASSUME \/ Done(t) \/ Fail(t)
             \/ UNCHANGED pc /\ pc[t] = "next" /\ \E s : todo' = [todo EXCEPT ![t] = s]
      PROVE  SawUnkeyed'
  <2>1. pc'[t] \notin Cleared /\ \A u \in Tasks \ {t} : pc'[u] = pc[u] /\ todo'[u] = todo[u]
    <3>1. CASE Done(t) \/ Fail(t)
      <4>1. pc'[t] \in {"idle", "next"}
        BY <1>2, <3>1, RestKinds DEF KInv
      <4>. QED
        BY <1>2, <3>1, <4>1, DoneMoves DEF KInv, Cleared
    <3>2. CASE UNCHANGED pc /\ pc[t] = "next" /\ \E s : todo' = [todo EXCEPT ![t] = s]
      BY <3>2 DEF Cleared, KInv, Inv, Types
    <3>. QED
      BY <1>3, <3>1, <3>2
  <2>. QED
    BY <1>1, <2>1, SawKeeps
<1>4. ASSUME NEW where, Goto(t, where), UNCHANGED todo,
             \/ where \notin Cleared \/ pc[t] \in Cleared
             \/ i.do = "read" \/ ~RfPath(i) \/ key = "unkeyed"
      PROVE  SawUnkeyed'
  <2>1. pc'[t] = where /\ \A u \in Tasks \ {t} : pc'[u] = pc[u] /\ todo'[u] = todo[u]
    BY <1>4 DEF Goto, KInv, Inv, Types
  <2>. QED
    BY <1>1, <1>4, <2>1, SawKeeps
<1>5. CASE Begin(t)
  <2>1. pc[t] = "next"
    BY <1>5 DEF Begin, At
  <2>2. ~Refused(i) => ~RfPath(i) \/ key = "unkeyed"
    BY DEF Refused
  <2>3. i.do \in {"standby", "cut", "read"} => i.do = "read" \/ ~RfPath(i)
    BY <1>2 DEF GoodItems, Proper, RfPath
  <2>4. CASE Done(t) \/ Fail(t)
    BY <1>3, <2>4
  <2>5. CASE UNCHANGED pc /\ \E s : todo' = [todo EXCEPT ![t] = s]
    BY <1>3, <2>1, <2>5
  <2>6. CASE i.do \in {"standby", "cut", "read"} /\ Goto(t, "wait") /\ UNCHANGED todo
    BY <1>4, <2>3, <2>6
  <2>7. CASE ~Refused(i) /\ Goto(t, "check") /\ UNCHANGED todo
    BY <1>4, <2>2, <2>7
  <2>. QED
    BY <1>5, <2>4, <2>5, <2>6, <2>7 DEF Begin
<1>6. CASE Check(t)
  BY <1>3, <1>4, <1>6 DEF Check, At, Cleared
<1>7. CASE Enter(t)
  <2>1. pc[t] \in Cleared
    BY <1>7 DEF Enter, At, Cleared
  <2>. QED
    BY <1>3, <1>4, <1>7, <2>1 DEF Enter
<1>8. CASE WriteBinary(t) \/ Break(t) \/ Make(t)
  BY <1>3, <1>4, <1>8 DEF WriteBinary, Break, Make, Write, At, Cleared
<1>9. CASE Look(t) \/ Read(t) \/ Record(t)
  BY <1>3, <1>4, <1>9 DEF Look, Read, Record, At, Cleared
<1>10. CASE CutShort(t)
  <2>1. pc'[t] = "idle" /\ \A u \in Tasks \ {t} : pc'[u] = pc[u] /\ todo'[u] = todo[u]
    BY <1>10 DEF CutShort, Goto, KInv, Inv, Types
  <2>. QED
    BY <1>1, <2>1, SawKeeps DEF Cleared
<1>11. CASE ForceOff(t)
  BY <1>3, <1>4, <1>11 DEF ForceOff, ForceWrite, ForceRead, ForceRecord, Cleared
<1>. QED
  BY <1>5, <1>6, <1>7, <1>8, <1>9, <1>10, <1>11 DEF Set

LEMMA SawNext == KInv /\ SawUnkeyed /\ [Next]_vars => SawUnkeyed'
<1> SUFFICES ASSUME KInv, SawUnkeyed, [Next]_vars PROVE SawUnkeyed'
  OBVIOUS
<1>1. ASSUME NEW t \in Tasks, Call(t) PROVE SawUnkeyed'
  <2>1. /\ pc' = [pc EXCEPT ![t] = "next"] /\ key' = key
        /\ seen' = [seen EXCEPT ![t] = key = "unkeyed"]
        /\ \E r : todo' = [todo EXCEPT ![t] = r]
    BY <1>1 DEF Call
  <2>2. /\ pc'[t] = "next" /\ (seen'[t] <=> key = "unkeyed")
        /\ \A u \in Tasks \ {t} : pc'[u] = pc[u] /\ todo'[u] = todo[u] /\ seen'[u] = seen[u]
    BY <2>1 DEF KInv, Inv, Types, WellTyped, Counts
  <2> SUFFICES ASSUME NEW u \in Tasks
               PROVE  /\ pc'[u] # "idle" /\ key' = "unkeyed" => seen'[u]
                      /\ pc'[u] \in Cleared /\ Head(todo'[u]).do # "read" /\ RfPath(Head(todo'[u]))
                             => seen'[u]
    BY DEF SawUnkeyed, RfPath
  <2>3. CASE u = t
    BY <2>1, <2>2, <2>3 DEF Cleared
  <2>4. CASE u # t
    BY <2>1, <2>2, <2>4 DEF SawUnkeyed
  <2>. QED
    BY <2>3, <2>4
<1>2. CASE Rested \/ UNCHANGED vars
  <2>1. UNCHANGED <<pc, todo, key, seen>>
    BY <1>2 DEF Rested, vars, taskVars, histVars
  <2>. QED
    BY <2>1 DEF SawUnkeyed, RfPath
<1>3. CASE KeyMoved
  <2>1. UNCHANGED <<pc, todo>>
    BY <1>3 DEF KeyMoved, taskVars
  <2>2. \A t \in Tasks : seen'[t] = (seen[t] \/ (key' = "unkeyed" /\ pc[t] # "idle"))
    BY <1>3 DEF KeyMoved
  <2>. QED
    BY <2>1, <2>2 DEF SawUnkeyed, RfPath
<1>. QED
  BY <1>1, <1>2, <1>3, SawStep DEF Next

\* A call that never saw the rig unkeyed closes the line of no RF path: neither a
\* way, nor the amplifier's operate, nor the power of what is no radio, however
\* many callers, devices and faults there are (check_interlock, classify_on,
\* classify_channel).
THEOREM NothingHot == Spec => NoHotSwitch
<1> DEFINE A == \A t \in Tasks :
                  pc[t] \in {"write", "break", "make"} /\ pc'[t] # pc[t] /\ ~seen[t]
                      => on' \intersect RfLines \subseteq on
<1>1. KInv /\ SawUnkeyed /\ [Next]_vars => [A]_vars
  <2> SUFFICES ASSUME KInv, SawUnkeyed, Next, NEW t \in Tasks,
                      pc[t] \in {"write", "break", "make"}, pc'[t] # pc[t], ~seen[t]
               PROVE  on' \intersect RfLines \subseteq on
    OBVIOUS
  <2> DEFINE i == Head(todo[t])
  <2>1. i \in GoodItems /\ i.do # "read" /\ ~RfPath(i)
    <3>1. todo[t] # <<>> /\ i.do # "read"
      BY DEF KInv, Inv, Holds, Inside, Orderly, Stands
    <3>. QED
      BY <3>1, TailItems DEF KInv, SawUnkeyed, Cleared
  <2>2. pc[t] = "write" /\ i.channel \in Channels \ {Selector} /\ (i.want = "Off" \/ i.channel \in Radios)
    <3>1. Radios \subseteq Devices /\ Selector \notin Devices /\ "Off" \notin Ways
      BY StationAssumption DEF StationAssumption
    <3>2. pc[t] = "write" \/ (i.channel = Selector /\ i.want \in Ways)
      BY DEF KInv, Inv, Selects
    <3>3. pc[t] = "write" => i.channel # Selector
      BY DEF KInv, Inv, Selects
    <3>. QED
      BY <2>1, <3>1, <3>2, <3>3 DEF RfPath, GoodItems, Items
  <2>3. PICK u \in Tasks :
              Call(u) \/ Begin(u) \/ Check(u) \/ Set(u) \/ CutShort(u) \/ ForceOff(u)
    BY DEF Next, Rested, KeyMoved, taskVars
  <2>4. u = t
    <3> SUFFICES ASSUME u # t PROVE pc'[t] = pc[t]
      OBVIOUS
    <3>1. pc \in [Tasks -> {"idle", "next", "check", "wait", "write", "break", "look", "make",
                            "read", "store", "forceRead", "forceStore"}]
      BY DEF KInv, Inv, Types
    <3>2. \/ Done(u) \/ Fail(u) \/ UNCHANGED pc
          \/ \E where : pc' = [pc EXCEPT ![u] = where]
      <4>1. CASE Begin(u) \/ Check(u)
        BY <4>1 DEF Begin, Check, Goto
      <4>2. CASE Enter(u) \/ WriteBinary(u) \/ Break(u) \/ Make(u)
        BY <4>2 DEF Enter, WriteBinary, Break, Make, Write, Goto
      <4>3. CASE Look(u) \/ Read(u) \/ Record(u)
        BY <4>3 DEF Look, Read, Record, Goto
      <4>4. CASE CutShort(u) \/ Call(u)
        BY <4>4 DEF CutShort, Goto, Call
      <4>5. CASE ForceOff(u)
        BY <4>5 DEF ForceOff, ForceWrite, ForceRead, ForceRecord, Goto
      <4>. QED
        BY <2>3, <4>1, <4>2, <4>3, <4>4, <4>5 DEF Set
    <3>3. \E where : pc' = [pc EXCEPT ![u] = where]
      <4>1. Done(u) => \E where : pc' = [pc EXCEPT ![u] = where]
        BY DEF Done, Goto
      <4>2. Fail(u) => \E where : pc' = [pc EXCEPT ![u] = where]
        BY <4>1 DEF Fail, Goto
      <4>3. UNCHANGED pc => pc' = [pc EXCEPT ![u] = pc[u]]
        BY <3>1
      <4>. QED
        BY <3>2, <4>1, <4>2, <4>3
    <3>. QED
      BY <3>1, <3>3
  <2>5. on' \in {on, Switched(i.channel, i.want)}
    <3>1. WriteBinary(t) \/ CutShort(t)
      <4>1. ~Enter(t) /\ ~Break(t) /\ ~Look(t) /\ ~Make(t) /\ ~Read(t) /\ ~Record(t)
        BY <2>2 DEF Enter, Break, Look, Make, Read, Record, At
      <4>2. ~Call(t) /\ ~Begin(t) /\ ~Check(t)
        BY <2>2 DEF Call, Begin, Check, At
      <4>3. ~ForceOff(t)
        BY <2>2 DEF ForceOff, ForceWrite, ForceRead, ForceRecord, At
      <4>. QED
        BY <2>3, <2>4, <4>1, <4>2, <4>3 DEF Set
    <3>. QED
      BY <3>1 DEF WriteBinary, Write, CutShort, boardVars
  <2>6. CASE i.want = "Off"
    BY <2>5, <2>6 DEF Switched
  <2>7. CASE i.channel \in Radios
    <3>1. i.channel \notin RfLines
      BY <2>7, StationAssumption DEF StationAssumption, RfLines, Channels
    <3>. QED
      BY <2>5, <3>1 DEF Switched
  <2>. QED
    BY <2>2, <2>6, <2>7
<1>2. Init => SawUnkeyed
  BY DEF Init, SawUnkeyed, Cleared
<1>. QED
  BY <1>1, <1>2, InitKInv, NextKInv, SawNext, PTL DEF Spec, NoHotSwitch

----------------------------------------------------------------------------
(* No device is on without those it depends on, while calls come one after *)
(* the other: a call that takes devices off has those that depend on them  *)
(* go first.                                                               *)

Drops(i) == i.do \in {"off", "cut", "force"}

\* The items of a call that takes lines off, and those of every other call but a
\* power channel set off by hand.
Lowering == {i \in GoodItems : i.do \in {"off", "stop", "standby", "cut", "force"}}
Raising  == {i \in GoodItems :
                /\ i.do \in {"on", "step", "select", "set", "read"}
                /\ ~(i.do = "set" /\ i.channel \in Devices /\ i.want = "Off")}

\* What depends on a device that is to go off is off, or goes off before it.
Lowers(s, lines) ==
    \A n \in DOMAIN s : Drops(s[n]) =>
        \A d \in Devices : s[n].channel \in DependsOn[d] =>
            d \notin lines \/ \E m \in 1..(n - 1) : Drops(s[m]) /\ s[m].channel = d

Linked(lines) == \A d \in Devices \intersect lines : DependsOn[d] \subseteq lines

Calm == overlap = "none" /\ cuts = 0 /\ ~byHand /\ (forced => faults = 0)

Single == \A t, u \in Tasks : t # u => todo[t] = <<>> \/ todo[u] = <<>>

Tended(t) ==
    /\ todo[t] \in Seq(Raising) \union Seq(Lowering)
    /\ InAllOff(todo[t]) => forced
    /\ Lowers(todo[t], on)
    /\ pc[t] \in {"forceRead", "forceStore"} => Head(todo[t]).channel \notin on
    /\ pc[t] \in {"wait", "write"} /\ Head(todo[t]).do # "read" /\ Head(todo[t]).want = "On"
            /\ Head(todo[t]).channel \in Devices
        => DependsOn[Head(todo[t]).channel] \subseteq on
    /\ pc[t] \in {"check", "wait"} \union Inside => Head(todo[t]).do \notin {"off", "stop"}

Tidy == Calm => Linked(on) /\ Single /\ \A t \in Tasks : Tended(t)

\* Lists of items.
LEMMA RaisesNone ==
    ASSUME NEW s \in Seq(Raising), NEW lines
    PROVE  Lowers(s, lines)
<1>1. \A n \in DOMAIN s : s[n] \in Raising
  OBVIOUS
<1>. QED
  BY <1>1 DEF Lowers, Raising, Drops

LEMMA LowersLess ==
    ASSUME NEW s, NEW lines, NEW fewer, Lowers(s, lines), fewer \intersect Devices \subseteq lines
    PROVE  Lowers(s, fewer)
BY DEF Lowers

\* The first of a list goes off with nothing that depends on it.
LEMMA LowersHead ==
    ASSUME NEW s \in Seq(GoodItems), s # <<>>, NEW lines, Lowers(s, lines), Drops(Head(s)),
           NEW d \in Devices, Head(s).channel \in DependsOn[d]
    PROVE  d \notin lines
<1>1. 1 \in DOMAIN s /\ Head(s) = s[1]
  OBVIOUS
<1>. QED
  BY <1>1 DEF Lowers

\* The first of a list is gone, or was not there to go.
LEMMA LowersTail ==
    ASSUME NEW s \in Seq(GoodItems), s # <<>>, NEW lines, Lowers(s, lines),
           Drops(Head(s)) => Head(s).channel \notin lines \intersect Devices
    PROVE  Lowers(Tail(s), lines)
<1> DEFINE r == Tail(s)
<1>1. /\ r \in Seq(GoodItems) /\ Len(r) = Len(s) - 1 /\ Len(s) \in Nat /\ Head(s) = s[1]
      /\ \A n \in 1..Len(r) : r[n] = s[n + 1]
  OBVIOUS
<1> SUFFICES ASSUME NEW n \in DOMAIN r, Drops(r[n]), NEW d \in Devices,
                    r[n].channel \in DependsOn[d], d \in lines
             PROVE  \E m \in 1..(n - 1) : Drops(r[m]) /\ r[m].channel = d
  BY DEF Lowers
<1>2. n \in 1..Len(r) /\ n + 1 \in DOMAIN s /\ r[n] = s[n + 1] /\ n \in Nat
  <2>. HIDE DEF r
  <2>. QED
    BY <1>1
<1>3. PICK m \in 1..(n + 1 - 1) : Drops(s[m]) /\ s[m].channel = d
  BY <1>2 DEF Lowers
<1>4. m # 1
  BY <1>1, <1>3
<1>5. m - 1 \in 1..(n - 1) /\ m - 1 \in 1..Len(r) /\ r[m - 1] = s[m]
  <2>. HIDE DEF r
  <2>1. m \in Nat /\ m - 1 \in 1..(n - 1) /\ m - 1 \in 1..Len(r)
    BY <1>1, <1>2, <1>3, <1>4
  <2>2. r[m - 1] = s[m - 1 + 1]
    BY <1>1, <2>1
  <2>. QED
    BY <2>1, <2>2
<1>. QED
  BY <1>3, <1>5

LEMMA LowersBoth ==
    ASSUME NEW p \in Seq(GoodItems), NEW q \in Seq(GoodItems), NEW lines,
           Lowers(p, lines), Lowers(q, lines)
    PROVE  Lowers(p \o q, lines)
<1> DEFINE r == p \o q
<1>1. /\ r \in Seq(GoodItems) /\ Len(r) = Len(p) + Len(q) /\ Len(p) \in Nat /\ Len(q) \in Nat
      /\ \A n \in 1..Len(r) : r[n] = IF n <= Len(p) THEN p[n] ELSE q[n - Len(p)]
  OBVIOUS
<1>2. DOMAIN r = 1..Len(r) /\ DOMAIN p = 1..Len(p) /\ DOMAIN q = 1..Len(q)
  OBVIOUS
<1>. HIDE DEF r
<1>3. SUFFICES ASSUME NEW n \in DOMAIN r, Drops(r[n]), NEW d \in Devices,
                      r[n].channel \in DependsOn[d], d \in lines
               PROVE  \E m \in 1..(n - 1) : Drops(r[m]) /\ r[m].channel = d
  BY DEF Lowers, r
<1>4. CASE n <= Len(p)
  <2>1. n \in DOMAIN p /\ r[n] = p[n]
    BY <1>1, <1>2, <1>4
  <2>2. PICK m \in 1..(n - 1) : Drops(p[m]) /\ p[m].channel = d
    BY <1>3, <2>1 DEF Lowers
  <2>3. r[m] = p[m]
    BY <1>1, <1>2, <1>4, <2>2
  <2>. QED
    BY <2>2, <2>3
<1>5. CASE ~(n <= Len(p))
  <2>1. n - Len(p) \in DOMAIN q /\ r[n] = q[n - Len(p)]
    BY <1>1, <1>2, <1>5
  <2>2. PICK m \in 1..(n - Len(p) - 1) : Drops(q[m]) /\ q[m].channel = d
    BY <1>3, <2>1 DEF Lowers
  <2>3. m + Len(p) \in 1..(n - 1) /\ r[m + Len(p)] = q[m]
    BY <1>1, <1>2, <1>5, <2>2
  <2>. QED
    BY <2>2, <2>3
<1>. QED
  BY <1>4, <1>5

\* The first of a list is carried out otherwise, in the same place.
LEMMA LowersSame ==
    ASSUME NEW s \in Seq(GoodItems), s # <<>>, NEW lines, Lowers(s, lines), Drops(Head(s)),
           NEW i \in GoodItems, Drops(i), i.channel = Head(s).channel
    PROVE  Lowers(<<i>> \o Tail(s), lines)
<1> DEFINE r == <<i>> \o Tail(s)
<1>1. DOMAIN r = DOMAIN s /\ DOMAIN s = 1..Len(s) /\ Len(s) \in Nat /\ r[1] = i /\ Head(s) = s[1]
      /\ \A n \in 2..Len(s) : r[n] = s[n]
  OBVIOUS
<1>2. \A n \in DOMAIN s : r[n].channel = s[n].channel /\ (Drops(r[n]) <=> Drops(s[n]))
  <2>. HIDE DEF r
  <2> SUFFICES ASSUME NEW n \in DOMAIN s
               PROVE  r[n].channel = s[n].channel /\ (Drops(r[n]) <=> Drops(s[n]))
    OBVIOUS
  <2>1. n = 1 \/ n \in 2..Len(s)
    BY <1>1
  <2>. QED
    BY <1>1, <2>1
<1>. HIDE DEF r
<1>3. Lowers(r, lines)
  <2> SUFFICES ASSUME NEW n \in DOMAIN s, Drops(s[n]), NEW d \in Devices,
                      s[n].channel \in DependsOn[d], d \in lines
               PROVE  \E m \in 1..(n - 1) : Drops(r[m]) /\ r[m].channel = d
    BY <1>1, <1>2 DEF Lowers
  <2>1. PICK m \in 1..(n - 1) : Drops(s[m]) /\ s[m].channel = d
    BY DEF Lowers
  <2>2. m \in DOMAIN s
    BY <1>1, <2>1
  <2>. QED
    BY <1>2, <2>1, <2>2
<1>. QED
  BY <1>3 DEF r

\* A list made of an order in which dependents come first.
LEMMA LowersEach ==
    ASSUME NEW s \in Seq(Devices \union {Operate}), DependentsFirst(s),
           NEW do \in {"off", "force"}, NEW lines
    PROVE  Lowers(Each(do, s, "Off"), lines)
<1> DEFINE r == Each(do, s, "Off")
<1>1. DOMAIN r = DOMAIN s /\ \A n \in DOMAIN s : Drops(r[n]) /\ r[n].channel = s[n]
  BY DEF Each, Item, Drops
<1>2. DOMAIN s = 1..Len(s) /\ Len(s) \in Nat
  OBVIOUS
<1>. HIDE DEF r
<1>3. Lowers(r, lines)
  <2> SUFFICES ASSUME NEW n \in DOMAIN s, NEW d \in Devices, s[n] \in DependsOn[d]
               PROVE  \E m \in 1..(n - 1) : Drops(r[m]) /\ r[m].channel = d
    BY <1>1 DEF Lowers
  <2>1. PICK m \in 1..(n - 1) : s[m] = d
    BY DEF DependentsFirst
  <2>2. m \in DOMAIN s
    BY <1>2, <2>1
  <2>. QED
    BY <1>1, <2>1, <2>2
<1>. QED
  BY <1>3 DEF r

\* A device goes off behind all that depends on it.
LEMMA PowerOffOrder ==
    ASSUME NEW d \in Devices, NEW lines
    PROVE  PowerOff(d) \in Seq(Lowering) /\ Lowers(PowerOff(d), lines)
<1> DEFINE s == OffOrder(d)
<1>1. s \in Seq(Devices) /\ DependentsFirst(s)
  BY ItemsAssumption, OrderAssumption DEF ItemsAssumption, OrderAssumption
<1>. HIDE DEF s
<1>2. \A x \in Devices : Item("off", x, "Off") \in Lowering
  BY GoodOnes DEF Plain, Lowering, Item
<1>3. Each("off", s, "Off") \in Seq(Lowering)
  BY <1>1, <1>2 DEF Each
<1>4. Lowers(Each("off", s, "Off"), lines)
  BY <1>1, LowersEach
<1>. QED
  BY <1>3, <1>4 DEF PowerOff, s

\* What every call but a power channel set off by hand is made of.
LEMMA RequestOrder ==
    ASSUME NEW r \in Requests, r \notin OffByHand, NEW lines
    PROVE  r \in Seq(Raising) \union Seq(Lowering) /\ Lowers(r, lines)
<1>0. /\ Operate \notin Devices /\ \A d \in Devices : DependsOn[d] \subseteq Devices
      /\ "On" # "Off"
  BY StationAssumption DEF StationAssumption
<1>1. \A d \in Devices : PowerOff(d) \in Seq(Lowering) /\ Lowers(PowerOff(d), lines)
  BY PowerOffOrder
<1>2. AllOff \in Seq(Lowering) /\ Lowers(AllOff, lines)
  <2> DEFINE back == Reverse(OnOrder)
             s == <<Operate>> \o back
  <2>1. back \in Seq(Devices) /\ DependentsFirst(back)
    BY StationAssumption, OrderAssumption DEF StationAssumption, OrderAssumption, Reverse
  <2>. HIDE DEF back
  <2>2. /\ s \in Seq(Devices \union {Operate}) /\ s[1] = Operate
        /\ Len(s) = Len(back) + 1 /\ Len(back) \in Nat
        /\ \A n \in 2..Len(s) : s[n] = back[n - 1]
        /\ DOMAIN s = 1..Len(s) /\ DOMAIN back = 1..Len(back)
    BY <2>1
  <2>. HIDE DEF s
  <2>3. DependentsFirst(s)
    <3> SUFFICES ASSUME NEW n \in DOMAIN s, NEW d \in Devices, s[n] \in DependsOn[d]
                 PROVE  \E m \in 1..(n - 1) : s[m] = d
      BY DEF DependentsFirst
    <3>1. n \in 2..Len(s)
      BY <1>0, <2>2
    <3>2. n - 1 \in DOMAIN back /\ back[n - 1] \in DependsOn[d]
      BY <2>2, <3>1
    <3>3. PICK m \in 1..(n - 1 - 1) : back[m] = d
      BY <2>1, <3>2 DEF DependentsFirst
    <3>4. m + 1 \in 1..(n - 1) /\ m + 1 \in 2..Len(s) /\ m + 1 - 1 = m
      BY <2>2, <3>1, <3>3
    <3>. QED
      BY <2>2, <3>3, <3>4
  <2>4. AllOff = Each("force", s, "Off")
    BY DEF AllOff, s, back
  <2>5. \A x \in Devices \union {Operate} : Item("force", x, "Off") \in Lowering
    BY GoodOnes DEF Forced, Lowering, Item
  <2>6. AllOff \in Seq(Lowering)
    BY <2>2, <2>4, <2>5 DEF Each
  <2>. QED
    BY <2>2, <2>3, <2>4, <2>6, LowersEach
<1>3. \A d \in Devices : Item("on", d, "On") \in Raising
  BY GoodOnes DEF Plain, Raising, Item
<1>4. \A w \in Ways : Item("select", Selector, w) \in Raising
  BY GoodOnes DEF Plain, Raising, Item
<1>5. ASSUME NEW c \in Devices \union {Operate}, NEW v \in {"On", "Off"},
             r = <<Item("set", c, v)>>
      PROVE  Item("set", c, v) \in Raising
  <2>1. c \notin Devices \/ v # "Off"
    BY <1>5 DEF OffByHand
  <2>. QED
    BY <2>1, GoodOnes DEF Plain, Raising, Item
<1>6. \A c \in Channels : Item("read", c, Unknown) \in Raising
  BY GoodOnes DEF Plain, Raising, Item
<1>7. Profile \in Seq(Raising)
  <2>1. PowerStep \union SelectStep \subseteq Raising
    BY StationAssumption DEF StationAssumption, PowerStep, SelectStep, Raising, GoodItems,
                             SelectorItem, Proper, Channels
  <2>. QED
    BY <2>1, ItemsAssumption DEF ItemsAssumption
<1>8. StopProfile \in Seq(Lowering) /\ Lowers(StopProfile, lines)
  <2>1. StopStep \subseteq Lowering
    BY StationAssumption DEF StationAssumption, StopStep, Lowering, GoodItems,
                             SelectorItem, Proper, Channels
  <2>2. StopProfile \in Seq(StopStep)
    BY ItemsAssumption DEF ItemsAssumption
  <2>3. \A n \in DOMAIN StopProfile : StopProfile[n] \in StopStep
    BY <2>2
  <2>4. Lowers(StopProfile, lines)
    BY <2>3 DEF Lowers, StopStep, Drops
  <2>. QED
    BY <2>1, <2>2, <2>4
<1>9. \/ \E d \in Devices : r = PowerOff(d)
      \/ \E d \in Devices : r = <<Item("on", d, "On")>>
      \/ \E w \in Ways : r = <<Item("select", Selector, w)>>
      \/ \E c \in Devices \union {Operate}, v \in {"On", "Off"} : r = <<Item("set", c, v)>>
      \/ r \in {Profile, StopProfile, AllOff}
      \/ \E c \in Channels : r = <<Item("read", c, Unknown)>>
  BY DEF Requests
<1>10. r \in Seq(Raising) \/ (r \in Seq(Lowering) /\ Lowers(r, lines))
  <2>1. \A i \in Raising : <<i>> \in Seq(Raising)
    OBVIOUS
  <2>2. CASE \E c \in Devices \union {Operate}, v \in {"On", "Off"} : r = <<Item("set", c, v)>>
    BY <1>5, <2>1, <2>2
  <2>3. CASE \E d \in Devices : r = <<Item("on", d, "On")>>
    BY <1>3, <2>1, <2>3
  <2>4. CASE \E w \in Ways : r = <<Item("select", Selector, w)>>
    BY <1>4, <2>1, <2>4
  <2>5. CASE \E c \in Channels : r = <<Item("read", c, Unknown)>>
    BY <1>6, <2>1, <2>5
  <2>. QED
    BY <1>1, <1>2, <1>7, <1>8, <1>9, <2>2, <2>3, <2>4, <2>5
<1>. QED
  BY <1>10, RaisesNone

\* What has gone wrong, or is forced, remains so.
LEMMA CalmBefore ==
    ASSUME KInv, Calm', overlap' = "none" => overlap = "none", cuts' \in {cuts, cuts + 1},
           byHand => byHand', forced => forced', faults' \in {faults, faults + 1}
    PROVE  Calm
<1>1. cuts \in Nat /\ faults \in Nat
  BY DEF KInv, WellTyped, Counts
<1>2. cuts' = 0 => cuts = 0
  BY <1>1
<1>3. faults' = 0 => faults = 0
  BY <1>1
<1>. QED
  BY <1>2, <1>3 DEF Calm

\* A task without items is tended.
LEMMA IdleTended ==
    ASSUME NEW t \in Tasks, todo'[t] = <<>>, pc'[t] \in {"idle", "next"}
    PROVE  Tended(t)'
<1>1. <<>> \in Seq(Raising) /\ ~InAllOff(<<>>)
  BY DEF InAllOff
<1>2. Lowers(<<>>, on')
  BY DEF Lowers
<1>. QED
  BY <1>1, <1>2 DEF Tended, Inside

\* The step of the one task that is at work.
LEMMA TidyKeeps ==
    ASSUME KInv, Tidy, NEW t \in Tasks, todo[t] # <<>>,
           \A u \in Tasks \ {t} : pc'[u] = pc[u] /\ todo'[u] = todo[u],
           UNCHANGED <<overlap, byHand, forced>>,
           cuts' \in {cuts, cuts + 1}, faults' \in {faults, faults + 1},
           Calm /\ Calm' => Linked(on)' /\ Tended(t)'
    PROVE  Tidy'
<1> SUFFICES ASSUME Calm' PROVE Linked(on)' /\ Single' /\ \A u \in Tasks : Tended(u)'
  BY DEF Tidy
<1>1. Calm
  BY CalmBefore
<1>2. \A u \in Tasks \ {t} : todo[u] = <<>> /\ pc[u] = "idle"
  BY <1>1 DEF Tidy, Single, KInv, WellTyped, Busy
<1>3. \A u \in Tasks \ {t} : todo'[u] = <<>> /\ pc'[u] = "idle"
  BY <1>2
<1>4. \A u \in Tasks \ {t} : Tended(u)'
  BY <1>3, IdleTended
<1>. QED
  BY <1>1, <1>3, <1>4 DEF Single

\* With nobody inside a channel, what is recorded of it is real or unknown.
LEMMA CalmSeen ==
    ASSUME KInv, Tidy, Calm, NEW t \in Tasks, todo[t] # <<>>, pc[t] \notin Inside, NEW c \in Devices
    PROVE  /\ confirmed[c] = "On" => c \in on
           /\ confirmed[c] = "Off" => c \notin on
<1>1. lock[c] = None
  <2>1. c \in Channels
    BY DEF Channels
  <2>2. \A u \in Tasks \ {t} : todo[u] = <<>>
    BY DEF Tidy, Single
  <2>3. \A u \in Tasks : pc[u] \notin Inside
    BY <2>2 DEF KInv, Inv, Holds
  <2>4. lock[c] \notin Tasks
    BY <2>1, <2>3 DEF KInv, Orderly, Locked
  <2>. QED
    BY <2>1, <2>4 DEF KInv, Inv, Types
<1>2. confirmed[c] \in {Unknown, Real(c)}
  BY <1>1 DEF KInv, Truth, Trusted, Calm, Channels
<1>3. Real(c) = IF c \in on THEN "On" ELSE "Off"
  BY StationAssumption DEF StationAssumption, Real
<1>. QED
  BY <1>2, <1>3 DEF Unknown

\* An item is done with: a line that was to go off is off.
LEMMA DoneTended ==
    ASSUME KInv, NEW t \in Tasks, Tended(t), todo[t] # <<>>, Done(t), forced' = forced,
           Lowers(todo[t], on'), Drops(Head(todo[t])) => Head(todo[t]).channel \notin on' \intersect Devices
    PROVE  Tended(t)'
<1>1. todo[t] \in Seq(GoodItems)
  BY DEF KInv, Inv, Types
<1>2. todo'[t] = Tail(todo[t]) /\ pc'[t] \in {"idle", "next"}
  BY DEF Done, Goto, KInv, Inv, Types
<1>3. Lowers(Tail(todo[t]), on')
  BY <1>1, LowersTail
<1>4. Tail(todo[t]) \in Seq(Raising) \union Seq(Lowering)
  BY DEF Tended
<1>5. InAllOff(todo'[t]) => forced'
  BY RestKinds DEF KInv, Tended
<1>. QED
  BY <1>2, <1>3, <1>4, <1>5 DEF Tended, Inside

\* An item has failed, other than one of the all-off.
LEMMA FailTended ==
    ASSUME KInv, NEW t \in Tasks, Tended(t), todo[t] # <<>>, Fail(t), forced' = forced,
           Lowers(todo[t], on'), Head(todo[t]).do # "force"
    PROVE  Tended(t)'
<1>1. CASE Head(todo[t]).do = "standby"
  <2>1. Done(t) /\ ~Drops(Head(todo[t]))
    BY <1>1 DEF Fail, Drops
  <2>. QED
    BY <2>1, DoneTended
<1>2. CASE Head(todo[t]).do # "standby"
  <2>1. todo'[t] = <<>> /\ pc'[t] = "idle"
    BY <1>2 DEF Fail, Goto, KInv, Inv, Types
  <2>. QED
    BY <2>1, IdleTended
<1>. QED
  BY <1>1, <1>2

\* An item goes on.
LEMMA GoTended ==
    ASSUME KInv, NEW t \in Tasks, Tended(t), NEW where, Goto(t, where),
           UNCHANGED <<todo, forced>>, Lowers(todo[t], on'),
           where \in {"forceRead", "forceStore"} => Head(todo[t]).channel \notin on',
           where \in {"wait", "write"} /\ Head(todo[t]).do # "read" /\ Head(todo[t]).want = "On"
                   /\ Head(todo[t]).channel \in Devices
               => DependsOn[Head(todo[t]).channel] \subseteq on',
           where \in {"check", "wait"} \union Inside => Head(todo[t]).do \notin {"off", "stop"}
    PROVE  Tended(t)'
<1>1. pc'[t] = where /\ todo'[t] = todo[t]
  BY DEF Goto, KInv, Inv, Types
<1>2. InAllOff(todo'[t]) => forced'
  BY DEF Tended
<1>. QED
  BY <1>1, <1>2 DEF Tended

LEMMA OthersStay ==
    ASSUME KInv, NEW t \in Tasks, todo[t] # <<>>,
           Done(t) \/ Fail(t) \/ \E where : Goto(t, where) /\ UNCHANGED todo
    PROVE  \A u \in Tasks \ {t} : pc'[u] = pc[u] /\ todo'[u] = todo[u]
<1>1. CASE Done(t) \/ Fail(t)
  BY <1>1, DoneMoves DEF KInv
<1>2. CASE \E where : Goto(t, where) /\ UNCHANGED todo
  BY <1>2 DEF Goto, KInv, Inv, Types
<1>. QED
  BY <1>1, <1>2

\* Lists that are put in the place of an item.
LEMMA PutTended ==
    ASSUME KInv, NEW t \in Tasks, NEW r \in Seq(Lowering), todo' = [todo EXCEPT ![t] = r],
           pc'[t] = "next", r # <<>>, Head(r).do # "force", Lowers(r, on')
    PROVE  Tended(t)'
<1>1. todo'[t] = r
  BY DEF KInv, Inv, Types
<1>. QED
  BY <1>1 DEF Tended, InAllOff, Inside

LEMMA BeginTidy ==
    ASSUME KInv, Tidy, NEW t \in Tasks, Begin(t)
    PROVE  Tidy'
<1> DEFINE i == Head(todo[t])
<1>1. /\ UNCHANGED <<on, overlap, byHand, forced, cuts, faults>>
      /\ pc[t] = "next" /\ pc[t] \notin Inside /\ todo[t] # <<>> /\ i.do # "force"
  BY DEF Begin, At, BoardUnchanged, boardVars, histVars, Inside
<1>2. i \in GoodItems /\ todo[t] \in Seq(GoodItems)
  BY <1>1, TailItems DEF KInv, Inv, Types
<1>3. Calm => Tended(t) /\ Linked(on)' /\ Lowers(todo[t], on')
  BY <1>1 DEF Tidy, Linked, Tended
<1>4. CASE Skips(i) /\ Done(t)
  <2>1. Calm => (Drops(i) => i.channel \notin on)
    <3>1. Drops(i) => i.channel \in Devices /\ confirmed[i.channel] = "Off"
      BY <1>1, <1>2, <1>4 DEF Drops, Skips, GoodItems, Proper
    <3>. QED
      BY <1>1, <3>1, CalmSeen
  <2>2. Calm => Tended(t)'
    BY <1>1, <1>3, <1>4, <2>1, DoneTended
  <2>. QED
    BY <1>1, <1>3, <1>4, <2>2, OthersStay, TidyKeeps
<1>5. CASE Fail(t)
  <2>1. Calm => Tended(t)'
    BY <1>1, <1>3, <1>5, FailTended
  <2>. QED
    BY <1>1, <1>3, <1>5, <2>1, OthersStay, TidyKeeps
<1>6. CASE /\ i.do = "off" /\ UNCHANGED <<pc, result>>
           /\ todo' = [todo EXCEPT ![t] =
                (IF i.channel = Amp THEN <<Item("standby", Operate, "Off")>> ELSE <<>>)
                    \o <<Item("cut", i.channel, "Off")>> \o Tail(@)]
  <2> DEFINE standby == Item("standby", Operate, "Off")
             cut == Item("cut", i.channel, "Off")
             rest == <<cut>> \o Tail(todo[t])
             r == IF i.channel = Amp THEN <<standby>> \o rest ELSE rest
  <2>1. /\ standby \in Lowering /\ cut \in Lowering /\ Drops(cut) /\ Drops(i) /\ ~Drops(standby)
        /\ cut.channel = i.channel /\ standby.do = "standby" /\ cut.do = "cut"
    BY <1>2, <1>6, GoodOnes DEF Plain, Lowering, Item, Drops, GoodItems, Proper
  <2>. HIDE DEF standby, cut
  <2>2. ASSUME Calm PROVE todo[t] \in Seq(Lowering)
    <3>1. todo[t] \notin Seq(Raising)
      <4>1. i \notin Raising
        BY <1>6 DEF Raising
      <4>. QED
        BY <1>1, <4>1
    <3>. QED
      BY <1>3, <2>2, <3>1 DEF Tended
  <2>3. ASSUME Calm
        PROVE  /\ r \in Seq(Lowering) /\ r # <<>> /\ Head(r).do # "force" /\ Lowers(r, on')
    <3>1. rest \in Seq(Lowering) /\ Head(rest) = cut /\ rest # <<>>
      BY <1>1, <2>1, <2>2, <2>3
    <3>2. Lowers(rest, on')
      BY <1>1, <1>2, <1>3, <2>1, <2>3, LowersSame DEF Lowering
    <3>. HIDE DEF rest
    <3>3. Lowers(<<standby>>, on')
      <4>1. \A n \in DOMAIN <<standby>> : ~Drops(<<standby>>[n])
        BY <2>1
      <4>. QED
        BY <4>1 DEF Lowers
    <3>4. Lowering \subseteq GoodItems
      BY DEF Lowering
    <3>5. /\ <<standby>> \o rest \in Seq(Lowering) /\ Head(<<standby>> \o rest) = standby
          /\ <<standby>> \o rest # <<>>
      BY <2>1, <3>1
    <3>6. <<standby>> \in Seq(GoodItems) /\ rest \in Seq(GoodItems)
      BY <2>1, <3>1, <3>4
    <3>7. Lowers(<<standby>> \o rest, on')
      BY <3>2, <3>3, <3>6, LowersBoth
    <3>. QED
      BY <2>1, <3>1, <3>2, <3>5, <3>7
  <2>4. todo' = [todo EXCEPT ![t] = r]
    <3>1. Tail(todo[t]) \in Seq(GoodItems)
      BY <1>1, <1>2
    <3>2. <<>> \o <<cut>> \o Tail(todo[t]) = rest
      <4>1. cut \in GoodItems
        BY <2>1 DEF Lowering
      <4>. QED
        BY <3>1, <4>1
    <3>3. <<standby>> \o <<cut>> \o Tail(todo[t]) = <<standby>> \o rest
      <4>1. cut \in GoodItems /\ standby \in GoodItems
        BY <2>1 DEF Lowering
      <4>. QED
        BY <3>1, <4>1
    <3>4. todo' = [todo EXCEPT ![t] =
                     (IF i.channel = Amp THEN <<standby>> ELSE <<>>) \o <<cut>> \o Tail(todo[t])]
      BY <1>6 DEF standby, cut
    <3>. QED
      BY <3>2, <3>3, <3>4
  <2>. HIDE DEF r
  <2>5. Calm => Tended(t)'
    BY <1>1, <1>6, <2>3, <2>4, PutTended
  <2>6. \A u \in Tasks \ {t} : pc'[u] = pc[u] /\ todo'[u] = todo[u]
    BY <1>6, <2>4 DEF KInv, Inv, Types
  <2>. QED
    BY <1>1, <1>3, <2>5, <2>6, TidyKeeps
<1>7. CASE /\ i.do = "stop" /\ UNCHANGED <<pc, result>>
           /\ todo' = [todo EXCEPT ![t] = PowerOff(i.channel) \o Tail(@)]
  <2> DEFINE first == PowerOff(i.channel)
             rest == Tail(todo[t])
             r == first \o rest
  <2>1. i.channel \in Devices /\ ~Drops(i)
    BY <1>2, <1>7 DEF GoodItems, Proper, Drops
  <2>2. /\ first \in Seq(Lowering) /\ Lowers(first, on') /\ first \in Seq(GoodItems)
        /\ first # <<>> /\ first \in Seq(Plain)
    BY <2>1, PowerOffItems, PowerOffOrder
  <2>. HIDE DEF first
  <2>3. ASSUME Calm
        PROVE  /\ r \in Seq(Lowering) /\ r # <<>> /\ Head(r).do # "force" /\ Lowers(r, on')
    <3>1. rest \in Seq(Lowering) /\ rest \in Seq(GoodItems)
      <4>1. i \notin Raising
        BY <1>7 DEF Raising
      <4>2. todo[t] \in Seq(Lowering)
        BY <1>1, <1>3, <2>3, <4>1 DEF Tended
      <4>. QED
        BY <1>1, <1>2, <4>2
    <3>2. Lowers(rest, on')
      BY <1>1, <1>2, <1>3, <2>1, <2>3, LowersTail
    <3>. HIDE DEF rest
    <3>3. r \in Seq(Lowering) /\ r # <<>> /\ Head(r) = Head(first) /\ Head(first) \in Plain
      BY <2>2, <3>1
    <3>4. Lowers(r, on')
      BY <2>2, <3>1, <3>2, LowersBoth
    <3>. QED
      BY <3>3, <3>4 DEF Plain
  <2>4. todo' = [todo EXCEPT ![t] = r]
    BY <1>7 DEF first
  <2>. HIDE DEF r
  <2>5. Calm => Tended(t)'
    BY <1>1, <1>7, <2>3, <2>4, PutTended
  <2>6. \A u \in Tasks \ {t} : pc'[u] = pc[u] /\ todo'[u] = todo[u]
    BY <1>7, <2>4 DEF KInv, Inv, Types
  <2>. QED
    BY <1>1, <1>3, <2>5, <2>6, TidyKeeps
<1>8. CASE i.do \in {"standby", "cut", "read"} /\ Goto(t, "wait") /\ UNCHANGED <<todo, result>>
  <2>1. i.do # "read" => i.want # "On"
    BY <1>2, <1>8 DEF GoodItems, Proper
  <2>2. Calm => Tended(t)'
    BY <1>1, <1>3, <1>8, <2>1, GoTended
  <2>. QED
    BY <1>1, <1>3, <1>8, <2>2, OthersStay, TidyKeeps
<1>9. CASE /\ i.do \in {"on", "step", "select", "set"}
           /\ Goto(t, "check") /\ UNCHANGED <<todo, result>>
  <2>1. Calm => Tended(t)'
    BY <1>1, <1>3, <1>9, GoTended
  <2>. QED
    BY <1>1, <1>3, <1>9, <2>1, OthersStay, TidyKeeps
<1>. QED
  BY <1>4, <1>5, <1>6, <1>7, <1>8, <1>9 DEF Begin

LEMMA CheckTidy ==
    ASSUME KInv, Tidy, NEW t \in Tasks, Check(t)
    PROVE  Tidy'
<1> DEFINE i == Head(todo[t])
<1>1. /\ UNCHANGED <<on, overlap, byHand, forced, cuts, faults>>
      /\ pc[t] = "check" /\ pc[t] \notin Inside /\ todo[t] # <<>> /\ i.do # "force"
  BY DEF Check, At, BoardUnchanged, boardVars, histVars, Inside, KInv, Orderly, Stands
<1>2. Calm => Tended(t) /\ Linked(on)' /\ Lowers(todo[t], on') /\ i.do \notin {"off", "stop"}
  BY <1>1 DEF Tidy, Linked, Tended
<1>3. CASE Allowed(i) /\ Goto(t, "wait") /\ UNCHANGED <<todo, result>>
  <2>1. Calm /\ i.want = "On" /\ i.channel \in Devices => DependsOn[i.channel] \subseteq on'
    <3> SUFFICES ASSUME Calm, i.want = "On", i.channel \in Devices, NEW d \in DependsOn[i.channel]
                 PROVE  d \in on
      BY <1>1
    <3>1. d \in Devices /\ confirmed[d] = "On"
      BY <1>3, StationAssumption DEF StationAssumption, Allowed
    <3>. QED
      BY <1>1, <3>1, CalmSeen
  <2>2. Calm => Tended(t)'
    BY <1>1, <1>2, <1>3, <2>1, GoTended
  <2>. QED
    BY <1>1, <1>2, <1>3, <2>2, OthersStay, TidyKeeps
<1>4. CASE Fail(t)
  <2>1. Calm => Tended(t)'
    BY <1>1, <1>2, <1>4, FailTended
  <2>. QED
    BY <1>1, <1>2, <1>4, <2>1, OthersStay, TidyKeeps
<1>. QED
  BY <1>3, <1>4 DEF Check

LEMMA EnterTidy ==
    ASSUME KInv, Tidy, NEW t \in Tasks, Enter(t)
    PROVE  Tidy'
<1> DEFINE i == Head(todo[t])
<1>1. /\ UNCHANGED <<on, overlap, byHand, forced, cuts, faults>>
      /\ pc[t] = "wait" /\ todo[t] # <<>> /\ i.do # "force"
  BY DEF Enter, At, SetUnchanged, histVars, KInv, Orderly, Stands
<1>2. Calm => /\ Tended(t) /\ Linked(on)' /\ Lowers(todo[t], on') /\ i.do \notin {"off", "stop"}
              /\ i.do # "read" /\ i.want = "On" /\ i.channel \in Devices
                    => DependsOn[i.channel] \subseteq on'
  BY <1>1 DEF Tidy, Linked, Tended
<1>3. CASE Fail(t)
  <2>1. Calm => Tended(t)'
    BY <1>1, <1>2, <1>3, FailTended
  <2>. QED
    BY <1>1, <1>2, <1>3, <2>1, OthersStay, TidyKeeps
<1>4. CASE i.do = "select" /\ Done(t)
  <2>1. Calm => Tended(t)'
    BY <1>1, <1>2, <1>4, DoneTended DEF Drops
  <2>. QED
    BY <1>1, <1>2, <1>4, <2>1, OthersStay, TidyKeeps
<1>5. ASSUME NEW where, Goto(t, where), UNCHANGED todo, where \in {"read", "write", "break"}
      PROVE  Tidy'
  <2>1. Calm => Tended(t)'
    BY <1>1, <1>2, <1>5, GoTended
  <2>. QED
    BY <1>1, <1>2, <1>5, <2>1, OthersStay, TidyKeeps
<1>. QED
  BY <1>3, <1>4, <1>5 DEF Enter

\* A write that leaves the lines of the devices in order.
LEMMA WriteTidy ==
    ASSUME KInv, Tidy, NEW t \in Tasks, pc[t] \in Inside, NEW line, NEW value,
           NEW where \in {"read", "break"}, Write(t, line, value, where), SetUnchanged,
           Calm => Linked(on)' /\ Lowers(todo[t], on')
    PROVE  Tidy'
<1> DEFINE i == Head(todo[t])
<1>1. /\ UNCHANGED <<overlap, byHand, forced, cuts>> /\ faults' \in {faults, faults + 1}
      /\ todo[t] # <<>> /\ i.do # "force"
  BY DEF Write, SetUnchanged, histVars, KInv, Inv, Holds, Orderly, Stands
<1>2. Calm => Tended(t) /\ i.do \notin {"off", "stop"}
  BY DEF Tidy, Tended
<1>3. CASE Fail(t)
  <2>1. Calm => Tended(t)'
    BY <1>1, <1>2, <1>3, FailTended
  <2>. QED
    BY <1>1, <1>3, <2>1, OthersStay, TidyKeeps
<1>4. CASE Goto(t, where) /\ UNCHANGED todo
  <2>1. Calm => Tended(t)'
    BY <1>1, <1>2, <1>4, GoTended
  <2>. QED
    BY <1>1, <1>4, <2>1, OthersStay, TidyKeeps
<1>. QED
  BY <1>3, <1>4 DEF Write

\* What a line of no device does to the devices.
LEMMA OtherLine ==
    ASSUME Linked(on), NEW s, Lowers(s, on), on' \intersect Devices = on \intersect Devices
    PROVE  Linked(on)' /\ Lowers(s, on')
<1>1. \A d \in Devices : DependsOn[d] \subseteq Devices
  BY StationAssumption DEF StationAssumption
<1>2. Linked(on)'
  BY <1>1 DEF Linked
<1>. QED
  BY <1>2, LowersLess

\* A device that goes off, with nothing left on that depends on it.
LEMMA LineOff ==
    ASSUME Linked(on), NEW s \in Seq(GoodItems), s # <<>>, Lowers(s, on), Drops(Head(s)),
           on' \in {on, Switched(Head(s).channel, "Off")}
    PROVE  Linked(on)' /\ Lowers(s, on')
<1>1. \A d \in Devices : Head(s).channel \in DependsOn[d] => d \notin on
  BY LowersHead
<1>2. on' \subseteq on /\ on \ {Head(s).channel} \subseteq on'
  BY DEF Switched
<1>3. Linked(on)'
  BY <1>1, <1>2 DEF Linked
<1>. QED
  BY <1>2, <1>3, LowersLess

LEMMA WriteBinaryTidy ==
    ASSUME KInv, Tidy, NEW t \in Tasks, WriteBinary(t)
    PROVE  Tidy'
<1> DEFINE i == Head(todo[t])
<1>1. /\ pc[t] = "write" /\ pc[t] \in Inside /\ todo[t] # <<>> /\ i.do \notin {"force", "read"}
      /\ i.channel # Selector /\ SetUnchanged /\ Write(t, i.channel, i.want, "read")
      /\ on' \in {on, Switched(i.channel, i.want)}
  BY DEF WriteBinary, Write, At, Inside, KInv, Inv, Selects, Orderly, Stands
<1>2. /\ i \in GoodItems /\ todo[t] \in Seq(GoodItems)
      /\ Operate \notin Devices /\ Operate \notin Ways /\ i.channel \in Channels /\ "On" # "Off"
  BY <1>1, TailItems, HeadItem, StationAssumption DEF StationAssumption, KInv, Inv, Types, Channels
<1>3. Calm => Linked(on)' /\ Lowers(todo[t], on')
  <2> SUFFICES ASSUME Calm PROVE Linked(on)' /\ Lowers(todo[t], on')
    OBVIOUS
  <2>1. Tended(t) /\ Linked(on) /\ Lowers(todo[t], on)
    BY DEF Tidy, Tended
  <2>2. CASE i.channel \notin Devices
    BY <1>1, <2>1, <2>2, OtherLine DEF Switched
  <2>3. CASE i.channel \in Devices /\ Drops(i)
    <3>1. i.want = "Off"
      BY <1>2, <2>3 DEF Drops, GoodItems, Proper
    <3>. QED
      BY <1>1, <1>2, <2>1, <2>3, <3>1, LineOff
  <2>4. CASE i.channel \in Devices /\ ~Drops(i)
    <3>1. i \in Raising /\ todo[t] \in Seq(Raising)
      <4>1. i \notin Lowering
        BY <1>1, <1>2, <2>1, <2>4 DEF Lowering, Drops, Tended, GoodItems, Proper, Inside
      <4>2. todo[t] \in Seq(Raising)
        BY <1>1, <2>1, <4>1 DEF Tended
      <4>. QED
        BY <1>1, <4>2
    <3>2. i.want = "On"
      BY <1>1, <1>2, <2>4, <3>1 DEF Raising, GoodItems, Proper, SelectorItem
    <3>3. DependsOn[i.channel] \subseteq on
      BY <1>1, <2>1, <2>4, <3>2 DEF Tended
    <3>4. Linked(on)'
      BY <1>1, <1>2, <2>1, <3>2, <3>3 DEF Linked, Switched
    <3>. QED
      BY <3>1, <3>4, RaisesNone
  <2>. QED
    BY <2>2, <2>3, <2>4
<1>. QED
  BY <1>1, <1>3, WriteTidy

LEMMA MakeTidy ==
    ASSUME KInv, Tidy, NEW t \in Tasks, Make(t) \/ Break(t)
    PROVE  Tidy'
<1>1. /\ pc[t] \in Inside /\ SetUnchanged /\ todo[t] # <<>> /\ Head(todo[t]).want \in Ways
  BY DEF Make, Break, At, Inside, KInv, Inv, Selects
<1>2. Ways \intersect Devices = {} /\ left[t] \subseteq Ways
  BY StationAssumption DEF StationAssumption, Channels, KInv, WellTyped, Locals
<1>3. ASSUME NEW line \in Ways, NEW value, NEW where \in {"read", "break"}, Write(t, line, value, where)
      PROVE  Tidy'
  <2>1. on' \in {on, Switched(line, value)}
    BY <1>3 DEF Write
  <2>2. on' \intersect Devices = on \intersect Devices
    BY <1>2, <2>1 DEF Switched
  <2>3. Calm => Linked(on)' /\ Lowers(todo[t], on')
    BY <2>2, OtherLine DEF Tidy, Tended
  <2>. QED
    BY <1>1, <1>3, <2>3, WriteTidy
<1>4. CASE Goto(t, "look") /\ UNCHANGED <<on, confirmed, resting, faults, todo, result, lock, left>>
  <2>1. Calm => Tended(t) /\ Linked(on)' /\ Lowers(todo[t], on')
                /\ Head(todo[t]).do \notin {"off", "stop"}
    BY <1>1, <1>4 DEF Tidy, Linked, Tended
  <2>2. UNCHANGED <<overlap, byHand, forced, cuts, faults>>
    BY <1>1, <1>4 DEF SetUnchanged, histVars
  <2>3. Calm => Tended(t)'
    BY <1>4, <2>1, <2>2, GoTended
  <2>. QED
    BY <1>1, <1>4, <2>1, <2>2, <2>3, OthersStay, TidyKeeps
<1>. QED
  BY <1>1, <1>2, <1>3, <1>4 DEF Make, Break

LEMMA ReadTidy ==
    ASSUME KInv, Tidy, NEW t \in Tasks, Look(t) \/ Read(t)
    PROVE  Tidy'
<1>1. /\ pc[t] \in Inside /\ todo[t] # <<>> /\ Head(todo[t]).do # "force" /\ on' = on
      /\ UNCHANGED <<overlap, byHand, forced, cuts>> /\ faults' \in {faults, faults + 1}
  BY DEF Look, Read, At, Inside, SetUnchanged, histVars, KInv, Orderly, Stands
<1>2. Calm => Tended(t) /\ Linked(on)' /\ Lowers(todo[t], on')
              /\ Head(todo[t]).do \notin {"off", "stop"}
  BY <1>1 DEF Tidy, Linked, Tended
<1>3. CASE Fail(t)
  <2>1. Calm => Tended(t)'
    BY <1>1, <1>2, <1>3, FailTended
  <2>. QED
    BY <1>1, <1>2, <1>3, <2>1, OthersStay, TidyKeeps
<1>4. ASSUME NEW where \in {"make", "store"}, Goto(t, where), UNCHANGED todo
      PROVE  Tidy'
  <2>1. Calm => Tended(t)'
    BY <1>1, <1>2, <1>4, GoTended
  <2>. QED
    BY <1>1, <1>2, <1>4, <2>1, OthersStay, TidyKeeps
<1>. QED
  BY <1>3, <1>4 DEF Look, Read

LEMMA RecordTidy ==
    ASSUME KInv, Tidy, NEW t \in Tasks, Record(t)
    PROVE  Tidy'
<1> DEFINE i == Head(todo[t])
<1>1. /\ pc[t] = "store" /\ pc[t] \in Inside /\ todo[t] # <<>> /\ i.do # "force" /\ on' = on
      /\ UNCHANGED <<overlap, byHand, forced, cuts, faults>>
  BY DEF Record, At, Inside, SetUnchanged, histVars, KInv, Orderly, Stands
<1>2. Calm => Tended(t) /\ Linked(on)' /\ Lowers(todo[t], on')
  BY <1>1 DEF Tidy, Linked, Tended
<1>3. CASE Fail(t)
  <2>1. Calm => Tended(t)'
    BY <1>1, <1>2, <1>3, FailTended
  <2>. QED
    BY <1>1, <1>2, <1>3, <2>1, OthersStay, TidyKeeps
<1>4. CASE (i.do = "read" \/ got[t] = i.want) /\ Done(t)
  <2>1. Calm /\ Drops(i) => i.channel \notin on \intersect Devices
    <3> SUFFICES ASSUME Calm, Drops(i), i.channel \in Devices PROVE i.channel \notin on
      OBVIOUS
    <3>1. i.want = "Off" /\ i.do # "read"
      BY <1>1, TailItems DEF Drops, KInv, GoodItems, Proper
    <3>2. got[t] = Real(i.channel)
      BY <1>1 DEF KInv, Truth, Trusted, Calm
    <3>3. i.channel # Selector
      BY StationAssumption DEF StationAssumption
    <3>. QED
      BY <1>4, <3>1, <3>2, <3>3 DEF Real
  <2>2. Calm => Tended(t)'
    BY <1>1, <1>2, <1>4, <2>1, DoneTended
  <2>. QED
    BY <1>1, <1>2, <1>4, <2>2, OthersStay, TidyKeeps
<1>. QED
  BY <1>3, <1>4 DEF Record

LEMMA CutShortTidy ==
    ASSUME KInv, NEW t \in Tasks, CutShort(t)
    PROVE  Tidy'
<1>1. cuts' # 0
  BY DEF CutShort, KInv, WellTyped, Counts
<1>. QED
  BY <1>1 DEF Tidy, Calm

\* An emergency all-off that meets no fault takes the devices off in order.
LEMMA ForceTidy ==
    ASSUME KInv, Tidy, NEW t \in Tasks, ForceOff(t)
    PROVE  Tidy'
<1> DEFINE i == Head(todo[t])
<1>1. /\ todo[t] # <<>> /\ i.do = "force" /\ InAllOff(todo[t]) /\ Drops(i)
      /\ UNCHANGED <<overlap, byHand, forced>> /\ faults' \in {faults, faults + 1}
      /\ cuts' \in {cuts, cuts + 1}
  BY DEF ForceOff, ForceWrite, ForceRead, ForceRecord, At, histVars, KInv, Orderly, Stands,
         InAllOff, Drops
<1>2. todo[t] \in Seq(GoodItems) /\ i.channel \in Channels
  BY <1>1, HeadItem DEF KInv, Inv, Types
<1>3. Calm => Tended(t) /\ Linked(on) /\ Lowers(todo[t], on) /\ forced
  BY <1>1 DEF Tidy, Tended
<1>4. CASE ForceWrite(t) /\ faults' = faults + 1
  <2>1. faults' # 0 /\ faults # faults + 1
    BY <1>4 DEF KInv, WellTyped, Counts
  <2>2. ~(Calm /\ Calm')
    BY <1>1, <1>3, <2>1 DEF Calm
  <2>3. Fail(t)
    BY <1>4, <2>1 DEF ForceWrite
  <2>. QED
    BY <1>1, <2>2, <2>3, OthersStay, TidyKeeps
<1>5. CASE ForceWrite(t) /\ faults' # faults + 1 /\ cuts' # cuts + 1
  <2>1. on' = Switched(i.channel, "Off") /\ Goto(t, "forceRead") /\ UNCHANGED todo
    BY <1>5 DEF ForceWrite
  <2>2. i.channel \notin on' /\ on' \in {on, Switched(i.channel, "Off")}
    BY <2>1 DEF Switched
  <2>3. Calm => Linked(on)' /\ Lowers(todo[t], on')
    BY <1>1, <1>2, <1>3, <2>2, LineOff
  <2>4. Calm => Tended(t)'
    BY <1>1, <1>3, <2>1, <2>2, <2>3, GoTended DEF Inside
  <2>. QED
    BY <1>1, <2>1, <2>3, <2>4, OthersStay, TidyKeeps
<1>6. CASE ForceRead(t) /\ faults' # faults + 1
  <2>1. pc[t] = "forceRead" /\ on' = on /\ Goto(t, "forceStore") /\ UNCHANGED todo
    BY <1>6 DEF ForceRead, At, boardVars
  <2>2. Calm => i.channel \notin on' /\ Linked(on)' /\ Lowers(todo[t], on')
    BY <1>3, <2>1 DEF Tended, Linked
  <2>3. Calm => Tended(t)'
    BY <1>1, <1>3, <2>1, <2>2, GoTended DEF Inside
  <2>. QED
    BY <1>1, <2>1, <2>2, <2>3, OthersStay, TidyKeeps
<1>7. CASE ForceRecord(t)
  <2>1. pc[t] = "forceStore" /\ on' = on /\ Done(t)
    BY <1>7 DEF ForceRecord, At
  <2>2. Calm => i.channel \notin on' /\ Linked(on)' /\ Lowers(todo[t], on')
    BY <1>3, <2>1 DEF Tended, Linked
  <2>3. Calm => Tended(t)'
    BY <1>1, <1>3, <2>1, <2>2, DoneTended
  <2>. QED
    BY <1>1, <2>1, <2>2, <2>3, OthersStay, TidyKeeps
<1>8. CASE ForceRead(t) /\ faults' = faults + 1
  <2>1. faults' # 0 /\ faults # faults + 1
    BY <1>8 DEF KInv, WellTyped, Counts
  <2>2. ~(Calm /\ Calm') /\ Fail(t)
    BY <1>1, <1>3, <1>8, <2>1 DEF Calm, ForceRead
  <2>. QED
    BY <1>1, <2>2, OthersStay, TidyKeeps
<1>9. CASE cuts' = cuts + 1
  <2>1. cuts' # 0
    BY <1>9 DEF KInv, WellTyped, Counts
  <2>. QED
    BY <2>1 DEF Tidy, Calm
<1>. QED
  BY <1>4, <1>5, <1>6, <1>7, <1>8, <1>9 DEF ForceOff

LEMMA CallTidy ==
    ASSUME KInv, Tidy, NEW t \in Tasks, Call(t)
    PROVE  Tidy'
<1> SUFFICES ASSUME Calm' PROVE Linked(on)' /\ Single' /\ \A u \in Tasks : Tended(u)'
  BY DEF Tidy
<1>1. PICK r \in Requests :
           /\ todo' = [todo EXCEPT ![t] = r]
           /\ forced' = (forced \/ r = AllOff)
           /\ byHand' = (byHand \/ r \in OffByHand)
  BY DEF Call
<1>2. /\ UNCHANGED <<on, cuts, faults>> /\ pc' = [pc EXCEPT ![t] = "next"]
      /\ overlap' = IF \A u \in Tasks \ {t} : pc[u] = "idle" THEN overlap
                    ELSE IF \E u \in Tasks : InAllOff(todo'[u]) THEN "allOff"
                    ELSE IF overlap = "none" THEN "calls" ELSE overlap
  BY DEF Call, boardVars
<1>3. overlap = "none" /\ \A u \in Tasks \ {t} : pc[u] = "idle"
  BY <1>2 DEF Calm
<1>4. Calm
  BY <1>1, <1>2, <1>3, CalmBefore
<1>5. /\ todo'[t] = r /\ pc'[t] = "next"
      /\ \A u \in Tasks \ {t} : pc'[u] = "idle" /\ todo'[u] = <<>>
  BY <1>1, <1>2, <1>3 DEF KInv, Inv, Types, WellTyped, Busy
<1>6. Linked(on)' /\ Single'
  BY <1>2, <1>4, <1>5 DEF Tidy, Linked, Single
<1>7. Tended(t)'
  <2>1. r \notin OffByHand
    BY <1>1 DEF Calm
  <2>2. r \in Seq(Raising) \union Seq(Lowering) /\ Lowers(r, on')
    BY <2>1, RequestOrder
  <2>3. InAllOff(r) => forced'
    <3>1. CASE r \in Seq(Plain)
      <4>1. r # <<>> => Head(r) \in Plain
        BY <3>1
      <4>. QED
        BY <4>1 DEF InAllOff, Plain
    <3>2. CASE r = AllOff
      BY <1>1, <3>2
    <3>. QED
      BY <3>1, <3>2, RequestKinds
  <2>. QED
    BY <1>5, <2>2, <2>3 DEF Tended, Inside
<1>. QED
  BY <1>5, <1>6, <1>7, IdleTended

LEMMA AroundTidy ==
    ASSUME Tidy, Rested \/ KeyMoved \/ UNCHANGED vars
    PROVE  Tidy'
<1>1. UNCHANGED <<on, pc, todo, overlap, byHand, forced, cuts, faults>>
  BY DEF Rested, KeyMoved, vars, boardVars, taskVars, histVars
<1>2. Calm' => Calm
  BY <1>1 DEF Calm
<1>3. Calm => Linked(on)' /\ Single' /\ \A t \in Tasks : Tended(t)'
  BY <1>1 DEF Tidy, Linked, Single, Tended
<1>. QED
  BY <1>2, <1>3 DEF Tidy

LEMMA InitTidy == Init => Tidy
<1> SUFFICES ASSUME Init PROVE Tidy
  OBVIOUS
<1>1. Linked(on)
  BY BoardsAssumption DEF BoardsAssumption, Init, Linked
<1>2. Single
  BY DEF Init, Single
<1>3. ASSUME NEW t \in Tasks PROVE Tended(t)
  <2>1. todo[t] = <<>> /\ pc[t] = "idle"
    BY DEF Init
  <2>2. <<>> \in Seq(Raising) /\ ~InAllOff(<<>>)
    BY DEF InAllOff
  <2>3. Lowers(<<>>, on)
    BY DEF Lowers
  <2>. QED
    BY <2>1, <2>2, <2>3 DEF Tended, Inside
<1>. QED
  BY <1>1, <1>2, <1>3 DEF Tidy

LEMMA NextTidy == KInv /\ Tidy /\ [Next]_vars => Tidy'
<1> SUFFICES ASSUME KInv, Tidy, [Next]_vars PROVE Tidy'
  OBVIOUS
<1>1. ASSUME NEW t \in Tasks, Call(t) \/ Begin(t) \/ Check(t) \/ Set(t) \/ CutShort(t) \/ ForceOff(t)
      PROVE  Tidy'
  <2>1. CASE Set(t)
    BY <2>1, EnterTidy, WriteBinaryTidy, MakeTidy, ReadTidy, RecordTidy DEF Set
  <2>. QED
    BY <1>1, <2>1, CallTidy, BeginTidy, CheckTidy, CutShortTidy, ForceTidy
<1>. QED
  BY <1>1, AroundTidy DEF Next

\* No device is on without those it depends on, for any set of devices, any
\* dependencies without a cycle, and any number of driver errors and stuck relays,
\* also between two steps of a power-off; as long as calls come one after the
\* other, no timeout drops an operation, no power channel is set off by hand, and no
\* all-off goes on past a fault (power_off, dependents, check_power_on, all_off).
THEOREM DependenciesKept == Spec => []DependenciesHold
<1>1. Tidy => DependenciesHold
  BY DEF Tidy, Calm, Linked, DependenciesHold
<1>. QED
  BY <1>1, InitKInv, NextKInv, InitTidy, NextTidy, PTL DEF Spec
=============================================================================
