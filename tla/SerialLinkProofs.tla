-------------------------- MODULE SerialLinkProofs --------------------------
(***************************************************************************)
(* For every size of the queues and every number of faults: the serial     *)
(* link takes no step that the Link contract forbids, a control line never *)
(* moves on a port that was replaced, chunks and requests keep the order   *)
(* of their connections, and the requests add up: one per connection at    *)
(* most is counted nowhere.                                                *)
(*                                                                         *)
(* That the link does not close by itself rests on the queues: a Shutdown  *)
(* is on its way to the supervisor only once the caller has let go.  The   *)
(* order rests on one reader at a time, of the port in use, and on the     *)
(* newest generation coming last into every queue.                         *)
(***************************************************************************)
EXTENDS SerialLink, SequenceTheorems, TLAPS

----------------------------------------------------------------------------
(* The queues towards the supervisor.                                      *)

Requested == Nat \ {Shutdown}

\* Requests carry the generation of a connection; a Shutdown means that the caller has gone.
Shutdowns ==
    /\ held \in BOOLEAN /\ generation \in Nat /\ (given => generation # 0)
    /\ upstream \in Seq(Requested)
    /\ offered \in Seq(Nat) /\ commands \in Seq(Nat)
    /\ held => offered \in Seq(Requested) /\ commands \in Seq(Requested)

\* The supervisor's place, against what it has published.
StatusFollows ==
    /\ opens \in Nat /\ tries \in Nat
    /\ sup \in {"first", "firstSleep", "publish", "publishStatus", "start", "session", "join",
                "lost", "sleep", "open", "closing", "ended"}
    /\ status \in {"Connected", "Reconnecting", "Closed"}
    /\ status = "Closed" <=> sup = "ended"
    /\ sup \in {"first", "firstSleep"} => generation = 0 /\ opens = 0
    /\ sup \in {"first", "firstSleep", "publish", "publishStatus", "sleep", "open"} =>
            status = "Reconnecting"
    /\ sup \in {"start", "session", "join"} => status = "Connected" /\ tries = 0
    /\ sup = "lost" => (status = "Connected" /\ tries = 0)
                          \/ (status = "Reconnecting" /\ attempt = tries)
    /\ sup \in {"sleep", "open"} => attempt = tries
    /\ opens = IF sup \in {"publish", "publishStatus"} THEN generation + 1 ELSE generation
    /\ sup \in {"closing", "ended"} /\ held => generation = 0
    /\ sup = "join" /\ ending = "Shutdown" => ~held
    /\ ending \in {"Lost", "Shutdown"}

\* The control handle acts on the port in use, or on none; between ports, on none.
ControlFollows ==
    /\ shared \in {0, port}
    /\ sup \in {"first", "firstSleep", "lost", "sleep", "open", "publish"} => shared = 0

Inv == Shutdowns /\ StatusFollows /\ ControlFollows

----------------------------------------------------------------------------
(* The steps, by what they touch.                                          *)

LEMMA CallerStep == Inv /\ Caller => Inv'
<1> SUFFICES ASSUME Inv, Caller PROVE Inv'
  OBVIOUS
<1> USE DEF Inv, Shutdowns, StatusFollows, ControlFollows, CallerUnchanged, uplinkVars, supVars,
            portVars, statusVars
<1>1. CASE CallerWrites
  <2>1. generation \in Requested
    BY <1>1 DEF CallerWrites, Requested, Shutdown
  <2>2. upstream' \in Seq(Requested)
    BY <1>1, <2>1 DEF CallerWrites
  <2>. QED
    BY <1>1, <2>2 DEF CallerWrites
<1>2. CASE CallerReads
  BY <1>2 DEF CallerReads
<1>3. CASE CallerDrops
  BY <1>3 DEF CallerDrops
<1>. QED
  BY <1>1, <1>2, <1>3 DEF Caller

LEMMA UplinkStep == Inv /\ Uplink => Inv'
<1> SUFFICES ASSUME Inv, Uplink PROVE Inv'
  OBVIOUS
<1>1. StatusFollows' /\ ControlFollows'
  BY DEF Inv, StatusFollows, ControlFollows, Uplink, UplinkReads, UplinkSeesEnd, UplinkOffers,
         UplinkDisconnected, UplinkUnchanged, callerVars, supVars, portVars, statusVars
<1>2. Shutdowns'
  <2> USE DEF Inv, Shutdowns, UplinkUnchanged, callerVars, statusVars
  <2>0. Requested \subseteq Nat /\ Shutdown \in Nat
    BY DEF Requested, Shutdown
  <2>1. CASE UplinkReads
    <3>1. Head(upstream) \in Requested /\ Tail(upstream) \in Seq(Requested)
      BY <2>1 DEF UplinkReads
    <3>2. <<Head(upstream)>> \in Seq(Requested) /\ <<Head(upstream)>> \in Seq(Nat)
      <4>1. ASSUME NEW S, NEW r \in S PROVE <<r>> \in Seq(S)
        OBVIOUS
      <4>. QED
        BY <2>0, <3>1, <4>1
    <3>. QED
      BY <2>1, <3>1, <3>2 DEF UplinkReads
  <2>2. CASE UplinkSeesEnd
    BY <2>0, <2>2 DEF UplinkSeesEnd
  <2>3. CASE UplinkOffers
    BY <2>0, <2>3 DEF UplinkOffers, Sent
  <2>4. CASE UplinkDisconnected
    BY <2>0, <2>4 DEF UplinkDisconnected
  <2>. QED
    BY <2>1, <2>2, <2>3, <2>4 DEF Uplink
<1>. QED
  BY <1>1, <1>2 DEF Inv

LEMMA OtherStep == Inv /\ (Downlink \/ Reader \/ PortFails \/ UNCHANGED vars) => Inv'
<1> SUFFICES ASSUME Inv, Downlink \/ Reader \/ PortFails \/ UNCHANGED vars PROVE Inv'
  OBVIOUS
<1>1. UNCHANGED <<callerVars, upstream, uplinkVars, commands, supVars, port, shared, statusVars>>
  <2>1. CASE Downlink
    BY <2>1 DEF Downlink, DownlinkTakes, DownlinkWrites, DownlinkEnds, DownlinkUnchanged, portVars
  <2>2. CASE Reader
    BY <2>2 DEF Reader, ReaderReads, ReaderHands, ReaderUnchanged, streamVars, portVars
  <2>3. CASE PortFails
    BY <2>3 DEF PortFails, streamVars
  <2>4. CASE UNCHANGED vars
    BY <2>4 DEF vars, streamVars, portVars
  <2>. QED
    BY <2>1, <2>2, <2>3, <2>4
<1>. QED
  BY <1>1 DEF Inv, Shutdowns, StatusFollows, ControlFollows, callerVars, uplinkVars, supVars, statusVars

LEMMA SupervisorQueues == Inv /\ Supervisor => Shutdowns'
<1> SUFFICES ASSUME Inv, Supervisor PROVE Shutdowns'
  OBVIOUS
<1>1. /\ UNCHANGED <<held, upstream, offered>>
      /\ commands' \in {commands, <<>>} \/ (commands # <<>> /\ commands' = Tail(commands))
      /\ UNCHANGED given \/ sup = "publishStatus"
  BY DEF Supervisor, FirstOpen, SleepDrops, SleepEnds, PublishControl, PublishStatus, PublishLost,
         Reopen, CloseLink, StartSession, SessionWrites, SessionNotices, SessionEnds, SupUnchanged,
         SessionUnchanged, Received, callerVars, streamVars, uplinkVars
<1>2. generation' \in Nat /\ (given' => generation' # 0)
  <2>1. CASE PublishStatus
    BY <2>1 DEF PublishStatus, Inv, Shutdowns, StatusFollows
  <2>2. CASE ~PublishStatus
    <3>. UNCHANGED <<given, generation>>
      BY <2>2 DEF Supervisor, FirstOpen, SleepDrops, SleepEnds, PublishControl, PublishLost,
             Reopen, CloseLink, StartSession, SessionWrites, SessionNotices, SessionEnds,
             SupUnchanged, SessionUnchanged, callerVars, statusVars
    <3>. QED
      BY DEF Inv, Shutdowns
  <2>. QED
    BY <2>1, <2>2
<1>3. ASSUME NEW S, commands \in Seq(S) PROVE commands' \in Seq(S)
  <2>1. << >> \in Seq(S) /\ (commands # <<>> => Tail(commands) \in Seq(S))
    BY <1>3
  <2>. QED
    BY <1>1, <1>3, <2>1
<1>. QED
  BY <1>1, <1>2, <1>3 DEF Inv, Shutdowns

LEMMA SupervisorStatus == Inv /\ Supervisor => StatusFollows'
<1> SUFFICES ASSUME Inv, Supervisor PROVE StatusFollows'
  OBVIOUS
<1> USE DEF Inv, StatusFollows, SupUnchanged, SessionUnchanged, callerVars, statusVars
<1>1. CASE FirstOpen
  BY <1>1 DEF FirstOpen, NextFailure
<1>2. CASE SleepDrops
  <2>1. commands # <<>> /\ Head(commands) = Shutdown => ~held
    <3> SUFFICES ASSUME held, commands # <<>>, Head(commands) = Shutdown PROVE FALSE
      OBVIOUS
    <3>1. Head(commands) \in Requested
      BY DEF Shutdowns
    <3>. QED
      BY <3>1 DEF Requested
  <2>. QED
    BY <1>2, <2>1 DEF SleepDrops
<1>3. CASE SleepEnds
  BY <1>3 DEF SleepEnds, Slept
<1>4. CASE PublishControl \/ PublishStatus
  BY <1>4 DEF PublishControl, PublishStatus
<1>5. CASE PublishLost
  BY <1>5 DEF PublishLost, NextFailure
<1>6. CASE Reopen
  BY <1>6 DEF Reopen, AfterFailedReopen
<1>7. CASE CloseLink
  BY <1>7 DEF CloseLink
<1>8. CASE StartSession \/ SessionWrites
  BY <1>8 DEF StartSession, SessionWrites, EndSession
<1>9. CASE SessionNotices
  <2>1. commands # <<>> /\ Head(commands) = Shutdown => ~held
    <3> SUFFICES ASSUME held, commands # <<>>, Head(commands) = Shutdown PROVE FALSE
      OBVIOUS
    <3>1. Head(commands) \in Requested
      BY DEF Shutdowns
    <3>. QED
      BY <3>1 DEF Requested
  <2>. QED
    BY <1>9, <2>1 DEF SessionNotices, EndSession
<1>10. CASE SessionEnds
  BY <1>10 DEF SessionEnds
<1>. QED
  BY <1>1, <1>2, <1>3, <1>4, <1>5, <1>6, <1>7, <1>8, <1>9, <1>10 DEF Supervisor

LEMMA SupervisorControl == Inv /\ Supervisor => ControlFollows'
<1> SUFFICES ASSUME Inv, Supervisor PROVE ControlFollows'
  OBVIOUS
<1> USE DEF Inv, ControlFollows, SupUnchanged, SessionUnchanged, portVars
<1>1. CASE FirstOpen \/ SleepDrops \/ SleepEnds \/ PublishLost \/ Reopen
  BY <1>1 DEF FirstOpen, SleepDrops, SleepEnds, Slept, PublishLost, Reopen, AfterFailedReopen
<1>2. CASE PublishControl \/ PublishStatus \/ CloseLink
  BY <1>2 DEF PublishControl, PublishStatus, CloseLink
<1>3. CASE StartSession \/ SessionWrites \/ SessionNotices \/ SessionEnds
  BY <1>3 DEF StartSession, SessionWrites, SessionNotices, SessionEnds, EndSession, ReleasePort
<1>. QED
  BY <1>1, <1>2, <1>3 DEF Supervisor

LEMMA InitInv == Init => Inv
<1> SUFFICES ASSUME Init PROVE Inv
  OBVIOUS
<1>1. \A S : << >> \in Seq(S)
  OBVIOUS
<1>2. held \in BOOLEAN
  BY Zenon DEF Init
<1>. QED
  BY <1>1, <1>2 DEF Init, Inv, Shutdowns, StatusFollows, ControlFollows

LEMMA NextStep == Inv /\ [Next]_vars => Inv'
BY CallerStep, UplinkStep, OtherStep, SupervisorQueues, SupervisorStatus, SupervisorControl
   DEF Inv, Next

\* A control line moves on the port in use, or on none (ControlIsCurrent).
THEOREM ControlNeverStale == Spec => []ControlIsCurrent
<1>1. Inv => ControlIsCurrent
  BY DEF Inv, ControlFollows, ControlIsCurrent
<1>. QED
  BY <1>1, InitInv, NextStep, PTL DEF Spec

----------------------------------------------------------------------------
(* The contract.                                                           *)

LEMMA ContractStep == Inv /\ Inv' /\ [Next]_vars => [Contract!Next]_(Contract!vars)
<1> SUFFICES ASSUME Inv, Inv', [Next]_vars
             PROVE  Contract!Next \/ UNCHANGED Contract!vars
  OBVIOUS
<1> USE DEF Inv, StatusFollows, callerVars, statusVars, Contract!Next, Contract!vars
<1>1. CASE Caller
  BY <1>1 DEF Caller, CallerWrites, CallerReads, CallerDrops, CallerUnchanged, Contract!Drop
<1>2. CASE Uplink \/ Downlink
  BY <1>2 DEF Uplink, UplinkReads, UplinkSeesEnd, UplinkOffers, UplinkDisconnected, UplinkUnchanged,
              Downlink, DownlinkTakes, DownlinkWrites, DownlinkEnds, DownlinkUnchanged
<1>3. CASE Reader \/ PortFails \/ UNCHANGED vars
  BY <1>3 DEF Reader, ReaderReads, ReaderHands, ReaderUnchanged, PortFails, vars
<1>4. CASE Supervisor
  <2>1. CASE PublishStatus
    BY <2>1 DEF PublishStatus, Contract!Open
  <2>2. CASE PublishLost
    BY <2>2 DEF PublishLost, NextFailure, SupUnchanged, Contract!Lose, Contract!Retry
  <2>3. CASE CloseLink
    BY <2>3 DEF CloseLink, SupUnchanged, Contract!Close
  <2>4. CASE FirstOpen \/ SleepDrops \/ SleepEnds \/ PublishControl \/ Reopen
    BY <2>4 DEF FirstOpen, SleepDrops, SleepEnds, PublishControl, Reopen, SupUnchanged
  <2>5. CASE StartSession \/ SessionWrites \/ SessionNotices \/ SessionEnds
    BY <2>5 DEF StartSession, SessionWrites, SessionNotices, SessionEnds, SessionUnchanged,
                SupUnchanged
  <2>. QED
    BY <1>4, <2>1, <2>2, <2>3, <2>4, <2>5 DEF Supervisor
<1>. QED
  BY <1>1, <1>2, <1>3, <1>4 DEF Next

\* Every step of the serial link is a step of the Link contract or none of it: a
\* generation per connection, failures counted from one, and no giving up once it
\* was connected while its caller is there (the safety part of LinkContract).
THEOREM KeepsTheContract == Spec => Contract!Spec
<1>1. Init => Contract!Init
  BY DEF Init, Contract!Init
<1>. QED
  BY <1>1, InitInv, NextStep, ContractStep, PTL DEF Spec, Contract!Spec

----------------------------------------------------------------------------
(* Sequences in order.                                                     *)

\* What comes in `s` is no newer than what comes in `t`.
Before(s, t) ==
    \A i \in DOMAIN s, j \in DOMAIN t : s[i] # Shutdown /\ t[j] # Shutdown => s[i] <= t[j]

LEMMA AscendingConcat ==
    ASSUME NEW s \in Seq(Nat), NEW t \in Seq(Nat)
    PROVE  /\ s \o t \in Seq(Nat)
           /\ Ascending(s \o t) <=> Ascending(s) /\ Ascending(t) /\ Before(s, t)
<1> DEFINE u == s \o t
<1>1. /\ u \in Seq(Nat) /\ Len(u) = Len(s) + Len(t)
      /\ \A i \in 1..Len(s) : u[i] = s[i]
      /\ \A j \in 1..Len(t) : u[Len(s) + j] = t[j]
  <2>1. \A i \in 1..(Len(s) + Len(t)) : u[i] = IF i <= Len(s) THEN s[i] ELSE t[i - Len(s)]
    BY ConcatProperties
  <2>2. Len(s) \in Nat /\ Len(t) \in Nat
    BY LenProperties
  <2>. QED
    BY <2>1, <2>2, ConcatProperties
<1>2. /\ Len(s) \in Nat /\ Len(t) \in Nat
      /\ DOMAIN s = 1..Len(s) /\ DOMAIN t = 1..Len(t) /\ DOMAIN u = 1..(Len(s) + Len(t))
  BY <1>1, LenProperties
<1>. HIDE DEF u
<1>3. ASSUME Ascending(u) PROVE Ascending(s) /\ Ascending(t) /\ Before(s, t)
  <2>1. Ascending(s)
    <3> SUFFICES ASSUME NEW i \in DOMAIN s, NEW j \in DOMAIN s, i <= j,
                        s[i] # Shutdown, s[j] # Shutdown
                 PROVE  s[i] <= s[j]
      BY DEF Ascending
    <3>1. i \in DOMAIN u /\ j \in DOMAIN u /\ u[i] = s[i] /\ u[j] = s[j]
      BY <1>1, <1>2
    <3>. QED
      BY <1>3, <3>1 DEF Ascending
  <2>2. Ascending(t)
    <3> SUFFICES ASSUME NEW i \in DOMAIN t, NEW j \in DOMAIN t, i <= j,
                        t[i] # Shutdown, t[j] # Shutdown
                 PROVE  t[i] <= t[j]
      BY DEF Ascending
    <3>1. /\ Len(s) + i \in DOMAIN u /\ Len(s) + j \in DOMAIN u /\ Len(s) + i <= Len(s) + j
          /\ u[Len(s) + i] = t[i] /\ u[Len(s) + j] = t[j]
      BY <1>1, <1>2
    <3>. QED
      BY <1>3, <3>1 DEF Ascending
  <2>3. Before(s, t)
    <3> SUFFICES ASSUME NEW i \in DOMAIN s, NEW j \in DOMAIN t, s[i] # Shutdown, t[j] # Shutdown
                 PROVE  s[i] <= t[j]
      BY DEF Before
    <3>1. /\ i \in DOMAIN u /\ Len(s) + j \in DOMAIN u /\ i <= Len(s) + j
          /\ u[i] = s[i] /\ u[Len(s) + j] = t[j]
      BY <1>1, <1>2
    <3>. QED
      BY <1>3, <3>1 DEF Ascending
  <2>. QED
    BY <2>1, <2>2, <2>3
<1>4. ASSUME Ascending(s), Ascending(t), Before(s, t) PROVE Ascending(u)
  <2> SUFFICES ASSUME NEW i \in DOMAIN u, NEW j \in DOMAIN u, i <= j,
                      u[i] # Shutdown, u[j] # Shutdown
               PROVE  u[i] <= u[j]
    BY DEF Ascending
  <2>1. i \in 1..(Len(s) + Len(t)) /\ j \in 1..(Len(s) + Len(t))
    BY <1>2
  <2>2. CASE j <= Len(s)
    <3>1. i \in DOMAIN s /\ j \in DOMAIN s
      BY <1>2, <2>1, <2>2
    <3>2. u[i] = s[i] /\ u[j] = s[j]
      BY <1>1, <1>2, <3>1
    <3>. QED
      BY <1>4, <3>1, <3>2 DEF Ascending
  <2>3. CASE i <= Len(s) /\ Len(s) < j
    <3>1. j - Len(s) \in 1..Len(t) /\ u[j] = t[j - Len(s)]
      <4>1. j - Len(s) \in 1..Len(t)
        BY <1>2, <2>1, <2>3
      <4>2. Len(s) + (j - Len(s)) = j
        BY <1>2, <2>1
      <4>. QED
        BY <1>1, <4>1, <4>2
    <3>. QED
      BY <1>1, <1>2, <1>4, <2>1, <2>3, <3>1 DEF Before
  <2>4. CASE Len(s) < i
    <3>1. /\ i - Len(s) \in 1..Len(t) /\ j - Len(s) \in 1..Len(t)
          /\ Len(s) + (i - Len(s)) = i /\ Len(s) + (j - Len(s)) = j
          /\ i - Len(s) <= j - Len(s)
      <4>1. \A a, b, m, n \in Nat : a \in 1..(m + n) /\ b \in 1..(m + n) /\ a <= b /\ m < a =>
               /\ a - m \in 1..n /\ b - m \in 1..n /\ m + (a - m) = a /\ m + (b - m) = b
               /\ a - m <= b - m
        OBVIOUS
      <4>2. i \in Nat /\ j \in Nat
        BY <1>2, <2>1
      <4>. QED
        BY <1>2, <2>1, <2>4, <4>1, <4>2
    <3>2. u[i] = t[i - Len(s)] /\ u[j] = t[j - Len(s)]
      BY <1>1, <3>1
    <3>. QED
      BY <1>2, <1>4, <3>1, <3>2 DEF Ascending
  <2>. QED
    BY <1>2, <2>1, <2>2, <2>3, <2>4
<1>. QED
  BY <1>1, <1>3, <1>4 DEF u

LEMMA BeforeConcat ==
    ASSUME NEW s \in Seq(Nat), NEW t \in Seq(Nat), NEW u \in Seq(Nat)
    PROVE  Before(s \o t, u) <=> Before(s, u) /\ Before(t, u)
<1> DEFINE v == s \o t
<1>1. /\ \A i \in 1..Len(s) : v[i] = s[i]
      /\ \A j \in 1..Len(t) : v[Len(s) + j] = t[j]
      /\ \A i \in 1..(Len(s) + Len(t)) : v[i] = IF i <= Len(s) THEN s[i] ELSE t[i - Len(s)]
  <2>1. \A i \in 1..(Len(s) + Len(t)) : v[i] = IF i <= Len(s) THEN s[i] ELSE t[i - Len(s)]
    BY ConcatProperties
  <2>2. Len(s) \in Nat /\ Len(t) \in Nat
    BY LenProperties
  <2>. QED
    BY <2>1, <2>2
<1>2. /\ Len(s) \in Nat /\ Len(t) \in Nat
      /\ DOMAIN s = 1..Len(s) /\ DOMAIN t = 1..Len(t) /\ DOMAIN v = 1..(Len(s) + Len(t))
  BY LenProperties, ConcatProperties
<1>. HIDE DEF v
<1>3. ASSUME Before(v, u) PROVE Before(s, u) /\ Before(t, u)
  <2>1. \A i \in 1..Len(s) : i \in DOMAIN v
    BY <1>2
  <2>2. \A j \in 1..Len(t) : Len(s) + j \in DOMAIN v
    BY <1>2
  <2>. QED
    BY <1>1, <1>2, <1>3, <2>1, <2>2 DEF Before
<1>4. ASSUME Before(s, u), Before(t, u) PROVE Before(v, u)
  <2>1. \A i \in 1..(Len(s) + Len(t)) : i \in 1..Len(s) \/ i - Len(s) \in 1..Len(t)
    BY <1>2
  <2>. QED
    <3> SUFFICES ASSUME NEW i \in DOMAIN v, NEW j \in DOMAIN u, v[i] # Shutdown, u[j] # Shutdown
                 PROVE  v[i] <= u[j]
      BY DEF Before
    <3>1. CASE i \in 1..Len(s)
      BY <1>1, <1>2, <1>4, <3>1 DEF Before
    <3>2. CASE i \notin 1..Len(s)
      <4>1. i - Len(s) \in DOMAIN t /\ v[i] = t[i - Len(s)]
        BY <1>1, <1>2, <2>1, <3>2
      <4>. QED
        BY <1>4, <4>1 DEF Before
    <3>. QED
      BY <3>1, <3>2
<1>. QED
  BY <1>3, <1>4 DEF v

\* An order of several pieces is an order of each two of them.
LEMMA AscendingPieces ==
    ASSUME NEW x \in Nat, NEW s \in Seq(Nat), NEW t \in Seq(Nat), NEW u \in Seq(Nat)
    PROVE  Ascending(<<x>> \o s \o t \o u) <=>
              /\ Ascending(s) /\ Ascending(t) /\ Ascending(u)
              /\ Before(<<x>>, s) /\ Before(<<x>>, t) /\ Before(<<x>>, u)
              /\ Before(s, t) /\ Before(s, u) /\ Before(t, u)
<1>1. <<x>> \in Seq(Nat) /\ <<x>> \o s \in Seq(Nat) /\ <<x>> \o s \o t \in Seq(Nat)
  BY ConcatProperties
<1>2. Ascending(<<x>>)
  BY DEF Ascending
<1>3. Ascending(<<x>> \o s) <=> Ascending(s) /\ Before(<<x>>, s)
  BY <1>1, <1>2, AscendingConcat
<1>4. Ascending((<<x>> \o s) \o t) <=>
         Ascending(<<x>> \o s) /\ Ascending(t) /\ Before(<<x>>, t) /\ Before(s, t)
  BY <1>1, AscendingConcat, BeforeConcat
<1>5. Ascending((<<x>> \o s \o t) \o u) <=>
         Ascending(<<x>> \o s \o t) /\ Ascending(u) /\ Before(<<x>> \o s, u) /\ Before(t, u)
  BY <1>1, AscendingConcat, BeforeConcat
<1>6. Before(<<x>> \o s, u) <=> Before(<<x>>, u) /\ Before(s, u)
  BY <1>1, BeforeConcat
<1>. QED
  BY <1>3, <1>4, <1>5, <1>6

AtMost(s, n) == \A i \in DOMAIN s : s[i] <= n

LEMMA EmptyOrder ==
    ASSUME NEW s, NEW n
    PROVE  /\ << >> \in Seq(Nat) /\ Ascending(<<>>) /\ AtMost(<<>>, n)
           /\ Before(<<>>, s) /\ Before(s, <<>>)
BY DEF Ascending, AtMost, Before

\* The Shutdown is no older and no newer than a request.
LEMMA ShutdownOrder ==
    ASSUME NEW s \in Seq(Nat), NEW n \in Nat
    PROVE  /\ <<Shutdown>> \in Seq(Nat) /\ Ascending(<<Shutdown>>) /\ AtMost(<<Shutdown>>, n)
           /\ Before(<<Shutdown>>, s) /\ Before(s, <<Shutdown>>)
BY DEF Ascending, AtMost, Before, Shutdown

\* The order of a queue is that of its head and its tail.
LEMMA TailOrder ==
    ASSUME NEW s \in Seq(Nat), s # <<>>, NEW t \in Seq(Nat), NEW n \in Nat
    PROVE  /\ Head(s) \in Nat /\ Tail(s) \in Seq(Nat) /\ <<Head(s)>> \in Seq(Nat)
           /\ Ascending(<<Head(s)>>)
           /\ Ascending(s) => Ascending(Tail(s)) /\ Before(<<Head(s)>>, Tail(s))
           /\ Before(s, t) => Before(Tail(s), t) /\ Before(<<Head(s)>>, t)
           /\ Before(t, s) => Before(t, Tail(s)) /\ Before(t, <<Head(s)>>)
           /\ AtMost(s, n) => AtMost(Tail(s), n) /\ AtMost(<<Head(s)>>, n) /\ Head(s) <= n
<1>1. /\ Head(s) \in Nat /\ Tail(s) \in Seq(Nat) /\ Len(Tail(s)) = Len(s) - 1
      /\ \A i \in 1..Len(Tail(s)) : Tail(s)[i] = s[i + 1]
  BY HeadTailProperties
<1>2. /\ Len(s) \in Nat \ {0} /\ DOMAIN s = 1..Len(s) /\ DOMAIN Tail(s) = 1..(Len(s) - 1)
      /\ Head(s) = s[1]
  BY <1>1, LenProperties, EmptySeq
<1>3. /\ \A i \in DOMAIN Tail(s) : i + 1 \in DOMAIN s /\ Tail(s)[i] = s[i + 1] /\ i \in Nat
      /\ 1 \in DOMAIN s /\ s[1] = Head(s)
  BY <1>1, <1>2
<1>4. /\ <<Head(s)>> \in Seq(Nat) /\ DOMAIN <<Head(s)>> = {1} /\ <<Head(s)>>[1] = Head(s)
  BY <1>1
<1>. HIDE <1>2
<1>5. Ascending(<<Head(s)>>)
  BY <1>1, <1>4 DEF Ascending
<1>6. Ascending(s) => Ascending(Tail(s)) /\ Before(<<Head(s)>>, Tail(s))
  <2> SUFFICES ASSUME Ascending(s) PROVE Ascending(Tail(s)) /\ Before(<<Head(s)>>, Tail(s))
    OBVIOUS
  <2>1. Ascending(Tail(s))
    <3> SUFFICES ASSUME NEW i \in DOMAIN Tail(s), NEW j \in DOMAIN Tail(s), i <= j,
                        Tail(s)[i] # Shutdown, Tail(s)[j] # Shutdown
                 PROVE  Tail(s)[i] <= Tail(s)[j]
      BY DEF Ascending
    <3>1. i + 1 <= j + 1
      BY <1>3
    <3>. QED
      BY <1>3, <3>1 DEF Ascending
  <2>2. Before(<<Head(s)>>, Tail(s))
    <3> SUFFICES ASSUME NEW j \in DOMAIN Tail(s), Head(s) # Shutdown, Tail(s)[j] # Shutdown
                 PROVE  Head(s) <= Tail(s)[j]
      BY <1>4 DEF Before
    <3>1. 1 <= j + 1
      BY <1>2, <1>3
    <3>. QED
      BY <1>3, <3>1 DEF Ascending
  <2>. QED
    BY <2>1, <2>2
<1>7. Before(s, t) => Before(Tail(s), t) /\ Before(<<Head(s)>>, t)
  BY <1>3, <1>4 DEF Before
<1>8. Before(t, s) => Before(t, Tail(s)) /\ Before(t, <<Head(s)>>)
  BY <1>3, <1>4 DEF Before
<1>9. AtMost(s, n) => AtMost(Tail(s), n) /\ AtMost(<<Head(s)>>, n) /\ Head(s) <= n
  BY <1>3, <1>4 DEF AtMost
<1>. QED
  BY <1>1, <1>4, <1>5, <1>6, <1>7, <1>8, <1>9

LEMMA BeforeConcatRight ==
    ASSUME NEW s \in Seq(Nat), NEW t \in Seq(Nat), NEW u \in Seq(Nat)
    PROVE  Before(u, s) /\ Before(u, t) => Before(u, s \o t)
<1> DEFINE v == s \o t
<1>1. /\ \A i \in 1..(Len(s) + Len(t)) : v[i] = IF i <= Len(s) THEN s[i] ELSE t[i - Len(s)]
      /\ Len(s) \in Nat /\ Len(t) \in Nat
      /\ DOMAIN s = 1..Len(s) /\ DOMAIN t = 1..Len(t) /\ DOMAIN v = 1..(Len(s) + Len(t))
  BY LenProperties, ConcatProperties
<1>. HIDE DEF v
<1>2. \A i \in DOMAIN v : \/ i \in DOMAIN s /\ v[i] = s[i]
                          \/ i - Len(s) \in DOMAIN t /\ v[i] = t[i - Len(s)]
  BY <1>1
<1>. QED
  BY <1>2 DEF Before, v

LEMMA AtMostConcat ==
    ASSUME NEW s \in Seq(Nat), NEW t \in Seq(Nat), NEW n \in Nat
    PROVE  AtMost(s, n) /\ AtMost(t, n) => AtMost(s \o t, n)
<1> DEFINE v == s \o t
<1>1. /\ \A i \in 1..(Len(s) + Len(t)) : v[i] = IF i <= Len(s) THEN s[i] ELSE t[i - Len(s)]
      /\ Len(s) \in Nat /\ Len(t) \in Nat
      /\ DOMAIN s = 1..Len(s) /\ DOMAIN t = 1..Len(t) /\ DOMAIN v = 1..(Len(s) + Len(t))
  BY LenProperties, ConcatProperties
<1>. HIDE DEF v
<1>2. \A i \in DOMAIN v : \/ i \in DOMAIN s /\ v[i] = s[i]
                          \/ i - Len(s) \in DOMAIN t /\ v[i] = t[i - Len(s)]
  BY <1>1
<1>. QED
  BY <1>2 DEF AtMost, v

\* The newest of all comes after everything.
LEMMA NewestOrder ==
    ASSUME NEW s \in Seq(Nat), NEW n \in Nat, AtMost(s, n)
    PROVE  /\ <<n>> \in Seq(Nat) /\ Ascending(<<n>>) /\ Before(s, <<n>>) /\ AtMost(<<n>>, n)
           /\ \A m \in Nat : n <= m => AtMost(s, m)
           /\ \A m \in Nat : m <= n => Before(<<m>>, <<n>>)
BY DEF Ascending, Before, AtMost

----------------------------------------------------------------------------
(* Nothing is overtaken.                                                   *)

\* One session's reader at most, reading the port in use; a chunk in its hand is
\* of that port.
ReaderFollows ==
    /\ readers \in Seq([of : Nat, at : {"none", "reading", "handing"}, read : Seq(Nat),
                        lost : BOOLEAN, stop : BOOLEAN])
    /\ Len(readers) <= 1
    /\ sup \notin {"session", "join"} => NoReader
    /\ sup = "session" => readers # <<>>
    /\ sup \in {"publish", "publishStatus", "start"} => port = opens
    /\ port \in Nat
    /\ \A i \in DOMAIN readers :
          /\ readers[i].at # "none" => readers[i].of = opens
          /\ readers[i].read = IF readers[i].at = "handing" THEN <<opens>> ELSE <<>>

\* Chunks on their way to the caller, against the last one it got.
DownOrder ==
    /\ last_read \in Nat /\ downstream \in Seq(Nat) /\ carried \in Seq(Nat) /\ inbound \in Seq(Nat)
    /\ Ascending(downstream) /\ Ascending(carried) /\ Ascending(inbound)
    /\ Before(<<last_read>>, downstream) /\ Before(<<last_read>>, carried)
    /\ Before(<<last_read>>, inbound)
    /\ Before(downstream, carried) /\ Before(downstream, inbound) /\ Before(carried, inbound)
    /\ AtMost(downstream, opens) /\ AtMost(carried, opens) /\ AtMost(inbound, opens)
    /\ last_read <= opens

\* Requests on their way to the port, against the last one a port got.
UpOrder ==
    /\ last_sent \in Nat /\ last_sent <= generation
    /\ Ascending(commands) /\ Ascending(offered) /\ Ascending(upstream)
    /\ Before(<<last_sent>>, commands) /\ Before(<<last_sent>>, offered)
    /\ Before(<<last_sent>>, upstream)
    /\ Before(commands, offered) /\ Before(commands, upstream) /\ Before(offered, upstream)
    /\ AtMost(commands, generation) /\ AtMost(offered, generation) /\ AtMost(upstream, generation)

\* The uplink holds one request or the Shutdown while it offers it.
Offering == offered \in Seq(Nat) /\ Len(offered) = IF uplink = "offer" THEN 1 ELSE 0

LEMMA OfferingStep ==
    ASSUME Inv, Offering, [Next]_vars
    PROVE  Offering'
<1>1. CASE Uplink
  <2> USE DEF Inv, Shutdowns, Offering, Shutdown
  <2>1. CASE UplinkReads
    <3>1. Head(upstream) \in Nat
      BY <2>1, HeadTailProperties DEF UplinkReads, Requested
    <3>. QED
      BY <2>1, <3>1 DEF UplinkReads
  <2>2. CASE UplinkSeesEnd
    BY <2>2 DEF UplinkSeesEnd
  <2>3. CASE UplinkOffers \/ UplinkDisconnected
    <3>1. offered' = <<>> /\ uplink' # "offer"
      BY <2>3 DEF UplinkOffers, UplinkDisconnected
    <3>. QED
      BY <3>1
  <2>. QED
    BY <1>1, <2>1, <2>2, <2>3 DEF Uplink
<1>2. CASE UNCHANGED uplinkVars
  BY <1>2 DEF uplinkVars, Offering
<1>3. CASE ~Uplink
  <2>1. UNCHANGED uplinkVars
    BY <1>3 DEF Next, Caller, CallerWrites, CallerReads, CallerDrops, CallerUnchanged,
         Downlink, DownlinkTakes, DownlinkWrites, DownlinkEnds, DownlinkUnchanged,
         Supervisor, FirstOpen, SleepDrops, SleepEnds, PublishControl, PublishStatus, PublishLost,
         Reopen, CloseLink, StartSession, SessionWrites, SessionNotices, SessionEnds,
         SupUnchanged, SessionUnchanged, Reader, ReaderReads, ReaderHands, ReaderUnchanged,
         PortFails, vars
  <2>. QED
    BY <1>2, <2>1
<1>. QED
  BY <1>1, <1>3

LEMMA UpOrderStep ==
    ASSUME Inv, Offering, UpOrder, [Next]_vars
    PROVE  UpOrder'
<1> USE DEF Inv, Shutdowns, Offering, UpOrder
<1>0. /\ upstream \in Seq(Nat) /\ offered \in Seq(Nat) /\ commands \in Seq(Nat)
      /\ generation \in Nat /\ last_sent \in Nat /\ <<last_sent>> \in Seq(Nat)
  <2>1. upstream \in Seq(Nat)
    BY SeqMonotonic DEF Requested
  <2>. QED
    BY <2>1
<1>1. CASE CallerWrites
  <2>1. /\ UNCHANGED <<last_sent, generation, commands, offered>>
        /\ upstream' = Append(upstream, generation)
    BY <1>1 DEF CallerWrites, CallerUnchanged, countVars, statusVars, uplinkVars
  <2>2. upstream' = upstream \o <<generation>>
    BY <1>0, <2>1, AppendIsConcat
  <2>3. /\ <<generation>> \in Seq(Nat) /\ Ascending(<<generation>>) /\ AtMost(<<generation>>, generation)
        /\ Before(upstream, <<generation>>) /\ Before(commands, <<generation>>)
        /\ Before(offered, <<generation>>) /\ Before(<<last_sent>>, <<generation>>)
    BY <1>0, NewestOrder
  <2>4. /\ Ascending(upstream') /\ AtMost(upstream', generation)
        /\ Before(<<last_sent>>, upstream') /\ Before(commands, upstream') /\ Before(offered, upstream')
    BY <1>0, <2>2, <2>3, AscendingConcat, BeforeConcatRight, AtMostConcat
  <2>. QED
    BY <2>1, <2>4
<1>2. CASE UplinkReads
  <2>1. /\ offered = <<>> /\ upstream # <<>>
        /\ offered' = <<Head(upstream)>> /\ upstream' = Tail(upstream)
        /\ UNCHANGED <<last_sent, generation, commands>>
    BY <1>2 DEF UplinkReads, UplinkUnchanged, statusVars, countVars
  <2>2. /\ Ascending(offered') /\ Ascending(upstream') /\ Before(offered', upstream')
        /\ AtMost(offered', generation) /\ AtMost(upstream', generation)
    BY <1>0, <2>1, TailOrder
  <2>3. /\ Before(<<last_sent>>, offered') /\ Before(<<last_sent>>, upstream')
        /\ Before(commands, offered') /\ Before(commands, upstream')
    BY <1>0, <2>1, TailOrder
  <2>. QED
    BY <2>1, <2>2, <2>3
<1>3. CASE UplinkSeesEnd
  <2>1. /\ offered' = <<Shutdown>>
        /\ UNCHANGED <<last_sent, generation, commands, upstream>>
    BY <1>3 DEF UplinkSeesEnd, UplinkUnchanged, statusVars, countVars
  <2>. QED
    BY <1>0, <2>1, ShutdownOrder
<1>4. CASE UplinkOffers
  <2>1. /\ commands' = commands \o offered /\ offered' = <<>>
        /\ UNCHANGED <<last_sent, generation, upstream>>
    BY <1>4 DEF UplinkOffers, Sent, UplinkUnchanged, statusVars, countVars
  <2>2. /\ Ascending(commands') /\ AtMost(commands', generation)
        /\ Before(<<last_sent>>, commands') /\ Before(commands', upstream)
    BY <1>0, <2>1, AscendingConcat, BeforeConcat, BeforeConcatRight, AtMostConcat
  <2>. QED
    BY <2>1, <2>2, EmptyOrder
<1>5. CASE UplinkDisconnected
  <2>1. offered' = <<>> /\ UNCHANGED <<last_sent, generation, commands, upstream>>
    BY <1>5 DEF UplinkDisconnected, UplinkUnchanged, statusVars, countVars
  <2>. QED
    BY <2>1, EmptyOrder
<1>6. CASE CloseLink
  <2>1. commands' = <<>> /\ UNCHANGED <<last_sent, generation, offered, upstream>>
    BY <1>6 DEF CloseLink, SupUnchanged, streamVars, uplinkVars, countVars
  <2>. QED
    BY <2>1, EmptyOrder
<1>7. CASE SleepDrops \/ SessionNotices \/ SessionWrites
  <2>1. /\ UNCHANGED <<generation, offered, upstream>>
        /\ \/ UNCHANGED <<commands, last_sent>>
           \/ /\ commands # <<>> /\ commands' = Tail(commands)
              /\ last_sent' \in {last_sent, Head(commands)}
    BY <1>7 DEF SleepDrops, SessionNotices, SessionWrites, Received, SupUnchanged, SessionUnchanged,
                streamVars, uplinkVars, countVars, statusVars
  <2>2. CASE commands # <<>> /\ commands' = Tail(commands)
    <3>1. /\ Ascending(commands') /\ AtMost(commands', generation)
          /\ Before(commands', offered) /\ Before(commands', upstream)
          /\ Before(<<last_sent>>, commands')
      BY <1>0, <2>2, TailOrder
    <3>2. /\ Head(commands) \in Nat /\ Head(commands) <= generation
          /\ Before(<<Head(commands)>>, commands') /\ Before(<<Head(commands)>>, offered)
          /\ Before(<<Head(commands)>>, upstream)
      BY <1>0, <2>2, TailOrder
    <3>3. last_sent' \in {last_sent, Head(commands)}
      BY <2>1, <2>2
    <3>. QED
      BY <2>1, <3>1, <3>2, <3>3
  <2>. QED
    BY <2>1, <2>2
<1>8. CASE PublishStatus
  <2>1. /\ UNCHANGED <<last_sent, commands, offered, upstream>>
        /\ generation' = generation + 1
    BY <1>8 DEF PublishStatus, StatusFollows, streamVars, uplinkVars, countVars
  <2>2. AtMost(commands, generation + 1) /\ AtMost(offered, generation + 1)
        /\ AtMost(upstream, generation + 1)
    <3>1. generation + 1 \in Nat /\ generation <= generation + 1
      BY <1>0
    <3>2. /\ AtMost(commands, generation) /\ AtMost(offered, generation)
          /\ AtMost(upstream, generation)
      OBVIOUS
    <3>. QED
      BY <1>0, <3>1, <3>2 DEF AtMost, Requested
  <2>. QED
    BY <2>1, <2>2
<1>9. CASE ~(\/ CallerWrites \/ UplinkReads \/ UplinkSeesEnd \/ UplinkOffers \/ UplinkDisconnected
             \/ CloseLink \/ SleepDrops \/ SessionNotices \/ SessionWrites \/ PublishStatus)
  <2>1. UNCHANGED <<last_sent, generation, commands, offered, upstream>>
    BY <1>9 DEF Next, Caller, CallerReads, CallerDrops, CallerUnchanged, Uplink,
         Downlink, DownlinkTakes, DownlinkWrites, DownlinkEnds, DownlinkUnchanged,
         Supervisor, FirstOpen, SleepEnds, PublishControl, PublishLost, Reopen, StartSession,
         SessionEnds, SupUnchanged, SessionUnchanged, Reader, ReaderReads, ReaderHands,
         ReaderUnchanged, PortFails, vars, streamVars, uplinkVars, countVars, statusVars
  <2>. QED
    BY <2>1
<1>. QED
  BY <1>1, <1>2, <1>3, <1>4, <1>5, <1>6, <1>7, <1>8, <1>9

Readers == [of : Nat, at : {"none", "reading", "handing"}, read : Seq(Nat), lost : BOOLEAN,
            stop : BOOLEAN]

\* A session starts with a reader of its port, and no other.
LEMMA StartSessionReader ==
    ASSUME Inv, ReaderFollows, StartSession
    PROVE  ReaderFollows'
<1> USE DEF Inv, StatusFollows, ReaderFollows
<1>1. sup = "start" /\ NoReader /\ port = opens /\ opens \in Nat
      /\ UNCHANGED <<port, opens>>
  BY DEF StartSession, portVars
<1>2. CASE sup' = "join" /\ UNCHANGED readers
  BY <1>1, <1>2 DEF NoReader
<1>3. CASE sup' = "session" /\ readers' = Append(Running, NewReader)
  <2>1. readers' = <<NewReader>>
    BY <1>1, <1>3 DEF Running
  <2>2. NewReader \in Readers
    <3>1. << >> \in Seq(Nat)
      OBVIOUS
    <3>. QED
      BY <1>1, <3>1 DEF NewReader, Readers
  <2>3. /\ readers' \in Seq(Readers) /\ Len(readers') = 1 /\ DOMAIN readers' = {1}
        /\ readers'[1] = NewReader
    BY <2>1, <2>2
  <2>4. NewReader.of = opens /\ NewReader.at = "reading" /\ NewReader.read = <<>>
    BY <1>1 DEF NewReader
  <2>. QED
    BY <1>1, <1>3, <2>3, <2>4 DEF Readers
<1>. QED
  BY <1>2, <1>3 DEF StartSession

\* The reader of a session is told to stop.
LEMMA EndSessionReader ==
    ASSUME ReaderFollows, sup = "session", NEW why, EndSession(why), UNCHANGED <<port, opens>>
    PROVE  ReaderFollows'
<1> USE DEF ReaderFollows
<1>1. Len(readers) = 1 /\ readers \in Seq(Readers) /\ DOMAIN readers = {1}
  <2>1. readers \in Seq(Readers)
    BY DEF Readers
  <2>. QED
    BY <2>1, EmptySeq, LenProperties
<1>2. readers[1] \in Readers
  BY <1>1, ElementOfSeq
<1>3. readers' = [readers EXCEPT ![1] = [readers[1] EXCEPT !.stop = TRUE]]
  BY <1>1 DEF EndSession
<1>4. [readers[1] EXCEPT !.stop = TRUE] \in Readers
  BY <1>2 DEF Readers
<1>5. /\ readers' \in Seq(Readers) /\ Len(readers') = 1 /\ DOMAIN readers' = {1}
      /\ readers'[1] = [readers[1] EXCEPT !.stop = TRUE]
  BY <1>1, <1>3, <1>4, ExceptSeq, LenProperties
<1>6. /\ readers'[1].of = readers[1].of /\ readers'[1].at = readers[1].at
      /\ readers'[1].read = readers[1].read
  BY <1>2, <1>5 DEF Readers
<1>7. sup' = "join"
  BY DEF EndSession
<1>. QED
  BY <1>1, <1>5, <1>6, <1>7 DEF Readers

\* A reader moves on.
LEMMA SetReaderFollows ==
    ASSUME ReaderFollows, opens \in Nat, NEW i \in DOMAIN readers, readers[i].at # "none",
           NEW r \in Readers, SetReader(i, r), UNCHANGED <<sup, port, opens>>,
           r.at # "none" => r.of = opens,
           r.read = IF r.at = "handing" THEN <<opens>> ELSE <<>>
    PROVE  ReaderFollows'
<1> USE DEF ReaderFollows
<1>1. readers \in Seq(Readers)
  BY DEF Readers
<1>2. i \in 1..Len(readers) /\ DOMAIN readers = 1..Len(readers)
  BY <1>1, LenProperties
<1>3. /\ readers' \in Seq(Readers) /\ Len(readers') = Len(readers)
      /\ \A j \in 1..Len(readers) : readers'[j] = IF j = i THEN r ELSE readers[j]
  BY <1>1, <1>2, ExceptSeq DEF SetReader
<1>4. DOMAIN readers' = DOMAIN readers
  BY <1>1, <1>3, LenProperties
<1>5. sup \in {"session", "join"}
  BY DEF NoReader
<1>6. readers' # <<>>
  BY <1>2, <1>3, EmptySeq
<1>. QED
  BY <1>2, <1>3, <1>4, <1>5, <1>6 DEF Readers

LEMMA ReaderMoves ==
    ASSUME Inv, ReaderFollows, NEW i \in DOMAIN readers, ReaderReads(i) \/ ReaderHands(i)
    PROVE  ReaderFollows'
<1> DEFINE r == readers[i]
<1>1. readers \in Seq(Readers) /\ opens \in Nat /\ r \in Readers /\ r.at # "none"
      /\ UNCHANGED <<sup, port, opens>>
  <2>1. readers \in Seq(Readers) /\ opens \in Nat
    BY DEF ReaderFollows, Readers, Inv, StatusFollows
  <2>2. r \in Readers
    BY <2>1, ElementOfSeq, LenProperties
  <2>. QED
    BY <2>1, <2>2 DEF ReaderReads, ReaderHands, ReaderUnchanged, supVars, portVars
<1>2. r.of = opens /\ r.read = IF r.at = "handing" THEN <<opens>> ELSE <<>>
  BY <1>1 DEF ReaderFollows
<1>3. << >> \in Seq(Nat) /\ <<opens>> \in Seq(Nat)
  BY <1>1
<1>. HIDE DEF r
<1>4. CASE SetReader(i, [r EXCEPT !.at = "none"]) /\ r.at = "reading"
  <2> DEFINE s == [r EXCEPT !.at = "none"]
  <2>1. s \in Readers
    BY <1>1, <1>2, <1>3 DEF Readers
  <2>2. s.at = "none" /\ s.of = r.of /\ s.read = <<>>
    BY <1>1, <1>2, <1>4 DEF Readers
  <2>3. SetReader(i, s)
    BY <1>4
  <2>. HIDE DEF s
  <2>. QED
    BY <1>1, <1>2, <2>1, <2>2, <2>3, SetReaderFollows DEF r
<1>5. CASE SetReader(i, [r EXCEPT !.at = "none", !.lost = TRUE]) /\ r.at = "reading"
  <2> DEFINE s == [r EXCEPT !.at = "none", !.lost = TRUE]
  <2>1. s \in Readers
    BY <1>1, <1>2, <1>3 DEF Readers
  <2>2. s.at = "none" /\ s.of = r.of /\ s.read = <<>>
    BY <1>1, <1>2, <1>5 DEF Readers
  <2>3. SetReader(i, s)
    BY <1>5
  <2>. HIDE DEF s
  <2>. QED
    BY <1>1, <1>2, <2>1, <2>2, <2>3, SetReaderFollows DEF r
<1>6. CASE SetReader(i, [r EXCEPT !.at = "handing", !.read = <<r.of>>])
  <2> DEFINE s == [r EXCEPT !.at = "handing", !.read = <<r.of>>]
  <2>1. s \in Readers
    BY <1>1, <1>2, <1>3 DEF Readers
  <2>2. s.at = "handing" /\ s.of = r.of /\ s.read = <<r.of>>
    BY <1>1 DEF Readers
  <2>3. SetReader(i, s)
    BY <1>6
  <2>. HIDE DEF s
  <2>. QED
    BY <1>1, <1>2, <2>1, <2>2, <2>3, SetReaderFollows DEF r
<1>7. CASE SetReader(i, [r EXCEPT !.at = "reading", !.read = <<>>])
  <2> DEFINE s == [r EXCEPT !.at = "reading", !.read = <<>>]
  <2>1. s \in Readers
    BY <1>1, <1>2, <1>3 DEF Readers
  <2>2. s.at = "reading" /\ s.of = r.of /\ s.read = <<>>
    BY <1>1 DEF Readers
  <2>3. SetReader(i, s)
    BY <1>7
  <2>. HIDE DEF s
  <2>. QED
    BY <1>1, <1>2, <2>1, <2>2, <2>3, SetReaderFollows DEF r
<1>8. CASE SetReader(i, [r EXCEPT !.at = "none", !.read = <<>>])
  <2> DEFINE s == [r EXCEPT !.at = "none", !.read = <<>>]
  <2>1. s \in Readers
    BY <1>1, <1>2, <1>3 DEF Readers
  <2>2. s.at = "none" /\ s.of = r.of /\ s.read = <<>>
    BY <1>1 DEF Readers
  <2>3. SetReader(i, s)
    BY <1>8
  <2>. HIDE DEF s
  <2>. QED
    BY <1>1, <1>2, <2>1, <2>2, <2>3, SetReaderFollows DEF r
<1>. QED
  BY <1>4, <1>5, <1>6, <1>7, <1>8 DEF ReaderReads, ReaderHands, ReportedLoss, r

LEMMA ReaderStep ==
    ASSUME Inv, ReaderFollows, [Next]_vars
    PROVE  ReaderFollows'
<1>1. CASE Reader
  BY <1>1, ReaderMoves DEF Reader
<1>2. CASE StartSession
  BY <1>2, StartSessionReader
<1>3. CASE SessionWrites \/ SessionNotices
  <2>1. CASE \E why : EndSession(why)
    BY <1>3, <2>1, EndSessionReader
       DEF SessionWrites, SessionNotices, SessionUnchanged, portVars
  <2>2. CASE UNCHANGED <<sup, readers>>
    <3>1. UNCHANGED <<sup, readers, port, opens>>
      BY <1>3, <2>2 DEF SessionWrites, SessionNotices, SessionUnchanged, portVars
    <3>. QED
      BY <3>1 DEF ReaderFollows, NoReader
  <2>. QED
    BY <1>3, <2>1, <2>2 DEF SessionWrites, SessionNotices
<1>4. CASE \/ FirstOpen \/ SleepDrops \/ SleepEnds \/ PublishControl \/ PublishStatus
           \/ PublishLost \/ Reopen \/ CloseLink \/ SessionEnds
  <2>1. UNCHANGED readers
    BY <1>4 DEF FirstOpen, SleepDrops, SleepEnds, PublishControl, PublishStatus, PublishLost,
                Reopen, CloseLink, SessionEnds, SupUnchanged, readerVars
  <2>2. NoReader /\ sup' # "session"
    BY <1>4 DEF FirstOpen, SleepDrops, SleepEnds, Slept, PublishControl, PublishStatus, PublishLost,
                Reopen, AfterFailedReopen, CloseLink, SessionEnds, Joined, ReaderFollows
  <2>3. port' \in Nat /\ (sup' \in {"publish", "publishStatus", "start"} => port' = opens')
    BY <1>4 DEF FirstOpen, SleepDrops, SleepEnds, Slept, PublishControl, PublishStatus, PublishLost,
                Reopen, AfterFailedReopen, CloseLink, SessionEnds, ReleasePort, ReaderFollows,
                Inv, StatusFollows, SupUnchanged, portVars
  <2>. QED
    BY <2>1, <2>2, <2>3 DEF ReaderFollows, NoReader
<1>5. CASE Caller \/ Uplink \/ Downlink \/ PortFails \/ UNCHANGED vars
  <2>1. UNCHANGED <<sup, opens, port, readers>>
    BY <1>5 DEF Caller, CallerWrites, CallerReads, CallerDrops, CallerUnchanged,
         Uplink, UplinkReads, UplinkSeesEnd, UplinkOffers, UplinkDisconnected, UplinkUnchanged,
         Downlink, DownlinkTakes, DownlinkWrites, DownlinkEnds, DownlinkUnchanged, PortFails, vars,
         supVars, portVars, readerVars
  <2>. QED
    BY <2>1 DEF ReaderFollows, NoReader
<1>. QED
  BY <1>1, <1>2, <1>3, <1>4, <1>5 DEF Next, Supervisor

\* A link that opens is newer than every chunk there is.
LEMMA DownGrows ==
    ASSUME DownOrder, opens \in Nat, opens' \in Nat, opens <= opens',
           UNCHANGED <<last_read, downstream, carried, inbound>>
    PROVE  DownOrder'
<1>1. ASSUME NEW s \in Seq(Nat), AtMost(s, opens) PROVE AtMost(s, opens')
  BY <1>1, NewestOrder
<1>. QED
  BY <1>1 DEF DownOrder

LEMMA DownOrderStep ==
    ASSUME Inv, ReaderFollows, DownOrder, [Next]_vars
    PROVE  DownOrder'
<1> USE DEF DownOrder
<1>0. opens \in Nat /\ last_read \in Nat /\ <<last_read>> \in Seq(Nat)
  BY DEF Inv, StatusFollows
<1>1. CASE CallerReads
  <2>1. /\ downstream # <<>> /\ downstream' = Tail(downstream) /\ last_read' = Head(downstream)
        /\ UNCHANGED <<carried, inbound, opens>>
    BY <1>1 DEF CallerReads, CallerUnchanged, downVars, supVars
  <2>2. /\ downstream' \in Seq(Nat) /\ last_read' \in Nat /\ last_read' <= opens
        /\ Ascending(downstream') /\ AtMost(downstream', opens)
        /\ Before(<<last_read'>>, downstream')
    BY <1>0, <2>1, TailOrder
  <2>3. /\ Before(downstream', carried) /\ Before(downstream', inbound)
        /\ Before(<<last_read'>>, carried) /\ Before(<<last_read'>>, inbound)
    BY <1>0, <2>1, TailOrder
  <2>. QED
    BY <2>1, <2>2, <2>3
<1>2. CASE CallerDrops
  <2>1. downstream' = <<>> /\ UNCHANGED <<last_read, carried, inbound, opens>>
    BY <1>2 DEF CallerDrops, CallerUnchanged, downVars, supVars
  <2>. QED
    BY <2>1, EmptyOrder
<1>3. CASE DownlinkTakes
  <2>1. /\ carried = <<>> /\ inbound # <<>>
        /\ carried' = <<Head(inbound)>> /\ inbound' = Tail(inbound)
        /\ UNCHANGED <<last_read, downstream, opens>>
    BY <1>3 DEF DownlinkTakes, DownlinkUnchanged, callerVars, supVars
  <2>2. /\ carried' \in Seq(Nat) /\ inbound' \in Seq(Nat)
        /\ Ascending(carried') /\ Ascending(inbound') /\ Before(carried', inbound')
        /\ AtMost(carried', opens) /\ AtMost(inbound', opens)
    BY <1>0, <2>1, TailOrder
  <2>3. /\ Before(<<last_read>>, carried') /\ Before(<<last_read>>, inbound')
        /\ Before(downstream, carried') /\ Before(downstream, inbound')
    BY <1>0, <2>1, TailOrder
  <2>. QED
    BY <2>1, <2>2, <2>3
<1>4. CASE DownlinkWrites
  <2>1. /\ downstream' = downstream \o carried /\ carried' = <<>>
        /\ UNCHANGED <<last_read, inbound, opens>>
    BY <1>4 DEF DownlinkWrites, DownlinkUnchanged, callerVars, supVars
  <2>2. /\ downstream' \in Seq(Nat) /\ Ascending(downstream') /\ AtMost(downstream', opens)
        /\ Before(<<last_read>>, downstream') /\ Before(downstream', inbound)
    BY <1>0, <2>1, AscendingConcat, BeforeConcat, BeforeConcatRight, AtMostConcat
  <2>. QED
    BY <2>1, <2>2, EmptyOrder
<1>5. CASE DownlinkEnds
  <2>1. carried' = <<>> /\ inbound' = <<>> /\ UNCHANGED <<last_read, downstream, opens>>
    BY <1>5 DEF DownlinkEnds, DownlinkUnchanged, callerVars, supVars
  <2>. QED
    BY <2>1, EmptyOrder
<1>6. CASE Reader
  <2>0. PICK i \in DOMAIN readers : ReaderReads(i) \/ ReaderHands(i)
    BY <1>6 DEF Reader
  <2>1. /\ UNCHANGED <<last_read, downstream, carried, opens>>
        /\ UNCHANGED inbound \/ (readers[i].at = "handing" /\ inbound' = inbound \o readers[i].read)
    BY <2>0 DEF ReaderReads, ReaderHands, ReaderUnchanged, callerVars, streamVars, supVars
  <2>2. CASE UNCHANGED inbound
    BY <2>1, <2>2
  <2>3. CASE readers[i].at = "handing" /\ inbound' = inbound \o readers[i].read
    <3>1. inbound' = inbound \o <<opens>>
      BY <2>3 DEF ReaderFollows
    <3>2. /\ <<opens>> \in Seq(Nat) /\ Ascending(<<opens>>) /\ AtMost(<<opens>>, opens)
          /\ Before(downstream, <<opens>>) /\ Before(carried, <<opens>>)
          /\ Before(inbound, <<opens>>) /\ Before(<<last_read>>, <<opens>>)
      BY <1>0, NewestOrder
    <3>3. /\ inbound' \in Seq(Nat) /\ Ascending(inbound') /\ AtMost(inbound', opens)
          /\ Before(<<last_read>>, inbound') /\ Before(downstream, inbound')
          /\ Before(carried, inbound')
      BY <1>0, <3>1, <3>2, AscendingConcat, BeforeConcatRight, AtMostConcat
    <3>. QED
      BY <2>1, <3>3
  <2>. QED
    BY <2>1, <2>2, <2>3
<1>7. CASE ~(CallerReads \/ CallerDrops \/ Downlink \/ Reader)
  <2>1. UNCHANGED <<last_read, downstream, carried, inbound>>
    BY <1>7 DEF Next, Caller, CallerWrites, CallerUnchanged,
         Uplink, UplinkReads, UplinkSeesEnd, UplinkOffers, UplinkDisconnected, UplinkUnchanged,
         Supervisor, FirstOpen, SleepDrops, SleepEnds, PublishControl, PublishStatus, PublishLost,
         Reopen, CloseLink, StartSession, SessionWrites, SessionNotices, SessionEnds, SupUnchanged,
         SessionUnchanged, PortFails, vars, callerVars, streamVars, downVars
  <2>2. opens' \in Nat /\ opens <= opens'
    BY <1>0, <1>7 DEF Next, Caller, CallerWrites, CallerUnchanged,
         Uplink, UplinkReads, UplinkSeesEnd, UplinkOffers, UplinkDisconnected, UplinkUnchanged,
         Supervisor, FirstOpen, SleepDrops, SleepEnds, PublishControl, PublishStatus, PublishLost,
         Reopen, CloseLink, StartSession, SessionWrites, SessionNotices, SessionEnds,
         SessionUnchanged, PortFails, vars, supVars, Inv, StatusFollows
  <2>. QED
    BY <1>0, <2>1, <2>2, DownGrows
<1>. QED
  BY <1>1, <1>2, <1>3, <1>4, <1>5, <1>6, <1>7 DEF Downlink

\* What the property says, piece by piece.
LEMMA OrdersMean ==
    ASSUME Inv, ReaderFollows, DownOrder, UpOrder
    PROVE  NothingOvertakes
<1> USE DEF DownOrder, UpOrder, Inv, Shutdowns
<1>1. upstream \in Seq(Nat)
  BY SeqMonotonic DEF Requested
<1>2. Ascending(<<last_sent>> \o commands \o offered \o upstream)
  BY <1>1, AscendingPieces
<1> DEFINE sent == <<last_read>> \o downstream \o carried \o inbound
<1>3. Ascending(sent)
  BY AscendingPieces
<1>4. ASSUME NEW i \in DOMAIN readers PROVE Ascending(sent \o readers[i].read)
  <2>0. opens \in Nat /\ <<last_read>> \in Seq(Nat) /\ <<last_read>> \o downstream \in Seq(Nat)
        /\ <<last_read>> \o downstream \o carried \in Seq(Nat) /\ sent \in Seq(Nat)
    BY ConcatProperties DEF StatusFollows
  <2>1. CASE readers[i].read = <<>>
    BY <1>3, <2>0, <2>1, EmptyOrder, AscendingConcat
  <2>2. CASE readers[i].read = <<opens>>
    <3>1. /\ <<opens>> \in Seq(Nat) /\ Ascending(<<opens>>)
          /\ Before(downstream, <<opens>>) /\ Before(carried, <<opens>>)
          /\ Before(inbound, <<opens>>) /\ Before(<<last_read>>, <<opens>>)
      BY <2>0, NewestOrder
    <3>2. Before(sent, <<opens>>)
      BY <2>0, <3>1, BeforeConcat
    <3>. QED
      BY <1>3, <2>0, <2>2, <3>1, <3>2, AscendingConcat
  <2>. QED
    BY <2>1, <2>2 DEF ReaderFollows
<1>. QED
  BY <1>2, <1>3, <1>4 DEF NothingOvertakes

LEMMA InitOrders == Init => ReaderFollows /\ DownOrder /\ Offering /\ UpOrder
<1> SUFFICES ASSUME Init PROVE ReaderFollows /\ DownOrder /\ Offering /\ UpOrder
  OBVIOUS
<1>1. /\ readers = <<>> /\ sup = "first" /\ port = 0 /\ opens = 0 /\ last_read = 0
      /\ downstream = <<>> /\ carried = <<>> /\ inbound = <<>> /\ last_sent = 0 /\ generation = 0
      /\ commands = <<>> /\ offered = <<>> /\ upstream = <<>> /\ uplink = "read"
  BY DEF Init
<1>2. ReaderFollows
  BY <1>1 DEF ReaderFollows, NoReader
<1>3. DownOrder
  BY <1>1, EmptyOrder DEF DownOrder
<1>4. Offering
  BY <1>1 DEF Offering
<1>5. UpOrder
  BY <1>1, EmptyOrder DEF UpOrder
<1>. QED
  BY <1>2, <1>3, <1>4, <1>5

\* Chunks reach the caller, and requests the port, in the order of the
\* connections they belong to (NothingOvertakes).
THEOREM NothingOvertaken == Spec => []NothingOvertakes
<1> DEFINE IInv == Inv /\ ReaderFollows /\ DownOrder /\ Offering /\ UpOrder
<1>1. Init => IInv
  BY InitInv, InitOrders
<1>2. IInv /\ [Next]_vars => IInv'
  BY NextStep, ReaderStep, DownOrderStep, OfferingStep, UpOrderStep
<1>3. IInv => NothingOvertakes
  BY OrdersMean
<1>. QED
  BY <1>1, <1>2, <1>3, PTL DEF Spec

----------------------------------------------------------------------------
(* Every request is accounted for.                                         *)

HasShutdown(s) == \E i \in DOMAIN s : s[i] = Shutdown

\* The requests in a queue.
Load(s) == Len(s) - IF HasShutdown(s) THEN 1 ELSE 0

Spent == {<<>>, <<Shutdown>>}

\* No request is on its way, and none will be.
Drained == upstream = <<>> /\ ~(held /\ given) /\ offered \in Spent /\ commands \in Spent

\* The Shutdown is the last thing the uplink sends, once the caller has gone.
ShutdownLast ==
    /\ given \in BOOLEAN /\ uplink \in {"read", "offer", "done"}
    /\ HasShutdown(commands) => uplink = "done"
    /\ \A i \in DOMAIN commands : commands[i] = Shutdown => i = Len(commands)
    /\ offered = <<Shutdown>> => upstream = <<>> /\ ~held
    /\ uplink = "done" => upstream = <<>> /\ ~(held /\ given) /\ (held => sup = "ended")
    /\ ~given => upstream = <<>> /\ offered \in Spent /\ commands \in Spent
    /\ sup \in {"closing", "ended"} \/ (sup = "join" /\ ending = "Shutdown") => Drained
    /\ sup = "ended" => commands = <<>>

\* A connection loses one request, at most, with its port.
PortsLose ==
    /\ uncounted \in Nat /\ uncounted <= opens
    /\ sup \in {"publish", "publishStatus", "start", "session"} => uncounted < opens

Counted ==
    /\ written \in Nat /\ bytes_out \in Nat /\ bytes_dropped \in Nat
    /\ written = bytes_out + bytes_dropped + uncounted + Len(upstream) + Load(commands) + Load(offered)

Accounts == ShutdownLast /\ PortsLose /\ Counted

LEMMA LoadFacts ==
    /\ ~HasShutdown(<<>>) /\ Load(<<>>) = 0
    /\ HasShutdown(<<Shutdown>>) /\ Load(<<Shutdown>>) = 0
    /\ \A x \in Requested : ~HasShutdown(<<x>>) /\ Load(<<x>>) = 1
BY DEF HasShutdown, Load, Requested, Shutdown

LEMMA LoadNat == \A s \in Seq(Nat) : Load(s) \in Int /\ Len(s) \in Nat
BY LenProperties DEF Load

LEMMA LoadConcat ==
    ASSUME NEW s \in Seq(Nat), NEW x \in Nat, ~HasShutdown(s)
    PROVE  /\ Load(s \o <<x>>) = Load(s) + Load(<<x>>)
           /\ HasShutdown(s \o <<x>>) <=> x = Shutdown
           /\ \A i \in DOMAIN (s \o <<x>>) : (s \o <<x>>)[i] = Shutdown => i = Len(s \o <<x>>)
<1> DEFINE v == s \o <<x>>
<1>1. /\ Len(s) \in Nat /\ Len(v) = Len(s) + 1
      /\ DOMAIN s = 1..Len(s) /\ DOMAIN v = 1..(Len(s) + 1)
      /\ v[Len(s) + 1] = x /\ \A i \in 1..Len(s) : v[i] = s[i]
  BY LenProperties
<1>2. HasShutdown(<<x>>) <=> x = Shutdown
  BY DEF HasShutdown
<1>. HIDE DEF v
<1>3. HasShutdown(v) <=> x = Shutdown
  <2>1. ASSUME x = Shutdown PROVE HasShutdown(v)
    <3>1. Len(s) + 1 \in DOMAIN v
      BY <1>1
    <3>. QED
      BY <1>1, <2>1, <3>1 DEF HasShutdown
  <2>2. ASSUME HasShutdown(v) PROVE x = Shutdown
    <3>1. PICK i \in DOMAIN v : v[i] = Shutdown
      BY <2>2 DEF HasShutdown
    <3>. QED
      BY <1>1, <3>1 DEF HasShutdown
  <2>. QED
    BY <2>1, <2>2
<1>4. \A i \in DOMAIN v : v[i] = Shutdown => i = Len(v)
  <2>1. ASSUME NEW i \in DOMAIN v, v[i] = Shutdown PROVE i \notin 1..Len(s)
    BY <1>1, <2>1 DEF HasShutdown
  <2>. QED
    BY <1>1, <2>1
<1>5. Load(v) = Load(s) + Load(<<x>>)
  BY <1>1, <1>2, <1>3 DEF Load
<1>. QED
  BY <1>3, <1>4, <1>5 DEF v

LEMMA LoadTail ==
    ASSUME NEW s \in Seq(Nat), s # <<>>, \A i \in DOMAIN s : s[i] = Shutdown => i = Len(s)
    PROVE  /\ Head(s) = Shutdown =>
                 HasShutdown(s) /\ Tail(s) = <<>> /\ Load(s) = 0 /\ s = <<Shutdown>>
           /\ Head(s) # Shutdown => Load(Tail(s)) = Load(s) - 1
           /\ HasShutdown(Tail(s)) => HasShutdown(s)
           /\ \A i \in DOMAIN Tail(s) : Tail(s)[i] = Shutdown => i = Len(Tail(s))
           /\ Tail(s) \in Seq(Nat) /\ Len(Tail(s)) = Len(s) - 1
<1>1. /\ Tail(s) \in Seq(Nat) /\ Len(Tail(s)) = Len(s) - 1 /\ Head(s) = s[1]
      /\ Len(s) \in Nat \ {0} /\ DOMAIN s = 1..Len(s) /\ DOMAIN Tail(s) = 1..(Len(s) - 1)
      /\ \A i \in 1..(Len(s) - 1) : Tail(s)[i] = s[i + 1]
  BY HeadTailProperties, LenProperties, EmptySeq
<1>2. ASSUME Head(s) = Shutdown
      PROVE  HasShutdown(s) /\ Tail(s) = <<>> /\ Load(s) = 0 /\ s = <<Shutdown>>
  <2>1. 1 \in DOMAIN s /\ Len(s) = 1
    BY <1>1, <1>2
  <2>2. HasShutdown(s)
    BY <1>1, <1>2, <2>1 DEF HasShutdown
  <2>3. Tail(s) = <<>>
    BY <1>1, <2>1, EmptySeq
  <2>4. s = <<Shutdown>>
    BY <1>1, <1>2, <2>1
  <2>. QED
    BY <2>1, <2>2, <2>3, <2>4 DEF Load
<1>3. HasShutdown(Tail(s)) => HasShutdown(s)
  <2> SUFFICES ASSUME NEW i \in DOMAIN Tail(s), Tail(s)[i] = Shutdown PROVE HasShutdown(s)
    BY DEF HasShutdown
  <2>1. i + 1 \in DOMAIN s /\ s[i + 1] = Shutdown
    BY <1>1
  <2>. QED
    BY <2>1 DEF HasShutdown
<1>4. ASSUME Head(s) # Shutdown, HasShutdown(s) PROVE HasShutdown(Tail(s))
  <2>1. PICK i \in DOMAIN s : s[i] = Shutdown
    BY <1>4 DEF HasShutdown
  <2>2. i - 1 \in DOMAIN Tail(s) /\ Tail(s)[i - 1] = Shutdown
    BY <1>1, <1>4, <2>1
  <2>. QED
    BY <2>2 DEF HasShutdown
<1>5. \A i \in DOMAIN Tail(s) : Tail(s)[i] = Shutdown => i = Len(Tail(s))
  <2> SUFFICES ASSUME NEW i \in DOMAIN Tail(s), Tail(s)[i] = Shutdown PROVE i = Len(Tail(s))
    OBVIOUS
  <2>1. i + 1 \in DOMAIN s /\ s[i + 1] = Shutdown
    BY <1>1
  <2>2. i + 1 = Len(s)
    BY <2>1
  <2>. QED
    BY <1>1, <2>2
<1>6. Head(s) # Shutdown => Load(Tail(s)) = Load(s) - 1
  BY <1>1, <1>3, <1>4 DEF Load
<1>. QED
  BY <1>1, <1>2, <1>3, <1>5, <1>6

\* The steps of the caller.
LEMMA AccountsCaller ==
    ASSUME Inv, Offering, Accounts, Caller
    PROVE  Accounts'
<1> USE DEF Accounts, ShutdownLast, PortsLose, Counted, Drained, CallerUnchanged
<1>1. CASE CallerWrites
  <2>1. /\ held /\ given /\ upstream' = Append(upstream, generation) /\ written' = written + 1
        /\ UNCHANGED <<held, given, uplink, offered, commands, sup, ending, opens, bytes_out,
                       bytes_dropped, uncounted>>
    BY <1>1 DEF CallerWrites, uplinkVars, supVars, countVars
  <2>2. Len(upstream) \in Nat /\ Len(upstream') = Len(upstream) + 1
    BY <2>1, LenProperties DEF Inv, Shutdowns
  <2>3. ShutdownLast'
    BY <2>1 DEF Inv, StatusFollows
  <2>4. Counted'
    <3>1. Load(commands) \in Int /\ Load(offered) \in Int
      BY LoadNat DEF Inv, Shutdowns
    <3>2. Load(commands') = Load(commands) /\ Load(offered') = Load(offered)
      BY <2>1
    <3>. HIDE <2>1
    <3>3. /\ written' = written + 1 /\ bytes_out' = bytes_out /\ bytes_dropped' = bytes_dropped
          /\ uncounted' = uncounted
      BY <2>1
    <3>4. \A a, b, c, d, e, f \in Int : a + b + c + d + e + f + 1 = a + b + c + (d + 1) + e + f
      OBVIOUS
    <3>5. written + 1 = bytes_out + bytes_dropped + uncounted + (Len(upstream) + 1)
                          + Load(commands) + Load(offered)
      BY <2>2, <3>1, <3>4
    <3>. QED
      BY <2>2, <3>2, <3>3, <3>5
  <2>. QED
    BY <2>1, <2>3, <2>4
<1>2. CASE CallerReads \/ CallerDrops
  BY <1>2 DEF CallerReads, CallerDrops, uplinkVars, supVars, countVars
<1>. QED
  BY <1>1, <1>2 DEF Caller

LEMMA OneOffered ==
    ASSUME Offering, uplink = "offer"
    PROVE  \E x \in Nat : offered = <<x>>
<1>1. offered \in Seq(Nat) /\ Len(offered) = 1 /\ DOMAIN offered = {1} /\ offered[1] \in Nat
  BY LenProperties, ElementOfSeq DEF Offering
<1>2. offered = <<offered[1]>>
  BY <1>1
<1>. QED
  BY <1>1, <1>2

\* The steps of the uplink task.
LEMMA AccountsUplink ==
    ASSUME Inv, Offering, Accounts, Uplink
    PROVE  Accounts'
<1> USE DEF Accounts, ShutdownLast, PortsLose, Counted
<1>0. /\ UNCHANGED <<held, given, written, sup, ending, opens, bytes_out, bytes_dropped, uncounted>>
      /\ upstream \in Seq(Requested) /\ commands \in Seq(Nat)
      /\ Len(upstream) \in Nat /\ Load(commands) \in Int /\ Load(offered) \in Int
  <2>1. UNCHANGED <<held, given, written, sup, ending, opens, bytes_out, bytes_dropped, uncounted>>
    BY DEF Uplink, UplinkReads, UplinkSeesEnd, UplinkOffers, UplinkDisconnected, UplinkUnchanged,
           callerVars, supVars, countVars
  <2>. QED
    BY <2>1, LoadNat, LenProperties DEF Inv, Shutdowns
<1>1. PortsLose'
  BY <1>0
<1>2. CASE UplinkReads
  <2>1. /\ uplink = "read" /\ uplink' = "offer" /\ offered = <<>> /\ offered' = <<Head(upstream)>>
        /\ upstream # <<>> /\ upstream' = Tail(upstream) /\ UNCHANGED commands
    BY <1>2, EmptySeq DEF UplinkReads, UplinkUnchanged, Offering
  <2>2. /\ Head(upstream) \in Requested /\ Head(upstream) # Shutdown
        /\ Len(Tail(upstream)) = Len(upstream) - 1
    BY <1>0, <2>1, HeadTailProperties DEF Requested
  <2>3. Load(offered) = 0 /\ Load(offered') = 1 /\ offered' # <<Shutdown>>
    BY <2>1, <2>2, LoadFacts
  <2>4. ShutdownLast'
    BY <1>0, <2>1, <2>3 DEF Drained
  <2>5. Counted'
    BY <1>0, <2>1, <2>2, <2>3
  <2>. QED
    BY <1>1, <2>4, <2>5
<1>3. CASE UplinkSeesEnd
  <2>1. /\ uplink = "read" /\ uplink' = "offer" /\ offered = <<>> /\ offered' = <<Shutdown>>
        /\ upstream = <<>> /\ ~held /\ UNCHANGED <<upstream, commands>>
    BY <1>3, EmptySeq DEF UplinkSeesEnd, UplinkUnchanged, Offering
  <2>2. Load(offered) = 0 /\ Load(offered') = 0
    BY <2>1, LoadFacts
  <2>3. ShutdownLast'
    BY <1>0, <2>1 DEF Drained, Spent
  <2>4. Counted'
    BY <1>0, <2>1, <2>2
  <2>. QED
    BY <1>1, <2>3, <2>4
<1>4. CASE UplinkOffers
  <2>1. /\ uplink = "offer" /\ sup # "ended" /\ commands' = commands \o offered /\ offered' = <<>>
        /\ uplink' = (IF offered = <<Shutdown>> THEN "done" ELSE "read") /\ UNCHANGED upstream
    BY <1>4 DEF UplinkOffers, UplinkUnchanged, Sent
  <2>2. PICK x \in Nat : offered = <<x>>
    BY <2>1, OneOffered
  <2>3. ~HasShutdown(commands)
    BY <2>1
  <2>4. /\ Load(commands') = Load(commands) + Load(offered)
        /\ HasShutdown(commands') <=> x = Shutdown
        /\ \A i \in DOMAIN commands' : commands'[i] = Shutdown => i = Len(commands')
    BY <1>0, <2>1, <2>2, <2>3, LoadConcat
  <2>5. commands \in Spent => commands = <<>>
    BY <2>3, LoadFacts DEF Spent
  <2>6. <<>> \o <<x>> = <<x>> /\ (<<x>> = <<Shutdown>> <=> x = Shutdown)
    OBVIOUS
  <2>7. offered \in Spent => x = Shutdown
    BY <2>2 DEF Spent
  <2>8. commands \in Spent /\ offered \in Spent => commands' \in Spent /\ offered' \in Spent
    BY <2>1, <2>2, <2>5, <2>6, <2>7 DEF Spent
  <2>9. offered' # <<Shutdown>>
    BY <2>1
  <2>10. ShutdownLast'
    BY <1>0, <2>1, <2>2, <2>4, <2>6, <2>8, <2>9 DEF Drained
  <2>11. Counted'
    <3>1. Load(offered') = 0
      BY <2>1, LoadFacts
    <3>2. Len(upstream') = Len(upstream)
      BY <2>1
    <3>3. \A a, b, c \in Int : a + b + c = a + (b + c) + 0
      OBVIOUS
    <3>4. bytes_out + bytes_dropped + uncounted + Len(upstream) \in Int
      BY <1>0
    <3>5. written = bytes_out + bytes_dropped + uncounted + Len(upstream)
                      + (Load(commands) + Load(offered)) + 0
      BY <1>0, <3>3, <3>4
    <3>. QED
      BY <1>0, <2>4, <3>1, <3>2, <3>5
  <2>. QED
    BY <1>1, <2>10, <2>11
<1>5. CASE UplinkDisconnected
  <2>1. /\ sup = "ended" /\ uplink' = "done" /\ offered' = <<>> /\ UNCHANGED <<upstream, commands>>
    BY <1>5 DEF UplinkDisconnected, UplinkUnchanged
  <2>2. Load(offered) = 0 /\ Load(offered') = 0 /\ offered' # <<Shutdown>>
    BY <2>1, LoadFacts DEF Drained, Spent
  <2>3. ShutdownLast'
    BY <1>0, <2>1, <2>2 DEF Drained, Spent
  <2>4. Counted'
    BY <1>0, <2>1, <2>2
  <2>. QED
    BY <1>1, <2>3, <2>4
<1>. QED
  BY <1>2, <1>3, <1>4, <1>5 DEF Uplink

\* The steps of the supervisor that take a command from the channel.
LEMMA AccountsReceives ==
    ASSUME Inv, Offering, Accounts, SleepDrops \/ SessionWrites \/ SessionNotices
    PROVE  Accounts'
<1> USE DEF Accounts, ShutdownLast, PortsLose, Counted, SupUnchanged, SessionUnchanged
<1>0. /\ UNCHANGED <<held, given, written, upstream, uplink, offered, opens>>
      /\ commands \in Seq(Nat) /\ Len(upstream) \in Nat /\ Load(commands) \in Int /\ Load(offered) \in Int
      /\ sup \notin {"closing", "ended", "join"} /\ opens \in Nat
  <2>1. UNCHANGED <<held, given, written, upstream, uplink, offered, opens>>
    BY DEF SleepDrops, SessionWrites, SessionNotices, callerVars, streamVars, uplinkVars
  <2>2. sup \notin {"closing", "ended", "join"}
    BY DEF SleepDrops, SessionWrites, SessionNotices
  <2>. QED
    BY <2>1, <2>2, LoadNat, LenProperties DEF Inv, Shutdowns, StatusFollows
<1>1. CASE /\ commands # <<>> /\ Head(commands) = Shutdown /\ commands' = Tail(commands)
           /\ UNCHANGED <<bytes_out, bytes_dropped, uncounted>>
           /\ sup' = "closing" \/ (sup' = "join" /\ ending' = "Shutdown")
  <2>1. /\ HasShutdown(commands) /\ commands' = <<>> /\ Load(commands) = 0 /\ Load(commands') = 0
        /\ ~HasShutdown(commands')
    BY <1>0, <1>1, LoadTail, LoadFacts
  <2>2. uplink = "done" /\ upstream = <<>> /\ ~held
    BY <1>0, <2>1
  <2>3. offered = <<>>
    BY <2>2, EmptySeq DEF Offering
  <2>4. Drained'
    BY <1>0, <2>1, <2>2, <2>3 DEF Drained, Spent
  <2>5. ShutdownLast'
    BY <1>0, <1>1, <2>1, <2>2, <2>4 DEF Drained
  <2>6. Counted'
    BY <1>0, <1>1, <2>1
  <2>7. PortsLose'
    BY <1>0, <1>1
  <2>. QED
    BY <2>5, <2>6, <2>7
<1>2. CASE /\ commands # <<>> /\ Head(commands) # Shutdown /\ commands' = Tail(commands)
           /\ \/ /\ bytes_out' = bytes_out + 1 /\ UNCHANGED <<sup, ending, bytes_dropped, uncounted>>
              \/ /\ bytes_dropped' = bytes_dropped + 1
                 /\ UNCHANGED <<sup, ending, bytes_out, uncounted>>
              \/ /\ uncounted' = uncounted + 1 /\ sup = "session" /\ sup' = "join" /\ ending' = "Lost"
                 /\ UNCHANGED <<bytes_out, bytes_dropped>>
  <2>1. /\ Load(commands') = Load(commands) - 1
        /\ HasShutdown(commands') => HasShutdown(commands)
        /\ \A i \in DOMAIN commands' : commands'[i] = Shutdown => i = Len(commands')
    BY <1>0, <1>2, LoadTail
  <2>2. commands \notin Spent
    BY <1>2 DEF Spent
  <2>3. ShutdownLast'
    BY <1>0, <1>2, <2>1, <2>2
  <2>4. Counted' /\ PortsLose'
    <3>1. CASE bytes_out' = bytes_out + 1 /\ UNCHANGED <<sup, ending, bytes_dropped, uncounted>>
      BY <1>0, <2>1, <3>1
    <3>2. CASE bytes_dropped' = bytes_dropped + 1 /\ UNCHANGED <<sup, ending, bytes_out, uncounted>>
      BY <1>0, <2>1, <3>2
    <3>3. CASE /\ uncounted' = uncounted + 1 /\ sup = "session" /\ sup' = "join"
               /\ UNCHANGED <<bytes_out, bytes_dropped>>
      BY <1>0, <2>1, <3>3
    <3>. QED
      BY <1>2, <3>1, <3>2, <3>3
  <2>. QED
    BY <2>3, <2>4
<1>3. CASE /\ UNCHANGED <<commands, bytes_out, bytes_dropped, uncounted>>
           /\ sup' = "join" /\ ending' = "Lost"
  BY <1>0, <1>3
<1>4. CASE SleepDrops
  BY <1>1, <1>2, <1>4 DEF SleepDrops
<1>5. CASE SessionWrites
  BY <1>2, <1>5 DEF SessionWrites, Received, EndSession
<1>6. CASE SessionNotices
  BY <1>1, <1>3, <1>6 DEF SessionNotices, EndSession, countVars
<1>. QED
  BY <1>4, <1>5, <1>6

\* The other steps of the supervisor.
LEMMA AccountsSupervisor ==
    ASSUME Inv, Offering, Accounts,
           \/ FirstOpen \/ SleepEnds \/ PublishControl \/ PublishStatus \/ PublishLost
           \/ Reopen \/ CloseLink \/ StartSession \/ SessionEnds
    PROVE  Accounts'
<1> USE DEF Accounts, SupUnchanged
<1>0. /\ UNCHANGED <<held, written, upstream, uplink, offered, bytes_out, bytes_dropped, uncounted>>
      /\ UNCHANGED commands \/ CloseLink
      /\ UNCHANGED given \/ PublishStatus
  BY DEF FirstOpen, SleepEnds, PublishControl, PublishStatus, PublishLost, Reopen, CloseLink,
         StartSession, SessionEnds, callerVars, streamVars, uplinkVars, countVars
<1>1. PortsLose'
  <2>1. sup \in {"first", "firstSleep"} => opens = 0
    BY DEF Inv, StatusFollows
  <2>2. opens \in Nat
    BY DEF Inv, StatusFollows
  <2>. QED
    BY <1>0, <2>1, <2>2
       DEF PortsLose, FirstOpen, SleepEnds, Slept, PublishControl, PublishStatus, PublishLost, Reopen,
           AfterFailedReopen, CloseLink, StartSession, SessionEnds
<1>2. CASE CloseLink
  <2>1. /\ sup = "closing" /\ sup' = "ended" /\ commands' = <<>> /\ UNCHANGED <<given, ending>>
    BY <1>2 DEF CloseLink, callerVars
  <2>2. /\ commands \in Spent /\ Load(commands) = 0 /\ Load(commands') = 0 /\ ~HasShutdown(commands')
    BY <2>1, LoadFacts DEF ShutdownLast, Drained, Spent
  <2>3. ShutdownLast'
    BY <1>0, <2>1, <2>2 DEF ShutdownLast, Drained, Spent
  <2>4. Counted'
    BY <1>0, <2>1, <2>2 DEF Counted
  <2>. QED
    BY <1>1, <2>3, <2>4
<1>3. CASE ~CloseLink
  <2>1. Counted'
    BY <1>0, <1>3 DEF Counted
  <2>2. CASE PublishStatus
    <3>1. sup = "publishStatus" /\ sup' = "start" /\ given' = (given \/ held)
      BY <2>2 DEF PublishStatus
    <3>. QED
      BY <1>0, <1>1, <1>3, <2>1, <3>1 DEF ShutdownLast, Drained
  <2>3. CASE FirstOpen
    <3>1. ~given
      BY <2>3 DEF FirstOpen, Inv, StatusFollows, Shutdowns
    <3>2. /\ sup = "first" /\ sup' \in {"publish", "firstSleep", "closing"}
          /\ UNCHANGED <<given, commands>>
      BY <2>3 DEF FirstOpen, callerVars
    <3>. QED
      BY <1>0, <1>1, <2>1, <3>1, <3>2 DEF ShutdownLast, Drained
  <2>4. CASE ~PublishStatus /\ ~FirstOpen
    <3>1. /\ sup \notin {"closing", "ended"} /\ sup' # "ended"
          /\ sup' = "closing" => sup = "join" /\ ending = "Shutdown"
          /\ sup' = "join" => ending' = "Lost"
      BY <1>3, <2>4 DEF SleepEnds, Slept, PublishControl, PublishLost, Reopen, AfterFailedReopen,
                        StartSession, SessionEnds, Inv, StatusFollows
    <3>. QED
      BY <1>0, <1>1, <1>3, <2>1, <2>4, <3>1 DEF ShutdownLast, Drained
  <2>. QED
    BY <2>2, <2>3, <2>4
<1>. QED
  BY <1>2, <1>3

LEMMA AccountsStep ==
    ASSUME Inv, Offering, Accounts, [Next]_vars
    PROVE  Accounts'
<1>1. CASE Caller \/ Uplink
  BY <1>1, AccountsCaller, AccountsUplink
<1>2. CASE Supervisor
  BY <1>2, AccountsReceives, AccountsSupervisor DEF Supervisor
<1>3. CASE Downlink \/ Reader \/ PortFails \/ UNCHANGED vars
  <2>1. UNCHANGED <<held, given, written, upstream, uplink, offered, commands, sup, ending, opens,
                    bytes_out, bytes_dropped, uncounted>>
    <3> USE DEF callerVars, streamVars, uplinkVars, supVars, countVars
    <3>1. CASE Downlink
      BY <3>1 DEF Downlink, DownlinkTakes, DownlinkWrites, DownlinkEnds, DownlinkUnchanged
    <3>2. CASE Reader
      BY <3>2 DEF Reader, ReaderReads, ReaderHands, ReaderUnchanged
    <3>3. CASE PortFails
      BY <3>3 DEF PortFails
    <3>4. CASE UNCHANGED vars
      BY <3>4 DEF vars
    <3>. QED
      BY <1>3, <3>1, <3>2, <3>3, <3>4
  <2>. QED
    BY <2>1 DEF Accounts, ShutdownLast, PortsLose, Counted, Drained
<1>. QED
  BY <1>1, <1>2, <1>3 DEF Next

LEMMA InitAccounts == Init => Accounts
<1> SUFFICES ASSUME Init PROVE Accounts
  OBVIOUS
<1>1. /\ held = TRUE /\ given = FALSE /\ written = 0 /\ upstream = <<>> /\ uplink = "read"
      /\ offered = <<>> /\ commands = <<>> /\ sup = "first" /\ opens = 0 /\ bytes_out = 0
      /\ bytes_dropped = 0 /\ uncounted = 0
  BY DEF Init
<1>2. ShutdownLast
  <2>1. offered # <<Shutdown>> /\ ~HasShutdown(commands) /\ DOMAIN commands = {}
    BY <1>1, LoadFacts
  <2>. QED
    BY <1>1, <2>1 DEF ShutdownLast, Spent
<1>3. PortsLose /\ Counted
  <2>1. Load(commands) = 0 /\ Load(offered) = 0 /\ Len(upstream) = 0
    BY <1>1, LoadFacts
  <2>. QED
    BY <1>1, <2>1 DEF PortsLose, Counted
<1>. QED
  BY <1>2, <1>3 DEF Accounts

\* The requests under way are those of the three queues.
LEMMA UnderwayMeans ==
    ASSUME Inv, Offering, Accounts
    PROVE  Underway = Len(upstream) + Load(commands) + Load(offered)
<1> USE DEF Inv, Shutdowns
<1>0. /\ Len(upstream) \in Nat /\ Len(commands) \in Nat /\ Len(offered) \in Nat
  BY LenProperties
<1>1. CASE offered = <<>>
  <2>1. Sent = commands /\ Len(offered) = 0 /\ Load(offered) = 0
    BY <1>1, LoadFacts DEF Sent
  <2>. QED
    BY <1>0, <2>1 DEF Underway, ShutdownSent, Load, HasShutdown
<1>2. CASE offered # <<>>
  <2>1. uplink = "offer" /\ Len(offered) = 1
    BY <1>2, EmptySeq DEF Offering
  <2>2. PICK x \in Nat : offered = <<x>>
    BY <2>1, OneOffered
  <2>3. ~HasShutdown(commands)
    BY <2>1 DEF Accounts, ShutdownLast
  <2>4. /\ Load(Sent) = Load(commands) + Load(offered)
    BY <2>2, <2>3, LoadConcat DEF Sent
  <2>5. Len(Sent) - (IF ShutdownSent THEN 1 ELSE 0) = Load(Sent)
    BY DEF Load, HasShutdown, ShutdownSent
  <2>6. Len(Sent) \in Nat /\ Load(commands) \in Int /\ Load(offered) \in Int
    BY ConcatProperties, LenProperties, LoadNat DEF Sent
  <2>7. \A a, b, c \in Int : a + (b + c) = a + b + c
    OBVIOUS
  <2>8. Underway = Len(upstream) + Load(Sent)
    BY <2>5 DEF Underway
  <2>. QED
    BY <1>0, <2>4, <2>6, <2>7, <2>8
<1>. QED
  BY <1>1, <1>2

\* The requests written are those sent, dropped and counted, and on their way, and
\* those whose write failed, which nobody counts: one per connection at most
\* (session, sleep_dropping; WritesAccounted).
THEOREM RequestsAddUp == Spec => []WritesAccounted
<1> DEFINE IInv == Inv /\ Offering /\ Accounts
<1>1. Init => IInv
  BY InitInv, InitOrders, InitAccounts
<1>2. IInv /\ [Next]_vars => IInv'
  BY NextStep, OfferingStep, AccountsStep
<1>3. IInv => WritesAccounted
  <2> SUFFICES ASSUME IInv PROVE WritesAccounted
    OBVIOUS
  <2>1. Underway = Len(upstream) + Load(commands) + Load(offered)
    BY UnderwayMeans
  <2>2. Len(upstream) \in Nat /\ Load(commands) \in Int /\ Load(offered) \in Int
    BY LenProperties, LoadNat DEF Inv, Shutdowns
  <2>3. /\ uncounted <= opens /\ uncounted \in Nat /\ bytes_out \in Nat /\ bytes_dropped \in Nat
        /\ written = bytes_out + bytes_dropped + uncounted
                         + Len(upstream) + Load(commands) + Load(offered)
    BY DEF Accounts, PortsLose, Counted
  <2>4. \A a, b, c, d \in Int : a + b + c + d = a + (b + c + d)
    OBVIOUS
  <2>5. bytes_out + bytes_dropped + uncounted \in Int
    BY <2>3
  <2>6. written = bytes_out + bytes_dropped + uncounted + Underway
    BY <2>1, <2>2, <2>3, <2>4, <2>5
  <2>. QED
    BY <2>3, <2>6 DEF WritesAccounted
<1>. QED
  BY <1>1, <1>2, <1>3, PTL DEF Spec

----------------------------------------------------------------------------
(* The types.                                                              *)

\* What the invariants above leave open.
OtherTypes ==
    /\ downlink \in {"run", "done"} /\ port_ok \in BOOLEAN
    /\ attempt \in Nat /\ faults \in Nat /\ chunks \in Nat

LEMMA OtherTypesStep ==
    ASSUME Inv, OtherTypes, [Next]_vars
    PROVE  OtherTypes'
<1> USE DEF OtherTypes
<1>0. tries \in Nat
  BY DEF Inv, StatusFollows
<1>1. CASE Caller
  BY <1>1 DEF Caller, CallerWrites, CallerReads, CallerDrops, CallerUnchanged, downVars, portVars,
              statusVars, readerVars
<1>2. CASE Uplink
  BY <1>2 DEF Uplink, UplinkReads, UplinkSeesEnd, UplinkOffers, UplinkDisconnected, UplinkUnchanged,
              downVars, portVars, statusVars, readerVars
<1>3. CASE Downlink
  BY <1>3 DEF Downlink, DownlinkTakes, DownlinkWrites, DownlinkEnds, DownlinkUnchanged, portVars,
              statusVars, readerVars
<1>4. CASE Reader
  BY <1>4 DEF Reader, ReaderReads, ReaderHands, ReaderUnchanged, portVars, statusVars
<1>5. CASE PortFails \/ FirstOpen \/ Reopen
  <2>1. port_ok' = TRUE \/ port_ok' = FALSE \/ UNCHANGED port_ok
    BY <1>5 DEF PortFails, FirstOpen, Reopen
  <2>2. port_ok' \in BOOLEAN
    BY <2>1, Zenon
  <2>3. UNCHANGED <<downlink, attempt, chunks>> /\ faults' \in Nat
    BY <1>5 DEF PortFails, FirstOpen, Reopen, SupUnchanged, downVars, statusVars, readerVars
  <2>. QED
    BY <2>2, <2>3
<1>6. CASE SleepDrops \/ SleepEnds \/ PublishControl \/ UNCHANGED vars
  <2>1. UNCHANGED <<downlink, port_ok, attempt, faults, chunks>>
    BY <1>6 DEF SleepDrops, SleepEnds, PublishControl, SupUnchanged, vars, downVars, portVars,
                statusVars, readerVars
  <2>. QED
    BY <2>1
<1>7. CASE PublishStatus \/ PublishLost \/ CloseLink
  BY <1>0, <1>7 DEF PublishStatus, PublishLost, NextFailure, CloseLink, SupUnchanged,
                    downVars, portVars, statusVars, readerVars
<1>8. CASE StartSession \/ SessionWrites \/ SessionNotices \/ SessionEnds
  BY <1>8 DEF StartSession, SessionWrites, SessionNotices, SessionEnds, SessionUnchanged,
              SupUnchanged, downVars, portVars, statusVars, readerVars
<1>. QED
  BY <1>1, <1>2, <1>3, <1>4, <1>5, <1>6, <1>7, <1>8 DEF Next, Supervisor

LEMMA TypesMean ==
    ASSUME Inv, ReaderFollows, DownOrder, UpOrder, Accounts, OtherTypes
    PROVE  TypeOK
<1>1. TaskTypes
  BY DEF Inv, Shutdowns, StatusFollows, ReaderFollows, Accounts, ShutdownLast, OtherTypes, TaskTypes
<1>2. QueueTypes
  <2>1. upstream \in Seq(Nat)
    BY SeqMonotonic DEF Inv, Shutdowns, Requested
  <2>. QED
    BY <2>1 DEF Inv, Shutdowns, DownOrder, QueueTypes
<1>3. CountTypes
  <2>1. shared \in Nat
    BY DEF Inv, ControlFollows, ReaderFollows
  <2>. QED
    BY <2>1 DEF Inv, Shutdowns, StatusFollows, ReaderFollows, DownOrder, UpOrder, Accounts,
                PortsLose, Counted, OtherTypes, CountTypes
<1>. QED
  BY <1>1, <1>2, <1>3 DEF TypeOK

\* Every variable has its type (TypeOK).
THEOREM TypeCorrect == Spec => []TypeOK
<1> DEFINE IInv == Inv /\ ReaderFollows /\ DownOrder /\ Offering /\ UpOrder /\ Accounts /\ OtherTypes
<1>1. Init => IInv
  <2>1. Init => OtherTypes
    <3>1. Init => port_ok \in BOOLEAN
      BY Zenon DEF Init
    <3>. QED
      BY <3>1 DEF Init, OtherTypes
  <2>. QED
    BY <2>1, InitInv, InitOrders, InitAccounts
<1>2. IInv /\ [Next]_vars => IInv'
  BY NextStep, ReaderStep, DownOrderStep, OfferingStep, UpOrderStep, AccountsStep, OtherTypesStep
<1>3. IInv => TypeOK
  BY TypesMean
<1>. QED
  BY <1>1, <1>2, <1>3, PTL DEF Spec
=============================================================================
