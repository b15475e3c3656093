--------------------------- MODULE RigActorProofs ---------------------------
(***************************************************************************)
(* Type correctness of the rig actor, the exactness of the counter beside  *)
(* its emergency queue, the bound on commands that outlive the gate, the   *)
(* one answer each command gets, the wake-up an emergency leaves, and that *)
(* the actor and its callers implement the service of RigService.          *)
(***************************************************************************)
EXTENDS RigActor, FiniteSetTheorems, FunctionTheorems, SequenceTheorems, TLAPS

CountedNow == {c \in Clients : calls[c] = "counted"}

\* A command being served, held or about to be queued is a command.
CommandsAreReal ==
    /\ \A c \in Clients : calls[c] = "counted" => request[c] \in Operations
    /\ pc \in {"drain", "write", "await"} => cur \in Requests \union {Poll}
    /\ pc = "held" => held \in Requests

\* A transmit command that is not written yet was admitted at an open gate.
Straggling ==
    /\ stragglers <= 1
    /\ gate => stragglers = 0
    /\ pc = "drain" /\ Transmits(cur.op) => stragglers = 0
    /\ pc = "write" => ~Transmits(cur.op)

IInv == TypeOK /\ CommandsAreReal /\ PendingIsExact /\ Straggling

----------------------------------------------------------------------------
(* Sequences.                                                              *)

Entries == [kind : {"ack", "ptt"}, mine : BOOLEAN]

\* Removing an entry leaves a sequence of entries.
LEMMA WithoutType ==
    ASSUME NEW S, NEW s \in Seq(S), NEW i
    PROVE  Without(s, i) \in Seq(S)
<1>1. CASE i \notin DOMAIN s
  BY <1>1 DEF Without
<1>2. CASE i \in DOMAIN s
  <2>1. i \in 1..Len(s)
    BY <1>2
  <2>2. SubSeq(s, 1, i - 1) \in Seq(S)
    BY <2>1, SubSeqProperties, ElementOfSeq
  <2>3. SubSeq(s, i + 1, Len(s)) \in Seq(S)
    BY <2>1, SubSeqProperties, ElementOfSeq
  <2>. QED
    BY <1>2, <2>2, <2>3, ConcatProperties DEF Without
<1>. QED
  BY <1>1, <1>2

\* A new command disowns the outstanding requests and forgets none.
LEMMA DisownedType ==
    ASSUME outstanding \in Seq(Entries)
    PROVE  Disowned \in Seq(Entries)
<1>1. outstanding \in [1..Len(outstanding) -> Entries] /\ Len(outstanding) \in Nat
  BY LenProperties
<1>2. Disowned \in [1..Len(outstanding) -> Entries]
  BY <1>1 DEF Disowned, Entries
<1>. QED
  BY <1>1, <1>2, SeqDef

LEMMA NoteWrittenType ==
    ASSUME NEW out \in Seq(Entries), NEW op
    PROVE  /\ NoteWritten(out, ReplyKind(op)) \in Seq(Entries)
           /\ NoteWritten(out, SetReply) \in Seq(Entries)
<1>1. ReplyKind(op) \in {"ack", "ptt", "none"} /\ SetReply \in {"ack", "none"}
  BY ConstantsAssumption DEF ReplyKind
<1>2. \A k \in {"ack", "ptt"} : [kind |-> k, mine |-> TRUE] \in Entries
  BY DEF Entries
<1>. QED
  BY <1>1, <1>2, AppendProperties DEF NoteWritten

\* The first of the replies is read and its request, if any, forgotten.
LEMMA AbsorbType ==
    ASSUME RadioTypes, replies # <<>>, NEW frame, Absorb(frame)
    PROVE  /\ replies' \in Seq({"ack", "nak", "on", "off"})
           /\ outstanding' \in Seq(Entries)
<1>1. outstanding \in Seq(Entries) /\ replies \in Seq({"ack", "nak", "on", "off"})
  BY DEF RadioTypes, Entries
<1>2. outstanding' \in Seq(Entries)
  BY <1>1, WithoutType DEF Absorb
<1>3. replies' \in Seq({"ack", "nak", "on", "off"})
  BY <1>1, HeadTailProperties DEF Absorb
<1>. QED
  BY <1>2, <1>3

\* Where a step leaves every caller counted or not as before, it is the same set.
LEMMA CountedSame ==
    ASSUME \A c \in Clients : calls'[c] = "counted" <=> calls[c] = "counted"
    PROVE  {c \in Clients : calls'[c] = "counted"} = {c \in Clients : calls[c] = "counted"}
OBVIOUS

LEMMA CountedFinite ==
    ASSUME NEW f
    PROVE  LET S == {c \in Clients : f[c] = "counted"}
           IN  IsFiniteSet(S) /\ Cardinality(S) \in Nat
BY FS_Subset, FS_CardinalityType, ConstantsAssumption

----------------------------------------------------------------------------
(* The end and the start of a command.                                     *)

\* A command that ends answers callers, and leaves the actor free or with the
\* command it held back for a poll.
LEMMA CompleteStep ==
    ASSUME TypeOK, NEW cmd, NEW result \in Results, NEW failed \in BOOLEAN,
           Complete(cmd, result, failed)
    PROVE  /\ CallTypes'
           /\ pc' \in {"held", "select"} /\ (pc' = "held" => cmd = Poll /\ held # NoCommand)
           /\ cur' = NoCommand /\ tries' = 0 /\ late' = FALSE
           /\ request' = request
           /\ \A c \in Clients : calls'[c] = "counted" <=> calls[c] = "counted"
<1>1. calls' \in [Clients -> {"idle", "counted", "sent", "riding", "waiting"}]
  BY DEF TypeOK, CallTypes, Complete
<1>2. answer' \in [Clients -> Results]
  BY DEF TypeOK, CallTypes, Complete
<1>3. unkey_waiters' \subseteq Clients /\ request' = request /\ budget' = budget
  BY DEF TypeOK, CallTypes, Complete
<1>4. aired' \in BOOLEAN
  BY DEF TypeOK, CallTypes, Complete
<1>5. alarm' \subseteq Failures
  BY DEF TypeOK, CallTypes, Complete
<1>6. CallTypes'
  BY <1>1, <1>2, <1>3, <1>4, <1>5 DEF TypeOK, CallTypes
<1>7. \A c \in Clients : calls'[c] = "counted" <=> calls[c] = "counted"
  BY DEF TypeOK, CallTypes, Complete
<1>. QED
  BY <1>3, <1>6, <1>7 DEF Complete

\* A command that begins is refused at once, or served from an open gate if it
\* transmits.
LEMMA BeginStep ==
    ASSUME TypeOK, NEW cmd \in Requests \union {Poll}, Begin(cmd)
    PROVE  /\ CallTypes'
           /\ pc' \in {"held", "select", "drain", "write"}
           /\ pc' = "held" => cmd = Poll /\ held # NoCommand
           /\ pc' \in {"drain", "write"} =>
                 cur' = cmd /\ (Transmits(cmd.op) => gate)
           /\ pc' = "write" => IsEmergency(cmd.op)
           /\ cur' \in Requests \union {Poll, NoCommand}
           /\ tries' = 0 /\ late' = FALSE
           /\ request' = request
           /\ \A c \in Clients : calls'[c] = "counted" <=> calls[c] = "counted"
           /\ outstanding' \in Seq(Entries)
<1>1. outstanding \in Seq(Entries)
  BY DEF TypeOK, RadioTypes, Entries
<1>2. CASE \E reason \in Refusals(cmd) :
              Complete(cmd, reason, FALSE) /\ UNCHANGED outstanding
  <2>1. PICK reason \in Refusals(cmd) :
              Complete(cmd, reason, FALSE) /\ UNCHANGED outstanding
    BY <1>2
  <2>2. reason \in Results
    BY DEF Refusals, Results
  <2>. QED
    BY <1>1, <2>1, <2>2, CompleteStep
<1>3. CASE /\ Admitted(cmd)
           /\ cur' = cmd /\ tries' = 0 /\ late' = FALSE
           /\ outstanding' = Disowned
           /\ pc' = IF IsEmergency(cmd.op) THEN "write" ELSE "drain"
           /\ UNCHANGED <<callVars, aired, alarm>>
  <2>1. outstanding' \in Seq(Entries)
    BY <1>1, <1>3, DisownedType
  <2>2. CallTypes' /\ request' = request /\ calls' = calls
    BY <1>3 DEF TypeOK, CallTypes, callVars
  <2>. QED
    BY <1>3, <2>1, <2>2 DEF Admitted
<1>. QED
  BY <1>2, <1>3 DEF Begin

\* What observing, setting or leaving the transmit state does to its types.
StateTypes == keyed_since \in {"off", "armed", "due"} /\ cache_ptt \in {"unknown", "on", "off"}

LEMMA StateStep ==
    ASSUME StateTypes,
           \/ \E on \in BOOLEAN : Observe(on)
           \/ \E frame : ObserveFrame(frame)
           \/ \E op : ApplySet(op)
           \/ UNCHANGED stateVars
    PROVE  StateTypes'
BY DEF StateTypes, Observe, ObserveFrame, ApplySet, ArmWatchdog, Report, stateVars

\* The fail-closed unkey ends: what it was for goes on.
LEMMA UnkeyDoneStep ==
    ASSUME TypeOK, NEW ok \in BOOLEAN, UnkeyDone(ok)
    PROVE  /\ CallTypes' /\ StateTypes'
           /\ pc' \in {"held", "select", "session", "stopped"}
           /\ pc' = "held" => held # NoCommand
           /\ cur' \in Requests \union {Poll, NoCommand}
           /\ tries' = 0 /\ late' \in BOOLEAN
           /\ request' = request
           /\ \A c \in Clients : calls'[c] = "counted" <=> calls[c] = "counted"
<1>1. StateTypes'
  BY StateStep DEF UnkeyDone, TypeOK, TaskTypes, StateTypes
<1>2. CASE after = "timeout"
  <2>1. Complete(cur, "Timeout", ~ok)
    BY <1>2, Zenon DEF UnkeyDone
  <2>2. (~ok) \in BOOLEAN
    OBVIOUS
  <2>3. "Timeout" \in Results
    BY DEF Results
  <2>. QED
    BY <1>1, <2>1, <2>2, <2>3, CompleteStep
<1>3. CASE after # "timeout"
  <2>1. /\ pc' = IF after = "restored" THEN "session" ELSE after
        /\ tries' = 0
        /\ alarm' = IF ok THEN alarm ELSE Failures
        /\ UNCHANGED <<callVars, aired, cur, late>>
    BY <1>3 DEF UnkeyDone
  <2>2. CallTypes' /\ request' = request /\ calls' = calls
    BY <2>1 DEF TypeOK, CallTypes, callVars
  <2>3. cur' \in Requests \union {Poll, NoCommand} /\ late' \in BOOLEAN
    BY <2>1 DEF TypeOK, TaskTypes
  <2>4. pc' \in {"select", "session", "stopped"}
    BY <1>3, <2>1 DEF TypeOK, TaskTypes
  <2>. QED
    BY <1>1, <2>1, <2>2, <2>3, <2>4
<1>. QED
  BY <1>2, <1>3

\* The counter stays exact when nothing about the emergency queue changes.
LEMMA PendingKept ==
    ASSUME PendingIsExact, UNCHANGED <<emergency, emergency_pending>>,
           \A c \in Clients : calls'[c] = "counted" <=> calls[c] = "counted"
    PROVE  PendingIsExact'
<1>1. {c \in Clients : calls'[c] = "counted"} = {c \in Clients : calls[c] = "counted"}
  BY CountedSame
<1>. QED
  BY <1>1 DEF PendingIsExact

----------------------------------------------------------------------------
(* Steps of the radio, the clocks and the link: they touch no queue, no    *)
(* caller and no command.                                                  *)

\* What the environment leaves alone is still in order.
LEMMA EnvironmentKeeps ==
    ASSUME IInv, UNCHANGED Actors, alarm' \subseteq Failures,
           keyed_since' \in {"off", "armed", "due"}, UNCHANGED cache_ptt,
           aired' \in BOOLEAN
    PROVE  /\ QueueTypes' /\ CallTypes' /\ TaskTypes'
           /\ CommandsAreReal' /\ PendingIsExact' /\ Straggling'
<1> USE DEF IInv, Actors, gateVars, queueVars, callVars, taskVars
<1>1. QueueTypes' /\ CallTypes'
  BY DEF TypeOK, QueueTypes, CallTypes
<1>2. TaskTypes'
  BY DEF TypeOK, TaskTypes
<1>3. PendingIsExact'
  BY PendingKept
<1>4. CommandsAreReal' /\ Straggling'
  BY DEF CommandsAreReal, Straggling
<1>. QED
  BY <1>1, <1>2, <1>3, <1>4

LEMMA RadioStep ==
    ASSUME IInv, Radio
    PROVE  IInv'
<1> USE DEF IInv, TypeOK, portVars, radioVars, wireVars, stateVars
<1>1. /\ UNCHANGED Actors /\ UNCHANGED cache_ptt /\ alarm' \subseteq Failures
      /\ keyed_since' \in {"off", "armed", "due"} /\ aired' \in BOOLEAN
  BY DEF Radio, RigExecutes, CwEnds, FrontPanel, Expire, WatchdogLapses, OnAir, Environment,
         TaskTypes, CallTypes
<1>2. LinkTypes'
  BY <1>1 DEF Radio, RigExecutes, CwEnds, FrontPanel, Expire, WatchdogLapses, LinkTypes,
              Environment, Actors
<1>3. RadioTypes'
  <2>1. CASE RigExecutes
    <3>1. wire' \in Seq(Operations \union {"session"})
      BY <2>1, HeadTailProperties DEF RigExecutes, RadioTypes
    <3>2. replies' \in Seq({"ack", "nak", "on", "off"})
      <4>1. Answer(Head(wire)) \in {"ack", "nak", "on", "off"}
        BY DEF Answer, Report
      <4>2. replies' \in {replies, Append(replies, Answer(Head(wire))), Append(replies, "nak")}
        BY <2>1 DEF RigExecutes
      <4>3. replies \in Seq({"ack", "nak", "on", "off"})
        BY DEF RadioTypes
      <4>. QED
        BY <4>1, <4>2, <4>3, AppendProperties
    <3>3. tx' \subseteq {"ptt", "cw"} /\ quiet' \subseteq Clients /\ exposed' \in BOOLEAN
      BY <2>1 DEF RigExecutes, RadioTypes, OnAir, Effect
    <3>. QED
      BY <2>1, <3>1, <3>2, <3>3 DEF RigExecutes, RadioTypes
  <2>2. CASE CwEnds
    BY <2>2 DEF CwEnds, OnAir, RadioTypes
  <2>3. CASE FrontPanel
    <3>1. replies' \in Seq({"ack", "nak", "on", "off"})
      <4>1. \A on : Report(on) \in {"ack", "nak", "on", "off"}
        BY DEF Report
      <4>2. \E on : replies' \in {replies, Append(replies, Report(on))}
        BY <2>3 DEF FrontPanel
      <4>3. replies \in Seq({"ack", "nak", "on", "off"})
        BY DEF RadioTypes
      <4>. QED
        BY <4>1, <4>2, <4>3, AppendProperties
    <3>2. tx' \subseteq {"ptt", "cw"} /\ quiet' \subseteq Clients
      BY <2>3 DEF FrontPanel, RadioTypes, OnAir
    <3>. QED
      BY <2>3, <3>1, <3>2 DEF FrontPanel, RadioTypes
  <2>4. CASE Expire
    BY <2>4, HeadTailProperties DEF Expire, RadioTypes
  <2>5. CASE WatchdogLapses
    BY <2>5 DEF WatchdogLapses, RadioTypes
  <2>. QED
    BY <2>1, <2>2, <2>3, <2>4, <2>5 DEF Radio
<1>. QED
  BY <1>1, <1>2, <1>3, EnvironmentKeeps

LEMMA LinkStep ==
    ASSUME IInv, Link
    PROVE  IInv'
<1> USE DEF IInv, TypeOK, portVars, radioVars, wireVars, stateVars
<1>1. /\ UNCHANGED Actors /\ UNCHANGED cache_ptt /\ alarm' \subseteq Failures
      /\ keyed_since' \in {"off", "armed", "due"} /\ aired' \in BOOLEAN
  BY DEF Link, StreamFails, PortLost, PortReopened, SupervisorCloses, Environment, TaskTypes,
         CallTypes
<1>2. LinkTypes'
  <2>1. link_up' = link_up /\ link_generation' = link_generation
    BY <1>1 DEF Actors
  <2>2. /\ generation' \in Nat /\ panel_moves' \in Nat /\ faults' \in Nat
        /\ status' \in {"Connected", "Reconnecting", "Closed"}
    BY DEF Link, StreamFails, PortLost, PortReopened, SupervisorCloses, LinkTypes
  <2>3. watch_seen' \in BOOLEAN /\ stream' \in BOOLEAN
    BY DEF Link, StreamFails, PortLost, PortReopened, SupervisorCloses, LinkTypes
  <2>. QED
    BY <2>1, <2>2, <2>3 DEF LinkTypes
<1>3. RadioTypes'
  BY EmptySeq DEF Link, StreamFails, PortLost, PortReopened, SupervisorCloses, RadioTypes
<1>. QED
  BY <1>1, <1>2, <1>3, EnvironmentKeeps

----------------------------------------------------------------------------
(* Steps of the callers and of the owner of the gate.                      *)

\* One caller becomes counted.
LEMMA CountedMore ==
    ASSUME CallTypes, NEW c \in Clients, calls[c] # "counted",
           calls' = [calls EXCEPT ![c] = "counted"]
    PROVE  /\ Cardinality({d \in Clients : calls[d] = "counted"}) \in Nat
           /\ Cardinality({d \in Clients : calls'[d] = "counted"})
                = Cardinality({d \in Clients : calls[d] = "counted"}) + 1
<1> DEFINE before == {d \in Clients : calls[d] = "counted"}
           afterwards == {d \in Clients : calls'[d] = "counted"}
<1>1. IsFiniteSet(before) /\ Cardinality(before) \in Nat
  BY CountedFinite
<1>2. afterwards = before \union {c} /\ c \notin before
  BY DEF CallTypes
<1>. QED
  BY <1>1, <1>2, FS_AddElement

\* One caller is no longer counted.
LEMMA CountedFewer ==
    ASSUME CallTypes, NEW c \in Clients, calls[c] = "counted", NEW where, where # "counted",
           calls' = [calls EXCEPT ![c] = where]
    PROVE  /\ Cardinality({d \in Clients : calls'[d] = "counted"}) \in Nat
           /\ Cardinality({d \in Clients : calls[d] = "counted"})
                = Cardinality({d \in Clients : calls'[d] = "counted"}) + 1
<1> DEFINE before == {d \in Clients : calls[d] = "counted"}
           afterwards == {d \in Clients : calls'[d] = "counted"}
<1>1. IsFiniteSet(afterwards) /\ Cardinality(afterwards) \in Nat
  BY CountedFinite
<1>2. before = afterwards \union {c} /\ c \notin afterwards
  BY DEF CallTypes
<1>. QED
  BY <1>1, <1>2, FS_AddElement

\* What a step of a caller leaves alone is still in order.
LEMMA CallerKeeps ==
    ASSUME IInv, UNCHANGED <<gateVars, taskVars, stateVars, linkVars, portVars, wireVars, faults>>
    PROVE  TaskTypes' /\ LinkTypes' /\ Straggling' /\ outstanding' = outstanding
<1> USE DEF IInv, gateVars, taskVars, stateVars, linkVars, portVars, wireVars
<1>1. TaskTypes'
  BY DEF TypeOK, TaskTypes
<1>2. LinkTypes'
  BY DEF TypeOK, LinkTypes
<1>3. Straggling'
  BY DEF Straggling
<1>. QED
  BY <1>1, <1>2, <1>3

LEMMA CallStep ==
    ASSUME IInv, NEW c \in Clients, Call(c)
    PROVE  IInv'
<1> USE DEF IInv, TypeOK
<1>1. PICK op \in ClientOps : Submit(c, op) \/ SubmitEmergency(c, op)
  BY DEF Call
<1>2. op \in Operations
  BY <1>1, ConstantsAssumption
<1>3. Submitting(c, op)
  BY <1>1 DEF Submit, SubmitEmergency
<1>4. TaskTypes' /\ LinkTypes' /\ Straggling' /\ outstanding' = outstanding
  BY <1>3, CallerKeeps DEF Submitting
<1>5. RadioTypes'
  BY <1>3 DEF Submitting, RadioTypes, wireVars
<1>6. /\ gate' \in BOOLEAN /\ gate_moves' \in Nat /\ stragglers' \in Nat
      /\ unkey_waiters' \subseteq Clients
      /\ request' = [request EXCEPT ![c] = op]
      /\ budget' \in [Clients -> Nat] /\ aired' \in BOOLEAN /\ alarm' \subseteq Failures
      /\ pc' = pc /\ cur' = cur /\ held' = held /\ calls[c] = "idle"
  <2>1. budget' \in [Clients -> Nat]
    BY <1>3 DEF Submitting, CallTypes
  <2>2. aired' \in BOOLEAN /\ alarm' \subseteq Failures /\ gate' \in BOOLEAN
    BY <1>3 DEF Submitting, CallTypes, QueueTypes, gateVars
  <2>3. gate_moves' \in Nat /\ stragglers' \in Nat
    BY <1>3 DEF Submitting, QueueTypes, gateVars
  <2>. QED
    BY <1>3, <2>1, <2>2, <2>3 DEF Submitting, CallTypes, taskVars
<1>7. request' \in [Clients -> Operations \union {"none"}] /\ request'[c] \in Operations
  BY <1>2, <1>6 DEF CallTypes
<1>8. CASE Submit(c, op)
  <2>1. calls' \in {calls, [calls EXCEPT ![c] = "waiting"]}
    BY <1>8 DEF Submit
  <2>2. calls' \in [Clients -> {"idle", "counted", "sent", "riding", "waiting"}]
    BY <2>1 DEF CallTypes
  <2>3. \A d \in Clients : calls'[d] = "counted" <=> calls[d] = "counted"
    BY <1>6, <2>1 DEF CallTypes
  <2>4. CallTypes'
    <3>1. answer' \in [Clients -> Results]
      BY <1>8 DEF Submit, CallTypes, Results
    <3>. QED
      BY <1>6, <1>7, <2>2, <3>1 DEF CallTypes
  <2>5. normal' \in Seq(Requests)
    <3>1. [client |-> c, op |-> op] \in Requests
      BY <1>2 DEF Requests
    <3>2. normal' \in {normal, Append(normal, [client |-> c, op |-> op])}
      BY <1>8 DEF Submit
    <3>. QED
      BY <3>1, <3>2, AppendProperties DEF QueueTypes
  <2>6. UNCHANGED <<emergency, emergency_pending, emergency_wake>>
    BY <1>8 DEF Submit
  <2>7. QueueTypes'
    BY <1>6, <2>5, <2>6 DEF QueueTypes
  <2>8. CommandsAreReal'
    <3>1. \A d \in Clients : calls'[d] = "counted" => d # c
      BY <1>6, <2>3
    <3>. QED
      BY <1>6, <2>3, <3>1 DEF CommandsAreReal, CallTypes
  <2>9. PendingIsExact'
    BY <2>3, <2>6, PendingKept
  <2>. QED
    BY <1>4, <1>5, <2>4, <2>7, <2>8, <2>9
<1>9. CASE SubmitEmergency(c, op)
  <2>1. calls' = [calls EXCEPT ![c] = "counted"] /\ answer' = [answer EXCEPT ![c] = "none"]
    BY <1>9 DEF SubmitEmergency
  <2>2. CallTypes'
    <3>1. answer' \in [Clients -> Results]
      BY <2>1 DEF CallTypes, Results
    <3>2. calls' \in [Clients -> {"idle", "counted", "sent", "riding", "waiting"}]
      BY <2>1 DEF CallTypes
    <3>. QED
      BY <1>6, <1>7, <3>1, <3>2 DEF CallTypes
  <2>3. emergency_pending' = emergency_pending + 1
        /\ UNCHANGED <<emergency, emergency_wake, normal>>
    BY <1>9 DEF SubmitEmergency
  <2>4. QueueTypes'
    <3>1. emergency_pending' \in Nat
      BY <2>3 DEF QueueTypes
    <3>. QED
      BY <1>6, <2>3, <3>1 DEF QueueTypes
  <2>5. CommandsAreReal'
    BY <1>6, <1>7, <2>1 DEF CommandsAreReal, CallTypes
  <2>6. PendingIsExact'
    <3>1. Len(emergency) \in Nat
      BY LenProperties DEF QueueTypes
    <3>2. calls[c] # "counted"
      BY <1>6
    <3>3. Cardinality(CountedNow) \in Nat /\ Cardinality(CountedNow') = Cardinality(CountedNow) + 1
      BY <2>1, <3>2, CountedMore DEF CountedNow
    <3>4. emergency_pending = Len(emergency) + Cardinality(CountedNow)
      BY DEF PendingIsExact, CountedNow
    <3>5. emergency_pending' = Len(emergency') + Cardinality(CountedNow')
      BY <2>3, <3>1, <3>3, <3>4
    <3>. QED
      BY <3>5 DEF PendingIsExact, CountedNow
  <2>. QED
    BY <1>4, <1>5, <2>2, <2>4, <2>5, <2>6
<1>. QED
  BY <1>1, <1>8, <1>9

\* What the steps inside submit leave alone is still in order.
LEMMA InSubmitKeeps ==
    ASSUME IInv, NEW c \in Clients, NEW where, InSubmit(c, where)
    PROVE  /\ TaskTypes' /\ LinkTypes' /\ RadioTypes' /\ Straggling'
           /\ gate' \in BOOLEAN /\ gate_moves' \in Nat /\ stragglers' \in Nat
           /\ normal' \in Seq(Requests)
           /\ budget' \in [Clients -> Nat] /\ aired' \in BOOLEAN /\ alarm' \subseteq Failures
           /\ request' = request /\ pc' = pc /\ cur' = cur /\ held' = held
           /\ calls[c] = where
<1> USE DEF IInv, TypeOK, InSubmit
<1>1. TaskTypes' /\ LinkTypes' /\ Straggling'
  BY CallerKeeps
<1>2. RadioTypes'
  BY DEF RadioTypes, radioVars, wireVars
<1>3. gate' \in BOOLEAN /\ aired' \in BOOLEAN /\ alarm' \subseteq Failures
  BY DEF QueueTypes, CallTypes, gateVars
<1>4. gate_moves' \in Nat /\ stragglers' \in Nat /\ normal' \in Seq(Requests)
  BY DEF QueueTypes, gateVars
<1>. QED
  BY <1>1, <1>2, <1>3, <1>4 DEF CallTypes, taskVars

LEMMA SubmitStepKeeps ==
    ASSUME IInv, NEW c \in Clients, SubmitStep(c)
    PROVE  IInv'
<1> USE DEF IInv, TypeOK
<1>1. PICK where : InSubmit(c, where)
  BY DEF SubmitStep, SendEmergency, WakeActor, FindEmergencyFull, Ride
<1>2. /\ TaskTypes' /\ LinkTypes' /\ RadioTypes' /\ Straggling'
      /\ gate' \in BOOLEAN /\ gate_moves' \in Nat /\ stragglers' \in Nat
      /\ normal' \in Seq(Requests)
      /\ budget' \in [Clients -> Nat] /\ aired' \in BOOLEAN /\ alarm' \subseteq Failures
      /\ request' = request /\ pc' = pc /\ cur' = cur /\ held' = held
  BY <1>1, InSubmitKeeps
<1>3. Len(emergency) \in Nat
  BY LenProperties DEF QueueTypes
<1>4. calls' \in [Clients -> {"idle", "counted", "sent", "riding", "waiting"}]
  BY DEF SubmitStep, SendEmergency, WakeActor, FindEmergencyFull, Ride, CallTypes
<1>5. answer' \in [Clients -> Results]
  BY DEF SubmitStep, SendEmergency, WakeActor, FindEmergencyFull, Ride, CallTypes, Results
<1>6. unkey_waiters' \subseteq Clients
  BY DEF SubmitStep, SendEmergency, WakeActor, FindEmergencyFull, Ride, WithWaiter, CallTypes
<1>7. CallTypes'
  BY <1>2, <1>4, <1>5, <1>6 DEF CallTypes
<1>8. CommandsAreReal'
  <2>1. \A d \in Clients : calls'[d] = "counted" => calls[d] = "counted"
    BY DEF SubmitStep, SendEmergency, WakeActor, FindEmergencyFull, Ride, CallTypes
  <2>. QED
    BY <1>2, <2>1 DEF CommandsAreReal
<1>9. CASE SendEmergency(c)
  <2>1. [client |-> c, op |-> request[c]] \in Requests
    BY <1>9 DEF SendEmergency, InSubmit, CommandsAreReal, Requests
  <2>2. /\ emergency' = Append(emergency, [client |-> c, op |-> request[c]])
        /\ calls[c] = "counted" /\ calls' = [calls EXCEPT ![c] = "sent"]
        /\ UNCHANGED <<emergency_pending, emergency_wake>>
    BY <1>9 DEF SendEmergency, InSubmit
  <2>3. emergency' \in Seq(Requests) /\ Len(emergency') = Len(emergency) + 1
    BY <2>1, <2>2, AppendProperties DEF QueueTypes
  <2>4. QueueTypes'
    BY <1>2, <2>2, <2>3 DEF QueueTypes
  <2>5. PendingIsExact'
    <3>1. Cardinality(CountedNow') \in Nat /\ Cardinality(CountedNow) = Cardinality(CountedNow') + 1
      BY <2>2, CountedFewer DEF CountedNow
    <3>2. emergency_pending = Len(emergency) + Cardinality(CountedNow)
      BY DEF PendingIsExact, CountedNow
    <3>3. emergency_pending' = Len(emergency') + Cardinality(CountedNow')
      BY <1>3, <2>2, <2>3, <3>1, <3>2
    <3>. QED
      BY <3>3 DEF PendingIsExact, CountedNow
  <2>. QED
    BY <1>2, <1>7, <1>8, <2>4, <2>5
<1>10. CASE WakeActor(c) \/ Ride(c)
  <2>1. /\ UNCHANGED <<emergency, emergency_pending>> /\ emergency_wake' \in BOOLEAN
        /\ \A d \in Clients : calls'[d] = "counted" <=> calls[d] = "counted"
    BY <1>10 DEF WakeActor, Ride, InSubmit, Notified, CallTypes, QueueTypes
  <2>2. QueueTypes'
    BY <1>2, <2>1 DEF QueueTypes
  <2>3. PendingIsExact'
    BY <2>1, PendingKept
  <2>. QED
    BY <1>2, <1>7, <1>8, <2>2, <2>3
<1>11. CASE FindEmergencyFull(c)
  <2>1. /\ calls[c] = "counted" /\ emergency_pending' = emergency_pending - 1
        /\ UNCHANGED <<emergency, emergency_wake>>
    BY <1>11 DEF FindEmergencyFull, InSubmit, Uncounted
  <2>2. PICK next \in {"riding", "idle"} : calls' = [calls EXCEPT ![c] = next]
    BY <1>11 DEF FindEmergencyFull
  <2>3. PendingIsExact' /\ emergency_pending' \in Nat
    <3>1. Cardinality(CountedNow') \in Nat /\ Cardinality(CountedNow) = Cardinality(CountedNow') + 1
      BY <2>1, <2>2, CountedFewer DEF CountedNow
    <3>2. emergency_pending = Len(emergency) + Cardinality(CountedNow)
      BY DEF PendingIsExact, CountedNow
    <3>3. emergency_pending' = Len(emergency') + Cardinality(CountedNow') /\ emergency_pending' \in Nat
      BY <1>3, <2>1, <3>1, <3>2
    <3>. QED
      BY <3>3 DEF PendingIsExact, CountedNow
  <2>4. QueueTypes'
    BY <1>2, <2>1, <2>3 DEF QueueTypes
  <2>. QED
    BY <1>2, <1>7, <1>8, <2>3, <2>4
<1>. QED
  BY <1>9, <1>10, <1>11 DEF SubmitStep

LEMMA MoveGateStep ==
    ASSUME IInv, MoveGate
    PROVE  IInv'
<1> USE DEF IInv, TypeOK, MoveGate, queueVars, callVars, taskVars, stateVars, linkVars,
            portVars, radioVars, wireVars
<1>1. QueueTypes'
  <2>1. gate' \in BOOLEAN
    OBVIOUS
  <2>2. gate_moves' \in Nat /\ stragglers' \in Nat
    BY DEF QueueTypes
  <2>. QED
    BY <2>1, <2>2 DEF QueueTypes
<1>2. CallTypes'
  BY DEF CallTypes
<1>3. TaskTypes'
  BY DEF TaskTypes
<1>4. LinkTypes' /\ RadioTypes'
  BY DEF LinkTypes, RadioTypes
<1>5. CommandsAreReal'
  BY DEF CommandsAreReal
<1>6. PendingIsExact'
  BY PendingKept
<1>7. Straggling'
  BY DEF Straggling
<1>. QED
  BY <1>1, <1>2, <1>3, <1>4, <1>5, <1>6, <1>7

----------------------------------------------------------------------------
(* The kinds of steps the actor takes: it begins a command, ends one, ends *)
(* the fail-closed unkey, or goes on with what it is doing.                *)

PCs == {"start", "select", "held", "drain", "write", "await", "unkey", "unkeyAwait",
        "session", "sessionAwait", "stopped"}

StreamTypes ==
    /\ wire \in Seq(Operations \union {"session"})
    /\ replies \in Seq({"ack", "nak", "on", "off"})
    /\ outstanding \in Seq(Entries)

\* The parts of the actor's state that are in order make the whole in order.
LEMMA TaskTypesFrom ==
    ASSUME pc' \in PCs, cur' \in Requests \union {Poll, NoCommand},
           held' \in Requests \union {NoCommand}, tries' \in Nat, late' \in BOOLEAN,
           after' \in {"select", "timeout", "restored", "stopped"}, StateTypes'
    PROVE  TaskTypes'
BY DEF TaskTypes, StateTypes, PCs

LEMMA RadioTypesFrom ==
    ASSUME RadioTypes, UNCHANGED radioVars, StreamTypes'
    PROVE  RadioTypes'
BY DEF RadioTypes, radioVars, StreamTypes, Entries

LEMMA StreamTypesNow ==
    ASSUME TypeOK
    PROVE  StreamTypes /\ StateTypes
BY DEF TypeOK, RadioTypes, TaskTypes, StreamTypes, StateTypes, Entries

\* A step of the actor that takes nothing from the emergency queue.
LEMMA QueueTypesFrom ==
    ASSUME QueueTypes, UNCHANGED <<gate, gate_moves, emergency, emergency_pending>>,
           stragglers' \in Nat, emergency_wake' \in BOOLEAN, normal' \in Seq(Requests)
    PROVE  QueueTypes'
BY DEF QueueTypes

\* Only a command about to be written can be a straggler.
LEMMA StragglingKept ==
    ASSUME Straggling, UNCHANGED <<gate, stragglers>>,
           \/ pc' \notin {"drain", "write"}
           \/ UNCHANGED <<pc, cur>>
    PROVE  Straggling'
BY DEF Straggling

LEMMA BeginStraggling ==
    ASSUME IInv, NEW cmd \in Requests \union {Poll}, Begin(cmd), UNCHANGED <<gate, stragglers>>
    PROVE  Straggling'
<1>1. /\ pc' \in {"held", "select", "drain", "write"}
      /\ pc' \in {"drain", "write"} => cur' = cmd /\ (Transmits(cmd.op) => gate)
      /\ pc' = "write" => IsEmergency(cmd.op)
  BY BeginStep DEF IInv
<1>. QED
  BY <1>1 DEF IInv, Straggling, Transmits, IsEmergency

LEMMA BeginsStep ==
    ASSUME IInv, NEW cmd \in Requests \union {Poll}, Begin(cmd),
           UNCHANGED <<after, gateVars, emergency, emergency_pending, emergency_wake,
                       stateVars, linkVars, portVars, radioVars, wire, replies, faults>>,
           normal' \in Seq(Requests), held' \in Requests \union {NoCommand},
           cmd = Poll => held' = held
    PROVE  IInv'
<1> USE DEF IInv, TypeOK
<1>1. /\ CallTypes'
      /\ pc' \in {"held", "select", "drain", "write"}
      /\ pc' = "held" => cmd = Poll /\ held # NoCommand
      /\ pc' \in {"drain", "write"} => cur' = cmd
      /\ cur' \in Requests \union {Poll, NoCommand}
      /\ tries' = 0 /\ late' = FALSE
      /\ request' = request
      /\ \A c \in Clients : calls'[c] = "counted" <=> calls[c] = "counted"
      /\ outstanding' \in Seq(Entries)
  BY BeginStep
<1>2. StreamTypes' /\ StateTypes'
  BY <1>1, StreamTypesNow DEF StreamTypes, StateTypes, stateVars
<1>3. TaskTypes'
  BY <1>1, <1>2, TaskTypesFrom DEF TaskTypes, PCs
<1>4. LinkTypes' /\ RadioTypes'
  BY <1>2, RadioTypesFrom DEF LinkTypes, linkVars, portVars
<1>5. QueueTypes'
  BY QueueTypesFrom DEF QueueTypes, gateVars
<1>6. CommandsAreReal'
  BY <1>1 DEF CommandsAreReal, TaskTypes
<1>7. PendingIsExact'
  BY <1>1, PendingKept
<1>8. Straggling'
  BY BeginStraggling DEF gateVars
<1>. QED
  BY <1>1, <1>3, <1>4, <1>5, <1>6, <1>7, <1>8

LEMMA EndsStep ==
    ASSUME IInv, NEW result \in Results, NEW failed \in BOOLEAN,
           Complete(cur, result, failed),
           UNCHANGED <<held, after, gate, gate_moves, emergency, emergency_pending, normal, radioVars>>,
           emergency_wake' \in BOOLEAN, LinkTypes', StateTypes', StreamTypes',
           stragglers' \in Nat, stragglers' <= 1, gate => stragglers' = 0
    PROVE  IInv'
<1> USE DEF IInv, TypeOK
<1>1. /\ CallTypes'
      /\ pc' \in {"held", "select"} /\ (pc' = "held" => held # NoCommand)
      /\ cur' = NoCommand /\ tries' = 0 /\ late' = FALSE
      /\ request' = request
      /\ \A c \in Clients : calls'[c] = "counted" <=> calls[c] = "counted"
  BY CompleteStep
<1>2. TaskTypes'
  BY <1>1, TaskTypesFrom DEF TaskTypes, PCs
<1>3. RadioTypes'
  BY RadioTypesFrom
<1>4. QueueTypes'
  BY QueueTypesFrom DEF QueueTypes
<1>5. CommandsAreReal'
  BY <1>1 DEF CommandsAreReal, TaskTypes
<1>6. PendingIsExact'
  BY <1>1, PendingKept
<1>7. Straggling'
  BY <1>1 DEF Straggling
<1>. QED
  BY <1>1, <1>2, <1>3, <1>4, <1>5, <1>6, <1>7

LEMMA UnkeyEndsStep ==
    ASSUME IInv, NEW ok \in BOOLEAN, UnkeyDone(ok), UNCHANGED UnkeyUnchanged,
           LinkTypes', StreamTypes'
    PROVE  IInv'
<1> USE DEF IInv, TypeOK
<1>1. UNCHANGED <<queueVars, held, after, gateVars, portVars, radioVars, faults>>
  BY DEF UnkeyUnchanged
<1>2. /\ CallTypes' /\ StateTypes'
      /\ pc' \in {"held", "select", "session", "stopped"}
      /\ pc' = "held" => held # NoCommand
      /\ cur' \in Requests \union {Poll, NoCommand}
      /\ tries' = 0 /\ late' \in BOOLEAN
      /\ request' = request
      /\ \A c \in Clients : calls'[c] = "counted" <=> calls[c] = "counted"
  BY UnkeyDoneStep
<1>3. TaskTypes'
  BY <1>1, <1>2, TaskTypesFrom DEF TaskTypes, PCs
<1>4. RadioTypes'
  BY <1>1, RadioTypesFrom
<1>5. QueueTypes'
  BY <1>1, QueueTypesFrom DEF QueueTypes, queueVars, gateVars
<1>6. CommandsAreReal'
  BY <1>1, <1>2 DEF CommandsAreReal, TaskTypes
<1>7. PendingIsExact'
  BY <1>1, <1>2, PendingKept DEF queueVars
<1>8. Straggling'
  BY <1>1, <1>2, StragglingKept DEF gateVars
<1>. QED
  BY <1>2, <1>3, <1>4, <1>5, <1>6, <1>7, <1>8

LEMMA GoesOnStep ==
    ASSUME IInv, UNCHANGED <<callVars, aired, alarm, cur, held, gate, gate_moves, emergency,
                             emergency_pending, normal, radioVars>>,
           emergency_wake' \in BOOLEAN, LinkTypes', StateTypes', StreamTypes',
           pc' \in PCs, tries' \in Nat, late' \in BOOLEAN,
           after' \in {"select", "timeout", "restored", "stopped"},
           pc' \in {"drain", "write", "await"} => pc \in {"drain", "write", "await"},
           pc' # "held", stragglers' \in Nat, Straggling'
    PROVE  IInv'
<1> USE DEF IInv, TypeOK
<1>1. CallTypes' /\ request' = request /\ calls' = calls
  BY DEF CallTypes, callVars
<1>2. TaskTypes'
  BY TaskTypesFrom DEF TaskTypes
<1>3. RadioTypes'
  BY RadioTypesFrom
<1>4. QueueTypes'
  BY QueueTypesFrom DEF QueueTypes
<1>5. CommandsAreReal'
  BY <1>1 DEF CommandsAreReal
<1>6. PendingIsExact'
  BY <1>1, PendingKept
<1>. QED
  BY <1>1, <1>2, <1>3, <1>4, <1>5, <1>6

----------------------------------------------------------------------------
(* The actor between commands.                                             *)

LEMMA TakeEmergencyStep ==
    ASSUME IInv, TakeEmergency
    PROVE  IInv'
<1> USE DEF IInv, TypeOK
<1> DEFINE cmd == Head(emergency)
<1>1. /\ cmd \in Requests /\ Tail(emergency) \in Seq(Requests)
      /\ Len(Tail(emergency)) = Len(emergency) - 1 /\ Len(emergency) \in Nat \ {0}
  BY HeadTailProperties, EmptySeq DEF TakeEmergency, QueueTypes
<1>2. /\ Begin(cmd) /\ emergency' = Tail(emergency)
      /\ emergency_pending' = emergency_pending - 1
      /\ UNCHANGED <<emergency_wake, normal, held, after, gateVars, stateVars, linkVars,
                     portVars, radioVars, wire, replies, faults>>
  BY DEF TakeEmergency
<1>3. /\ CallTypes'
      /\ pc' \in {"held", "select", "drain", "write"}
      /\ pc' = "held" => cmd = Poll /\ held # NoCommand
      /\ pc' \in {"drain", "write"} => cur' = cmd
      /\ cur' \in Requests \union {Poll, NoCommand}
      /\ tries' = 0 /\ late' = FALSE
      /\ request' = request
      /\ \A c \in Clients : calls'[c] = "counted" <=> calls[c] = "counted"
      /\ outstanding' \in Seq(Entries)
  BY <1>1, <1>2, BeginStep
<1>4. StreamTypes' /\ StateTypes'
  BY <1>2, <1>3, StreamTypesNow DEF StreamTypes, StateTypes, stateVars
<1>5. TaskTypes'
  BY <1>2, <1>3, <1>4, TaskTypesFrom DEF TaskTypes, PCs
<1>6. LinkTypes' /\ RadioTypes'
  BY <1>2, <1>4, RadioTypesFrom DEF LinkTypes, linkVars, portVars
<1>7. CommandsAreReal'
  BY <1>1, <1>2, <1>3 DEF CommandsAreReal, TaskTypes
<1>8. PendingIsExact' /\ emergency_pending' \in Nat
  <2>1. Cardinality(CountedNow) \in Nat
    BY CountedFinite DEF CountedNow
  <2>2. CountedNow' = CountedNow
    BY <1>3, CountedSame DEF CountedNow
  <2>3. emergency_pending = Len(emergency) + Cardinality(CountedNow)
    BY DEF PendingIsExact, CountedNow
  <2>4. emergency_pending' = Len(emergency') + Cardinality(CountedNow)
        /\ emergency_pending' \in Nat
    BY <1>1, <1>2, <2>1, <2>3
  <2>. QED
    BY <2>2, <2>4 DEF PendingIsExact, CountedNow
<1>9. QueueTypes'
  BY <1>1, <1>2, <1>8 DEF QueueTypes, gateVars
<1>10. Straggling'
  BY <1>1, <1>2, BeginStraggling DEF gateVars
<1>. QED
  BY <1>3, <1>5, <1>6, <1>7, <1>8, <1>9, <1>10

LEMMA FailClosedStep ==
    ASSUME IInv, NEW next \in {"select", "timeout", "restored", "stopped"}, FailClosed(next),
           UNCHANGED <<callVars, aired, alarm, cur, held, late, gateVars, emergency,
                       emergency_pending, emergency_wake, normal, radioVars, wire, replies>>,
           LinkTypes', StateTypes'
    PROVE  IInv'
<1>1. outstanding' \in Seq(Entries)
  BY StreamTypesNow, DisownedType DEF FailClosed, IInv, StreamTypes
<1>2. StreamTypes'
  BY <1>1, StreamTypesNow DEF IInv, StreamTypes
<1>3. pc' = "unkey" /\ tries' = 0 /\ after' = next
  BY DEF FailClosed
<1>4. Straggling'
  BY <1>3, StragglingKept DEF IInv, gateVars
<1>. QED
  BY <1>2, <1>3, <1>4, GoesOnStep DEF IInv, TypeOK, TaskTypes, QueueTypes, PCs, gateVars

LEMMA LinkStatusChangedStep ==
    ASSUME IInv, LinkStatusChanged
    PROVE  IInv'
<1> USE DEF IInv, TypeOK
<1>1. /\ watch_seen' = TRUE /\ pc \in {"start", "select"}
      /\ UNCHANGED <<queueVars, callVars, cur, held, late, gateVars, stateVars, portVars,
                     radioVars, wire, replies, aired, alarm, faults>>
  BY DEF LinkStatusChanged, Idle
<1>2. link_up' \in BOOLEAN
  BY DEF LinkStatusChanged, LinkTypes
<1>3. link_generation' \in Nat
  BY DEF LinkStatusChanged, LinkTypes
<1>4. LinkTypes' /\ StateTypes'
  BY <1>1, <1>2, <1>3, StreamTypesNow DEF LinkTypes, portVars, StateTypes, stateVars
<1>5. CASE FailClosed("restored")
  BY <1>1, <1>4, <1>5, FailClosedStep DEF queueVars
<1>6. CASE ~FailClosed("restored")
  <2>1. UNCHANGED <<tries, after, outstanding>> /\ pc' \in {pc, "select", "session"}
    BY <1>6 DEF LinkStatusChanged
  <2>2. StreamTypes'
    BY <1>1, <2>1, StreamTypesNow DEF StreamTypes
  <2>3. Straggling'
    BY <1>1, <2>1, StragglingKept DEF gateVars
  <2>. QED
    BY <1>1, <1>4, <2>1, <2>2, <2>3, GoesOnStep DEF TaskTypes, QueueTypes, PCs, gateVars, queueVars
<1>. QED
  BY <1>5, <1>6

LEMMA WatchdogFireStep ==
    ASSUME IInv, WatchdogFire
    PROVE  IInv'
<1>1. LinkTypes' /\ StateTypes'
  BY DEF WatchdogFire, IInv, TypeOK, LinkTypes, linkVars, portVars, StateTypes, TaskTypes
<1>. QED
  BY <1>1, FailClosedStep DEF WatchdogFire, queueVars

LEMMA TakeNormalStep ==
    ASSUME IInv, TakeNormal
    PROVE  IInv'
<1> USE DEF IInv, TypeOK
<1>1. /\ normal' = Tail(normal) /\ normal # <<>>
      /\ UNCHANGED <<emergency, emergency_pending, emergency_wake, after, gateVars,
                     stateVars, linkVars, portVars, radioVars, wire, replies, faults>>
  BY DEF TakeNormal
<1>2. Head(normal) \in Requests /\ normal' \in Seq(Requests)
  BY <1>1, HeadTailProperties DEF QueueTypes
<1>3. CASE Begin(Head(normal)) /\ UNCHANGED held
  BY <1>1, <1>2, <1>3, BeginsStep DEF TaskTypes
<1>4. CASE /\ PttPolled /\ link_up
           /\ held' = Head(normal)
           /\ cur' = Poll /\ pc' = "drain" /\ tries' = 0 /\ late' = FALSE
           /\ outstanding' = Disowned
           /\ UNCHANGED <<callVars, aired, alarm>>
  <2>1. outstanding' \in Seq(Entries)
    BY <1>4, StreamTypesNow, DisownedType DEF StreamTypes
  <2>2. StreamTypes' /\ StateTypes'
    BY <1>1, <2>1, StreamTypesNow DEF StreamTypes, StateTypes, stateVars
  <2>3. TaskTypes'
    BY <1>1, <1>2, <1>4, <2>2, TaskTypesFrom DEF TaskTypes, PCs
  <2>4. LinkTypes' /\ RadioTypes' /\ CallTypes'
    BY <1>1, <1>4, <2>2, RadioTypesFrom DEF LinkTypes, linkVars, portVars, CallTypes, callVars
  <2>5. QueueTypes'
    BY <1>1, <1>2, QueueTypesFrom DEF QueueTypes, gateVars
  <2>6. CommandsAreReal' /\ PendingIsExact'
    BY <1>1, <1>4, PendingKept DEF CommandsAreReal, callVars
  <2>7. Straggling'
    BY <1>1, <1>4 DEF Straggling, Transmits, Poll, gateVars
  <2>. QED
    BY <2>3, <2>4, <2>5, <2>6, <2>7
<1>. QED
  BY <1>3, <1>4 DEF TakeNormal

LEMMA ServeHeldStep ==
    ASSUME IInv, ServeHeld
    PROVE  IInv'
<1>1. held \in Requests /\ held # Poll
  BY ConstantsAssumption DEF ServeHeld, IInv, CommandsAreReal, Requests, Poll
<1>2. normal' \in Seq(Requests)
  BY DEF ServeHeld, IInv, TypeOK, QueueTypes, queueVars
<1>. QED
  BY <1>1, <1>2, BeginsStep DEF ServeHeld, queueVars

LEMMA PollOnceStep ==
    ASSUME IInv, PollOnce
    PROVE  IInv'
BY BeginsStep DEF PollOnce, IInv, TypeOK, QueueTypes, TaskTypes, queueVars

\* Reading a reply keeps the stream in order.
LEMMA AbsorbStream ==
    ASSUME TypeOK, replies # <<>>, NEW frame, Absorb(frame), UNCHANGED wire
    PROVE  StreamTypes'
BY AbsorbType, StreamTypesNow DEF TypeOK, StreamTypes

\* Steps that leave the command in service and the callers alone.
LEMMA ReadsStep ==
    ASSUME IInv, Absorb(Head(replies)), replies # <<>>, ObserveFrame(Head(replies)),
           UNCHANGED <<queueVars, callVars, taskVars, gateVars, linkVars, portVars,
                       radioVars, wire, aired, alarm, faults>>,
           pc # "held"
    PROVE  IInv'
<1> USE DEF IInv
<1>1. StreamTypes'
  BY AbsorbStream
<1>2. StateTypes'
  BY StreamTypesNow, StateStep
<1>3. LinkTypes'
  BY DEF TypeOK, LinkTypes, linkVars, portVars
<1>4. Straggling'
  BY StragglingKept DEF taskVars, gateVars
<1>. QED
  BY <1>1, <1>2, <1>3, <1>4, GoesOnStep
     DEF TypeOK, TaskTypes, QueueTypes, PCs, gateVars, queueVars, taskVars

LEMMA ReadIdleStep ==
    ASSUME IInv, ReadIdle
    PROVE  IInv'
BY ReadsStep DEF ReadIdle, Idle

LEMMA DrainStaleStep ==
    ASSUME IInv, DrainStale
    PROVE  IInv'
BY ReadsStep DEF DrainStale

\* The stream is as before.
LEMMA StreamSame ==
    ASSUME TypeOK, UNCHANGED <<wire, replies, outstanding>>
    PROVE  StreamTypes'
BY StreamTypesNow DEF StreamTypes

LEMMA LoseLinkIdleStep ==
    ASSUME IInv, LoseLinkIdle
    PROVE  IInv'
<1> USE DEF IInv
<1>1. /\ pc = "select" /\ link_up' = FALSE
      /\ UNCHANGED <<queueVars, callVars, taskVars, gateVars, stateVars, link_generation,
                   watch_seen, portVars, radioVars, wireVars, aired, alarm, faults>>
  BY DEF LoseLinkIdle, Idle
<1>2. StreamTypes' /\ StateTypes'
  BY <1>1, StreamSame, StreamTypesNow DEF wireVars, StateTypes, stateVars
<1>3. LinkTypes'
  BY <1>1 DEF TypeOK, LinkTypes, portVars
<1>4. Straggling'
  BY <1>1, StragglingKept DEF taskVars, gateVars
<1>. QED
  BY <1>1, <1>2, <1>3, <1>4, GoesOnStep
     DEF TypeOK, TaskTypes, QueueTypes, PCs, gateVars, queueVars, taskVars

\* The last handle goes: no caller is left to be answered.
LEMMA StopStep ==
    ASSUME IInv, Stop
    PROVE  IInv'
<1> USE DEF IInv, TypeOK
<1>1. /\ budget' = [c \in Clients |-> 0] /\ gate_moves' = GateMoves
      /\ UNCHANGED <<queueVars, calls, request, answer, unkey_waiters, cur, held, late, gate,
                   stragglers, stateVars, linkVars, portVars, radioVars, wire, replies,
                   aired, alarm, faults>>
  BY DEF Stop
<1>2. /\ outstanding' \in Seq(Entries) /\ tries' \in Nat /\ pc' \in {"unkey", "stopped"}
      /\ after' \in {"select", "timeout", "restored", "stopped"}
  BY StreamTypesNow, DisownedType DEF Stop, FailClosed, StreamTypes, TaskTypes
<1>3. StreamTypes' /\ StateTypes'
  BY <1>1, <1>2, StreamTypesNow DEF StreamTypes, StateTypes, stateVars
<1>4. CallTypes'
  BY <1>1 DEF CallTypes
<1>5. TaskTypes'
  BY <1>1, <1>2, <1>3, TaskTypesFrom DEF TaskTypes, PCs
<1>6. LinkTypes' /\ RadioTypes'
  BY <1>1, <1>3, RadioTypesFrom DEF LinkTypes, linkVars, portVars
<1>7. QueueTypes'
  BY <1>1, ConstantsAssumption DEF QueueTypes, queueVars
<1>8. CommandsAreReal'
  BY <1>1, <1>2 DEF CommandsAreReal
<1>9. PendingIsExact'
  BY <1>1, PendingKept DEF queueVars
<1>10. Straggling'
  BY <1>1, <1>2, StragglingKept
<1>. QED
  BY <1>4, <1>5, <1>6, <1>7, <1>8, <1>9, <1>10

----------------------------------------------------------------------------
(* The actor serving a command.                                            *)

LEMMA WokenStep ==
    ASSUME IInv, Woken
    PROVE  IInv'
<1> USE DEF IInv
<1>1. /\ pc \in {"await", "drain"} /\ emergency_wake' = FALSE
      /\ UNCHANGED <<emergency, emergency_pending, normal, held, after, gateVars, stateVars,
                     linkVars, portVars, radioVars, wireVars, faults>>
  BY DEF Woken
<1>2. StreamTypes' /\ StateTypes'
  BY <1>1, StreamSame, StreamTypesNow DEF wireVars, StateTypes, stateVars
<1>3. LinkTypes'
  BY <1>1 DEF TypeOK, LinkTypes, linkVars, portVars
<1>4. CASE Complete(cur, "Cancelled", FALSE)
  <2>1. "Cancelled" \in Results
    BY DEF Results
  <2>. QED
    BY <1>1, <1>2, <1>3, <1>4, <2>1, EndsStep DEF gateVars, Straggling, TypeOK, QueueTypes
<1>5. CASE UNCHANGED <<callVars, aired, alarm, pc, cur, tries, late>>
  <2>1. Straggling'
    BY <1>1, <1>5, StragglingKept DEF gateVars
  <2>. QED
    BY <1>1, <1>2, <1>3, <1>5, <2>1, GoesOnStep
       DEF TypeOK, TaskTypes, QueueTypes, PCs, gateVars
<1>. QED
  BY <1>4, <1>5 DEF Woken

LEMMA LinkLostStep ==
    ASSUME IInv, LinkLost
    PROVE  IInv'
<1> USE DEF IInv
<1>1. /\ Complete(cur, "LinkDown", FALSE) /\ link_up' = FALSE
      /\ UNCHANGED <<queueVars, held, after, gateVars, stateVars, link_generation, watch_seen,
                     portVars, radioVars, wireVars, faults>>
  BY DEF LinkLost
<1>2. StreamTypes' /\ StateTypes'
  BY <1>1, StreamSame, StreamTypesNow DEF wireVars, StateTypes, stateVars
<1>3. LinkTypes'
  BY <1>1 DEF TypeOK, LinkTypes, portVars
<1>4. "LinkDown" \in Results
  BY DEF Results
<1>. QED
  BY <1>1, <1>2, <1>3, <1>4, EndsStep DEF gateVars, queueVars, Straggling, TypeOK, QueueTypes

LEMMA LoseLinkServingStep ==
    ASSUME IInv, LoseLinkServing
    PROVE  IInv'
BY LinkLostStep DEF LoseLinkServing

\* A request put on the wire, or lost with the port.
LEMMA WrittenType ==
    ASSUME TypeOK, NEW op \in Operations \union {"session"}, Written(op)
    PROVE  wire' \in Seq(Operations \union {"session"})
<1>1. wire' \in {wire, Append(wire, op)}
  BY DEF Written
<1>. QED
  BY <1>1, AppendProperties DEF TypeOK, RadioTypes

LEMMA WriteCommandStep ==
    ASSUME IInv, NEW expired \in BOOLEAN, WriteCommand(expired)
    PROVE  IInv'
<1> USE DEF IInv
<1>1. /\ pc \in {"drain", "write"}
      /\ UNCHANGED <<queueVars, held, after, gate, gate_moves, linkVars, portVars, radioVars,
                     replies, faults>>
  BY DEF WriteCommand
<1>2. cur.op \in Operations
  BY <1>1 DEF CommandsAreReal, Requests, Poll, Operations
<1>3. StreamTypes'
  <2>1. wire' \in Seq(Operations \union {"session"})
    BY <1>2, WrittenType DEF WriteCommand
  <2>2. outstanding' \in Seq(Entries)
    BY StreamTypesNow, NoteWrittenType DEF WriteCommand, StreamTypes
  <2>. QED
    BY <1>1, <2>1, <2>2, StreamTypesNow DEF StreamTypes
<1>4. StateTypes'
  BY StreamTypesNow, StateStep DEF WriteCommand
<1>5. LinkTypes'
  BY <1>1 DEF TypeOK, LinkTypes, linkVars, portVars
<1>6. stragglers' \in Nat /\ stragglers' <= 1 /\ (gate => stragglers' = 0)
  BY <1>1 DEF WriteCommand, CountStraggler, Straggling, TypeOK, QueueTypes
<1>7. CASE ReplyKind(cur.op) = "none"
  <2>1. Complete(cur, "ok", FALSE)
    BY <1>7, Zenon DEF WriteCommand
  <2>2. "ok" \in Results
    BY DEF Results
  <2>. QED
    BY <1>1, <1>3, <1>4, <1>5, <1>6, <2>1, <2>2, EndsStep
       DEF queueVars, TypeOK, QueueTypes
<1>8. CASE ReplyKind(cur.op) # "none"
  <2>1. /\ pc' = "await" /\ late' = (late \/ expired)
        /\ UNCHANGED <<callVars, aired, alarm, cur, tries>>
    BY <1>8, Zenon DEF WriteCommand
  <2>2. Straggling'
    BY <1>1, <1>6, <2>1 DEF Straggling
  <2>3. late' \in BOOLEAN
    BY <2>1
  <2>4. tries' \in Nat /\ after' \in {"select", "timeout", "restored", "stopped"}
    BY <1>1, <2>1 DEF TypeOK, TaskTypes
  <2>5. emergency_wake' \in BOOLEAN
    BY <1>1 DEF TypeOK, QueueTypes, queueVars
  <2>. QED
    BY <1>1, <1>3, <1>4, <1>5, <1>6, <2>1, <2>2, <2>3, <2>4, <2>5, GoesOnStep
       DEF PCs, queueVars
<1>. QED
  BY <1>7, <1>8

\* A transmit command in doubt is followed by the unkey, another one ends.
LEMMA TimesOut ==
    ASSUME IInv,
           UNCHANGED <<queueVars, held, gateVars, stateVars, linkVars, portVars, radioVars,
                       wire, replies, faults>>,
           \/ FailClosed("timeout") /\ UNCHANGED <<callVars, aired, alarm, cur, late>>
           \/ Complete(cur, "Timeout", FALSE) /\ UNCHANGED <<after, outstanding>>
    PROVE  IInv'
<1> USE DEF IInv
<1>1. StateTypes' /\ LinkTypes'
  BY StreamTypesNow DEF StateTypes, stateVars, TypeOK, LinkTypes, linkVars, portVars
<1>2. CASE FailClosed("timeout") /\ UNCHANGED <<callVars, aired, alarm, cur, late>>
  BY <1>1, <1>2, FailClosedStep DEF queueVars
<1>3. CASE Complete(cur, "Timeout", FALSE) /\ UNCHANGED <<after, outstanding>>
  <2>1. StreamTypes' /\ "Timeout" \in Results
    BY <1>3, StreamSame DEF Results
  <2>. QED
    BY <1>1, <1>3, <2>1, EndsStep DEF gateVars, queueVars, Straggling, TypeOK, QueueTypes
<1>. QED
  BY <1>2, <1>3

LEMMA WriteTimesOutStep ==
    ASSUME IInv, WriteTimesOut
    PROVE  IInv'
BY TimesOut, Zenon DEF WriteTimesOut

LEMMA AwaitReplyStep ==
    ASSUME IInv, AwaitReply
    PROVE  IInv'
<1> USE DEF IInv
<1> DEFINE frame == Head(replies)
           outcome == Decides(frame, ReplyKind(cur.op))
<1>1. /\ pc = "await" /\ replies # <<>> /\ Absorb(frame)
      /\ UNCHANGED <<queueVars, held, after, gateVars, linkVars, portVars, radioVars, wire,
                     faults>>
  BY DEF AwaitReply
<1>2. StreamTypes'
  BY <1>1, AbsorbStream
<1>3. StateTypes'
  BY StreamTypesNow, StateStep DEF AwaitReply
<1>4. LinkTypes'
  BY <1>1 DEF TypeOK, LinkTypes, linkVars, portVars
<1>5. CASE outcome = "none"
  <2>1. UNCHANGED <<callVars, aired, alarm, pc, cur, tries, late>>
    BY <1>5, Zenon DEF AwaitReply
  <2>2. Straggling'
    BY <1>1, <2>1, StragglingKept DEF gateVars
  <2>. QED
    BY <1>1, <1>2, <1>3, <1>4, <2>1, <2>2, GoesOnStep
       DEF TypeOK, TaskTypes, QueueTypes, PCs, gateVars, queueVars
<1>6. CASE outcome # "none"
  <2>1. Complete(cur, outcome, FALSE)
    BY <1>6, Zenon DEF AwaitReply
  <2>2. outcome \in Results
    BY DEF Decides, Results
  <2>. QED
    BY <1>1, <1>2, <1>3, <1>4, <2>1, <2>2, EndsStep
       DEF gateVars, queueVars, Straggling, TypeOK, QueueTypes
<1>. QED
  BY <1>5, <1>6

LEMMA WatchdogPreemptsStep ==
    ASSUME IInv, WatchdogPreempts
    PROVE  IInv'
<1> USE DEF IInv
<1>1. /\ Complete(cur, "Cancelled", FALSE)
      /\ UNCHANGED <<queueVars, held, after, gateVars, stateVars, linkVars, portVars,
                     radioVars, wireVars, faults>>
  BY DEF WatchdogPreempts
<1>2. StreamTypes' /\ StateTypes' /\ LinkTypes'
  BY <1>1, StreamSame, StreamTypesNow
     DEF wireVars, StateTypes, stateVars, TypeOK, LinkTypes, linkVars, portVars
<1>3. "Cancelled" \in Results
  BY DEF Results
<1>. QED
  BY <1>1, <1>2, <1>3, EndsStep DEF gateVars, queueVars, Straggling, TypeOK, QueueTypes

LEMMA ReplyTimesOutStep ==
    ASSUME IInv, ReplyTimesOut
    PROVE  IInv'
<1> USE DEF IInv
<1>1. /\ pc = "await"
      /\ UNCHANGED <<queueVars, held, gateVars, stateVars, linkVars, portVars, radioVars,
                     wire, replies, faults>>
  BY DEF ReplyTimesOut
<1>2. CASE /\ ~late /\ NextAttempt < AttemptsFor(cur.op)
           /\ tries' = NextAttempt
           /\ pc' = IF IsEmergency(cur.op) THEN "write" ELSE "drain"
           /\ UNCHANGED <<callVars, aired, alarm, cur, late, after, outstanding>>
  <2>1. tries' \in Nat /\ tries' > 0
    BY <1>2 DEF NextAttempt, TypeOK, TaskTypes
  <2>2. ~Transmits(cur.op)
    BY <1>2, <2>1 DEF AttemptsFor
  <2>3. Straggling' /\ pc' \in {"drain", "write"}
    BY <1>1, <1>2, <2>2 DEF Straggling, gateVars
  <2>4. StreamTypes' /\ StateTypes' /\ LinkTypes'
    BY <1>1, <1>2, StreamSame, StreamTypesNow
       DEF StateTypes, stateVars, TypeOK, LinkTypes, linkVars, portVars
  <2>. QED
    BY <1>1, <1>2, <2>1, <2>3, <2>4, GoesOnStep
       DEF TypeOK, TaskTypes, QueueTypes, PCs, gateVars, queueVars
<1>3. CASE /\ Transmits(cur.op)
           /\ FailClosed("timeout") /\ UNCHANGED <<callVars, aired, alarm, cur, late>>
  BY <1>1, <1>3, TimesOut, Zenon
<1>4. CASE /\ ~Transmits(cur.op)
           /\ Complete(cur, "Timeout", FALSE) /\ UNCHANGED <<after, outstanding>>
  BY <1>1, <1>4, TimesOut, Zenon
<1>. QED
  BY <1>2, <1>3, <1>4, Zenon DEF ReplyTimesOut

----------------------------------------------------------------------------
(* The fail-closed unkey and the session that follows a reconnection.      *)

LEMMA WriteUnkeyStep ==
    ASSUME IInv, WriteUnkey
    PROVE  IInv'
<1> USE DEF IInv
<1>1. pc = "unkey" /\ UNCHANGED <<UnkeyUnchanged, linkVars, replies>>
  BY DEF WriteUnkey
<1>2. StreamTypes'
  <2>1. "unkey" \in Operations
    BY DEF Operations
  <2>2. wire' \in Seq(Operations \union {"session"})
    BY <2>1, WrittenType DEF WriteUnkey
  <2>3. outstanding' \in Seq(Entries)
    BY StreamTypesNow, NoteWrittenType DEF WriteUnkey, StreamTypes
  <2>. QED
    BY <1>1, <2>2, <2>3, StreamTypesNow DEF StreamTypes
<1>3. LinkTypes'
  BY <1>1 DEF UnkeyUnchanged, TypeOK, LinkTypes, linkVars, portVars
<1>4. CASE SetReply = "none"
  <2>1. UnkeyDone(TRUE)
    BY <1>4, Zenon DEF WriteUnkey
  <2>. QED
    BY <1>1, <1>2, <1>3, <2>1, UnkeyEndsStep
<1>5. CASE SetReply # "none"
  <2>1. pc' = "unkeyAwait" /\ UNCHANGED <<callVars, aired, alarm, stateVars, cur, tries, late>>
    BY <1>5, Zenon DEF WriteUnkey
  <2>2. StateTypes'
    BY <2>1, StreamTypesNow DEF StateTypes, stateVars
  <2>3. Straggling'
    BY <1>1, <2>1, StragglingKept DEF UnkeyUnchanged, gateVars
  <2>. QED
    BY <1>1, <1>2, <1>3, <2>1, <2>2, <2>3, GoesOnStep
       DEF UnkeyUnchanged, TypeOK, TaskTypes, QueueTypes, PCs, gateVars, queueVars
<1>. QED
  BY <1>4, <1>5

LEMMA UnkeyWriteFailsStep ==
    ASSUME IInv, UnkeyWriteFails
    PROVE  IInv'
<1> USE DEF IInv
<1>1. /\ link_up' = FALSE /\ UnkeyDone(FALSE)
      /\ UNCHANGED <<UnkeyUnchanged, link_generation, watch_seen, wireVars>>
  BY DEF UnkeyWriteFails
<1>2. LinkTypes'
  BY <1>1 DEF UnkeyUnchanged, TypeOK, LinkTypes, portVars
<1>3. StreamTypes'
  BY <1>1, StreamSame DEF wireVars
<1>. QED
  BY <1>1, <1>2, <1>3, UnkeyEndsStep

LEMMA UnkeyGivesUpStep ==
    ASSUME IInv, UnkeyGivesUp
    PROVE  IInv'
<1> USE DEF IInv
<1>1. UnkeyDone(FALSE) /\ UNCHANGED <<UnkeyUnchanged, linkVars, wireVars>>
  BY DEF UnkeyGivesUp
<1>2. LinkTypes'
  BY <1>1 DEF UnkeyUnchanged, TypeOK, LinkTypes, portVars, linkVars
<1>3. StreamTypes'
  BY <1>1, StreamSame DEF wireVars
<1>. QED
  BY <1>1, <1>2, <1>3, UnkeyEndsStep

\* Steps that stay within the unkey or the session.
LEMMA StaysStep ==
    ASSUME IInv, UNCHANGED <<UnkeyUnchanged, callVars, aired, alarm, cur, late>>,
           pc' \in {"unkey", "unkeyAwait", "session", "sessionAwait", "select"},
           tries' \in Nat, LinkTypes', StateTypes', StreamTypes'
    PROVE  IInv'
<1> USE DEF IInv
<1>1. Straggling'
  BY StragglingKept DEF UnkeyUnchanged, gateVars
<1>. QED
  BY <1>1, GoesOnStep
     DEF UnkeyUnchanged, TypeOK, TaskTypes, QueueTypes, PCs, gateVars, queueVars

LEMMA UnkeyAttemptFailsStep ==
    ASSUME IInv, UnkeyAttemptFails
    PROVE  IInv'
<1> USE DEF IInv
<1>1. /\ pc' = "unkey" /\ tries' = tries + 1
      /\ UNCHANGED <<UnkeyUnchanged, callVars, aired, alarm, stateVars, cur, late, linkVars,
                     wireVars>>
  BY DEF UnkeyAttemptFails, NextUnkeyAttempt
<1>2. tries' \in Nat
  BY <1>1 DEF TypeOK, TaskTypes
<1>3. StreamTypes' /\ StateTypes' /\ LinkTypes'
  BY <1>1, StreamSame, StreamTypesNow
     DEF wireVars, StateTypes, stateVars, UnkeyUnchanged, TypeOK, LinkTypes, linkVars, portVars
<1>. QED
  BY <1>1, <1>2, <1>3, StaysStep

LEMMA UnkeyAwaitStep ==
    ASSUME IInv, UnkeyAwait
    PROVE  IInv'
<1> USE DEF IInv
<1> DEFINE outcome == Decides(Head(replies), SetReply)
<1>1. /\ pc = "unkeyAwait" /\ replies # <<>> /\ Absorb(Head(replies))
      /\ UNCHANGED <<UnkeyUnchanged, linkVars, wire>>
  BY DEF UnkeyAwait
<1>2. StreamTypes'
  BY <1>1, AbsorbStream
<1>3. LinkTypes'
  BY <1>1 DEF UnkeyUnchanged, TypeOK, LinkTypes, linkVars, portVars
<1>4. CASE outcome = "ok" /\ UnkeyDone(TRUE)
  BY <1>1, <1>2, <1>3, <1>4, UnkeyEndsStep
<1>5. CASE /\ outcome # "ok"
           /\ ObserveFrame(Head(replies))
           /\ IF outcome = "none" THEN UNCHANGED <<pc, tries>> ELSE NextUnkeyAttempt
           /\ UNCHANGED <<callVars, aired, alarm, cur, late>>
  <2>1. StateTypes'
    BY <1>5, StreamTypesNow, StateStep
  <2>2. pc' \in {"unkey", "unkeyAwait"}
    BY <1>1, <1>5 DEF NextUnkeyAttempt
  <2>3. tries' \in Nat
    BY <1>5 DEF NextUnkeyAttempt, TypeOK, TaskTypes
  <2>. QED
    BY <1>1, <1>2, <1>3, <1>5, <2>1, <2>2, <2>3, StaysStep
<1>. QED
  BY <1>4, <1>5, Zenon DEF UnkeyAwait

LEMMA SessionStepKeeps ==
    ASSUME IInv, SessionStep
    PROVE  IInv'
<1> USE DEF IInv
<1>1. pc = "session" /\ UNCHANGED <<SessionUnchanged, stateVars, replies>>
  BY DEF SessionStep
<1>2. StateTypes'
  BY <1>1, StreamTypesNow DEF StateTypes, stateVars
<1>3. pc' \in {"session", "sessionAwait", "select"}
  BY <1>1 DEF SessionStep
<1>4. tries' \in Nat
  BY DEF SessionStep, TypeOK, TaskTypes
<1>5. LinkTypes'
  <2>1. link_up' \in BOOLEAN
    BY DEF SessionStep, linkVars, TypeOK, LinkTypes
  <2>2. UNCHANGED <<link_generation, watch_seen, portVars, faults>>
    BY <1>1 DEF SessionStep, linkVars, SessionUnchanged, UnkeyUnchanged
  <2>. QED
    BY <2>1, <2>2 DEF TypeOK, LinkTypes, portVars
<1>6. StreamTypes'
  <2>1. CASE Written("session") /\ outstanding' = NoteWritten(Disowned, SetReply)
    <3>1. wire' \in Seq(Operations \union {"session"})
      BY <2>1, WrittenType
    <3>2. outstanding' \in Seq(Entries)
      BY <2>1, StreamTypesNow, DisownedType, NoteWrittenType DEF StreamTypes
    <3>. QED
      BY <1>1, <3>1, <3>2, StreamTypesNow DEF StreamTypes
  <2>2. CASE UNCHANGED <<wire, outstanding>>
    BY <1>1, <2>2, StreamSame
  <2>. QED
    BY <2>1, <2>2 DEF SessionStep
<1>. QED
  BY <1>1, <1>2, <1>3, <1>4, <1>5, <1>6, StaysStep DEF SessionUnchanged

LEMMA SessionAwaitStep ==
    ASSUME IInv, SessionAwait
    PROVE  IInv'
<1> USE DEF IInv
<1>1. pc = "sessionAwait" /\ UNCHANGED <<SessionUnchanged, linkVars, wire>>
  BY DEF SessionAwait
<1>2. pc' \in {"session", "sessionAwait"}
  BY <1>1 DEF SessionAwait
<1>3. tries' \in Nat
  BY DEF SessionAwait, TypeOK, TaskTypes
<1>4. LinkTypes'
  BY <1>1 DEF SessionUnchanged, UnkeyUnchanged, TypeOK, LinkTypes, linkVars, portVars
<1>5. CASE replies # <<>> /\ Absorb(Head(replies)) /\ ObserveFrame(Head(replies))
  <2>1. StreamTypes'
    BY <1>1, <1>5, AbsorbStream
  <2>2. StateTypes'
    BY <1>5, StreamTypesNow, StateStep
  <2>. QED
    BY <1>1, <1>2, <1>3, <1>4, <2>1, <2>2, StaysStep DEF SessionUnchanged
<1>6. CASE UNCHANGED <<replies, outstanding, stateVars>>
  <2>1. StreamTypes' /\ StateTypes'
    BY <1>1, <1>6, StreamSame, StreamTypesNow DEF StateTypes, stateVars
  <2>. QED
    BY <1>1, <1>2, <1>3, <1>4, <2>1, StaysStep DEF SessionUnchanged
<1>. QED
  BY <1>5, <1>6 DEF SessionAwait

----------------------------------------------------------------------------
(* The invariant and the theorems.                                         *)

LEMMA InitInv == Init => IInv
<1> SUFFICES ASSUME Init PROVE IInv
  OBVIOUS
<1> USE DEF Init
<1>1. QueueTypes /\ CallTypes
  BY EmptySeq, ConstantsAssumption DEF QueueTypes, CallTypes, Results
<1>2. TaskTypes /\ LinkTypes
  BY DEF TaskTypes, LinkTypes
<1>3. RadioTypes
  BY EmptySeq DEF RadioTypes
<1>4. PendingIsExact
  <2>1. {c \in Clients : calls[c] = "counted"} = {}
    OBVIOUS
  <2>2. Cardinality({c \in Clients : calls[c] = "counted"}) = 0
    BY <2>1, FS_EmptySet
  <2>3. Len(emergency) = 0 /\ emergency_pending = 0
    OBVIOUS
  <2>. QED
    BY <2>2, <2>3 DEF PendingIsExact
<1>5. CommandsAreReal /\ Straggling
  BY DEF CommandsAreReal, Straggling
<1>. QED
  BY <1>1, <1>2, <1>3, <1>4, <1>5 DEF IInv, TypeOK

LEMMA ActorStep ==
    ASSUME IInv, Actor
    PROVE  IInv'
<1>1. CASE \/ TakeEmergency \/ LinkStatusChanged \/ WatchdogFire \/ TakeNormal \/ ServeHeld
           \/ ReadIdle \/ LoseLinkIdle \/ PollOnce
  BY <1>1, TakeEmergencyStep, LinkStatusChangedStep, WatchdogFireStep, TakeNormalStep,
     ServeHeldStep, ReadIdleStep, LoseLinkIdleStep, PollOnceStep
<1>2. CASE \/ Woken \/ DrainStale \/ LoseLinkServing
           \/ \E expired \in BOOLEAN : WriteCommand(expired)
           \/ WriteTimesOut \/ AwaitReply \/ WatchdogPreempts \/ ReplyTimesOut
  BY <1>2, WokenStep, DrainStaleStep, LoseLinkServingStep, WriteCommandStep,
     WriteTimesOutStep, AwaitReplyStep, WatchdogPreemptsStep, ReplyTimesOutStep
<1>3. CASE \/ WriteUnkey \/ UnkeyWriteFails \/ UnkeyAttemptFails \/ UnkeyAwait
           \/ UnkeyGivesUp \/ SessionStep \/ SessionAwait
  BY <1>3, WriteUnkeyStep, UnkeyWriteFailsStep, UnkeyAttemptFailsStep, UnkeyAwaitStep,
     UnkeyGivesUpStep, SessionStepKeeps, SessionAwaitStep
<1>. QED
  BY <1>1, <1>2, <1>3 DEF Actor

LEMMA StutterStep ==
    ASSUME IInv, UNCHANGED vars
    PROVE  IInv'
<1> USE DEF IInv, TypeOK, vars, gateVars, queueVars, callVars, taskVars, stateVars, linkVars,
            portVars, radioVars, wireVars
<1>1. QueueTypes' /\ CallTypes'
  BY DEF QueueTypes, CallTypes
<1>2. TaskTypes' /\ LinkTypes' /\ RadioTypes'
  BY DEF TaskTypes, LinkTypes, RadioTypes
<1>3. CommandsAreReal' /\ Straggling'
  BY DEF CommandsAreReal, Straggling
<1>4. PendingIsExact'
  BY PendingKept
<1>. QED
  BY <1>1, <1>2, <1>3, <1>4

\* Every step of the system keeps the invariant.
LEMMA NextInv == IInv /\ [Next]_vars => IInv'
<1> SUFFICES ASSUME IInv, [Next]_vars PROVE IInv'
  OBVIOUS
<1>1. ASSUME NEW c \in Clients, Call(c) PROVE IInv'
  BY <1>1, CallStep
<1>2. ASSUME NEW c \in Clients, SubmitStep(c) PROVE IInv'
  BY <1>2, SubmitStepKeeps
<1>3. CASE MoveGate
  BY <1>3, MoveGateStep
<1>4. CASE Stop
  BY <1>4, StopStep
<1>5. CASE Actor
  BY <1>5, ActorStep
<1>6. CASE Radio
  BY <1>6, RadioStep
<1>7. CASE Link
  BY <1>7, LinkStep
<1>8. CASE UNCHANGED vars
  BY <1>8, StutterStep
<1>. QED
  BY <1>1, <1>2, <1>3, <1>4, <1>5, <1>6, <1>7, <1>8 DEF Next

\* The inductive invariant holds in every reachable state, for every value of the
\* constants: what TypeOK, the counter and the gate (rig.rs submit, run,
\* run_command) need in order to be preserved by every step.
THEOREM Invariance == Spec => []IInv
BY InitInv, NextInv, PTL DEF Spec

\* The state of the queues, the callers, the actor and the stream is always
\* well formed, for any number of clients, queue sizes and retry settings.
THEOREM TypeCorrect == Spec => []TypeOK
<1>1. IInv => TypeOK
  BY DEF IInv
<1>. QED
  BY <1>1, Invariance, PTL

\* The counter beside the emergency queue never drifts: submit counts a command
\* before it is queued, and the actor uncounts it when it takes it, whatever the
\* threads of the handles do in between.
THEOREM PendingExact == Spec => []PendingIsExact
<1>1. IInv => PendingIsExact
  BY DEF IInv
<1>. QED
  BY <1>1, Invariance, PTL

\* At most one transmit command is written after the owner closed the gate: the
\* gate is looked at again when the actor begins a command.
THEOREM OneStragglerHolds == Spec => []OneStraggler
<1>1. IInv => OneStraggler
  BY DEF IInv, Straggling, OneStraggler
<1>. QED
  BY <1>1, Invariance, PTL

----------------------------------------------------------------------------
(* Where a client's command is.                                            *)

\* A command in service, and one held back for a poll, are where the actor says.
CommandInPlace ==
    /\ cur # NoCommand => \/ pc \in {"drain", "write", "await"}
                          \/ pc \in {"unkey", "unkeyAwait"} /\ after = "timeout"
    /\ held # NoCommand => pc = "held" \/ cur = Poll

\* A client inside submit, or waiting, has no answer yet.
AnswersPending ==
    \A c \in Clients : calls[c] \in {"counted", "riding", "waiting"} => answer[c] = "none"

Placed == CommandInPlace /\ AnswersPending /\ NobodyForgotten

CInv == IInv /\ Placed

One(b) == IF b THEN 1 ELSE 0

Owed(c) == One(answer[c] = "none" /\ calls[c] \in {"sent", "waiting"})

QueuedIn(queue, c) == Cardinality(InQueue(queue, c))

LEMMA PlacesAre ==
    \A c : Places(c) = QueuedIn(emergency, c) + QueuedIn(normal, c)
                           + One(cur.client = c) + One(held.client = c) + One(c \in unkey_waiters)
BY DEF Places, QueuedIn, One

LEMMA ForgottenMeans == NobodyForgotten <=> \A c \in Clients : Places(c) = Owed(c)
BY DEF NobodyForgotten, Owed, One

LEMMA QueuedType ==
    ASSUME NEW q \in Seq(Requests), NEW c
    PROVE  IsFiniteSet(InQueue(q, c)) /\ QueuedIn(q, c) \in Nat
<1>1. DOMAIN q = 1..Len(q) /\ Len(q) \in Nat
  BY LenProperties
<1>2. IsFiniteSet(DOMAIN q)
  BY <1>1, FS_Interval
<1>3. InQueue(q, c) \in SUBSET DOMAIN q
  BY DEF InQueue
<1>. QED
  BY <1>2, <1>3, FS_Subset, FS_CardinalityType DEF QueuedIn

\* A command joins a queue.
LEMMA QueuedAppend ==
    ASSUME NEW q \in Seq(Requests), NEW r \in Requests, NEW c
    PROVE  QueuedIn(Append(q, r), c) = QueuedIn(q, c) + One(r.client = c)
<1> DEFINE n == Len(q) + 1
           p == Append(q, r)
<1>1. /\ DOMAIN q = 1..Len(q) /\ Len(q) \in Nat
      /\ DOMAIN p = 1..n /\ p[n] = r /\ \A i \in 1..Len(q) : p[i] = q[i]
  BY AppendProperties, LenProperties
<1>2. IsFiniteSet(InQueue(q, c)) /\ QueuedIn(q, c) \in Nat
  BY QueuedType
<1>3. n \notin InQueue(q, c)
  BY <1>1 DEF InQueue
<1>. HIDE DEF p
<1>4. CASE r.client = c
  <2>1. InQueue(p, c) = InQueue(q, c) \union {n}
    BY <1>1, <1>4 DEF InQueue
  <2>. QED
    BY <1>2, <1>3, <1>4, <2>1, FS_AddElement DEF QueuedIn, One, p
<1>5. CASE r.client # c
  <2>1. InQueue(p, c) = InQueue(q, c)
    BY <1>1, <1>5 DEF InQueue
  <2>. QED
    BY <1>2, <1>5, <2>1 DEF QueuedIn, One, p
<1>. QED
  BY <1>4, <1>5

\* A command leaves a queue.
LEMMA QueuedTail ==
    ASSUME NEW q \in Seq(Requests), q # <<>>, NEW c
    PROVE  QueuedIn(q, c) = QueuedIn(Tail(q), c) + One(Head(q).client = c)
<1> DEFINE t == Tail(q)
           rest == InQueue(q, c) \ {1}
           f == [i \in InQueue(t, c) |-> i + 1]
<1>1. /\ t \in Seq(Requests) /\ Len(q) \in Nat \ {0} /\ DOMAIN q = 1..Len(q)
      /\ DOMAIN t = 1..(Len(q) - 1) /\ Head(q) = q[1]
      /\ \A i \in 1..(Len(q) - 1) : t[i] = q[i + 1]
  BY HeadTailProperties, LenProperties, EmptySeq
<1>2. IsFiniteSet(InQueue(t, c)) /\ QueuedIn(t, c) \in Nat /\ IsFiniteSet(InQueue(q, c))
  BY <1>1, QueuedType
<1>3. ExistsBijection(InQueue(t, c), rest)
  <2>1. f \in [InQueue(t, c) -> rest]
    <3> SUFFICES ASSUME NEW i \in InQueue(t, c) PROVE i + 1 \in rest
      OBVIOUS
    <3>1. i \in 1..(Len(q) - 1) /\ t[i].client = c
      BY <1>1 DEF InQueue
    <3>2. i + 1 \in 1..Len(q) /\ i + 1 # 1 /\ q[i + 1].client = c
      BY <1>1, <3>1
    <3>. QED
      BY <1>1, <3>2 DEF InQueue
  <2>2. \A i, j \in InQueue(t, c) : f[i] = f[j] => i = j
    BY <1>1 DEF InQueue
  <2>3. \A j \in rest : \E i \in InQueue(t, c) : f[i] = j
    <3> SUFFICES ASSUME NEW j \in rest PROVE \E i \in InQueue(t, c) : f[i] = j
      OBVIOUS
    <3>1. j \in 1..Len(q) /\ j # 1 /\ q[j].client = c
      BY <1>1 DEF InQueue
    <3>2. j - 1 \in 1..(Len(q) - 1) /\ (j - 1) + 1 = j
      BY <1>1, <3>1
    <3>3. j - 1 \in InQueue(t, c)
      BY <1>1, <3>1, <3>2 DEF InQueue
    <3>. QED
      BY <3>2, <3>3
  <2>4. f \in Bijection(InQueue(t, c), rest)
    BY <2>1, <2>2, <2>3, Fun_IsBij
  <2>. QED
    BY <2>4, Fun_ExistsBij
<1>. HIDE DEF rest, f
<1>4. IsFiniteSet(rest) /\ Cardinality(rest) = QueuedIn(t, c)
  BY <1>2, <1>3, FS_Bijection DEF QueuedIn
<1>5. CASE Head(q).client = c
  <2>1. InQueue(q, c) = rest \union {1} /\ 1 \notin rest
    BY <1>1, <1>5 DEF InQueue, rest
  <2>2. Cardinality(InQueue(q, c)) = Cardinality(rest) + 1
    BY <1>4, <2>1, FS_AddElement
  <2>. QED
    BY <1>2, <1>4, <1>5, <2>2 DEF QueuedIn, One
<1>6. CASE Head(q).client # c
  <2>1. InQueue(q, c) = rest
    BY <1>1, <1>6 DEF InQueue, rest
  <2>2. Cardinality(InQueue(q, c)) = Cardinality(rest) + 0
    BY <1>2, <1>4, <2>1
  <2>. QED
    BY <1>2, <1>4, <1>6, <2>2 DEF QueuedIn, One
<1>. QED
  BY <1>5, <1>6

LEMMA PlacesNext ==
    \A c : Places(c)' = QueuedIn(emergency', c) + QueuedIn(normal', c)
                           + One(cur'.client = c) + One(held'.client = c) + One(c \in unkey_waiters')
BY DEF Places, QueuedIn, InQueue, One

LEMMA OwedType == \A c : Owed(c) \in {0, 1} /\ Owed(c)' \in {0, 1}
BY DEF Owed, One

\* The places of a client add up in any order.
LEMMA OnlyPlace ==
    \A a, b, x, y, z \in Nat :
        /\ a + b + x + y + z \in {0, 1}
        /\ x = 1 \/ z = 1
        => a = 0 /\ b = 0 /\ y = 0 /\ a + b + x + y + z = 1 /\ (x = 1 => z = 0)
OBVIOUS

\* A command that ends answers its client, and all who ride on it, once.
LEMMA EndsPlaces ==
    ASSUME CInv, QueueTypes', NEW cmd, NEW result, result # "none", NEW failed,
           Complete(cmd, result, failed),
           \A c \in Clients :
               Places(c) = QueuedIn(emergency', c) + QueuedIn(normal', c)
                               + One(cmd.client = c) + One(held'.client = c)
                               + One(c \in unkey_waiters)
    PROVE  NobodyForgotten' /\ AnswersPending'
<1> DEFINE Told(c) == c \in Riders(cmd.op) \union ({cmd.client} \ {NoClient})
<1>1. /\ \A c \in Clients : answer'[c] = IF Told(c) THEN result ELSE answer[c]
      /\ \A c \in Clients : calls'[c] = IF Told(c) /\ calls[c] = "waiting" THEN "idle" ELSE calls[c]
      /\ unkey_waiters' = unkey_waiters \ Riders(cmd.op) /\ cur' = NoCommand
  BY DEF Complete
<1>2. ASSUME NEW c \in Clients
      PROVE  /\ Places(c)' = Owed(c)'
             /\ calls'[c] \in {"counted", "riding", "waiting"} => answer'[c] = "none"
  <2> DEFINE a == QueuedIn(emergency', c)
             b == QueuedIn(normal', c)
             x == One(cmd.client = c)
             y == One(held'.client = c)
             z == One(c \in unkey_waiters)
  <2>1. a \in Nat /\ b \in Nat /\ x \in Nat /\ y \in Nat /\ z \in Nat
    BY QueuedType DEF QueueTypes, One
  <2>2. Places(c) = a + b + x + y + z /\ Places(c) = Owed(c)
    BY ForgottenMeans DEF CInv, Placed
  <2>3. Places(c)' = a + b + 0 + y + One(c \in unkey_waiters')
    <3>1. One(cur'.client = c) = 0
      BY <1>1, ConstantsAssumption DEF NoCommand, One
    <3>. QED
      BY <3>1, PlacesNext
  <2>4. calls[c] \in {"counted", "riding", "waiting"} => answer[c] = "none"
    BY DEF CInv, Placed, AnswersPending
  <2>5. CASE Told(c)
    <3>1. x = 1 \/ z = 1
      BY <2>5 DEF Riders, One
    <3>2. a = 0 /\ b = 0 /\ y = 0 /\ Owed(c) = 1 /\ (x = 1 => z = 0)
      <4>. HIDE DEF a, b, x, y, z
      <4>. QED
        BY <2>1, <2>2, <3>1, OnlyPlace, OwedType
    <3>3. c \notin unkey_waiters'
      BY <1>1, <2>5, <3>2 DEF One, Riders
    <3>4. Places(c)' = 0
      BY <2>3, <3>2, <3>3 DEF One
    <3>5. calls[c] \in {"sent", "waiting"}
      BY <3>2 DEF Owed, One
    <3>6. answer'[c] = result /\ calls'[c] \in {"sent", "idle"}
      BY <1>1, <2>5, <3>5
    <3>7. Owed(c)' = 0
      BY <3>6 DEF Owed, One
    <3>. QED
      BY <3>4, <3>6, <3>7
  <2>6. CASE ~Told(c)
    <3>1. x = 0 /\ (c \in unkey_waiters' <=> c \in unkey_waiters)
      BY <1>1, <2>6, ConstantsAssumption DEF One
    <3>2. Places(c)' = Places(c)
      BY <2>2, <2>3, <3>1
    <3>3. answer'[c] = answer[c] /\ calls'[c] = calls[c]
      BY <1>1, <2>6
    <3>. QED
      BY <2>2, <2>4, <3>2, <3>3 DEF Owed
  <2>. QED
    BY <2>5, <2>6
<1>. QED
  BY <1>2 DEF NobodyForgotten, AnswersPending, Owed, One

\* A command that begins is answered at once or takes its place in service.
LEMMA BeginsPlaces ==
    ASSUME CInv, QueueTypes', NEW cmd, Begin(cmd),
           \A c \in Clients :
               Places(c) = QueuedIn(emergency', c) + QueuedIn(normal', c)
                               + One(cmd.client = c) + One(held'.client = c)
                               + One(c \in unkey_waiters)
    PROVE  NobodyForgotten' /\ AnswersPending'
<1>1. CASE \E reason \in Refusals(cmd) : Complete(cmd, reason, FALSE)
  <2>1. PICK reason \in Refusals(cmd) : Complete(cmd, reason, FALSE)
    BY <1>1
  <2>2. reason # "none"
    BY DEF Refusals
  <2>. QED
    BY <2>1, <2>2, EndsPlaces
<1>2. CASE cur' = cmd /\ UNCHANGED callVars
  <2>1. ASSUME NEW c \in Clients PROVE Places(c)' = Owed(c)'
    <3>1. Places(c)' = Places(c)
      BY <1>2, PlacesNext DEF callVars
    <3>2. Owed(c)' = Owed(c) /\ Places(c) = Owed(c)
      BY <1>2, ForgottenMeans DEF Owed, callVars, CInv, Placed
    <3>. QED
      BY <3>1, <3>2
  <2>2. AnswersPending'
    BY <1>2 DEF CInv, Placed, AnswersPending, callVars
  <2>. QED
    BY <2>1, <2>2 DEF NobodyForgotten, Owed, One
<1>. QED
  BY <1>1, <1>2 DEF Begin

\* Nothing about the queues, the callers or the command in service changes.
LEMMA PlacesKept ==
    ASSUME Placed,
           UNCHANGED <<emergency, normal, cur, held, unkey_waiters, calls, answer>>
    PROVE  NobodyForgotten' /\ AnswersPending'
<1>1. \A c : Places(c)' = Places(c) /\ Owed(c)' = Owed(c)
  BY PlacesNext, PlacesAre DEF Owed
<1>. QED
  BY <1>1 DEF Placed, NobodyForgotten, AnswersPending, Owed, One

\* Between commands nothing is in service and nothing is held back.
LEMMA NothingServed ==
    ASSUME CommandInPlace,
           \/ pc \in {"start", "select", "held", "session", "sessionAwait", "stopped"}
           \/ pc \in {"unkey", "unkeyAwait"} /\ after # "timeout"
    PROVE  cur = NoCommand /\ (held # NoCommand => pc = "held")
BY DEF CommandInPlace, Poll, NoCommand

\* The command in service ends.
LEMMA CurrentEnds ==
    ASSUME CInv, QueueTypes', pc \in {"drain", "write", "await", "unkey", "unkeyAwait"},
           NEW result, result # "none", NEW failed, Complete(cur, result, failed),
           UNCHANGED <<emergency, normal, held>>
    PROVE  Placed'
<1>1. NobodyForgotten' /\ AnswersPending'
  <2>1. \A c \in Clients :
               Places(c) = QueuedIn(emergency', c) + QueuedIn(normal', c)
                               + One(cur.client = c) + One(held'.client = c)
                               + One(c \in unkey_waiters)
    BY PlacesAre
  <2>. QED
    BY <2>1, EndsPlaces
<1>2. CommandInPlace'
  BY DEF CInv, Placed, CommandInPlace, Complete
<1>. QED
  BY <1>1, <1>2 DEF Placed

\* A command begins while none is in service.
LEMMA CommandBegins ==
    ASSUME CInv, QueueTypes', NEW cmd, Begin(cmd), held' = NoCommand,
           held = NoCommand \/ cmd # Poll,
           \A c \in Clients :
               Places(c) = QueuedIn(emergency', c) + QueuedIn(normal', c)
                               + One(cmd.client = c) + One(held'.client = c)
                               + One(c \in unkey_waiters)
    PROVE  Placed'
<1>1. NobodyForgotten' /\ AnswersPending'
  BY BeginsPlaces
<1>2. CommandInPlace'
  BY DEF CommandInPlace, Begin, Complete
<1>. QED
  BY <1>1, <1>2 DEF Placed

LEMMA QueueTypesNow == ASSUME CInv PROVE QueueTypes /\ emergency \in Seq(Requests) /\ normal \in Seq(Requests)
BY DEF CInv, IInv, TypeOK, QueueTypes

LEMMA TakeEmergencyPlaces ==
    ASSUME CInv, QueueTypes', TakeEmergency
    PROVE  Placed'
<1>1. cur = NoCommand /\ held = NoCommand /\ held' = NoCommand
  BY NothingServed DEF CInv, Placed, TakeEmergency, Idle
<1>2. emergency # <<>> /\ emergency' = Tail(emergency) /\ normal' = normal
  BY DEF TakeEmergency
<1>3. ASSUME NEW c \in Clients
      PROVE  Places(c) = QueuedIn(emergency', c) + QueuedIn(normal', c)
                               + One(Head(emergency).client = c) + One(held'.client = c)
                               + One(c \in unkey_waiters)
  <2>1. QueuedIn(emergency, c) = QueuedIn(emergency', c) + One(Head(emergency).client = c)
    BY <1>2, QueueTypesNow, QueuedTail
  <2>2. One(cur.client = c) = 0 /\ One(held.client = c) = 0 /\ One(held'.client = c) = 0
    BY <1>1, ConstantsAssumption DEF NoCommand, One
  <2>3. /\ QueuedIn(emergency', c) \in Nat /\ QueuedIn(normal', c) \in Nat
        /\ One(Head(emergency).client = c) \in Nat /\ One(c \in unkey_waiters) \in Nat
    BY QueuedType DEF QueueTypes, One
  <2>4. \A a, b, h, w \in Nat : (a + h) + b + 0 + 0 + w = a + b + h + 0 + w
    OBVIOUS
  <2>. QED
    BY <1>2, <2>1, <2>2, <2>3, <2>4, PlacesAre
<1>4. Begin(Head(emergency))
  BY DEF TakeEmergency
<1>. QED
  BY <1>1, <1>3, <1>4, CommandBegins

LEMMA TakeNormalPlaces ==
    ASSUME CInv, QueueTypes', TakeNormal
    PROVE  Placed'
<1>1. cur = NoCommand /\ held = NoCommand
  BY NothingServed DEF CInv, Placed, TakeNormal, Idle
<1>2. normal # <<>> /\ normal' = Tail(normal) /\ emergency' = emergency
  BY DEF TakeNormal
<1>3. ASSUME NEW c \in Clients
      PROVE  /\ QueuedIn(normal, c) = QueuedIn(normal', c) + One(Head(normal).client = c)
             /\ One(cur.client = c) = 0 /\ One(held.client = c) = 0 /\ One(Poll.client = c) = 0
             /\ QueuedIn(emergency', c) \in Nat /\ QueuedIn(normal', c) \in Nat
             /\ One(Head(normal).client = c) \in Nat /\ One(c \in unkey_waiters) \in Nat
  <2>1. QueuedIn(normal, c) = QueuedIn(normal', c) + One(Head(normal).client = c)
    BY <1>2, QueueTypesNow, QueuedTail
  <2>2. One(cur.client = c) = 0 /\ One(held.client = c) = 0 /\ One(Poll.client = c) = 0
    BY <1>1, ConstantsAssumption DEF NoCommand, Poll, One
  <2>. QED
    BY <2>1, <2>2, QueuedType DEF QueueTypes, One
<1>4. \A a, b, h, w \in Nat : a + (b + h) + 0 + 0 + w = a + b + h + 0 + w
  OBVIOUS
<1>5. \A a, b, h, w \in Nat : a + (b + h) + 0 + 0 + w = a + b + 0 + h + w
  OBVIOUS
<1>6. CASE Begin(Head(normal)) /\ UNCHANGED held
  <2>1. \A c \in Clients :
               Places(c) = QueuedIn(emergency', c) + QueuedIn(normal', c)
                               + One(Head(normal).client = c) + One(held'.client = c)
                               + One(c \in unkey_waiters)
    BY <1>2, <1>3, <1>4, <1>6, PlacesAre
  <2>. QED
    BY <1>1, <1>6, <2>1, CommandBegins
<1>7. CASE held' = Head(normal) /\ cur' = Poll /\ pc' = "drain" /\ UNCHANGED callVars
  <2>1. ASSUME NEW c \in Clients PROVE Places(c)' = Owed(c)'
    <3>1. Places(c) = QueuedIn(emergency', c) + QueuedIn(normal', c)
                               + One(cur'.client = c) + One(held'.client = c)
                               + One(c \in unkey_waiters)
      BY <1>2, <1>3, <1>5, <1>7, PlacesAre
    <3>2. Places(c)' = Places(c)
      BY <1>7, <3>1, PlacesNext DEF callVars
    <3>3. Owed(c)' = Owed(c) /\ Places(c) = Owed(c)
      BY <1>7, ForgottenMeans DEF Owed, callVars, CInv, Placed
    <3>. QED
      BY <3>2, <3>3
  <2>2. AnswersPending'
    BY <1>7 DEF CInv, Placed, AnswersPending, callVars
  <2>3. CommandInPlace'
    BY <1>7 DEF CommandInPlace
  <2>4. NobodyForgotten'
    BY <2>1 DEF NobodyForgotten, Owed, One
  <2>. QED
    BY <2>2, <2>3, <2>4 DEF Placed
<1>. QED
  BY <1>6, <1>7 DEF TakeNormal

LEMMA ServeHeldPlaces ==
    ASSUME CInv, QueueTypes', ServeHeld
    PROVE  Placed'
<1>1. cur = NoCommand /\ held' = NoCommand /\ Begin(held) /\ UNCHANGED <<emergency, normal>>
  BY NothingServed DEF CInv, Placed, ServeHeld, queueVars
<1>2. held # Poll
  BY ConstantsAssumption DEF CInv, IInv, CommandsAreReal, ServeHeld, Requests, Poll
<1>3. ASSUME NEW c \in Clients
      PROVE  Places(c) = QueuedIn(emergency', c) + QueuedIn(normal', c)
                               + One(held.client = c) + One(held'.client = c)
                               + One(c \in unkey_waiters)
  <2>1. One(cur.client = c) = 0 /\ One(held'.client = c) = 0
    BY <1>1, ConstantsAssumption DEF NoCommand, One
  <2>2. /\ QueuedIn(emergency, c) \in Nat /\ QueuedIn(normal, c) \in Nat
        /\ One(held.client = c) \in Nat /\ One(c \in unkey_waiters) \in Nat
    BY QueueTypesNow, QueuedType DEF One
  <2>3. \A a, b, h, w \in Nat : a + b + 0 + h + w = a + b + h + 0 + w
    OBVIOUS
  <2>. QED
    BY <1>1, <2>1, <2>2, <2>3, PlacesAre
<1>. QED
  BY <1>1, <1>2, <1>3, CommandBegins

LEMMA PollOncePlaces ==
    ASSUME CInv, QueueTypes', PollOnce
    PROVE  Placed'
<1>1. /\ cur = NoCommand /\ held = NoCommand /\ held' = NoCommand /\ Begin(Poll)
      /\ UNCHANGED <<emergency, normal>>
  BY NothingServed DEF CInv, Placed, PollOnce, Idle, queueVars
<1>2. ASSUME NEW c \in Clients
      PROVE  Places(c) = QueuedIn(emergency', c) + QueuedIn(normal', c)
                               + One(Poll.client = c) + One(held'.client = c)
                               + One(c \in unkey_waiters)
  <2>1. One(cur.client = c) = 0 /\ One(Poll.client = c) = 0
    BY <1>1, ConstantsAssumption DEF NoCommand, Poll, One
  <2>. QED
    BY <1>1, <2>1, PlacesAre
<1>. QED
  BY <1>1, <1>2, CommandBegins

\* The actor moves on with the same command, or with none.
LEMMA GoesOnPlaces ==
    ASSUME CInv,
           UNCHANGED <<emergency, normal, cur, held, unkey_waiters, calls, answer>>,
           \/ pc' = pc /\ after' = after
           \/ pc \in {"drain", "write", "await"} /\ pc' \in {"drain", "write", "await"}
           \/ pc \in {"drain", "write", "await"} /\ pc' = "unkey" /\ after' = "timeout"
           \/ pc' \in {"unkey", "unkeyAwait"} /\ pc \in {"unkey", "unkeyAwait"} /\ after' = after
           \/ pc \in {"start", "select", "session", "sessionAwait"}
           \/ pc \in {"unkey", "unkeyAwait"} /\ after # "timeout"
    PROVE  Placed'
<1>1. CommandInPlace'
  BY DEF CInv, Placed, CommandInPlace, Poll, NoCommand
<1>. QED
  BY <1>1, PlacesKept DEF Placed, CInv

\* The fail-closed unkey ends.
LEMMA UnkeyEndsPlaces ==
    ASSUME CInv, QueueTypes', pc \in {"unkey", "unkeyAwait"}, NEW ok, UnkeyDone(ok),
           UNCHANGED UnkeyUnchanged
    PROVE  Placed'
<1>1. UNCHANGED <<emergency, normal, held, after>>
  BY DEF UnkeyUnchanged, queueVars
<1>2. CASE after = "timeout"
  BY <1>1, <1>2, CurrentEnds DEF UnkeyDone
<1>3. CASE after # "timeout"
  BY <1>1, <1>3, GoesOnPlaces DEF UnkeyDone, callVars
<1>. QED
  BY <1>2, <1>3

LEMMA WritingPlaces ==
    ASSUME CInv, QueueTypes',
           \/ \E expired \in BOOLEAN : WriteCommand(expired)
           \/ WriteTimesOut
    PROVE  Placed'
<1>1. UNCHANGED <<emergency, normal, held>> /\ pc \in {"drain", "write"}
  BY DEF WriteCommand, WriteTimesOut, queueVars
<1>2. CASE \/ Complete(cur, "ok", FALSE)
           \/ Complete(cur, "Timeout", FALSE)
  BY <1>1, <1>2, CurrentEnds
<1>3. CASE pc' = "await" /\ UNCHANGED <<callVars, cur>>
  BY <1>1, <1>3, GoesOnPlaces DEF callVars
<1>4. CASE FailClosed("timeout") /\ UNCHANGED <<callVars, cur>>
  BY <1>1, <1>4, GoesOnPlaces DEF callVars, FailClosed
<1>. QED
  BY <1>2, <1>3, <1>4 DEF WriteCommand, WriteTimesOut

LEMMA AwaitingPlaces ==
    ASSUME CInv, QueueTypes',
           Woken \/ LoseLinkServing \/ AwaitReply \/ WatchdogPreempts \/ ReplyTimesOut
    PROVE  Placed'
<1>1. UNCHANGED <<emergency, normal, held>> /\ pc \in {"drain", "write", "await"}
  BY DEF Woken, LoseLinkServing, LinkLost, AwaitReply, WatchdogPreempts, ReplyTimesOut, queueVars
<1>2. ASSUME NEW result, result # "none", Complete(cur, result, FALSE) PROVE Placed'
  BY <1>1, <1>2, CurrentEnds
<1>3. CASE UNCHANGED <<callVars, cur>> /\ pc' \in {"drain", "write", "await"}
  BY <1>1, <1>3, GoesOnPlaces DEF callVars
<1>4. CASE UNCHANGED <<callVars, cur>> /\ FailClosed("timeout")
  BY <1>1, <1>4, GoesOnPlaces DEF callVars, FailClosed
<1>5. CASE Woken
  <2>1. Complete(cur, "Cancelled", FALSE) \/ UNCHANGED <<callVars, cur, pc>>
    BY <1>5 DEF Woken
  <2>. QED
    BY <1>1, <1>2, <1>3, <2>1
<1>6. CASE LoseLinkServing \/ WatchdogPreempts
  <2>1. Complete(cur, "Cancelled", FALSE) \/ Complete(cur, "LinkDown", FALSE)
    BY <1>6 DEF LoseLinkServing, LinkLost, WatchdogPreempts
  <2>. QED
    BY <1>2, <2>1
<1>7. CASE AwaitReply
  <2> DEFINE outcome == Decides(Head(replies), ReplyKind(cur.op))
  <2>1. \/ outcome # "none" /\ Complete(cur, outcome, FALSE)
        \/ UNCHANGED <<callVars, cur, pc>>
    BY <1>7, Zenon DEF AwaitReply
  <2>. HIDE DEF outcome
  <2>. QED
    BY <1>1, <1>2, <1>3, <2>1
<1>8. CASE ReplyTimesOut
  <2>1. \/ UNCHANGED <<callVars, cur>> /\ pc' \in {"drain", "write", "await"}
        \/ UNCHANGED <<callVars, cur>> /\ FailClosed("timeout")
        \/ Complete(cur, "Timeout", FALSE)
    BY <1>8 DEF ReplyTimesOut
  <2>. QED
    BY <1>2, <1>3, <1>4, <2>1
<1>. QED
  BY <1>5, <1>6, <1>7, <1>8

LEMMA UnkeyingPlaces ==
    ASSUME CInv, QueueTypes',
           WriteUnkey \/ UnkeyWriteFails \/ UnkeyAttemptFails \/ UnkeyAwait \/ UnkeyGivesUp
    PROVE  Placed'
<1>1. UNCHANGED UnkeyUnchanged /\ pc \in {"unkey", "unkeyAwait"}
  BY DEF WriteUnkey, UnkeyWriteFails, UnkeyAttemptFails, UnkeyAwait, UnkeyGivesUp
<1>2. ASSUME NEW ok, UnkeyDone(ok) PROVE Placed'
  BY <1>1, <1>2, UnkeyEndsPlaces
<1>3. CASE UNCHANGED <<callVars, cur>> /\ pc' \in {"unkey", "unkeyAwait"}
  BY <1>1, <1>3, GoesOnPlaces DEF callVars, UnkeyUnchanged, queueVars
<1>4. CASE WriteUnkey
  <2>1. \/ UnkeyDone(TRUE)
        \/ UNCHANGED <<callVars, cur>> /\ pc' \in {"unkey", "unkeyAwait"}
    BY <1>4, Zenon DEF WriteUnkey
  <2>. QED
    BY <1>2, <1>3, <2>1
<1>5. CASE UnkeyWriteFails \/ UnkeyGivesUp
  <2>1. UnkeyDone(FALSE)
    BY <1>5 DEF UnkeyWriteFails, UnkeyGivesUp
  <2>. QED
    BY <1>2, <2>1
<1>6. CASE UnkeyAttemptFails
  BY <1>3, <1>6 DEF UnkeyAttemptFails, NextUnkeyAttempt
<1>7. CASE UnkeyAwait
  <2>1. \/ UnkeyDone(TRUE)
        \/ UNCHANGED <<callVars, cur>> /\ (pc' = pc \/ pc' = "unkey")
    BY <1>7, Zenon DEF UnkeyAwait, NextUnkeyAttempt
  <2>. QED
    BY <1>1, <1>2, <1>3, <2>1
<1>. QED
  BY <1>4, <1>5, <1>6, <1>7

\* Steps of the actor that end no command and begin none.
LEMMA QuietActorPlaces ==
    ASSUME CInv,
           \/ LinkStatusChanged \/ WatchdogFire \/ ReadIdle \/ LoseLinkIdle \/ DrainStale
           \/ SessionStep \/ SessionAwait \/ Stop
    PROVE  Placed'
<1> USE DEF callVars, queueVars, taskVars, Idle, UnkeyUnchanged, SessionUnchanged
<1>1. UNCHANGED <<emergency, normal, cur, held, unkey_waiters, calls, answer>>
  BY DEF LinkStatusChanged, WatchdogFire, ReadIdle, LoseLinkIdle, DrainStale, SessionStep,
         SessionAwait, Stop
<1>2. \/ pc \in {"start", "select", "session", "sessionAwait"}
      \/ pc' = pc /\ after' = after
  BY DEF LinkStatusChanged, WatchdogFire, ReadIdle, LoseLinkIdle, DrainStale, SessionStep,
         SessionAwait, Stop
<1>. QED
  BY <1>1, <1>2, GoesOnPlaces

LEMMA ActorPlaces ==
    ASSUME CInv, QueueTypes', Actor
    PROVE  Placed'
<1>1. CASE TakeEmergency \/ TakeNormal \/ ServeHeld \/ PollOnce
  BY <1>1, TakeEmergencyPlaces, TakeNormalPlaces, ServeHeldPlaces, PollOncePlaces
<1>2. CASE \/ LinkStatusChanged \/ WatchdogFire \/ ReadIdle \/ LoseLinkIdle \/ DrainStale
           \/ SessionStep \/ SessionAwait
  BY <1>2, QuietActorPlaces
<1>3. CASE \/ (\E expired \in BOOLEAN : WriteCommand(expired)) \/ WriteTimesOut
  BY <1>3, WritingPlaces
<1>4. CASE Woken \/ LoseLinkServing \/ AwaitReply \/ WatchdogPreempts \/ ReplyTimesOut
  BY <1>4, AwaitingPlaces
<1>5. CASE WriteUnkey \/ UnkeyWriteFails \/ UnkeyAttemptFails \/ UnkeyAwait \/ UnkeyGivesUp
  BY <1>5, UnkeyingPlaces
<1>. QED
  BY <1>1, <1>2, <1>3, <1>4, <1>5 DEF Actor

\* A caller takes a step: its own command may move, nobody else's does.
LEMMA CallerPlaces ==
    ASSUME CInv, QueueTypes', UNCHANGED <<cur, held, pc, after>>, NEW d \in Clients,
           \A c \in Clients \ {d} :
               /\ calls'[c] = calls[c] /\ answer'[c] = answer[c]
               /\ QueuedIn(emergency', c) = QueuedIn(emergency, c)
               /\ QueuedIn(normal', c) = QueuedIn(normal, c)
               /\ c \in unkey_waiters' <=> c \in unkey_waiters,
           calls'[d] \in {"counted", "riding", "waiting"} => answer'[d] = "none",
           Places(d)' = Owed(d)'
    PROVE  Placed'
<1>1. ASSUME NEW c \in Clients PROVE Places(c)' = Owed(c)'
  <2>1. CASE c = d
    BY <2>1
  <2>2. CASE c # d
    <3>1. Places(c)' = Places(c)
      BY <2>2, PlacesAre, PlacesNext DEF One
    <3>2. Owed(c)' = Owed(c) /\ Places(c) = Owed(c)
      BY <2>2, ForgottenMeans DEF Owed, CInv, Placed
    <3>. QED
      BY <3>1, <3>2
  <2>. QED
    BY <2>1, <2>2
<1>2. AnswersPending'
  BY DEF CInv, Placed, AnswersPending
<1>3. CommandInPlace'
  BY DEF CInv, Placed, CommandInPlace
<1>4. NobodyForgotten'
  BY <1>1 DEF NobodyForgotten, Owed, One
<1>. QED
  BY <1>2, <1>3, <1>4 DEF Placed

\* The terms of a sum that is zero are zero.
LEMMA NoPlace ==
    ASSUME CInv, NEW c \in Clients, Owed(c) = 0
    PROVE  /\ QueuedIn(emergency, c) = 0 /\ QueuedIn(normal, c) = 0 /\ One(cur.client = c) = 0
           /\ One(held.client = c) = 0 /\ c \notin unkey_waiters
<1> DEFINE a == QueuedIn(emergency, c)
           b == QueuedIn(normal, c)
           x == One(cur.client = c)
           y == One(held.client = c)
           z == One(c \in unkey_waiters)
<1>1. a \in Nat /\ b \in Nat /\ x \in Nat /\ y \in Nat /\ z \in Nat
  BY QueueTypesNow, QueuedType DEF One
<1>2. a + b + x + y + z = 0
  BY ForgottenMeans, PlacesAre DEF CInv, Placed
<1>. HIDE DEF a, b, x, y, z
<1>3. a = 0 /\ b = 0 /\ x = 0 /\ y = 0 /\ z = 0
  BY <1>1, <1>2
<1>. QED
  BY <1>3 DEF a, b, x, y, z, One

LEMMA SubmitPlaces ==
    ASSUME CInv, QueueTypes', NEW d \in Clients, NEW op \in ClientOps, Submit(d, op)
    PROVE  Placed'
<1> DEFINE r == [client |-> d, op |-> op]
<1>1. /\ calls[d] = "idle" /\ UNCHANGED <<cur, held, pc, after, unkey_waiters, emergency>>
      /\ Owed(d) = 0
  BY DEF Submit, Submitting, taskVars, Owed, One
<1>2. r \in Requests /\ r.client = d
  BY ConstantsAssumption DEF Requests
<1>3. /\ calls \in [Clients -> {"idle", "counted", "sent", "riding", "waiting"}]
      /\ answer \in [Clients -> Results]
  BY DEF CInv, IInv, TypeOK, CallTypes
<1>4. /\ QueuedIn(emergency, d) = 0 /\ QueuedIn(normal, d) = 0 /\ One(cur.client = d) = 0
      /\ One(held.client = d) = 0 /\ d \notin unkey_waiters
  BY <1>1, NoPlace
<1>. HIDE DEF r
<1>5. CASE /\ normal' = Append(normal, r)
           /\ calls' = [calls EXCEPT ![d] = "waiting"]
           /\ answer' = [answer EXCEPT ![d] = "none"]
  <2>1. \A c : QueuedIn(normal', c) = QueuedIn(normal, c) + One(c = d)
    BY <1>2, <1>5, QueueTypesNow, QueuedAppend DEF One
  <2>2. \A c \in Clients \ {d} :
               /\ calls'[c] = calls[c] /\ answer'[c] = answer[c]
               /\ QueuedIn(normal', c) = QueuedIn(normal, c)
    BY <1>3, <1>5, <2>1, QueueTypesNow, QueuedType DEF One
  <2>3. calls'[d] = "waiting" /\ answer'[d] = "none"
    BY <1>3, <1>5
  <2>4. QueuedIn(normal', d) = 1
    BY <1>4, <2>1 DEF One
  <2>5. Places(d)' = 1
    BY <1>1, <1>4, <2>4, PlacesNext DEF One
  <2>6. Owed(d)' = 1
    BY <2>3 DEF Owed, One
  <2>. QED
    BY <1>1, <2>2, <2>3, <2>5, <2>6, CallerPlaces
<1>6. CASE /\ answer' \in {[answer EXCEPT ![d] = "TransmitGateClosed"], [answer EXCEPT ![d] = "QueueFull"]}
           /\ UNCHANGED <<normal, calls>>
  <2>1. \A c \in Clients \ {d} : calls'[c] = calls[c] /\ answer'[c] = answer[c]
    BY <1>3, <1>6
  <2>2. calls'[d] = "idle"
    BY <1>1, <1>6
  <2>3. Places(d)' = 0
    BY <1>1, <1>4, <1>6, PlacesNext DEF One
  <2>4. Owed(d)' = 0
    BY <2>2 DEF Owed, One
  <2>. QED
    BY <1>1, <1>6, <2>1, <2>2, <2>3, <2>4, CallerPlaces
<1>. QED
  BY <1>5, <1>6 DEF Submit, r

LEMMA SubmitEmergencyPlaces ==
    ASSUME CInv, QueueTypes', NEW d \in Clients, NEW op \in ClientOps, SubmitEmergency(d, op)
    PROVE  Placed'
<1>1. /\ calls[d] = "idle"
      /\ UNCHANGED <<cur, held, pc, after, unkey_waiters, emergency, normal>>
      /\ Owed(d) = 0
  BY DEF SubmitEmergency, Submitting, taskVars, Owed, One
<1>2. /\ calls' = [calls EXCEPT ![d] = "counted"] /\ answer' = [answer EXCEPT ![d] = "none"]
      /\ calls \in [Clients -> {"idle", "counted", "sent", "riding", "waiting"}]
      /\ answer \in [Clients -> Results]
  BY DEF SubmitEmergency, CInv, IInv, TypeOK, CallTypes
<1>3. /\ QueuedIn(emergency, d) = 0 /\ QueuedIn(normal, d) = 0 /\ One(cur.client = d) = 0
      /\ One(held.client = d) = 0 /\ d \notin unkey_waiters
  BY <1>1, NoPlace
<1>4. Places(d)' = 0
  BY <1>1, <1>3, PlacesNext DEF One
<1>5. calls'[d] = "counted" /\ answer'[d] = "none"
  BY <1>2
<1>6. Owed(d)' = 0
  BY <1>5 DEF Owed, One
<1>7. \A c \in Clients \ {d} : calls'[c] = calls[c] /\ answer'[c] = answer[c]
  BY <1>2
<1>. QED
  BY <1>1, <1>4, <1>5, <1>6, <1>7, CallerPlaces

LEMMA SendEmergencyPlaces ==
    ASSUME CInv, QueueTypes', NEW d \in Clients, SendEmergency(d)
    PROVE  Placed'
<1> DEFINE r == [client |-> d, op |-> request[d]]
<1>1. /\ calls[d] = "counted" /\ UNCHANGED <<cur, held, pc, after, unkey_waiters, normal, answer>>
      /\ emergency' = Append(emergency, r) /\ Owed(d) = 0
  BY DEF SendEmergency, InSubmit, taskVars, Owed, One
<1>2. r \in Requests /\ r.client = d
  BY <1>1 DEF Requests, CInv, IInv, CommandsAreReal
<1>3. /\ calls' = [calls EXCEPT ![d] = "sent"]
      /\ calls \in [Clients -> {"idle", "counted", "sent", "riding", "waiting"}]
  BY DEF SendEmergency, CInv, IInv, TypeOK, CallTypes
<1>4. /\ QueuedIn(emergency, d) = 0 /\ QueuedIn(normal, d) = 0 /\ One(cur.client = d) = 0
      /\ One(held.client = d) = 0 /\ d \notin unkey_waiters
  BY <1>1, NoPlace
<1>5. answer[d] = "none"
  BY <1>1 DEF CInv, Placed, AnswersPending
<1>. HIDE DEF r
<1>6. \A c : QueuedIn(emergency', c) = QueuedIn(emergency, c) + One(c = d)
  BY <1>1, <1>2, QueueTypesNow, QueuedAppend DEF One
<1>7. \A c \in Clients \ {d} :
            calls'[c] = calls[c] /\ QueuedIn(emergency', c) = QueuedIn(emergency, c)
  BY <1>3, <1>6, QueueTypesNow, QueuedType DEF One
<1>8. calls'[d] = "sent" /\ answer'[d] = "none"
  BY <1>1, <1>3, <1>5
<1>9. QueuedIn(emergency', d) = 1
  BY <1>4, <1>6 DEF One
<1>10. Places(d)' = 1
  BY <1>1, <1>4, <1>9, PlacesNext DEF One
<1>11. Owed(d)' = 1
  BY <1>8 DEF Owed, One
<1>. QED
  BY <1>1, <1>7, <1>8, <1>10, <1>11, CallerPlaces

\* A caller takes a step that moves no command.
LEMMA CallerStaysPlaces ==
    ASSUME CInv, QueueTypes', NEW d \in Clients, WakeActor(d) \/ FindEmergencyFull(d)
    PROVE  Placed'
<1>1. /\ UNCHANGED <<cur, held, pc, after, unkey_waiters, normal, emergency>>
      /\ calls[d] \in {"sent", "counted"}
  BY DEF WakeActor, FindEmergencyFull, InSubmit, taskVars
<1>2. /\ calls \in [Clients -> {"idle", "counted", "sent", "riding", "waiting"}]
      /\ answer \in [Clients -> Results]
  BY DEF CInv, IInv, TypeOK, CallTypes
<1>3. Places(d)' = Places(d) /\ Places(d) = Owed(d)
  BY <1>1, PlacesNext, PlacesAre, ForgottenMeans DEF CInv, Placed
<1>4. \A c \in Clients \ {d} : calls'[c] = calls[c] /\ answer'[c] = answer[c]
  BY <1>2 DEF WakeActor, FindEmergencyFull
<1>5. calls[d] = "counted" => answer[d] = "none"
  BY DEF CInv, Placed, AnswersPending
<1>6. /\ Owed(d)' = Owed(d)
      /\ calls'[d] \in {"counted", "riding", "waiting"} => answer'[d] = "none"
  <2>1. CASE WakeActor(d)
    <3>1. /\ calls[d] = "sent" /\ answer'[d] = answer[d]
          /\ calls'[d] = IF answer[d] = "none" THEN "waiting" ELSE "idle"
      BY <1>2, <2>1 DEF WakeActor, InSubmit
    <3>. QED
      BY <3>1 DEF Owed, One
  <2>2. CASE FindEmergencyFull(d)
    <3>1. /\ calls[d] = "counted"
          /\ \/ calls'[d] = "riding" /\ answer'[d] = answer[d]
             \/ calls'[d] = "idle"
      BY <1>2, <2>2 DEF FindEmergencyFull, InSubmit
    <3>. QED
      BY <1>5, <3>1 DEF Owed, One
  <2>. QED
    BY <2>1, <2>2
<1>. QED
  BY <1>1, <1>3, <1>4, <1>6, CallerPlaces

LEMMA RidePlaces ==
    ASSUME CInv, QueueTypes', NEW d \in Clients, Ride(d)
    PROVE  Placed'
<1>1. /\ calls[d] = "riding" /\ UNCHANGED <<cur, held, pc, after, normal, emergency, answer>>
      /\ unkey_waiters' = unkey_waiters \union {d} /\ Owed(d) = 0
  BY DEF Ride, InSubmit, taskVars, Owed, One, WithWaiter
<1>2. /\ calls' = [calls EXCEPT ![d] = "waiting"]
      /\ calls \in [Clients -> {"idle", "counted", "sent", "riding", "waiting"}]
  BY DEF Ride, CInv, IInv, TypeOK, CallTypes
<1>3. /\ QueuedIn(emergency, d) = 0 /\ QueuedIn(normal, d) = 0 /\ One(cur.client = d) = 0
      /\ One(held.client = d) = 0 /\ d \notin unkey_waiters
  BY <1>1, NoPlace
<1>4. answer'[d] = "none" /\ calls'[d] = "waiting"
  BY <1>1, <1>2 DEF CInv, Placed, AnswersPending
<1>5. \A c \in Clients \ {d} :
            calls'[c] = calls[c] /\ (c \in unkey_waiters' <=> c \in unkey_waiters)
  BY <1>1, <1>2
<1>6. Places(d)' = 1
  BY <1>1, <1>3, PlacesNext DEF One
<1>7. Owed(d)' = 1
  BY <1>4 DEF Owed, One
<1>. QED
  BY <1>1, <1>4, <1>5, <1>6, <1>7, CallerPlaces

LEMMA CInit == Init => CInv
<1> SUFFICES ASSUME Init PROVE CInv
  OBVIOUS
<1>1. IInv
  BY InitInv
<1>2. CommandInPlace /\ AnswersPending
  BY DEF Init, CommandInPlace, AnswersPending
<1>3. ASSUME NEW c \in Clients PROVE Places(c) = Owed(c)
  <2>1. InQueue(emergency, c) = {} /\ InQueue(normal, c) = {}
    BY DEF Init, InQueue
  <2>2. QueuedIn(emergency, c) = 0 /\ QueuedIn(normal, c) = 0
    BY <2>1, FS_EmptySet DEF QueuedIn
  <2>3. /\ One(cur.client = c) = 0 /\ One(held.client = c) = 0 /\ One(c \in unkey_waiters) = 0
        /\ Owed(c) = 0
    BY ConstantsAssumption DEF Init, NoCommand, One, Owed
  <2>. QED
    BY <2>2, <2>3, PlacesAre
<1>. QED
  BY <1>1, <1>2, <1>3, ForgottenMeans DEF CInv, Placed

LEMMA CNext == CInv /\ [Next]_vars => CInv'
<1> SUFFICES ASSUME CInv, [Next]_vars PROVE CInv'
  OBVIOUS
<1>1. IInv' /\ QueueTypes'
  <2>1. IInv'
    BY NextInv DEF CInv
  <2>. QED
    BY <2>1 DEF IInv, TypeOK
<1>. SUFFICES Placed'
  BY <1>1 DEF CInv
<1>2. ASSUME NEW c \in Clients, Call(c) PROVE Placed'
  BY <1>1, <1>2, SubmitPlaces, SubmitEmergencyPlaces DEF Call
<1>3. ASSUME NEW c \in Clients, SubmitStep(c) PROVE Placed'
  BY <1>1, <1>3, SendEmergencyPlaces, CallerStaysPlaces, RidePlaces DEF SubmitStep
<1>4. CASE Stop
  BY <1>4, QuietActorPlaces
<1>5. CASE Actor
  BY <1>1, <1>5, ActorPlaces
<1>6. CASE MoveGate \/ Radio \/ Link \/ UNCHANGED vars
  <2>1. UNCHANGED <<queueVars, callVars, taskVars>>
    BY <1>6 DEF MoveGate, Radio, RigExecutes, CwEnds, FrontPanel, Expire, WatchdogLapses, Link,
       StreamFails, PortLost, PortReopened, SupervisorCloses, Environment, Actors, vars
  <2>. QED
    BY <2>1, GoesOnPlaces DEF queueVars, callVars, taskVars
<1>. QED
  BY <1>2, <1>3, <1>4, <1>5, <1>6 DEF Next

\* Every command is answered exactly once, whatever submit, the two queues, the
\* riding requests, the held-back command and the fail-closed unkey do to it
\* (rig.rs submit, run, serve): a client that waits is in exactly one place from
\* which an answer comes, and one that does not wait is in none.
THEOREM AnsweredOnce == Spec => []NobodyForgotten
<1>1. CInv => NobodyForgotten
  BY DEF CInv, Placed
<1>. QED
  BY <1>1, CInit, CNext, PTL DEF Spec

----------------------------------------------------------------------------
(* An announced emergency is heard, where no poll runs in front of another *)
(* command: run_command of a reserved poll takes the wake-up meant for the *)
(* command held behind it.                                                 *)

\* Only emergencies go through the emergency queue and past the drain.
EmergenciesOnly ==
    /\ \A c \in Clients : calls[c] = "counted" => IsEmergency(request[c])
    /\ \A i \in DOMAIN emergency : IsEmergency(emergency[i].op)
    /\ pc = "write" => IsEmergency(cur.op)

Interruptible == pc \in {"drain", "await"} /\ ~IsEmergency(cur.op)

Heard == Interruptible /\ Announced => emergency_wake

HInv == CInv /\ EmergenciesOnly /\ held = NoCommand /\ Heard

\* The head of the queue is an emergency, and so is what follows it.
LEMMA EmergencyTaken ==
    ASSUME HInv, emergency # <<>>
    PROVE  /\ IsEmergency(Head(emergency).op)
           /\ \A i \in DOMAIN Tail(emergency) : IsEmergency(Tail(emergency)[i].op)
<1>1. emergency \in Seq(Requests)
  BY QueueTypesNow DEF HInv
<1>2. /\ Len(emergency) \in Nat \ {0} /\ DOMAIN emergency = 1..Len(emergency)
      /\ DOMAIN Tail(emergency) = 1..(Len(emergency) - 1) /\ Head(emergency) = emergency[1]
      /\ \A i \in 1..(Len(emergency) - 1) : Tail(emergency)[i] = emergency[i + 1]
  BY <1>1, HeadTailProperties, LenProperties, EmptySeq
<1>3. \A i \in 1..(Len(emergency) - 1) : i + 1 \in 1..Len(emergency)
  BY <1>2
<1>4. 1 \in DOMAIN emergency
  BY <1>2
<1>. QED
  BY <1>2, <1>3, <1>4 DEF HInv, EmergenciesOnly

\* What begins or ends a command: no wait is left that an emergency should cut.
LEMMA BeginsHeard ==
    ASSUME NEW cmd, Begin(cmd), IsEmergency(cmd.op) \/ ~Announced'
    PROVE  Heard' /\ (pc' = "write" => IsEmergency(cur'.op))
<1>1. CASE pc' \in {"held", "select"}
  BY <1>1 DEF Heard, Interruptible
<1>2. CASE cur' = cmd /\ pc' = IF IsEmergency(cmd.op) THEN "write" ELSE "drain"
  BY <1>2 DEF Heard, Interruptible
<1>. QED
  BY <1>1, <1>2 DEF Begin, Complete

LEMMA NotAnnounced == ASSUME emergency' = <<>> PROVE ~Announced'
BY DEF Announced

\* A command that ends empties the counted state of nobody.
LEMMA CompleteCounted ==
    ASSUME CInv, NEW cmd, NEW result, NEW failed, Complete(cmd, result, failed)
    PROVE  /\ \A c \in Clients : calls'[c] = "counted" => calls[c] = "counted"
           /\ request' = request
BY DEF Complete

LEMMA BeginCounted ==
    ASSUME CInv, NEW cmd, Begin(cmd)
    PROVE  /\ \A c \in Clients : calls'[c] = "counted" => calls[c] = "counted"
           /\ request' = request
BY CompleteCounted DEF Begin, callVars

LEMMA TakesHeard ==
    ASSUME HInv, ~PttPolled,
           TakeEmergency \/ TakeNormal \/ ServeHeld \/ PollOnce
    PROVE  EmergenciesOnly' /\ held' = NoCommand /\ Heard'
<1>1. CASE TakeEmergency
  <2>1. Begin(Head(emergency)) /\ emergency' = Tail(emergency) /\ held' = held /\ emergency # <<>>
    BY <1>1 DEF TakeEmergency
  <2>2. Heard' /\ (pc' = "write" => IsEmergency(cur'.op))
    BY <2>1, EmergencyTaken, BeginsHeard
  <2>3. \A c \in Clients : calls'[c] = "counted" => calls[c] = "counted" /\ request' = request
    BY <2>1, BeginCounted DEF HInv
  <2>. QED
    BY <2>1, <2>2, <2>3, EmergencyTaken DEF HInv, EmergenciesOnly
<1>2. CASE TakeNormal
  <2>1. Begin(Head(normal)) /\ UNCHANGED <<held, emergency>> /\ emergency = <<>>
    BY <1>2 DEF TakeNormal, NothingUrgent
  <2>2. Heard' /\ (pc' = "write" => IsEmergency(cur'.op))
    BY <2>1, NotAnnounced, BeginsHeard
  <2>3. \A c \in Clients : calls'[c] = "counted" => calls[c] = "counted" /\ request' = request
    BY <2>1, BeginCounted DEF HInv
  <2>. QED
    BY <2>1, <2>2, <2>3 DEF HInv, EmergenciesOnly
<1>3. CASE ServeHeld
  BY <1>3, ConstantsAssumption
  DEF ServeHeld, HInv, CInv, IInv, CommandsAreReal, Requests, NoCommand
<1>4. CASE PollOnce
  BY <1>4 DEF PollOnce
<1>. QED
  BY <1>1, <1>2, <1>3, <1>4

\* A wait goes on, or ends without another beginning.
LEMMA GoesOnHeard ==
    ASSUME HInv, UNCHANGED <<emergency, held>>,
           \A c \in Clients : calls'[c] = "counted" => calls[c] = "counted" /\ request'[c] = request[c],
           pc' = "write" => IsEmergency(cur'.op),
           \/ pc' \notin {"drain", "await"}
           \/ /\ cur' = cur /\ pc \in {"drain", "write", "await"}
              /\ UNCHANGED <<calls, emergency_wake>>
    PROVE  EmergenciesOnly' /\ held' = NoCommand /\ Heard'
<1>1. EmergenciesOnly' /\ held' = NoCommand
  BY DEF HInv, EmergenciesOnly
<1>2. CASE pc' \notin {"drain", "await"}
  BY <1>1, <1>2 DEF Heard, Interruptible
<1>3. CASE /\ cur' = cur /\ pc \in {"drain", "write", "await"}
           /\ UNCHANGED <<calls, emergency_wake>>
  <2>1. Interruptible' => Interruptible
    BY <1>3 DEF Interruptible, HInv, EmergenciesOnly
  <2>2. Announced' => Announced
    BY <1>3 DEF Announced
  <2>. QED
    BY <1>1, <1>3, <2>1, <2>2 DEF HInv, Heard
<1>. QED
  BY <1>2, <1>3

LEMMA EndsHeard ==
    ASSUME HInv, NEW result, NEW failed, Complete(cur, result, failed), UNCHANGED <<emergency, held>>
    PROVE  EmergenciesOnly' /\ held' = NoCommand /\ Heard'
<1>1. pc' \notin {"drain", "await", "write"}
  BY DEF Complete
<1>. QED
  BY <1>1, CompleteCounted, GoesOnHeard DEF HInv

LEMMA ServingHeard ==
    ASSUME HInv,
           \/ (\E expired \in BOOLEAN : WriteCommand(expired)) \/ WriteTimesOut
           \/ LoseLinkServing \/ AwaitReply \/ WatchdogPreempts \/ ReplyTimesOut \/ DrainStale
    PROVE  EmergenciesOnly' /\ held' = NoCommand /\ Heard'
<1>1. UNCHANGED <<emergency, emergency_wake, held>> /\ pc \in {"drain", "write", "await"}
  BY DEF WriteCommand, WriteTimesOut, LoseLinkServing, LinkLost, AwaitReply, WatchdogPreempts,
         ReplyTimesOut, DrainStale, queueVars, taskVars
<1>2. ASSUME NEW result, Complete(cur, result, FALSE)
      PROVE  EmergenciesOnly' /\ held' = NoCommand /\ Heard'
  BY <1>1, <1>2, EndsHeard
<1>3. CASE /\ UNCHANGED <<callVars, cur>> /\ pc' \in {"drain", "write", "await", "unkey"}
           /\ pc' = "write" => IsEmergency(cur'.op)
  BY <1>1, <1>3, GoesOnHeard DEF callVars
<1>4. CASE (\E expired \in BOOLEAN : WriteCommand(expired)) \/ WriteTimesOut
  <2>1. \/ Complete(cur, "ok", FALSE) \/ Complete(cur, "Timeout", FALSE)
        \/ UNCHANGED <<callVars, cur>> /\ pc' \in {"await", "unkey"}
    BY <1>4 DEF WriteCommand, WriteTimesOut, FailClosed
  <2>. QED
    BY <1>2, <1>3, <2>1
<1>5. CASE LoseLinkServing \/ WatchdogPreempts
  <2>1. Complete(cur, "Cancelled", FALSE) \/ Complete(cur, "LinkDown", FALSE)
    BY <1>5 DEF LoseLinkServing, LinkLost, WatchdogPreempts
  <2>. QED
    BY <1>2, <2>1
<1>6. CASE AwaitReply
  <2> DEFINE outcome == Decides(Head(replies), ReplyKind(cur.op))
  <2>1. pc = "await" /\ (Complete(cur, outcome, FALSE) \/ UNCHANGED <<callVars, cur, pc>>)
    BY <1>6, Zenon DEF AwaitReply
  <2>. HIDE DEF outcome
  <2>. QED
    BY <1>2, <1>3, <2>1
<1>7. CASE ReplyTimesOut
  <2>1. \/ /\ UNCHANGED <<callVars, cur>>
           /\ pc' = IF IsEmergency(cur.op) THEN "write" ELSE "drain"
        \/ UNCHANGED <<callVars, cur>> /\ pc' = "unkey"
        \/ Complete(cur, "Timeout", FALSE)
    BY <1>7 DEF ReplyTimesOut, FailClosed
  <2>. QED
    BY <1>2, <1>3, <2>1
<1>8. CASE DrainStale
  BY <1>3, <1>8 DEF DrainStale, taskVars
<1>. QED
  BY <1>4, <1>5, <1>6, <1>7, <1>8

\* The wake-up is consumed: either an emergency is counted and the command ends,
\* or the queue is empty.
LEMMA WokenHeard ==
    ASSUME HInv, Woken
    PROVE  EmergenciesOnly' /\ held' = NoCommand /\ Heard'
<1>1. UNCHANGED <<emergency, held>> /\ pc \in {"drain", "await"}
  BY DEF Woken
<1>2. CASE emergency_pending > 0
  BY <1>1, <1>2, EndsHeard DEF Woken
<1>3. CASE ~(emergency_pending > 0)
  <2>1. emergency_pending = 0
    BY <1>3 DEF HInv, CInv, IInv, TypeOK, QueueTypes
  <2> DEFINE counted == Cardinality({c \in Clients : calls[c] = "counted"})
  <2>2. Len(emergency) = 0
    <3>1. counted \in Nat /\ Len(emergency) \in Nat
      BY CountedFinite, QueueTypesNow, LenProperties DEF HInv
    <3>2. 0 = Len(emergency) + counted
      BY <2>1 DEF HInv, CInv, IInv, PendingIsExact
    <3>. HIDE DEF counted
    <3>. QED
      BY <3>1, <3>2
  <2>3. emergency = <<>>
    BY <2>2, QueueTypesNow, EmptySeq DEF HInv
  <2>4. UNCHANGED <<callVars, pc, cur>>
    BY <1>3 DEF Woken
  <2>5. EmergenciesOnly' /\ held' = NoCommand
    BY <1>1, <2>4 DEF HInv, EmergenciesOnly, callVars
  <2>. QED
    BY <1>1, <2>3, <2>5, NotAnnounced DEF Heard
<1>. QED
  BY <1>2, <1>3

LEMMA OtherActorHeard ==
    ASSUME HInv,
           \/ LinkStatusChanged \/ WatchdogFire \/ ReadIdle \/ LoseLinkIdle
           \/ SessionStep \/ SessionAwait \/ Stop
           \/ WriteUnkey \/ UnkeyWriteFails \/ UnkeyAttemptFails \/ UnkeyAwait \/ UnkeyGivesUp
    PROVE  EmergenciesOnly' /\ held' = NoCommand /\ Heard'
<1> USE DEF callVars, queueVars, taskVars, Idle, UnkeyUnchanged, SessionUnchanged
<1>1. CASE \/ LinkStatusChanged \/ WatchdogFire \/ ReadIdle \/ LoseLinkIdle
           \/ SessionStep \/ SessionAwait \/ Stop
  <2>1. UNCHANGED <<emergency, held, calls, request>> /\ pc' \notin {"drain", "await", "write"}
    BY <1>1 DEF LinkStatusChanged, WatchdogFire, ReadIdle, LoseLinkIdle, SessionStep, SessionAwait,
                Stop, FailClosed
  <2>. QED
    BY <2>1, GoesOnHeard
<1>2. CASE WriteUnkey \/ UnkeyWriteFails \/ UnkeyAttemptFails \/ UnkeyAwait \/ UnkeyGivesUp
  <2>1. UNCHANGED <<emergency, held>>
    BY <1>2 DEF WriteUnkey, UnkeyWriteFails, UnkeyAttemptFails, UnkeyAwait, UnkeyGivesUp
  <2>2. ASSUME NEW ok, UnkeyDone(ok) PROVE EmergenciesOnly' /\ held' = NoCommand /\ Heard'
    <3>1. CASE after = "timeout"
      BY <2>1, <2>2, <3>1, EndsHeard DEF UnkeyDone
    <3>2. CASE after # "timeout"
      <4>1. UNCHANGED <<calls, request>> /\ pc' \notin {"drain", "await", "write"}
        BY <2>2, <3>2 DEF UnkeyDone, HInv, CInv, IInv, TypeOK, TaskTypes
      <4>. QED
        BY <2>1, <4>1, GoesOnHeard
    <3>. QED
      BY <3>1, <3>2
  <2>3. CASE UNCHANGED <<calls, request>> /\ pc' \in {"unkey", "unkeyAwait"}
    BY <2>1, <2>3, GoesOnHeard
  <2>4. \/ UnkeyDone(TRUE) \/ UnkeyDone(FALSE)
        \/ UNCHANGED <<calls, request>> /\ pc' \in {"unkey", "unkeyAwait"}
    <3>1. CASE WriteUnkey
      BY <3>1, Zenon DEF WriteUnkey
    <3>2. CASE UnkeyAwait
      <4>1. \/ UnkeyDone(TRUE)
            \/ UNCHANGED <<calls, request>> /\ (pc' = pc \/ pc' = "unkey") /\ pc = "unkeyAwait"
        BY <3>2, Zenon DEF UnkeyAwait, NextUnkeyAttempt
      <4>. QED
        BY <4>1
    <3>3. CASE UnkeyWriteFails \/ UnkeyAttemptFails \/ UnkeyGivesUp
      BY <3>3 DEF UnkeyWriteFails, UnkeyAttemptFails, UnkeyGivesUp, NextUnkeyAttempt
    <3>. QED
      BY <1>2, <3>1, <3>2, <3>3
  <2>. QED
    BY <2>2, <2>3, <2>4
<1>. QED
  BY <1>1, <1>2

\* Whoever has a command in the emergency queue is a client.
LEMMA QueuedClients ==
    ASSUME HInv
    PROVE  emergency \in Seq(Requests) /\ \A i \in DOMAIN emergency : emergency[i].client \in Clients
<1>1. emergency \in Seq(Requests)
  BY QueueTypesNow DEF HInv
<1>2. \A i \in DOMAIN emergency : emergency[i] \in Requests
  BY <1>1
<1>. QED
  BY <1>1, <1>2 DEF Requests

\* A client with nothing in the emergency queue is not announced by waiting.
LEMMA NotQueued ==
    ASSUME HInv, NEW d \in Clients, Owed(d) = 0
    PROVE  \A i \in DOMAIN emergency : emergency[i].client # d
<1>1. QueuedIn(emergency, d) = 0
  BY NoPlace DEF HInv
<1>2. IsFiniteSet(InQueue(emergency, d))
  BY QueueTypesNow, QueuedType DEF HInv
<1>3. InQueue(emergency, d) = {}
  BY <1>1, <1>2, FS_EmptySet DEF QueuedIn
<1>. QED
  BY <1>3 DEF InQueue

LEMMA CallHeard ==
    ASSUME HInv, NEW d \in Clients, Call(d)
    PROVE  EmergenciesOnly' /\ held' = NoCommand /\ Heard'
<1>1. PICK op \in ClientOps : Submit(d, op) \/ SubmitEmergency(d, op)
  BY DEF Call
<1>2. /\ calls[d] = "idle" /\ UNCHANGED <<pc, cur, held, emergency, emergency_wake>>
      /\ request' = [request EXCEPT ![d] = op]
      /\ \/ calls' = [calls EXCEPT ![d] = "waiting"]
         \/ calls' = [calls EXCEPT ![d] = "counted"] /\ IsEmergency(op)
         \/ calls' = calls
  BY <1>1 DEF Submit, SubmitEmergency, Submitting, taskVars
<1>3. /\ calls \in [Clients -> {"idle", "counted", "sent", "riding", "waiting"}]
      /\ request \in [Clients -> Operations \union {"none"}]
  BY DEF HInv, CInv, IInv, TypeOK, CallTypes
<1>4. Owed(d) = 0
  BY <1>2 DEF Owed, One
<1>5. Announced' => Announced
  <2>1. \A i \in DOMAIN emergency : emergency[i].client # d
    BY <1>4, NotQueued
  <2>2. \A i \in DOMAIN emergency : emergency[i].client \in Clients
    BY QueuedClients
  <2>3. \A i \in DOMAIN emergency : calls'[emergency[i].client] = calls[emergency[i].client]
    BY <1>2, <1>3, <2>1, <2>2
  <2>. QED
    BY <1>2, <2>3 DEF Announced
<1>6. \A c \in Clients : calls'[c] = "counted" => IsEmergency(request'[c])
  BY <1>2, <1>3 DEF HInv, EmergenciesOnly
<1>7. EmergenciesOnly'
  BY <1>2, <1>6 DEF HInv, EmergenciesOnly
<1>. QED
  BY <1>2, <1>5, <1>7 DEF HInv, Heard, Interruptible

LEMMA SubmitHeard ==
    ASSUME HInv, NEW d \in Clients, SubmitStep(d)
    PROVE  EmergenciesOnly' /\ held' = NoCommand /\ Heard'
<1>1. /\ UNCHANGED <<pc, cur, held, request>>
      /\ calls \in [Clients -> {"idle", "counted", "sent", "riding", "waiting"}]
  BY DEF SubmitStep, SendEmergency, WakeActor, FindEmergencyFull, Ride, InSubmit, taskVars,
         HInv, CInv, IInv, TypeOK, CallTypes
<1>2. emergency \in Seq(Requests) /\ \A i \in DOMAIN emergency : emergency[i].client \in Clients
  BY QueuedClients
<1>3. CASE SendEmergency(d)
  <2> DEFINE r == [client |-> d, op |-> request[d]]
             n == Len(emergency) + 1
  <2>1. /\ calls[d] = "counted" /\ calls' = [calls EXCEPT ![d] = "sent"]
        /\ emergency' = Append(emergency, r) /\ emergency_wake' = emergency_wake
    BY <1>3 DEF SendEmergency, InSubmit
  <2>2. r.client = d /\ IsEmergency(r.op) /\ r \in Requests
    BY <2>1 DEF HInv, CInv, IInv, CommandsAreReal, EmergenciesOnly, Requests
  <2>. HIDE DEF r
  <2>3. /\ DOMAIN emergency = 1..Len(emergency) /\ DOMAIN emergency' = 1..n /\ emergency'[n] = r
        /\ Len(emergency) \in Nat /\ \A i \in 1..Len(emergency) : emergency'[i] = emergency[i]
    BY <1>2, <2>1, <2>2, AppendProperties, LenProperties
  <2>4. \A i \in 1..n : i = n \/ i \in DOMAIN emergency
    BY <2>3
  <2>5. EmergenciesOnly'
    BY <1>1, <2>1, <2>2, <2>3, <2>4 DEF HInv, EmergenciesOnly
  <2>6. Announced' => Announced
    <3> SUFFICES ASSUME NEW i \in DOMAIN emergency', calls'[emergency'[i].client] = "waiting"
                 PROVE  Announced
      BY DEF Announced
    <3>1. i # n
      BY <1>1, <2>1, <2>2, <2>3
    <3>2. i \in DOMAIN emergency /\ emergency'[i] = emergency[i]
      BY <2>3, <2>4, <3>1
    <3>3. calls[emergency[i].client] = "waiting"
      BY <1>1, <1>2, <2>1, <3>2
    <3>. QED
      BY <3>2, <3>3 DEF Announced
  <2>. QED
    BY <1>1, <2>1, <2>5, <2>6 DEF HInv, Heard, Interruptible
<1>4. CASE WakeActor(d)
  <2>1. EmergenciesOnly'
    BY <1>1, <1>4 DEF WakeActor, InSubmit, HInv, EmergenciesOnly
  <2>. QED
    BY <1>1, <1>4, <2>1 DEF WakeActor, Notified, HInv, Heard
<1>5. CASE FindEmergencyFull(d) \/ Ride(d)
  <2>1. UNCHANGED <<emergency, emergency_wake>> /\ calls[d] \in {"counted", "riding"}
    BY <1>5 DEF FindEmergencyFull, Ride, InSubmit
  <2>2. Owed(d) = 0
    BY <2>1 DEF Owed, One
  <2>3. \A i \in DOMAIN emergency : emergency[i].client # d
    BY <2>2, NotQueued
  <2>4. \A c \in Clients \ {d} : calls'[c] = calls[c]
    BY <1>1, <1>5 DEF FindEmergencyFull, Ride
  <2>5. calls'[d] # "counted"
    BY <1>1, <1>5 DEF FindEmergencyFull, Ride
  <2>6. \A i \in DOMAIN emergency : calls'[emergency[i].client] = calls[emergency[i].client]
    BY <1>2, <2>3, <2>4
  <2>7. Announced' => Announced
    BY <2>1, <2>6 DEF Announced
  <2>8. EmergenciesOnly'
    BY <1>1, <2>1, <2>4, <2>5 DEF HInv, EmergenciesOnly
  <2>. QED
    BY <1>1, <2>1, <2>7, <2>8 DEF HInv, Heard, Interruptible
<1>. QED
  BY <1>3, <1>4, <1>5 DEF SubmitStep

LEMMA HInit == Init => HInv
<1> SUFFICES ASSUME Init PROVE HInv
  OBVIOUS
<1>1. CInv
  BY CInit
<1>2. EmergenciesOnly /\ held = NoCommand /\ Heard
  BY DEF Init, EmergenciesOnly, Heard, Interruptible
<1>. QED
  BY <1>1, <1>2 DEF HInv

LEMMA HNext == ~PttPolled /\ HInv /\ [Next]_vars => HInv'
<1> SUFFICES ASSUME ~PttPolled, HInv, [Next]_vars PROVE HInv'
  OBVIOUS
<1>1. CInv'
  BY CNext DEF HInv
<1>. SUFFICES EmergenciesOnly' /\ held' = NoCommand /\ Heard'
  BY <1>1 DEF HInv
<1>2. ASSUME NEW c \in Clients, Call(c) \/ SubmitStep(c)
      PROVE  EmergenciesOnly' /\ held' = NoCommand /\ Heard'
  BY <1>2, CallHeard, SubmitHeard
<1>3. CASE Stop
  BY <1>3, OtherActorHeard
<1>4. CASE Actor
  <2>1. CASE TakeEmergency \/ TakeNormal \/ ServeHeld \/ PollOnce
    BY <2>1, TakesHeard
  <2>2. CASE \/ (\E expired \in BOOLEAN : WriteCommand(expired)) \/ WriteTimesOut
             \/ LoseLinkServing \/ AwaitReply \/ WatchdogPreempts \/ ReplyTimesOut \/ DrainStale
    BY <2>2, ServingHeard
  <2>3. CASE Woken
    BY <2>3, WokenHeard
  <2>4. CASE \/ LinkStatusChanged \/ WatchdogFire \/ ReadIdle \/ LoseLinkIdle
             \/ SessionStep \/ SessionAwait
             \/ WriteUnkey \/ UnkeyWriteFails \/ UnkeyAttemptFails \/ UnkeyAwait \/ UnkeyGivesUp
    BY <2>4, OtherActorHeard
  <2>. QED
    BY <1>4, <2>1, <2>2, <2>3, <2>4 DEF Actor
<1>5. CASE MoveGate \/ Radio \/ Link \/ UNCHANGED vars
  <2>1. UNCHANGED <<queueVars, callVars, taskVars>>
    BY <1>5 DEF MoveGate, Radio, RigExecutes, CwEnds, FrontPanel, Expire, WatchdogLapses, Link,
       StreamFails, PortLost, PortReopened, SupervisorCloses, Environment, Actors, vars
  <2>. QED
    BY <2>1 DEF queueVars, callVars, taskVars, HInv, EmergenciesOnly, Heard, Interruptible, Announced
<1>. QED
  BY <1>2, <1>3, <1>4, <1>5 DEF Next

\* Where the rig's transmit state is not polled, an emergency whose caller waits
\* is never slept through: every wait it should cut short has its wake-up
\* pending (rig.rs submit's notify_one, run_command's emergency_wake).  Under
\* polling the wake-up can be spent on the reserved poll, see poll_reserved.
THEOREM EmergencyHeard ==
    ASSUME ~PttPolled
    PROVE  Spec => []EmergencyIsHeard
<1>1. HInv => EmergencyIsHeard
  BY DEF HInv, Heard, Interruptible, EmergencyIsHeard
<1>2. HInv /\ [Next]_vars => HInv'
  BY HNext
<1>. QED
  BY <1>1, <1>2, HInit, PTL DEF Spec
----------------------------------------------------------------------------
(* A command does what its client asked for.                               *)

\* A command carries what its client asks for.
AsAsked(cmd) == cmd.client # NoClient => cmd.op = request[cmd.client]

Requested ==
    /\ \A i \in DOMAIN emergency : AsAsked(emergency[i])
    /\ \A i \in DOMAIN normal : AsAsked(normal[i])
    /\ AsAsked(cur) /\ AsAsked(held)
    /\ \A c \in Clients : c \in unkey_waiters \/ calls[c] = "riding" => request[c] = "unkey"

\* A step of the actor takes commands from the queues, serves them or holds one back.
Taken(queue) == queue' = queue \/ (queue # <<>> /\ queue' = Tail(queue))

First(queue, cmd) == queue # <<>> /\ cmd = Head(queue)

Moves ==
    /\ UNCHANGED request
    /\ Taken(emergency) /\ Taken(normal)
    /\ cur' \in {cur, held, Poll, NoCommand} \/ First(emergency, cur') \/ First(normal, cur')
    /\ held' \in {held, NoCommand} \/ First(normal, held')

\* Nobody starts to ride.
NobodyRides ==
    /\ unkey_waiters' \subseteq unkey_waiters
    /\ \A c \in Clients : calls'[c] = "riding" => calls[c] = "riding"

\* What remains of a queue was in it, and so was its head.
LEMMA TakenAsAsked ==
    ASSUME NEW q \in Seq(Requests), q # <<>>, \A i \in DOMAIN q : AsAsked(q[i])
    PROVE  AsAsked(Head(q)) /\ \A i \in DOMAIN Tail(q) : AsAsked(Tail(q)[i])
<1>1. /\ Len(q) \in Nat \ {0} /\ DOMAIN q = 1..Len(q) /\ Head(q) = q[1]
      /\ DOMAIN Tail(q) = 1..(Len(q) - 1) /\ \A i \in 1..(Len(q) - 1) : Tail(q)[i] = q[i + 1]
  BY EmptySeq, LenProperties, HeadTailProperties
<1>2. AsAsked(q[1])
  BY <1>1
<1>3. ASSUME NEW i \in 1..(Len(q) - 1) PROVE AsAsked(q[i + 1])
  <2>1. i + 1 \in 1..Len(q)
    BY <1>1
  <2>. QED
    BY <1>1, <2>1
<1>. QED
  BY <1>1, <1>2, <1>3

LEMMA MovesAsked ==
    ASSUME QueueTypes, Requested, Moves, NobodyRides
    PROVE  Requested'
<1>1. \A cmd : AsAsked(cmd)' <=> (cmd'.client # NoClient => cmd'.op = request[cmd'.client])
  BY DEF AsAsked, Moves
<1>2. emergency \in Seq(Requests) /\ normal \in Seq(Requests)
  BY DEF QueueTypes
<1>3. emergency # <<>> => AsAsked(Head(emergency)) /\ \A i \in DOMAIN Tail(emergency) : AsAsked(Tail(emergency)[i])
  BY <1>2, TakenAsAsked DEF Requested
<1>4. normal # <<>> => AsAsked(Head(normal)) /\ \A i \in DOMAIN Tail(normal) : AsAsked(Tail(normal)[i])
  BY <1>2, TakenAsAsked DEF Requested
<1>5. AsAsked(Poll) /\ AsAsked(NoCommand) /\ AsAsked(cur) /\ AsAsked(held)
  BY DEF Requested, AsAsked, Poll, NoCommand
<1>6. \A i \in DOMAIN emergency' : AsAsked(emergency'[i])
  BY <1>3 DEF Moves, Taken, Requested
<1>7. \A i \in DOMAIN normal' : AsAsked(normal'[i])
  BY <1>4 DEF Moves, Taken, Requested
<1>8. AsAsked(cur') /\ AsAsked(held')
  BY <1>3, <1>4, <1>5 DEF Moves, First
<1>9. \A c \in Clients : c \in unkey_waiters' \/ calls'[c] = "riding" => request[c] = "unkey"
  BY DEF Requested, NobodyRides
<1>. QED
  BY <1>6, <1>7, <1>8, <1>9 DEF Requested, AsAsked, Moves

\* A client that is idle has nothing in the queues, so it may ask for something else.
LEMMA NotInQueue ==
    ASSUME NEW q \in Seq(Requests), NEW c, QueuedIn(q, c) = 0
    PROVE  \A i \in DOMAIN q : q[i].client \in Clients \ {c}
<1>1. IsFiniteSet(InQueue(q, c))
  BY QueuedType
<1>2. InQueue(q, c) = {}
  BY <1>1, FS_EmptySet DEF QueuedIn
<1>3. \A i \in DOMAIN q : q[i] \in Requests
  OBVIOUS
<1>. QED
  BY <1>2, <1>3 DEF InQueue, Requests

LEMMA AppendAsked ==
    ASSUME NEW q \in Seq(Requests), NEW r \in Requests, NEW new,
           \A i \in DOMAIN q : q[i].op = new[q[i].client], r.op = new[r.client]
    PROVE  \A i \in DOMAIN Append(q, r) : Append(q, r)[i].op = new[Append(q, r)[i].client]
<1>1. /\ DOMAIN q = 1..Len(q) /\ Len(q) \in Nat /\ DOMAIN Append(q, r) = 1..(Len(q) + 1)
      /\ Append(q, r)[Len(q) + 1] = r /\ \A i \in 1..Len(q) : Append(q, r)[i] = q[i]
  BY AppendProperties, LenProperties
<1>2. ASSUME NEW i \in 1..(Len(q) + 1)
      PROVE  Append(q, r)[i] = r \/ (i \in DOMAIN q /\ Append(q, r)[i] = q[i])
  BY <1>1
<1>. QED
  BY <1>1, <1>2

LEMMA QueueAsked ==
    ASSUME NEW q \in Seq(Requests), NEW new, NoClient \notin Clients
    PROVE  (\A i \in DOMAIN q : q[i].client # NoClient => q[i].op = new[q[i].client])
           <=> \A i \in DOMAIN q : q[i].op = new[q[i].client]
<1>1. \A i \in DOMAIN q : q[i] \in Requests
  OBVIOUS
<1>2. \A i \in DOMAIN q : q[i].client \in Clients
  BY <1>1 DEF Requests
<1>. QED
  BY <1>2

LEMMA CallAsked ==
    ASSUME CInv, QueueTypes', Requested, NEW c \in Clients, Call(c)
    PROVE  Requested'
<1>1. PICK op \in ClientOps : Submit(c, op) \/ SubmitEmergency(c, op)
  BY DEF Call
<1>2. /\ calls[c] = "idle" /\ request' = [request EXCEPT ![c] = op]
      /\ UNCHANGED <<cur, held, unkey_waiters, emergency>>
      /\ normal' = normal \/ normal' = Append(normal, [client |-> c, op |-> op])
  BY <1>1 DEF Submit, SubmitEmergency, Submitting, taskVars
<1>3. /\ CallTypes /\ op \in Operations /\ [client |-> c, op |-> op] \in Requests
      /\ TaskTypes /\ NoClient \notin Clients
      /\ emergency \in Seq(Requests) /\ normal \in Seq(Requests)
  BY ConstantsAssumption DEF CInv, IInv, TypeOK, Requests, QueueTypes
<1>4. request'[c] = op /\ \A d \in Clients \ {c} : request'[d] = request[d]
  BY <1>2, <1>3 DEF CallTypes
<1>5. Owed(c) = 0
  BY <1>2 DEF Owed, One
<1>6. /\ \A i \in DOMAIN emergency : emergency[i].client \in Clients \ {c}
      /\ \A i \in DOMAIN normal : normal[i].client \in Clients \ {c}
      /\ cur.client # c /\ held.client # c /\ c \notin unkey_waiters
  BY <1>3, <1>5, NoPlace, NotInQueue DEF One
<1>7. cur.client \in Clients \union {NoClient} /\ held.client \in Clients \union {NoClient}
  BY <1>3 DEF TaskTypes, Requests, Poll, NoCommand
<1>8. AsAsked(cur)' /\ AsAsked(held)'
  BY <1>2, <1>4, <1>6, <1>7 DEF Requested, AsAsked
<1>9. \A i \in DOMAIN emergency' : AsAsked(emergency[i])'
  BY <1>2, <1>3, <1>4, <1>6 DEF Requested, AsAsked
<1>10. \A i \in DOMAIN normal' : AsAsked(normal[i])'
  <2>1. \A i \in DOMAIN normal : normal[i].op = request'[normal[i].client]
    BY <1>3, <1>4, <1>6 DEF Requested, AsAsked
  <2>2. CASE normal' = normal
    BY <2>1, <2>2 DEF AsAsked
  <2>3. CASE normal' = Append(normal, [client |-> c, op |-> op])
    <3>1. \A i \in DOMAIN normal' : normal'[i].op = request'[normal'[i].client]
      BY <1>3, <1>4, <2>1, <2>3, AppendAsked
    <3>. QED
      BY <3>1 DEF AsAsked
  <2>. QED
    BY <1>2, <2>2, <2>3
<1>11. ASSUME NEW d \in Clients, d \in unkey_waiters' \/ calls'[d] = "riding"
       PROVE  request'[d] = "unkey"
  <2>1. calls'[c] # "riding" /\ \A e \in Clients \ {c} : calls'[e] = calls[e]
    BY <1>1, <1>2, <1>3 DEF Submit, SubmitEmergency, CallTypes
  <2>. QED
    BY <1>2, <1>4, <1>6, <1>11, <2>1 DEF Requested
<1>. QED
  BY <1>8, <1>9, <1>10, <1>11 DEF Requested

\* The steps of a caller in submit.
LEMMA SubmitAsked ==
    ASSUME IInv, Requested, NEW c \in Clients, SubmitStep(c)
    PROVE  Requested'
<1>1. /\ UNCHANGED <<request, normal, cur, held>>
      /\ calls[c] \in {"counted", "sent", "riding"}
  BY DEF SubmitStep, SendEmergency, WakeActor, FindEmergencyFull, Ride, InSubmit, taskVars
<1>2. /\ CallTypes /\ emergency \in Seq(Requests) /\ NoClient \notin Clients
  BY ConstantsAssumption DEF IInv, TypeOK, QueueTypes
<1>4. /\ \A i \in DOMAIN normal' : AsAsked(normal[i])'
      /\ AsAsked(cur)' /\ AsAsked(held)'
  BY <1>1 DEF Requested, AsAsked
<1>5. \A i \in DOMAIN emergency' : AsAsked(emergency[i])'
  <2>1. CASE emergency' = emergency
    BY <1>1, <2>1 DEF Requested, AsAsked
  <2>2. CASE calls[c] = "counted" /\ emergency' = Append(emergency, [client |-> c, op |-> request[c]])
    <3>1. [client |-> c, op |-> request[c]] \in Requests
      BY <2>2 DEF IInv, CommandsAreReal, Requests
    <3>2. \A i \in DOMAIN emergency : emergency[i].op = request[emergency[i].client]
      BY <1>2, QueueAsked DEF Requested, AsAsked
    <3>3. \A i \in DOMAIN emergency' : emergency'[i].op = request[emergency'[i].client]
      BY <1>2, <2>2, <3>1, <3>2, AppendAsked
    <3>. QED
      BY <1>1, <3>3 DEF AsAsked
  <2>. QED
    BY <2>1, <2>2 DEF SubmitStep, SendEmergency, WakeActor, FindEmergencyFull, Ride, InSubmit
<1>6. ASSUME NEW d \in Clients, d \in unkey_waiters' \/ calls'[d] = "riding"
      PROVE  request'[d] = "unkey"
  <2>1. \A e \in Clients \ {c} : calls'[e] = calls[e]
    BY <1>2 DEF SubmitStep, SendEmergency, WakeActor, FindEmergencyFull, Ride, CallTypes
  <2>2. unkey_waiters' = unkey_waiters \/ (calls[c] = "riding" /\ unkey_waiters' = unkey_waiters \union {c})
    BY DEF SubmitStep, SendEmergency, WakeActor, FindEmergencyFull, Ride, InSubmit, WithWaiter
  <2>3. calls'[c] = "riding" => request[c] = "unkey"
    BY <1>2 DEF SubmitStep, SendEmergency, WakeActor, FindEmergencyFull, Ride, CallTypes, IsUnkey
  <2>. QED
    BY <1>1, <1>6, <2>1, <2>2, <2>3 DEF Requested
<1>. QED
  BY <1>4, <1>5, <1>6 DEF Requested

----------------------------------------------------------------------------
(* The rig service that callers are promised (RigService).                 *)

\* A client that is idle has its answer, and only emergencies are counted.
Asked ==
    \A c \in Clients :
        /\ calls[c] = "idle" => answer[c] # "none" \/ request[c] = "none"
        /\ calls[c] = "counted" => IsEmergency(request[c])

\* An emergency is never in the ordinary queue.
LinesApart == \A i \in DOMAIN normal : ~IsEmergency(normal[i].op)

VInv == CInv /\ Requested /\ Asked /\ LinesApart

\* The clients of a queue, in its order.
LEMMA ClientsOfSeq ==
    ASSUME NEW q \in Seq(Requests)
    PROVE  /\ ClientsOf(q) \in Seq(Clients) /\ DOMAIN ClientsOf(q) = 1..Len(q)
           /\ Len(ClientsOf(q)) = Len(q)
           /\ \A i \in 1..Len(q) : ClientsOf(q)[i] = q[i].client
<1>1. DOMAIN q = 1..Len(q) /\ Len(q) \in Nat
  BY LenProperties
<1>2. \A i \in 1..Len(q) : q[i] \in Requests
  BY <1>1
<1>3. ClientsOf(q) \in [1..Len(q) -> Clients]
  BY <1>1, <1>2 DEF ClientsOf, Requests
<1>4. ClientsOf(q) \in Seq(Clients)
  BY <1>1, <1>3, SeqDef
<1>. QED
  BY <1>1, <1>3, <1>4, LenProperties DEF ClientsOf

LEMMA ClientsOfAppend ==
    ASSUME NEW q \in Seq(Requests), NEW r \in Requests
    PROVE  ClientsOf(Append(q, r)) = Append(ClientsOf(q), r.client)
<1>1. /\ Append(q, r) \in Seq(Requests) /\ Len(Append(q, r)) = Len(q) + 1
      /\ \A i \in 1..Len(q) : Append(q, r)[i] = q[i]
      /\ Append(q, r)[Len(q) + 1] = r
  BY AppendProperties
<1>2. r.client \in Clients /\ Len(q) \in Nat
  BY LenProperties DEF Requests
<1>3. /\ ClientsOf(Append(q, r)) \in Seq(Clients)
      /\ Len(ClientsOf(Append(q, r))) = Len(q) + 1
      /\ \A i \in 1..(Len(q) + 1) : ClientsOf(Append(q, r))[i] = Append(q, r)[i].client
  BY <1>1, ClientsOfSeq
<1>4. /\ Append(ClientsOf(q), r.client) \in Seq(Clients)
      /\ Len(Append(ClientsOf(q), r.client)) = Len(q) + 1
      /\ \A i \in 1..Len(q) : Append(ClientsOf(q), r.client)[i] = q[i].client
      /\ Append(ClientsOf(q), r.client)[Len(q) + 1] = r.client
  BY <1>2, ClientsOfSeq, AppendProperties
<1>5. \A i \in 1..(Len(q) + 1) : ClientsOf(Append(q, r))[i] = Append(ClientsOf(q), r.client)[i]
  BY <1>1, <1>2, <1>3, <1>4
<1>. QED
  BY <1>3, <1>4, <1>5, SeqEqual

LEMMA ClientsOfTail ==
    ASSUME NEW q \in Seq(Requests), q # <<>>
    PROVE  /\ ClientsOf(q) # <<>> /\ Head(ClientsOf(q)) = Head(q).client
           /\ Tail(ClientsOf(q)) = ClientsOf(Tail(q))
<1>1. /\ Len(q) \in Nat \ {0} /\ Head(q) = q[1]
      /\ Tail(q) \in Seq(Requests) /\ Len(Tail(q)) = Len(q) - 1
      /\ \A i \in 1..(Len(q) - 1) : Tail(q)[i] = q[i + 1]
  BY EmptySeq, LenProperties, HeadTailProperties
<1>2. /\ ClientsOf(q) \in Seq(Clients) /\ Len(ClientsOf(q)) = Len(q)
      /\ \A i \in 1..Len(q) : ClientsOf(q)[i] = q[i].client
  BY ClientsOfSeq
<1>3. ClientsOf(q) # <<>>
  BY <1>1, <1>2, EmptySeq
<1>4. /\ Tail(ClientsOf(q)) \in Seq(Clients) /\ Len(Tail(ClientsOf(q))) = Len(q) - 1
      /\ Head(ClientsOf(q)) = ClientsOf(q)[1]
      /\ \A i \in 1..(Len(q) - 1) : Tail(ClientsOf(q))[i] = ClientsOf(q)[i + 1]
  BY <1>2, <1>3, HeadTailProperties
<1>5. /\ ClientsOf(Tail(q)) \in Seq(Clients) /\ Len(ClientsOf(Tail(q))) = Len(q) - 1
      /\ \A i \in 1..(Len(q) - 1) : ClientsOf(Tail(q))[i] = Tail(q)[i].client
  BY <1>1, ClientsOfSeq
<1>6. \A i \in 1..(Len(q) - 1) : Tail(ClientsOf(q))[i] = ClientsOf(Tail(q))[i]
  BY <1>1, <1>2, <1>4, <1>5
<1>7. Tail(ClientsOf(q)) = ClientsOf(Tail(q))
  BY <1>4, <1>5, <1>6, SeqEqual
<1>. QED
  BY <1>1, <1>2, <1>3, <1>4, <1>7

LEMMA ClientsOfNone == ClientsOf(<<>>) = <<>>
<1>1. <<>> \in Seq(Requests)
  BY EmptySeq
<1>. QED
  BY <1>1, ClientsOfSeq, EmptySeq

LEMMA VInvHas ==
    ASSUME VInv
    PROVE  /\ CInv /\ QueueTypes /\ CallTypes /\ CommandInPlace /\ AnswersPending
           /\ Requested /\ Asked /\ LinesApart /\ NoClient \notin Clients
           /\ emergency \in Seq(Requests) /\ normal \in Seq(Requests)
           /\ cur \in Requests \union {Poll, NoCommand} /\ held \in Requests \union {NoCommand}
BY ConstantsAssumption DEF VInv, CInv, IInv, Placed, TypeOK, QueueTypes, TaskTypes

\* A command with a client is a request of that client.
LEMMA OfClient ==
    ASSUME VInv, NEW cmd \in Requests \union {Poll, NoCommand}, cmd.client # NoClient, AsAsked(cmd)
    PROVE  /\ cmd \in Requests /\ cmd # Poll /\ cmd # NoCommand /\ cmd.client \in Clients
           /\ cmd.op = request[cmd.client] /\ cmd.op \in Operations
BY DEF Requests, Poll, NoCommand, AsAsked

LEMMA OfNobody ==
    ASSUME VInv, NEW cmd \in Requests \union {Poll, NoCommand}, cmd.client = NoClient
    PROVE  cmd \in {Poll, NoCommand} /\ Riders(cmd.op) = {}
BY VInvHas DEF Requests, Poll, NoCommand, Riders, IsUnkey

\* Nothing is held behind a client's command in service.
LEMMA ServedAlone ==
    ASSUME VInv
    PROVE  /\ cur.client # NoClient => held = NoCommand /\ InTurn = cur.client
           /\ cur.client = NoClient => InTurn = held.client
           /\ NoCommand.client = NoClient /\ Poll.client = NoClient
BY VInvHas DEF CommandInPlace, InTurn, Poll, NoCommand

\* An unanswered emergency that is neither queued nor served is aside.
LEMMA AsideHas ==
    ASSUME VInv, NEW c \in Clients, answer[c] = "none", IsEmergency(request[c]),
           QueuedIn(emergency, c) = 0, cur.client # c, held.client # c
    PROVE  c \in Service!Aside
<1>1. \A i \in DOMAIN ClientsOf(emergency) : ClientsOf(emergency)[i] # c
  BY VInvHas, NotInQueue DEF ClientsOf
<1>2. c # InTurn
  BY DEF InTurn
<1>3. request[c] # "none" /\ request[c] \in {"unkey", "stop"}
  BY DEF IsEmergency
<1>. QED
  BY <1>1, <1>2, <1>3 DEF Service!Aside, Service!Pending, Service!IsEmergency

\* Who rides, and who is about to be lined up, is aside.
LEMMA RidersAside ==
    ASSUME VInv, NEW c \in unkey_waiters
    PROVE  c \in Clients /\ request[c] = "unkey" /\ c \in Service!Aside
<1>1. c \in Clients /\ request[c] = "unkey"
  BY VInvHas DEF CallTypes, Requested
<1>2. /\ Owed(c) = Places(c) /\ Owed(c) \in {0, 1}
      /\ Places(c) = QueuedIn(emergency, c) + QueuedIn(normal, c) + One(cur.client = c)
                       + One(held.client = c) + One(c \in unkey_waiters)
  BY <1>1, VInvHas, ForgottenMeans, PlacesAre, OwedType DEF CInv, Placed
<1>3. QueuedIn(emergency, c) \in Nat /\ QueuedIn(normal, c) \in Nat
  BY VInvHas, QueuedType
<1> DEFINE a == QueuedIn(emergency, c)
           b == QueuedIn(normal, c)
           x == One(cur.client = c)
           y == One(held.client = c)
<1>4. x \in {0, 1} /\ y \in {0, 1} /\ One(c \in unkey_waiters) = 1
  BY DEF One
<1>5. a \in Nat /\ b \in Nat /\ a + b + x + y + 1 \in {0, 1} /\ Owed(c) = a + b + x + y + 1
  BY <1>2, <1>3, <1>4
<1>. HIDE DEF a, b, x, y
<1>6. a = 0 /\ x = 0 /\ y = 0 /\ Owed(c) = 1
  BY <1>4, <1>5
<1>7. QueuedIn(emergency, c) = 0 /\ cur.client # c /\ held.client # c /\ answer[c] = "none"
  BY <1>6 DEF a, x, y, One, Owed
<1>. QED
  BY <1>1, <1>7, AsideHas DEF IsEmergency

LEMMA CountedAside ==
    ASSUME VInv, NEW c \in Clients, calls[c] = "counted"
    PROVE  c \in Service!Aside
<1>1. answer[c] = "none" /\ IsEmergency(request[c])
  BY VInvHas DEF AnswersPending, Asked
<1>2. Owed(c) = 0
  BY DEF Owed, One
<1>3. QueuedIn(emergency, c) = 0 /\ cur.client # c /\ held.client # c
  BY <1>2, VInvHas, NoPlace DEF One
<1>. QED
  BY <1>1, <1>3, AsideHas

\* A command that ends is told to its client, and to those who ride on it.
LEMMA Told ==
    ASSUME VInv, NEW cmd \in Requests, AsAsked(cmd), NEW result, NEW failed,
           Complete(cmd, result, failed)
    PROVE  Service!Tell(cmd.client, result)
<1>1. cmd.client \in Clients /\ cmd.client # NoClient /\ cmd.op = request[cmd.client]
  BY VInvHas DEF Requests, AsAsked
<1>2. Riders(cmd.op) \in SUBSET Service!Sharing(cmd.client)
  BY <1>1, RidersAside DEF Riders, IsUnkey, Service!Sharing
<1>3. answer' = [d \in Clients |-> IF d = cmd.client \/ d \in Riders(cmd.op) THEN result ELSE answer[d]]
  BY <1>1 DEF Complete
<1>. QED
  BY <1>2, <1>3 DEF Service!Tell

LEMMA NobodyTold ==
    ASSUME VInv, NEW cmd \in {Poll, NoCommand}, NEW result, NEW failed, Complete(cmd, result, failed)
    PROVE  answer' = answer /\ calls' = calls
<1>1. Riders(cmd.op) \union ({cmd.client} \ {NoClient}) = {}
  BY DEF Riders, IsUnkey, Poll, NoCommand
<1>. QED
  BY <1>1, VInvHas DEF Complete, CallTypes

----------------------------------------------------------------------------
(* The steps of the actor, seen by the callers.                            *)

ServiceSame == UNCHANGED Service!vars

\* What the callers see does not change where these do not.
LEMMA SeenSame ==
    ASSUME UNCHANGED <<gate, request, answer, emergency, normal, InTurn>>,
           cur'.client # NoClient <=> cur.client # NoClient
    PROVE  ServiceSame
BY DEF ServiceSame, Service!vars, ClientsOf

\* The command in service ends, or a poll nobody waits for does.
LEMMA EndSeen ==
    ASSUME VInv, UNCHANGED <<emergency, normal, held, gate>>,
           NEW result \in {"ok", "Rejected", "Timeout", "LinkDown", "Cancelled"},
           result = "Cancelled" => ~IsEmergency(cur.op),
           NEW failed, Complete(cur, result, failed)
    PROVE  Service!Finish \/ ServiceSame
<1>1. cur' = NoCommand /\ request' = request
  BY DEF Complete
<1>2. CASE cur.client = NoClient
  <2>1. answer' = answer
    BY <1>2, OfNobody, NobodyTold, VInvHas
  <2>2. cur'.client = NoClient
    BY <1>1, ServedAlone
  <2>3. UNCHANGED InTurn
    BY <1>2, <2>2 DEF InTurn
  <2>. QED
    BY <1>1, <1>2, <2>1, <2>2, <2>3, SeenSame
<1>3. CASE cur.client # NoClient
  <2>1. /\ cur \in Requests /\ cur.client \in Clients /\ cur.op = request[cur.client]
        /\ AsAsked(cur) /\ held = NoCommand /\ InTurn = cur.client
    BY <1>3, OfClient, ServedAlone, VInvHas DEF Requested
  <2>2. Service!Tell(InTurn, result)
    BY <2>1, Told
  <2>3. result \in Service!Outcomes(request[InTurn])
    BY <2>1 DEF Service!Outcomes, Service!IsEmergency, IsEmergency
  <2>4. InTurn' = NoClient /\ cur'.client = NoClient
    BY <1>1, <2>1, ServedAlone DEF InTurn
  <2>5. InTurn # NoClient
    BY <1>3, <2>1
  <2>6. UNCHANGED <<gate, request, ClientsOf(normal), ClientsOf(emergency)>>
    BY <1>1 DEF ClientsOf
  <2>. QED
    BY <1>3, <2>2, <2>3, <2>4, <2>5, <2>6 DEF Service!Finish
<1>. QED
  BY <1>2, <1>3

\* A command begins: it is in service, or refused for a reason callers know.
LEMMA BeginSeen ==
    ASSUME VInv, NEW cmd \in Requests, AsAsked(cmd), held' = NoCommand, Begin(cmd)
    PROVE  /\ request' = request
           /\ \/ /\ Service!MayTransmit(request[cmd.client]) /\ answer' = answer
                 /\ cur'.client # NoClient /\ InTurn' = cmd.client
              \/ /\ \E result \in Service!Refusals(request[cmd.client]) :
                       Service!Tell(cmd.client, result)
                 /\ cur'.client = NoClient /\ InTurn' = NoClient
<1>1. cmd.client \in Clients /\ cmd.client # NoClient /\ cmd.op = request[cmd.client]
  BY VInvHas DEF Requests, AsAsked
<1>2. CASE \E reason \in Refusals(cmd) : Complete(cmd, reason, FALSE)
  <2>1. PICK reason \in Refusals(cmd) : Complete(cmd, reason, FALSE)
    BY <1>2
  <2>2. Service!Tell(cmd.client, reason)
    BY <2>1, Told
  <2>3. reason \in Service!Refusals(request[cmd.client])
    BY <1>1 DEF Refusals, Transmits, Service!Refusals, Service!Transmits
  <2>4. cur' = NoCommand /\ request' = request
    BY <2>1 DEF Complete
  <2>5. cur'.client = NoClient /\ InTurn' = NoClient
    BY <2>4, ServedAlone DEF InTurn
  <2>. QED
    BY <2>2, <2>3, <2>4, <2>5
<1>3. CASE Admitted(cmd) /\ cur' = cmd /\ UNCHANGED <<callVars, aired, alarm>>
  <2>1. Service!MayTransmit(request[cmd.client])
    BY <1>1, <1>3 DEF Admitted, Transmits, Service!MayTransmit, Service!Transmits
  <2>2. InTurn' = cmd.client
    BY <1>1, <1>3 DEF InTurn
  <2>. QED
    BY <1>1, <1>3, <2>1, <2>2 DEF callVars
<1>. QED
  BY <1>2, <1>3 DEF Begin

LEMMA TakeEmergencySeen ==
    ASSUME VInv, TakeEmergency
    PROVE  Service!TakeUrgent
<1> DEFINE c == Head(ClientsOf(emergency))
<1>1. /\ pc = "select" /\ emergency # <<>> /\ emergency' = Tail(emergency)
      /\ Begin(Head(emergency)) /\ UNCHANGED <<normal, held, gate>>
  BY DEF TakeEmergency, Idle, gateVars
<1>2. cur = NoCommand /\ held = NoCommand
  BY <1>1, VInvHas, NothingServed
<1>3. InTurn = NoClient /\ cur.client = NoClient
  BY <1>2, ServedAlone DEF InTurn
<1>4. Head(emergency) \in Requests /\ AsAsked(Head(emergency))
  BY <1>1, VInvHas, HeadTailProperties, TakenAsAsked DEF Requested
<1>5. /\ ClientsOf(emergency) # <<>> /\ c = Head(emergency).client
      /\ Tail(ClientsOf(emergency)) = ClientsOf(Tail(emergency))
  BY <1>1, VInvHas, ClientsOfTail
<1>6. Service!Turn(c)
  BY <1>1, <1>2, <1>3, <1>4, <1>5, BeginSeen DEF Service!Turn
<1>7. ClientsOf(emergency)' = Tail(ClientsOf(emergency)) /\ ClientsOf(normal)' = ClientsOf(normal)
  BY <1>1, <1>5 DEF ClientsOf
<1>. QED
  BY <1>5, <1>6, <1>7 DEF Service!TakeUrgent

LEMMA TakeNormalSeen ==
    ASSUME VInv, TakeNormal
    PROVE  Service!TakeOrdinary
<1> DEFINE c == Head(ClientsOf(normal))
<1>1. /\ pc = "select" /\ emergency = <<>> /\ normal # <<>> /\ normal' = Tail(normal)
      /\ UNCHANGED <<emergency, gate>>
      /\ \/ Begin(Head(normal)) /\ UNCHANGED held
         \/ held' = Head(normal) /\ cur' = Poll /\ UNCHANGED callVars
  BY DEF TakeNormal, Idle, NothingUrgent, gateVars
<1>2. cur = NoCommand /\ held = NoCommand
  BY <1>1, VInvHas, NothingServed
<1>3. InTurn = NoClient /\ cur.client = NoClient
  BY <1>2, ServedAlone DEF InTurn
<1>4. /\ Head(normal) \in Requests /\ AsAsked(Head(normal)) /\ ~IsEmergency(Head(normal).op)
  <2>1. Head(normal) \in Requests /\ Head(normal) = normal[1] /\ 1 \in DOMAIN normal
    BY <1>1, VInvHas, HeadTailProperties, EmptySeq, LenProperties
  <2>. QED
    BY <2>1, VInvHas DEF Requested, LinesApart
<1>5. /\ ClientsOf(normal) # <<>> /\ c = Head(normal).client
      /\ Tail(ClientsOf(normal)) = ClientsOf(Tail(normal))
  BY <1>1, VInvHas, ClientsOfTail
<1>6. Service!Turn(c)
  <2>1. CASE Begin(Head(normal)) /\ UNCHANGED held
    <3>1. /\ Head(normal).client \in Clients /\ ~Service!IsEmergency(request[c])
      BY <1>4, <1>5, OfClient, VInvHas DEF Requests, AsAsked, IsEmergency, Service!IsEmergency
    <3>. QED
      BY <1>1, <1>2, <1>3, <1>4, <1>5, <2>1, <3>1, BeginSeen DEF Service!Turn
  <2>2. CASE held' = Head(normal) /\ cur' = Poll /\ UNCHANGED callVars
    <3>1. /\ Head(normal).client \in Clients /\ ~Service!IsEmergency(request[c])
      BY <1>4, <1>5, VInvHas DEF Requests, AsAsked, IsEmergency, Service!IsEmergency
    <3>2. InTurn' = c /\ ~(cur'.client # NoClient)
      BY <1>5, <2>2, ServedAlone DEF InTurn
    <3>. QED
      BY <1>1, <1>3, <2>2, <3>1, <3>2 DEF Service!Turn, callVars
  <2>. QED
    BY <1>1, <2>1, <2>2
<1>7. /\ ClientsOf(normal)' = Tail(ClientsOf(normal)) /\ ClientsOf(emergency)' = ClientsOf(emergency)
      /\ ClientsOf(emergency) = <<>>
  BY <1>1, <1>5, ClientsOfNone DEF ClientsOf
<1>. QED
  BY <1>5, <1>6, <1>7 DEF Service!TakeOrdinary

LEMMA ServeHeldSeen ==
    ASSUME VInv, ServeHeld
    PROVE  Service!BeginKept \/ Service!Finish
<1>1. /\ pc = "held" /\ held' = NoCommand /\ Begin(held)
      /\ UNCHANGED <<emergency, normal, gate>>
  BY DEF ServeHeld, queueVars, gateVars
<1>2. cur = NoCommand /\ held \in Requests /\ AsAsked(held)
  BY <1>1, VInvHas, NothingServed DEF Requested, VInv, CInv, IInv, CommandsAreReal
<1>3. /\ cur.client = NoClient /\ InTurn = held.client /\ InTurn # NoClient
  BY <1>2, ServedAlone, VInvHas DEF Requests
<1>4. UNCHANGED <<gate, ClientsOf(normal), ClientsOf(emergency)>>
  BY <1>1 DEF ClientsOf
<1>5. /\ request' = request
      /\ \/ /\ Service!MayTransmit(request[InTurn]) /\ answer' = answer
            /\ cur'.client # NoClient /\ InTurn' = InTurn
         \/ /\ \E result \in Service!Refusals(request[InTurn]) : Service!Tell(InTurn, result)
            /\ cur'.client = NoClient /\ InTurn' = NoClient
  BY <1>1, <1>2, <1>3, BeginSeen
<1>. QED
  BY <1>3, <1>4, <1>5 DEF Service!BeginKept, Service!Finish

LEMMA PollOnceSeen ==
    ASSUME VInv, PollOnce
    PROVE  ServiceSame
<1>1. /\ pc = "select" /\ Begin(Poll) /\ UNCHANGED <<emergency, normal, held, gate>>
  BY DEF PollOnce, Idle, queueVars, gateVars
<1>2. cur = NoCommand /\ held = NoCommand
  BY <1>1, VInvHas, NothingServed
<1>3. UNCHANGED <<answer, request>> /\ cur' \in {Poll, NoCommand}
  <2>1. CASE \E reason \in Refusals(Poll) : Complete(Poll, reason, FALSE)
    BY <2>1, NobodyTold DEF Complete
  <2>2. CASE cur' = Poll /\ UNCHANGED callVars
    BY <2>2 DEF callVars
  <2>. QED
    BY <1>1, <2>1, <2>2 DEF Begin
<1>4. cur'.client = NoClient /\ cur.client = NoClient /\ UNCHANGED InTurn
  BY <1>1, <1>2, <1>3, ServedAlone DEF InTurn
<1>. QED
  BY <1>1, <1>3, <1>4, SeenSame

\* What a step in the service of a command does to the command.
GoesOn == UNCHANGED <<emergency, normal, held, gate>> /\ UNCHANGED <<callVars, cur>>

Ends ==
    /\ UNCHANGED <<emergency, normal, held, gate>>
    /\ \E result \in {"ok", "Rejected", "Timeout", "LinkDown", "Cancelled"} :
          /\ result = "Cancelled" => ~IsEmergency(cur.op)
          /\ \E failed : Complete(cur, result, failed)

\* Whatever the reply is, a command ends as one of these.
LEMMA DecidesResults ==
    \A frame, kind : Decides(frame, kind) \in {"ok", "Rejected", "none"}
BY DEF Decides

LEMMA ServingSeen ==
    ASSUME \/ Woken \/ DrainStale \/ LoseLinkServing
           \/ (\E expired \in BOOLEAN : WriteCommand(expired))
           \/ WriteTimesOut \/ AwaitReply \/ WatchdogPreempts \/ ReplyTimesOut
    PROVE  GoesOn \/ Ends
<1>1. UNCHANGED <<emergency, normal, held, gate>>
  BY DEF Woken, DrainStale, LoseLinkServing, LinkLost, WriteCommand, WriteTimesOut, AwaitReply,
         WatchdogPreempts, ReplyTimesOut, queueVars, gateVars, taskVars
<1>2. CASE Woken \/ WatchdogPreempts
  BY <1>1, <1>2 DEF Woken, WatchdogPreempts, GoesOn, Ends
<1>3. CASE DrainStale
  BY <1>1, <1>3 DEF DrainStale, GoesOn, taskVars
<1>4. CASE LoseLinkServing
  BY <1>1, <1>4 DEF LoseLinkServing, LinkLost, Ends
<1>5. CASE \E expired \in BOOLEAN : WriteCommand(expired)
  <2>1. UNCHANGED <<callVars, cur>> \/ Complete(cur, "ok", FALSE)
    BY <1>5 DEF WriteCommand
  <2>. QED
    BY <1>1, <2>1 DEF GoesOn, Ends
<1>6. CASE WriteTimesOut \/ ReplyTimesOut
  <2>1. UNCHANGED <<callVars, cur>> \/ Complete(cur, "Timeout", FALSE)
    BY <1>6 DEF WriteTimesOut, ReplyTimesOut
  <2>. QED
    BY <1>1, <2>1 DEF GoesOn, Ends
<1>7. CASE AwaitReply
  <2>1. PICK outcome : /\ outcome = Decides(Head(replies), ReplyKind(cur.op))
                       /\ IF outcome = "none" THEN UNCHANGED <<callVars, cur>>
                          ELSE Complete(cur, outcome, FALSE)
    BY <1>7 DEF AwaitReply
  <2>2. outcome \in {"ok", "Rejected", "none"}
    BY <2>1, DecidesResults
  <2>. QED
    BY <1>1, <2>1, <2>2 DEF GoesOn, Ends
<1>. QED
  BY <1>2, <1>3, <1>4, <1>5, <1>6, <1>7

LEMMA OtherwiseSeen ==
    ASSUME \/ LinkStatusChanged \/ WatchdogFire \/ ReadIdle \/ LoseLinkIdle
           \/ WriteUnkey \/ UnkeyWriteFails \/ UnkeyAttemptFails \/ UnkeyAwait \/ UnkeyGivesUp
           \/ SessionStep \/ SessionAwait
    PROVE  GoesOn \/ Ends
<1>1. CASE LinkStatusChanged \/ WatchdogFire \/ ReadIdle \/ LoseLinkIdle
  BY <1>1 DEF LinkStatusChanged, WatchdogFire, ReadIdle, LoseLinkIdle, queueVars, taskVars,
              gateVars, GoesOn
<1>2. CASE \/ WriteUnkey \/ UnkeyWriteFails \/ UnkeyAttemptFails \/ UnkeyAwait \/ UnkeyGivesUp
           \/ SessionStep \/ SessionAwait
  <2>1. UNCHANGED <<emergency, normal, held, gate>>
    BY <1>2 DEF WriteUnkey, UnkeyWriteFails, UnkeyAttemptFails, UnkeyAwait, UnkeyGivesUp,
                SessionStep, SessionAwait, SessionUnchanged, UnkeyUnchanged, queueVars, gateVars
  <2>2. ASSUME NEW ok, UnkeyDone(ok)
        PROVE  UNCHANGED <<callVars, cur>> \/ \E failed : Complete(cur, "Timeout", failed)
    BY <2>2 DEF UnkeyDone
  <2>3. UNCHANGED <<callVars, cur>> \/ \E failed : Complete(cur, "Timeout", failed)
    BY <1>2, <2>2 DEF WriteUnkey, UnkeyWriteFails, UnkeyAttemptFails, UnkeyAwait, UnkeyGivesUp,
                      SessionStep, SessionAwait, SessionUnchanged
  <2>. QED
    BY <2>1, <2>3 DEF GoesOn, Ends
<1>. QED
  BY <1>1, <1>2

LEMMA GoesOnSeen == ASSUME GoesOn PROVE ServiceSame
BY SeenSame DEF GoesOn, callVars, InTurn

LEMMA EndsSeen ==
    ASSUME VInv, Ends
    PROVE  Service!Finish \/ ServiceSame
BY EndSeen DEF Ends

LEMMA ActorSeen ==
    ASSUME VInv, Actor
    PROVE  Service!Next \/ ServiceSame
<1>1. CASE TakeEmergency \/ TakeNormal \/ ServeHeld \/ PollOnce
  BY <1>1, TakeEmergencySeen, TakeNormalSeen, ServeHeldSeen, PollOnceSeen DEF Service!Next
<1>2. CASE \/ Woken \/ DrainStale \/ LoseLinkServing
           \/ (\E expired \in BOOLEAN : WriteCommand(expired))
           \/ WriteTimesOut \/ AwaitReply \/ WatchdogPreempts \/ ReplyTimesOut
  BY <1>2, ServingSeen, GoesOnSeen, EndsSeen DEF Service!Next
<1>3. CASE \/ LinkStatusChanged \/ WatchdogFire \/ ReadIdle \/ LoseLinkIdle
           \/ WriteUnkey \/ UnkeyWriteFails \/ UnkeyAttemptFails \/ UnkeyAwait \/ UnkeyGivesUp
           \/ SessionStep \/ SessionAwait
  BY <1>3, OtherwiseSeen, GoesOnSeen, EndsSeen DEF Service!Next
<1>. QED
  BY <1>1, <1>2, <1>3 DEF Actor

----------------------------------------------------------------------------
(* The steps of the callers.                                               *)

LEMMA AskSeen ==
    ASSUME VInv, NEW c \in Clients, NEW op \in ClientOps, Submit(c, op) \/ SubmitEmergency(c, op)
    PROVE  Service!Ask(c, op)
<1>1. /\ calls[c] = "idle" /\ request' = [request EXCEPT ![c] = op]
      /\ UNCHANGED <<gate, cur, held, emergency>>
  BY DEF Submit, SubmitEmergency, Submitting, gateVars, taskVars
<1>2. ~Service!Pending(c)
  BY <1>1, VInvHas DEF Asked, Service!Pending
<1>3. /\ UNCHANGED InTurn /\ UNCHANGED ClientsOf(emergency)
      /\ cur'.client # NoClient <=> cur.client # NoClient
  BY <1>1 DEF InTurn, ClientsOf
<1>4. op \in Operations
  BY ConstantsAssumption
<1>5. CASE Submit(c, op)
  <2>1. CASE /\ Transmits(op) => gate
             /\ normal' = Append(normal, [client |-> c, op |-> op])
             /\ answer' = [answer EXCEPT ![c] = "none"]
    <3>1. ClientsOf(normal)' = Append(ClientsOf(normal), c)
      <4>1. [client |-> c, op |-> op] \in Requests
        BY <1>4 DEF Requests
      <4>2. ClientsOf(Append(normal, [client |-> c, op |-> op])) = Append(ClientsOf(normal), c)
        BY <4>1, VInvHas, ClientsOfAppend
      <4>. QED
        BY <2>1, <4>2 DEF ClientsOf
    <3>. QED
      BY <1>1, <1>2, <1>3, <1>5, <2>1, <3>1
      DEF Submit, Service!Ask, Service!MayTransmit, Transmits, Service!Transmits, IsEmergency,
          Service!IsEmergency
  <2>2. CASE UNCHANGED normal
    <3>1. UNCHANGED ClientsOf(normal)
      BY <2>2 DEF ClientsOf
    <3>2. \/ Transmits(op) /\ ~gate /\ answer' = [answer EXCEPT ![c] = "TransmitGateClosed"]
          \/ (Transmits(op) => gate) /\ answer' = [answer EXCEPT ![c] = "QueueFull"]
          \/ (Transmits(op) => gate) /\ normal' = Append(normal, [client |-> c, op |-> op])
             /\ answer' = [answer EXCEPT ![c] = "none"]
      BY <1>5 DEF Submit
    <3>3. CASE \/ Transmits(op) /\ ~gate /\ answer' = [answer EXCEPT ![c] = "TransmitGateClosed"]
               \/ (Transmits(op) => gate) /\ answer' = [answer EXCEPT ![c] = "QueueFull"]
      BY <1>1, <1>2, <1>3, <1>5, <3>1, <3>3
      DEF Submit, Service!Ask, Service!MayTransmit, Transmits, Service!Transmits, IsEmergency,
          Service!IsEmergency
    <3>. QED
      BY <2>1, <3>2, <3>3
  <2>. QED
    BY <1>5, <2>1, <2>2 DEF Submit
<1>6. CASE SubmitEmergency(c, op)
  <2>1. UNCHANGED ClientsOf(normal)
    BY <1>6 DEF SubmitEmergency, ClientsOf
  <2>. QED
    BY <1>1, <1>2, <1>3, <1>6, <2>1
    DEF SubmitEmergency, Service!Ask, IsEmergency, Service!IsEmergency
<1>. QED
  BY <1>5, <1>6

LEMMA InSubmitSeen ==
    ASSUME NEW c, NEW where, InSubmit(c, where)
    PROVE  /\ UNCHANGED <<gate, request, normal, cur, held, InTurn, ClientsOf(normal)>>
           /\ calls[c] = where /\ cur'.client # NoClient <=> cur.client # NoClient
BY DEF InSubmit, gateVars, taskVars, InTurn, ClientsOf

LEMMA SubmitSeen ==
    ASSUME VInv, NEW c \in Clients, SubmitStep(c)
    PROVE  Service!LineUp(c) \/ Service!TurnAway(c) \/ ServiceSame
<1>1. CASE SendEmergency(c)
  <2>1. calls[c] = "counted" /\ InSubmit(c, "counted") /\ UNCHANGED answer
        /\ emergency' = Append(emergency, [client |-> c, op |-> request[c]])
    BY <1>1 DEF SendEmergency, InSubmit
  <2>2. [client |-> c, op |-> request[c]] \in Requests
    BY <2>1 DEF VInv, CInv, IInv, CommandsAreReal, Requests
  <2>3. ClientsOf(Append(emergency, [client |-> c, op |-> request[c]])) = Append(ClientsOf(emergency), c)
    BY <2>2, VInvHas, ClientsOfAppend
  <2>4. ClientsOf(emergency)' = Append(ClientsOf(emergency), c)
    BY <2>1, <2>3 DEF ClientsOf
  <2>. QED
    BY <2>1, <2>4, CountedAside, InSubmitSeen DEF Service!LineUp
<1>2. CASE WakeActor(c) \/ Ride(c)
  <2>1. UNCHANGED <<answer, emergency>> /\ \E where : InSubmit(c, where)
    BY <1>2 DEF WakeActor, Ride
  <2>. QED
    BY <2>1, InSubmitSeen, SeenSame
<1>3. CASE FindEmergencyFull(c)
  <2>1. calls[c] = "counted" /\ InSubmit(c, "counted") /\ UNCHANGED emergency
    BY <1>3 DEF FindEmergencyFull, InSubmit
  <2>2. CASE IsUnkey(request[c])
    BY <1>3, <2>1, <2>2, InSubmitSeen, SeenSame DEF FindEmergencyFull
  <2>3. CASE ~IsUnkey(request[c])
    <3>1. answer' = [answer EXCEPT ![c] = "QueueFull"] /\ request[c] # "unkey"
      BY <1>3, <2>3 DEF FindEmergencyFull, IsUnkey
    <3>2. UNCHANGED ClientsOf(emergency)
      BY <2>1 DEF ClientsOf
    <3>. QED
      BY <2>1, <3>1, <3>2, CountedAside, InSubmitSeen DEF Service!TurnAway
  <2>. QED
    BY <2>2, <2>3
<1>. QED
  BY <1>1, <1>2, <1>3 DEF SubmitStep

\* What the environment does, the owner of the gate and the stop.
LEMMA EnvironmentSeen ==
    ASSUME MoveGate \/ Stop \/ Radio \/ Link \/ UNCHANGED vars
    PROVE  Service!MoveGate \/ ServiceSame
<1>1. UNCHANGED <<request, answer, emergency, normal, cur, held>>
  BY DEF MoveGate, Stop, Radio, RigExecutes, CwEnds, FrontPanel, Expire, WatchdogLapses, Link,
     StreamFails, PortLost, PortReopened, SupervisorCloses, Environment, Actors, vars, queueVars,
     callVars, taskVars
<1>2. UNCHANGED InTurn
  BY <1>1 DEF InTurn
<1>3. CASE MoveGate
  <2>1. gate' = ~gate
    BY <1>3 DEF MoveGate
  <2>2. UNCHANGED <<ClientsOf(normal), ClientsOf(emergency)>>
    BY <1>1 DEF ClientsOf
  <2>. QED
    BY <1>1, <1>2, <2>1, <2>2 DEF Service!MoveGate
<1>4. CASE Stop \/ Radio \/ Link \/ UNCHANGED vars
  <2>1. UNCHANGED gate
    BY <1>4 DEF Stop, Radio, RigExecutes, CwEnds, FrontPanel, Expire, WatchdogLapses, Link,
     StreamFails, PortLost, PortReopened, SupervisorCloses, Environment, Actors, vars, gateVars
  <2>. QED
    BY <1>1, <1>2, <2>1, SeenSame
<1>. QED
  BY <1>3, <1>4

----------------------------------------------------------------------------
(* What the refinement rests on is kept.                                   *)

\* A command that ends, or begins, leaves no idle client without its answer.
LEMMA CompleteAsks ==
    ASSUME VInv, NEW cmd, NEW result, result # "none", NEW failed, Complete(cmd, result, failed)
    PROVE  Asked' /\ NobodyRides /\ cur' = NoCommand /\ UNCHANGED request
<1>1. /\ \A c \in Clients : /\ calls'[c] \in {calls[c], "idle"}
                            /\ answer'[c] \in {answer[c], result}
                            /\ calls'[c] # calls[c] => answer'[c] = result
      /\ unkey_waiters' \subseteq unkey_waiters /\ cur' = NoCommand /\ UNCHANGED request
  BY DEF Complete
<1>. QED
  BY <1>1, VInvHas DEF Asked, NobodyRides

LEMMA BeginAsks ==
    ASSUME VInv, NEW cmd, Begin(cmd)
    PROVE  Asked' /\ NobodyRides /\ cur' \in {cmd, NoCommand} /\ UNCHANGED request
<1>1. CASE \E reason \in Refusals(cmd) : Complete(cmd, reason, FALSE)
  <2>1. "none" \notin Refusals(cmd)
    BY DEF Refusals
  <2>. QED
    BY <1>1, <2>1, CompleteAsks
<1>2. CASE cur' = cmd /\ UNCHANGED callVars
  BY <1>2, VInvHas DEF callVars, Asked, NobodyRides
<1>. QED
  BY <1>1, <1>2 DEF Begin

LEMMA GoesAsks ==
    ASSUME VInv, GoesOn \/ Ends
    PROVE  Asked' /\ NobodyRides /\ Moves /\ UNCHANGED normal
<1>1. CASE GoesOn
  BY <1>1, VInvHas DEF GoesOn, callVars, Asked, NobodyRides, Moves, Taken
<1>2. CASE Ends
  <2>1. Asked' /\ NobodyRides /\ cur' = NoCommand /\ UNCHANGED request
    BY <1>2, CompleteAsks DEF Ends
  <2>. QED
    BY <1>2, <2>1 DEF Ends, Moves, Taken
<1>. QED
  BY <1>1, <1>2

LEMMA TakesAsk ==
    ASSUME VInv, TakeEmergency \/ TakeNormal \/ ServeHeld \/ PollOnce
    PROVE  Asked' /\ NobodyRides /\ Moves
<1>1. CASE TakeEmergency
  <2>1. /\ emergency # <<>> /\ emergency' = Tail(emergency) /\ Begin(Head(emergency))
        /\ UNCHANGED <<normal, held>>
    BY <1>1 DEF TakeEmergency
  <2>. QED
    BY <2>1, BeginAsks DEF Moves, Taken, First
<1>2. CASE TakeNormal
  <2>1. /\ normal # <<>> /\ normal' = Tail(normal) /\ UNCHANGED emergency
        /\ \/ Begin(Head(normal)) /\ UNCHANGED held
           \/ held' = Head(normal) /\ cur' = Poll /\ UNCHANGED callVars
    BY <1>2 DEF TakeNormal
  <2>2. CASE Begin(Head(normal)) /\ UNCHANGED held
    BY <2>1, <2>2, BeginAsks DEF Moves, Taken, First
  <2>3. CASE held' = Head(normal) /\ cur' = Poll /\ UNCHANGED callVars
    BY <2>1, <2>3, VInvHas DEF Moves, Taken, First, callVars, Asked, NobodyRides
  <2>. QED
    BY <2>1, <2>2, <2>3
<1>3. CASE ServeHeld
  <2>1. held' = NoCommand /\ Begin(held) /\ UNCHANGED <<emergency, normal>>
    BY <1>3 DEF ServeHeld, queueVars
  <2>. QED
    BY <2>1, BeginAsks DEF Moves, Taken
<1>4. CASE PollOnce
  <2>1. Begin(Poll) /\ UNCHANGED <<emergency, normal, held>>
    BY <1>4 DEF PollOnce, queueVars
  <2>. QED
    BY <2>1, BeginAsks DEF Moves, Taken
<1>. QED
  BY <1>1, <1>2, <1>3, <1>4

LEMMA LinesStayApart ==
    ASSUME VInv, Taken(normal)
    PROVE  LinesApart'
<1>1. CASE normal' = normal
  BY <1>1, VInvHas DEF LinesApart
<1>2. CASE normal # <<>> /\ normal' = Tail(normal)
  <2>1. /\ Len(normal) \in Nat \ {0} /\ DOMAIN normal = 1..Len(normal)
        /\ DOMAIN Tail(normal) = 1..(Len(normal) - 1)
        /\ \A i \in 1..(Len(normal) - 1) : Tail(normal)[i] = normal[i + 1]
    BY <1>2, VInvHas, EmptySeq, LenProperties, HeadTailProperties
  <2>2. \A i \in 1..(Len(normal) - 1) : i + 1 \in DOMAIN normal
    BY <2>1
  <2>. QED
    BY <1>2, <2>1, <2>2, VInvHas DEF LinesApart
<1>. QED
  BY <1>1, <1>2 DEF Taken

LEMMA ActorAsks ==
    ASSUME VInv, Actor
    PROVE  Requested' /\ Asked' /\ LinesApart'
<1>1. Asked' /\ NobodyRides /\ Moves
  <2>1. CASE TakeEmergency \/ TakeNormal \/ ServeHeld \/ PollOnce
    BY <2>1, TakesAsk
  <2>2. CASE \/ Woken \/ DrainStale \/ LoseLinkServing
             \/ (\E expired \in BOOLEAN : WriteCommand(expired))
             \/ WriteTimesOut \/ AwaitReply \/ WatchdogPreempts \/ ReplyTimesOut
    BY <2>2, ServingSeen, GoesAsks
  <2>3. CASE \/ LinkStatusChanged \/ WatchdogFire \/ ReadIdle \/ LoseLinkIdle
             \/ WriteUnkey \/ UnkeyWriteFails \/ UnkeyAttemptFails \/ UnkeyAwait \/ UnkeyGivesUp
             \/ SessionStep \/ SessionAwait
    BY <2>3, OtherwiseSeen, GoesAsks
  <2>. QED
    BY <2>1, <2>2, <2>3 DEF Actor
<1>2. Requested'
  BY <1>1, VInvHas, MovesAsked
<1>3. LinesApart'
  BY <1>1, LinesStayApart DEF Moves
<1>. QED
  BY <1>1, <1>2, <1>3

LEMMA CallAsks ==
    ASSUME VInv, CInv', NEW c \in Clients, Call(c)
    PROVE  Requested' /\ Asked' /\ LinesApart'
<1>1. PICK op \in ClientOps : Submit(c, op) \/ SubmitEmergency(c, op)
  BY DEF Call
<1>2. Requested'
  <2>1. QueueTypes'
    BY DEF CInv, IInv, TypeOK
  <2>. QED
    BY <2>1, VInvHas, CallAsked
<1>3. /\ request' = [request EXCEPT ![c] = op]
      /\ request \in [Clients -> Operations \union {"none"}]
      /\ \A d \in Clients \ {c} : calls'[d] = calls[d] /\ answer'[d] = answer[d]
      /\ calls'[c] = "idle" => answer'[c] # "none"
      /\ calls'[c] = "counted" => IsEmergency(op)
  <2>1. CallTypes /\ calls[c] = "idle"
    BY <1>1, VInvHas DEF Submit, SubmitEmergency, Submitting
  <2>. QED
    BY <1>1, <2>1 DEF Submit, SubmitEmergency, Submitting, CallTypes
<1>4. Asked'
  BY <1>3, VInvHas DEF Asked
<1>5. LinesApart'
  <2>1. CASE UNCHANGED normal
    BY <2>1, VInvHas DEF LinesApart
  <2>2. CASE ~IsEmergency(op) /\ normal' = Append(normal, [client |-> c, op |-> op])
    <3>1. [client |-> c, op |-> op] \in Requests
      BY ConstantsAssumption DEF Requests
    <3>2. /\ DOMAIN normal = 1..Len(normal) /\ Len(normal) \in Nat
          /\ DOMAIN normal' = 1..(Len(normal) + 1)
          /\ \A i \in 1..Len(normal) : normal'[i] = normal[i]
          /\ normal'[Len(normal) + 1] = [client |-> c, op |-> op]
      BY <2>2, <3>1, VInvHas, AppendProperties, LenProperties
    <3>3. ASSUME NEW i \in 1..(Len(normal) + 1) PROVE ~IsEmergency(normal'[i].op)
      <4>1. i \in DOMAIN normal \/ i = Len(normal) + 1
        BY <3>2
      <4>. QED
        BY <2>2, <3>2, <4>1, VInvHas DEF LinesApart
    <3>. QED
      BY <3>2, <3>3 DEF LinesApart
  <2>. QED
    BY <1>1, <2>1, <2>2 DEF Submit, SubmitEmergency
<1>. QED
  BY <1>2, <1>4, <1>5

LEMMA SubmitAsks ==
    ASSUME VInv, NEW c \in Clients, SubmitStep(c)
    PROVE  Requested' /\ Asked' /\ LinesApart'
<1>1. Requested'
  BY VInvHas, SubmitAsked DEF CInv
<1>2. UNCHANGED <<request, normal>>
  BY DEF SubmitStep, SendEmergency, WakeActor, FindEmergencyFull, Ride, InSubmit
<1>3. /\ \A d \in Clients \ {c} : calls'[d] = calls[d] /\ answer'[d] = answer[d]
      /\ calls'[c] # "counted" /\ (calls'[c] = "idle" => answer'[c] # "none")
  BY VInvHas DEF SubmitStep, SendEmergency, WakeActor, FindEmergencyFull, Ride, InSubmit, CallTypes
<1>. QED
  BY <1>1, <1>2, <1>3, VInvHas DEF Asked, LinesApart

LEMMA VInit == Init => VInv
<1> SUFFICES ASSUME Init PROVE VInv
  OBVIOUS
<1>1. CInv
  BY CInit
<1>2. Requested /\ Asked /\ LinesApart
  BY DEF Init, Requested, AsAsked, NoCommand, Asked, LinesApart
<1>. QED
  BY <1>1, <1>2 DEF VInv

LEMMA VNext == VInv /\ [Next]_vars => VInv' /\ [Service!Next]_(Service!vars)
<1> SUFFICES ASSUME VInv, [Next]_vars PROVE VInv' /\ (Service!Next \/ ServiceSame)
  BY DEF ServiceSame
<1>1. CInv'
  BY VInvHas, CNext
<1>. SUFFICES (Requested' /\ Asked' /\ LinesApart') /\ (Service!Next \/ ServiceSame)
  BY <1>1 DEF VInv
<1>2. ASSUME NEW c \in Clients, Call(c)
      PROVE  (Requested' /\ Asked' /\ LinesApart') /\ (Service!Next \/ ServiceSame)
  BY <1>1, <1>2, CallAsks, AskSeen DEF Call, Service!Next
<1>3. ASSUME NEW c \in Clients, SubmitStep(c)
      PROVE  (Requested' /\ Asked' /\ LinesApart') /\ (Service!Next \/ ServiceSame)
  BY <1>3, SubmitAsks, SubmitSeen DEF Service!Next
<1>4. CASE Actor
  BY <1>4, ActorAsks, ActorSeen
<1>5. CASE MoveGate \/ Stop \/ Radio \/ Link \/ UNCHANGED vars
  <2>1. UNCHANGED <<calls, answer, request, unkey_waiters, normal, emergency, cur, held>>
    BY <1>5 DEF MoveGate, Stop, Radio, RigExecutes, CwEnds, FrontPanel, Expire, WatchdogLapses, Link,
     StreamFails, PortLost, PortReopened, SupervisorCloses, Environment, Actors, vars, queueVars,
     callVars, taskVars
  <2>2. Requested' /\ Asked' /\ LinesApart'
    BY <2>1, VInvHas DEF Requested, AsAsked, Asked, LinesApart
  <2>. QED
    BY <1>5, <2>2, EnvironmentSeen DEF Service!Next
<1>. QED
  BY <1>2, <1>3, <1>4, <1>5 DEF Next

\* What callers are promised (rig.rs, the module's description) is kept by submit, the
\* queues, the riding requests, the reserved poll, retries, preemption, the fail-closed
\* unkey and the link: each step of the actor and of its callers is one that the
\* service allows, or one that callers cannot see.
THEOREM ImplementsService == Spec => ServiceKept
<1>1. Init => Service!Init
  BY ClientsOfNone, ConstantsAssumption DEF Init, Service!Init, InTurn, NoCommand
<1>. QED
  BY <1>1, VInit, VNext, PTL DEF Spec, ServiceKept, Service!Spec
=============================================================================
