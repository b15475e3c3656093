--------------------------- MODULE SplitterProofs ---------------------------
(***************************************************************************)
(* The splitter's claims are exact: a request to transmit is its owner's,  *)
(* and a refused request holds nothing, for any number of programs.        *)
(***************************************************************************)
EXTENDS Splitter, TLAPS

\* What an owner whose task is busy is doing: a request to transmit that is not
\* answered, or was answered as recorded; or another request, after one to
\* transmit that was done.  A client on its way out has given its claim up.
OwnerIsEarning ==
    \A c \in Clients : owner = c =>
        /\ task[c] \notin {"resetting", "ending"}
        /\ task[c] = "asked" /\ Transmits(request[c]) => c \in pending \/ last_claim[c] = outcome[c]
        /\ task[c] = "asked" /\ ~Transmits(request[c]) => last_claim[c] = "Done"

IInv == TypeOK /\ OneTransmitter /\ RefusedKeyHoldsNothing /\ OwnerIsEarning

LEMMA InitInv == Init => IInv
BY SplitterAssumption
   DEF Init, IInv, TypeOK, OneTransmitter, RefusedKeyHoldsNothing, OwnerIsEarning

LEMMA RequestStep ==
    ASSUME IInv, NEW c \in Clients, NEW op \in ClientOps, Request(c, op)
    PROVE  IInv'
<1> USE SplitterAssumption DEF IInv, Request, Ask, MayKey, boundVars, rigVars, programVars
<1>1. TypeOK'
  BY DEF TypeOK
<1>2. OneTransmitter'
  BY DEF TypeOK, OneTransmitter
<1>3. RefusedKeyHoldsNothing'
  BY DEF TypeOK, RefusedKeyHoldsNothing
<1>4. OwnerIsEarning'
  BY DEF TypeOK, OwnerIsEarning, RefusedKeyHoldsNothing
<1>. QED
  BY <1>1, <1>2, <1>3, <1>4

LEMMA ReadStep ==
    ASSUME IInv, NEW c \in Clients, Read(c)
    PROVE  IInv'
<1> USE DEF IInv, Read, Ask, boundVars, rigVars, programVars
<1>1. TypeOK'
  BY DEF TypeOK
<1>2. OneTransmitter'
  BY DEF TypeOK, OneTransmitter, Transmits
<1>3. RefusedKeyHoldsNothing'
  BY DEF TypeOK, RefusedKeyHoldsNothing
<1>4. OwnerIsEarning'
  BY DEF TypeOK, OwnerIsEarning, RefusedKeyHoldsNothing, Transmits
<1>. QED
  BY <1>1, <1>2, <1>3, <1>4

LEMMA SettleStep ==
    ASSUME IInv, NEW c \in Clients, Settle(c)
    PROVE  IInv'
<1> USE SplitterAssumption DEF IInv, Settle, Answered, OwnerAfter, Released, boundVars, rigVars, programVars
<1>1. TypeOK'
  BY DEF TypeOK
<1>2. OneTransmitter'
  BY DEF TypeOK, OneTransmitter
<1>3. RefusedKeyHoldsNothing'
  BY DEF TypeOK, RefusedKeyHoldsNothing, OwnerIsEarning
<1>4. OwnerIsEarning'
  BY DEF TypeOK, OwnerIsEarning
<1>. QED
  BY <1>1, <1>2, <1>3, <1>4

\* A client goes that owned the transmitter.
LEMMA OwnerLeaves ==
    ASSUME IInv, NEW c \in Clients, task[c] \in {"idle", "replying"}, owner = c,
           NEW where \in {"resetting", "ending"}, Cleanup(c, where)
    PROVE  IInv'
<1> USE SplitterAssumption DEF IInv
<1>1. /\ owner' = NoOwner /\ Ask(c, "unkey", where)
      /\ left_owning' = left_owning \union {c}
      /\ UNCHANGED <<programVars, rigVars, boundVars, last_claim, displaced>>
  BY DEF Cleanup, Released
<1>2. TypeOK'
  BY <1>1 DEF TypeOK, Ask, rigVars, boundVars, programVars
<1>3. OneTransmitter'
  BY <1>1 DEF TypeOK, OneTransmitter, Ask, Transmits
<1>4. RefusedKeyHoldsNothing' /\ OwnerIsEarning'
  BY <1>1 DEF RefusedKeyHoldsNothing, OwnerIsEarning
<1>. QED
  BY <1>2, <1>3, <1>4

\* A client ends that has no claim and no request on its way.
LEMMA OtherLeaves ==
    ASSUME IInv, NEW c \in Clients, c \notin pending, owner # c,
           NEW where, task' = [task EXCEPT ![c] = After(where)],
           UNCHANGED <<owner, request, pending, outcome, programVars, rigVars, boundVars,
                       last_claim, displaced, left_owning>>
    PROVE  IInv'
<1> USE DEF IInv
<1>1. TypeOK'
  BY DEF TypeOK, After, rigVars, boundVars, programVars
<1>2. OneTransmitter' /\ RefusedKeyHoldsNothing' /\ OwnerIsEarning'
  BY DEF TypeOK, OneTransmitter, RefusedKeyHoldsNothing, OwnerIsEarning
<1>. QED
  BY <1>1, <1>2

LEMMA LeaveStep ==
    ASSUME IInv, NEW c \in Clients, Leave(c) \/ End(c) \/ Left(c)
    PROVE  IInv'
<1>1. CASE Left(c)
  <2>1. c \notin pending /\ owner # c
    BY <1>1 DEF Left, IInv, OwnerIsEarning
  <2>. QED
    BY <1>1, <2>1, OtherLeaves DEF Left
<1>2. CASE Leave(c) \/ End(c)
  <2>1. PICK where \in {"resetting", "ending"} : Cleanup(c, where)
    BY <1>2 DEF Leave, End
  <2>2. task[c] \in {"idle", "replying"} /\ c \notin pending
    BY <1>2 DEF Leave, End, IInv, TypeOK
  <2>3. CASE owner = c
    BY <2>1, <2>2, <2>3, OwnerLeaves
  <2>4. CASE owner # c
    BY <2>1, <2>2, <2>4, OtherLeaves DEF Cleanup, Released
  <2>. QED
    BY <2>3, <2>4
<1>. QED
  BY <1>1, <1>2

LEMMA ReplyStep ==
    ASSUME IInv, NEW c \in Clients, Reply(c) \/ StopsReading(c) \/ FallsSilent(c)
    PROVE  IInv'
<1> USE DEF IInv, Reply, StopsReading, FallsSilent, taskVars, boundVars, rigVars, programVars
<1>1. TypeOK'
  BY DEF TypeOK
<1>2. OneTransmitter' /\ RefusedKeyHoldsNothing' /\ OwnerIsEarning'
  BY DEF TypeOK, OneTransmitter, RefusedKeyHoldsNothing, OwnerIsEarning
<1>. QED
  BY <1>1, <1>2

LEMMA AbortStep ==
    ASSUME IInv, NEW c \in Clients, Abort(c)
    PROVE  IInv'
<1> USE DEF IInv, Abort, rigVars, programVars
<1>1. TypeOK'
  BY DEF TypeOK
<1>2. OneTransmitter' /\ RefusedKeyHoldsNothing' /\ OwnerIsEarning'
  BY DEF TypeOK, OneTransmitter, RefusedKeyHoldsNothing, OwnerIsEarning
<1>. QED
  BY <1>1, <1>2

\* The rig answers: the claim stays as it was until the task goes on.
LEMMA AnswerStep ==
    ASSUME IInv, NEW c \in pending, NEW result \in {"Done", "Refused"}, Answer(c, result),
           tx' \subseteq {"ptt", "cw"}, sounding' \in [Clients -> SUBSET {"ptt", "cw"}],
           faults' \in Nat
    PROVE  IInv'
<1> USE DEF IInv, Answer, programVars
<1>1. TypeOK'
  BY DEF TypeOK
<1>2. OneTransmitter'
  BY DEF TypeOK, OneTransmitter
<1>3. RefusedKeyHoldsNothing' /\ OwnerIsEarning'
  BY DEF TypeOK, RefusedKeyHoldsNothing, OwnerIsEarning
<1>. QED
  BY <1>1, <1>2, <1>3

\* Whatever the transmitter changes to, what clients are credited with is of its type.
LEMMA OnAirType ==
    ASSUME TypeOK, NEW c, NEW new \in SUBSET {"ptt", "cw"}, NEW added \in SUBSET {"ptt", "cw"},
           OnAir(c, new, added)
    PROVE  tx' \subseteq {"ptt", "cw"} /\ sounding' \in [Clients -> SUBSET {"ptt", "cw"}]
BY DEF TypeOK, OnAir

LEMMA ServeStep ==
    ASSUME IInv, NEW c \in Clients, Serve(c)
    PROVE  IInv'
<1> USE DEF IInv
<1>1. /\ Effect(request[c]) \in SUBSET {"ptt", "cw"} /\ Adds(request[c]) \in SUBSET {"ptt", "cw"}
      /\ {} \in SUBSET {"ptt", "cw"}
  BY DEF TypeOK, Effect, Adds
<1>2. /\ c \in pending /\ \E result \in {"Done", "Refused"} : Answer(c, result)
      /\ faults' \in Nat
  BY DEF Serve, Execute, Refuse, Cancel, TypeOK
<1>3. tx' \subseteq {"ptt", "cw"} /\ sounding' \in [Clients -> SUBSET {"ptt", "cw"}]
  <2>1. CASE UNCHANGED rigVars
    BY <2>1 DEF TypeOK, rigVars
  <2>2. CASE \/ OnAir(c, Effect(request[c]), Adds(request[c]))
             \/ OnAir(c, Effect(request[c]), {})
             \/ OnAir(c, {}, {})
    BY <1>1, <2>2, OnAirType
  <2>. QED
    BY <2>1, <2>2 DEF Serve, Execute, Refuse, Cancel
<1>. QED
  BY <1>2, <1>3, AnswerStep

LEMMA QuietStep ==
    ASSUME IInv, FallsQuiet
    PROVE  IInv'
<1> USE DEF IInv, FallsQuiet, taskVars, boundVars, programVars
<1>1. tx' \subseteq {"ptt", "cw"} /\ sounding' \in [Clients -> SUBSET {"ptt", "cw"}]
  <2>1. PICK new \in {{}, tx \ {"cw"}} : OnAir(NoOwner, new, {})
    OBVIOUS
  <2>2. new \in SUBSET {"ptt", "cw"} /\ {} \in SUBSET {"ptt", "cw"}
    BY DEF TypeOK
  <2>. QED
    BY <2>1, <2>2, OnAirType
<1>2. TypeOK'
  BY <1>1 DEF TypeOK
<1>3. OneTransmitter' /\ RefusedKeyHoldsNothing' /\ OwnerIsEarning'
  BY DEF OneTransmitter, RefusedKeyHoldsNothing, OwnerIsEarning
<1>. QED
  BY <1>2, <1>3

LEMMA NextInv == IInv /\ [Next]_vars => IInv'
<1> SUFFICES ASSUME IInv, [Next]_vars PROVE IInv'
  OBVIOUS
<1>1. ASSUME NEW c \in Clients, Client(c) PROVE IInv'
  BY <1>1, RequestStep, ReadStep, SettleStep, LeaveStep, ReplyStep, AbortStep DEF Client
<1>2. ASSUME NEW c \in Clients, Serve(c) PROVE IInv'
  BY <1>2, ServeStep
<1>3. CASE FallsQuiet
  BY <1>3, QuietStep
<1>4. CASE UNCHANGED vars
  BY <1>4 DEF IInv, TypeOK, OneTransmitter, RefusedKeyHoldsNothing, OwnerIsEarning,
              vars, taskVars, rigVars, boundVars, programVars
<1>. QED
  BY <1>1, <1>2, <1>3, <1>4 DEF Next

\* The state of the arbiter, the sessions and the rig is well formed, for any number
\* of programs (arbiter.rs, session.rs).
THEOREM TypeCorrect == Spec => []TypeOK
<1>1. IInv => TypeOK
  BY DEF IInv
<1>. QED
  BY <1>1, InitInv, NextInv, PTL DEF Spec

\* A request to transmit on its way to the rig is the owner's, unless an unkey
\* cleared its claim (session.rs key, send_cw, execute; arbiter.rs).
THEOREM OneTransmitterHolds == Spec => []OneTransmitter
<1>1. IInv => OneTransmitter
  BY DEF IInv
<1>. QED
  BY <1>1, InitInv, NextInv, PTL DEF Spec

\* A refused request to transmit, and a program that is gone, hold no claim
\* (session.rs key, send_cw, cleanup).
THEOREM RefusedHoldsNothing == Spec => []RefusedKeyHoldsNothing
<1>1. IInv => RefusedKeyHoldsNothing
  BY DEF IInv
<1>. QED
  BY <1>1, InitInv, NextInv, PTL DEF Spec

----------------------------------------------------------------------------
(* The departure of an owner.                                              *)

\* The last request of an owner that left is its unkey; once that was done,
\* nothing the client was acknowledged is on the air.
LeftQuiet ==
    \A c \in left_owning :
        request[c] = "unkey" /\ (outcome[c] = "Done" => sounding[c] = {})

\* The rig answers `c`: an unkey leaves nothing of anybody's, and whatever else
\* it does adds nothing to another client.
LEMMA ServeQuiet ==
    ASSUME TypeOK, LeftQuiet, NEW c \in Clients, Serve(c)
    PROVE  LeftQuiet'
<1> USE DEF TypeOK, LeftQuiet
<1>0. c \in pending /\ UNCHANGED <<request, left_owning>>
      /\ \E result \in {"Done", "Refused"} : outcome' = [outcome EXCEPT ![c] = result]
  BY DEF Serve, Execute, Refuse, Cancel, Answer
<1>1. CASE Execute(c)
  <2>1. request[c] = "unkey" => sounding'[c] = {}
    BY <1>1 DEF Execute, OnAir, Effect, Adds
  <2>2. \A d \in Clients \ {c} : sounding'[d] \subseteq sounding[d]
    BY <1>1 DEF Execute, OnAir
  <2>. QED
    BY <1>0, <2>1, <2>2
<1>2. CASE Refuse(c) \/ Cancel(c)
  <2>1. \A d \in Clients : sounding'[d] \subseteq sounding[d]
    BY <1>2 DEF Refuse, Cancel, OnAir, rigVars
  <2>2. outcome' = [outcome EXCEPT ![c] = "Refused"]
    BY <1>2 DEF Refuse, Cancel, Answer
  <2>. QED
    BY <1>0, <2>1, <2>2
<1>. QED
  BY <1>1, <1>2 DEF Serve

LEMMA ClientQuiet ==
    ASSUME TypeOK, LeftQuiet, NEW c \in Clients, Client(c)
    PROVE  LeftQuiet'
<1> USE DEF TypeOK, LeftQuiet
<1>1. ASSUME NEW op \in ClientOps, Request(c, op) PROVE LeftQuiet'
  BY <1>1 DEF Request, Ask, rigVars
<1>4. CASE Read(c)
  BY <1>4 DEF Read, Ask, rigVars
<1>2. CASE Settle(c) \/ Reply(c) \/ Left(c) \/ Abort(c) \/ StopsReading(c) \/ FallsSilent(c)
  BY <1>2 DEF Settle, Reply, Left, Abort, StopsReading, FallsSilent, rigVars, taskVars
<1>3. ASSUME NEW where, Cleanup(c, where) PROVE LeftQuiet'
  BY <1>3 DEF Cleanup, Ask, rigVars
<1>. QED
  BY <1>1, <1>2, <1>3, <1>4 DEF Client, Leave, End

LEMMA QuietKept == TypeOK /\ LeftQuiet /\ [Next]_vars => LeftQuiet'
<1> SUFFICES ASSUME TypeOK, LeftQuiet, [Next]_vars PROVE LeftQuiet'
  OBVIOUS
<1>1. CASE FallsQuiet
  <2>1. \A d \in Clients : sounding'[d] \subseteq sounding[d]
    BY <1>1, SplitterAssumption DEF FallsQuiet, OnAir
  <2>. QED
    BY <1>1, <2>1 DEF FallsQuiet, taskVars, TypeOK, LeftQuiet
<1>2. CASE UNCHANGED vars
  BY <1>2 DEF vars, taskVars, rigVars, LeftQuiet
<1>. QED
  BY <1>1, <1>2, ServeQuiet, ClientQuiet DEF Next

\* An owner that left, and whose unkey was done, keeps nothing on the air, however
\* the unkeys and keys of the others fall in between (cleanup).
THEOREM OwnerGoneHolds == Spec => []OwnerGoneIsQuiet
<1>1. Init => LeftQuiet
  BY DEF Init, LeftQuiet
<1>2. LeftQuiet => OwnerGoneIsQuiet
  BY DEF LeftQuiet, OwnerGoneIsQuiet
<1>. QED
  BY <1>1, <1>2, QuietKept, TypeCorrect, PTL DEF Spec
=============================================================================
