--------------------------- MODULE NetLinkProofs ---------------------------
(***************************************************************************)
(* For every size of the stream, every number of first attempts and of     *)
(* faults: the requests of the network link add up, those that an attempt  *)
(* cut short by the shutdown forgets included, and it takes no step that   *)
(* the Link contract forbids.                                              *)
(***************************************************************************)
EXTENDS NetLink, TLAPS

LEMMA NextActions == Next <=>
    \/ CallerWrites \/ CallerReads \/ CallerDrops
    \/ Dial \/ HandshakeDone \/ AttemptDrops \/ AttemptSeesEnd \/ AttemptSucceeds \/ AttemptFails
    \/ FirstFails \/ PublishReconnecting \/ SleepDrops \/ SleepEnds \/ CloseLink
    \/ SessionReads \/ SessionWrites \/ SessionSeesEnd \/ SessionFails
BY DEF Next, Caller, Supervisor, Attempt, Run, Session

----------------------------------------------------------------------------
(* Types.                                                                  *)

\* The flags by Zenon, the rest by SMT.
FlagTypes == held \in BOOLEAN /\ given \in BOOLEAN /\ first \in BOOLEAN

LEMMA InitTypes == Init => TypeOK
<1> SUFFICES ASSUME Init PROVE TypeOK
  OBVIOUS
<1>1. FlagTypes
  BY Zenon DEF Init, FlagTypes
<1>. QED
  BY <1>1, NetAssumption DEF NetAssumption, Init, TypeOK, FlagTypes

LEMMA CallerTypes == TypeOK /\ Caller => TypeOK'
<1> SUFFICES ASSUME TypeOK, Caller PROVE TypeOK'
  OBVIOUS
<1> USE DEF Caller, CallerWrites, CallerReads, CallerDrops, CallerUnchanged, runVars
<1>1. FlagTypes'
  BY Zenon DEF TypeOK, FlagTypes
<1>. QED
  BY <1>1, NetAssumption
     DEF NetAssumption, TypeOK, FlagTypes, statusVars, countVars

LEMMA AttemptTypes == TypeOK /\ Attempt => TypeOK'
<1> SUFFICES ASSUME TypeOK, Attempt PROVE TypeOK'
  OBVIOUS
<1> USE NetAssumption DEF NetAssumption, TypeOK, AttemptUnchanged, callerVars, runVars, statusVars,
                          countVars, CountDropped
<1>1. CASE Dial \/ HandshakeDone \/ AttemptDrops
  BY <1>1 DEF Dial, HandshakeDone, AttemptDrops
<1>2. CASE AttemptSeesEnd \/ AttemptFails
  BY <1>2 DEF AttemptSeesEnd, AttemptFails
<1>3. CASE AttemptSucceeds
  <2>1. FlagTypes'
    BY <1>3, Zenon DEF AttemptSucceeds, FlagTypes
  <2>. QED
    BY <1>3, <2>1 DEF AttemptSucceeds, FlagTypes
<1>. QED
  BY <1>1, <1>2, <1>3 DEF Attempt

LEMMA RunTypes == TypeOK /\ Run => TypeOK'
<1> SUFFICES ASSUME TypeOK, Run PROVE TypeOK'
  OBVIOUS
<1> USE DEF Run, FirstFails, PublishReconnecting, SleepDrops, SleepEnds, CloseLink, RunUnchanged,
            callerVars, runVars
<1>1. FlagTypes'
  BY Zenon DEF TypeOK, FlagTypes
<1>. QED
  BY <1>1, NetAssumption
     DEF NetAssumption, TypeOK, FlagTypes, NextFailure, statusVars, countVars

LEMMA SessionTypes == TypeOK /\ Session => TypeOK'
<1> SUFFICES ASSUME TypeOK, Session PROVE TypeOK'
  OBVIOUS
<1> USE NetAssumption DEF NetAssumption, TypeOK, SessionUnchanged, callerVars, runVars, statusVars, EndSession,
                          StaySession
<1>1. CASE SessionReads
  BY <1>1 DEF SessionReads
<1>2. CASE SessionWrites
  BY <1>2 DEF SessionWrites
<1>3. CASE SessionSeesEnd \/ SessionFails
  BY <1>3 DEF SessionSeesEnd, SessionFails
<1>. QED
  BY <1>1, <1>2, <1>3 DEF Session

LEMMA NextTypes == TypeOK /\ [Next]_vars => TypeOK'
<1>1. TypeOK /\ UNCHANGED vars => TypeOK'
  BY DEF TypeOK, vars, callerVars, runVars, statusVars, countVars
<1>. QED
  BY <1>1, CallerTypes, AttemptTypes, RunTypes, SessionTypes DEF Next, Supervisor

\* Every variable keeps its type, the stream its size (TypeOK).
THEOREM TypeCorrect == Spec => []TypeOK
<1>. QED
  BY InitTypes, NextTypes, PTL DEF Spec

----------------------------------------------------------------------------
(* The accounts.                                                           *)

LEMMA AccountsStep == TypeOK /\ WritesAccounted /\ [Next]_vars => WritesAccounted'
<1> SUFFICES ASSUME TypeOK, WritesAccounted, [Next]_vars PROVE WritesAccounted'
  OBVIOUS
<1> USE DEF TypeOK, WritesAccounted, callerVars, runVars, statusVars, countVars
<1>1. CASE Caller
  <2>1. CASE CallerWrites
    BY <2>1 DEF CallerWrites, CallerUnchanged
  <2>2. CASE CallerReads \/ CallerDrops
    BY <2>2 DEF CallerReads, CallerDrops, CallerUnchanged
  <2>. QED
    BY <1>1, <2>1, <2>2 DEF Caller
<1>2. CASE Attempt
  <2>1. CASE Dial \/ HandshakeDone \/ AttemptDrops
    BY <2>1 DEF Dial, HandshakeDone, AttemptDrops, AttemptUnchanged
  <2>2. CASE AttemptSeesEnd
    BY <2>2 DEF AttemptSeesEnd, AttemptUnchanged, Ended
  <2>3. CASE AttemptSucceeds \/ AttemptFails
    BY <2>3 DEF AttemptSucceeds, AttemptFails, AttemptUnchanged, CountDropped
  <2>. QED
    BY <1>2, <2>1, <2>2, <2>3 DEF Attempt
<1>3. CASE Run
  BY <1>3 DEF Run, FirstFails, PublishReconnecting, SleepDrops, SleepEnds, CloseLink, RunUnchanged
<1>4. CASE Session
  <2> USE DEF SessionUnchanged, EndSession, StaySession
  <2>1. CASE SessionReads
    BY <2>1 DEF SessionReads
  <2>2. CASE SessionWrites
    BY <2>2 DEF SessionWrites
  <2>3. CASE SessionSeesEnd \/ SessionFails
    BY <2>3 DEF SessionSeesEnd, SessionFails
  <2>. QED
    BY <1>4, <2>1, <2>2, <2>3 DEF Session
<1>5. CASE UNCHANGED vars
  BY <1>5 DEF vars
<1>. QED
  BY <1>1, <1>2, <1>3, <1>4, <1>5 DEF Next, Supervisor

\* The requests written are those sent, dropped and counted, still in the stream, held
\* by the running attempt, and those that nobody counts: dropped by an attempt that
\* the caller's going cut short, and by nothing else (WritesAccounted).
THEOREM RequestsAddUp == Spec => []WritesAccounted
<1>1. Init => WritesAccounted
  BY DEF Init, WritesAccounted
<1>. QED
  BY <1>1, AccountsStep, TypeCorrect, PTL DEF Spec

----------------------------------------------------------------------------
(* The contract.                                                           *)

\* Where the supervisor stands, against the status that it has published.
StatusFollows ==
    /\ pc \in {"attempt", "sleep"} => status = "Reconnecting"
    /\ pc = "session" => status = "Connected"
    /\ pc = "ended" => status = "Closed"
    /\ status = "Closed" => pc = "ended"
    /\ status = "Connected" /\ pc = "failed" => failures = 0
    /\ pc = "session" => failures = 0
    /\ pc \notin {"closing", "ended"} => attempt = failures
    /\ opens = generation /\ (first => generation = 0)
    /\ pc \in {"closing", "ended"} /\ held => generation = 0

LEMMA StatusStep == TypeOK /\ StatusFollows /\ [Next]_vars => StatusFollows'
<1> SUFFICES ASSUME TypeOK, StatusFollows, [Next]_vars PROVE StatusFollows'
  OBVIOUS
<1> USE DEF TypeOK, StatusFollows, callerVars, runVars, statusVars
<1>1. CASE Caller
  BY <1>1 DEF Caller, CallerWrites, CallerReads, CallerDrops, CallerUnchanged
<1>2. CASE Attempt
  <2>1. CASE Dial \/ HandshakeDone \/ AttemptDrops
    BY <2>1 DEF Dial, HandshakeDone, AttemptDrops, AttemptUnchanged
  <2>2. CASE AttemptSeesEnd \/ AttemptFails
    BY <2>2 DEF AttemptSeesEnd, AttemptFails, AttemptUnchanged, Ended
  <2>3. CASE AttemptSucceeds
    BY <2>3 DEF AttemptSucceeds
  <2>. QED
    BY <1>2, <2>1, <2>2, <2>3 DEF Attempt
<1>3. CASE Run
  <2>1. CASE FirstFails
    BY <2>1 DEF FirstFails, GivesUp, NextFailure, RunUnchanged
  <2>2. CASE PublishReconnecting
    BY <2>2 DEF PublishReconnecting, NextFailure, RunUnchanged
  <2>3. CASE SleepDrops \/ SleepEnds
    BY <2>3 DEF SleepDrops, SleepEnds, Ended, RunUnchanged
  <2>4. CASE CloseLink
    BY <2>4 DEF CloseLink, RunUnchanged
  <2>. QED
    BY <1>3, <2>1, <2>2, <2>3, <2>4 DEF Run
<1>4. CASE Session
  BY <1>4 DEF Session, SessionReads, SessionWrites, SessionSeesEnd, SessionFails, SessionUnchanged,
              EndSession, StaySession, Ended
<1>5. CASE UNCHANGED vars
  BY <1>5 DEF vars
<1>. QED
  BY <1>1, <1>2, <1>3, <1>4, <1>5 DEF Next, Supervisor

LEMMA ContractStep == TypeOK /\ StatusFollows /\ [Next]_vars => [Contract!Next]_(Contract!vars)
<1> SUFFICES ASSUME TypeOK, StatusFollows, [Next]_vars
             PROVE  Contract!Next \/ UNCHANGED Contract!vars
  OBVIOUS
<1> USE DEF TypeOK, StatusFollows, callerVars, statusVars, Contract!Next, Contract!vars
<1>1. CASE CallerWrites \/ CallerReads
  BY <1>1 DEF CallerWrites, CallerReads, CallerUnchanged
<1>2. CASE CallerDrops
  BY <1>2 DEF CallerDrops, CallerUnchanged, Contract!Drop
<1>3. CASE Dial \/ HandshakeDone \/ AttemptDrops \/ AttemptSeesEnd \/ AttemptFails
  BY <1>3 DEF Dial, HandshakeDone, AttemptDrops, AttemptSeesEnd, AttemptFails, AttemptUnchanged
<1>4. CASE AttemptSucceeds
  BY <1>4 DEF AttemptSucceeds, Contract!Open
<1>5. CASE PublishReconnecting
  BY <1>5 DEF PublishReconnecting, NextFailure, RunUnchanged, Contract!Lose, Contract!Retry
<1>6. CASE FirstFails \/ SleepDrops \/ SleepEnds
  BY <1>6 DEF FirstFails, SleepDrops, SleepEnds, RunUnchanged
<1>7. CASE CloseLink
  BY <1>7 DEF CloseLink, RunUnchanged, Contract!Close
<1>8. CASE Session
  BY <1>8 DEF Session, SessionReads, SessionWrites, SessionSeesEnd, SessionFails, SessionUnchanged
<1>9. CASE UNCHANGED vars
  BY <1>9 DEF vars
<1>. QED
  BY <1>1, <1>2, <1>3, <1>4, <1>5, <1>6, <1>7, <1>8, <1>9, NextActions DEF Session

\* Every step of the network link is a step of the Link contract or none of it: a
\* generation per connection, failures counted from one, and no giving up once it
\* was connected while its caller is there (the safety part of LinkContract).
THEOREM KeepsTheContract == Spec => Contract!Spec
<1>1. Init => StatusFollows /\ Contract!Init
  BY DEF Init, StatusFollows, Contract!Init
<1>. QED
  BY <1>1, StatusStep, ContractStep, TypeCorrect, PTL DEF Spec, Contract!Spec
=============================================================================
