------------------------------- MODULE NetLink -------------------------------
(***************************************************************************)
(* The network link of radioctl-core (net.rs): one supervisor task between *)
(* the byte stream of the rig actor and a TCP or UDP wire.  An attempt     *)
(* dials, greets and shakes hands while requests are dropped; a session    *)
(* carries both directions, with bounded writes.                           *)
(*                                                                         *)
(* The stream is two counts: requests on their way to the wire and chunks  *)
(* on their way to the caller.  A timeout may strike at any moment at      *)
(* which its clock runs.                                                   *)
(***************************************************************************)
EXTENDS Integers

CONSTANTS
    StreamSize,     \* STREAM_BYTES, in requests or chunks
    FirstAttempts,  \* NetConfig::first_attempts
    Writes,         \* bound: requests the caller writes
    Reads,          \* bound: chunks the wires deliver
    Faults          \* bound: attempts, writes and wires that fail

ASSUME NetAssumption ==
    /\ StreamSize \in Nat \ {0} /\ FirstAttempts \in Nat \ {0}
    /\ Writes \in Nat /\ Reads \in Nat /\ Faults \in Nat

VARIABLES
    held, given,       \* the caller has its end, once open_link returned
    upstream, downstream, \* the stream, towards the wire and towards the caller
    pc,                \* where the supervisor stands
    wire,              \* the wire: "none", "dialled", "ready"
    failures, opens,   \* run's failures and generation
    dropping,          \* what the attempt has dropped and not yet counted
    first,             \* the caller of open_link is not answered yet
    status, generation, attempt, \* LinkStatus
    \* counters, bounds and history
    bytes_out, bytes_dropped, lost_chunks, uncounted,
    written, chunks, faults

callerVars == <<held, given, written>>
statusVars == <<status, generation, attempt>>
countVars  == <<bytes_out, bytes_dropped, lost_chunks, uncounted>>
runVars    == <<failures, opens, first>>

vars == <<callerVars, upstream, downstream, pc, wire, runVars, dropping, statusVars,
          countVars, chunks, faults>>

----------------------------------------------------------------------------
(* The caller (the rig actor).                                             *)

CallerUnchanged == <<pc, wire, runVars, dropping, statusVars, countVars, chunks, faults>>

CallerWrites ==
    /\ held /\ given /\ written < Writes /\ upstream < StreamSize
    /\ upstream' = upstream + 1 /\ written' = written + 1
    /\ UNCHANGED <<held, given, downstream, CallerUnchanged>>

CallerReads ==
    /\ held /\ given /\ downstream > 0
    /\ downstream' = downstream - 1
    /\ UNCHANGED <<held, given, written, upstream, CallerUnchanged>>

CallerDrops ==
    /\ held /\ held' = FALSE /\ downstream' = 0
    /\ UNCHANGED <<given, written, upstream, CallerUnchanged>>

Ended == upstream = 0 /\ ~held

----------------------------------------------------------------------------
(* An attempt: open_and_handshake, raced with reads of the stream.         *)

AttemptUnchanged == <<callerVars, downstream, runVars, statusVars, chunks>>

Dial ==
    /\ pc = "attempt" /\ wire = "none"
    /\ wire' = "dialled"
    /\ UNCHANGED <<AttemptUnchanged, upstream, pc, dropping, countVars, faults>>

\* framing.reset, then the greeting; a payload may come with the last answer.
HandshakeDone ==
    /\ pc = "attempt" /\ wire = "dialled"
    /\ wire' = "ready"
    /\ UNCHANGED <<AttemptUnchanged, upstream, pc, dropping, countVars, faults>>

AttemptDrops ==
    /\ pc = "attempt" /\ upstream > 0
    /\ upstream' = upstream - 1 /\ dropping' = dropping + 1
    /\ UNCHANGED <<AttemptUnchanged, pc, wire, countVars, faults>>

\* AttemptEnd::Shutdown: what the attempt dropped is not added up.
AttemptSeesEnd ==
    /\ pc = "attempt" /\ Ended
    /\ pc' = "closing" /\ wire' = "none"
    /\ uncounted' = uncounted + dropping /\ dropping' = 0
    /\ UNCHANGED <<AttemptUnchanged, upstream, bytes_out, bytes_dropped, lost_chunks, faults>>

\* Seeded fault: what the attempt dropped is forgotten.
ForgetDropped == dropping' = 0 /\ UNCHANGED bytes_dropped

CountDropped == bytes_dropped' = bytes_dropped + dropping /\ dropping' = 0

AttemptSucceeds ==
    /\ pc = "attempt" /\ wire = "ready"
    /\ CountDropped
    /\ pc' = "session"
    /\ failures' = 0 /\ opens' = opens + 1 /\ first' = FALSE
    /\ status' = "Connected" /\ generation' = opens' /\ attempt' = 0
    /\ given' = (given \/ held)
    /\ UNCHANGED <<held, written, upstream, downstream, wire, bytes_out,
                   lost_chunks, uncounted, chunks, faults>>

\* Refused, timed out, or closed while shaking hands.
AttemptFails ==
    /\ pc = "attempt" /\ faults < Faults
    /\ faults' = faults + 1
    /\ CountDropped
    /\ wire' = "none" /\ pc' = "failed"
    /\ UNCHANGED <<AttemptUnchanged, upstream, bytes_out, lost_chunks, uncounted>>

----------------------------------------------------------------------------
(* Between attempts (Supervisor::run).                                     *)

RunUnchanged == <<callerVars, upstream, downstream, wire, dropping, countVars, chunks, faults>>

NextFailure == failures + 1

\* Seeded fault: the limit of the first attempts holds for every attempt.
GivesUpAlways == NextFailure >= FirstAttempts

GivesUp == first /\ NextFailure >= FirstAttempts

FirstFails ==
    /\ pc = "failed" /\ GivesUp
    /\ pc' = "closing" /\ failures' = NextFailure /\ first' = FALSE
    /\ UNCHANGED <<RunUnchanged, opens, statusVars>>

PublishReconnecting ==
    /\ pc = "failed" /\ ~GivesUp
    /\ pc' = "sleep" /\ failures' = NextFailure
    /\ status' = "Reconnecting" /\ attempt' = failures'
    /\ UNCHANGED <<RunUnchanged, opens, first, generation>>

SleepDrops ==
    /\ pc = "sleep" /\ upstream > 0
    /\ upstream' = upstream - 1 /\ bytes_dropped' = bytes_dropped + 1
    /\ UNCHANGED <<callerVars, downstream, pc, wire, runVars, dropping, statusVars, bytes_out,
                   lost_chunks, uncounted, chunks, faults>>

\* The delay is over, or the stream is seen to have ended.
SleepEnds ==
    /\ pc = "sleep"
    /\ \/ pc' = "attempt"
       \/ Ended /\ pc' = "closing"
    /\ UNCHANGED <<RunUnchanged, runVars, statusVars>>

CloseLink ==
    /\ pc = "closing"
    /\ pc' = "ended" /\ status' = "Closed"
    /\ UNCHANGED <<RunUnchanged, runVars, generation, attempt>>

----------------------------------------------------------------------------
(* A session.                                                              *)

SessionUnchanged == <<callerVars, runVars, dropping, statusVars, uncounted>>

\* SessionEnd: the wire goes with the session.
EndSession(next) == pc' = next /\ wire' = "none"

StaySession == UNCHANGED <<pc, wire>>

\* Bytes from the wire: given to the caller, dropped when nobody reads them.
SessionReads ==
    /\ pc = "session" /\ chunks < Reads
    /\ chunks' = chunks + 1
    /\ \/ /\ held /\ downstream < StreamSize
          /\ downstream' = downstream + 1
          /\ StaySession /\ UNCHANGED lost_chunks
       \/ /\ held /\ downstream = StreamSize
          /\ lost_chunks' = lost_chunks + 1
          /\ StaySession /\ UNCHANGED downstream
       \/ /\ ~held
          /\ EndSession("closing") /\ UNCHANGED <<downstream, lost_chunks>>
    /\ UNCHANGED <<SessionUnchanged, upstream, bytes_out, bytes_dropped, faults>>

\* Bytes from the caller: one bounded write; the one that fails is dropped.
SessionWrites ==
    /\ pc = "session" /\ upstream > 0
    /\ upstream' = upstream - 1
    /\ \/ /\ bytes_out' = bytes_out + 1
          /\ StaySession /\ UNCHANGED <<bytes_dropped, faults>>
       \/ /\ faults < Faults /\ faults' = faults + 1
          /\ bytes_dropped' = bytes_dropped + 1
          /\ EndSession("failed") /\ UNCHANGED bytes_out
    /\ UNCHANGED <<SessionUnchanged, downstream, lost_chunks, chunks>>

SessionSeesEnd ==
    /\ pc = "session" /\ Ended
    /\ EndSession("closing")
    /\ UNCHANGED <<SessionUnchanged, upstream, downstream, bytes_out, bytes_dropped, lost_chunks, chunks, faults>>

\* Closed by the radio, a framing error, a failed keep-alive, or silence.
SessionFails ==
    /\ pc = "session" /\ faults < Faults
    /\ faults' = faults + 1
    /\ EndSession("failed")
    /\ UNCHANGED <<SessionUnchanged, upstream, downstream, bytes_out, bytes_dropped, lost_chunks, chunks>>

----------------------------------------------------------------------------

Init ==
    /\ held = TRUE /\ given = FALSE /\ written = 0
    /\ upstream = 0 /\ downstream = 0 /\ pc = "attempt"
    /\ wire = "none"
    /\ failures = 0 /\ opens = 0 /\ first = TRUE /\ dropping = 0
    /\ status = "Reconnecting" /\ generation = 0 /\ attempt = 0
    /\ bytes_out = 0 /\ bytes_dropped = 0 /\ lost_chunks = 0 /\ uncounted = 0
    /\ chunks = 0 /\ faults = 0

Caller     == CallerWrites \/ CallerReads \/ CallerDrops
Attempt    == Dial \/ HandshakeDone \/ AttemptDrops \/ AttemptSeesEnd \/ AttemptSucceeds
                  \/ AttemptFails
Run        == FirstFails \/ PublishReconnecting \/ SleepDrops \/ SleepEnds \/ CloseLink
Session    == SessionReads \/ SessionWrites \/ SessionSeesEnd \/ SessionFails
Supervisor == Attempt \/ Run \/ Session

Next == Caller \/ Supervisor

Spec == Init /\ [][Next]_vars
FairSpec == Spec /\ WF_vars(Supervisor)

----------------------------------------------------------------------------
(* Properties.                                                             *)

\* Every variable has its type: the supervisor, the stream, the counters.
TypeOK ==
    /\ held \in BOOLEAN /\ given \in BOOLEAN /\ first \in BOOLEAN
    /\ upstream \in 0..StreamSize /\ downstream \in 0..StreamSize
    /\ pc \in {"attempt", "failed", "sleep", "session", "closing", "ended"}
    /\ wire \in {"none", "dialled", "ready"}
    /\ status \in {"Connected", "Reconnecting", "Closed"}
    /\ failures \in Nat /\ opens \in Nat
    /\ dropping \in Nat /\ generation \in Nat /\ attempt \in Nat
    /\ bytes_out \in Nat /\ bytes_dropped \in Nat /\ lost_chunks \in Nat /\ uncounted \in Nat
    /\ written \in Nat /\ chunks \in Nat /\ faults \in Nat

\* The link keeps the contract the actor relies on, even towards a caller that
\* reads nothing (run, deliver).
Contract == INSTANCE Link WITH held <- held, status <- status, generation <- generation,
                               attempt <- attempt
LinkContract == Contract!FairSpec

\* A request the caller wrote was sent, or dropped and counted, or is in the stream,
\* or the running attempt holds its count; the only ones that nobody counts are
\* those of the attempt that the caller's going cut short (attempt, AttemptEnd).
WritesAccounted ==
    /\ written = bytes_out + bytes_dropped + dropping + uncounted + upstream
    /\ uncounted # 0 => ~held /\ pc \in {"closing", "ended"}
=============================================================================
