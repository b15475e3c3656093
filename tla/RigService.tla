----------------------------- MODULE RigService -----------------------------
(***************************************************************************)
(* What a rig promises to the callers of its handle (rig.rs, the module's  *)
(* own description), whatever its stream, its clocks and its polls do.     *)
(*                                                                         *)
(* Commands are served one at a time.  Ordinary ones are served in the     *)
(* order they were submitted, and none is begun while an emergency is      *)
(* lined up; emergencies are served in the order they were lined up.  A    *)
(* command is answered once.  One that transmits is begun, and may only    *)
(* succeed, if the gate was open after it was submitted.  An emergency is  *)
(* never cancelled, and an unkey is never refused: one that finds no room  *)
(* is answered with the result of another unkey.                           *)
(***************************************************************************)
EXTENDS Sequences

CONSTANTS
    Clients,    \* the callers
    NoClient,
    ClientOps   \* what they may ask for

VARIABLES
    gate,       \* the transmit gate is open
    request,    \* what each caller asks for, or last asked for
    answer,     \* the answer to it; "none" while there is none
    line,       \* callers whose ordinary command waits, oldest first
    urgent,     \* callers whose emergency is lined up, oldest first
    served,     \* the caller whose command has its turn
    begun       \* the rig has been asked to do it

vars == <<gate, request, answer, line, urgent, served, begun>>

Transmits(op)   == op \in {"key", "cw"}
IsEmergency(op) == op \in {"unkey", "stop"}

Pending(c) == request[c] # "none" /\ answer[c] = "none"

\* Callers whose emergency is neither lined up nor served: it is on its way, or
\* waits for the result of another unkey.
Aside ==
    {c \in Clients : /\ Pending(c) /\ IsEmergency(request[c])
                     /\ c # served /\ \A i \in DOMAIN urgent : urgent[i] # c}

MayTransmit(op) == Transmits(op) => gate

\* Why a command that has its turn is not begun.
Refusals(op) ==
    {"LinkDown", "Timeout"}
    \union (IF ~Transmits(op) THEN {}
            ELSE IF gate THEN {"TransmitFrequencyUnknown"} ELSE {"TransmitGateClosed"})

\* How a command that was begun ends.
Outcomes(op) ==
    {"ok", "Rejected", "Timeout", "LinkDown"}
    \union (IF IsEmergency(op) THEN {} ELSE {"Cancelled"})

Sharing(c) == IF request[c] = "unkey" THEN {d \in Aside : request[d] = "unkey"} ELSE {}

\* A caller is answered, and with it others that asked for the same unkey.
Tell(c, result) ==
    \E others \in SUBSET Sharing(c) :
        answer' = [d \in Clients |-> IF d = c \/ d \in others THEN result ELSE answer[d]]

----------------------------------------------------------------------------

Init ==
    /\ gate = FALSE
    /\ request = [c \in Clients |-> "none"] /\ answer = [c \in Clients |-> "none"]
    /\ line = <<>> /\ urgent = <<>> /\ served = NoClient /\ begun = FALSE

Ask(c, op) ==
    /\ ~Pending(c)
    /\ request' = [request EXCEPT ![c] = op]
    /\ \/ /\ ~IsEmergency(op) /\ MayTransmit(op)
          /\ line' = Append(line, c)
          /\ answer' = [answer EXCEPT ![c] = "none"]
       \/ /\ IsEmergency(op)
          /\ answer' = [answer EXCEPT ![c] = "none"]
          /\ UNCHANGED line
       \/ /\ ~MayTransmit(op)
          /\ answer' = [answer EXCEPT ![c] = "TransmitGateClosed"]
          /\ UNCHANGED line
       \/ /\ ~IsEmergency(op) /\ MayTransmit(op)
          /\ answer' = [answer EXCEPT ![c] = "QueueFull"]
          /\ UNCHANGED line
    /\ UNCHANGED <<gate, urgent, served, begun>>

LineUp(c) ==
    /\ c \in Aside
    /\ urgent' = Append(urgent, c)
    /\ UNCHANGED <<gate, request, answer, line, served, begun>>

\* No room, and no other emergency to share the result of.
TurnAway(c) ==
    /\ c \in Aside /\ request[c] # "unkey"
    /\ answer' = [answer EXCEPT ![c] = "QueueFull"]
    /\ UNCHANGED <<gate, request, line, urgent, served, begun>>

\* A command has its turn: it is refused, begun, or kept until what the rig
\* must do first is done.  An emergency is not kept.
Turn(c) ==
    /\ served = NoClient
    /\ \/ /\ begun' \in BOOLEAN
          /\ begun' => MayTransmit(request[c])
          /\ IsEmergency(request[c]) => begun'
          /\ served' = c /\ UNCHANGED answer
       \/ /\ \E result \in Refusals(request[c]) : Tell(c, result)
          /\ UNCHANGED <<served, begun>>
    /\ UNCHANGED <<gate, request>>

TakeUrgent ==
    /\ urgent # <<>>
    /\ urgent' = Tail(urgent) /\ Turn(Head(urgent))
    /\ UNCHANGED line

TakeOrdinary ==
    /\ urgent = <<>> /\ line # <<>>
    /\ line' = Tail(line) /\ Turn(Head(line))
    /\ UNCHANGED urgent

BeginKept ==
    /\ served # NoClient /\ ~begun /\ MayTransmit(request[served])
    /\ begun' = TRUE
    /\ UNCHANGED <<gate, request, answer, line, urgent, served>>

\* The command that has its turn is answered.
Finish ==
    /\ served # NoClient
    /\ \E result \in IF begun THEN Outcomes(request[served]) ELSE Refusals(request[served]) :
          Tell(served, result)
    /\ served' = NoClient /\ begun' = FALSE
    /\ UNCHANGED <<gate, request, line, urgent>>

MoveGate ==
    /\ gate' = ~gate
    /\ UNCHANGED <<request, answer, line, urgent, served, begun>>

Next ==
    \/ \E c \in Clients : (\E op \in ClientOps : Ask(c, op)) \/ LineUp(c) \/ TurnAway(c)
    \/ TakeUrgent \/ TakeOrdinary \/ BeginKept \/ Finish \/ MoveGate

Spec == Init /\ [][Next]_vars
=============================================================================
