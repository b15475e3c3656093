------------------------------ MODULE Splitter ------------------------------
(***************************************************************************)
(* PTT arbitration of the protocol splitter (radioctl-splitter): one task  *)
(* per legacy program, one owner of the transmitter, one rig behind them.  *)
(*                                                                         *)
(* A task claims the transmitter before it asks the rig to transmit, gives *)
(* the claim back when the rig refuses, and unkeys when its program leaves *)
(* while owning.  An unkey is everybody's right and clears the claim once  *)
(* the rig has done it.  The owner is read and written under a lock held   *)
(* for one access at a time; the rig is awaited in between.                *)
(***************************************************************************)
EXTENDS Naturals, FiniteSets

CONSTANTS
    Clients,     \* ids of the attached programs
    NoOwner,     \* the transmitter is free
    ClientOps,   \* the requests the programs make that change the rig
    Persistent,  \* clients whose task outlives a disconnect (a pty)
    Budget,      \* bound: requests of each program that change the rig; reads have none
    Faults,      \* bound: requests the rig refuses
    Aborts       \* bound: calls of ClientHandle::abort

ASSUME SplitterAssumption ==
    /\ NoOwner \notin Clients
    /\ ClientOps \subseteq {"key", "cw", "unkey", "stop"}
    /\ Persistent \subseteq Clients
    /\ Budget \in Nat /\ Faults \in Nat /\ Aborts \in Nat

VARIABLES
    owner,      \* PttOwner::owner
    task,       \* where each client's task stands
    request,    \* its current or last request
    pending,    \* clients whose request the rig has not answered
    outcome,    \* the answer to it
    tx,         \* what keeps the rig on the air: subset of {"ptt", "cw"}
    reading,    \* clients whose program takes what it is sent
    talking,    \* clients whose program has not yet sent its last request
    budget, faults, aborts,
    \* history, for the properties
    last_claim, \* outcome of each client's last request to transmit
    displaced,  \* clients whose claim an unkey cleared since they made it
    sounding,   \* what each client's acknowledged requests still keep on the air
    left_owning \* clients that owned the transmitter when they last left

taskVars  == <<task, request, pending, outcome>>
programVars == <<reading, talking>>
rigVars   == <<tx, sounding>>
boundVars == <<budget, faults, aborts>>

vars == <<owner, taskVars, programVars, rigVars, boundVars, last_claim, displaced, left_owning>>

----------------------------------------------------------------------------
(* Claims (PttOwner) and what a request does to the transmitter.           *)

Transmits(op)   == op \in {"key", "cw"}
IsEmergency(op) == op \in {"unkey", "stop"}

\* What an operation turns on at the rig, and the transmitter afterwards.
Adds(op)   == IF op = "key" THEN {"ptt"} ELSE IF op = "cw" THEN {"cw"} ELSE {}
Effect(op) == IF op = "unkey" THEN {}
              ELSE IF op = "stop" THEN tx \ {"cw"} ELSE tx \union Adds(op)

\* Seeded fault: the current owner is not looked at.
AnybodyMayKey(c) == TRUE

\* try_key succeeds: the transmitter is free or already theirs.
MayKey(c) == owner \in {NoOwner, c}

\* Seeded fault: a refused request keeps its claim.
ClaimKept(c) == owner

\* release: only the owner's own claim is given up.
Released(c) == IF owner = c THEN NoOwner ELSE owner

----------------------------------------------------------------------------
(* A client's task (execute, key, send_cw, set).                           *)

\* execute_from: the request is on its way to the rig.
Ask(c, op, where) ==
    /\ request' = [request EXCEPT ![c] = op]
    /\ pending' = pending \union {c}
    /\ outcome' = [outcome EXCEPT ![c] = "none"]
    /\ task' = [task EXCEPT ![c] = where]

Request(c, op) ==
    /\ task[c] = "idle" /\ c \in talking /\ budget[c] > 0 /\ op \in ClientOps
    /\ budget' = [budget EXCEPT ![c] = @ - 1]
    /\ \/ /\ Transmits(op) /\ MayKey(c)
          /\ owner' = c
          /\ displaced' = displaced \ {c}
          /\ Ask(c, op, "asked")
       \/ /\ ~Transmits(op)
          /\ UNCHANGED <<owner, displaced>>
          /\ Ask(c, op, "asked")
       \/ \* another client owns the transmitter
          /\ Transmits(op) /\ ~MayKey(c)
          /\ request' = [request EXCEPT ![c] = op]
          /\ outcome' = [outcome EXCEPT ![c] = "Refused"]
          /\ task' = [task EXCEPT ![c] = "replying"]
          /\ UNCHANGED <<owner, displaced, pending>>
    /\ last_claim' = IF Transmits(op) /\ ~MayKey(c)
                     THEN [last_claim EXCEPT ![c] = "Refused"] ELSE last_claim
    /\ left_owning' = left_owning \ {c}
    /\ UNCHANGED <<programVars, rigVars, faults, aborts>>

\* A program polls: the answer comes from the cache or from the rig.
Read(c) ==
    /\ task[c] = "idle" /\ c \in talking
    /\ \/ Ask(c, "read", "asked")
       \/ /\ request' = [request EXCEPT ![c] = "read"]
          /\ outcome' = [outcome EXCEPT ![c] = "Done"]
          /\ task' = [task EXCEPT ![c] = "replying"]
          /\ UNCHANGED pending
    /\ left_owning' = left_owning \ {c}
    /\ UNCHANGED <<owner, programVars, rigVars, boundVars, last_claim, displaced>>

Answered(c) == c \notin pending

\* What the answer does to the claim.
OwnerAfter(c) ==
    IF Transmits(request[c]) /\ outcome[c] # "Done" THEN Released(c)
    ELSE IF request[c] = "unkey" /\ outcome[c] = "Done" THEN NoOwner
    ELSE owner

\* The task goes on with the answer; others have run since the rig gave it.
Settle(c) ==
    /\ task[c] = "asked" /\ Answered(c)
    /\ owner' = OwnerAfter(c)
    /\ displaced' = IF request[c] = "unkey" /\ outcome[c] = "Done"
                    THEN displaced \union ({owner} \ {NoOwner}) ELSE displaced
    /\ task' = [task EXCEPT ![c] = "replying"]
    /\ UNCHANGED <<request, pending, outcome, programVars, rigVars, boundVars, last_claim,
                   left_owning>>

\* The reply found room on its way to the program, sooner or later.
Reply(c) ==
    /\ task[c] = "replying"
    /\ task' = [task EXCEPT ![c] = "idle"]
    /\ UNCHANGED <<owner, request, pending, outcome, programVars, rigVars, boundVars, last_claim,
                   displaced, left_owning>>

\* A program that hangs takes nothing any more.
StopsReading(c) ==
    /\ c \in reading
    /\ reading' = reading \ {c}
    /\ UNCHANGED <<talking, owner, taskVars, rigVars, boundVars, last_claim, displaced,
                   left_owning>>

\* A program has sent its last request, and keeps its connection.  Only streams have
\* an idle timeout: a silent pty is one that makes no request.
FallsSilent(c) ==
    /\ c \in talking \ Persistent
    /\ talking' = talking \ {c}
    /\ UNCHANGED <<reading, owner, taskVars, rigVars, boundVars, last_claim, displaced,
                   left_owning>>

----------------------------------------------------------------------------
(* The end of a client (run_client, cleanup, abort).                       *)

\* What follows the cleanup: a pty waits for its next program.
After(where) == IF where = "resetting" THEN "idle" ELSE "gone"

\* Seeded fault: the departing owner gives its claim up and does not unkey.
CleanupKeyed(c, where) ==
    /\ owner' = Released(c)
    /\ left_owning' = IF owner = c THEN left_owning \union {c} ELSE left_owning
    /\ task' = [task EXCEPT ![c] = After(where)]
    /\ UNCHANGED <<request, pending, outcome, programVars, rigVars, boundVars, last_claim, displaced>>

\* Seeded fault: the departing owner unkeys and keeps its claim.
CleanupOwning(c, where) ==
    /\ Ask(c, "unkey", where)
    /\ left_owning' = IF owner = c THEN left_owning \union {c} ELSE left_owning
    /\ UNCHANGED <<owner, programVars, rigVars, boundVars, last_claim, displaced>>

\* cleanup: the claim is given up, and the rig unkeyed if there was one.
Cleanup(c, where) ==
    /\ owner' = Released(c)
    /\ \/ /\ owner = c
          /\ left_owning' = left_owning \union {c}
          /\ Ask(c, "unkey", where)
       \/ /\ owner # c
          /\ task' = [task EXCEPT ![c] = After(where)]
          /\ UNCHANGED <<request, pending, outcome, left_owning>>
    /\ UNCHANGED <<programVars, rigVars, boundVars, last_claim, displaced>>

\* The program disconnected, or was silent for too long.
Leave(c) ==
    task[c] = "idle" /\ Cleanup(c, IF c \in Persistent THEN "resetting" ELSE "ending")

\* The input or the rig's events are closed, or a reply cannot be delivered.
End(c) == task[c] \in {"idle", "replying"} /\ Cleanup(c, "ending")

\* The unkey of cleanup was answered, one way or the other.
Left(c) ==
    /\ task[c] \in {"resetting", "ending"} /\ c \notin pending
    /\ task' = [task EXCEPT ![c] = After(task[c])]
    /\ UNCHANGED <<owner, request, pending, outcome, programVars, rigVars, boundVars, last_claim,
                   displaced, left_owning>>

\* ClientHandle::abort: the task ends where it waits, its claim stays.
Abort(c) ==
    /\ aborts < Aborts /\ task[c] \in {"idle", "asked", "replying", "resetting", "ending"}
    /\ aborts' = aborts + 1
    /\ task' = [task EXCEPT ![c] = "aborted"]
    /\ UNCHANGED <<owner, request, pending, outcome, programVars, rigVars, budget, faults, last_claim,
                   displaced, left_owning>>

----------------------------------------------------------------------------
(* The rig, as its handle answers for it.                                  *)

\* The transmitter changes to `new`; `c` is acknowledged what it added.
OnAir(c, new, added) ==
    /\ tx' = new
    /\ sounding' = [d \in Clients |->
                       IF d = c THEN (sounding[d] \intersect new) \union added
                       ELSE sounding[d] \intersect new]

Answer(c, result) ==
    /\ pending' = pending \ {c}
    /\ outcome' = [outcome EXCEPT ![c] = result]
    /\ last_claim' = IF Transmits(request[c]) THEN [last_claim EXCEPT ![c] = result]
                     ELSE last_claim
    /\ UNCHANGED <<owner, task, request, programVars, budget, aborts, displaced, left_owning>>

Execute(c) ==
    /\ c \in pending
    /\ OnAir(c, Effect(request[c]), Adds(request[c]))
    /\ Answer(c, "Done")
    /\ UNCHANGED faults

\* Refused, or in doubt: the rig may have executed it, and a transmit request in
\* doubt is followed by an unkey, which may fail.
Refuse(c) ==
    /\ c \in pending /\ faults < Faults
    /\ faults' = faults + 1
    /\ \/ UNCHANGED rigVars
       \/ OnAir(c, Effect(request[c]), {})
       \/ Transmits(request[c]) /\ OnAir(c, {}, {})
    /\ Answer(c, "Refused")

\* Abandoned for an emergency; the rig may have executed it.
Cancel(c) ==
    /\ c \in pending /\ ~IsEmergency(request[c])
    /\ \E d \in pending : IsEmergency(request[d])
    /\ \/ UNCHANGED rigVars
       \/ OnAir(c, Effect(request[c]), {})
    /\ Answer(c, "Refused")
    /\ UNCHANGED faults

\* Morse ends by itself, the rig's own watchdog unkeys.
FallsQuiet ==
    /\ tx # {}
    /\ \E new \in {{}, tx \ {"cw"}} : OnAir(NoOwner, new, {})
    /\ UNCHANGED <<owner, taskVars, programVars, boundVars, last_claim, displaced, left_owning>>

----------------------------------------------------------------------------

Init ==
    /\ owner = NoOwner
    /\ task = [c \in Clients |-> "idle"] /\ request = [c \in Clients |-> "none"]
    /\ pending = {} /\ outcome = [c \in Clients |-> "none"]
    /\ reading = Clients /\ talking = Clients /\ tx = {} /\ sounding = [c \in Clients |-> {}]
    /\ budget = [c \in Clients |-> Budget] /\ faults = 0 /\ aborts = 0
    /\ last_claim = [c \in Clients |-> "none"] /\ displaced = {} /\ left_owning = {}

Serve(c) == Execute(c) \/ Refuse(c) \/ Cancel(c)

Client(c) ==
    \/ (\E op \in ClientOps : Request(c, op)) \/ Read(c) \/ Settle(c) \/ Reply(c)
    \/ Leave(c) \/ End(c) \/ Left(c) \/ Abort(c) \/ StopsReading(c) \/ FallsSilent(c)

Next == (\E c \in Clients : Client(c) \/ Serve(c)) \/ FallsQuiet

Spec == Init /\ [][Next]_vars

\* The rig answers every request, tasks run on, a program that reads takes its
\* replies.  A stream is disconnected once it is silent: every byte read restarts the
\* idle timeout, so one that keeps polling need never leave.
Fairness ==
    \A c \in Clients :
        /\ WF_vars(Serve(c)) /\ WF_vars(Settle(c)) /\ WF_vars(Left(c))
        /\ WF_vars(c \in reading /\ Reply(c))
        /\ c \notin Persistent => WF_vars(c \notin talking /\ Leave(c))

FairSpec == Spec /\ Fairness

----------------------------------------------------------------------------
(* Properties.                                                             *)

\* Every variable has its type; a request the rig has not answered belongs to a
\* task that waits for it, or was aborted (execute).
TypeOK ==
    /\ owner \in Clients \union {NoOwner}
    /\ task \in [Clients -> {"idle", "asked", "replying", "resetting", "ending", "gone",
                         "aborted"}]
    /\ request \in [Clients -> ClientOps \union {"unkey", "read", "none"}]
    /\ pending \subseteq Clients /\ reading \subseteq Clients /\ talking \subseteq Clients
    /\ outcome \in [Clients -> {"none", "Done", "Refused"}]
    /\ tx \subseteq {"ptt", "cw"} /\ sounding \in [Clients -> SUBSET {"ptt", "cw"}]
    /\ budget \in [Clients -> Nat] /\ faults \in Nat /\ aborts \in Nat
    /\ last_claim \in [Clients -> {"none", "Done", "Refused"}]
    /\ displaced \subseteq Clients /\ left_owning \subseteq Clients
    /\ \A c \in pending : task[c] \in {"asked", "resetting", "ending", "aborted"} /\ outcome[c] = "none"

\* One transmitter, one owner: a request to transmit on its way to the rig is
\* the owner's, unless an unkey cleared its claim meanwhile (key, send_cw).
OneTransmitter ==
    \A c \in pending : Transmits(request[c]) => owner = c \/ c \in displaced

\* A program whose last request to transmit was refused keeps nobody else from
\* transmitting, and neither does one that is gone (key, send_cw, cleanup).
RefusedKeyHoldsNothing ==
    \A c \in Clients :
        owner = c =>
            task[c] # "gone" /\ (task[c] \in {"idle", "replying"} => last_claim[c] = "Done")

\* An owner that left, and whose unkey was done, keeps nothing on the air
\* (cleanup unkeys after it released).
OwnerGoneIsQuiet ==
    \A c \in left_owning : task[c] = "gone" /\ outcome[c] = "Done" => sounding[c] = {}

\* A sender that goes away unkeys the rig (send_cw).
SenderGoneIsQuiet ==
    \A c \in Clients : task[c] = "gone" => sounding[c] = {}

Held(c) == owner = c /\ task[c] # "aborted"

Abandoned(c) == Held(c) /\ c \notin talking

\* "an abandoned connection cannot hold a slot, or the transmitter, for ever"
\* (SplitterConfig::idle_timeout).
NobodyHoldsForEver == \A c \in Clients \ Persistent : Abandoned(c) ~> ~Held(c)

\* A connection whose program is silent for good, and still takes what it is sent,
\* gives the transmitter up, in whatever request the silence found it: the idle
\* timeout is seen by a task that is not stuck on a reply (attach_stream, cleanup).
SilentLetGo ==
    \A c \in Clients \ Persistent : Abandoned(c) ~> ~Held(c) \/ c \notin reading
=============================================================================
