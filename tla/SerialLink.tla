----------------------------- MODULE SerialLink -----------------------------
(***************************************************************************)
(* The serial link of radioctl-core (serial.rs): the byte stream given to  *)
(* the rig actor, the two bridge tasks, the supervisor thread that opens,  *)
(* writes and reopens the port, and the reader thread of each session.     *)
(*                                                                         *)
(* A request, and a chunk of bytes read, is the generation of the port it  *)
(* belongs to: the last one published when the request was written, the    *)
(* one of the port the chunk was read from.  A delay may end at any time.  *)
(***************************************************************************)
EXTENDS Integers, Sequences

CONSTANTS
    WriteQueue,     \* WRITE_QUEUE
    ReadQueue,      \* READ_QUEUE
    StreamSize,     \* STREAM_BYTES, in requests or chunks
    FirstAttempts,  \* SerialConfig::first_open_attempts
    Workers,        \* workers of the runtime that no other task blocks
    Writes,         \* bound: requests the caller writes
    Reads,          \* bound: chunks the ports deliver
    Faults          \* bound: ports lost, opens refused, writes timed out

ASSUME SerialAssumption ==
    /\ WriteQueue \in Nat \ {0} /\ ReadQueue \in Nat \ {0} /\ StreamSize \in Nat \ {0}
    /\ FirstAttempts \in Nat \ {0} /\ Workers \in Nat \ {0}
    /\ Writes \in Nat /\ Reads \in Nat /\ Faults \in Nat

VARIABLES
    \* the caller
    held, given,       \* it has its end of the stream, once open_serial returned
    upstream,          \* requests in the stream, towards the port
    downstream,        \* chunks in the stream, towards the caller
    \* the bridge tasks
    uplink, offered,   \* where the uplink stands, and what it holds
    commands,          \* the channel to the supervisor
    inbound,           \* the channel to the downlink
    downlink, carried,
    \* the supervisor
    sup,
    ending,            \* SessionEnd, while the reader is joined
    tries,             \* attempts of the first open, then failures in a row
    opens,             \* its count of opens
    port, port_ok,     \* the open port (0: none), and whether it still works
    shared,            \* the port SerialControl acts on (0: None)
    status, generation, attempt, \* LinkStatus
    readers,           \* the reader thread of the session, and of any still running
    \* counters and history
    faults, chunks,    \* bounds used up
    written,           \* requests the caller has written
    bytes_out, bytes_dropped,
    uncounted,         \* history: requests whose write failed, counted nowhere
    last_sent,         \* the generation of the last request a port got
    last_read          \* the generation of the last chunk the caller got

callerVars == <<held, given, written, last_read>>
streamVars == <<upstream, downstream>>
uplinkVars == <<uplink, offered>>
downVars   == <<inbound, downlink, carried>>
supVars    == <<sup, ending, tries, opens>>
portVars   == <<port, port_ok, shared>>
statusVars == <<status, generation, attempt>>
readerVars == <<readers, chunks>>
countVars  == <<bytes_out, bytes_dropped, uncounted, last_sent>>

vars == <<callerVars, streamVars, uplinkVars, commands, downVars, supVars, portVars,
          statusVars, readerVars, countVars, faults>>

Shutdown == 0   \* Command::Shutdown; a request is Command::Write

NoReader == \A i \in DOMAIN readers : readers[i].at = "none"

----------------------------------------------------------------------------
(* The caller (the rig actor) and its end of the stream.                   *)

CallerUnchanged == <<uplinkVars, commands, downVars, supVars, portVars, statusVars, readerVars,
                     countVars, faults>>

CallerWrites ==
    /\ held /\ given /\ written < Writes /\ Len(upstream) < StreamSize
    /\ upstream' = Append(upstream, generation)
    /\ written' = written + 1
    /\ UNCHANGED <<held, given, last_read, downstream, CallerUnchanged>>

CallerReads ==
    /\ held /\ given /\ downstream # <<>>
    /\ last_read' = Head(downstream)
    /\ downstream' = Tail(downstream)
    /\ UNCHANGED <<held, given, written, upstream, CallerUnchanged>>

\* The stream is dropped with the rig, or with open_serial before it returns.
CallerDrops ==
    /\ held /\ held' = FALSE
    /\ downstream' = <<>>
    /\ UNCHANGED <<given, written, last_read, upstream, CallerUnchanged>>

----------------------------------------------------------------------------
(* The bridge tasks of open_serial.                                        *)

UplinkUnchanged == <<callerVars, downstream, downVars, supVars, portVars, statusVars,
                     readerVars, countVars, faults>>

UplinkReads ==
    /\ uplink = "read" /\ upstream # <<>>
    /\ uplink' = "offer" /\ offered' = <<Head(upstream)>>
    /\ upstream' = Tail(upstream)
    /\ UNCHANGED <<commands, UplinkUnchanged>>

UplinkSeesEnd ==
    /\ uplink = "read" /\ upstream = <<>> /\ ~held
    /\ uplink' = "offer" /\ offered' = <<Shutdown>>
    /\ UNCHANGED <<upstream, commands, UplinkUnchanged>>

Sent == commands \o offered

\* try_send, repeated while the channel is full.  The Shutdown goes with a blocking
\* send, which holds the worker it runs on until there is room (BlocksWorker).
UplinkOffers ==
    /\ uplink = "offer" /\ sup # "ended" /\ Len(commands) < WriteQueue
    /\ commands' = Sent
    /\ uplink' = IF offered = <<Shutdown>> THEN "done" ELSE "read"
    /\ offered' = <<>>
    /\ UNCHANGED <<upstream, UplinkUnchanged>>

UplinkDisconnected ==
    /\ uplink = "offer" /\ sup = "ended"
    /\ uplink' = "done" /\ offered' = <<>>
    /\ UNCHANGED <<upstream, commands, UplinkUnchanged>>

BlocksWorker ==
    /\ uplink = "offer" /\ offered = <<Shutdown>>
    /\ sup # "ended" /\ Len(commands) = WriteQueue

WorkerLeft == Workers > 1 \/ ~BlocksWorker

DownlinkRuns == downlink = "run" /\ WorkerLeft

DownlinkUnchanged == <<callerVars, upstream, uplinkVars, commands, supVars, portVars, statusVars,
                       readerVars, countVars, faults>>

DownlinkTakes ==
    /\ DownlinkRuns /\ carried = <<>> /\ inbound # <<>>
    /\ carried' = <<Head(inbound)>> /\ inbound' = Tail(inbound)
    /\ UNCHANGED <<downlink, downstream, DownlinkUnchanged>>

DownlinkWrites ==
    /\ DownlinkRuns /\ carried # <<>> /\ held /\ Len(downstream) < StreamSize
    /\ downstream' = downstream \o carried /\ carried' = <<>>
    /\ UNCHANGED <<downlink, inbound, DownlinkUnchanged>>

\* The caller has gone, or every sender has.
DownlinkEnds ==
    /\ DownlinkRuns
    /\ \/ carried # <<>> /\ ~held
       \/ carried = <<>> /\ inbound = <<>> /\ sup = "ended" /\ NoReader
    /\ downlink' = "done" /\ carried' = <<>> /\ inbound' = <<>>
    /\ UNCHANGED <<downstream, DownlinkUnchanged>>

----------------------------------------------------------------------------
(* The supervisor thread outside a session (Supervisor::run).              *)

SupUnchanged == <<callerVars, streamVars, uplinkVars, downVars, readerVars>>

NextFailure == tries + 1

\* Seeded fault: reopening ends after as many attempts as the first opening.
GivesUp == IF NextFailure < FirstAttempts THEN "lost" ELSE "closing"

AfterFailedReopen == "lost"

\* One open_port for the first connection; the last failure is answered.
FirstOpen ==
    /\ sup = "first"
    /\ tries' = NextFailure
    /\ \/ /\ sup' = "publish" /\ port' = 1 /\ port_ok' = TRUE /\ opens' = 1
          /\ UNCHANGED faults
       \/ /\ faults < Faults /\ faults' = faults + 1
          /\ sup' = IF tries' < FirstAttempts THEN "firstSleep" ELSE "closing"
          /\ UNCHANGED <<port, port_ok, opens>>
    /\ UNCHANGED <<SupUnchanged, commands, ending, shared, statusVars, countVars>>

\* sleep_dropping: drop a request, see the shutdown, or wait no longer.
Slept == sup' = IF sup = "firstSleep" THEN "first" ELSE "open"

SleepDrops ==
    /\ sup \in {"firstSleep", "sleep"} /\ commands # <<>>
    /\ commands' = Tail(commands)
    /\ IF Head(commands) = Shutdown
       THEN sup' = "closing" /\ UNCHANGED bytes_dropped
       ELSE bytes_dropped' = bytes_dropped + 1 /\ UNCHANGED sup
    /\ UNCHANGED <<SupUnchanged, ending, tries, opens, portVars, statusVars, bytes_out, uncounted,
                   last_sent, faults>>

SleepEnds ==
    /\ sup \in {"firstSleep", "sleep"}
    /\ Slept
    /\ UNCHANGED <<SupUnchanged, commands, ending, tries, opens, portVars, statusVars, countVars,
                   faults>>

\* publish: the control handle first (try_clone may fail), then the status.
PublishControl ==
    /\ sup = "publish"
    /\ sup' = "publishStatus"
    /\ shared' \in {port, 0}
    /\ UNCHANGED <<SupUnchanged, commands, ending, tries, opens, port, port_ok, statusVars,
                   countVars, faults>>

PublishStatus ==
    /\ sup = "publishStatus"
    /\ sup' = "start"
    /\ status' = "Connected" /\ generation' = opens /\ attempt' = 0
    /\ given' = (given \/ held)
    /\ tries' = 0
    /\ UNCHANGED <<held, written, last_read, streamVars, uplinkVars, commands, downVars, ending,
                   opens, portVars, readerVars, countVars, faults>>

\* The port is gone: Reconnecting, with one more failure, and a delay.
PublishLost ==
    /\ sup = "lost"
    /\ sup' = "sleep"
    /\ tries' = NextFailure
    /\ status' = "Reconnecting" /\ attempt' = tries'
    /\ UNCHANGED <<SupUnchanged, commands, ending, opens, portVars, generation, countVars,
                   faults>>

Reopen ==
    /\ sup = "open"
    /\ \/ /\ sup' = "publish" /\ opens' = opens + 1 /\ port' = opens + 1 /\ port_ok' = TRUE
          /\ UNCHANGED faults
       \/ /\ faults < Faults /\ faults' = faults + 1
          /\ sup' = AfterFailedReopen /\ UNCHANGED <<opens, port, port_ok>>
    /\ UNCHANGED <<SupUnchanged, commands, ending, tries, shared, statusVars, countVars>>

\* The end of run: the channels' ends go with the thread.
CloseLink ==
    /\ sup = "closing"
    /\ sup' = "ended" /\ shared' = 0 /\ status' = "Closed" /\ commands' = <<>>
    /\ UNCHANGED <<SupUnchanged, ending, tries, opens, port, port_ok, generation, attempt,
                   countVars, faults>>

----------------------------------------------------------------------------
(* A session, and its reader thread.                                       *)

\* Readers that have ended are forgotten.
Running == IF NoReader THEN <<>> ELSE readers

NewReader == [of |-> port, at |-> "reading", read |-> <<>>, lost |-> FALSE, stop |-> FALSE]

\* The reader starts, or the clone of the port for it fails.
StartSession ==
    /\ sup = "start"
    /\ \/ /\ sup' = "session" /\ readers' = Append(Running, NewReader)
          /\ UNCHANGED <<ending, faults>>
       \/ /\ faults < Faults /\ faults' = faults + 1
          /\ sup' = "join" /\ ending' = "Lost"
          /\ UNCHANGED readers
    /\ UNCHANGED <<callerVars, streamVars, uplinkVars, commands, downVars, tries, opens, portVars,
                   statusVars, chunks, countVars>>

EndSession(why) ==
    /\ sup' = "join" /\ ending' = why
    /\ readers' = [readers EXCEPT ![Len(readers)].stop = TRUE]

SessionUnchanged == <<callerVars, streamVars, uplinkVars, downVars, tries, opens, portVars,
                      statusVars, chunks>>

\* Seeded fault: the request whose write failed is kept for the next port.
KeptUntilWritten == IF sup' = "session" THEN Tail(commands) ELSE commands

Received == Tail(commands)

SessionWrites ==
    /\ sup = "session" /\ commands # <<>> /\ Head(commands) # Shutdown
    /\ \/ /\ port_ok
          /\ bytes_out' = bytes_out + 1 /\ last_sent' = Head(commands)
          /\ UNCHANGED <<sup, ending, readers, uncounted, faults>>
       \/ /\ ~port_ok \/ faults < Faults
          /\ faults' = IF port_ok THEN faults + 1 ELSE faults
          /\ uncounted' = uncounted + 1 /\ EndSession("Lost")
          /\ UNCHANGED <<bytes_out, last_sent>>
    /\ commands' = Received
    /\ UNCHANGED <<SessionUnchanged, bytes_dropped>>

\* The reader's report is seen between two commands.
SessionNotices ==
    /\ sup = "session"
    /\ \/ readers[Len(readers)].lost /\ EndSession("Lost") /\ UNCHANGED commands
       \/ /\ commands # <<>> /\ Head(commands) = Shutdown
          /\ EndSession("Shutdown") /\ commands' = Tail(commands)
    /\ UNCHANGED <<SessionUnchanged, countVars, faults>>

\* Seeded fault: the reader is left to end by itself.
NotJoined == TRUE

\* The reader has been joined, if there is one: the port and its control go.
Joined == NoReader

\* Seeded fault: the control handle outlives the port.
Release == port' = 0 /\ UNCHANGED shared

ReleasePort == port' = 0 /\ shared' = 0

SessionEnds ==
    /\ sup = "join" /\ Joined
    /\ ReleasePort
    /\ sup' = IF ending = "Lost" THEN "lost" ELSE "closing"
    /\ UNCHANGED <<SupUnchanged, commands, ending, tries, opens, port_ok, statusVars, countVars,
                   faults>>

ReaderUnchanged == <<callerVars, streamVars, uplinkVars, commands, downlink, carried, supVars,
                     portVars, statusVars, countVars, faults>>

SetReader(i, r) == readers' = [readers EXCEPT ![i] = r]

\* Seeded fault: a read that fails ends the reader and nothing else.
UnreportedLoss(r) == [r EXCEPT !.at = "none"]

ReportedLoss(r) == [r EXCEPT !.at = "none", !.lost = TRUE]

\* read_loop: stopped, failed, or a chunk in hand.
ReaderReads(i) ==
    LET r == readers[i] IN
    /\ r.at = "reading"
    /\ \/ r.stop /\ SetReader(i, [r EXCEPT !.at = "none"]) /\ UNCHANGED chunks
       \/ ~port_ok /\ SetReader(i, ReportedLoss(r)) /\ UNCHANGED chunks
       \/ /\ port_ok /\ chunks < Reads
          /\ SetReader(i, [r EXCEPT !.at = "handing", !.read = <<r.of>>]) /\ chunks' = chunks + 1
    /\ UNCHANGED <<ReaderUnchanged, inbound>>

\* blocking_send: waits for room; fails when the downlink has ended.
ReaderHands(i) ==
    LET r == readers[i] IN
    /\ r.at = "handing"
    /\ \/ /\ downlink = "run" /\ Len(inbound) < ReadQueue
          /\ inbound' = inbound \o r.read
          /\ SetReader(i, [r EXCEPT !.at = "reading", !.read = <<>>])
       \/ /\ downlink = "done"
          /\ SetReader(i, [r EXCEPT !.at = "none", !.read = <<>>]) /\ UNCHANGED inbound
    /\ UNCHANGED <<ReaderUnchanged, chunks>>

\* The device is unplugged, or the port hangs up.
PortFails ==
    /\ port # 0 /\ port_ok /\ faults < Faults
    /\ port_ok' = FALSE /\ faults' = faults + 1
    /\ UNCHANGED <<callerVars, streamVars, uplinkVars, commands, downVars, supVars, port, shared,
                   statusVars, readerVars, countVars>>

----------------------------------------------------------------------------

Init ==
    /\ held = TRUE /\ given = FALSE /\ written = 0 /\ last_read = 0
    /\ upstream = <<>> /\ downstream = <<>>
    /\ uplink = "read" /\ offered = <<>> /\ commands = <<>>
    /\ inbound = <<>> /\ downlink = "run" /\ carried = <<>>
    /\ sup = "first" /\ ending = "Lost" /\ tries = 0 /\ opens = 0
    /\ port = 0 /\ port_ok = FALSE /\ shared = 0
    /\ status = "Reconnecting" /\ generation = 0 /\ attempt = 0
    /\ readers = <<>> /\ chunks = 0
    /\ bytes_out = 0 /\ bytes_dropped = 0 /\ uncounted = 0 /\ last_sent = 0 /\ faults = 0

Caller     == CallerWrites \/ CallerReads \/ CallerDrops
Uplink     == UplinkReads \/ UplinkSeesEnd \/ UplinkOffers \/ UplinkDisconnected
Downlink   == DownlinkTakes \/ DownlinkWrites \/ DownlinkEnds
Supervisor == FirstOpen \/ SleepDrops \/ SleepEnds \/ PublishControl \/ PublishStatus
                  \/ PublishLost \/ Reopen \/ CloseLink \/ StartSession \/ SessionWrites
                  \/ SessionNotices \/ SessionEnds
Reader     == \E i \in DOMAIN readers : ReaderReads(i) \/ ReaderHands(i)

Next == Caller \/ Uplink \/ Downlink \/ Supervisor \/ Reader \/ PortFails

Spec == Init /\ [][Next]_vars

\* The runtime runs both tasks as long as a worker is free, the system both threads.
\* The caller owes nothing: it may stop reading and keep the stream for ever.
Fairness == WF_vars(Uplink) /\ WF_vars(Downlink) /\ WF_vars(Supervisor) /\ WF_vars(Reader)

FairSpec == Spec /\ Fairness

----------------------------------------------------------------------------
(* Properties.                                                             *)

TaskTypes ==
    /\ held \in BOOLEAN /\ given \in BOOLEAN
    /\ uplink \in {"read", "offer", "done"} /\ downlink \in {"run", "done"}
    /\ sup \in {"first", "firstSleep", "publish", "publishStatus", "start", "session", "join",
                "lost", "sleep", "open", "closing", "ended"}
    /\ ending \in {"Lost", "Shutdown"}
    /\ port_ok \in BOOLEAN
    /\ readers \in Seq([of : Nat, at : {"none", "reading", "handing"}, read : Seq(Nat),
                        lost : BOOLEAN, stop : BOOLEAN])

QueueTypes ==
    /\ upstream \in Seq(Nat) /\ downstream \in Seq(Nat) /\ inbound \in Seq(Nat)
    /\ offered \in Seq(Nat) /\ commands \in Seq(Nat) /\ carried \in Seq(Nat)

CountTypes ==
    /\ tries \in Nat /\ opens \in Nat /\ port \in Nat /\ shared \in Nat
    /\ status \in {"Connected", "Reconnecting", "Closed"}
    /\ generation \in Nat /\ attempt \in Nat /\ faults \in Nat /\ chunks \in Nat
    /\ written \in Nat /\ bytes_out \in Nat /\ bytes_dropped \in Nat /\ uncounted \in Nat
    /\ last_sent \in Nat /\ last_read \in Nat

\* Every variable has its type: the tasks and threads, the queues, the counters.
TypeOK == TaskTypes /\ QueueTypes /\ CountTypes

\* The link keeps the contract the actor relies on (LinkStatus, and that the
\* byte stream ends only when the caller drops it; then the link closes).
Contract == INSTANCE Link WITH held <- held, status <- status, generation <- generation,
                               attempt <- attempt
LinkContract == Contract!FairSpec

\* Generations in order; the Shutdown has none.
Ascending(s) ==
    \A i, j \in DOMAIN s : i <= j /\ s[i] # Shutdown /\ s[j] # Shutdown => s[i] <= s[j]

\* Nothing of a newer connection is overtaken by an older one's.  What was read
\* from an old port comes before bytes of a newer one, chunk by chunk (session
\* joins the reader, read_loop).  Requests of the old connection still on their way
\* reach a reopened port, if at all, before anything written since: before the
\* unkey of the actor (the uplink task).
NothingOvertakes ==
    LET sent == <<last_read>> \o downstream \o carried \o inbound IN
    /\ Ascending(sent) /\ \A i \in DOMAIN readers : Ascending(sent \o readers[i].read)
    /\ Ascending(<<last_sent>> \o commands \o offered \o upstream)

ShutdownSent == \E i \in DOMAIN Sent : Sent[i] = Shutdown

\* Requests on their way to the port.
Underway == Len(upstream) + Len(Sent) - IF ShutdownSent THEN 1 ELSE 0

\* A request the caller wrote was sent, or dropped and counted, or is on its way; the
\* only ones that nobody counts are those whose write failed, one per connection at
\* most (sleep_dropping, session).
WritesAccounted ==
    /\ written = bytes_out + bytes_dropped + uncounted + Underway
    /\ uncounted <= opens

\* "bytes written meanwhile are dropped and counted" (serial.rs, Hot-plug): a request
\* that did not reach the port is in bytes_dropped.
EveryDropIsCounted == written = bytes_out + bytes_dropped + Underway

\* A control line moves on the port in use, or on none: never on a handle of a
\* port that was replaced (publish, run).
ControlIsCurrent == shared \in {0, port}

\* The caller keeps the stream and leaves it full.
CallerStalls == held /\ Len(downstream) = StreamSize

\* The supervisor moves on, though it waits for the reader, and the reader for the
\* downlink and the caller (read_loop, session): a dead port is noticed unless the
\* caller stops reading for good, with the reader stuck in front of it; and the
\* thread, the reader and the port of a dropped stream go, read or not.
SupervisorMovesOn ==
    /\ \/ port # 0 /\ ~port_ok ~> status # "Connected" \/ port_ok
       \/ <>[]CallerStalls
    /\ ~held ~> sup = "ended" /\ port = 0 /\ NoReader
=============================================================================
