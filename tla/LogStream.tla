------------------------------ MODULE LogStream ------------------------------
(***************************************************************************)
(* The live log of a run: the planner appends log lines to the store and   *)
(* ends the run; internal/api/sse.go polls the store for one connection and*)
(* sends what is new; a client reads it - the web UI's RunDetail page with *)
(* its LogStream and the browser's EventSource, or another user of the API *)
(* that names the line to start after. `pave ui`, which serves it, may be  *)
(* stopped and started again meanwhile (cmd/pave/ui.go).                   *)
(*                                                                         *)
(* A log line is its id. Ids are given to the lines of all runs together,  *)
(* so those of this run have gaps.                                         *)
(***************************************************************************)
EXTENDS Integers, Sequences, FiniteSets, SequencesExt

CONSTANTS
    MaxId,          \* bound: log lines of all runs
    Afters,         \* what ?after= may be; 0 also when it is not given
    Grace,          \* idle polls of an ended run that streamLogs tolerates
    MaxFaults,      \* bound: failing store calls, lost connections, stops of the
                    \* server
    MaxConnections  \* bound: connections of one page

ASSUME BoundsAssumption ==
    MaxId \in Nat /\ MaxFaults \in Nat /\ MaxConnections \in Nat
ASSUME GraceAssumption == Grace \in Nat \ {0}
ASSUME AftersAssumption == Afters \subseteq Nat

VARIABLES
    log,        \* ids of the run's lines in the store
    nextId,     \* next id of the table
    status,     \* the run's status
    ui,         \* the process of `pave ui`: see ProcessAt
    spc,        \* streamLogs: see ServerAt
    lastId,     \* its lastID
    idle,       \* its idleTerminalTicks
    wire,       \* frames sent and not yet received
    page,       \* the client: see PageAt
    from,       \* what it gives as ?after=
    connections,\* number of connections it has made
    got,        \* lines received over the present connection
    shown,      \* lines the page shows
    faults      \* number of faults so far

writer == <<log, nextId, status>>
server == <<ui, spc, lastId, idle>>
client == <<page, from, connections>>
vars == <<writer, server, wire, client, got, shown, faults>>

\* stopping: ctx is done, so Shutdown has closed the listener, ListenAndServe
\* has returned, and the deferred Close of the store may be under way.
ProcessAt == {"up", "stopping", "down"}
\* list, check, wait: at ListLogLines, at GetRun, in the 500 ms between polls.
ServerAt == {"closed", "list", "check", "wait"}
\* viewing: open without a live log, since the run was over when it was loaded
\* or the log could not be had.
PageAt == {"closed", "viewing", "streaming"}
RunStatuses == {"running", "completed", "interrupted", "failed"}

-----------------------------------------------------------------------------
SlipUnseen(id) == id > lastId + 1       \* skips a line when ids have no gap
SlipSeen(batch) == Head(batch)          \* remembers the first line
SlipIsOver == status = "completed"      \* forgets that runs end otherwise
SlipMayClose(ticks) == ticks > 0        \* closes at the first idle poll

\* The rows that ListLogLines selects.
Unseen(id) == id > lastId

\* lastID after a batch is sent.
Seen(batch) == Last(batch)

\* What GetRun says of the run.
IsOver == status # "running"

\* The run has been over for so many polls that the stream is closed.
MayClose(ticks) == ticks > Grace

\* These lines, the earliest first. (SetToSortSeq is TLC's own sorting, of
\* which nothing can be proved.)
InOrder(ids) ==
    CHOOSE s \in [1..Cardinality(ids) -> ids] :
        \A j, k \in 1..Cardinality(ids) : j < k => s[j] < s[k]
UnseenLines == {id \in log : Unseen(id)}
NewLines == InOrder(UnseenLines)

-----------------------------------------------------------------------------
Init ==
    /\ log = {} /\ nextId = 1 /\ status = "running"
    /\ ui = "up" /\ spc = "closed" /\ lastId = 0 /\ idle = 0 /\ wire = <<>>
    /\ page = "closed" /\ from = 0 /\ connections = 0
    /\ got = <<>> /\ shown = <<>> /\ faults = 0

(* The planner's process, or that of another run.                          *)

AppendLogLine ==
    /\ status = "running" /\ nextId <= MaxId
    /\ log' = log \cup {nextId} /\ nextId' = nextId + 1
    /\ UNCHANGED <<status, server, wire, client, got, shown, faults>>

OtherRunAppends ==
    /\ nextId <= MaxId /\ nextId' = nextId + 1
    /\ UNCHANGED <<log, status, server, wire, client, got, shown, faults>>

\* finishRun, after the last line of the run.
EndRun ==
    /\ status = "running"
    /\ status' \in RunStatuses \ {"running"}
    /\ UNCHANGED <<log, nextId, server, wire, client, got, shown, faults>>

-----------------------------------------------------------------------------
(* streamLogs.                                                             *)

SendLines ==
    /\ spc = "list" /\ UnseenLines # {}
    /\ wire' = Append(wire, NewLines)
    /\ lastId' = Seen(NewLines) /\ idle' = 0 /\ spc' = "wait"
    /\ UNCHANGED <<writer, ui, client, got, shown, faults>>

NothingNew ==
    /\ spc = "list" /\ UnseenLines = {}
    /\ spc' = "check"
    /\ UNCHANGED <<writer, ui, lastId, idle, wire, client, got, shown, faults>>

\* A store call fails by itself, or since runUI has closed the store.
StoreFails ==
    \/ ui = "stopping" /\ UNCHANGED faults
    \/ faults < MaxFaults /\ faults' = faults + 1

\* An error frame, which carries no line, and the end of the stream.
ListFails ==
    /\ spc = "list" /\ StoreFails
    /\ spc' = "closed"
    /\ UNCHANGED <<writer, ui, lastId, idle, wire, client, got, shown>>

RunGoesOn ==
    /\ spc = "check" /\ ~IsOver
    /\ spc' = "wait"
    /\ UNCHANGED <<writer, ui, lastId, idle, wire, client, got, shown, faults>>

IdleTick ==
    /\ spc = "check" /\ IsOver /\ ~MayClose(idle + 1)
    /\ idle' = idle + 1 /\ spc' = "wait"
    /\ UNCHANGED <<writer, ui, lastId, wire, client, got, shown, faults>>

CloseStream ==
    /\ spc = "check" /\ IsOver /\ MayClose(idle + 1)
    /\ idle' = idle + 1 /\ spc' = "closed"
    /\ UNCHANGED <<writer, ui, lastId, wire, client, got, shown, faults>>

\* A failing GetRun is passed over.
CheckFails ==
    /\ spc = "check" /\ StoreFails
    /\ spc' = "wait"
    /\ UNCHANGED <<writer, ui, lastId, idle, wire, client, got, shown>>

PollAgain ==
    /\ spc = "wait" /\ spc' = "list"
    /\ UNCHANGED <<writer, ui, lastId, idle, wire, client, got, shown, faults>>

StreamLogs ==
    \/ SendLines \/ NothingNew \/ ListFails \/ RunGoesOn \/ IdleTick
    \/ CloseStream \/ CheckFails \/ PollAgain

-----------------------------------------------------------------------------
(* The process: runUI.                                                     *)

\* A signal. The handlers of open streams do not look at that ctx.
StopServer ==
    /\ ui = "up" /\ faults < MaxFaults
    /\ faults' = faults + 1 /\ ui' = "stopping"
    /\ UNCHANGED <<writer, spc, lastId, idle, wire, client, got, shown>>

\* runUI returns without waiting for Shutdown or for the handlers. Frames that
\* were written may still arrive, the first ones first.
ExitServer ==
    /\ ui = "stopping"
    /\ ui' = "down" /\ spc' = "closed"
    /\ \E n \in 0..Len(wire) : wire' = SubSeq(wire, 1, n)
    /\ UNCHANGED <<writer, lastId, idle, client, got, shown, faults>>

StartServer ==
    /\ ui = "down" /\ ui' = "up"
    /\ UNCHANGED <<writer, spc, lastId, idle, wire, client, got, shown,
                   faults>>

-----------------------------------------------------------------------------
(* The client.                                                             *)

\* RunDetail mounts LogStream for a run that is running when it is loaded,
\* and does not load the run again.
OpenPage ==
    /\ page = "closed" /\ ui = "up"
    /\ page' = IF status = "running" THEN "streaming" ELSE "viewing"
    /\ from' \in Afters /\ connections' = 0 /\ shown' = <<>>
    /\ UNCHANGED <<writer, server, wire, got, faults>>

\* EventSource connects, and again with the same URL whenever the server
\* has ended the stream or could not be reached.
Connect ==
    /\ page = "streaming" /\ ui = "up" /\ spc = "closed" /\ wire = <<>>
    /\ connections < MaxConnections /\ connections' = connections + 1
    /\ spc' = "list" /\ lastId' = from /\ idle' = 0 /\ got' = <<>>
    /\ UNCHANGED <<writer, ui, wire, page, from, shown, faults>>

\* streamLogs cannot find the run: an HTTP error, after which EventSource does
\* not connect again.
ConnectRefused ==
    /\ page = "streaming" /\ ui = "up" /\ spc = "closed" /\ wire = <<>>
    /\ faults < MaxFaults /\ faults' = faults + 1
    /\ page' = "viewing"
    /\ UNCHANGED <<writer, server, wire, from, connections, got, shown>>

\* onmessage appends the frame to what is shown.
Receive ==
    /\ wire # <<>>
    /\ got' = got \o Head(wire) /\ shown' = shown \o Head(wire)
    /\ wire' = Tail(wire)
    /\ UNCHANGED <<writer, server, client, faults>>

\* The connection breaks: r.Context() is done, and frames on the way are lost.
Disconnect ==
    /\ spc # "closed" /\ faults < MaxFaults
    /\ faults' = faults + 1 /\ spc' = "closed" /\ wire' = <<>>
    /\ UNCHANGED <<writer, ui, lastId, idle, client, got, shown>>

ClosePage ==
    /\ page # "closed"
    /\ page' = "closed" /\ spc' = "closed" /\ wire' = <<>>
    /\ UNCHANGED <<writer, ui, lastId, idle, from, connections, got, shown,
                   faults>>

Next ==
    \/ AppendLogLine \/ OtherRunAppends \/ EndRun \/ StreamLogs
    \/ StopServer \/ ExitServer \/ StartServer
    \/ OpenPage \/ Connect \/ ConnectRefused \/ Receive \/ Disconnect
    \/ ClosePage

Spec == Init /\ [][Next]_vars

\* The handler goroutine and its timer run, frames arrive, and EventSource
\* connects again. Nothing makes the run end or the user close the page, or
\* start the server again that he stopped.
FairSpec ==
    Spec /\ WF_vars(StreamLogs) /\ WF_vars(Receive) /\ WF_vars(Connect)
         /\ WF_vars(ExitServer)

-----------------------------------------------------------------------------
(* What the live log guarantees.                                           *)

\* sse.go 14: "flushing rows with id > lastId". Over one connection the lines
\* arrive in the order they were written, none twice and none left out,
\* however polls and appends interleave.
StreamIsInOrder ==
    spc # "closed" =>
        got \o FlattenSeq(wire) = InOrder({id \in log : from < id /\ id <= lastId})

\* sse.go 14-15 close the stream "after the run reaches a terminal state with
\* no new lines": then every line of the run has been sent, although the
\* status is read after the lines and not together with them.
ClosedStreamIsComplete ==
    [][CloseStream => ~\E id \in log : id > lastId]_vars

\* The stream of an ended run closes by itself, however the run ended.
EndedStreamCloses == (spc # "closed" /\ status # "running") ~> (spc = "closed")

\* A line in the store is shown on a page that keeps its live log, across
\* connections that break, store calls that fail, and a server that is stopped
\* with frames on the way, provided that it is started again and stays.
LineIsShown ==
    <>[](ui = "up") =>
        \A id \in 1..MaxId :
            (page = "streaming" /\ id \in log /\ id > from) ~>
                (page # "streaming" \/ \E i \in DOMAIN shown : shown[i] = id)
=============================================================================
