-------------------------- MODULE UpstreamSession --------------------------
(***************************************************************************)
(* mcp/session.py: one stdio MCP server behind a proxy.                    *)
(*                                                                         *)
(* The proxy's thread sends tools/call under a private id and waits for    *)
(* the reply with a timeout; a reader thread hands each line of the server *)
(* to the waiter of its id, drops late replies to private ids and passes   *)
(* everything else to the client.  The two share _pending and _private_ids *)
(* under a lock that neither holds while it puts or gets.  The server's    *)
(* stdin and stdout are pipes: who writes to a full one waits.             *)
(***************************************************************************)
EXTENDS Naturals, Sequences

CONSTANTS
    MaxCalls,      \* bound: calls, one after the other
    MaxReplies,    \* bound: replies of the server to one call
    MaxOthers,     \* bound: lines of the server that answer no private id
    StdinSize,     \* bound: lines the pipe to the server holds
    StdoutSize,    \* bound: lines the pipe from the server holds
    CLIENT,        \* a reply to the client's own request, or a notification
    BAD,           \* a line that is not JSON, is too long, or not UTF-8
    NONE

Ids == 1..MaxCalls

ASSUME SessionAssumption ==
    /\ {MaxCalls, MaxReplies, MaxOthers} \subseteq Nat
    /\ {StdinSize, StdoutSize} \subseteq Nat \ {0}
    /\ CLIENT # BAD /\ {CLIENT, BAD, NONE} \cap Ids = {}
    /\ NONE \notin {"reply", "transport_error"}

VARIABLES
    caller,        \* the proxy's thread: pc, its call, what it got
    result,        \* call -> the ToolResult, as "reply" or "failed"
    pending,       \* _pending: the calls that have a waiter
    privateIds,    \* _private_ids: calls whose reply is not the client's
    queue,         \* call -> its reply queue, of size 1
    reader,        \* the reader thread: pc and the line it handles
    running,       \* the server runs
    closed,        \* close() was called
    input,         \* the server's stdin: the calls it has not read yet
    output,        \* the server's stdout: its lines that were not read yet
    writing,       \* the line that the server is about to write, or NONE
    received,      \* the calls that the server has read
    replies,       \* call -> how often the server answered it
    others,        \* how many other lines it wrote
    emitted        \* the ids of lines that were passed to the client

sessionVars ==
    <<caller, result, pending, privateIds, queue, reader, running, closed,
     input, output, writing, received, replies, others, emitted>>

-----------------------------------------------------------------------------
Messages == {"reply", "transport_error"}

Lines == Ids \cup {CLIENT, BAD}

SessionTypeOK ==
    /\ caller \in [pc : {"idle", "write", "wait", "finally"},
                   id : 0..MaxCalls, got : Messages \cup {NONE}]
    /\ result \in [Ids -> {"reply", "failed", NONE}]
    /\ pending \subseteq Ids
    /\ privateIds \subseteq Ids
    /\ queue \in [Ids -> Messages \cup {NONE}]
    /\ reader \in [pc : {"read", "put", "drop", "emit", "failing", "ended"},
                   line : Lines \cup {NONE}]
    /\ running \in BOOLEAN /\ closed \in BOOLEAN
    /\ input \in Seq(Ids) /\ Len(input) <= StdinSize
    /\ output \in Seq(Lines) /\ Len(output) <= StdoutSize
    /\ writing \in Lines \cup {NONE}
    /\ received \subseteq Ids
    /\ replies \in [Ids -> 0..MaxReplies]
    /\ others \in 0..MaxOthers
    /\ emitted \subseteq Lines

SessionInit ==
    /\ caller = [pc |-> "idle", id |-> 0, got |-> NONE]
    /\ result = [i \in Ids |-> NONE]
    /\ pending = {}
    /\ privateIds = {}
    /\ queue = [i \in Ids |-> NONE]
    /\ reader = [pc |-> "read", line |-> NONE]
    /\ running = TRUE
    /\ closed = FALSE
    /\ input = << >>
    /\ output = << >>
    /\ writing = NONE
    /\ received = {}
    /\ replies = [i \in Ids |-> 0]
    /\ others = 0
    /\ emitted = {}

shared == <<pending, privateIds, queue>>
pipes == <<input, output, writing>>
server == <<running, pipes, received, replies, others>>

-----------------------------------------------------------------------------
(* call_tool, in the proxy's thread *)

CallTool ==
    /\ caller.pc = "idle" /\ caller.id < MaxCalls /\ ~closed
    /\ caller' = [pc |-> "write", id |-> caller.id + 1, got |-> NONE]
    /\ pending' = pending \cup {caller.id + 1}
    /\ privateIds' = privateIds \cup {caller.id + 1}
    /\ UNCHANGED <<result, queue, reader, closed, server, emitted>>

\* _write_upstream: the write and the flush wait for room in the pipe, without
\* a time limit, until the server has exited.
Write ==
    /\ caller.pc = "write"
    /\ \/ /\ running /\ Len(input) < StdinSize
          /\ input' = Append(input, caller.id)
          /\ caller' = [caller EXCEPT !.pc = "wait"]
       \/ /\ ~running
          /\ caller' = [caller EXCEPT !.pc = "finally"]
          /\ UNCHANGED input
    /\ UNCHANGED <<result, shared, reader, running, closed, output, writing,
                   received, replies, others, emitted>>

\* reply.get returns.
Get ==
    /\ caller.pc = "wait" /\ queue[caller.id] # NONE
    /\ caller' = [caller EXCEPT !.pc = "finally", !.got = queue[caller.id]]
    /\ queue' = [queue EXCEPT ![caller.id] = NONE]
    /\ UNCHANGED <<result, pending, privateIds, reader, closed, server, emitted>>

\* Mutant of Timeout: the wait has no time limit while the reader runs.
TimeoutWhenEnded ==
    /\ caller.pc = "wait" /\ queue[caller.id] = NONE
    /\ reader.pc = "ended"
    /\ caller' = [caller EXCEPT !.pc = "finally"]
    /\ UNCHANGED <<result, shared, reader, closed, server, emitted>>

\* queue.Empty
Timeout ==
    /\ caller.pc = "wait" /\ queue[caller.id] = NONE
    /\ caller' = [caller EXCEPT !.pc = "finally"]
    /\ UNCHANGED <<result, shared, reader, closed, server, emitted>>

\* Mutant of Forget: a call that timed out is forgotten altogether.
ForgetAll(i, completed) == privateIds \ {i}

\* The private id is remembered until its late reply, if there was none.
Forget(i, completed) == IF completed THEN privateIds \ {i} ELSE privateIds

Finally ==
    /\ caller.pc = "finally"
    /\ pending' = pending \ {caller.id}
    /\ privateIds' = Forget(caller.id, caller.got # NONE)
    /\ result' = [result EXCEPT ![caller.id] =
                    IF caller.got = "reply" THEN "reply" ELSE "failed"]
    /\ caller' = [caller EXCEPT !.pc = "idle"]
    /\ UNCHANGED <<queue, reader, closed, server, emitted>>

\* What is left of the server's pipes once it has exited.
ServerGone ==
    /\ running' = FALSE /\ input' = << >> /\ writing' = NONE
    /\ UNCHANGED <<output, received, replies, others>>

\* close, at the client's end of input.
Close ==
    /\ caller.pc = "idle" /\ ~closed
    /\ closed' = TRUE
    /\ ServerGone
    /\ UNCHANGED <<caller, result, shared, reader, emitted>>

-----------------------------------------------------------------------------
(* _read_upstream, in the reader's thread *)

ReaderAt(pc) == reader.pc = pc

ReaderGoTo(pc, line) == reader' = [pc |-> pc, line |-> line]

\* A line is read and its id is looked up.
Read ==
    LET line == Head(output) IN
    /\ ReaderAt("read") /\ output # << >>
    /\ output' = Tail(output)
    /\ CASE line = BAD -> ReaderGoTo("failing", NONE)
         [] line \in pending -> ReaderGoTo("put", line)
         [] line \in privateIds \ pending -> ReaderGoTo("drop", line)
         [] line # BAD /\ line \notin pending \cup privateIds ->
              ReaderGoTo("emit", line)
    /\ UNCHANGED <<caller, result, shared, running, closed, input, writing,
                   received, replies, others, emitted>>

\* waiter.put: it blocks while the queue is full.
Put ==
    /\ ReaderAt("put") /\ queue[reader.line] = NONE
    /\ queue' = [queue EXCEPT ![reader.line] = "reply"]
    /\ ReaderGoTo("read", NONE)
    /\ UNCHANGED <<caller, result, pending, privateIds, closed, server, emitted>>

\* _emit_raw: it blocks while the client does not read.
Emit ==
    /\ ReaderAt("emit")
    /\ emitted' = emitted \cup {reader.line}
    /\ ReaderGoTo("read", NONE)
    /\ UNCHANGED <<caller, result, shared, closed, server>>

\* The client's end of the pipe is closed: OSError.
EmitFails ==
    /\ ReaderAt("emit")
    /\ ReaderGoTo("failing", NONE)
    /\ UNCHANGED <<caller, result, shared, closed, server, emitted>>

\* A late reply.
Drop ==
    /\ ReaderAt("drop")
    /\ privateIds' = privateIds \ {reader.line}
    /\ ReaderGoTo("read", NONE)
    /\ UNCHANGED <<caller, result, pending, queue, closed, server, emitted>>

\* The server's output ends.
EndOfOutput ==
    /\ ReaderAt("read") /\ output = << >> /\ ~running
    /\ ReaderGoTo(IF closed THEN "ended" ELSE "failing", NONE)
    /\ UNCHANGED <<caller, result, shared, closed, server, emitted>>

\* _fail_pending: every waiter with an empty queue gets the error.  The thread
\* ends; the server goes on running.
FailPending ==
    /\ ReaderAt("failing")
    /\ queue' = [i \in Ids |-> IF i \in pending /\ queue[i] = NONE
                               THEN "transport_error" ELSE queue[i]]
    /\ ReaderGoTo("ended", NONE)
    /\ UNCHANGED <<caller, result, pending, privateIds, closed, server, emitted>>

-----------------------------------------------------------------------------
(* The server *)

\* It reads its stdin, when it does, and not while a write of its own waits.
ServerReads ==
    /\ running /\ writing = NONE /\ input # << >>
    /\ input' = Tail(input)
    /\ received' = received \cup {Head(input)}
    /\ UNCHANGED <<caller, result, shared, reader, running, closed, output,
                   writing, replies, others, emitted>>

\* It answers a call, perhaps late, perhaps again.
ServerAnswers(i) ==
    /\ running /\ writing = NONE
    /\ i \in received /\ replies[i] < MaxReplies
    /\ replies' = [replies EXCEPT ![i] = @ + 1]
    /\ writing' = i
    /\ UNCHANGED <<caller, result, shared, reader, running, closed, input, output,
                   received, others, emitted>>

Other(line) ==
    /\ running /\ writing = NONE /\ others < MaxOthers
    /\ others' = others + 1
    /\ writing' = line
    /\ UNCHANGED <<caller, result, shared, reader, running, closed, input, output,
                   received, replies, emitted>>

\* Its line goes into the pipe once there is room.
Flush ==
    /\ writing # NONE /\ Len(output) < StdoutSize
    /\ output' = Append(output, writing)
    /\ writing' = NONE
    /\ UNCHANGED <<caller, result, shared, reader, running, closed, input, received,
                   replies, others, emitted>>

Exit ==
    /\ running
    /\ ServerGone
    /\ UNCHANGED <<caller, result, shared, reader, closed, emitted>>

-----------------------------------------------------------------------------
Caller == CallTool \/ Write \/ Get \/ Timeout \/ Finally \/ Close

Emits == Emit \/ EmitFails

Handles == Read \/ Put \/ Drop \/ EndOfOutput \/ FailPending

Server ==
    \/ ServerReads \/ Flush \/ Exit
    \/ \E i \in Ids : ServerAnswers(i)
    \/ \E line \in {CLIENT, BAD} : Other(line)

SessionNext == Caller \/ Handles \/ Emits \/ Server

SessionSpec == SessionInit /\ [][SessionNext]_sessionVars

\* Both threads run, and get has a timeout.  A write that finds no room does not
\* go on, and neither the server nor the client has to read.
FairSessionSpec ==
    /\ SessionSpec
    /\ WF_sessionVars(Write) /\ WF_sessionVars(Get \/ Timeout)
    /\ WF_sessionVars(Finally) /\ WF_sessionVars(Handles)

=============================================================================
