--------------------- MODULE UpstreamSessionProperties ---------------------
(* What the session with an upstream server promises: properties of        *)
(* UpstreamSession.                                                        *)
EXTENDS UpstreamSession

\* The client never sees the reply to a private call: neither the one the call
\* waited for nor one that comes after its timeout.  Only a server that answers
\* a call twice gets the second answer through.
PrivateRepliesKept ==
    \A i \in emitted \cap Ids : replies[i] > 1

\* The client reads what it is sent, or goes away.
ClientReads == WF_sessionVars(Emits)

\* The server goes on reading its stdin unless it waits for room in its stdout.
ServerReadsOn == SF_sessionVars(ServerReads) /\ WF_sessionVars(Flush)

\* _write_upstream waits for room in the pipe to the server.
WriteBlocked ==
    caller.pc = "write" /\ running /\ Len(input) = StdinSize

\* A server answered twice in the window between a call's timeout and the
\* removal of its waiter: the reader waits in put on a queue that nobody reads.
ReaderStuck ==
    /\ reader.pc = "put" /\ replies[reader.line] > 1
    /\ queue[reader.line] # NONE
    /\ ~(caller.pc = "wait" /\ caller.id = reader.line)

\* Whatever the server does, a call returns, unless it is blocked for ever in
\* the write to a server that runs and reads no more: the timeout covers only
\* the wait for the reply.  Every line of the server is read until its output
\* ends or is broken or the reader is stuck, if the client reads.  And a server
\* that stops reading only while its own output is full blocks no call for ever,
\* unless the reader has left that output alone: it ended at a bad line while the
\* server ran on, or it is stuck.
NobodyWaitsForEver ==
    /\ (caller.pc # "idle") ~> (caller.pc = "idle" \/ []WriteBlocked)
    /\ ClientReads =>
         (output # << >>) ~> (output = << >> \/ reader.pc = "ended" \/ ReaderStuck)
    /\ ClientReads /\ ServerReadsOn =>
         (caller.pc # "idle") ~> \/ caller.pc = "idle"
                                 \/ reader.pc = "ended"
                                 \/ ReaderStuck

=============================================================================
