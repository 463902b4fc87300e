---------------------------- MODULE ClientStreams ----------------------------
(***************************************************************************)
(* The tunnel client: Run, connectAndServe, serve, handle, drop and        *)
(* closeAll of tunnelclient/client.go.                                     *)
(*                                                                         *)
(* One goroutine (loop) connects, reads frames and connects again; each    *)
(* request has a goroutine that runs a local handler, or replays the       *)
(* request against a local server, and answers on the connection it came   *)
(* on.  They meet in Client.streams, under Client.mu, and in the pipe that *)
(* carries a request's body.  The table outlives a connection, and stream  *)
(* ids are the server's: they start again when the session is a new one or *)
(* when the server has restarted.  The server is modelled by the frames it *)
(* may send; the handler by what it may do to the body and the response.   *)
(***************************************************************************)
EXTENDS Naturals, FiniteSets

CONSTANTS
    Reqs,     \* tunneled requests
    None,     \* Go's nil
    Epochs,   \* bound: connections of one Run
    Chunks,   \* bound: RequestBody frames of one request
    Resets    \* TRUE: between connections the server may have forgotten the ids it gave

ASSUME ReqsAssumption == IsFiniteSet(Reqs) /\ None \notin Reqs
ASSUME BoundsAssumption == Epochs \in Nat /\ Chunks \in Nat
ASSUME ResetsAssumption == Resets \in BOOLEAN

VARIABLES
    epoch,      \* the number of the connection
    link,       \* its socket, as the client can see it
    loop,       \* Run: where it is, and the handler serve is writing to
    cancelled,  \* ctx is done
    streams,    \* Client.streams
    closing,    \* the inbounds closeAll has taken out, to be closed
    last,       \* the last stream id the server has given
    inb,        \* the inbound of a request: its stream, its connection, its body
    sent,       \* what the server has sent of a request
    handler,    \* handle: where it is
    resp        \* what it has written of the response

run      == <<epoch, link, loop, cancelled>>
table    == <<streams, closing>>
requests == <<handler, resp>>
server   == <<last, sent>>
vars     == <<run, table, server, inb, requests>>

Ids       == 1..Cardinality(Reqs)
NoTable   == [id \in Ids |-> None]
Held      == {r \in Reqs : \E id \in Ids : streams[id] = r}
NoInbound == [id |-> 0, epoch |-> 0, body |-> "none"]
Reading   == [pc |-> "read", to |-> None]

Init ==
    /\ epoch = 0
    /\ link = "closed"
    /\ loop = [pc |-> "dial", to |-> None]
    /\ cancelled = FALSE
    /\ streams = NoTable
    /\ closing = {}
    /\ last = 0
    /\ inb = [r \in Reqs |-> NoInbound]
    /\ sent = [r \in Reqs |-> [pc |-> "nothing", chunks |-> 0]]
    /\ handler = [r \in Reqs |-> "none"]
    /\ resp = [r \in Reqs |-> "nothing"]

\* inbound.close on the inbound of q: the first call counts.
Closed(q, how) ==
    IF q # None /\ inb[q].body = "open" THEN [inb EXCEPT ![q].body = how] ELSE inb

-----------------------------------------------------------------------------
(* Run and connectAndServe.                                                 *)

\* register, dialTunnel and what follows up to serve; a failed attempt
\* changes nothing.
Connect ==
    /\ loop.pc = "dial"
    /\ ~cancelled
    /\ epoch < Epochs
    /\ epoch' = epoch + 1
    /\ link' = "open"
    /\ loop' = Reading
    /\ last' \in IF Resets THEN {last, 0} ELSE {last}
    /\ UNCHANGED <<cancelled, table, sent, inb, requests>>

\* The network or the server drops the connection, or a ping cannot be
\* written and pinger closes it.
Lose ==
    /\ link = "open"
    /\ link' = "lost"
    /\ UNCHANGED <<epoch, loop, cancelled, table, server, inb, requests>>

Cancel ==
    /\ ~cancelled
    /\ cancelled' = TRUE
    /\ UNCHANGED <<epoch, link, loop, table, server, inb, requests>>

\* Mutant of CancelCloses: the connection is left to time out.
CancelUnnoticed ==
    /\ cancelled
    /\ link = "open"
    /\ UNCHANGED vars

\* The goroutine that waits for ctx closes the connection.
CancelCloses ==
    /\ cancelled
    /\ link = "open"
    /\ link' = "lost"
    /\ UNCHANGED <<epoch, loop, cancelled, table, server, inb, requests>>

RunReturns ==
    /\ loop.pc = "dial"
    /\ cancelled
    /\ loop' = [loop EXCEPT !.pc = "stopped"]
    /\ UNCHANGED <<epoch, link, cancelled, table, server, inb, requests>>

-----------------------------------------------------------------------------
(* serve.  Frames that were buffered when the socket died are still read.   *)

RecvHead(r) ==
    /\ loop.pc = "read"
    /\ sent[r].pc = "nothing"
    /\ last' = last + 1
    /\ sent' = [sent EXCEPT ![r].pc = "head"]
    /\ inb' = [inb EXCEPT ![r] = [id |-> last + 1, epoch |-> epoch, body |-> "open"]]
    /\ streams' = [streams EXCEPT ![last + 1] = r]
    /\ handler' = [handler EXCEPT ![r] = "run"]
    /\ UNCHANGED <<run, closing, resp>>

\* The next frame is about r.
Reads(r) ==
    /\ loop.pc = "read"
    /\ inb[r].epoch = epoch
    /\ sent[r].pc = "head"

Found(r) == streams[inb[r].id]

\* Write on the pipe blocks until the handler reads.
RecvBody(r) ==
    /\ Reads(r)
    /\ sent[r].chunks < Chunks
    /\ sent' = [sent EXCEPT ![r].chunks = @ + 1]
    /\ loop' = IF Found(r) # None /\ inb[Found(r)].body = "open"
               THEN [pc |-> "write", to |-> Found(r)] ELSE loop
    /\ UNCHANGED <<epoch, link, cancelled, table, last, inb, requests>>

\* The handler has returned, and with it the reading end of the pipe, or the
\* inbound has been closed.  A failed Write closes the inbound.
WriteReleased ==
    /\ loop.pc = "write"
    /\ handler[loop.to] = "return" \/ inb[loop.to].body # "open"
    /\ inb' = Closed(loop.to, "failed")
    /\ loop' = Reading
    /\ UNCHANGED <<epoch, link, cancelled, table, server, requests>>

RecvEnd(r) ==
    /\ Reads(r)
    /\ sent' = [sent EXCEPT ![r].pc = "end"]
    /\ inb' = Closed(Found(r), "eof")
    /\ UNCHANGED <<run, table, last, requests>>

\* Mutant of RecvAbort: drop comes first, and closes the pipe without an error.
RecvAbortDrops(r) ==
    /\ Reads(r)
    /\ sent' = [sent EXCEPT ![r].pc = "abort"]
    /\ inb' = Closed(Found(r), "eof")
    /\ streams' = [streams EXCEPT ![inb[r].id] = None]
    /\ UNCHANGED <<run, closing, last, requests>>

\* The inbound is closed with an error, then drop takes it out.
RecvAbort(r) ==
    /\ Reads(r)
    /\ sent' = [sent EXCEPT ![r].pc = "abort"]
    /\ inb' = Closed(Found(r), "failed")
    /\ streams' = [streams EXCEPT ![inb[r].id] = None]
    /\ UNCHANGED <<run, closing, last, requests>>

\* Mutant of ReadFails: the map is replaced before it is walked.
ReadFailsForgets ==
    /\ loop.pc = "read"
    /\ link = "lost"
    /\ loop' = [loop EXCEPT !.pc = "close"]
    /\ streams' = NoTable
    /\ closing' = {}
    /\ UNCHANGED <<epoch, link, cancelled, server, inb, requests>>

\* A read error or the read deadline; closeAll, the part under Client.mu.
ReadFails ==
    /\ loop.pc = "read"
    /\ link = "lost"
    /\ loop' = [loop EXCEPT !.pc = "close"]
    /\ streams' = NoTable
    /\ closing' = Held
    /\ UNCHANGED <<epoch, link, cancelled, server, inb, requests>>

\* closeAll after the unlock.
CloseAll(r) ==
    /\ r \in closing
    /\ inb' = Closed(r, "failed")
    /\ closing' = closing \ {r}
    /\ UNCHANGED <<run, streams, server, requests>>

\* serve and connectAndServe return; Run waits, and tries again.
ServeReturns ==
    /\ loop.pc = "close"
    /\ closing = {}
    /\ link' = "closed"
    /\ loop' = [loop EXCEPT !.pc = "dial"]
    /\ UNCHANGED <<epoch, cancelled, table, server, inb, requests>>

-----------------------------------------------------------------------------
(* handle, serveLocally, proxyToTarget and frameWriter.                     *)

Live(r) == inb[r].epoch = epoch /\ link = "open"

\* The handler takes a chunk from the pipe.
ReadsChunk(r) ==
    /\ handler[r] = "run"
    /\ loop = [pc |-> "write", to |-> r]
    /\ loop' = Reading
    /\ UNCHANGED <<epoch, link, cancelled, table, server, inb, requests>>

WritesHead(r) ==
    /\ handler[r] = "run"
    /\ resp[r] = "nothing"
    /\ Live(r)
    /\ resp' = [resp EXCEPT ![r] = "head"]
    /\ UNCHANGED <<run, table, server, inb, handler>>

\* The handler is done, the local server has answered, or writing failed;
\* on a live connection the response is ended or aborted.
Returns(r) ==
    /\ handler[r] = "run"
    /\ resp' = IF Live(r) THEN [resp EXCEPT ![r] = "end"] ELSE resp
    /\ handler' = [handler EXCEPT ![r] = "return"]
    /\ UNCHANGED <<run, table, server, inb>>

\* Mutant of Drop: the inbound is taken out and left open.
DropLeavesBody(r) ==
    /\ handler[r] = "return"
    /\ streams' = [streams EXCEPT ![inb[r].id] = None]
    /\ handler' = [handler EXCEPT ![r] = "done"]
    /\ UNCHANGED <<run, closing, server, inb, resp>>

\* Mutant of Drop: the inbound is closed and stays in the table.
DropKeepsEntry(r) ==
    /\ handler[r] = "return"
    /\ inb' = Closed(Found(r), "eof")
    /\ handler' = [handler EXCEPT ![r] = "done"]
    /\ UNCHANGED <<run, table, server, resp>>

\* drop, deferred: by id, whatever inbound is there now.  It is closed after
\* the unlock; in between only a Run that looked it up before can still write
\* to it, as it might have before the drop, so the two are one step.
Drop(r) ==
    /\ handler[r] = "return"
    /\ streams' = [streams EXCEPT ![inb[r].id] = None]
    /\ inb' = Closed(Found(r), "eof")
    /\ handler' = [handler EXCEPT ![r] = "done"]
    /\ UNCHANGED <<run, closing, server, resp>>

Serve ==
    \/ \E r \in Reqs : RecvHead(r) \/ RecvBody(r) \/ RecvEnd(r) \/ RecvAbort(r)
    \/ WriteReleased
    \/ ReadFails
    \/ \E r \in Reqs : CloseAll(r)
    \/ ServeReturns

Handle(r) == ReadsChunk(r) \/ WritesHead(r) \/ Returns(r) \/ Drop(r)

Next ==
    \/ Connect \/ Lose \/ Cancel \/ CancelCloses \/ RunReturns
    \/ Serve
    \/ \E r \in Reqs : Handle(r)

Spec == Init /\ [][Next]_vars

\* The client's own goroutines keep running; nothing is assumed of the
\* server, the network or the local handlers.
Fairness ==
    /\ WF_vars(CancelCloses) /\ WF_vars(RunReturns)
    /\ WF_vars(WriteReleased) /\ WF_vars(ReadFails) /\ WF_vars(ServeReturns)
    /\ \A r \in Reqs : WF_vars(CloseAll(r)) /\ WF_vars(Drop(r))

FairSpec == Spec /\ Fairness

\* As above, with local handlers that return in the end.
HandlersReturn == \A r \in Reqs : WF_vars(Returns(r))

ReturningSpec == FairSpec /\ HandlersReturn

-----------------------------------------------------------------------------
Loops == [pc : {"dial", "read", "close", "stopped"}, to : {None}] \cup [pc : {"write"}, to : Reqs]
Inbounds == [id : 0..Cardinality(Reqs), epoch : 0..Epochs, body : {"none", "open", "eof", "failed"}]

TypeOK ==
    /\ epoch \in 0..Epochs
    /\ link \in {"open", "lost", "closed"}
    /\ loop \in Loops
    /\ cancelled \in BOOLEAN
    /\ streams \in [Ids -> Reqs \cup {None}]
    /\ closing \subseteq Reqs
    /\ last \in 0..Cardinality(Reqs)
    /\ inb \in [Reqs -> Inbounds]
    /\ sent \in [Reqs -> [pc : {"nothing", "head", "end", "abort"}, chunks : 0..Chunks]]
    /\ handler \in [Reqs -> {"none", "run", "return", "done"}]
    /\ resp \in [Reqs -> {"nothing", "head", "end"}]

\* The handler of r reads the end of its request's body before the server has
\* sent it.
EndsEarly(r) == handler[r] = "run" /\ inb[r].body = "eof" /\ sent[r].pc # "end"

\* A handler that reads the end of its request's body has the whole of it:
\* a body that was aborted, or cut by the loss of the tunnel, ends with an
\* error (serve, closeAll, drop), as long as the server has not given the
\* request's stream id to another request too.
OwnIdBodiesComplete ==
    \A r \in Reqs : EndsEarly(r) => \E q \in Reqs \ {r} : inb[q].id = inb[r].id

\* What frame.go says of the ids: "Every proxied HTTP request gets its own odd,
\* monotonically increasing stream id".  Then the same holds of every body.
BodiesComplete == \A r \in Reqs : ~EndsEarly(r)

\* No body is left open that nobody will send or close, whoever reads it or
\* has stopped reading: one that is open is in the table of the connection it
\* came on, while serve reads from it, or closeAll is about to close it
\* (closeAll, drop).
NobodyStranded ==
    \A r \in Reqs : inb[r].body = "open" =>
        \/ r \in closing
        \/ r \in Held /\ inb[r].epoch = epoch /\ loop.pc \in {"read", "write"}

\* The table holds what came on this connection only, each under its own id
\* (closeAll; Client.streams outlives the connection).
TableIsCurrent ==
    \A id \in Ids : streams[id] # None =>
        /\ inb[streams[id]].id = id
        /\ inb[streams[id]].epoch = epoch
        /\ handler[streams[id]] # "done"

\* A client that has lost its tunnel goes back to connecting (README: "a
\* client that loses the tunnel reconnects with exponential backoff").
Reconnects ==
    (loop.pc \in {"read", "write"} /\ link # "open") ~> (loop.pc \in {"dial", "stopped"})

\* Run returns when ctx is cancelled (Run: "Run keeps a tunnel up until ctx
\* is canceled").
StopsWhenCancelled == cancelled ~> (loop.pc = "stopped")
=============================================================================
