--------------------------- MODULE SessionStreams ---------------------------
(***************************************************************************)
(* The in-flight requests of one session: Session.attach, detach,          *)
(* newStream, dropStream and stream.finish of internal/server/session.go,  *)
(* serveTunnel, pumpRequestBody, readLoop and keepalive of                 *)
(* internal/server/proxy.go, and the end of handleTunnel.                  *)
(*                                                                         *)
(* A public request is one goroutine (serve) with a second one that pumps  *)
(* its body; a connection has the goroutine that attached it, a read loop  *)
(* and a keepalive.  They meet in the stream table, under Session.mu, and  *)
(* in the channels and the pipe of a stream.  The client is any program    *)
(* that answers each RequestHead with a ResponseHead, bodies and an End,   *)
(* or with an Abort: it is modelled by what the read loop may receive.     *)
(***************************************************************************)
EXTENDS Naturals, FiniteSets

CONSTANTS
    Reqs,     \* public requests
    Uploads,  \* those of them that have a body
    Conns,    \* tunnel connections, each attached once
    None,     \* Go's nil
    Chunks    \* bound: ResponseBody frames of one response

ASSUME ReqsAssumption == IsFiniteSet(Reqs) /\ Uploads \subseteq Reqs
ASSUME NoneAssumption == None \notin Reqs \cup Conns
ASSUME ChunksAssumption == Chunks \in Nat

VARIABLES
    conn,        \* Session.conn
    streams,     \* Session.streams
    nextStream,  \* Session.nextStream
    st,          \* the stream object of a request
    serve,       \* serveTunnel: where it is
    pump,        \* pumpRequestBody: where it is
    link,        \* a connection's socket, as the server can see it
    upgrade,     \* handleTunnel from attach on, and whom it displaced
    sweep,       \* streams that attach or detach has taken out, to be finished
    reader,      \* readLoop: where it is, and the stream it is writing to
    keeper,      \* keepalive runs
    reply        \* what the client was sent, and has answered, for a request

session  == <<conn, streams, nextStream>>
requests == <<serve, pump>>
sockets  == <<link, upgrade, sweep, keeper>>
vars     == <<session, st, requests, sockets, reader, reply>>

StreamIds == 1..Cardinality(Reqs)
Table     == {r \in Reqs : \E id \in StreamIds : streams[id] = r}
NoTable   == [id \in StreamIds |-> None]
Swept     == [close |-> FALSE, left |-> {}]
Upgraded  == [pc |-> "done", old |-> None]
NewObject == [id |-> 0, conn |-> None, head |-> FALSE, err |-> FALSE, body |-> "none"]

Init ==
    /\ conn = None
    /\ streams = NoTable
    /\ nextStream = 0
    /\ st = [r \in Reqs |-> NewObject]
    /\ serve = [r \in Reqs |-> "idle"]
    /\ pump = [r \in Reqs |-> "off"]
    /\ link = [c \in Conns |-> "open"]
    /\ upgrade = [c \in Conns |-> [pc |-> "none", old |-> None]]
    /\ sweep = [c \in Conns |-> Swept]
    /\ reader = [c \in Conns |-> [pc |-> "off", to |-> None]]
    /\ keeper = [c \in Conns |-> FALSE]
    /\ reply = [r \in Reqs |-> [asked |-> FALSE, head |-> FALSE, chunks |-> 0, ended |-> FALSE]]

\* Mutant of Finished: the waiting handler is not told.
FinishedSilently(q, how) ==
    IF q # None /\ st[q].body = "open" THEN [st EXCEPT ![q].body = how] ELSE st

\* stream.finish on the stream object of q: the first call counts.
Finished(q, how) ==
    IF q # None /\ st[q].body = "open"
    THEN [st EXCEPT ![q] = [@ EXCEPT !.body = how, !.err = (how = "failed")]]
    ELSE st

-----------------------------------------------------------------------------
(* Connections.                                                             *)

\* Mutant of Attach: stream ids start again.
AttachResetsIds(c) ==
    /\ upgrade[c].pc = "none"
    /\ upgrade' = [upgrade EXCEPT ![c] = [pc |-> "hello", old |-> conn]]
    /\ sweep' = IF conn = None THEN sweep
                ELSE [sweep EXCEPT ![conn] = [close |-> TRUE, left |-> Table]]
    /\ conn' = c
    /\ streams' = NoTable
    /\ nextStream' = 0
    /\ UNCHANGED <<st, requests, link, keeper, reader, reply>>

\* Mutant of Attach: the streams of the displaced connection stay in the table.
AttachKeepsTable(c) ==
    /\ upgrade[c].pc = "none"
    /\ upgrade' = [upgrade EXCEPT ![c] = [pc |-> "hello", old |-> conn]]
    /\ sweep' = IF conn = None THEN sweep
                ELSE [sweep EXCEPT ![conn] = [close |-> TRUE, left |-> Table]]
    /\ conn' = c
    /\ UNCHANGED <<streams, nextStream, st, requests, link, keeper, reader, reply>>

\* attach, the part under Session.mu.
Attach(c) ==
    /\ upgrade[c].pc = "none"
    /\ upgrade' = [upgrade EXCEPT ![c] = [pc |-> "hello", old |-> conn]]
    /\ sweep' = IF conn = None THEN sweep
                ELSE [sweep EXCEPT ![conn] = [close |-> TRUE, left |-> Table]]
    /\ conn' = c
    /\ streams' = NoTable
    /\ UNCHANGED <<nextStream, st, requests, link, keeper, reader, reply>>

\* Mutant of Detach: the map is replaced before it is walked.
DetachForgets(c) ==
    IF conn = c
    THEN /\ conn' = None
         /\ streams' = NoTable
         /\ sweep' = [sweep EXCEPT ![c] = [close |-> TRUE, left |-> {}]]
    ELSE UNCHANGED <<conn, streams, sweep>>

\* detach(c), the part under Session.mu.
Detach(c) ==
    IF conn = c
    THEN /\ conn' = None
         /\ streams' = NoTable
         /\ sweep' = [sweep EXCEPT ![c] = [close |-> TRUE, left |-> Table]]
    ELSE UNCHANGED <<conn, streams, sweep>>

\* attach and detach after the unlock: the connection is closed first, then
\* the streams are failed one by one, in no particular order.
SweepCloses(c) ==
    /\ sweep[c].close
    /\ link' = [link EXCEPT ![c] = "closed"]
    /\ sweep' = [sweep EXCEPT ![c].close = FALSE]
    /\ UNCHANGED <<session, st, requests, upgrade, keeper, reader, reply>>

SweepFails(c, r) ==
    /\ ~sweep[c].close
    /\ r \in sweep[c].left
    /\ st' = Finished(r, "failed")
    /\ sweep' = [sweep EXCEPT ![c].left = @ \ {r}]
    /\ UNCHANGED <<session, requests, link, upgrade, keeper, reader, reply>>

\* handleTunnel goes on when attach has returned.
AttachReturned(c) ==
    /\ upgrade[c].pc = "hello"
    /\ upgrade[c].old # None => sweep[upgrade[c].old] = Swept

HelloSent(c) ==
    /\ AttachReturned(c)
    /\ link[c] # "closed"
    /\ upgrade' = [upgrade EXCEPT ![c] = Upgraded]
    /\ reader' = [reader EXCEPT ![c].pc = "read"]
    /\ keeper' = [keeper EXCEPT ![c] = TRUE]
    /\ UNCHANGED <<session, st, requests, link, sweep, reply>>

HelloFails(c) ==
    /\ AttachReturned(c)
    /\ link[c] # "open"
    /\ upgrade' = [upgrade EXCEPT ![c] = Upgraded]
    /\ Detach(c)
    /\ UNCHANGED <<nextStream, st, requests, link, keeper, reader, reply>>

\* Delete, for the session's removal: whatever is attached is detached, and
\* its socket is still open.  A handler of POST /_tunnel/connect that looked
\* the session up before attaches to it all the same.
Deleted(c) ==
    /\ conn = c
    /\ Detach(c)
    /\ UNCHANGED <<nextStream, st, requests, link, upgrade, keeper, reader, reply>>

\* Mutant of KeepaliveFails: it leaves the teardown to the read loop.
KeepaliveGivesUp(c) ==
    /\ keeper[c]
    /\ link[c] # "open"
    /\ keeper' = [keeper EXCEPT ![c] = FALSE]
    /\ UNCHANGED <<session, st, requests, link, upgrade, sweep, reader, reply>>

\* A ping cannot be written.  The other way out of keepalive, at the server's
\* orderly shutdown, is left out: the process ends with it.
KeepaliveFails(c) ==
    /\ keeper[c]
    /\ link[c] # "open"
    /\ keeper' = [keeper EXCEPT ![c] = FALSE]
    /\ Detach(c)
    /\ UNCHANGED <<nextStream, st, requests, link, upgrade, reader, reply>>

\* The network or the client drops the connection.
Lose(c) ==
    /\ upgrade[c].pc # "none"
    /\ link[c] = "open"
    /\ link' = [link EXCEPT ![c] = "lost"]
    /\ UNCHANGED <<session, st, requests, upgrade, sweep, keeper, reader, reply>>

-----------------------------------------------------------------------------
(* readLoop.  Frames that were buffered when the socket died are still      *)
(* read, and a lookup and what it leads to are one step: a stream object    *)
(* that leaves the table in between ends up the same.                       *)

Found(r) == streams[st[r].id]

\* The next frame on c answers r, and its stream is found.  A frame for a
\* stream that is not in the table is read and dropped: nothing changes.
Answers(c, r) ==
    /\ reader[c].pc = "read"
    /\ st[r].conn = c /\ reply[r].asked
    /\ ~reply[r].ended
    /\ Found(r) # None

RecvHead(c, r) ==
    /\ Answers(c, r)
    /\ ~reply[r].head
    /\ reply' = [reply EXCEPT ![r].head = TRUE]
    /\ st' = [st EXCEPT ![Found(r)].head = TRUE]
    /\ UNCHANGED <<session, requests, sockets, reader>>

\* A head that is not valid JSON ends the stream; the client knows nothing of
\* it and may go on.
RecvBadHead(c, r) ==
    /\ Answers(c, r)
    /\ st' = Finished(Found(r), "failed")
    /\ UNCHANGED <<session, requests, sockets, reader, reply>>

\* Write on the stream's pipe blocks until the caller's goroutine reads; on a
\* closed pipe it fails at once, and the frame is dropped.
RecvBody(c, r) ==
    /\ Answers(c, r)
    /\ reply[r].head
    /\ reply[r].chunks < Chunks
    /\ st[Found(r)].body = "open"
    /\ reply' = [reply EXCEPT ![r].chunks = @ + 1]
    /\ reader' = [reader EXCEPT ![c] = [pc |-> "write", to |-> Found(r)]]
    /\ UNCHANGED <<session, st, requests, sockets>>

\* finish has closed the pipe under a blocked Write.
WriteReleased(c) ==
    /\ reader[c].pc = "write"
    /\ st[reader[c].to].body # "open"
    /\ reader' = [reader EXCEPT ![c] = [pc |-> "read", to |-> None]]
    /\ UNCHANGED <<session, st, requests, sockets, reply>>

RecvEnd(c, r) ==
    /\ Answers(c, r)
    /\ reply[r].head
    /\ reply' = [reply EXCEPT ![r].ended = TRUE]
    /\ st' = Finished(Found(r), "eof")
    /\ UNCHANGED <<session, requests, sockets, reader>>

RecvAbort(c, r) ==
    /\ Answers(c, r)
    /\ reply' = [reply EXCEPT ![r].ended = TRUE]
    /\ st' = Finished(Found(r), "failed")
    /\ UNCHANGED <<session, requests, sockets, reader>>

ReadFails(c) ==
    /\ reader[c].pc = "read"
    /\ link[c] # "open"
    /\ reader' = [reader EXCEPT ![c].pc = "off"]
    /\ Detach(c)
    /\ UNCHANGED <<nextStream, st, requests, link, upgrade, keeper, reply>>

-----------------------------------------------------------------------------
(* serveTunnel and pumpRequestBody.                                         *)

Offline(r) ==
    /\ serve[r] = "idle"
    /\ conn = None
    /\ serve' = [serve EXCEPT ![r] = "done"]
    /\ UNCHANGED <<session, st, pump, sockets, reader, reply>>

\* The caller goes on with the connection newStream returned.
NewStream(r) ==
    /\ serve[r] = "idle"
    /\ conn # None
    /\ nextStream' = nextStream + 1
    /\ streams' = [streams EXCEPT ![nextStream + 1] = r]
    /\ st' = [st EXCEPT ![r] = [NewObject EXCEPT !.id = nextStream + 1, !.conn = conn,
                                                 !.body = "open"]]
    /\ serve' = [serve EXCEPT ![r] = "head"]
    /\ UNCHANGED <<conn, pump, sockets, reader, reply>>

HeadSent(r) ==
    /\ serve[r] = "head"
    /\ link[st[r].conn] # "closed"
    /\ serve' = [serve EXCEPT ![r] = "wait"]
    /\ pump' = [pump EXCEPT ![r] = IF r \in Uploads THEN "body" ELSE "ended"]
    /\ reply' = [reply EXCEPT ![r].asked = (link[st[r].conn] = "open")]
    /\ UNCHANGED <<session, st, link, upgrade, sweep, keeper, reader>>

\* The connection is gone, or the head is larger than a frame may be.
HeadFails(r) ==
    /\ serve[r] = "head"
    /\ serve' = [serve EXCEPT ![r] = "drop"]
    /\ UNCHANGED <<session, st, pump, sockets, reader, reply>>

\* The four ways out of the select; Go picks among those that are ready.
GotHead(r) ==
    /\ serve[r] = "wait"
    /\ st[r].head
    /\ serve' = [serve EXCEPT ![r] = "stream"]
    /\ UNCHANGED <<session, st, pump, sockets, reader, reply>>

GotErr(r) ==
    /\ serve[r] = "wait"
    /\ st[r].err
    /\ serve' = [serve EXCEPT ![r] = "drop"]
    /\ UNCHANGED <<session, st, pump, sockets, reader, reply>>

\* The caller went away, or 60 s have passed; the client is sent an Abort.
GivesUp(r) ==
    /\ serve[r] = "wait"
    /\ serve' = [serve EXCEPT ![r] = "drop"]
    /\ UNCHANGED <<session, st, pump, sockets, reader, reply>>

\* A chunk passes from a blocked Write to the caller, who may be gone.
PassChunk(r, c) ==
    /\ serve[r] = "stream"
    /\ reader[c] = [pc |-> "write", to |-> r]
    /\ reader' = [reader EXCEPT ![c] = [pc |-> "read", to |-> None]]
    /\ serve' \in {serve, [serve EXCEPT ![r] = "drop"]}
    /\ UNCHANGED <<session, st, pump, sockets, reply>>

\* The pipe is closed, with io.EOF or with another error: the loop ends.
EndOfBody(r) ==
    /\ serve[r] = "stream"
    /\ st[r].body # "open"
    /\ serve' = [serve EXCEPT ![r] = "join"]
    /\ UNCHANGED <<session, st, pump, sockets, reader, reply>>

\* bodyDone.
Joined(r) ==
    /\ serve[r] = "join"
    /\ pump[r] = "ended"
    /\ serve' = [serve EXCEPT ![r] = "drop"]
    /\ UNCHANGED <<session, st, pump, sockets, reader, reply>>

\* Mutant of Drop: the stream is taken out, its pipe left as it is.
DropLeavesPipe(r) ==
    /\ serve[r] = "drop"
    /\ streams' = [streams EXCEPT ![st[r].id] = None]
    /\ serve' = [serve EXCEPT ![r] = "done"]
    /\ pump' = [pump EXCEPT ![r] = "off"]
    /\ UNCHANGED <<conn, nextStream, st, sockets, reader, reply>>

\* dropStream, deferred: by id, whatever stream is there now.  The stream is
\* taken out under Session.mu and finished after it; in between nobody but
\* a read loop that found it before can see the object, and what such a read
\* loop does to it then it may as well have done before.  The handler returns;
\* a pump that still runs finds the body closed, and nobody waits for it.
Drop(r) ==
    /\ serve[r] = "drop"
    /\ streams' = [streams EXCEPT ![st[r].id] = None]
    /\ st' = Finished(Found(r), "failed")
    /\ serve' = [serve EXCEPT ![r] = "done"]
    /\ pump' = [pump EXCEPT ![r] = "off"]
    /\ UNCHANGED <<conn, nextStream, sockets, reader, reply>>

\* The body has been read to its end, or reading or forwarding it failed;
\* RequestEnd is sent in any case.
PumpEnds(r) ==
    /\ pump[r] = "body"
    /\ pump' = [pump EXCEPT ![r] = "ended"]
    /\ UNCHANGED <<session, st, serve, sockets, reader, reply>>

ReadLoop(c) ==
    \/ \E r \in Reqs : \/ RecvHead(c, r) \/ RecvBadHead(c, r) \/ RecvBody(c, r)
                      \/ RecvEnd(c, r) \/ RecvAbort(c, r)
    \/ WriteReleased(c)
    \/ ReadFails(c)

Connection(c) ==
    \/ Attach(c) \/ HelloSent(c) \/ HelloFails(c)
    \/ SweepCloses(c) \/ \E r \in sweep[c].left : SweepFails(c, r)
    \/ Deleted(c) \/ KeepaliveFails(c) \/ Lose(c)

Request(r) ==
    \/ Offline(r) \/ NewStream(r) \/ HeadSent(r) \/ HeadFails(r)
    \/ GotHead(r) \/ GotErr(r) \/ GivesUp(r)
    \/ \E c \in Conns : PassChunk(r, c)
    \/ EndOfBody(r) \/ Joined(r) \/ Drop(r) \/ PumpEnds(r)

Next == \/ \E c \in Conns : ReadLoop(c) \/ Connection(c)
        \/ \E r \in Reqs : Request(r)

Spec == Init /\ [][Next]_vars

\* The server's goroutines keep running and notice a dead socket.  Nothing is
\* assumed of the network, of the client's answers or of the callers, and
\* the 60 s timeout is not counted on.
ServerFairness ==
    /\ \A c \in Conns :
          /\ WF_vars(SweepCloses(c) \/ \E r \in sweep[c].left : SweepFails(c, r))
          /\ WF_vars(HelloSent(c) \/ HelloFails(c))
          /\ WF_vars(KeepaliveFails(c))
          /\ WF_vars(WriteReleased(c) \/ ReadFails(c))
    /\ \A r \in Reqs :
          WF_vars(\/ HeadSent(r) \/ HeadFails(r) \/ GotHead(r) \/ GotErr(r)
                  \/ EndOfBody(r) \/ Joined(r) \/ Drop(r))

FairSpec == Spec /\ ServerFairness

-----------------------------------------------------------------------------
Objects == [id : 0..Cardinality(Reqs), conn : Conns \cup {None},
            head : BOOLEAN, err : BOOLEAN, body : {"none", "open", "eof", "failed"}]
Upgrades == [pc : {"none", "hello", "done"}, old : Conns \cup {None}]
Sweeps == [close : BOOLEAN, left : SUBSET Reqs]
Replies == [asked : BOOLEAN, head : BOOLEAN, chunks : 0..Chunks, ended : BOOLEAN]
Readers == [pc : {"off", "read"}, to : {None}] \cup [pc : {"write"}, to : Reqs]

TypeOK ==
    /\ conn \in Conns \cup {None}
    /\ streams \in [StreamIds -> Reqs \cup {None}]
    /\ nextStream \in 0..Cardinality(Reqs)
    /\ st \in [Reqs -> Objects]
    /\ serve \in [Reqs -> {"idle", "head", "wait", "stream", "join", "drop", "done"}]
    /\ pump \in [Reqs -> {"off", "body", "ended"}]
    /\ link \in [Conns -> {"open", "lost", "closed"}]
    /\ upgrade \in [Conns -> Upgrades]
    /\ sweep \in [Conns -> Sweeps]
    /\ reader \in [Conns -> Readers]
    /\ keeper \in [Conns -> BOOLEAN]
    /\ reply \in [Reqs -> Replies]

\* A caller only ever gets the answer to its own request: what has reached
\* its stream object the client has sent for it, whatever connections have
\* come and gone meanwhile (nextStream is never reset; readLoop).
OwnFrames ==
    \A r \in Reqs :
        /\ st[r].head => reply[r].head
        /\ st[r].body = "eof" => reply[r].ended
        /\ \A c \in Conns : reader[c].to = r => reply[r].chunks > 0

\* No request is forgotten: one whose stream is still open, and one whose
\* handler waits and has neither an answer nor an error to take, is in the
\* table or in the hands of the attach or detach that emptied the table, so
\* somebody will end it before the 60 s are over (attach, detach, finish,
\* readLoop, dropStream).
NobodyForgotten ==
    \A r \in Reqs :
        \/ st[r].body = "open"
        \/ serve[r] = "wait" /\ ~st[r].head /\ ~st[r].err
        => \/ r \in Table
           \/ \E c \in Conns : r \in sweep[c].left

\* The table holds streams of the attached connection only, each of them
\* under its own id, and none whose handler has returned (newStream,
\* dropStream).
TableIsLive ==
    \A id \in StreamIds : streams[id] # None =>
        /\ st[streams[id]].id = id
        /\ conn # None /\ st[streams[id]].conn = conn
        /\ serve[streams[id]] # "done"

\* No request waits for ever whose connection has been displaced or detached:
\* whoever emptied the table ends it, whatever starts meanwhile on a new
\* connection and without the 60 s timeout (attach, detach, finish).
OrphansAnswered ==
    \A r \in Reqs : []<>~(serve[r] = "wait" /\ st[r].conn # conn)

\* Nor does one whose connection is dead, even while the read loop is blocked
\* on another caller and only the keepalive can notice (keepalive, readLoop).
DeadConnReleasesAll ==
    \A r \in Reqs : []<>~(serve[r] = "wait" /\ link[st[r].conn] # "open")

\* No read loop is blocked for ever on the pipe of a caller that has left, or
\* on any pipe once its connection has been displaced (dropStream, io.Pipe).
ReadLoopReleased ==
    \A c \in Conns :
        []<>~(/\ reader[c].pc = "write"
              /\ conn # c \/ serve[reader[c].to] \in {"drop", "done"})
=============================================================================
