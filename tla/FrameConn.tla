------------------------------ MODULE FrameConn ------------------------------
(***************************************************************************)
(* A tunnel's connection at both of its ends: ReadFrame and WriteFrame of   *)
(* internal/tunnel/frame.go, called by request goroutines, by the pinger    *)
(* (pinger in client.go, keepalive in proxy.go) and by the loop that reads  *)
(* (serve, readLoop) and answers a ping before it reads on.                 *)
(*                                                                         *)
(* A frame is its header and, but for pings and pongs, a payload ("body"    *)
(* stands for every such frame; those that end a stream have no payload     *)
(* either, and are left out).  A write that times out cuts a frame between  *)
(* these two parts, and a reader that meets anything but the next part      *)
(* takes it for a frame nobody wrote.  Frames are numbered in the order in  *)
(* which their writers got the write lock; what they carry is left out.     *)
(***************************************************************************)
EXTENDS Naturals, Sequences

CONSTANTS
    Handlers,   \* the client's goroutines that write frames of responses
    Pumps,      \* the server's that write frames of requests
    None,
    Buffer,     \* parts the sockets of one direction hold
    MaxCalls    \* bound: frames that callers and pinger of an end ask for

ASSUME NamesAssumption == (Handlers \cup Pumps \cup {None}) \cap {"pinger", "loop"} = {}
ASSUME NoneAssumption == None \notin Handlers \cup Pumps
ASSUME BufferAssumption == Buffer \in Nat \ {0}
ASSUME MaxCallsAssumption == MaxCalls \in Nat

VARIABLES
    calls,     \* how many frames were asked for, pongs not counted
    job,       \* the frame a goroutine is in WriteFrame with, "none", or "over"
    wmu,       \* who holds Conn.wmu
    broken,    \* bufio.Writer holds an error, which it never forgets
    started,   \* the frames whose writing began, in order
    wire,      \* the parts an end has handed to its socket, ever
    taken,     \* how many of those the other end has read
    header,    \* the frame whose header it read last and whose payload is due, or 0
    got,       \* the frames it has returned from ReadFrame (0: one nobody wrote)
    closed     \* this end has closed the connection

writing == <<calls, job, wmu, broken, started, wire>>
reading == <<taken, header, got>>
vars    == <<writing, reading, closed>>

Ends       == {"client", "server"}
Peer(e)    == IF e = "client" THEN "server" ELSE "client"
Callers(e) == IF e = "client" THEN Handlers ELSE Pumps
Goroutines == Handlers \cup Pumps \cup {"pinger", "loop"}
Kinds      == {"body", "ping", "pong"}
Parts(kind) == IF kind = "body" THEN 2 ELSE 1
NoJob      == {"none", "over"}
Part       == [frame : Nat \ {0}, part : 1 .. 2]

Init ==
    /\ calls = [e \in Ends |-> 0]
    /\ job = [e \in Ends |-> [g \in Goroutines |-> "none"]]
    /\ wmu = [e \in Ends |-> None]
    /\ broken = [e \in Ends |-> FALSE]
    /\ started = [e \in Ends |-> <<>>]
    /\ wire = [e \in Ends |-> <<>>]
    /\ taken = [e \in Ends |-> 0]
    /\ header = [e \in Ends |-> 0]
    /\ got = [e \in Ends |-> <<>>]
    /\ closed = [e \in Ends |-> FALSE]

-----------------------------------------------------------------------------
(* WriteFrame.                                                              *)

\* A request's goroutine calls WriteFrame; a WriteBody of several frames is
\* several calls, between which the lock is free.
Call(e, g) ==
    /\ job[e][g] = "none"
    /\ calls[e] < MaxCalls
    /\ job' = [job EXCEPT ![e][g] = "body"]
    /\ calls' = [calls EXCEPT ![e] = @ + 1]
    /\ UNCHANGED <<wmu, broken, started, wire, reading, closed>>

\* The pinger's ticker.  The bound does not keep it from finding an error.
Tick(e) ==
    /\ job[e]["pinger"] = "none"
    /\ calls[e] < MaxCalls \/ broken[e]
    /\ job' = [job EXCEPT ![e]["pinger"] = "ping"]
    /\ calls' = [calls EXCEPT ![e] = IF broken[e] THEN @ ELSE @ + 1]
    /\ UNCHANGED <<wmu, broken, started, wire, reading, closed>>

\* Mutant of Lock: an earlier error is forgotten, as if every frame had a
\* writer of its own.
LockAnyway(e, g) ==
    /\ job[e][g] \notin NoJob
    /\ wmu[e] = None
    /\ wmu' = [wmu EXCEPT ![e] = g]
    /\ started' = [started EXCEPT ![e] = Append(@, job[e][g])]
    /\ UNCHANGED <<calls, job, broken, wire, reading, closed>>

\* The write lock is taken and the deadline set.
Lock(e, g) ==
    /\ job[e][g] \notin NoJob
    /\ wmu[e] = None
    /\ ~broken[e]
    /\ wmu' = [wmu EXCEPT ![e] = g]
    /\ started' = [started EXCEPT ![e] = Append(@, job[e][g])]
    /\ UNCHANGED <<calls, job, broken, wire, reading, closed>>

\* Mutant of Returns: the pinger goes on after an error.
ReturnsOnly(e, g) ==
    /\ job' = [job EXCEPT ![e][g] = "none"]
    /\ UNCHANGED closed

\* WriteFrame returns an error to g.  Requests and the loop go on; the
\* pinger closes the connection and ends.
Returns(e, g) ==
    /\ job' = [job EXCEPT ![e][g] = IF g = "pinger" THEN "over" ELSE "none"]
    /\ closed' = [closed EXCEPT ![e] = @ \/ g = "pinger"]

\* The error of an earlier frame is still there.
Refused(e, g) ==
    /\ job[e][g] \notin NoJob
    /\ wmu[e] = None
    /\ broken[e]
    /\ Returns(e, g)
    /\ UNCHANGED <<calls, wmu, broken, started, wire, reading>>

\* The part of frame n that is due when w is on the wire.
Due(w, n) == [frame |-> n, part |-> IF w # <<>> /\ w[Len(w)].frame = n THEN 2 ELSE 1]

\* Mutant of Put: the lock is held for one part, not for the frame.
PutPerPart(e, g) ==
    /\ wmu[e] = g
    /\ ~closed[e]
    /\ Len(wire[e]) - taken[e] < Buffer
    /\ wire' = [wire EXCEPT ![e] = Append(@, Due(wire[e], Len(started[e])))]
    /\ wmu' = [wmu EXCEPT ![e] = None]
    /\ UNCHANGED <<calls, job, broken, started, reading, closed>>

\* The socket takes the next part; with the last one WriteFrame returns nil.
Put(e, g) ==
    LET due == Due(wire[e], Len(started[e])) IN
    /\ wmu[e] = g
    /\ ~closed[e]
    /\ Len(wire[e]) - taken[e] < Buffer
    /\ wire' = [wire EXCEPT ![e] = Append(@, due)]
    /\ IF due.part = Parts(job[e][g])
       THEN /\ wmu' = [wmu EXCEPT ![e] = None]
            /\ job' = [job EXCEPT ![e][g] = "none"]
       ELSE UNCHANGED <<wmu, job>>
    /\ UNCHANGED <<calls, broken, started, reading, closed>>

\* Mutant of Fail: there is no WriteTimeout.
FailWhenGone(e, g) ==
    /\ wmu[e] = g
    /\ closed[e]
    /\ wmu' = [wmu EXCEPT ![e] = None]
    /\ broken' = [broken EXCEPT ![e] = TRUE]
    /\ Returns(e, g)
    /\ UNCHANGED <<calls, started, wire, reading>>

\* The rest of the frame is not written: WriteTimeout has passed, or the
\* connection is closed.
Fail(e, g) ==
    /\ wmu[e] = g
    /\ wmu' = [wmu EXCEPT ![e] = None]
    /\ broken' = [broken EXCEPT ![e] = TRUE]
    /\ Returns(e, g)
    /\ UNCHANGED <<calls, started, wire, reading>>

-----------------------------------------------------------------------------
(* ReadFrame, called by the loop of the other end.                          *)

\* The loop of end Peer(e) reads the next part of what e has written.  With
\* the last part of a frame ReadFrame returns, and a ping is answered before
\* the next frame is read.
Read(e) ==
    LET r == Peer(e)
        x == wire[e][taken[e] + 1]
        kind == started[e][x.frame]
        due == x = IF header[e] = 0 THEN [x EXCEPT !.part = 1]
                                  ELSE [frame |-> header[e], part |-> 2]
        whole == due /\ x.part = Parts(kind)
    IN
    /\ job[r]["loop"] = "none"
    /\ ~closed[r]
    /\ taken[e] < Len(wire[e])
    /\ taken' = [taken EXCEPT ![e] = @ + 1]
    /\ IF due /\ ~whole
       THEN /\ header' = [header EXCEPT ![e] = x.frame]
            /\ UNCHANGED <<got, job>>
       ELSE /\ header' = [header EXCEPT ![e] = 0]
            /\ got' = [got EXCEPT ![e] = Append(@, IF whole THEN x.frame ELSE 0)]
            /\ job' = IF whole /\ kind = "ping" THEN [job EXCEPT ![r]["loop"] = "pong"] ELSE job
    /\ UNCHANGED <<calls, wmu, broken, started, wire, closed>>

\* ReadFrame fails: the loop ends, and with it the connection at this end
\* (detach, or the deferred Close of connectAndServe).
LoopEnds(r) ==
    /\ job[r]["loop"] = "none"
    /\ \/ closed[r]
       \/ closed[Peer(r)] /\ taken[Peer(r)] = Len(wire[Peer(r)])
    /\ job' = [job EXCEPT ![r]["loop"] = "over"]
    /\ closed' = [closed EXCEPT ![r] = TRUE]
    /\ UNCHANGED <<calls, wmu, broken, started, wire, reading>>

-----------------------------------------------------------------------------
\* The connection is closed for another reason: displacement, Delete, a
\* cancelled context, or a read deadline.  A link that the network has dropped
\* is one on which each end comes to this in its own time, or to a write that
\* fails, and bytes under way are not read.
Close(e) ==
    /\ ~closed[e]
    /\ closed' = [closed EXCEPT ![e] = TRUE]
    /\ UNCHANGED <<writing, reading>>

Write(e, g) == Lock(e, g) \/ Refused(e, g) \/ Put(e, g) \/ Fail(e, g)

Next ==
    \/ \E e \in Ends :
          \/ \E g \in Callers(e) : Call(e, g)
          \/ \E g \in Goroutines : Write(e, g)
          \/ Tick(e) \/ Read(e) \/ LoopEnds(e) \/ Close(e)

Spec == Init /\ [][Next]_vars

\* Goroutines take their steps, tickers tick, and a write that the socket
\* does not take fails at its deadline.  Calls are bounded, so the lock is free
\* in the end and weak fairness is enough for who waits for it.
Fairness ==
    \A e \in Ends :
       /\ WF_vars(Tick(e))
       /\ WF_vars(Read(e) \/ LoopEnds(e))
       /\ WF_vars(\E g \in Goroutines : Put(e, g) \/ Fail(e, g))
       /\ \A g \in Goroutines : WF_vars(Lock(e, g) \/ Refused(e, g))

FairSpec == Spec /\ Fairness

-----------------------------------------------------------------------------
TypeOK ==
    /\ calls \in [Ends -> 0 .. MaxCalls]
    /\ job \in [Ends -> [Goroutines -> Kinds \cup NoJob]]
    /\ wmu \in [Ends -> Goroutines \cup {None}]
    /\ broken \in [Ends -> BOOLEAN]
    /\ started \in [Ends -> Seq(Kinds)]
    /\ wire \in [Ends -> Seq(Part)]
    /\ taken \in [Ends -> Nat]
    /\ \A e \in Ends : taken[e] <= Len(wire[e])
    /\ header \in [Ends -> Nat]
    /\ got \in [Ends -> Seq(Nat)]
    /\ closed \in [Ends -> BOOLEAN]

\* Whatever writes time out, in whatever goroutine and between whichever
\* parts, and however they follow one another, the frames read at one end
\* are those written at the other, whole, in the order of the write lock,
\* and none that nobody wrote (WriteFrame's lock, the error that bufio keeps).
FramesIntact ==
    \A e \in Ends : \A n \in 1 .. Len(got[e]) : got[e][n] = n

\* No call of WriteFrame lasts for ever, not even when each end's loop
\* writes a pong that the other would have to read ("so a stalled peer cannot
\* wedge the writer lock forever", WriteTimeout).
WritesReturn ==
    \A e \in Ends, g \in Goroutines : (job[e][g] \notin NoJob) ~> (job[e][g] \in NoJob)

\* A write that fails at one end, although its error goes to one request and
\* the loops ignore it, ends the connection at both (keepalive, pinger).
FailureEndsTunnel ==
    \A e \in Ends : (broken[e] \/ closed[e]) ~> (\A f \in Ends : closed[f])

-----------------------------------------------------------------------------
\* Each direction as a channel of frames, told apart by their numbers.
Sent(e)    == [n \in 1 .. Len(started[e]) |-> <<n, started[e][n]>>]
Arrived(e) == [n \in 1 .. Len(got[e]) |->
                  <<got[e][n], IF got[e][n] = 0 THEN "none" ELSE started[e][got[e][n]]>>]

Up   == INSTANCE Channel WITH sent <- Sent("client"), arrived <- Arrived("client")
Down == INSTANCE Channel WITH sent <- Sent("server"), arrived <- Arrived("server")

\* Both directions implement the abstract channel (ReadFrame, WriteFrame).
ImplementsChannels == Up!Spec /\ Down!Spec
=============================================================================
