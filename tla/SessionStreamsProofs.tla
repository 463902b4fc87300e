------------------------ MODULE SessionStreamsProofs ------------------------
\* What TLAPS proves of the in-flight requests of a session, for any finite
\* number of requests and any number of connections.
EXTENDS SessionStreams, FiniteSetTheorems, TLAPS

\* The requests that newStream has given a stream.
Started == {r \in Reqs : st[r].id # 0}

\* newStream counts: what keeps the ids within StreamIds.
IdsCounted == nextStream = Cardinality(Started)

\* No two streams of a session have the same id, whatever connection they
\* were opened on.
IdsOwn ==
    \A r \in Reqs :
        /\ st[r].id <= nextStream
        /\ \A q \in Reqs : st[r].id = st[q].id /\ st[r].id # 0 => r = q

\* Where serveTunnel is tells whether the request has a stream.
HandlersOwnStreams ==
    \A r \in Reqs :
        /\ serve[r] = "idle" => st[r] = NewObject
        /\ serve[r] \notin {"idle", "done"} => st[r].id # 0 /\ st[r].conn \in Conns
        /\ reply[r].asked => st[r].id # 0
        /\ st[r].body # "none" => st[r].id # 0

\* A connection is swept after it has been detached, by one goroutine; its
\* read loop starts after the Hello.
SweepsOver ==
    \A c \in Conns :
        /\ sweep[c] # Swept => conn # c
        /\ sweep[c] # Swept \/ conn = c => upgrade[c].pc # "none"
        /\ upgrade[c].pc # "done" => reader[c].pc = "off"

IndInv ==
    /\ TypeOK
    /\ IdsCounted
    /\ IdsOwn
    /\ HandlersOwnStreams
    /\ SweepsOver
    /\ TableIsLive

-----------------------------------------------------------------------------
(* The stream objects.                                                      *)

\* finish changes one object, and leaves its identity alone.
LEMMA FinishedObject ==
  ASSUME TypeOK, NEW q \in Reqs \cup {None}, NEW how \in {"eof", "failed"}
  PROVE  /\ Finished(q, how) \in [Reqs -> Objects]
         /\ \A r \in Reqs :
               /\ Finished(q, how)[r].id = st[r].id
               /\ Finished(q, how)[r].conn = st[r].conn
               /\ Finished(q, how)[r].head = st[r].head
               /\ r # q => Finished(q, how)[r] = st[r]
               /\ r = q => Finished(q, how)[r].body # "open"
               /\ Finished(q, how)[r] # st[r] =>
                     r = q /\ Finished(q, how)[r].body = how /\ st[r].body = "open"
<1>1. CASE q # None /\ st[q].body = "open"
  <2>. DEFINE o == [st[q] EXCEPT !.body = how, !.err = (how = "failed")]
  <2>1. q \in Reqs /\ st[q] \in Objects
    BY <1>1 DEF TypeOK
  <2>2. o \in Objects
    BY <2>1 DEF Objects
  <2>3. o.id = st[q].id /\ o.conn = st[q].conn /\ o.head = st[q].head /\ o.body = how
    BY <2>1 DEF Objects
  <2>4. Finished(q, how) = [st EXCEPT ![q] = o]
    BY <1>1 DEF Finished
  <2>. HIDE DEF o
  <2>. QED
    BY <1>1, <2>1, <2>2, <2>3, <2>4 DEF TypeOK
<1>2. CASE ~(q # None /\ st[q].body = "open")
  BY <1>2, NoneAssumption DEF Finished, TypeOK
<1>. QED
  BY <1>1, <1>2

\* A lookup by the id of a request finds its own object or none.
LEMMA FoundIsOwn ==
  ASSUME IndInv, NEW r \in Reqs, st[r].id # 0
  PROVE  /\ st[r].id \in StreamIds
         /\ Found(r) \in {r, None}
<1>1. Cardinality(Reqs) \in Nat
  BY ReqsAssumption, FS_CardinalityType
<1>2. st[r].id \in StreamIds
  BY <1>1 DEF IndInv, TypeOK, Objects, StreamIds
<1>3. Found(r) \in Reqs \cup {None}
  BY <1>2 DEF IndInv, TypeOK, Found
<1>. QED
  BY <1>2, <1>3, NoneAssumption DEF IndInv, Found, TableIsLive, IdsOwn

\* The read loop delivers what it has just read to the request it is for.
LEMMA Delivery ==
  ASSUME IndInv, NEW c \in Conns, NEW r \in Reqs, Answers(c, r)
  PROVE  Found(r) = r
  BY FoundIsOwn DEF Answers, IndInv, HandlersOwnStreams

\* The ids never run out.
LEMMA IdsLast ==
  ASSUME IndInv, NEW r \in Reqs, serve[r] = "idle"
  PROVE  /\ nextStream + 1 \in StreamIds
         /\ Cardinality(Started \cup {r}) = nextStream + 1
<1>1. Started \cup {r} \in SUBSET Reqs /\ Started \in SUBSET Reqs /\ r \notin Started
  BY DEF Started, IndInv, HandlersOwnStreams, NewObject
<1>2. IsFiniteSet(Started) /\ Cardinality(Started \cup {r}) <= Cardinality(Reqs)
  BY <1>1, ReqsAssumption, FS_Subset
<1>3. Cardinality(Started \cup {r}) = Cardinality(Started) + 1
  BY <1>1, <1>2, FS_AddElement
<1>4. Cardinality(Started) \in Nat /\ Cardinality(Reqs) \in Nat
  BY <1>2, ReqsAssumption, FS_CardinalityType
<1>. QED
  BY <1>2, <1>3, <1>4 DEF StreamIds, IndInv, IdsCounted

\* What a step may do to the objects: newStream makes one, the read loop
\* delivers a head, and whoever ends a stream finishes it.
ObjectsStep ==
    /\ st' \in [Reqs -> Objects]
    /\ \A r \in Reqs :
          \/ st'[r] = st[r]
          \/ NewStream(r)
          \/ /\ st'[r].id = st[r].id /\ st'[r].conn = st[r].conn
             /\ st[r].id # 0
             /\ st'[r].body = st[r].body \/ (st[r].body = "open" /\ st'[r].body # "open")

\* The steps that leave every stream object alone.
RecvBodies(c) == \/ \E r \in Reqs : RecvBody(c, r)
                 \/ WriteReleased(c) \/ ReadFails(c)
Connects(c) == \/ Attach(c) \/ HelloSent(c) \/ HelloFails(c)
               \/ SweepCloses(c) \/ Deleted(c) \/ KeepaliveFails(c) \/ Lose(c)
HandlerGoesOn(r) ==
    \/ Offline(r) \/ HeadSent(r) \/ HeadFails(r)
    \/ GotHead(r) \/ GotErr(r) \/ GivesUp(r)
    \/ \E c \in Conns : PassChunk(r, c)
    \/ EndOfBody(r) \/ Joined(r) \/ PumpEnds(r)

\* Every step treats the stream objects that way.
LEMMA ObjectsSteps == IndInv /\ [Next]_vars => ObjectsStep
<1>. SUFFICES ASSUME IndInv, [Next]_vars PROVE ObjectsStep
  OBVIOUS
<1>0. /\ st \in [Reqs -> Objects] /\ TypeOK
      /\ \A q \in Reqs : st[q].body = "open" => st[q].id # 0
  BY DEF IndInv, TypeOK, HandlersOwnStreams
<1>1. ASSUME NEW q \in Reqs \cup {None}, NEW how \in {"eof", "failed"}, st' = Finished(q, how)
      PROVE  ObjectsStep
  BY <1>0, <1>1, FinishedObject DEF ObjectsStep
<1>2. ASSUME st' = st
      PROVE  ObjectsStep
  BY <1>0, <1>2 DEF ObjectsStep
<1>3. ASSUME NEW c \in Conns, NEW r \in Reqs, RecvHead(c, r)
      PROVE  ObjectsStep
  <2>1. st' = [st EXCEPT ![r].head = TRUE]
    BY <1>3, Delivery DEF RecvHead
  <2>2. st[r].id # 0
    BY <1>3 DEF RecvHead, Answers, IndInv, HandlersOwnStreams
  <2>. QED
    BY <1>0, <2>1, <2>2 DEF ObjectsStep, Objects
<1>4. ASSUME NEW c \in Conns, NEW r \in Reqs, RecvBadHead(c, r) \/ RecvEnd(c, r) \/ RecvAbort(c, r)
      PROVE  ObjectsStep
  BY <1>1, <1>4, Delivery DEF RecvBadHead, RecvEnd, RecvAbort
<1>5. ASSUME NEW c \in Conns, NEW r \in sweep[c].left, SweepFails(c, r)
      PROVE  ObjectsStep
  BY <1>0, <1>1, <1>5 DEF SweepFails, TypeOK, Sweeps
<1>6. ASSUME NEW r \in Reqs, Drop(r)
      PROVE  ObjectsStep
  <2>1. Found(r) \in {r, None}
    BY <1>6, FoundIsOwn DEF Drop, IndInv, HandlersOwnStreams
  <2>. QED
    BY <1>1, <1>6, <2>1 DEF Drop
<1>7. ASSUME NEW r \in Reqs, NewStream(r)
      PROVE  ObjectsStep
  <2>1. nextStream + 1 \in StreamIds
    BY <1>7, IdsLast DEF NewStream
  <2>2. conn \in Conns
    BY <1>7 DEF NewStream, IndInv, TypeOK
  <2>3. [NewObject EXCEPT !.id = nextStream + 1, !.conn = conn, !.body = "open"] \in Objects
    <3>1. nextStream + 1 \in 0..Cardinality(Reqs)
      BY <2>1, ReqsAssumption, FS_CardinalityType DEF StreamIds
    <3>. QED
      BY <2>2, <3>1 DEF NewObject, Objects
  <2>. QED
    BY <1>0, <1>7, <2>3 DEF NewStream, ObjectsStep
<1>8. ASSUME NEW c \in Conns, RecvBodies(c) \/ Connects(c)
      PROVE  st' = st
  BY <1>8 DEF RecvBodies, Connects, RecvBody, WriteReleased, ReadFails, Attach, HelloSent, HelloFails,
              SweepCloses, Deleted, KeepaliveFails, Lose
<1>9. ASSUME NEW r \in Reqs, HandlerGoesOn(r)
      PROVE  st' = st
  BY <1>9 DEF HandlerGoesOn, Offline, HeadSent, HeadFails, GotHead, GotErr, GivesUp, PassChunk,
              EndOfBody, Joined, PumpEnds
<1>. QED
  BY <1>2, <1>3, <1>4, <1>5, <1>6, <1>7, <1>8, <1>9
     DEF Next, ReadLoop, Connection, Request, RecvBodies, Connects, HandlerGoesOn, vars

-----------------------------------------------------------------------------
(* The table and the handlers.                                              *)

\* What a step may do to Session's own fields.
TableStep ==
    \/ UNCHANGED session
    \/ conn' \in Conns \cup {None} /\ streams' = NoTable /\ nextStream' = nextStream
    \/ \E r \in Reqs : NewStream(r) \/ Drop(r)

\* Every step treats the session's fields that way: the table is emptied whole
\* or changed at one id.
LEMMA TableSteps == TypeOK /\ [Next]_vars => TableStep
<1>. SUFFICES ASSUME TypeOK, [Next]_vars PROVE TableStep
  OBVIOUS
<1>1. ASSUME NEW c \in Conns, ReadLoop(c) \/ Connection(c)
      PROVE  TableStep
  BY <1>1 DEF ReadLoop, Connection, RecvHead, RecvBadHead, RecvBody, RecvEnd, RecvAbort, WriteReleased, ReadFails,
              Attach, Detach, HelloSent, HelloFails, SweepCloses, SweepFails, Deleted, KeepaliveFails, Lose,
              TableStep, session
<1>2. ASSUME NEW r \in Reqs, HandlerGoesOn(r)
      PROVE  UNCHANGED session
  BY <1>2 DEF HandlerGoesOn, Offline, HeadSent, HeadFails, GotHead, GotErr, GivesUp, PassChunk,
              EndOfBody, Joined, PumpEnds, session
<1>. QED
  BY <1>1, <1>2 DEF Next, Request, HandlerGoesOn, vars, TableStep

\* What a step may do to the handlers.
HandlersStep ==
    \A r \in Reqs :
        /\ serve'[r] = "idle" => serve[r] = "idle" /\ ~NewStream(r)
        /\ serve'[r] = "done" => serve[r] \in {"idle", "done"} \/ Drop(r)
        /\ serve'[r] \notin {"idle", "done"} => serve[r] \notin {"idle", "done"} \/ NewStream(r)
        /\ reply'[r].asked => reply[r].asked \/ serve[r] = "head"

\* Every step treats the handlers that way: a request has a stream from
\* newStream to dropStream.
LEMMA HandlersSteps == TypeOK /\ [Next]_vars => HandlersStep
<1>. SUFFICES ASSUME TypeOK, [Next]_vars PROVE HandlersStep
  OBVIOUS
<1>0. ASSUME serve' = serve, \A r \in Reqs : reply'[r].asked = reply[r].asked
      PROVE  HandlersStep
  BY <1>0 DEF HandlersStep, NewStream, TypeOK
<1>1. ASSUME NEW c \in Conns, ReadLoop(c)
      PROVE  serve' = serve /\ \A r \in Reqs : reply'[r].asked = reply[r].asked
  <2>1. reply \in [Reqs -> Replies]
    BY DEF TypeOK
  <2>2. ASSUME NEW q \in Reqs, RecvHead(c, q) \/ RecvBadHead(c, q) \/ RecvBody(c, q)
        PROVE  serve' = serve /\ \A r \in Reqs : reply'[r].asked = reply[r].asked
    BY <2>1, <2>2 DEF RecvHead, RecvBadHead, RecvBody, requests, Replies
  <2>3. ASSUME NEW q \in Reqs, RecvEnd(c, q) \/ RecvAbort(c, q)
        PROVE  serve' = serve /\ \A r \in Reqs : reply'[r].asked = reply[r].asked
    BY <2>1, <2>3 DEF RecvEnd, RecvAbort, requests, Replies
  <2>4. CASE WriteReleased(c) \/ ReadFails(c)
    BY <2>4 DEF WriteReleased, ReadFails, requests
  <2>. QED
    BY <1>1, <2>2, <2>3, <2>4 DEF ReadLoop
<1>2. ASSUME NEW c \in Conns, Connection(c)
      PROVE  serve' = serve /\ \A r \in Reqs : reply'[r].asked = reply[r].asked
  BY <1>2 DEF Connection, Attach, HelloSent, HelloFails, SweepCloses, SweepFails, Deleted, KeepaliveFails, Lose,
              requests
<1>3. ASSUME NEW r \in Reqs, HeadSent(r)
      PROVE  HandlersStep
  BY <1>3 DEF HeadSent, HandlersStep, NewStream, TypeOK, Replies
<1>4. ASSUME NEW r \in Reqs, NewStream(r) \/ Drop(r)
      PROVE  HandlersStep
  BY <1>4 DEF NewStream, Drop, HandlersStep, TypeOK
<1>5. ASSUME NEW r \in Reqs, HandlerGoesOn(r), ~HeadSent(r)
      PROVE  HandlersStep
  BY <1>5 DEF HandlerGoesOn, Offline, HeadFails, GotHead, GotErr, GivesUp, PassChunk,
              EndOfBody, Joined, PumpEnds, HandlersStep, NewStream, TypeOK
<1>. QED
  BY <1>0, <1>1, <1>2, <1>3, <1>4, <1>5 DEF Next, Request, HandlerGoesOn, vars, requests

\* Ids stay distinct: only newStream gives one, the next.
LEMMA IdsNext == IndInv /\ [Next]_vars => IdsCounted' /\ IdsOwn'
<1>. SUFFICES ASSUME IndInv, [Next]_vars PROVE IdsCounted' /\ IdsOwn'
  OBVIOUS
<1>0. ObjectsStep /\ TableStep
  BY ObjectsSteps, TableSteps DEF IndInv
<1>1. ASSUME NEW r \in Reqs, NewStream(r)
      PROVE  IdsCounted' /\ IdsOwn'
  <2>1. /\ nextStream' = nextStream + 1 /\ nextStream \in Nat
        /\ st' = [st EXCEPT ![r] = [NewObject EXCEPT !.id = nextStream + 1, !.conn = conn,
                                                     !.body = "open"]]
        /\ st'[r].id = nextStream + 1
        /\ \A q \in Reqs \ {r} : st'[q] = st[q]
    BY <1>1, ReqsAssumption, FS_CardinalityType DEF NewStream, NewObject, IndInv, TypeOK
  <2>2. Started' = Started \cup {r}
    BY <2>1 DEF Started
  <2>3. IdsCounted'
    BY <1>1, <2>1, <2>2, IdsLast DEF IdsCounted, NewStream
  <2>4. \A q \in Reqs : st[q].id \in Nat
    BY ReqsAssumption, FS_CardinalityType DEF IndInv, TypeOK, Objects
  <2>. QED
    BY <2>1, <2>3, <2>4 DEF IdsOwn, IndInv
<1>2. CASE \A r \in Reqs : ~NewStream(r)
  <2>1. \A r \in Reqs : st'[r].id = st[r].id
    BY <1>0, <1>2 DEF ObjectsStep
  <2>2. nextStream' = nextStream
    BY <1>0, <1>2 DEF TableStep, session, Drop
  <2>3. Started' = Started
    BY <2>1 DEF Started
  <2>. QED
    BY <2>1, <2>2, <2>3 DEF IdsCounted, IdsOwn, IndInv
<1>. QED
  BY <1>1, <1>2

\* A handler's stream stays its own.
LEMMA HandlersNext == IndInv /\ [Next]_vars => HandlersOwnStreams'
<1>. SUFFICES ASSUME IndInv, [Next]_vars, NEW r \in Reqs
              PROVE  /\ serve'[r] = "idle" => st'[r] = NewObject
                     /\ serve'[r] \notin {"idle", "done"} => st'[r].id # 0 /\ st'[r].conn \in Conns
                     /\ reply'[r].asked => st'[r].id # 0
                     /\ st'[r].body # "none" => st'[r].id # 0
  BY DEF HandlersOwnStreams
<1>0. ObjectsStep /\ HandlersStep
  BY ObjectsSteps, HandlersSteps DEF IndInv
<1>1. CASE NewStream(r)
  <2>1. /\ st'[r].id = nextStream + 1 /\ st'[r].conn = conn /\ conn \in Conns
        /\ nextStream \in Nat /\ serve'[r] = "head"
    BY <1>1, ReqsAssumption, FS_CardinalityType DEF NewStream, NewObject, IndInv, TypeOK
  <2>. QED
    BY <2>1
<1>2. CASE ~NewStream(r)
  <2>1. st'[r] = st[r] \/ (st'[r].id = st[r].id /\ st'[r].conn = st[r].conn /\ st[r].id # 0)
    BY <1>0, <1>2 DEF ObjectsStep
  <2>2. serve[r] = "idle" => st[r].id = 0
    BY DEF IndInv, HandlersOwnStreams, NewObject
  <2>. QED
    BY <1>0, <1>2, <2>1, <2>2 DEF HandlersStep, IndInv, HandlersOwnStreams
<1>. QED
  BY <1>1, <1>2

\* The table: emptied as a whole, or changed at the id of one request.
LEMMA TableNext == IndInv /\ [Next]_vars => TableIsLive'
<1>. SUFFICES ASSUME IndInv, [Next]_vars, NEW id \in StreamIds, streams'[id] # None
              PROVE  /\ st'[streams'[id]].id = id
                     /\ conn' # None /\ st'[streams'[id]].conn = conn'
                     /\ serve'[streams'[id]] # "done"
  BY DEF TableIsLive
<1>0. /\ ObjectsStep /\ HandlersStep /\ TableStep
      /\ streams \in [StreamIds -> Reqs \cup {None}]
  BY ObjectsSteps, HandlersSteps, TableSteps DEF IndInv, TypeOK
<1>1. ASSUME streams'[id] = streams[id], conn' = conn, ~NewStream(streams[id]), ~Drop(streams[id])
      PROVE  /\ st'[streams'[id]].id = id
             /\ conn' # None /\ st'[streams'[id]].conn = conn'
             /\ serve'[streams'[id]] # "done"
  <2>. DEFINE q == streams[id]
  <2>1. q \in Reqs /\ st[q].id = id /\ conn # None /\ st[q].conn = conn /\ serve[q] # "done"
    BY <1>0, <1>1 DEF IndInv, TableIsLive
  <2>2. st'[q].id = id /\ st'[q].conn = conn
    BY <1>0, <1>1, <2>1 DEF ObjectsStep
  <2>3. id # 0
    BY ReqsAssumption, FS_CardinalityType DEF StreamIds
  <2>4. serve[q] # "idle"
    BY <2>1, <2>3 DEF IndInv, HandlersOwnStreams, NewObject
  <2>. QED
    BY <1>0, <1>1, <2>1, <2>2, <2>4 DEF HandlersStep
<1>2. CASE UNCHANGED session
  <2>1. ~NewStream(streams[id])
    BY <1>2, ReqsAssumption, FS_CardinalityType DEF NewStream, session, IndInv, TypeOK
  <2>2. CASE Drop(streams[id])
    <3>1. streams[id] \in Reqs /\ st[streams[id]].id = id
      BY <1>0, <1>2 DEF IndInv, TableIsLive, session
    <3>. QED
      BY <1>0, <2>2, <3>1 DEF Drop
  <2>. QED
    BY <1>1, <1>2, <2>1, <2>2 DEF session
<1>3. CASE streams' = NoTable
  BY <1>3 DEF NoTable
<1>4. ASSUME NEW r \in Reqs, NewStream(r)
      PROVE  /\ st'[streams'[id]].id = id
             /\ conn' # None /\ st'[streams'[id]].conn = conn'
             /\ serve'[streams'[id]] # "done"
  <2>1. /\ streams' = [streams EXCEPT ![nextStream + 1] = r]
        /\ conn' = conn /\ conn # None
        /\ st'[r].id = nextStream + 1 /\ st'[r].conn = conn /\ serve'[r] = "head"
    BY <1>4 DEF NewStream, NewObject, IndInv, TypeOK
  <2>2. CASE id = nextStream + 1
    BY <1>0, <2>1, <2>2
  <2>3. CASE id # nextStream + 1
    <3>1. streams'[id] = streams[id]
      BY <1>0, <2>1, <2>3
    <3>2. streams[id] # r
      BY <1>4, <3>1 DEF NewStream, IndInv, TableIsLive, HandlersOwnStreams, NewObject, StreamIds
    <3>3. ~NewStream(streams[id]) /\ ~Drop(streams[id])
      <4>1. streams[id] \in Reqs /\ serve[r] = "idle" /\ serve'[r] = "head"
        BY <1>0, <1>4, <2>1, <3>1 DEF NewStream
      <4>. QED
        BY <1>0, <3>2, <4>1 DEF HandlersStep, NewStream, Drop, IndInv, TypeOK
    <3>. QED
      BY <1>1, <2>1, <3>1, <3>3
  <2>. QED
    BY <2>2, <2>3
<1>5. ASSUME NEW r \in Reqs, Drop(r)
      PROVE  /\ st'[streams'[id]].id = id
             /\ conn' # None /\ st'[streams'[id]].conn = conn'
             /\ serve'[streams'[id]] # "done"
  <2>1. streams' = [streams EXCEPT ![st[r].id] = None] /\ conn' = conn
    BY <1>5 DEF Drop
  <2>2. id # st[r].id /\ streams'[id] = streams[id]
    BY <1>0, <2>1
  <2>3. streams[id] \in Reqs /\ st[streams[id]].id = id
    BY <1>0, <2>2 DEF IndInv, TableIsLive
  <2>4. streams[id] # r
    BY <2>2, <2>3
  <2>5. ~NewStream(streams[id]) /\ ~Drop(streams[id])
    BY <1>5, <2>3, <2>4 DEF NewStream, Drop, IndInv, TypeOK
  <2>. QED
    BY <1>1, <2>1, <2>2, <2>5
<1>. QED
  BY <1>0, <1>2, <1>3, <1>4, <1>5 DEF TableStep

-----------------------------------------------------------------------------
(* Connections and types.                                                   *)

\* A connection that is being swept is never attached again.
LEMMA SweepsNext == IndInv /\ [Next]_vars => SweepsOver'
<1>. SUFFICES ASSUME IndInv, [Next]_vars PROVE SweepsOver'
  OBVIOUS
<1>0. TypeOK /\ SweepsOver
  BY DEF IndInv
<1>1. ASSUME NEW c \in Conns, Attach(c)
      PROVE  SweepsOver'
  BY <1>0, <1>1, NoneAssumption DEF Attach, SweepsOver, TypeOK, Upgrades, Sweeps, Swept
<1>2. ASSUME NEW c \in Conns, HelloSent(c)
      PROVE  SweepsOver'
  <2>1. upgrade'[c].pc = "done" /\ \A d \in Conns : d # c => upgrade'[d] = upgrade[d]
    BY <1>0, <1>2 DEF HelloSent, Upgraded, TypeOK
  <2>2. upgrade[c].pc = "hello" /\ \A d \in Conns : d # c => reader'[d] = reader[d]
    BY <1>0, <1>2 DEF HelloSent, AttachReturned, TypeOK
  <2>3. conn' = conn /\ sweep' = sweep
    BY <1>2 DEF HelloSent, session
  <2>. QED
    BY <1>0, <2>1, <2>2, <2>3 DEF SweepsOver
<1>3. ASSUME NEW c \in Conns, Detach(c),
             \/ UNCHANGED <<upgrade, reader>>
             \/ upgrade[c].pc = "hello" /\ upgrade' = [upgrade EXCEPT ![c] = Upgraded] /\ reader' = reader
             \/ upgrade' = upgrade /\ reader' = [reader EXCEPT ![c].pc = "off"]
      PROVE  SweepsOver'
  <2>1. \A d \in Conns : upgrade'[d].pc = upgrade[d].pc \/ upgrade'[d].pc = "done"
    BY <1>0, <1>3 DEF TypeOK, Upgraded
  <2>2. \A d \in Conns : reader'[d].pc = reader[d].pc \/ reader'[d].pc = "off"
    BY <1>0, <1>3 DEF TypeOK, Readers
  <2>3. CASE conn = c
    <3>1. conn' = None /\ \A d \in Conns \ {c} : sweep'[d] = sweep[d]
      BY <1>0, <1>3, <2>3 DEF Detach, TypeOK
    <3>. QED
      BY <1>0, <2>1, <2>2, <2>3, <3>1, NoneAssumption DEF SweepsOver
  <2>4. CASE conn # c
    BY <1>0, <1>3, <2>1, <2>2, <2>4 DEF Detach, SweepsOver
  <2>. QED
    BY <2>3, <2>4
<1>4. ASSUME NEW c \in Conns, HelloFails(c) \/ Deleted(c) \/ KeepaliveFails(c) \/ ReadFails(c)
      PROVE  SweepsOver'
  BY <1>3, <1>4 DEF HelloFails, AttachReturned, Deleted, KeepaliveFails, ReadFails
<1>5. ASSUME NEW c \in Conns, SweepCloses(c) \/ \E r \in sweep[c].left : SweepFails(c, r)
      PROVE  SweepsOver'
  <2>1. sweep[c] # Swept
    BY <1>0, <1>5 DEF SweepCloses, SweepFails, Swept
  <2>2. /\ \A d \in Conns \ {c} : sweep'[d] = sweep[d]
        /\ UNCHANGED <<conn, upgrade, reader>>
    BY <1>0, <1>5 DEF SweepCloses, SweepFails, TypeOK, session
  <2>. QED
    BY <1>0, <2>1, <2>2 DEF SweepsOver
<1>6. ASSUME NEW c \in Conns, ReadLoop(c), ~ReadFails(c)
      PROVE  SweepsOver'
  <2>1. UNCHANGED <<conn, sweep, upgrade>>
    BY <1>6 DEF ReadLoop, RecvHead, RecvBadHead, RecvBody, RecvEnd, RecvAbort, WriteReleased, session, sockets
  <2>2. reader[c].pc # "off" /\ \A d \in Conns : d # c => reader'[d] = reader[d]
    BY <1>0, <1>6 DEF ReadLoop, RecvHead, RecvBadHead, RecvBody, RecvEnd, RecvAbort, WriteReleased, Answers,
                      TypeOK
  <2>. QED
    BY <1>0, <2>1, <2>2 DEF SweepsOver
<1>7. ASSUME NEW c \in Conns, Lose(c)
      PROVE  SweepsOver'
  BY <1>0, <1>7 DEF Lose, SweepsOver, session
<1>8. ASSUME NEW r \in Reqs, Request(r)
      PROVE  SweepsOver'
  <2>1. ASSUME NEW c \in Conns, PassChunk(r, c)
        PROVE  SweepsOver'
    BY <1>0, <2>1 DEF PassChunk, SweepsOver, TypeOK, Readers, session, sockets
  <2>. QED
    BY <1>0, <1>8, <2>1 DEF Request, Offline, NewStream, HeadSent, HeadFails, GotHead, GotErr, GivesUp,
              EndOfBody, Joined, Drop, PumpEnds, SweepsOver, session, sockets
<1>9. CASE UNCHANGED vars
  BY <1>0, <1>9 DEF vars, session, sockets, SweepsOver
<1>. QED
  BY <1>1, <1>2, <1>4, <1>5, <1>6, <1>7, <1>8, <1>9 DEF Next, Connection, ReadLoop

\* Every step keeps the types.
LEMMA TypeNext == IndInv /\ [Next]_vars => TypeOK'
<1>. SUFFICES ASSUME IndInv, [Next]_vars PROVE TypeOK'
  OBVIOUS
<1>0. TypeOK /\ ObjectsStep /\ TableStep
  BY ObjectsSteps, TableSteps DEF IndInv
<1>1. /\ conn' \in Conns \cup {None}
      /\ streams' \in [StreamIds -> Reqs \cup {None}]
      /\ nextStream' \in 0..Cardinality(Reqs)
  <2>1. ASSUME NEW r \in Reqs, NewStream(r)
        PROVE  nextStream + 1 \in StreamIds
    BY <2>1, IdsLast DEF NewStream
  <2>2. nextStream \in Nat /\ Cardinality(Reqs) \in Nat
    BY <1>0, ReqsAssumption, FS_CardinalityType DEF TypeOK
  <2>3. CASE UNCHANGED session
    BY <1>0, <2>3 DEF session, TypeOK
  <2>4. CASE conn' \in Conns \cup {None} /\ streams' = NoTable /\ nextStream' = nextStream
    BY <1>0, <2>4 DEF NoTable, TypeOK
  <2>5. ASSUME NEW r \in Reqs, NewStream(r)
        PROVE  <1>1!1 /\ <1>1!2 /\ <1>1!3
    <3>1. nextStream + 1 \in StreamIds /\ nextStream + 1 \in 0..Cardinality(Reqs)
      BY <2>1, <2>2, <2>5 DEF StreamIds
    <3>2. /\ nextStream' = nextStream + 1 /\ conn' = conn
          /\ streams' = [streams EXCEPT ![nextStream + 1] = r]
      BY <2>5 DEF NewStream
    <3>. QED
      BY <1>0, <3>1, <3>2 DEF TypeOK
  <2>6. ASSUME NEW r \in Reqs, Drop(r)
        PROVE  <1>1!1 /\ <1>1!2 /\ <1>1!3
    BY <1>0, <2>6 DEF Drop, TypeOK
  <2>. QED
    BY <1>0, <2>3, <2>4, <2>5, <2>6 DEF TableStep
<1>2. st' \in [Reqs -> Objects]
  BY <1>0 DEF ObjectsStep
<1>3. \A c \in Conns : ReadLoop(c) \/ Connection(c) => UNCHANGED <<serve, pump>>
  BY DEF ReadLoop, RecvHead, RecvBadHead, RecvBody, RecvEnd, RecvAbort, WriteReleased, ReadFails, requests,
         Connection, Attach, HelloSent, HelloFails, SweepCloses, SweepFails, Deleted, KeepaliveFails, Lose
<1>4. /\ serve' \in [Reqs -> {"idle", "head", "wait", "stream", "join", "drop", "done"}]
      /\ pump' \in [Reqs -> {"off", "body", "ended"}]
  <2>1. ASSUME NEW r \in Reqs, Offline(r) \/ NewStream(r) \/ HeadFails(r) \/ GotHead(r) \/ GotErr(r)
                               \/ GivesUp(r) \/ EndOfBody(r) \/ Joined(r) \/ Drop(r)
        PROVE  <1>4!1 /\ <1>4!2
    BY <1>0, <2>1 DEF Offline, NewStream, HeadFails, GotHead, GotErr, GivesUp, EndOfBody, Joined, Drop, TypeOK
  <2>2. ASSUME NEW r \in Reqs, HeadSent(r)
        PROVE  <1>4!1 /\ <1>4!2
    BY <1>0, <2>2 DEF HeadSent, TypeOK
  <2>3. ASSUME NEW r \in Reqs, NEW c \in Conns, PassChunk(r, c)
        PROVE  <1>4!1 /\ <1>4!2
    BY <1>0, <2>3 DEF PassChunk, TypeOK
  <2>4. ASSUME NEW r \in Reqs, PumpEnds(r)
        PROVE  <1>4!1 /\ <1>4!2
    BY <1>0, <2>4 DEF PumpEnds, TypeOK
  <2>5. CASE UNCHANGED <<serve, pump>>
    BY <1>0, <2>5 DEF TypeOK
  <2>. QED
    BY <1>3, <2>1, <2>2, <2>3, <2>4, <2>5 DEF Next, Request, vars, requests
<1>5. link' \in [Conns -> {"open", "lost", "closed"}] /\ keeper' \in [Conns -> BOOLEAN]
  BY <1>0 DEF Next, ReadLoop, RecvHead, RecvBadHead, RecvBody, RecvEnd, RecvAbort, WriteReleased, ReadFails,
              Connection, Attach, HelloSent, HelloFails, SweepCloses, SweepFails, Deleted, KeepaliveFails, Lose,
              Request, Offline, NewStream, HeadSent, HeadFails, GotHead, GotErr, GivesUp, PassChunk,
              EndOfBody, Joined, Drop, PumpEnds, TypeOK, sockets, vars
<1>6. /\ upgrade' \in [Conns -> Upgrades]
      /\ sweep' \in [Conns -> Sweeps]
  <2>1. /\ [close |-> TRUE, left |-> Table] \in Sweeps
        /\ \A c \in Conns : [pc |-> "hello", old |-> conn] \in Upgrades
    BY <1>0 DEF Sweeps, Table, Upgrades, TypeOK
  <2>2. ASSUME NEW c \in Conns, Attach(c)
        PROVE  <1>6!1 /\ <1>6!2
    BY <1>0, <2>1, <2>2 DEF Attach, TypeOK
  <2>3. ASSUME NEW c \in Conns, HelloSent(c) \/ HelloFails(c)
        PROVE  upgrade' \in [Conns -> Upgrades]
    <3>1. Upgraded \in Upgrades
      BY DEF Upgraded, Upgrades
    <3>. QED
      BY <1>0, <2>3, <3>1 DEF HelloSent, HelloFails, TypeOK
  <2>4. ASSUME NEW c \in Conns, HelloFails(c) \/ Deleted(c) \/ KeepaliveFails(c) \/ ReadFails(c)
        PROVE  sweep' \in [Conns -> Sweeps]
    BY <1>0, <2>1, <2>4 DEF HelloFails, Deleted, KeepaliveFails, ReadFails, Detach, TypeOK
  <2>5. ASSUME NEW c \in Conns, SweepCloses(c) \/ \E r \in sweep[c].left : SweepFails(c, r)
        PROVE  sweep' \in [Conns -> Sweeps] /\ upgrade' = upgrade
    <3>1. /\ [sweep[c] EXCEPT !.close = FALSE] \in Sweeps
          /\ \A r \in Reqs : [sweep[c] EXCEPT !.left = @ \ {r}] \in Sweeps
          /\ sweep[c].left \subseteq Reqs
      BY <1>0 DEF TypeOK, Sweeps
    <3>2. CASE SweepCloses(c)
      BY <1>0, <3>1, <3>2 DEF SweepCloses, TypeOK
    <3>3. CASE \E r \in sweep[c].left : SweepFails(c, r)
      BY <1>0, <3>1, <3>3 DEF SweepFails, TypeOK
    <3>. QED
      BY <2>5, <3>2, <3>3
  <2>6. ASSUME NEW c \in Conns, HelloSent(c) \/ Lose(c)
        PROVE  sweep' = sweep /\ (Lose(c) => upgrade' = upgrade)
    BY <2>6 DEF HelloSent, Lose
  <2>7. ASSUME NEW c \in Conns, Deleted(c) \/ KeepaliveFails(c) \/ ReadFails(c)
        PROVE  upgrade' = upgrade
    BY <2>7 DEF Deleted, KeepaliveFails, ReadFails
  <2>8. ASSUME NEW c \in Conns, ReadLoop(c), ~ReadFails(c)
        PROVE  UNCHANGED sockets
    BY <2>8 DEF ReadLoop, RecvHead, RecvBadHead, RecvBody, RecvEnd, RecvAbort, WriteReleased
  <2>9. ASSUME NEW r \in Reqs, Request(r)
        PROVE  UNCHANGED <<upgrade, sweep>>
    BY <2>9 DEF Request, Offline, NewStream, HeadSent, HeadFails, GotHead, GotErr, GivesUp, PassChunk,
                EndOfBody, Joined, Drop, PumpEnds, sockets
  <2>. QED
    BY <1>0, <2>2, <2>3, <2>4, <2>5, <2>6, <2>7, <2>8, <2>9
       DEF Next, Connection, sockets, vars, TypeOK
<1>8. reader' \in [Conns -> Readers]
  <2>1. ASSUME NEW c \in Conns, NEW r \in Reqs, RecvBody(c, r)
        PROVE  reader' \in [Conns -> Readers]
    <3>1. Found(r) = r
      BY <2>1, Delivery DEF RecvBody
    <3>2. [pc |-> "write", to |-> r] \in Readers
      BY DEF Readers
    <3>. QED
      BY <1>0, <2>1, <3>1, <3>2 DEF RecvBody, TypeOK
  <2>2. ASSUME NEW c \in Conns, HelloSent(c)
        PROVE  reader' \in [Conns -> Readers]
    <3>1. reader[c].pc = "off" /\ reader[c] \in Readers
      BY <1>0, <2>2 DEF HelloSent, AttachReturned, IndInv, SweepsOver, TypeOK
    <3>2. [reader[c] EXCEPT !.pc = "read"] \in Readers
      BY <3>1 DEF Readers
    <3>. QED
      BY <1>0, <2>2, <3>2 DEF HelloSent, TypeOK
  <2>3. ASSUME NEW c \in Conns, ReadFails(c)
        PROVE  reader' \in [Conns -> Readers]
    <3>1. reader[c].pc = "read" /\ reader[c] \in Readers
      BY <1>0, <2>3 DEF ReadFails, TypeOK
    <3>2. [reader[c] EXCEPT !.pc = "off"] \in Readers
      BY <3>1 DEF Readers
    <3>. QED
      BY <1>0, <2>3, <3>2 DEF ReadFails, TypeOK
  <2>4. [pc |-> "read", to |-> None] \in Readers
    BY DEF Readers
  <2>. QED
    BY <1>0, <2>1, <2>2, <2>3, <2>4
       DEF Next, ReadLoop, RecvHead, RecvBadHead, RecvEnd, RecvAbort, WriteReleased,
           Connection, Attach, HelloFails, SweepCloses, SweepFails, Deleted, KeepaliveFails, Lose,
           Request, Offline, NewStream, HeadSent, HeadFails, GotHead, GotErr, GivesUp, PassChunk,
           EndOfBody, Joined, Drop, PumpEnds, TypeOK, vars
<1>9. reply' \in [Reqs -> Replies]
  <2>1. ASSUME NEW c \in Conns, NEW r \in Reqs, RecvBody(c, r)
        PROVE  reply' \in [Reqs -> Replies]
    BY <1>0, <2>1, ChunksAssumption DEF RecvBody, TypeOK, Replies
  <2>2. ASSUME NEW c \in Conns, NEW r \in Reqs, RecvHead(c, r) \/ RecvBadHead(c, r) \/ RecvEnd(c, r) \/ RecvAbort(c, r)
        PROVE  reply' \in [Reqs -> Replies]
    <3>1. [reply[r] EXCEPT !.head = TRUE] \in Replies /\ [reply[r] EXCEPT !.ended = TRUE] \in Replies
      BY <1>0 DEF TypeOK, Replies
    <3>. QED
      BY <1>0, <2>2, <3>1 DEF RecvHead, RecvBadHead, RecvEnd, RecvAbort, TypeOK
  <2>3. ASSUME NEW r \in Reqs, HeadSent(r)
        PROVE  reply' \in [Reqs -> Replies]
    <3>1. [reply[r] EXCEPT !.asked = TRUE] \in Replies /\ [reply[r] EXCEPT !.asked = FALSE] \in Replies
      BY <1>0 DEF TypeOK, Replies
    <3>2. CASE link[st[r].conn] = "open"
      <4>1. reply' = [reply EXCEPT ![r].asked = TRUE]
        BY <2>3, <3>2 DEF HeadSent
      <4>. QED
        BY <1>0, <3>1, <4>1 DEF TypeOK
    <3>3. CASE link[st[r].conn] # "open"
      <4>1. reply' = [reply EXCEPT ![r].asked = FALSE]
        BY <2>3, <3>3 DEF HeadSent
      <4>. QED
        BY <1>0, <3>1, <4>1 DEF TypeOK
    <3>. QED
      BY <3>2, <3>3
  <2>. QED
    BY <1>0, <2>1, <2>2, <2>3
       DEF Next, ReadLoop, WriteReleased, ReadFails,
           Connection, Attach, HelloSent, HelloFails, SweepCloses, SweepFails, Deleted, KeepaliveFails, Lose,
           Request, Offline, NewStream, HeadFails, GotHead, GotErr, GivesUp, PassChunk,
           EndOfBody, Joined, Drop, PumpEnds, TypeOK, vars
<1>. QED
  BY <1>1, <1>2, <1>3, <1>4, <1>5, <1>6, <1>8, <1>9 DEF TypeOK

\* A session without a connection and without requests.
LEMMA InitInv == Init => IndInv
<1>. SUFFICES ASSUME Init PROVE IndInv
  OBVIOUS
<1>1. TypeOK
  BY ReqsAssumption, ChunksAssumption, FS_CardinalityType
     DEF Init, TypeOK, NoTable, NewObject, Swept, Objects, Upgrades, Sweeps, Readers, Replies
<1>2. Started = {}
  BY DEF Started, Init, NewObject
<1>. QED
  BY <1>1, <1>2, FS_EmptySet, NoneAssumption
     DEF Init, IndInv, IdsCounted, IdsOwn, HandlersOwnStreams, SweepsOver, TableIsLive,
         NoTable, NewObject, Swept

\* The invariant is inductive.
LEMMA InvNext == IndInv /\ [Next]_vars => IndInv'
  BY TypeNext, IdsNext, HandlersNext, SweepsNext, TableNext DEF IndInv

\* The invariant of every behaviour.
LEMMA Invariance == Spec => []IndInv
  BY InitInv, InvNext, PTL DEF Spec

\* Every variable keeps its type; in particular the stream ids never exceed
\* the number of requests, and a blocked read loop is writing to a stream.
THEOREM TypeCorrect == Spec => []TypeOK
<1>1. IndInv => TypeOK
  BY DEF IndInv
<1>. QED
  BY <1>1, Invariance, PTL

\* The table holds streams of the attached connection only, under their own
\* ids, and none whose handler has returned.
THEOREM TableAlwaysLive == Spec => []TableIsLive
<1>1. IndInv => TableIsLive
  BY DEF IndInv
<1>. QED
  BY <1>1, Invariance, PTL

-----------------------------------------------------------------------------
(* No request is forgotten.                                                 *)

\* Attach and detach hand the whole table over to a sweep that has nothing
\* else to do; a sweep lets go of a stream by failing it.
LEMMA SweepKeeps ==
  ASSUME IndInv, [Next]_vars, NEW r \in Reqs, NEW c \in Conns, r \in sweep[c].left, st'[r].body = "open"
  PROVE  r \in sweep'[c].left
<1>0. TypeOK /\ sweep[c] # Swept /\ conn # c
  BY DEF IndInv, SweepsOver, Swept
<1>1. ASSUME NEW d \in Conns, Attach(d)
      PROVE  r \in sweep'[c].left
  BY <1>0, <1>1 DEF Attach, TypeOK
<1>2. ASSUME NEW d \in Conns, Detach(d)
      PROVE  sweep'[c] = sweep[c]
  BY <1>0, <1>2 DEF Detach, TypeOK
<1>3. ASSUME NEW d \in Conns, NEW q \in sweep[d].left, SweepFails(d, q)
      PROVE  r \in sweep'[c].left
  <2>1. q # r
    BY <1>0, <1>3, FinishedObject DEF SweepFails, TypeOK, Sweeps
  <2>. QED
    BY <1>0, <1>3, <2>1 DEF SweepFails, TypeOK, Sweeps
<1>4. ASSUME NEW d \in Conns, SweepCloses(d)
      PROVE  r \in sweep'[c].left
  BY <1>0, <1>4 DEF SweepCloses, TypeOK, Sweeps
<1>5. ASSUME NEW d \in Conns, HelloFails(d) \/ Deleted(d) \/ KeepaliveFails(d) \/ ReadFails(d)
      PROVE  Detach(d)
  BY <1>5 DEF HelloFails, Deleted, KeepaliveFails, ReadFails
<1>6. ASSUME NEW d \in Conns, HelloSent(d) \/ Lose(d) \/ WriteReleased(d) \/
                 \E q \in Reqs : RecvHead(d, q) \/ RecvBadHead(d, q) \/ RecvBody(d, q) \/ RecvEnd(d, q) \/ RecvAbort(d, q)
      PROVE  sweep' = sweep
  BY <1>6 DEF HelloSent, Lose, WriteReleased, RecvHead, RecvBadHead, RecvBody, RecvEnd, RecvAbort, sockets
<1>7. ASSUME NEW q \in Reqs, Request(q)
      PROVE  sweep' = sweep
  BY <1>7 DEF Request, Offline, NewStream, HeadSent, HeadFails, GotHead, GotErr, GivesUp, PassChunk,
              EndOfBody, Joined, Drop, PumpEnds, sockets
<1>. QED
  BY <1>1, <1>2, <1>3, <1>4, <1>5, <1>6, <1>7 DEF Next, ReadLoop, Connection, vars, sockets

\* A stream in a table that is emptied is handed to the sweep of the connection
\* it belonged to.
LEMMA TableHandedOver ==
  ASSUME IndInv, [Next]_vars, NEW id \in StreamIds, streams[id] # None, streams' = NoTable
  PROVE  \/ streams'[id] = streams[id]
         \/ \E c \in Conns : streams[id] \in sweep'[c].left
         \/ \E q \in Reqs : NewStream(q) \/ Drop(q)
<1>0. TypeOK /\ conn \in Conns /\ streams[id] \in Table
  BY DEF IndInv, TypeOK, TableIsLive, Table
<1>1. ASSUME NEW d \in Conns, Attach(d)
      PROVE  streams[id] \in sweep'[conn].left
  <2>1. conn # None
    BY DEF IndInv, TableIsLive
  <2>. QED
    BY <1>0, <1>1, <2>1 DEF Attach, TypeOK
<1>2. ASSUME NEW d \in Conns, Detach(d)
      PROVE  streams[id] \in sweep'[d].left \/ streams' = streams
  BY <1>0, <1>2 DEF Detach, TypeOK
<1>3. ASSUME NEW d \in Conns, HelloFails(d) \/ Deleted(d) \/ KeepaliveFails(d) \/ ReadFails(d)
      PROVE  Detach(d)
  BY <1>3 DEF HelloFails, Deleted, KeepaliveFails, ReadFails
<1>4. ASSUME NEW d \in Conns, \/ HelloSent(d) \/ Lose(d) \/ WriteReleased(d) \/ SweepCloses(d)
                              \/ \E r \in sweep[d].left : SweepFails(d, r)
                              \/ \E q \in Reqs : RecvHead(d, q) \/ RecvBadHead(d, q) \/ RecvBody(d, q) \/ RecvEnd(d, q)
                                                 \/ RecvAbort(d, q)
      PROVE  streams' = streams
  BY <1>4 DEF HelloSent, Lose, WriteReleased, SweepCloses, SweepFails, RecvHead, RecvBadHead, RecvBody, RecvEnd,
              RecvAbort, session
<1>5. ASSUME NEW q \in Reqs, HandlerGoesOn(q)
      PROVE  streams' = streams
  BY <1>5 DEF HandlerGoesOn, Offline, HeadSent, HeadFails, GotHead, GotErr, GivesUp, PassChunk,
              EndOfBody, Joined, PumpEnds, session
<1>. QED
  BY <1>0, <1>1, <1>2, <1>3, <1>4, <1>5
     DEF Next, ReadLoop, Connection, Request, HandlerGoesOn, vars, session

\* An open stream is in the table or in the hands of a sweep.
OpenIsHeld ==
    \A r \in Reqs : st[r].body = "open" =>
        \/ \E id \in StreamIds : streams[id] = r
        \/ \E c \in Conns : r \in sweep[c].left

\* No step forgets an open stream.
LEMMA ForgottenNext == IndInv /\ OpenIsHeld /\ [Next]_vars => OpenIsHeld'
<1>. SUFFICES ASSUME IndInv, OpenIsHeld, [Next]_vars, NEW r \in Reqs, st'[r].body = "open"
              PROVE  \/ \E id \in StreamIds : streams'[id] = r
                     \/ \E c \in Conns : r \in sweep'[c].left
  BY DEF OpenIsHeld
<1>0. TypeOK /\ ObjectsStep /\ TableStep
  BY ObjectsSteps, TableSteps DEF IndInv
<1>1. CASE NewStream(r)
  <2>1. nextStream + 1 \in StreamIds
    BY <1>1, IdsLast DEF NewStream
  <2>. QED
    BY <1>0, <1>1, <2>1 DEF NewStream, TypeOK
<1>2. CASE ~NewStream(r)
  <2>1. st[r].body = "open"
    BY <1>0, <1>2 DEF ObjectsStep
  <2>2. CASE \E c \in Conns : r \in sweep[c].left
    BY <2>2, SweepKeeps
  <2>3. ASSUME NEW id \in StreamIds, streams[id] = r
        PROVE  \/ \E i \in StreamIds : streams'[i] = r
               \/ \E c \in Conns : r \in sweep'[c].left
    <3>1. streams[id] # None /\ st[r].id = id /\ st[r].id \in Nat /\ nextStream \in Nat /\ id <= nextStream
      <4>1. streams[id] # None /\ st[r].id = id
        BY <2>3, NoneAssumption DEF IndInv, TableIsLive
      <4>2. Cardinality(Reqs) \in Nat
        BY ReqsAssumption, FS_CardinalityType
      <4>3. st[r].id \in Nat /\ nextStream \in Nat
        BY <1>0, <4>2 DEF TypeOK, Objects
      <4>4. st[r].id <= nextStream
        BY DEF IndInv, IdsOwn
      <4>. QED
        BY <4>1, <4>3, <4>4
    <3>2. CASE UNCHANGED session
      BY <2>3, <3>2 DEF session
    <3>3. ASSUME NEW q \in Reqs, NewStream(q)
          PROVE  streams'[id] = r
      BY <1>0, <2>3, <3>1, <3>3 DEF NewStream, TypeOK
    <3>4. ASSUME NEW q \in Reqs, Drop(q)
          PROVE  streams'[id] = r
      <4>1. q # r
        <5>1. SUFFICES ASSUME q = r PROVE FALSE
          OBVIOUS
        <5>2. st' = Finished(r, "failed")
          BY <2>3, <3>1, <3>4, <5>1 DEF Drop, Found
        <5>. QED
          BY <1>0, <5>2, FinishedObject
      <4>2. st[q].id # 0
        BY <3>4 DEF Drop, IndInv, HandlersOwnStreams
      <4>3. st[q].id # id
        BY <3>1, <4>1, <4>2 DEF IndInv, IdsOwn
      <4>. QED
        BY <1>0, <2>3, <3>4, <4>3 DEF Drop, TypeOK
    <3>5. CASE streams' = NoTable
      <4>1. \/ streams'[id] = r
            \/ \E c \in Conns : r \in sweep'[c].left
            \/ \E q \in Reqs : NewStream(q) \/ Drop(q)
        BY <2>3, <3>1, <3>5, TableHandedOver
      <4>. QED
        BY <3>3, <3>4, <4>1
    <3>. QED
      BY <1>0, <3>2, <3>3, <3>4, <3>5 DEF TableStep
  <2>. QED
    BY <2>1, <2>2, <2>3 DEF OpenIsHeld
<1>. QED
  BY <1>1, <1>2

\* A handler is told of what happens to its stream: one that has failed has
\* left its error, and one that has ended well has had its head before.
Told(r) ==
    /\ st[r].body = "failed" => st[r].err
    /\ st[r].body = "eof" => st[r].head
    /\ st[r].id # 0 => st[r].body # "none"
    /\ st[r].id = 0 => ~reply[r].head
    /\ reply[r].head /\ ~st[r].head => r \notin Table

\* finish leaves an error exactly when the stream has failed.
LEMMA FinishedTells ==
  ASSUME TypeOK, NEW q \in Reqs \cup {None}, NEW how \in {"eof", "failed"}, NEW r \in Reqs
  PROVE  \/ Finished(q, how)[r] = st[r]
         \/ /\ r = q /\ st[r].body = "open"
            /\ Finished(q, how)[r].body = how
            /\ Finished(q, how)[r].head = st[r].head
            /\ Finished(q, how)[r].id = st[r].id
            /\ Finished(q, how)[r].err = (how = "failed")
<1>1. st \in [Reqs -> Objects] /\ st[r] \in Objects
  BY DEF TypeOK
<1>2. CASE r = q /\ st[q].body = "open" /\ q # None
  <2>. DEFINE o == [st[r] EXCEPT !.body = how, !.err = (how = "failed")]
  <2>1. o.body = how /\ o.head = st[r].head /\ o.id = st[r].id /\ o.err = (how = "failed")
    BY <1>1 DEF Objects
  <2>2. Finished(q, how) = [st EXCEPT ![q] = o]
    BY <1>2 DEF Finished
  <2>3. Finished(q, how)[r] = o
    BY <1>1, <1>2, <2>2
  <2>. HIDE DEF o
  <2>. QED
    BY <1>2, <2>1, <2>3
<1>3. CASE ~(r = q /\ st[q].body = "open" /\ q # None)
  BY <1>1, <1>3, NoneAssumption DEF Finished
<1>. QED
  BY <1>2, <1>3

\* A request that is in the table is there under its own id.
LEMMA InTable ==
  ASSUME IndInv, NEW r \in Reqs
  PROVE  r \in Table <=> st[r].id \in StreamIds /\ Found(r) = r
<1>1. ASSUME r \in Table
      PROVE  st[r].id \in StreamIds /\ Found(r) = r
  <2>1. PICK id \in StreamIds : streams[id] = r
    BY <1>1 DEF Table
  <2>2. st[r].id = id
    BY <2>1, NoneAssumption DEF IndInv, TableIsLive
  <2>. QED
    BY <2>1, <2>2 DEF Found
<1>. QED
  BY <1>1 DEF Found, Table

\* A step that leaves the stream and its reply alone, and puts nothing into
\* the table, leaves the handler told.
LEMMA QuietTold ==
  ASSUME NEW r \in Reqs, Told(r), st'[r] = st[r], reply'[r].head = reply[r].head,
         r \in Table' => r \in Table
  PROVE  Told(r)'
  BY DEF Told

\* A step that finishes a stream, with a reply's end after its head, does too.
LEMMA FinishTold ==
  ASSUME TypeOK, NEW r \in Reqs, Told(r), reply'[r].head = reply[r].head, r \in Table' => r \in Table,
         NEW q \in Reqs \cup {None}, NEW how \in {"eof", "failed"}, st' = Finished(q, how),
         how = "eof" /\ q = r => st[r].head
  PROVE  Told(r)'
<1>1. CASE st'[r] = st[r]
  BY <1>1, QuietTold
<1>2. CASE st'[r] # st[r]
  <2>1. /\ r = q /\ st'[r].body = how /\ st'[r].head = st[r].head
        /\ st'[r].id = st[r].id /\ st'[r].err = (how = "failed")
    BY <1>2, FinishedTells
  <2>. QED
    BY <2>1 DEF Told
<1>. QED
  BY <1>1, <1>2

\* No step lets a stream end without telling its handler.
LEMMA ToldNext ==
  ASSUME IndInv, [Next]_vars, NEW r \in Reqs, Told(r)
  PROVE  Told(r)'
<1>0. /\ TypeOK /\ st \in [Reqs -> Objects] /\ reply \in [Reqs -> Replies]
      /\ streams \in [StreamIds -> Reqs \cup {None}]
  BY DEF IndInv, TypeOK
<1>1. ASSUME NEW c \in Conns, NEW q \in Reqs, RecvHead(c, q)
      PROVE  Told(r)'
  <2>1. Table' = Table
    BY <1>1 DEF RecvHead, session, Table
  <2>2. CASE q # r
    <3>1. reply'[r] = reply[r]
      BY <1>0, <1>1, <2>2 DEF RecvHead
    <3>2. st'[r] = st[r]
      <4>1. st' = [st EXCEPT ![q].head = TRUE]
        BY <1>1, Delivery DEF RecvHead
      <4>. QED
        BY <1>0, <2>2, <4>1
    <3>. QED
      BY <2>1, <3>1, <3>2, QuietTold
  <2>3. CASE q = r
    <3>1. st[r].id # 0
      BY <1>1, <2>3 DEF RecvHead, Answers, IndInv, HandlersOwnStreams
    <3>2. st' = [st EXCEPT ![r].head = TRUE]
      BY <1>1, <2>3, Delivery DEF RecvHead
    <3>3. /\ st'[r].head /\ st'[r].id = st[r].id /\ st'[r].body = st[r].body
          /\ st'[r].err = st[r].err
      BY <1>0, <3>2 DEF Objects
    <3>. QED
      BY <3>1, <3>3 DEF Told
  <2>. QED
    BY <2>2, <2>3
<1>2. ASSUME NEW c \in Conns, NEW q \in Reqs, RecvBadHead(c, q) \/ RecvEnd(c, q) \/ RecvAbort(c, q)
      PROVE  Told(r)'
  <2>1. Table' = Table /\ reply'[r].head = reply[r].head
    BY <1>0, <1>2 DEF RecvBadHead, RecvEnd, RecvAbort, session, Table, Replies
  <2>2. Found(q) = q
    BY <1>2, Delivery DEF RecvBadHead, RecvEnd, RecvAbort
  <2>3. CASE RecvBadHead(c, q) \/ RecvAbort(c, q)
    BY <1>0, <2>1, <2>2, <2>3, FinishTold DEF RecvBadHead, RecvAbort
  <2>4. CASE RecvEnd(c, q)
    <3>1. st' = Finished(q, "eof") /\ reply[q].head
      BY <2>2, <2>4 DEF RecvEnd
    <3>2. q = r => st[r].head
      <4>1. SUFFICES ASSUME q = r PROVE st[r].head
        OBVIOUS
      <4>2. r \in Table
        BY <2>2, <2>4, <4>1, FoundIsOwn, InTable DEF RecvEnd, Answers, IndInv, HandlersOwnStreams
      <4>. QED
        BY <3>1, <4>1, <4>2 DEF Told
    <3>. QED
      BY <1>0, <2>1, <3>1, <3>2, FinishTold
  <2>. QED
    BY <1>2, <2>3, <2>4
<1>3. ASSUME NEW c \in Conns, NEW q \in sweep[c].left, SweepFails(c, q)
      PROVE  Told(r)'
  <2>1. Table' = Table /\ reply' = reply /\ st' = Finished(q, "failed") /\ q \in Reqs
    BY <1>0, <1>3 DEF SweepFails, session, Table, TypeOK, Sweeps
  <2>. QED
    BY <1>0, <2>1, FinishTold
<1>4. ASSUME NEW q \in Reqs, Drop(q)
      PROVE  Told(r)'
  <2>1. reply' = reply /\ st' = Finished(Found(q), "failed") /\ Found(q) \in Reqs \cup {None}
    BY <1>4, FoundIsOwn DEF Drop, IndInv, HandlersOwnStreams
  <2>2. r \in Table' => r \in Table
    BY <1>0, <1>4, NoneAssumption DEF Drop, Table
  <2>. QED
    BY <1>0, <2>1, <2>2, FinishTold
<1>5. ASSUME NEW q \in Reqs, NewStream(q)
      PROVE  Told(r)'
  <2>1. CASE q = r
    <3>1. st'[r].id = nextStream + 1 /\ st'[r].body = "open" /\ ~reply'[r].head
      <4>1. st[r].id = 0 /\ reply' = reply
        BY <1>5, <2>1 DEF NewStream, IndInv, HandlersOwnStreams, NewObject
      <4>2. st'[r].id = nextStream + 1 /\ st'[r].body = "open"
        BY <1>0, <1>5, <2>1 DEF NewStream, NewObject
      <4>. QED
        BY <4>1, <4>2 DEF Told
    <3>2. nextStream + 1 # 0
      BY <1>0, ReqsAssumption, FS_CardinalityType DEF TypeOK
    <3>. QED
      BY <3>1, <3>2 DEF Told
  <2>2. CASE q # r
    <3>1. st'[r] = st[r] /\ reply' = reply
      BY <1>0, <1>5, <2>2 DEF NewStream
    <3>2. r \in Table' => r \in Table
      BY <1>0, <1>5, <2>2 DEF NewStream, Table
    <3>. QED
      BY <3>1, <3>2, QuietTold
  <2>. QED
    BY <2>1, <2>2
<1>6. ASSUME NEW c \in Conns, NEW q \in Reqs, RecvBody(c, q)
      PROVE  Told(r)'
  <2>1. st' = st /\ Table' = Table /\ reply'[r].head = reply[r].head
    BY <1>0, <1>6 DEF RecvBody, session, Table, Replies
  <2>. QED
    BY <2>1, QuietTold
<1>7. ASSUME NEW c \in Conns, WriteReleased(c) \/ ReadFails(c) \/ Connects(c)
      PROVE  Told(r)'
  <2>1. st' = st /\ reply' = reply
    BY <1>7 DEF Connects, WriteReleased, ReadFails, Attach, HelloSent, HelloFails,
                SweepCloses, Deleted, KeepaliveFails, Lose
  <2>2. streams' = streams \/ streams' = NoTable
    BY <1>7 DEF Connects, WriteReleased, ReadFails, Attach, Detach, HelloSent, HelloFails,
                SweepCloses, Deleted, KeepaliveFails, Lose, session
  <2>3. r \in Table' => r \in Table
    BY <2>2, NoneAssumption DEF Table, NoTable
  <2>. QED
    BY <2>1, <2>3, QuietTold
<1>8. ASSUME NEW q \in Reqs, HandlerGoesOn(q)
      PROVE  Told(r)'
  <2>1. st' = st /\ Table' = Table
    BY <1>8 DEF HandlerGoesOn, Offline, HeadSent, HeadFails, GotHead, GotErr, GivesUp, PassChunk,
                EndOfBody, Joined, PumpEnds, session, Table
  <2>2. reply'[r].head = reply[r].head
    BY <1>0, <1>8 DEF HandlerGoesOn, Offline, HeadSent, HeadFails, GotHead, GotErr, GivesUp, PassChunk,
                EndOfBody, Joined, PumpEnds, Replies
  <2>. QED
    BY <2>1, <2>2, QuietTold
<1>9. CASE UNCHANGED vars
  <2>1. st' = st /\ Table' = Table /\ reply' = reply
    BY <1>9 DEF vars, session, Table
  <2>. QED
    BY <2>1, QuietTold
<1>. QED
  BY <1>1, <1>2, <1>3, <1>4, <1>5, <1>6, <1>7, <1>8, <1>9
     DEF Next, ReadLoop, Connection, Request, Connects, HandlerGoesOn

\* Told and held, a request is not forgotten.
LEMMA ToldAndHeld ==
  ASSUME IndInv, OpenIsHeld, \A r \in Reqs : Told(r)
  PROVE  NobodyForgotten
<1>1. ASSUME NEW r \in Reqs, serve[r] = "wait", ~st[r].head, ~st[r].err
      PROVE  st[r].body = "open"
  <2>1. st[r].id # 0 /\ st[r] \in Objects
    BY <1>1 DEF IndInv, TypeOK, HandlersOwnStreams
  <2>. QED
    BY <1>1, <2>1 DEF Told, Objects
<1>. QED
  BY <1>1 DEF NobodyForgotten, OpenIsHeld, Table

\* Who is open is held.
LEMMA OpenAlwaysHeld == Spec => []OpenIsHeld
<1>1. Init => OpenIsHeld
  BY DEF Init, OpenIsHeld, NewObject
<1>. QED
  BY <1>1, ForgottenNext, Invariance, PTL DEF Spec

\* Handlers are always told.
LEMMA AlwaysTold == Spec => [](\A r \in Reqs : Told(r))
<1>. DEFINE AllTold == \A r \in Reqs : Told(r)
<1>1. Init => AllTold
  BY NoneAssumption DEF Init, Told, NewObject, Table, NoTable
<1>2. IndInv /\ AllTold /\ [Next]_vars => AllTold'
  BY ToldNext
<1>. HIDE DEF AllTold
<1>3. Spec => []AllTold
  BY <1>1, <1>2, Invariance, PTL DEF Spec
<1>. QED
  BY <1>3 DEF AllTold

\* Every open stream, and every request whose handler waits for an answer, is
\* in the table or in the hands of a sweep, so it will be ended: the count of
\* requests, connections and their order do not matter.  It is the part of
\* OrphansAnswered and DeadConnReleasesAll that does not depend on the
\* scheduling.
THEOREM NobodyEverForgotten == Spec => []NobodyForgotten
<1>. DEFINE AllTold == \A r \in Reqs : Told(r)
<1>1. IndInv /\ OpenIsHeld /\ AllTold => NobodyForgotten
  BY ToldAndHeld
<1>2. Spec => []AllTold
  BY AlwaysTold
<1>. HIDE DEF AllTold
<1>. QED
  BY <1>1, <1>2, OpenAlwaysHeld, Invariance, PTL

-----------------------------------------------------------------------------
(* A caller gets its own answer.                                            *)

\* What the client has answered is never taken back.
LEMMA RepliesGrow ==
  ASSUME TypeOK, [Next]_vars, NEW r \in Reqs
  PROVE  /\ reply[r].head => reply'[r].head
         /\ reply[r].ended => reply'[r].ended
         /\ reply[r].chunks > 0 => reply'[r].chunks > 0
<1>0. ASSUME NEW c \in Conns, NEW q \in Reqs, RecvBody(c, q)
      PROVE  /\ reply[r].head => reply'[r].head
             /\ reply[r].ended => reply'[r].ended
             /\ reply[r].chunks > 0 => reply'[r].chunks > 0
  <2>1. reply'[r].head = reply[r].head /\ reply'[r].ended = reply[r].ended
    BY <1>0 DEF RecvBody, TypeOK, Replies
  <2>2. reply[r].chunks \in Nat /\ reply'[r].chunks \in {reply[r].chunks, reply[r].chunks + 1}
    BY <1>0, ChunksAssumption DEF RecvBody, TypeOK, Replies
  <2>. QED
    BY <2>1, <2>2
<1>1. ASSUME NEW c \in Conns, NEW q \in Reqs, RecvHead(c, q) \/ RecvBadHead(c, q) \/ RecvEnd(c, q) \/ RecvAbort(c, q)
      PROVE  /\ reply[r].head => reply'[r].head
             /\ reply[r].ended => reply'[r].ended
             /\ reply[r].chunks > 0 => reply'[r].chunks > 0
  <2>1. reply' = reply \/ reply' = [reply EXCEPT ![q].head = TRUE] \/ reply' = [reply EXCEPT ![q].ended = TRUE]
    BY <1>1 DEF RecvHead, RecvBadHead, RecvEnd, RecvAbort
  <2>2. CASE reply' = [reply EXCEPT ![q].head = TRUE]
    BY <2>2 DEF TypeOK, Replies
  <2>3. CASE reply' = [reply EXCEPT ![q].ended = TRUE]
    BY <2>3 DEF TypeOK, Replies
  <2>. QED
    BY <2>1, <2>2, <2>3
<1>2. ASSUME NEW q \in Reqs, HeadSent(q)
      PROVE  /\ reply[r].head => reply'[r].head
             /\ reply[r].ended => reply'[r].ended
             /\ reply[r].chunks > 0 => reply'[r].chunks > 0
  BY <1>2 DEF HeadSent, TypeOK, Replies
<1>3. ASSUME NEW c \in Conns, WriteReleased(c) \/ ReadFails(c) \/ Connection(c)
      PROVE  reply' = reply
  BY <1>3 DEF WriteReleased, ReadFails, Connection, Attach, HelloSent, HelloFails, SweepCloses, SweepFails,
              Deleted, KeepaliveFails, Lose
<1>4. ASSUME NEW q \in Reqs, Request(q), ~HeadSent(q)
      PROVE  reply' = reply
  BY <1>4 DEF Request, Offline, NewStream, HeadFails, GotHead, GotErr, GivesUp, PassChunk,
              EndOfBody, Joined, Drop, PumpEnds
<1>. QED
  BY <1>0, <1>1, <1>2, <1>3, <1>4 DEF Next, ReadLoop, vars

\* A stream gets a head only from a reply to its own request.
LEMMA HeadNext ==
  ASSUME IndInv, [Next]_vars, NEW r \in Reqs, st'[r].head, ~st[r].head
  PROVE  reply'[r].head
<1>0. TypeOK /\ st \in [Reqs -> Objects]
  BY DEF IndInv, TypeOK
<1>1. ASSUME NEW q \in Reqs \cup {None}, NEW how \in {"eof", "failed"}, st' = Finished(q, how)
      PROVE  FALSE
  BY <1>0, <1>1, FinishedObject
<1>2. ASSUME NEW c \in Conns, NEW q \in Reqs, RecvHead(c, q)
      PROVE  reply'[r].head
  <2>1. q = r
    BY <1>0, <1>2, Delivery DEF RecvHead, Objects
  <2>. QED
    BY <1>0, <1>2, <2>1 DEF RecvHead, TypeOK, Replies
<1>3. ASSUME NEW c \in Conns, NEW q \in Reqs, RecvBadHead(c, q) \/ RecvEnd(c, q) \/ RecvAbort(c, q)
      PROVE  FALSE
  BY <1>1, <1>3, Delivery DEF RecvBadHead, RecvEnd, RecvAbort
<1>4. ASSUME NEW c \in Conns, NEW q \in sweep[c].left, SweepFails(c, q)
      PROVE  FALSE
  BY <1>0, <1>1, <1>4 DEF SweepFails, TypeOK, Sweeps
<1>5. ASSUME NEW q \in Reqs, Drop(q)
      PROVE  FALSE
  <2>1. Found(q) \in {q, None}
    BY <1>5, FoundIsOwn DEF Drop, IndInv, HandlersOwnStreams
  <2>. QED
    BY <1>1, <1>5, <2>1 DEF Drop
<1>6. ASSUME NEW q \in Reqs, NewStream(q)
      PROVE  FALSE
  BY <1>0, <1>6 DEF NewStream, NewObject
<1>7. ASSUME NEW c \in Conns, RecvBodies(c) \/ Connects(c)
      PROVE  st' = st
  BY <1>7 DEF RecvBodies, Connects, RecvBody, WriteReleased, ReadFails, Attach, HelloSent, HelloFails,
              SweepCloses, Deleted, KeepaliveFails, Lose
<1>8. ASSUME NEW q \in Reqs, HandlerGoesOn(q)
      PROVE  st' = st
  BY <1>8 DEF HandlerGoesOn, Offline, HeadSent, HeadFails, GotHead, GotErr, GivesUp, PassChunk,
              EndOfBody, Joined, PumpEnds
<1>. QED
  BY <1>2, <1>3, <1>4, <1>5, <1>6, <1>7, <1>8
     DEF Next, ReadLoop, Connection, Request, RecvBodies, Connects, HandlerGoesOn, vars

\* A stream's body ends well only when its own reply has ended.
LEMMA EofNext ==
  ASSUME IndInv, [Next]_vars, NEW r \in Reqs, st'[r].body = "eof", st[r].body # "eof"
  PROVE  reply'[r].ended
<1>0. TypeOK /\ st \in [Reqs -> Objects]
  BY DEF IndInv, TypeOK
<1>1. ASSUME NEW q \in Reqs \cup {None}, st' = Finished(q, "failed")
      PROVE  FALSE
  BY <1>0, <1>1, FinishedObject
<1>2. ASSUME NEW c \in Conns, NEW q \in Reqs, RecvEnd(c, q)
      PROVE  reply'[r].ended
  <2>1. q = r
    BY <1>0, <1>2, Delivery, FinishedObject DEF RecvEnd
  <2>. QED
    BY <1>0, <1>2, <2>1 DEF RecvEnd, TypeOK, Replies
<1>3. ASSUME NEW c \in Conns, NEW q \in Reqs, RecvBadHead(c, q) \/ RecvAbort(c, q)
      PROVE  FALSE
  BY <1>1, <1>3, Delivery DEF RecvBadHead, RecvAbort
<1>4. ASSUME NEW c \in Conns, NEW q \in sweep[c].left, SweepFails(c, q)
      PROVE  FALSE
  BY <1>0, <1>1, <1>4 DEF SweepFails, TypeOK, Sweeps
<1>5. ASSUME NEW q \in Reqs, Drop(q)
      PROVE  FALSE
  <2>1. Found(q) \in {q, None}
    BY <1>5, FoundIsOwn DEF Drop, IndInv, HandlersOwnStreams
  <2>. QED
    BY <1>1, <1>5, <2>1 DEF Drop
<1>6. ASSUME NEW q \in Reqs, NewStream(q)
      PROVE  FALSE
  BY <1>0, <1>6 DEF NewStream, NewObject
<1>7. ASSUME NEW c \in Conns, NEW q \in Reqs, RecvHead(c, q)
      PROVE  FALSE
  BY <1>0, <1>7, Delivery DEF RecvHead, Objects
<1>8. ASSUME NEW c \in Conns, RecvBodies(c) \/ Connects(c)
      PROVE  st' = st
  BY <1>8 DEF RecvBodies, Connects, RecvBody, WriteReleased, ReadFails, Attach, HelloSent, HelloFails,
              SweepCloses, Deleted, KeepaliveFails, Lose
<1>9. ASSUME NEW q \in Reqs, HandlerGoesOn(q)
      PROVE  st' = st
  BY <1>9 DEF HandlerGoesOn, Offline, HeadSent, HeadFails, GotHead, GotErr, GivesUp, PassChunk,
              EndOfBody, Joined, PumpEnds
<1>. QED
  BY <1>2, <1>3, <1>4, <1>5, <1>6, <1>7, <1>8, <1>9
     DEF Next, ReadLoop, Connection, Request, RecvBodies, Connects, HandlerGoesOn, vars

\* The read loop is handing a chunk to a stream only if its own reply has one.
LEMMA ChunkNext ==
  ASSUME IndInv, [Next]_vars, NEW r \in Reqs, NEW c \in Conns, reader'[c].to = r, reader[c].to # r
  PROVE  reply'[r].chunks > 0
<1>0. TypeOK
  BY DEF IndInv
<1>1. ASSUME NEW d \in Conns, NEW q \in Reqs, RecvBody(d, q)
      PROVE  reply'[r].chunks > 0
  <2>1. q = r
    BY <1>0, <1>1, Delivery DEF RecvBody, TypeOK
  <2>. QED
    BY <1>0, <1>1, <2>1, ChunksAssumption DEF RecvBody, TypeOK, Replies
<1>2. ASSUME NEW d \in Conns, NEW q \in Reqs, WriteReleased(d) \/ PassChunk(q, d)
      PROVE  FALSE
  BY <1>0, <1>2, NoneAssumption DEF WriteReleased, PassChunk, TypeOK
<1>3. ASSUME NEW d \in Conns, WriteReleased(d) \/ ReadFails(d) \/ HelloSent(d)
      PROVE  FALSE
  BY <1>0, <1>3, NoneAssumption DEF WriteReleased, ReadFails, HelloSent, TypeOK, Readers
<1>4. ASSUME NEW d \in Conns, Connection(d), ~HelloSent(d)
      PROVE  reader' = reader
  BY <1>4 DEF Connection, Attach, HelloFails, SweepCloses, SweepFails, Deleted, KeepaliveFails, Lose
<1>5. ASSUME NEW d \in Conns, NEW q \in Reqs, RecvHead(d, q) \/ RecvBadHead(d, q) \/ RecvEnd(d, q) \/ RecvAbort(d, q)
      PROVE  reader' = reader
  BY <1>5 DEF RecvHead, RecvBadHead, RecvEnd, RecvAbort
<1>6. ASSUME NEW q \in Reqs, Request(q), \A d \in Conns : ~PassChunk(q, d)
      PROVE  reader' = reader
  BY <1>6 DEF Request, Offline, NewStream, HeadSent, HeadFails, GotHead, GotErr, GivesUp,
              EndOfBody, Joined, Drop, PumpEnds
<1>. QED
  BY <1>1, <1>2, <1>3, <1>4, <1>5, <1>6 DEF Next, ReadLoop, vars

\* No step delivers a frame to a stream of another request.
LEMMA OwnFramesNext == IndInv /\ OwnFrames /\ [Next]_vars => OwnFrames'
<1>. SUFFICES ASSUME IndInv, OwnFrames, [Next]_vars, NEW r \in Reqs
              PROVE  /\ st'[r].head => reply'[r].head
                     /\ st'[r].body = "eof" => reply'[r].ended
                     /\ \A c \in Conns : reader'[c].to = r => reply'[r].chunks > 0
  BY DEF OwnFrames
<1>1. TypeOK
  BY DEF IndInv
<1>2. st'[r].head => reply'[r].head
  BY <1>1, HeadNext, RepliesGrow DEF OwnFrames
<1>3. st'[r].body = "eof" => reply'[r].ended
  BY <1>1, EofNext, RepliesGrow DEF OwnFrames
<1>4. \A c \in Conns : reader'[c].to = r => reply'[r].chunks > 0
  BY <1>1, ChunkNext, RepliesGrow DEF OwnFrames
<1>. QED
  BY <1>2, <1>3, <1>4

\* No frame ever reaches the stream of another request.
THEOREM FramesAreOwn == Spec => []OwnFrames
<1>1. Init => OwnFrames
  BY NoneAssumption DEF Init, OwnFrames, NewObject
<1>. QED
  BY <1>1, OwnFramesNext, Invariance, PTL DEF Spec

-----------------------------------------------------------------------------
(* Who notices a dead connection, and who frees a blocked read loop.        *)

\* The attached connection is watched: handleTunnel is still to send its Hello
\* or keepalive, which nothing can block for ever, runs.
Watched ==
    \A c \in Conns : conn = c =>
        \/ upgrade[c].pc = "hello"
        \/ upgrade[c].pc = "done" /\ keeper[c]

\* No step leaves the attached connection without its watcher.
LEMMA WatchedNext == IndInv /\ Watched /\ [Next]_vars => Watched'
<1>. SUFFICES ASSUME IndInv, Watched, [Next]_vars, NEW c \in Conns, conn' = c
              PROVE  \/ upgrade'[c].pc = "hello"
                     \/ upgrade'[c].pc = "done" /\ keeper'[c]
  BY DEF Watched
<1>0. /\ upgrade \in [Conns -> Upgrades] /\ keeper \in [Conns -> BOOLEAN]
      /\ conn \in Conns \cup {None}
  BY DEF IndInv, TypeOK
<1>1. ASSUME NEW d \in Conns, Attach(d)
      PROVE  upgrade'[c].pc = "hello"
  BY <1>0, <1>1 DEF Attach
<1>2. ASSUME NEW d \in Conns, HelloSent(d)
      PROVE  \/ upgrade'[c].pc = "hello"
             \/ upgrade'[c].pc = "done" /\ keeper'[c]
  <2>1. conn = c /\ \A e \in Conns \ {d} : upgrade'[e] = upgrade[e] /\ keeper'[e] = keeper[e]
    BY <1>0, <1>2 DEF HelloSent, session
  <2>2. upgrade'[d].pc = "done" /\ keeper'[d]
    BY <1>0, <1>2 DEF HelloSent, Upgraded
  <2>. QED
    BY <2>1, <2>2 DEF Watched
<1>3. ASSUME NEW d \in Conns, HelloFails(d)
      PROVE  \/ upgrade'[c].pc = "hello"
             \/ upgrade'[c].pc = "done" /\ keeper'[c]
  <2>1. conn = c /\ d # c
    BY <1>0, <1>3, NoneAssumption DEF HelloFails, Detach
  <2>. QED
    BY <1>0, <1>3, <2>1 DEF HelloFails, Watched
<1>4. ASSUME NEW d \in Conns, KeepaliveFails(d)
      PROVE  \/ upgrade'[c].pc = "hello"
             \/ upgrade'[c].pc = "done" /\ keeper'[c]
  <2>1. conn = c /\ d # c
    BY <1>0, <1>4, NoneAssumption DEF KeepaliveFails, Detach
  <2>. QED
    BY <1>0, <1>4, <2>1 DEF KeepaliveFails, Watched
<1>5. ASSUME NEW d \in Conns, Deleted(d) \/ ReadFails(d)
      PROVE  conn = c /\ UNCHANGED <<upgrade, keeper>>
  BY <1>0, <1>5, NoneAssumption DEF Deleted, ReadFails, Detach
<1>6. ASSUME NEW d \in Conns, \/ SweepCloses(d) \/ Lose(d) \/ WriteReleased(d)
                              \/ \E r \in sweep[d].left : SweepFails(d, r)
                              \/ \E q \in Reqs : RecvHead(d, q) \/ RecvBadHead(d, q) \/ RecvBody(d, q) \/ RecvEnd(d, q)
                                                 \/ RecvAbort(d, q)
      PROVE  conn = c /\ UNCHANGED <<upgrade, keeper>>
  BY <1>6 DEF SweepCloses, Lose, WriteReleased, SweepFails, RecvHead, RecvBadHead, RecvBody, RecvEnd,
              RecvAbort, session, sockets
<1>7. ASSUME NEW r \in Reqs, Request(r)
      PROVE  conn = c /\ UNCHANGED <<upgrade, keeper>>
  BY <1>7 DEF Request, Offline, NewStream, HeadSent, HeadFails, GotHead, GotErr, GivesUp, PassChunk,
              EndOfBody, Joined, Drop, PumpEnds, session, sockets
<1>8. CASE UNCHANGED vars
  BY <1>8 DEF vars, session, sockets, Watched
<1>9. ASSUME conn = c, UNCHANGED <<upgrade, keeper>>
      PROVE  \/ upgrade'[c].pc = "hello"
             \/ upgrade'[c].pc = "done" /\ keeper'[c]
  BY <1>9 DEF Watched
<1>. QED
  BY <1>1, <1>2, <1>3, <1>4, <1>5, <1>6, <1>7, <1>8, <1>9 DEF Next, ReadLoop, Connection

\* An attached connection never loses its keepalive before it is detached,
\* whatever its read loop is blocked on: what DeadConnReleasesAll rests on.
THEOREM AlwaysWatched == Spec => []Watched
<1>1. Init => Watched
  BY NoneAssumption DEF Init, Watched
<1>. QED
  BY <1>1, WatchedNext, Invariance, PTL DEF Spec

\* A handler that has read its stream to the end has found it closed, and one
\* that the client was asked to answer is past its head.
HandlerOK(r) ==
    /\ serve[r] = "join" => st[r].body # "open"
    /\ reply[r].asked => serve[r] \notin {"idle", "head"}

\* A read loop writes to streams of requests the client was asked to answer.
ReaderOK(c) == reader[c].pc = "write" => reply[reader[c].to].asked

\* What the steps that are not about r do to its handler and its reply.
LEMMA OtherHandlers ==
  ASSUME IndInv, [Next]_vars, NEW r \in Reqs
  PROVE  \/ serve'[r] = serve[r] /\ (reply'[r].asked = reply[r].asked)
         \/ NewStream(r) \/ HeadSent(r) \/ EndOfBody(r)
         \/ serve'[r] \notin {"idle", "head", "join"} /\ reply' = reply
<1>0. /\ serve \in [Reqs -> {"idle", "head", "wait", "stream", "join", "drop", "done"}]
      /\ reply \in [Reqs -> Replies]
  BY DEF IndInv, TypeOK
<1>1. ASSUME NEW c \in Conns, ReadLoop(c)
      PROVE  serve' = serve /\ reply'[r].asked = reply[r].asked
  BY <1>0, <1>1 DEF ReadLoop, RecvHead, RecvBadHead, RecvBody, RecvEnd, RecvAbort, WriteReleased, ReadFails, requests,
              Replies
<1>2. ASSUME NEW c \in Conns, Connection(c)
      PROVE  serve' = serve /\ reply'[r].asked = reply[r].asked
  BY <1>2 DEF Connection, Attach, HelloSent, HelloFails, SweepCloses, SweepFails, Deleted, KeepaliveFails, Lose,
              requests
<1>3. ASSUME NEW q \in Reqs, Request(q), q # r
      PROVE  serve'[r] = serve[r] /\ reply'[r].asked = reply[r].asked
  <2>1. serve'[r] = serve[r]
    BY <1>0, <1>3 DEF Request, Offline, NewStream, HeadSent, HeadFails, GotHead, GotErr, GivesUp, PassChunk,
              EndOfBody, Joined, Drop, PumpEnds
  <2>2. reply'[r] = reply[r]
    BY <1>0, <1>3 DEF Request, Offline, NewStream, HeadSent, HeadFails, GotHead, GotErr, GivesUp, PassChunk,
              EndOfBody, Joined, Drop, PumpEnds
  <2>. QED
    BY <2>1, <2>2
<1>4. ASSUME Request(r)
      PROVE  \/ serve'[r] = serve[r] /\ (reply'[r].asked = reply[r].asked)
             \/ NewStream(r) \/ HeadSent(r) \/ EndOfBody(r)
             \/ serve'[r] \notin {"idle", "head", "join"} /\ reply' = reply
  <2>1. ASSUME Offline(r) \/ HeadFails(r) \/ GotHead(r) \/ GotErr(r) \/ GivesUp(r) \/ Joined(r) \/ Drop(r)
        PROVE  serve'[r] \notin {"idle", "head", "join"} /\ reply' = reply
    BY <1>0, <2>1 DEF Offline, HeadFails, GotHead, GotErr, GivesUp, Joined, Drop
  <2>2. ASSUME NEW c \in Conns, PassChunk(r, c)
        PROVE  \/ serve'[r] = serve[r] /\ reply' = reply
               \/ serve'[r] \notin {"idle", "head", "join"} /\ reply' = reply
    BY <1>0, <2>2 DEF PassChunk
  <2>3. ASSUME PumpEnds(r)
        PROVE  serve'[r] = serve[r] /\ reply' = reply
    BY <2>3 DEF PumpEnds
  <2>. QED
    BY <1>4, <2>1, <2>2, <2>3 DEF Request
<1>. QED
  BY <1>1, <1>2, <1>3, <1>4 DEF Next, vars, requests

\* No step disturbs that.
LEMMA HandlerNext ==
  ASSUME IndInv, [Next]_vars, NEW r \in Reqs, HandlerOK(r)
  PROVE  HandlerOK(r)'
<1>0. /\ serve \in [Reqs -> {"idle", "head", "wait", "stream", "join", "drop", "done"}]
      /\ reply \in [Reqs -> Replies] /\ st \in [Reqs -> Objects]
  BY DEF IndInv, TypeOK
<1>1. CASE NewStream(r)
  BY <1>0, <1>1 DEF NewStream, HandlerOK
<1>2. CASE HeadSent(r)
  BY <1>0, <1>2 DEF HeadSent, HandlerOK
<1>3. CASE EndOfBody(r)
  BY <1>0, <1>3 DEF EndOfBody, HandlerOK
<1>4. CASE serve'[r] \notin {"idle", "head", "join"} /\ reply' = reply
  BY <1>4 DEF HandlerOK
<1>5. CASE serve'[r] = serve[r] /\ (reply'[r].asked = reply[r].asked) /\ ~NewStream(r)
  <2>1. st[r].body # "open" => st'[r].body # "open"
    BY <1>5, ObjectsSteps DEF ObjectsStep
  <2>. QED
    BY <1>5, <2>1 DEF HandlerOK
<1>. QED
  BY <1>1, <1>2, <1>3, <1>4, <1>5, OtherHandlers

\* Nor that: what was asked stays asked.
LEMMA ReaderNext ==
  ASSUME IndInv, \A r \in Reqs : HandlerOK(r), [Next]_vars, NEW c \in Conns, ReaderOK(c)
  PROVE  ReaderOK(c)'
<1>0. TypeOK /\ reply \in [Reqs -> Replies] /\ reader \in [Conns -> Readers]
  BY DEF IndInv, TypeOK
<1>1. \A r \in Reqs : reply[r].asked => reply'[r].asked
  <2>. SUFFICES ASSUME NEW r \in Reqs, reply[r].asked PROVE reply'[r].asked
    OBVIOUS
  <2>1. ~NewStream(r) /\ ~HeadSent(r)
    BY DEF HandlerOK, NewStream, HeadSent
  <2>2. EndOfBody(r) => reply' = reply
    BY DEF EndOfBody
  <2>. QED
    BY <2>1, <2>2, OtherHandlers
<1>2. ASSUME NEW d \in Conns, NEW q \in Reqs, RecvBody(d, q)
      PROVE  ReaderOK(c)'
  <2>1. reader'[c] = reader[c] \/ (reader'[c] = [pc |-> "write", to |-> q] /\ reply[q].asked)
    <3>1. reply[q].asked /\ reader' = [reader EXCEPT ![d] = [pc |-> "write", to |-> q]]
      BY <1>2, Delivery DEF RecvBody, Answers
    <3>. QED
      BY <1>0, <3>1
  <2>2. CASE reader'[c] = reader[c]
    BY <1>0, <1>1, <2>2 DEF ReaderOK, Readers
  <2>3. CASE reader'[c] = [pc |-> "write", to |-> q] /\ reply[q].asked
    BY <1>1, <2>3 DEF ReaderOK
  <2>. QED
    BY <2>1, <2>2, <2>3
<1>3. ASSUME reader'[c].pc = "write" => reader'[c] = reader[c]
      PROVE  ReaderOK(c)'
  BY <1>0, <1>1, <1>3 DEF ReaderOK, Readers
<1>4. ASSUME NEW d \in Conns, WriteReleased(d) \/ ReadFails(d) \/ HelloSent(d)
      PROVE  reader'[c].pc = "write" => reader'[c] = reader[c]
  <2>1. "pc" \in DOMAIN reader[d]
    BY <1>0 DEF Readers
  <2>2. reader'[d].pc # "write"
    BY <1>0, <1>4, <2>1 DEF WriteReleased, ReadFails, HelloSent
  <2>3. c # d => reader'[c] = reader[c]
    BY <1>0, <1>4 DEF WriteReleased, ReadFails, HelloSent
  <2>. QED
    BY <2>2, <2>3
<1>5. ASSUME NEW d \in Conns, NEW q \in Reqs, PassChunk(q, d)
      PROVE  reader'[c].pc = "write" => reader'[c] = reader[c]
  BY <1>0, <1>5 DEF PassChunk
<1>6. ASSUME NEW d \in Conns, Connection(d), ~HelloSent(d)
      PROVE  reader' = reader
  BY <1>6 DEF Connection, Attach, HelloFails, SweepCloses, SweepFails, Deleted, KeepaliveFails, Lose
<1>7. ASSUME NEW d \in Conns, NEW q \in Reqs, RecvHead(d, q) \/ RecvBadHead(d, q) \/ RecvEnd(d, q) \/ RecvAbort(d, q)
      PROVE  reader' = reader
  BY <1>7 DEF RecvHead, RecvBadHead, RecvEnd, RecvAbort
<1>8. ASSUME NEW q \in Reqs, Request(q), \A d \in Conns : ~PassChunk(q, d)
      PROVE  reader' = reader
  BY <1>8 DEF Request, Offline, NewStream, HeadSent, HeadFails, GotHead, GotErr, GivesUp,
              EndOfBody, Joined, Drop, PumpEnds
<1>. QED
  BY <1>2, <1>3, <1>4, <1>5, <1>6, <1>7, <1>8 DEF Next, ReadLoop, vars

\* A read loop that is blocked on a pipe that is still open has somebody who
\* will read from it or close it: a handler that waits, streams or is about to
\* drop its stream, or the sweep of an emptied table.
BlockedHasReader ==
    \A c \in Conns, r \in Reqs :
        reader[c] = [pc |-> "write", to |-> r] /\ st[r].body = "open" =>
           \/ serve[r] \in {"wait", "stream", "drop"}
           \/ \E d \in Conns : r \in sweep[d].left

\* So no read loop is ever blocked on a pipe that everybody has left: the part
\* of ReadLoopReleased that does not depend on the scheduling.
THEOREM BlockedAlwaysHasReader == Spec => []BlockedHasReader
<1>. DEFINE AllOK == (\A r \in Reqs : HandlerOK(r)) /\ (\A c \in Conns : ReaderOK(c))
<1>1. Init => AllOK
  BY DEF Init, HandlerOK, ReaderOK
<1>2. IndInv /\ AllOK /\ [Next]_vars => AllOK'
  BY HandlerNext, ReaderNext
<1>3. IndInv /\ OpenIsHeld /\ AllOK => BlockedHasReader
  <2>. SUFFICES ASSUME IndInv, OpenIsHeld, AllOK, NEW c \in Conns, NEW r \in Reqs,
                       reader[c] = [pc |-> "write", to |-> r], st[r].body = "open",
                       \A d \in Conns : r \notin sweep[d].left
                PROVE  serve[r] \in {"wait", "stream", "drop"}
    BY DEF BlockedHasReader
  <2>1. reply[r].asked
    BY DEF ReaderOK
  <2>2. serve[r] \notin {"idle", "head", "join"}
    BY <2>1 DEF HandlerOK
  <2>3. PICK id \in StreamIds : streams[id] = r
    BY DEF OpenIsHeld
  <2>4. serve[r] # "done"
    BY <2>3, NoneAssumption DEF IndInv, TableIsLive
  <2>. QED
    BY <2>2, <2>4 DEF IndInv, TypeOK
<1>. HIDE DEF AllOK
<1>. QED
  BY <1>1, <1>2, <1>3, OpenAlwaysHeld, Invariance, PTL DEF Spec
=============================================================================
