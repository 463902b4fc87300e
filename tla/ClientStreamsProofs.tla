------------------------ MODULE ClientStreamsProofs ------------------------
(***************************************************************************)
(* What holds of the client for any number of requests, connections and     *)
(* chunks, whether the server forgets its ids or not.                       *)
(***************************************************************************)
EXTENDS ClientStreams, FiniteSetTheorems, TLAPS

Started == {r \in Reqs : sent[r].pc # "nothing"}

\* The server has given no more ids than it has sent requests.
Counted == last <= Cardinality(Started)

\* A request has an inbound and a handler from its head on.
RequestOK(r) ==
    /\ sent[r].pc = "nothing" <=> handler[r] = "none"
    /\ handler[r] = "none" => inb[r].id = 0 /\ inb[r].body = "none"
    /\ handler[r] # "none" => inb[r].id \in Ids

\* The table holds no id the server has still to give on this connection.
TableOK == \A id \in Ids : streams[id] # None => id <= last /\ handler[streams[id]] # "none"

\* It is empty unless serve reads, and closeAll is at work only after that.
PhaseOK ==
    /\ loop.pc \notin {"read", "write"} => streams = NoTable
    /\ closing # {} => loop.pc = "close"

IInv ==
    /\ TypeOK
    /\ Counted
    /\ \A r \in Reqs : RequestOK(r)
    /\ TableOK
    /\ PhaseOK
    /\ TableIsCurrent
    /\ NobodyStranded
    /\ OwnIdBodiesComplete

-----------------------------------------------------------------------------
LEMMA CardinalityOfReqs == Cardinality(Reqs) \in Nat
BY ReqsAssumption, FS_CardinalityType

\* inbound.close touches one body, and only if it is open.
LEMMA ClosedOnly ==
    ASSUME inb \in [Reqs -> Inbounds], NEW q \in Reqs \cup {None}, NEW how \in {"eof", "failed"}
    PROVE  /\ Closed(q, how) \in [Reqs -> Inbounds]
           /\ \A r \in Reqs :
                 /\ Closed(q, how)[r].id = inb[r].id
                 /\ Closed(q, how)[r].epoch = inb[r].epoch
                 /\ Closed(q, how)[r].body =
                       IF r = q /\ inb[r].body = "open" THEN how ELSE inb[r].body
<1>1. CASE q # None /\ inb[q].body = "open"
  <2>1. Closed(q, how) = [inb EXCEPT ![q].body = how] /\ q \in Reqs
    BY <1>1 DEF Closed
  <2>2. inb[q] \in Inbounds
    BY <2>1
  <2>3. [inb[q] EXCEPT !.body = how] \in Inbounds
    BY <2>2 DEF Inbounds
  <2>4. /\ [inb[q] EXCEPT !.body = how].id = inb[q].id
        /\ [inb[q] EXCEPT !.body = how].epoch = inb[q].epoch
        /\ [inb[q] EXCEPT !.body = how].body = how
    BY <2>2 DEF Inbounds
  <2> QED BY <1>1, <2>1, <2>3, <2>4
<1>2. CASE ~(q # None /\ inb[q].body = "open")
  <2>1. Closed(q, how) = inb
    BY <1>2 DEF Closed
  <2>2. \A r \in Reqs : r = q => inb[r].body # "open"
    BY <1>2, ReqsAssumption
  <2> QED BY <2>1, <2>2
<1> QED BY <1>1, <1>2

\* There is an id left for a request that has none.
LEMMA RoomForOne ==
    ASSUME IInv, NEW r \in Reqs, sent[r].pc = "nothing"
    PROVE  last + 1 \in Ids /\ last + 1 <= Cardinality(Started \cup {r})
<1>1. last \in Nat /\ last <= Cardinality(Started)
  BY DEF IInv, TypeOK, Counted
<1>2. Started \subseteq Reqs /\ r \notin Started
  BY DEF Started
<1>3. IsFiniteSet(Started) /\ Cardinality(Started) \in Nat
  BY <1>2, ReqsAssumption, FS_Subset, FS_CardinalityType
<1>4. Cardinality(Started \cup {r}) = Cardinality(Started) + 1
  BY <1>2, <1>3, FS_AddElement
<1>5. Cardinality(Started \cup {r}) <= Cardinality(Reqs)
  BY <1>2, ReqsAssumption, FS_Subset
<1> QED BY <1>1, <1>3, <1>4, <1>5, CardinalityOfReqs DEF Ids

LEMMA InitOK == Init => IInv
<1> SUFFICES ASSUME Init PROVE IInv
  OBVIOUS
<1>1. TypeOK
  <2>1. loop \in Loops /\ streams \in [Ids -> Reqs \cup {None}]
    BY DEF Init, Loops, NoTable
  <2>2. NoInbound \in Inbounds
    BY CardinalityOfReqs, BoundsAssumption DEF NoInbound, Inbounds
  <2>3. inb \in [Reqs -> Inbounds]
    BY <2>2 DEF Init
  <2>4. sent \in [Reqs -> [pc : {"nothing", "head", "end", "abort"}, chunks : 0..Chunks]]
    BY BoundsAssumption DEF Init
  <2>5. epoch \in 0..Epochs /\ last \in 0..Cardinality(Reqs)
    BY CardinalityOfReqs, BoundsAssumption DEF Init
  <2> QED BY <2>1, <2>3, <2>4, <2>5 DEF Init, TypeOK
<1>2. Counted
  <2>1. Started = {}
    BY DEF Init, Started
  <2> QED BY <2>1, FS_EmptySet DEF Init, Counted
<1>3. \A r \in Reqs : RequestOK(r)
  BY DEF Init, RequestOK, NoInbound
<1>4. TableOK /\ PhaseOK /\ TableIsCurrent
  BY DEF Init, TableOK, PhaseOK, TableIsCurrent, NoTable
<1>5. NobodyStranded /\ OwnIdBodiesComplete
  BY DEF Init, NobodyStranded, OwnIdBodiesComplete, EndsEarly, NoInbound
<1> QED BY <1>1, <1>2, <1>3, <1>4, <1>5 DEF IInv

\* A step that is about none of this.
LEMMA QuietSteps ==
    ASSUME IInv, TypeOK', UNCHANGED <<table, inb, handler, last, epoch>>,
           \A r \in Reqs : sent'[r].pc = sent[r].pc,
           loop'.pc \in {"read", "write"} <=> loop.pc \in {"read", "write"},
           closing # {} => loop'.pc = "close"
    PROVE  IInv'
<1> USE DEF IInv, table
<1>1. Counted'
  <2>1. Started' = Started
    BY DEF Started
  <2> QED BY <2>1 DEF Counted
<1>2. \A r \in Reqs : RequestOK(r)'
  BY DEF RequestOK
<1>3. TableOK' /\ PhaseOK' /\ TableIsCurrent'
  BY DEF TableOK, PhaseOK, TableIsCurrent
<1>4. NobodyStranded'
  BY DEF NobodyStranded, Held
<1>5. OwnIdBodiesComplete'
  BY DEF OwnIdBodiesComplete, EndsEarly
<1> QED BY <1>1, <1>2, <1>3, <1>4, <1>5

LEMMA ConnectOK == ASSUME IInv, Connect PROVE IInv'
<1> USE DEF IInv
<1>1. TypeOK'
  BY CardinalityOfReqs, BoundsAssumption DEF Connect, TypeOK, Loops, Reading, table, requests
<1>2. streams = NoTable /\ closing = {}
  BY DEF Connect, PhaseOK
<1>3. Counted'
  <2>1. last' = last \/ last' = 0
    BY DEF Connect
  <2>2. Started' = Started
    BY DEF Connect, Started
  <2>3. Cardinality(Started) \in Nat
    BY ReqsAssumption, FS_Subset, FS_CardinalityType DEF Started
  <2> QED BY <2>1, <2>2, <2>3 DEF Counted, TypeOK
<1>4. \A r \in Reqs : RequestOK(r)'
  BY DEF Connect, RequestOK, requests
<1>5. TableOK' /\ PhaseOK' /\ TableIsCurrent'
  BY <1>2 DEF Connect, TableOK, PhaseOK, TableIsCurrent, NoTable, table, Reading
<1>6. NobodyStranded'
  BY <1>2 DEF Connect, NobodyStranded, Held, NoTable, table, requests
<1>7. OwnIdBodiesComplete'
  BY DEF Connect, OwnIdBodiesComplete, EndsEarly, requests
<1> QED BY <1>1, <1>3, <1>4, <1>5, <1>6, <1>7

\* The link, the context and Run.
LEMMA RunOK == ASSUME IInv, Lose \/ Cancel \/ CancelCloses \/ RunReturns PROVE IInv'
<1>1. TypeOK'
  BY DEF IInv, TypeOK, Lose, Cancel, CancelCloses, RunReturns, Loops, table, server, requests
<1>2. loop'.pc \in {"read", "write"} <=> loop.pc \in {"read", "write"}
  BY DEF IInv, TypeOK, Lose, Cancel, CancelCloses, RunReturns, Loops
<1>3. closing # {} => loop'.pc = "close"
  BY DEF IInv, PhaseOK, Lose, Cancel, CancelCloses, RunReturns
<1> QED BY <1>1, <1>2, <1>3, QuietSteps
        DEF Lose, Cancel, CancelCloses, RunReturns, table, server, requests

LEMMA RecvHeadOK == ASSUME IInv, NEW r \in Reqs, RecvHead(r) PROVE IInv'
<1> USE DEF IInv
<1> DEFINE i == last + 1
           new == [id |-> i, epoch |-> epoch, body |-> "open"]
<1>0. TypeOK /\ sent[r].pc = "nothing" /\ handler[r] = "none" /\ r # None
  BY ReqsAssumption DEF RecvHead, RequestOK
<1>1. i \in Ids /\ i <= Cardinality(Started \cup {r})
  BY <1>0, RoomForOne
<1>2. /\ last' = i
      /\ sent' = [sent EXCEPT ![r].pc = "head"]
      /\ inb' = [inb EXCEPT ![r] = new]
      /\ streams' = [streams EXCEPT ![i] = r]
      /\ handler' = [handler EXCEPT ![r] = "run"]
      /\ UNCHANGED <<epoch, link, loop, cancelled, closing, resp>>
  BY DEF RecvHead, run
<1>3. loop.pc = "read" /\ closing = {}
  BY DEF RecvHead, PhaseOK
<1>4. new \in Inbounds /\ new.id = i /\ new.epoch = epoch /\ new.body = "open"
  BY <1>0, <1>1 DEF Inbounds, Ids, TypeOK
<1>5. i \in Nat /\ i = last + 1 /\ last \in Nat
  BY <1>0 DEF TypeOK
<1> HIDE DEF i, new
<1>6. TypeOK'
  <2>1. inb' \in [Reqs -> Inbounds] /\ streams' \in [Ids -> Reqs \cup {None}]
    BY <1>0, <1>2, <1>4 DEF TypeOK
  <2>2. sent' \in [Reqs -> [pc : {"nothing", "head", "end", "abort"}, chunks : 0..Chunks]]
    BY <1>0, <1>2 DEF TypeOK
  <2>3. last' \in 0..Cardinality(Reqs)
    BY <1>1, <1>2, <1>5 DEF Ids
  <2> QED BY <1>0, <1>2, <2>1, <2>2, <2>3 DEF TypeOK
<1>7. Counted'
  <2>1. Started' = Started \cup {r}
    BY <1>0, <1>2 DEF Started, TypeOK
  <2> QED BY <1>1, <1>2, <2>1 DEF Counted
<1>8. ASSUME NEW q \in Reqs PROVE RequestOK(q)'
  <2>1. CASE q = r
    BY <1>0, <1>1, <1>2, <1>4, <2>1 DEF RequestOK, TypeOK
  <2>2. CASE q # r
    BY <1>0, <1>2, <2>2 DEF RequestOK, TypeOK
  <2> QED BY <2>1, <2>2
<1>9. ASSUME NEW d \in Ids, streams'[d] # None
      PROVE  \/ d = i /\ streams'[d] = r
             \/ d # i /\ streams'[d] = streams[d] /\ streams[d] \in Reqs \ {r}
  <2>1. CASE d = i
    BY <1>0, <1>1, <1>2, <2>1 DEF TypeOK
  <2>2. CASE d # i
    BY <1>0, <1>2, <1>9, <2>2 DEF TypeOK, TableOK
  <2> QED BY <2>1, <2>2
<1>10. TableOK' /\ TableIsCurrent'
  <2> SUFFICES ASSUME NEW d \in Ids, streams'[d] # None
               PROVE  /\ d <= last' /\ handler'[streams'[d]] # "none"
                      /\ inb'[streams'[d]].id = d /\ inb'[streams'[d]].epoch = epoch'
                      /\ handler'[streams'[d]] # "done"
    BY DEF TableOK, TableIsCurrent
  <2>1. CASE d = i /\ streams'[d] = r
    BY <1>0, <1>2, <1>4, <1>5, <2>1 DEF TypeOK
  <2>2. CASE d # i /\ streams'[d] = streams[d] /\ streams[d] \in Reqs \ {r}
    <3>1. streams[d] # None
      BY <2>2
    <3>2. /\ d <= last /\ handler[streams[d]] # "none"
          /\ inb[streams[d]].id = d /\ inb[streams[d]].epoch = epoch
          /\ handler[streams[d]] # "done"
      BY <3>1 DEF TableOK, TableIsCurrent
    <3> QED BY <1>0, <1>2, <1>5, <2>2, <3>2 DEF TypeOK, Ids
  <2> QED BY <1>9, <2>1, <2>2
<1>11. PhaseOK'
  BY <1>2, <1>3 DEF PhaseOK
<1>12. NobodyStranded'
  <2> SUFFICES ASSUME NEW q \in Reqs, inb'[q].body = "open"
               PROVE  q \in Held' /\ inb'[q].epoch = epoch'
    BY <1>2, <1>3 DEF NobodyStranded
  <2>1. CASE q = r
    BY <1>0, <1>1, <1>2, <1>4, <2>1 DEF TypeOK, Held
  <2>2. CASE q # r
    <3>1. inb[q].body = "open" /\ inb'[q] = inb[q]
      BY <1>0, <1>2, <2>2 DEF TypeOK
    <3>2. q \in Held /\ inb[q].epoch = epoch
      BY <1>3, <3>1 DEF NobodyStranded
    <3>3. PICK d \in Ids : streams[d] = q
      BY <3>2 DEF Held
    <3>4. d <= last
      BY <3>3, ReqsAssumption DEF TableOK
    <3>5. streams'[d] = q
      BY <1>0, <1>2, <1>5, <3>3, <3>4 DEF TypeOK, Ids
    <3> QED BY <1>2, <3>1, <3>2, <3>5 DEF Held
  <2> QED BY <2>1, <2>2
<1>13. OwnIdBodiesComplete'
  <2> SUFFICES ASSUME NEW q \in Reqs, EndsEarly(q)'
               PROVE  \E p \in Reqs \ {q} : inb'[p].id = inb'[q].id
    BY DEF OwnIdBodiesComplete
  <2>1. q # r
    BY <1>0, <1>2, <1>4 DEF EndsEarly, TypeOK
  <2>2. EndsEarly(q) /\ inb'[q] = inb[q]
    BY <1>0, <1>2, <2>1 DEF EndsEarly, TypeOK
  <2>3. PICK p \in Reqs \ {q} : inb[p].id = inb[q].id
    BY <2>2 DEF OwnIdBodiesComplete
  <2>4. p # r
    <3>1. inb[q].id \in Ids
      BY <2>2 DEF EndsEarly, RequestOK
    <3>2. inb[r].id = 0
      BY <1>0 DEF RequestOK
    <3> QED BY <2>3, <3>1, <3>2 DEF Ids
  <2>5. inb'[p] = inb[p]
    BY <1>0, <1>2, <2>4 DEF TypeOK
  <2> QED BY <2>2, <2>3, <2>5
<1> QED BY <1>6, <1>7, <1>8, <1>10, <1>11, <1>12, <1>13

LEMMA RecvBodyOK == ASSUME IInv, NEW r \in Reqs, RecvBody(r) PROVE IInv'
<1> USE DEF IInv
<1>0. TypeOK /\ loop.pc = "read" /\ closing = {}
  BY DEF RecvBody, Reads, PhaseOK
<1>1. sent' = [sent EXCEPT ![r].chunks = @ + 1] /\ sent[r].chunks < Chunks
  BY DEF RecvBody
<1>2. loop' = loop \/ \E q \in Reqs : loop' = [pc |-> "write", to |-> q]
  <2>1. inb[r].id \in Ids
    BY DEF RecvBody, Reads, RequestOK
  <2>2. Found(r) \in Reqs \cup {None}
    BY <1>0, <2>1 DEF Found, TypeOK
  <2> QED BY <2>2 DEF RecvBody
<1>3. UNCHANGED <<epoch, link, cancelled, table, last, inb, requests>>
  BY DEF RecvBody
<1>4. /\ sent' \in [Reqs -> [pc : {"nothing", "head", "end", "abort"}, chunks : 0..Chunks]]
      /\ \A q \in Reqs : sent'[q].pc = sent[q].pc
  <2>1. sent[r] \in [pc : {"nothing", "head", "end", "abort"}, chunks : 0..Chunks]
    BY <1>0 DEF TypeOK
  <2>2. sent[r].chunks + 1 \in 0..Chunks
    BY <1>1, <2>1, BoundsAssumption
  <2> QED BY <1>0, <1>1, <2>1, <2>2 DEF TypeOK
<1>5. loop' \in Loops /\ loop'.pc \in {"read", "write"}
  BY <1>0, <1>2 DEF TypeOK, Loops
<1>6. TypeOK'
  BY <1>0, <1>3, <1>4, <1>5 DEF TypeOK, table, requests
<1> QED BY <1>0, <1>3, <1>4, <1>5, <1>6, QuietSteps DEF table, requests

\* A step that closes the body of q, with what the table and the handlers
\* have to do with it.
LEMMA ClosingSteps ==
    ASSUME IInv, NEW q \in Reqs \cup {None}, NEW how \in {"eof", "failed"},
           inb' = Closed(q, how)
    PROVE  /\ inb' \in [Reqs -> Inbounds]
           /\ \A r \in Reqs : inb'[r].id = inb[r].id /\ inb'[r].epoch = inb[r].epoch
           /\ \A r \in Reqs : inb'[r].body = "open" => inb[r].body = "open" /\ r # q
           /\ \A r \in Reqs : inb'[r].body = "none" <=> inb[r].body = "none"
           /\ \A r \in Reqs : inb'[r].body = "eof" =>
                 inb[r].body = "eof" \/ (r = q /\ how = "eof")
<1> DEFINE after == Closed(q, how)
<1>1. inb \in [Reqs -> Inbounds] /\ inb' = after
  BY DEF IInv, TypeOK
<1>2. /\ after \in [Reqs -> Inbounds]
      /\ \A r \in Reqs :
            /\ after[r].id = inb[r].id
            /\ after[r].epoch = inb[r].epoch
            /\ after[r].body = IF r = q /\ inb[r].body = "open" THEN how ELSE inb[r].body
  BY <1>1, ClosedOnly
<1> HIDE DEF after
<1>3. \A r \in Reqs : inb'[r].id = inb[r].id /\ inb'[r].epoch = inb[r].epoch
  BY <1>1, <1>2
<1>4. \A r \in Reqs : inb'[r].body = IF r = q /\ inb[r].body = "open" THEN how ELSE inb[r].body
  BY <1>1, <1>2
<1>5. how # "open" /\ how # "none"
  OBVIOUS
<1>6. \A r \in Reqs : inb'[r].body = "open" => inb[r].body = "open" /\ r # q
  BY <1>4, <1>5
<1>7. \A r \in Reqs : inb'[r].body = "none" <=> inb[r].body = "none"
  BY <1>4, <1>5
<1>8. \A r \in Reqs : inb'[r].body = "eof" => inb[r].body = "eof" \/ (r = q /\ how = "eof")
  BY <1>4
<1> QED BY <1>1, <1>2, <1>3, <1>6, <1>7, <1>8

\* The same for a step that leaves the table, the handlers and the frames sent.
LEMMA OnlyCloses ==
    ASSUME IInv, TypeOK', NEW q \in Reqs \cup {None}, inb' = Closed(q, "failed"),
           UNCHANGED <<epoch, streams, handler, last, sent>>,
           \/ UNCHANGED closing /\ loop.pc \in {"read", "write"} /\ loop'.pc \in {"read", "write"}
           \/ UNCHANGED loop /\ closing' = closing \ {q}
    PROVE  IInv'
<1> USE DEF IInv
<1>1. /\ \A r \in Reqs : inb'[r].id = inb[r].id /\ inb'[r].epoch = inb[r].epoch
      /\ \A r \in Reqs : inb'[r].body = "open" => inb[r].body = "open" /\ r # q
      /\ \A r \in Reqs : inb'[r].body = "none" <=> inb[r].body = "none"
      /\ \A r \in Reqs : inb'[r].body = "eof" => inb[r].body = "eof"
  BY ClosingSteps
<1>2. Counted'
  BY DEF Counted, Started
<1>3. \A r \in Reqs : RequestOK(r)'
  BY <1>1 DEF RequestOK
<1>4. TableOK' /\ TableIsCurrent'
  BY <1>1 DEF TableOK, TableIsCurrent, TypeOK
<1>5. PhaseOK'
  BY DEF PhaseOK
<1>6. NobodyStranded'
  BY <1>1 DEF NobodyStranded, Held
<1>7. OwnIdBodiesComplete'
  BY <1>1 DEF OwnIdBodiesComplete, EndsEarly
<1> QED BY <1>2, <1>3, <1>4, <1>5, <1>6, <1>7

LEMMA WriteReleasedOK == ASSUME IInv, WriteReleased PROVE IInv'
<1>1. loop.to \in Reqs \cup {None} /\ loop.pc = "write"
  BY DEF IInv, TypeOK, Loops, WriteReleased
<1>2. inb' = Closed(loop.to, "failed") /\ loop' = Reading
  BY DEF WriteReleased
<1>3. inb' \in [Reqs -> Inbounds]
  BY <1>1, <1>2, ClosingSteps
<1>4. TypeOK'
  BY <1>2, <1>3 DEF IInv, TypeOK, WriteReleased, Loops, Reading, table, server, requests
<1> QED BY <1>1, <1>2, <1>4, OnlyCloses
        DEF WriteReleased, Reading, table, server, requests

LEMMA CloseAllOK == ASSUME IInv, NEW r \in Reqs, CloseAll(r) PROVE IInv'
<1>1. inb' = Closed(r, "failed") /\ closing' = closing \ {r}
  BY DEF CloseAll
<1>2. inb' \in [Reqs -> Inbounds]
  BY <1>1, ClosingSteps
<1>3. TypeOK'
  BY <1>1, <1>2 DEF IInv, TypeOK, CloseAll, run, server, requests
<1> QED BY <1>1, <1>3, OnlyCloses DEF CloseAll, run, server, requests

\* RecvEnd and RecvAbort: what is found under the id of r is closed.
LEMMA FoundOK ==
    ASSUME IInv, NEW r \in Reqs, handler[r] # "none"
    PROVE  /\ inb[r].id \in Ids
           /\ Found(r) \in Reqs \cup {None}
           /\ Found(r) # None => inb[Found(r)].id = inb[r].id /\ handler[Found(r)] # "none"
BY DEF IInv, TypeOK, RequestOK, TableOK, TableIsCurrent, Found

LEMMA RecvEndOK == ASSUME IInv, NEW r \in Reqs, RecvEnd(r) PROVE IInv'
<1> USE DEF IInv
<1>0. TypeOK /\ loop.pc = "read" /\ closing = {} /\ handler[r] # "none"
  BY DEF RecvEnd, Reads, PhaseOK, RequestOK
<1>1. /\ sent' = [sent EXCEPT ![r].pc = "end"] /\ inb' = Closed(Found(r), "eof")
      /\ UNCHANGED <<epoch, link, loop, cancelled, streams, closing, last, handler, resp>>
  BY DEF RecvEnd, run, table, requests
<1>2. /\ Found(r) \in Reqs \cup {None}
      /\ Found(r) # None => inb[Found(r)].id = inb[r].id
  BY <1>0, FoundOK
<1>3. /\ inb' \in [Reqs -> Inbounds]
      /\ \A q \in Reqs : inb'[q].id = inb[q].id /\ inb'[q].epoch = inb[q].epoch
      /\ \A q \in Reqs : inb'[q].body = "open" => inb[q].body = "open"
      /\ \A q \in Reqs : inb'[q].body = "none" <=> inb[q].body = "none"
      /\ \A q \in Reqs : inb'[q].body = "eof" => inb[q].body = "eof" \/ q = Found(r)
  BY <1>1, <1>2, ClosingSteps
<1>4. /\ sent' \in [Reqs -> [pc : {"nothing", "head", "end", "abort"}, chunks : 0..Chunks]]
      /\ \A q \in Reqs : q # r => sent'[q] = sent[q]
      /\ sent'[r].pc = "end" /\ sent[r].pc = "head"
  BY <1>0, <1>1 DEF TypeOK, RecvEnd, Reads
<1>5. TypeOK'
  BY <1>0, <1>1, <1>3, <1>4 DEF TypeOK
<1>6. Counted'
  <2>1. Started' = Started
    BY <1>4 DEF Started
  <2> QED BY <1>1, <2>1 DEF Counted
<1>7. ASSUME NEW q \in Reqs PROVE RequestOK(q)'
  BY <1>1, <1>3, <1>4 DEF RequestOK
<1>8. TableOK' /\ TableIsCurrent' /\ PhaseOK'
  BY <1>0, <1>1, <1>3 DEF TableOK, TableIsCurrent, PhaseOK, TypeOK
<1>9. NobodyStranded'
  BY <1>1, <1>3 DEF NobodyStranded, Held
<1>10. OwnIdBodiesComplete'
  <2> SUFFICES ASSUME NEW q \in Reqs, EndsEarly(q)'
               PROVE  \E p \in Reqs \ {q} : inb'[p].id = inb'[q].id
    BY DEF OwnIdBodiesComplete
  <2>1. q # r
    BY <1>4 DEF EndsEarly
  <2>2. CASE q = Found(r)
    BY <1>2, <1>3, <2>1, <2>2, ReqsAssumption
  <2>3. CASE q # Found(r)
    <3>1. EndsEarly(q)
      BY <1>1, <1>3, <1>4, <2>1, <2>3 DEF EndsEarly
    <3> QED BY <1>3, <3>1 DEF OwnIdBodiesComplete
  <2> QED BY <2>2, <2>3
<1> QED BY <1>5, <1>6, <1>7, <1>8, <1>9, <1>10

LEMMA RecvAbortOK == ASSUME IInv, NEW r \in Reqs, RecvAbort(r) PROVE IInv'
<1> USE DEF IInv
<1>0. TypeOK /\ loop.pc = "read" /\ closing = {} /\ handler[r] # "none"
  BY DEF RecvAbort, Reads, PhaseOK, RequestOK
<1>1. /\ sent' = [sent EXCEPT ![r].pc = "abort"] /\ inb' = Closed(Found(r), "failed")
      /\ streams' = [streams EXCEPT ![inb[r].id] = None]
      /\ UNCHANGED <<epoch, link, loop, cancelled, closing, last, handler, resp>>
  BY DEF RecvAbort, run, requests
<1>2. inb[r].id \in Ids /\ Found(r) \in Reqs \cup {None} /\ Found(r) = streams[inb[r].id]
  BY <1>0, FoundOK DEF Found
<1>3. /\ inb' \in [Reqs -> Inbounds]
      /\ \A q \in Reqs : inb'[q].id = inb[q].id /\ inb'[q].epoch = inb[q].epoch
      /\ \A q \in Reqs : inb'[q].body = "open" => inb[q].body = "open" /\ q # Found(r)
      /\ \A q \in Reqs : inb'[q].body = "none" <=> inb[q].body = "none"
      /\ \A q \in Reqs : inb'[q].body = "eof" => inb[q].body = "eof"
  BY <1>1, <1>2, ClosingSteps
<1>4. /\ sent' \in [Reqs -> [pc : {"nothing", "head", "end", "abort"}, chunks : 0..Chunks]]
      /\ \A q \in Reqs : q # r => sent'[q] = sent[q]
      /\ sent'[r].pc = "abort" /\ sent[r].pc = "head"
  BY <1>0, <1>1 DEF TypeOK, RecvAbort, Reads
<1>5. /\ streams' \in [Ids -> Reqs \cup {None}]
      /\ \A d \in Ids : streams'[d] # None => streams'[d] = streams[d]
      /\ \A d \in Ids : streams[d] # Found(r) => streams'[d] = streams[d]
  BY <1>0, <1>1, <1>2 DEF TypeOK
<1>6. TypeOK'
  BY <1>0, <1>1, <1>3, <1>4, <1>5 DEF TypeOK
<1>7. Counted'
  <2>1. Started' = Started
    BY <1>4 DEF Started
  <2> QED BY <1>1, <2>1 DEF Counted
<1>8. ASSUME NEW q \in Reqs PROVE RequestOK(q)'
  BY <1>1, <1>3, <1>4 DEF RequestOK
<1>9. TableOK' /\ PhaseOK'
  BY <1>0, <1>1, <1>5 DEF TableOK, PhaseOK
<1>10. TableIsCurrent'
  BY <1>0, <1>1, <1>3, <1>5 DEF TableIsCurrent, TypeOK
<1>11. NobodyStranded'
  <2> SUFFICES ASSUME NEW q \in Reqs, inb'[q].body = "open"
               PROVE  q \in Held' /\ inb'[q].epoch = epoch'
    BY <1>0, <1>1 DEF NobodyStranded
  <2>1. q # Found(r) /\ q \in Held /\ inb[q].epoch = epoch
    BY <1>0, <1>1, <1>3 DEF NobodyStranded
  <2>2. PICK d \in Ids : streams[d] = q
    BY <2>1 DEF Held
  <2>3. streams'[d] = q
    BY <1>5, <2>1, <2>2
  <2> QED BY <1>1, <1>3, <2>1, <2>3 DEF Held
<1>12. OwnIdBodiesComplete'
  <2>1. \A q \in Reqs : EndsEarly(q)' => EndsEarly(q)
    BY <1>1, <1>3, <1>4 DEF EndsEarly
  <2> QED BY <1>3, <2>1 DEF OwnIdBodiesComplete
<1> QED BY <1>6, <1>7, <1>8, <1>9, <1>10, <1>11, <1>12

LEMMA ReadFailsOK == ASSUME IInv, ReadFails PROVE IInv'
<1> USE DEF IInv
<1>0. TypeOK /\ loop.pc = "read" /\ closing = {}
  BY DEF ReadFails, PhaseOK
<1>1. /\ loop' = [loop EXCEPT !.pc = "close"] /\ streams' = NoTable /\ closing' = Held
      /\ UNCHANGED <<epoch, link, cancelled, last, sent, inb, handler, resp>>
  BY DEF ReadFails, server, requests
<1>2. loop'.pc = "close" /\ loop' \in Loops
  BY <1>0, <1>1 DEF TypeOK, Loops
<1>3. TypeOK'
  BY <1>0, <1>1, <1>2 DEF TypeOK, NoTable, Held
<1>4. Counted'
  <2>1. Started' = Started
    BY <1>1 DEF Started
  <2> QED BY <1>1, <2>1 DEF Counted
<1>5. \A r \in Reqs : RequestOK(r)'
  BY <1>1 DEF RequestOK
<1>6. TableOK' /\ PhaseOK' /\ TableIsCurrent'
  BY <1>1, <1>2 DEF TableOK, PhaseOK, TableIsCurrent, NoTable
<1>7. NobodyStranded'
  BY <1>0, <1>1 DEF NobodyStranded
<1>8. OwnIdBodiesComplete'
  BY <1>1 DEF OwnIdBodiesComplete, EndsEarly
<1> QED BY <1>3, <1>4, <1>5, <1>6, <1>7, <1>8

\* A chunk is taken, or the response begins.
LEMMA PassingOK ==
    ASSUME IInv, NEW r \in Reqs, ReadsChunk(r) \/ WritesHead(r)
    PROVE  IInv'
<1>1. CASE ReadsChunk(r)
  <2>1. TypeOK'
    BY <1>1 DEF IInv, TypeOK, ReadsChunk, Reading, Loops, table, server, requests
  <2>2. loop.pc = "write" /\ loop'.pc = "read" /\ closing = {}
    BY <1>1 DEF IInv, PhaseOK, ReadsChunk, Reading
  <2> QED BY <1>1, <2>1, <2>2, QuietSteps DEF ReadsChunk, server, requests
<1>2. CASE WritesHead(r)
  <2>1. TypeOK'
    BY <1>2 DEF IInv, TypeOK, WritesHead, run, table, server
  <2>2. UNCHANGED loop /\ (closing # {} => loop.pc = "close")
    BY <1>2 DEF IInv, PhaseOK, WritesHead, run
  <2> QED BY <1>2, <2>1, <2>2, QuietSteps DEF WritesHead, run, server
<1> QED BY <1>1, <1>2

LEMMA ReturnsOK == ASSUME IInv, NEW r \in Reqs, Returns(r) PROVE IInv'
<1> USE DEF IInv
<1>0. TypeOK /\ handler[r] = "run"
  BY DEF Returns
<1>1. /\ handler' = [handler EXCEPT ![r] = "return"]
      /\ UNCHANGED <<epoch, link, loop, cancelled, streams, closing, last, sent, inb>>
  BY DEF Returns, run, table, server
<1>2. handler'[r] = "return" /\ \A q \in Reqs : q # r => handler'[q] = handler[q]
  BY <1>0, <1>1 DEF TypeOK
<1>3. TypeOK'
  BY <1>0, <1>1 DEF TypeOK, Returns
<1>4. Counted'
  <2>1. Started' = Started
    BY <1>1 DEF Started
  <2> QED BY <1>1, <2>1 DEF Counted
<1>5. \A q \in Reqs : RequestOK(q)'
  BY <1>0, <1>1, <1>2 DEF RequestOK
<1>6. TableOK' /\ PhaseOK' /\ TableIsCurrent'
  BY <1>0, <1>1, <1>2 DEF TableOK, PhaseOK, TableIsCurrent, TypeOK
<1>7. NobodyStranded'
  BY <1>0, <1>1, <1>2 DEF NobodyStranded, Held
<1>8. OwnIdBodiesComplete'
  <2>1. \A q \in Reqs : EndsEarly(q)' => EndsEarly(q)
    BY <1>1, <1>2 DEF EndsEarly
  <2> QED BY <1>1, <2>1 DEF OwnIdBodiesComplete
<1> QED BY <1>3, <1>4, <1>5, <1>6, <1>7, <1>8

LEMMA DropOK == ASSUME IInv, NEW r \in Reqs, Drop(r) PROVE IInv'
<1> USE DEF IInv
<1>0. TypeOK /\ handler[r] = "return"
  BY DEF Drop
<1>1. /\ handler' = [handler EXCEPT ![r] = "done"] /\ inb' = Closed(Found(r), "eof")
      /\ streams' = [streams EXCEPT ![inb[r].id] = None]
      /\ UNCHANGED <<epoch, link, loop, cancelled, closing, last, sent, resp>>
  BY DEF Drop, run, server
<1>2. /\ inb[r].id \in Ids /\ Found(r) \in Reqs \cup {None} /\ Found(r) = streams[inb[r].id]
      /\ Found(r) # None => inb[Found(r)].id = inb[r].id
  BY <1>0, FoundOK DEF Found
<1>3. /\ inb' \in [Reqs -> Inbounds]
      /\ \A q \in Reqs : inb'[q].id = inb[q].id /\ inb'[q].epoch = inb[q].epoch
      /\ \A q \in Reqs : inb'[q].body = "open" => inb[q].body = "open" /\ q # Found(r)
      /\ \A q \in Reqs : inb'[q].body = "none" <=> inb[q].body = "none"
      /\ \A q \in Reqs : inb'[q].body = "eof" => inb[q].body = "eof" \/ q = Found(r)
  BY <1>1, <1>2, ClosingSteps
<1>4. handler'[r] = "done" /\ \A q \in Reqs : q # r => handler'[q] = handler[q]
  BY <1>0, <1>1 DEF TypeOK
<1>5. /\ streams' \in [Ids -> Reqs \cup {None}]
      /\ \A d \in Ids : streams'[d] # None => streams'[d] = streams[d] /\ d # inb[r].id
      /\ \A d \in Ids : streams[d] # Found(r) => streams'[d] = streams[d]
  BY <1>0, <1>1, <1>2 DEF TypeOK
<1>6. TypeOK'
  BY <1>0, <1>1, <1>3, <1>5 DEF TypeOK
<1>7. Counted'
  <2>1. Started' = Started
    BY <1>1 DEF Started
  <2> QED BY <1>1, <2>1 DEF Counted
<1>8. ASSUME NEW q \in Reqs PROVE RequestOK(q)'
  BY <1>0, <1>1, <1>3, <1>4 DEF RequestOK
<1>9. TableOK' /\ PhaseOK'
  <2>1. TableOK'
    BY <1>0, <1>1, <1>4, <1>5 DEF TableOK, TypeOK
  <2>2. PhaseOK'
    BY <1>1, <1>2, <1>5 DEF PhaseOK, NoTable
  <2> QED BY <2>1, <2>2
<1>10. TableIsCurrent'
  <2> SUFFICES ASSUME NEW d \in Ids, streams'[d] # None
               PROVE  /\ inb'[streams'[d]].id = d /\ inb'[streams'[d]].epoch = epoch'
                      /\ handler'[streams'[d]] # "done"
    BY DEF TableIsCurrent
  <2>1. streams'[d] = streams[d] /\ streams[d] # None /\ streams[d] \in Reqs /\ d # inb[r].id
    BY <1>0, <1>5 DEF TypeOK
  <2>2. /\ inb[streams[d]].id = d /\ inb[streams[d]].epoch = epoch
        /\ handler[streams[d]] # "done"
    BY <2>1 DEF TableIsCurrent
  <2>3. streams[d] # r
    BY <2>1, <2>2
  <2> QED BY <1>1, <1>3, <1>4, <2>1, <2>2, <2>3
<1>11. NobodyStranded'
  <2> SUFFICES ASSUME NEW q \in Reqs, inb'[q].body = "open"
               PROVE  \/ q \in closing'
                      \/ q \in Held' /\ inb'[q].epoch = epoch' /\ loop'.pc \in {"read", "write"}
    BY DEF NobodyStranded
  <2>1. inb[q].body = "open" /\ q # Found(r)
    BY <1>3
  <2>2. CASE q \in closing
    BY <1>1, <2>2
  <2>3. CASE q \notin closing
    <3>1. q \in Held /\ inb[q].epoch = epoch /\ loop.pc \in {"read", "write"}
      BY <2>1, <2>3 DEF NobodyStranded
    <3>2. PICK d \in Ids : streams[d] = q
      BY <3>1 DEF Held
    <3>3. streams'[d] = q
      BY <1>5, <2>1, <3>2
    <3> QED BY <1>1, <1>3, <3>1, <3>3 DEF Held
  <2> QED BY <2>2, <2>3
<1>12. OwnIdBodiesComplete'
  <2> SUFFICES ASSUME NEW q \in Reqs, EndsEarly(q)'
               PROVE  \E p \in Reqs \ {q} : inb'[p].id = inb'[q].id
    BY DEF OwnIdBodiesComplete
  <2>1. q # r
    BY <1>4 DEF EndsEarly
  <2>2. CASE q = Found(r)
    BY <1>2, <1>3, <2>1, <2>2, ReqsAssumption
  <2>3. CASE q # Found(r)
    <3>1. EndsEarly(q)
      BY <1>1, <1>3, <1>4, <2>1, <2>3 DEF EndsEarly
    <3> QED BY <1>3, <3>1 DEF OwnIdBodiesComplete
  <2> QED BY <2>2, <2>3
<1> QED BY <1>6, <1>7, <1>8, <1>9, <1>10, <1>11, <1>12

LEMMA NextOK == IInv /\ [Next]_vars => IInv'
<1> SUFFICES ASSUME IInv, [Next]_vars PROVE IInv'
  OBVIOUS
<1>1. CASE UNCHANGED vars
  BY <1>1 DEF vars, run, table, server, requests, IInv, TypeOK, Counted, Started, RequestOK,
              TableOK, PhaseOK, TableIsCurrent, NobodyStranded, Held, OwnIdBodiesComplete, EndsEarly
<1>2. CASE Connect
  BY <1>2, ConnectOK
<1>3. CASE Lose \/ Cancel \/ CancelCloses \/ RunReturns
  BY <1>3, RunOK
<1>4. ASSUME NEW r \in Reqs, RecvHead(r) \/ RecvBody(r) \/ RecvEnd(r) \/ RecvAbort(r) PROVE IInv'
  BY <1>4, RecvHeadOK, RecvBodyOK, RecvEndOK, RecvAbortOK
<1>5. CASE WriteReleased
  BY <1>5, WriteReleasedOK
<1>6. CASE ReadFails
  BY <1>6, ReadFailsOK
<1>7. ASSUME NEW r \in Reqs, CloseAll(r) PROVE IInv'
  BY <1>7, CloseAllOK
<1>8. CASE ServeReturns
  <2>1. TypeOK'
    BY <1>8 DEF IInv, TypeOK, ServeReturns, Loops, table, server, requests
  <2>2. loop.pc = "close" /\ loop'.pc = "dial" /\ closing = {}
    BY <1>8 DEF IInv, TypeOK, ServeReturns, Loops
  <2> QED BY <1>8, <2>1, <2>2, QuietSteps DEF ServeReturns, server, requests
<1>9. ASSUME NEW r \in Reqs, Handle(r) PROVE IInv'
  BY <1>9, PassingOK, ReturnsOK, DropOK DEF Handle
<1> QED BY <1>1, <1>2, <1>3, <1>4, <1>5, <1>6, <1>7, <1>8, <1>9 DEF Next, Serve

LEMMA Invariant == Spec => []IInv
BY InitOK, NextOK, PTL DEF Spec

-----------------------------------------------------------------------------
(* The theorems.                                                            *)

\* The variables of the client keep their types.
THEOREM TypeCorrect == Spec => []TypeOK
BY Invariant, PTL DEF IInv

\* Client.streams holds what came on this connection only, each inbound under
\* its own id, and no handler that is done (drop, closeAll).
THEOREM TableAlwaysCurrent == Spec => []TableIsCurrent
BY Invariant, PTL DEF IInv

\* No body is left open that nobody will send or close, whether its handler
\* still reads it or not (serve, closeAll, drop).
THEOREM NobodyEverStranded == Spec => []NobodyStranded
BY Invariant, PTL DEF IInv

\* While serve is blocked on a pipe that is still open, the handler at its
\* other end has not left it: it will read, or return and drop it.  With
\* handlers that return, this is what Reconnects rests on (serve, drop).
BlockedHasReader ==
    loop.pc = "write" /\ inb[loop.to].body = "open" => handler[loop.to] \in {"run", "return"}

\* serve is never blocked on a pipe that nobody is left to read or close.
THEOREM BlockedAlwaysHasReader == Spec => []BlockedHasReader
<1>1. IInv => BlockedHasReader
  <2> SUFFICES ASSUME IInv, loop.pc = "write", inb[loop.to].body = "open"
               PROVE  handler[loop.to] \in {"run", "return"}
    BY DEF BlockedHasReader
  <2>1. loop.to \in Reqs /\ closing = {}
    BY DEF IInv, TypeOK, Loops, PhaseOK
  <2>2. PICK id \in Ids : streams[id] = loop.to
    BY <2>1 DEF IInv, NobodyStranded, Held
  <2>3. handler[loop.to] # "none" /\ handler[loop.to] # "done"
    BY <2>1, <2>2, ReqsAssumption DEF IInv, TableOK, TableIsCurrent
  <2> QED BY <2>1, <2>3 DEF IInv, TypeOK
<1> QED BY <1>1, Invariant, PTL

\* A body that a handler reads to its end is whole, unless its stream id was
\* given to another request (RequestEnd, closeAll, drop).
THEOREM OwnBodiesComplete == Spec => []OwnIdBodiesComplete
BY Invariant, PTL DEF IInv

-----------------------------------------------------------------------------
(* A server that never forgets the ids it has given.                        *)

IdsOK ==
    /\ \A r \in Reqs : inb[r].id <= last
    /\ \A r, q \in Reqs : r # q /\ inb[r].id = inb[q].id => inb[r].id = 0

\* All steps but two leave the ids alone.
LEMMA SameIds ==
    ASSUME IInv, NEW q \in Reqs \cup {None}, NEW how \in {"eof", "failed"},
           inb' = Closed(q, how), UNCHANGED last, IdsOK
    PROVE  IdsOK'
<1>1. \A r \in Reqs : inb'[r].id = inb[r].id
  BY ClosingSteps
<1> QED BY <1>1 DEF IdsOK

LEMMA IdsNext == ASSUME ~Resets, IInv, IdsOK, [Next]_vars PROVE IdsOK'
<1>1. CASE UNCHANGED <<inb, last>>
  BY <1>1 DEF IdsOK
<1>2. ASSUME NEW r \in Reqs, RecvHead(r) PROVE IdsOK'
  <2>1. inb \in [Reqs -> Inbounds] /\ last \in Nat
    BY DEF IInv, TypeOK
  <2>2. last' = last + 1
    BY <1>2 DEF RecvHead
  <2>3. inb'[r].id = last + 1 /\ \A q \in Reqs : q # r => inb'[q].id = inb[q].id
    BY <1>2, <2>1 DEF RecvHead
  <2>4. \A q \in Reqs : inb[q].id \in Nat
    BY <2>1, CardinalityOfReqs DEF Inbounds
  <2>5. \A q \in Reqs : q # r => inb'[q].id # last + 1
    BY <2>1, <2>3, <2>4 DEF IdsOK
  <2>6. \A q \in Reqs : inb'[q].id <= last'
    BY <2>1, <2>2, <2>3, <2>4 DEF IdsOK
  <2>7. \A p, q \in Reqs : p # q /\ inb'[p].id = inb'[q].id => inb'[p].id = 0
    BY <2>3, <2>5 DEF IdsOK
  <2> QED BY <2>6, <2>7 DEF IdsOK
<1>3. ASSUME NEW r \in Reqs, RecvEnd(r) \/ RecvAbort(r) \/ Drop(r) PROVE IdsOK'
  <2>1. handler[r] # "none" /\ UNCHANGED last
    BY <1>3 DEF IInv, RequestOK, RecvEnd, RecvAbort, Drop, Reads, server
  <2>2. Found(r) \in Reqs \cup {None}
    BY <2>1, FoundOK
  <2>3. inb' = Closed(Found(r), "eof") \/ inb' = Closed(Found(r), "failed")
    BY <1>3 DEF RecvEnd, RecvAbort, Drop
  <2> QED BY <2>1, <2>2, <2>3, SameIds
<1>4. CASE WriteReleased
  <2>1. loop.to \in Reqs \cup {None}
    BY DEF IInv, TypeOK, Loops
  <2> QED BY <1>4, <2>1, SameIds DEF WriteReleased, server
<1>5. ASSUME NEW r \in Reqs, CloseAll(r) PROVE IdsOK'
  BY <1>5, SameIds DEF CloseAll, server
<1>6. CASE Connect
  BY <1>6, <1>1 DEF Connect
<1>7. CASE Lose \/ Cancel \/ CancelCloses \/ RunReturns \/ ReadFails \/ ServeReturns
  BY <1>7, <1>1 DEF Lose, Cancel, CancelCloses, RunReturns, ReadFails, ServeReturns, server
<1>8. ASSUME NEW r \in Reqs, RecvBody(r) \/ ReadsChunk(r) \/ WritesHead(r) \/ Returns(r) PROVE IdsOK'
  BY <1>8, <1>1 DEF RecvBody, ReadsChunk, WritesHead, Returns, server
<1> QED BY <1>1, <1>2, <1>3, <1>4, <1>5, <1>6, <1>7, <1>8 DEF Next, Serve, Handle, vars, server

\* With a server that gives every request its own id, as frame.go says, every
\* body that a handler reads to its end is whole.
THEOREM AllBodiesComplete == ASSUME ~Resets PROVE Spec => []BodiesComplete
<1>1. Init => IdsOK
  BY DEF Init, IdsOK, NoInbound
<1>2. IInv /\ IdsOK /\ [Next]_vars => IdsOK'
  BY IdsNext
<1>3. IInv /\ IdsOK => BodiesComplete
  <2> SUFFICES ASSUME IInv, IdsOK, NEW r \in Reqs, EndsEarly(r) PROVE FALSE
    BY DEF BodiesComplete
  <2>1. PICK q \in Reqs \ {r} : inb[q].id = inb[r].id
    BY DEF IInv, OwnIdBodiesComplete
  <2>2. inb[r].id \in Ids
    BY DEF IInv, RequestOK, EndsEarly
  <2>3. inb[r].id = 0
    BY <2>1 DEF IdsOK
  <2> QED BY <2>2, <2>3, CardinalityOfReqs DEF Ids
<1> QED BY <1>1, <1>2, <1>3, Invariant, PTL DEF Spec
=============================================================================
