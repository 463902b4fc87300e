--------------------------- MODULE ClientIdentity ---------------------------
(***************************************************************************)
(* Which URL a client gets, over restarts of either side: register and      *)
(* dialTunnel of tunnelclient/client.go against handleConnect and           *)
(* handleTunnel of internal/server/server.go, with the session id that the  *)
(* client keeps in memory and in a file (SaveSessionID of                   *)
(* internal/config/config.go; os.WriteFile in the upload example).          *)
(*                                                                         *)
(* The server's registry is Directory, which SessionManager implements:     *)
(* Create is Issue, a removal is Free.  On top of it, here, are the         *)
(* connections that sessions have: a client is up when it has read the 101, *)
(* the server attaches after it has written it, whatever has become of the  *)
(* connection in between.  Clients may have started from copies of one file. *)
(***************************************************************************)
EXTENDS Naturals

CONSTANTS
    Clients,     \* client processes, each with a file of its own
    Keys, Labels, Ids, None,
    Dead,        \* a connection whose client has left it
    Shared,      \* the session whose id is in a file that was copied
    KeyOf,       \* the API key of a client
    Wish,        \* the label its key is pinned to, or else that it asks for, or None
    InPlace,     \* the clients that write the file in place (the example)
    MaxFaults    \* bound: faults and removals in a behaviour

ASSUME ClientsAssumption == /\ KeyOf \in [Clients -> Keys]
                            /\ Wish \in [Clients -> Labels \cup {None}]
                            /\ InPlace \subseteq Clients
                            /\ Shared \in Ids
ASSUME NoneAssumption == /\ None \notin Clients \cup Keys \cup Labels \cup Ids
                         /\ Dead \notin Clients \cup {None}
                         /\ None \notin [key : Keys, id : Ids \cup {None}]
                         /\ None \notin [id : Ids, label : Labels]
ASSUME MaxFaultsAssumption == MaxFaults \in Nat

VARIABLES
    holder,    \* Directory's two: who holds a label,
    spent,     \* and the ids ever issued
    conn,      \* Session.conn, the client it belongs to, or Dead
    due,       \* the clients whose connection the server has yet to attach
    late,      \* how many others it has yet to attach to a session
    pc,        \* where a client is
    opts,      \* Client.opts.SessionID
    tunnel,    \* the session and label that register returned
    file,      \* the session id on file
    url,       \* the session and label a client served last, over its restarts
    unsaved,   \* a write of the file has failed: "memory" has what it lacks,
               \* or, after a restart, that is "lost" until the client is up
    faults

directory == <<holder, spent>>
client    == <<pc, opts, tunnel, file, url, unsaved>>
attaching == <<conn, due, late>>
vars      == <<directory, attaching, client, faults>>

Dir == INSTANCE Directory

Tunnels == [id : Ids, label : Labels]
Live(i) == \E l \in Labels : holder[l] # None /\ holder[l].id = i
HeldBy(c, i) == \E l \in Labels : holder[l] = [key |-> KeyOf[c], id |-> i]
LabelOf(i) == CHOOSE l \in Labels : holder[l] # None /\ holder[l].id = i
Random == Labels \ {Wish[c] : c \in Clients}

\* Mutant of Granted: a label that is held is never given out.
GrantedIfFree(c) ==
    IF Wish[c] # None /\ holder[Wish[c]] = None
    THEN {Wish[c]}
    ELSE {l \in Random : holder[l] = None}

\* The label Create finds for client c.  A random label is taken not to be
\* one that somebody asks for.
Granted(c) ==
    IF Wish[c] # None /\ (holder[Wish[c]] = None \/ holder[Wish[c]].key = KeyOf[c])
    THEN {Wish[c]}
    ELSE {l \in Random : holder[l] = None}

Fault == faults < MaxFaults /\ faults' = faults + 1

\* The clients have no file yet, or copies of one; what it names has expired
\* or is a session that one of them was issued.
Init ==
    /\ file \in {[c \in Clients |-> None], [c \in Clients |-> Shared]}
    /\ spent = {Shared}
    /\ \/ holder = [l \in Labels |-> None]
       \/ \E c \in Clients, l \in Labels :
             /\ l = Wish[c] \/ (Wish[c] = None /\ l \in Random)
             /\ holder = [m \in Labels |->
                            IF m = l THEN [key |-> KeyOf[c], id |-> Shared] ELSE None]
    /\ conn = [i \in Ids |-> None]
    /\ due = {}
    /\ late = [i \in Ids |-> 0]
    /\ pc = [c \in Clients |-> "stopped"]
    /\ opts = [c \in Clients |-> None]
    /\ tunnel = [c \in Clients |-> None]
    /\ url = [c \in Clients |-> None]
    /\ unsaved = [c \in Clients |-> "no"]
    /\ faults = 0

-----------------------------------------------------------------------------
(* The client: load of the file, register, SaveSessionID, dialTunnel.       *)

\* A client starts with what is on file.
Start(c) ==
    /\ pc[c] = "stopped"
    /\ pc' = [pc EXCEPT ![c] = "register"]
    /\ opts' = [opts EXCEPT ![c] = file[c]]
    /\ unsaved' = [unsaved EXCEPT ![c] = IF @ = "no" THEN @ ELSE "lost"]
    /\ UNCHANGED <<directory, attaching, tunnel, file, url, faults>>

\* The answer to a connect: a resumed session is dialled at once, an id that
\* differs from the one in memory is saved before.
Answered(c, t) ==
    /\ tunnel' = [tunnel EXCEPT ![c] = t]
    /\ pc' = [pc EXCEPT ![c] = IF t.id = opts[c] THEN "dial" ELSE "save"]

\* handleConnect finds the session, under the same key.
Resume(c) ==
    /\ pc[c] = "register"
    /\ HeldBy(c, opts[c])
    /\ Answered(c, [id |-> opts[c], label |-> LabelOf(opts[c])])
    /\ UNCHANGED <<directory, attaching, opts, file, url, unsaved, faults>>

\* handleConnect issues a new one; the answer may be lost on its way.
Create(c) ==
    /\ pc[c] = "register"
    /\ ~HeldBy(c, opts[c])
    /\ Ids # spent
    /\ LET i == CHOOSE i \in Ids : i \notin spent IN
       \E l \in Granted(c) :
          /\ Dir!Issue(l, KeyOf[c], i)
          /\ \/ /\ Answered(c, [id |-> i, label |-> l])
                /\ UNCHANGED faults
             \/ /\ Fault
                /\ UNCHANGED <<pc, tunnel>>
    /\ UNCHANGED <<attaching, opts, file, url, unsaved>>

\* SaveSessionID, or os.WriteFile in the example; a failed write in place
\* leaves an empty or cut file.
Written(c) ==
    \/ /\ file' = [file EXCEPT ![c] = tunnel[c].id]
       /\ unsaved' = [unsaved EXCEPT ![c] = IF @ = "lost" THEN @ ELSE "no"]
       /\ UNCHANGED faults
    \/ /\ Fault
       /\ file' = [file EXCEPT ![c] = IF c \in InPlace THEN None ELSE @]
       /\ unsaved' = [unsaved EXCEPT ![c] = IF @ = "lost" THEN @ ELSE "memory"]

\* Mutant of Save: the id is kept in memory only.
SaveInMemory(c) ==
    /\ pc[c] = "save"
    /\ pc' = [pc EXCEPT ![c] = "dial"]
    /\ opts' = [opts EXCEPT ![c] = tunnel[c].id]
    /\ UNCHANGED <<directory, attaching, tunnel, file, url, unsaved, faults>>

\* OnSession.  It is not called with the id that is on file already, so
\* SaveSessionID always writes; a failure is logged and forgotten, and the
\* id in memory makes sure that nobody tries again.
Save(c) ==
    /\ pc[c] = "save"
    /\ Written(c)
    /\ pc' = [pc EXCEPT ![c] = "dial"]
    /\ opts' = [opts EXCEPT ![c] = tunnel[c].id]
    /\ UNCHANGED <<directory, attaching, tunnel, url>>

\* handleTunnel looks the session up and writes the 101, or refuses a session
\* that has gone since.
Dial(c) ==
    /\ pc[c] = "dial"
    /\ \/ /\ HeldBy(c, tunnel[c].id)
          /\ pc' = [pc EXCEPT ![c] = "upgrade"]
          /\ due' = due \cup {c}
       \/ /\ ~HeldBy(c, tunnel[c].id)
          /\ pc' = [pc EXCEPT ![c] = "register"]
          /\ UNCHANGED due
    /\ UNCHANGED <<directory, conn, late, opts, tunnel, file, url, unsaved, faults>>

\* The client reads the 101: it is up, attached or not.
Up(c) ==
    /\ pc[c] = "upgrade"
    /\ pc' = [pc EXCEPT ![c] = "up"]
    /\ url' = [url EXCEPT ![c] = tunnel[c]]
    /\ unsaved' = [unsaved EXCEPT ![c] =
                     IF @ # "lost" THEN @ ELSE IF file[c] = opts[c] THEN "no" ELSE "memory"]
    /\ UNCHANGED <<directory, attaching, opts, tunnel, file, faults>>

\* Mutant of Attach: the session has no connection between two.
AttachAfterDetach(c) ==
    /\ c \in due
    /\ conn' = [conn EXCEPT ![tunnel[c].id] = IF @ = None THEN c ELSE None]
    /\ due' = IF conn[tunnel[c].id] = None THEN due \ {c} ELSE due
    /\ UNCHANGED <<directory, late, client, faults>>

\* attach, whether the session still exists or not.
Attach(c) ==
    /\ c \in due
    /\ conn' = [conn EXCEPT ![tunnel[c].id] = c]
    /\ due' = due \ {c}
    /\ UNCHANGED <<directory, late, client, faults>>

\* attach of a connection whose client has left it since.  It displaces a
\* newer one all the same.
LateAttach(i) ==
    /\ late[i] > 0
    /\ conn' = [conn EXCEPT ![i] = Dead]
    /\ late' = [late EXCEPT ![i] = @ - 1]
    /\ UNCHANGED <<directory, due, client, faults>>

\* The server has closed the connection: the session has another, or none.
Dropped(c) ==
    /\ pc[c] = "up"
    /\ c \notin due
    /\ conn[tunnel[c].id] # c
    /\ pc' = [pc EXCEPT ![c] = "register"]
    /\ UNCHANGED <<directory, attaching, opts, tunnel, file, url, unsaved, faults>>

-----------------------------------------------------------------------------
(* What happens to them.                                                    *)

\* The connection of a client breaks off.  A server that has yet to attach it
\* does so, unless the client had no 101 and the write of it failed.
Cut(c) ==
    /\ due' = due \ {c}
    /\ \/ /\ c \in due
          /\ late' = [late EXCEPT ![tunnel[c].id] = @ + 1]
       \/ /\ c \in due => pc[c] = "upgrade"
          /\ UNCHANGED late

\* The link of a client is lost; the server takes longer to notice.
LinkLost(c) ==
    /\ pc[c] \in {"upgrade", "up"}
    /\ Fault
    /\ pc' = [pc EXCEPT ![c] = "register"]
    /\ Cut(c)
    /\ UNCHANGED <<directory, conn, opts, tunnel, file, url, unsaved>>

\* The connection that client c has is the one that session i has.
Connected(c, i) == pc[c] \in {"upgrade", "up"} /\ tunnel[c].id = i /\ c \notin due

\* The server notices that a connection is dead, and detaches it.
Noticed(i) ==
    /\ conn[i] # None
    /\ conn[i] \in Clients => ~Connected(conn[i], i)
    /\ conn' = [conn EXCEPT ![i] = None]
    /\ UNCHANGED <<directory, due, late, client, faults>>

\* The client's process stops, at any point; a file that is being written in
\* place is left empty or cut.
Stop(c) ==
    /\ pc[c] # "stopped"
    /\ Fault
    /\ pc' = [pc EXCEPT ![c] = "stopped"]
    /\ file' = [file EXCEPT ![c] = IF pc[c] = "save" /\ c \in InPlace THEN None ELSE @]
    /\ Cut(c)
    /\ UNCHANGED <<directory, conn, opts, tunnel, url, unsaved>>

\* The server restarts: the registry is on file, connections are not.
RestartServer ==
    /\ Fault
    /\ conn' = [i \in Ids |-> None]
    /\ due' = {}
    /\ late' = [i \in Ids |-> 0]
    /\ pc' = [c \in Clients |-> IF pc[c] \in {"upgrade", "up"} THEN "register" ELSE pc[c]]
    /\ UNCHANGED <<directory, opts, tunnel, file, url, unsaved>>

\* A session is deleted, connected or not, or expires.
Remove(l) ==
    /\ holder[l] # None
    /\ Fault
    /\ Dir!Free({l})
    /\ conn' = [conn EXCEPT ![holder[l].id] = None]
    /\ UNCHANGED <<due, late, client>>

Next ==
    \/ \E c \in Clients :
          \/ Start(c) \/ Resume(c) \/ Create(c) \/ Save(c) \/ Dial(c) \/ Up(c)
          \/ Attach(c) \/ Dropped(c) \/ LinkLost(c) \/ Stop(c)
    \/ \E i \in Ids : LateAttach(i) \/ Noticed(i)
    \/ RestartServer
    \/ \E l \in Labels : Remove(l)

Spec == Init /\ [][Next]_vars

\* Run retries for ever, and the server answers in the end.  Nobody has to
\* start a client.
Fairness ==
    /\ \A c \in Clients : /\ WF_vars(Resume(c) \/ Create(c) \/ Save(c) \/ Dial(c)
                                       \/ Up(c) \/ Dropped(c))
                          /\ WF_vars(Attach(c))
    /\ \A i \in Ids : WF_vars(LateAttach(i)) /\ WF_vars(Noticed(i))

FairSpec == Spec /\ Fairness

-----------------------------------------------------------------------------
TypeOK ==
    /\ holder \in [Labels -> [key : Keys, id : Ids] \cup {None}]
    /\ spent \subseteq Ids
    /\ conn \in [Ids -> Clients \cup {None, Dead}]
    /\ due \subseteq Clients
    /\ late \in [Ids -> Nat]
    /\ pc \in [Clients -> {"stopped", "register", "save", "dial", "upgrade", "up"}]
    /\ opts \in [Clients -> Ids \cup {None}]
    /\ tunnel \in [Clients -> Tunnels \cup {None}]
    /\ file \in [Clients -> Ids \cup {None}]
    /\ url \in [Clients -> Tunnels \cup {None}]
    /\ unsaved \in [Clients -> {"no", "memory", "lost"}]
    /\ faults \in 0 .. MaxFaults

\* The URL a client has served on changes only when its session has gone, or
\* when its file could not be written and it has restarted since, whatever
\* stops, breaks or restarts in between and whoever else has a copy of the id
\* ("so a later run resumes the same public URL", SaveSessionID).  A failed
\* write alone changes nothing: the process goes on with the id in memory.
UrlSurvives ==
    [][\A c \in Clients :
          url[c] # None /\ url'[c].label # url[c].label =>
             ~HeldBy(c, url[c].id) \/ unsaved[c] = "lost"]_vars

\* A client with a label of its own, pinned or asked for, that no other key
\* asks for never serves on another, even after failed saves, answers that
\* got lost and removals (Create: "that key reclaiming its own name after
\* losing its session id").  The exception is a session from another's file:
\* handleConnect resumes it under the label it has.
WishSticks ==
    \A c \in Clients :
       /\ url[c] # None
       /\ url[c].id # Shared
       /\ Wish[c] # None
       /\ \A d \in Clients : Wish[d] = Wish[c] => KeyOf[d] = KeyOf[c]
       => url[c].label = Wish[c]

\* The label a client serves is held by its key and leads to a connection.
Reachable(c) ==
    /\ url[c] # None
    /\ holder[url[c].label] # None
    /\ holder[url[c].label].key = KeyOf[c]
    /\ conn[holder[url[c].label].id] \notin {None, Dead}

\* The session was removed between handleTunnel's lookup and attach, or has
\* given its label up to another of its key: its client is connected to
\* nothing anybody can reach.
Stranded(c) == pc[c] = "up" /\ conn[tunnel[c].id] = c /\ ~Live(tunnel[c].id)

\* Once faults stop, the URL of every client that runs is served without a
\* break, by itself or by whoever else has its id, also when two with one id
\* displace each other for ever (attach swaps connections in one step), and
\* after an old connection was attached late in the place of a newer one.
StaysReachable ==
    \A c \in Clients :
       <>[](pc[c] # "stopped") => <>[](Reachable(c) \/ Stranded(c))
=============================================================================
