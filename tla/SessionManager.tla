--------------------------- MODULE SessionManager ---------------------------
(***************************************************************************)
(* The session registry of the tunnel server: internal/server/session.go   *)
(* (Manager, Session.attach, Session.detach) with the handlers of          *)
(* internal/server/server.go that call it.                                 *)
(*                                                                         *)
(* Two locks matter.  Manager.mu guards the two indexes and the state      *)
(* file; Session.mu guards one session's connection and LastSeen.  An      *)
(* operation that holds Manager.mu from start to end and takes no other    *)
(* lock is one action; PruneIdle, which takes Session.mu several times     *)
(* while it holds Manager.mu, and Delete, attach and the upgrade handler,  *)
(* which work on after an unlock, are split where the locks are.           *)
(***************************************************************************)

CONSTANTS
    Keys,        \* API key names
    Labels,      \* subdomain labels
    Reserved,    \* the labels the site keeps for itself
    Ids,         \* session ids; randomID never returns one twice
    Conns,       \* upgraded TCP connections, each used once
    None,        \* Go's nil
    DiskFaults   \* TRUE: a write of the state file may fail

ASSUME ReservedAssumption == Reserved \subseteq Labels
ASSUME NoneAssumption ==
    /\ None \notin Keys \cup Labels \cup Ids \cup Conns
    /\ None \notin [key : Keys, label : Labels]
    /\ None \notin [key : Keys, id : Ids]
ASSUME FaultsAssumption == DiskFaults \in BOOLEAN

VARIABLES
    info,      \* the Key and label of every session ever issued
    byID,      \* the ids Manager.byID holds
    bySubdom,  \* Manager.bySubdom
    conn,      \* Session.conn
    idle,      \* Session.LastSeen is before the cutoff of a prune
    disk,      \* the ids in the state file
    link,      \* the socket of a connection, as the server can see it
    handler,   \* handleTunnel, one instance per connection
    tasks,     \* the goroutines handleTunnel has started for a connection
    del,       \* Delete, one instance per id
    prune      \* PruneIdle; Manager.mu lets one run at a time

registry == <<info, byID, bySubdom, disk>>
network  == <<link, handler, tasks>>
vars     == <<registry, conn, idle, network, del, prune>>

Sessions   == [key : Keys, label : Labels]
Issued     == {i \in Ids : info[i] # None}
NoHandler  == [pc |-> "none", sid |-> None, old |-> None]
NoDelete   == [pc |-> "none", conn |-> None]
NoPrune    == [pc |-> "unlocked", todo |-> {}, cur |-> None, gone |-> {}]
MutexFree  == prune.pc = "unlocked"

\* Manager.bySubdom as NewManager and load build it from the sessions of S.
IndexOf(S) ==
    [l \in Labels |-> IF \E i \in S : info[i].label = l
                      THEN CHOOSE i \in S : info[i].label = l
                      ELSE None]

\* Mutant of Persist: the file is appended to instead of replaced.
PersistAppends(S) == disk' = disk \cup S

\* persistLocked: the file is replaced by rename, as a whole or not at all,
\* and every error is ignored.
Persist(S) == disk' = S \/ (DiskFaults /\ disk' = disk)

Init ==
    /\ info = [i \in Ids |-> None]
    /\ byID = {}
    /\ bySubdom = [l \in Labels |-> None]
    /\ conn = [i \in Ids |-> None]
    /\ idle = [i \in Ids |-> FALSE]
    /\ disk = {}
    /\ link = [c \in Conns |-> "open"]
    /\ handler = [c \in Conns |-> NoHandler]
    /\ tasks = [c \in Conns |-> {}]
    /\ del = [i \in Ids |-> NoDelete]
    /\ prune = NoPrune

-----------------------------------------------------------------------------
(* Create, called by handleConnect under one hold of Manager.mu.            *)

\* Mutant of Granted: the holder's key is not compared.
GrantedToAnyKey(k, wish) ==
    IF wish \notin Reserved \cup {None} THEN {wish}
    ELSE {l \in Labels \ Reserved : bySubdom[l] = None}

\* The label a key gets for what it asked: its own wish when nobody else has
\* it, otherwise a random one (None: nothing was asked for).
Granted(k, wish) ==
    IF wish \notin Reserved \cup {None} /\ (bySubdom[wish] = None
                                    \/ info[bySubdom[wish]].key = k)
    THEN {wish}
    ELSE {l \in Labels \ Reserved : bySubdom[l] = None}

\* Mutant of Create: the session that loses its label stays in byID.
CreateKeepsOld(k, wish) ==
    /\ MutexFree
    /\ \E id \in Ids \ Issued, label \in Granted(k, wish) :
          /\ info' = [info EXCEPT ![id] = [key |-> k, label |-> label]]
          /\ byID' = byID \cup {id}
          /\ bySubdom' = [bySubdom EXCEPT ![label] = id]
          /\ idle' = [idle EXCEPT ![id] = FALSE]
          /\ Persist(byID \cup {id})
    /\ UNCHANGED <<conn, network, del, prune>>

\* A session of the same key that already holds the label is forgotten, its
\* connection left as it is.
Create(k, wish) ==
    /\ MutexFree
    /\ \E id \in Ids \ Issued, label \in Granted(k, wish) :
          LET rest == byID \ {bySubdom[label]} IN
          /\ info' = [info EXCEPT ![id] = [key |-> k, label |-> label]]
          /\ byID' = rest \cup {id}
          /\ bySubdom' = [bySubdom EXCEPT ![label] = id]
          /\ idle' = [idle EXCEPT ![id] = FALSE]
          /\ Persist(rest \cup {id})
    /\ UNCHANGED <<conn, network, del, prune>>

\* Touch: the reaper's last call, after ReapExpired.
Touch ==
    /\ MutexFree
    /\ Persist(byID)
    /\ UNCHANGED <<info, byID, bySubdom, conn, idle, network, del, prune>>

-----------------------------------------------------------------------------
(* handleTunnel: Get, upgrade, attach, Hello, then the two goroutines.      *)

\* Get under Manager.mu and the check of the key, for a request of key k.
Lookup(c, k, i) ==
    /\ handler[c].pc = "none"
    /\ MutexFree
    /\ i \in byID /\ info[i].key = k
    /\ handler' = [handler EXCEPT ![c] = [NoHandler EXCEPT !.pc = "upgrade", !.sid = i]]
    /\ UNCHANGED <<registry, conn, idle, link, tasks, del, prune>>

\* Writing the 101 response failed.
UpgradeFails(c) ==
    /\ handler[c].pc = "upgrade"
    /\ link[c] = "lost"
    /\ link' = [link EXCEPT ![c] = "closed"]
    /\ handler' = [handler EXCEPT ![c].pc = "done"]
    /\ UNCHANGED <<registry, conn, idle, tasks, del, prune>>

\* Mutant of Attach: the displaced connection is not closed.
AttachLeaves(c) ==
    LET i == handler[c].sid IN
    /\ handler[c].pc = "upgrade"
    /\ conn' = [conn EXCEPT ![i] = c]
    /\ idle' = [idle EXCEPT ![i] = FALSE]
    /\ handler' = [handler EXCEPT ![c] = [pc |-> "hello", sid |-> i, old |-> conn[i]]]
    /\ UNCHANGED <<registry, link, tasks, del, prune>>

\* attach, the part under Session.mu.
Attach(c) ==
    LET i == handler[c].sid IN
    /\ handler[c].pc = "upgrade"
    /\ conn' = [conn EXCEPT ![i] = c]
    /\ idle' = [idle EXCEPT ![i] = FALSE]
    /\ handler' = [handler EXCEPT ![c] =
                      [pc |-> IF conn[i] = None THEN "hello" ELSE "displace",
                       sid |-> i, old |-> conn[i]]]
    /\ UNCHANGED <<registry, link, tasks, del, prune>>

\* attach, after the unlock: the displaced connection is closed.
CloseDisplaced(c) ==
    /\ handler[c].pc = "displace"
    /\ link' = [link EXCEPT ![handler[c].old] = "closed"]
    /\ handler' = [handler EXCEPT ![c].pc = "hello"]
    /\ UNCHANGED <<registry, conn, idle, tasks, del, prune>>

\* A write to a socket whose peer is gone may still succeed.
HelloSent(c) ==
    /\ handler[c].pc = "hello"
    /\ link[c] # "closed"
    /\ handler' = [handler EXCEPT ![c].pc = "done"]
    /\ tasks' = [tasks EXCEPT ![c] = {"keepalive", "readLoop"}]
    /\ UNCHANGED <<registry, conn, idle, link, del, prune>>

\* Mutant of Detach: whatever is attached is torn down.
DetachAny(i, c) ==
    /\ conn' = [conn EXCEPT ![i] = None]
    /\ idle' = [idle EXCEPT ![i] = FALSE]
    /\ link' = [link EXCEPT ![c] = "closed"]

\* detach(c) on session i: a no-op unless c is still its connection.  The
\* socket is closed right after the unlock, by the same goroutine with nothing
\* in between that can fail or wait, so the two are one step.
Detach(i, c) ==
    IF conn[i] = c
    THEN /\ conn' = [conn EXCEPT ![i] = None]
         /\ idle' = [idle EXCEPT ![i] = FALSE]
         /\ link' = [link EXCEPT ![c] = "closed"]
    ELSE UNCHANGED <<conn, idle, link>>

\* Mutant of HelloFails: the handler returns without detach.
HelloFailsQuietly(c) ==
    /\ handler[c].pc = "hello"
    /\ link[c] # "open"
    /\ handler' = [handler EXCEPT ![c].pc = "done"]
    /\ UNCHANGED <<registry, conn, idle, link, tasks, del, prune>>

HelloFails(c) ==
    /\ handler[c].pc = "hello"
    /\ link[c] # "open"
    /\ Detach(handler[c].sid, c)
    /\ handler' = [handler EXCEPT ![c].pc = "done"]
    /\ UNCHANGED <<registry, tasks, del, prune>>

\* Mutant of TaskEnds: no read deadline, and the error of a ping is ignored;
\* only a socket the server itself has closed is noticed.
TaskEndsWhenClosed(c, t) ==
    /\ t \in tasks[c]
    /\ link[c] = "closed"
    /\ Detach(handler[c].sid, c)
    /\ tasks' = [tasks EXCEPT ![c] = @ \ {t}]
    /\ UNCHANGED <<registry, handler, del, prune>>

\* readLoop ends on a read error (its read deadline included), keepalive on
\* a failed ping or on the done channel; both run detach.  keepalive's other
\* return, at the server's orderly shutdown, is left out: the process ends
\* with it, which is Restart.
TaskEnds(c, t) ==
    /\ t \in tasks[c]
    /\ link[c] # "open"
    /\ Detach(handler[c].sid, c)
    /\ tasks' = [tasks EXCEPT ![c] = @ \ {t}]
    /\ UNCHANGED <<registry, handler, del, prune>>

\* The network or the client drops the connection.
Lose(c) ==
    /\ handler[c].pc # "none"
    /\ link[c] = "open"
    /\ link' = [link EXCEPT ![c] = "lost"]
    /\ UNCHANGED <<registry, conn, idle, handler, tasks, del, prune>>

\* newStream: a public request on a connected session refreshes LastSeen.
NewStream(i) ==
    /\ conn[i] # None
    /\ idle' = [idle EXCEPT ![i] = FALSE]
    /\ UNCHANGED <<registry, conn, network, del, prune>>

\* Time passes without activity.  A running PruneIdle keeps the cutoff it
\* computed before it took the lock.
IdlePasses(i) ==
    /\ MutexFree
    /\ i \in Issued
    /\ idle' = [idle EXCEPT ![i] = TRUE]
    /\ UNCHANGED <<registry, conn, network, del, prune>>

-----------------------------------------------------------------------------
(* Delete, called by handleDeleteSession.                                   *)

\* Mutant of DeleteRemove: the file is left as it is.
DeleteRemoveUnsaved(i) ==
    /\ MutexFree
    /\ i \in byID
    /\ byID' = byID \ {i}
    /\ bySubdom' = [bySubdom EXCEPT ![info[i].label] = None]
    /\ del' = [del EXCEPT ![i].pc = "removed"]
    /\ UNCHANGED <<info, disk, conn, idle, network, prune>>

DeleteRemove(i) ==
    /\ MutexFree
    /\ i \in byID
    /\ byID' = byID \ {i}
    /\ bySubdom' = [bySubdom EXCEPT ![info[i].label] = None]
    /\ Persist(byID \ {i})
    /\ del' = [del EXCEPT ![i].pc = "removed"]
    /\ UNCHANGED <<info, conn, idle, network, prune>>

\* The connection is read under Session.mu and used after the unlock.
DeleteReadsConn(i) ==
    /\ del[i].pc = "removed"
    /\ del' = [del EXCEPT ![i] = [pc |-> IF conn[i] = None THEN "returned" ELSE "detach",
                                  conn |-> conn[i]]]
    /\ UNCHANGED <<registry, conn, idle, network, prune>>

DeleteDetaches(i) ==
    /\ del[i].pc = "detach"
    /\ Detach(i, del[i].conn)
    /\ del' = [del EXCEPT ![i].pc = "returned"]
    /\ UNCHANGED <<registry, handler, tasks, prune>>

-----------------------------------------------------------------------------
(* PruneIdle, called by handlePruneSessions and ReapExpired.                *)

PruneBegin ==
    /\ MutexFree
    /\ prune' = [NoPrune EXCEPT !.pc = "scan", !.todo = byID]
    /\ UNCHANGED <<registry, conn, idle, network, del>>

\* The loop takes the sessions in no particular order; Connected() is one
\* hold of Session.mu.
PruneTestsConnected(i) ==
    /\ prune.pc = "scan"
    /\ i \in prune.todo
    /\ prune' = IF conn[i] # None
                THEN [prune EXCEPT !.todo = @ \ {i}]
                ELSE [prune EXCEPT !.todo = @ \ {i}, !.pc = "age", !.cur = i]
    /\ UNCHANGED <<registry, conn, idle, network, del>>

\* LastSeen is read under a second hold of Session.mu.
PruneTestsAge ==
    /\ prune.pc = "age"
    /\ prune' = IF idle[prune.cur] THEN [prune EXCEPT !.pc = "remove"]
                                   ELSE [prune EXCEPT !.pc = "scan", !.cur = None]
    /\ UNCHANGED <<registry, conn, idle, network, del>>

PruneRemove ==
    LET i == prune.cur IN
    /\ prune.pc = "remove"
    /\ byID' = byID \ {i}
    /\ bySubdom' = [bySubdom EXCEPT ![info[i].label] = None]
    /\ prune' = [prune EXCEPT !.pc = "scan", !.cur = None, !.gone = @ \cup {i}]
    /\ UNCHANGED <<info, conn, idle, disk, network, del>>

PruneEnd ==
    /\ prune.pc = "scan"
    /\ prune.todo = {}
    /\ IF prune.gone = {} THEN UNCHANGED disk ELSE Persist(byID)
    /\ prune' = NoPrune
    /\ UNCHANGED <<info, byID, bySubdom, conn, idle, network, del>>

-----------------------------------------------------------------------------
\* The process stops at any point and starts again: load reads the file,
\* every connection is gone, and a persisted LastSeen is never newer than the
\* one in memory.  Run saves nothing on the way out.
Restart ==
    /\ byID' = disk
    /\ bySubdom' = IndexOf(disk)
    /\ conn' = [i \in Ids |-> None]
    /\ \E aged \in SUBSET Issued : idle' = [i \in Ids |-> idle[i] \/ i \in aged]
    /\ link' = [c \in Conns |-> IF handler[c].pc = "none" THEN link[c] ELSE "closed"]
    /\ handler' = [c \in Conns |-> IF handler[c].pc = "none" THEN handler[c]
                                   ELSE [NoHandler EXCEPT !.pc = "done"]]
    /\ tasks' = [c \in Conns |-> {}]
    /\ del' = [i \in Ids |-> NoDelete]
    /\ prune' = NoPrune
    /\ UNCHANGED <<info, disk>>

Tunnel(c) ==
    \/ \E k \in Keys, i \in Ids : Lookup(c, k, i)
    \/ UpgradeFails(c)
    \/ Attach(c)
    \/ CloseDisplaced(c)
    \/ HelloSent(c)
    \/ HelloFails(c)
    \/ \E t \in tasks[c] : TaskEnds(c, t)

Delete(i) == DeleteRemove(i) \/ DeleteReadsConn(i) \/ DeleteDetaches(i)

PruneIdle ==
    \/ PruneBegin
    \/ \E i \in prune.todo : PruneTestsConnected(i)
    \/ PruneTestsAge
    \/ PruneRemove
    \/ PruneEnd

Next ==
    \/ \E k \in Keys, wish \in Labels \cup {None} : Create(k, wish)
    \/ Touch
    \/ \E c \in Conns : Tunnel(c) \/ Lose(c)
    \/ \E i \in Ids : Delete(i) \/ NewStream(i) \/ IdlePasses(i)
    \/ PruneIdle
    \/ Restart

Spec == Init /\ [][Next]_vars

\* The goroutines of the server and the net/http handlers keep running: a
\* started handler takes its next step, a goroutine whose socket is dead
\* finds out by its ping or its read deadline.
Fairness ==
    /\ \A c \in Conns : /\ WF_vars(UpgradeFails(c) \/ Attach(c))
                        /\ WF_vars(CloseDisplaced(c))
                        /\ WF_vars(HelloSent(c) \/ HelloFails(c))
                        /\ WF_vars(TaskEnds(c, "readLoop"))
                        /\ WF_vars(TaskEnds(c, "keepalive"))
    /\ \A i \in Ids : WF_vars(DeleteReadsConn(i) \/ DeleteDetaches(i))

FairSpec == Spec /\ Fairness

-----------------------------------------------------------------------------
Handlers == [pc : {"none", "upgrade", "displace", "hello", "done"},
             sid : Issued \cup {None},
             old : Conns \cup {None}]

TypeOK ==
    /\ info \in [Ids -> Sessions \cup {None}]
    /\ byID \subseteq Issued
    /\ bySubdom \in [Labels -> Issued \cup {None}]
    /\ conn \in [Ids -> Conns \cup {None}]
    /\ idle \in [Ids -> BOOLEAN]
    /\ disk \subseteq Issued
    /\ link \in [Conns -> {"open", "lost", "closed"}]
    /\ handler \in [Conns -> Handlers]
    /\ tasks \in [Conns -> SUBSET {"keepalive", "readLoop"}]
    /\ del \in [Ids -> [pc : {"none", "removed", "detach", "returned"},
                        conn : Conns \cup {None}]]
    /\ prune \in [pc : {"unlocked", "scan", "age", "remove"},
                  todo : SUBSET Issued,
                  cur : Issued \cup {None},
                  gone : SUBSET Issued]

\* The two indexes are inverse to each other at every instant, whoever
\* creates, reclaims, deletes, prunes or reloads: no session is routed to
\* that cannot be looked up by id, and none is listed that has lost its host
\* name to another (Create, Delete, PruneIdle, load).
IndexesAgree ==
    /\ \A i \in byID : bySubdom[info[i].label] = i
    /\ \A l \in Labels : bySubdom[l] # None =>
          bySubdom[l] \in byID /\ info[bySubdom[l]].label = l

\* A connection that has been handed to a session and is still open is
\* either attached to it or about to be closed by the one that displaced it:
\* attach and detach leave no socket nobody will close.
NoLeakedConn ==
    \A c \in Conns :
        link[c] = "open" /\ handler[c].pc \notin {"none", "upgrade"} =>
            \/ \E i \in Ids : conn[i] = c
            \/ \E d \in Conns : handler[d].pc = "displace" /\ handler[d].old = c

\* A connection that a session shows as attached is in somebody's hands: the
\* attach or the handler that is still to send its Hello, or one of its two
\* goroutines.  Each of them has the session to detach it from, so that its
\* death will be noticed (handleTunnel, readLoop, keepalive).
AttachedIsWatched ==
    \A i \in Ids, c \in Conns : conn[i] = c =>
        /\ handler[c].sid = i
        /\ \/ handler[c].pc \in {"displace", "hello"}
           \/ handler[c].pc = "done" /\ tasks[c] # {}

\* A host name never passes from one key to another in one step; it is free
\* in between, across restarts and with a prune cut short (Create: "falls
\* back to a random label rather than taking it away from whoever has it").
LabelKeepsKey ==
    [][\A l \in Labels : bySubdom[l] # None /\ bySubdom'[l] # None =>
           info[bySubdom[l]].key = info'[bySubdom'[l]].key]_vars

\* A removed session never comes back, from the state file either, unless
\* the process died in the prune that was removing it (persistLocked, load).
NoResurrection ==
    [][\A i \in byID' \ byID : info[i] = None \/ i \in prune.gone]_vars

Restarted == \A c \in Conns : handler'[c].pc \in {"none", "done"} /\ tasks'[c] = {}

\* A session loses its connection only because that very connection is dead,
\* because the session is deleted, or because the server restarts: the late
\* teardown of a displaced connection never cuts its successor (detach).
StaleDetachHarmless ==
    [][\A i \in Ids : conn[i] # None /\ conn'[i] = None =>
           \/ link[conn[i]] # "open"
           \/ del[i].pc = "detach" /\ del[i].conn = conn[i]
           \/ Restarted]_vars

\* No session shows a dead connection for ever (HelloFails, readLoop,
\* keepalive; Connected and the offline page go by Session.conn).
DeadConnDetached ==
    \A i \in Ids, c \in Conns : (conn[i] = c /\ link[c] # "open") ~> (conn[i] # c)

-----------------------------------------------------------------------------
\* The registry as a directory of host names: what the state file says.  A
\* prune frees its labels in one step, when it writes the file; one that is
\* cut short has freed nothing; a restart is not seen at all.
OnFile ==
    [l \in Labels |-> IF \E i \in disk : info[i].label = l
                      THEN LET i == CHOOSE i \in disk : info[i].label = l
                           IN [key |-> info[i].key, id |-> i]
                      ELSE None]

Dir == INSTANCE Directory WITH holder <- OnFile, spent <- Issued

\* Without disk faults the registry implements Directory (Create, Delete,
\* PruneIdle, persistLocked, load).
ImplementsDirectory == Dir!Spec
=============================================================================
