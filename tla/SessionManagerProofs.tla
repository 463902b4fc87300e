------------------------ MODULE SessionManagerProofs ------------------------
\* What TLAPS proves of the session registry, for any number of keys, labels,
\* sessions and connections.
EXTENDS SessionManager, TLAPS

\* A process that is under way holds a session, not nil: what the types need
\* to be inductive.
PointersOK ==
    /\ \A c \in Conns :
          handler[c].pc \in {"upgrade", "displace", "hello"} \/ tasks[c] # {} =>
             handler[c].sid \in Issued
    /\ prune.pc \in {"age", "remove"} => prune.cur \in Issued

IndType == TypeOK /\ PointersOK

\* The types hold initially.
LEMMA InitType == Init => IndType
  BY DEF Init, IndType, TypeOK, PointersOK, Handlers, Issued, NoHandler, NoDelete, NoPrune

\* A new session, its label and what it displaces are of their types.
LEMMA CreateType ==
  ASSUME IndType, NEW k \in Keys, NEW wish \in Labels \cup {None}, Create(k, wish)
  PROVE  IndType'
<1>1. PICK id \in Ids \ Issued, label \in Granted(k, wish) :
        LET rest == byID \ {bySubdom[label]} IN
          /\ info' = [info EXCEPT ![id] = [key |-> k, label |-> label]]
          /\ byID' = rest \cup {id}
          /\ bySubdom' = [bySubdom EXCEPT ![label] = id]
          /\ idle' = [idle EXCEPT ![id] = FALSE]
          /\ Persist(rest \cup {id})
  BY DEF Create
<1>2. label \in Labels
  BY DEF Granted
<1>3. /\ [key |-> k, label |-> label] \in Sessions
      /\ [key |-> k, label |-> label] # None
  BY <1>2, NoneAssumption DEF Sessions
<1>4. Issued' = Issued \cup {id}
  BY <1>1, <1>3 DEF Issued, IndType, TypeOK
<1>5. /\ info' \in [Ids -> Sessions \cup {None}]
      /\ idle' \in [Ids -> BOOLEAN]
  BY <1>1, <1>3 DEF IndType, TypeOK
<1>6. /\ byID' \subseteq Issued'
      /\ disk' \subseteq Issued'
      /\ bySubdom' \in [Labels -> Issued' \cup {None}]
  BY <1>1, <1>2, <1>4 DEF IndType, TypeOK, Persist
<1>7. UNCHANGED <<conn, network, del, prune>>
  BY DEF Create
<1>. QED
  BY <1>4, <1>5, <1>6, <1>7 DEF IndType, TypeOK, PointersOK, Handlers, network

\* Every step keeps the types.
LEMMA NextType == IndType /\ [Next]_vars => IndType'
<1>. SUFFICES ASSUME IndType, [Next]_vars PROVE IndType'
  OBVIOUS
<1>1. ASSUME NEW k \in Keys, NEW wish \in Labels \cup {None}, Create(k, wish)
      PROVE  IndType'
  BY <1>1, CreateType
<1>2. CASE Touch
  BY <1>2 DEF Touch, IndType, TypeOK, PointersOK, Handlers, Persist, Issued, network
<1>3. ASSUME NEW c \in Conns, Tunnel(c) \/ Lose(c)
      PROVE  IndType'
  <2>0. Issued' = Issued /\ Handlers' = Handlers /\ Issued \subseteq Ids /\ TypeOK /\ PointersOK
    BY <1>3 DEF Tunnel, Lookup, UpgradeFails, Attach, CloseDisplaced, HelloSent,
         HelloFails, TaskEnds, Lose, registry, Handlers, Issued, IndType
  <2>1. ASSUME NEW k \in Keys, NEW i \in Ids, Lookup(c, k, i)
        PROVE  IndType'
    <3>1. TypeOK'
      BY <2>1, <2>0 DEF Lookup, Handlers, TypeOK, PointersOK, registry, NoHandler
    <3>2. PointersOK'
      BY <2>1, <2>0 DEF Lookup, Handlers, TypeOK, PointersOK, registry, NoHandler
    <3>. QED
      BY <3>1, <3>2 DEF IndType
  <2>2. CASE UpgradeFails(c)
    <3>1. TypeOK'
      BY <2>2, <2>0 DEF UpgradeFails, Handlers, TypeOK, PointersOK, registry
    <3>2. PointersOK'
      BY <2>2, <2>0 DEF UpgradeFails, Handlers, TypeOK, PointersOK, registry
    <3>. QED
      BY <3>1, <3>2 DEF IndType
  <2>3. CASE Attach(c)
    <3>1. TypeOK'
      <4>1. handler[c].sid \in Issued
        BY <2>3, <2>0 DEF Attach, PointersOK
      <4>2. conn[handler[c].sid] \in Conns \cup {None}
        BY <4>1, <2>0 DEF TypeOK
      <4>3. handler' \in [Conns -> Handlers]
        BY <2>3, <2>0, <4>1, <4>2 DEF Attach, TypeOK, Handlers
      <4>4. conn' \in [Ids -> Conns \cup {None}] /\ idle' \in [Ids -> BOOLEAN]
        BY <2>3, <2>0 DEF Attach, TypeOK
      <4>. QED
        BY <2>3, <2>0, <4>3, <4>4 DEF Attach, TypeOK, registry
    <3>2. PointersOK'
      BY <2>3, <2>0 DEF Attach, TypeOK, PointersOK, registry
    <3>. QED
      BY <3>1, <3>2 DEF IndType
  <2>4. CASE CloseDisplaced(c)
    <3>1. TypeOK'
      <4>1. handler' \in [Conns -> Handlers]
        BY <2>4, <2>0 DEF CloseDisplaced, TypeOK, Handlers
      <4>2. link' \in [Conns -> {"open", "lost", "closed"}]
        BY <2>4, <2>0 DEF CloseDisplaced, TypeOK
      <4>. QED
        BY <2>4, <2>0, <4>1, <4>2 DEF CloseDisplaced, TypeOK, registry
    <3>2. PointersOK'
      BY <2>4, <2>0 DEF CloseDisplaced, TypeOK, PointersOK, registry
    <3>. QED
      BY <3>1, <3>2 DEF IndType
  <2>5. CASE HelloSent(c)
    <3>1. TypeOK'
      <4>1. handler' \in [Conns -> Handlers]
        BY <2>5, <2>0 DEF HelloSent, TypeOK, Handlers
      <4>2. tasks' \in [Conns -> SUBSET {"keepalive", "readLoop"}]
        BY <2>5, <2>0 DEF HelloSent, TypeOK
      <4>. QED
        BY <2>5, <2>0, <4>1, <4>2 DEF HelloSent, TypeOK, registry
    <3>2. PointersOK'
      BY <2>5, <2>0 DEF HelloSent, TypeOK, PointersOK, registry
    <3>. QED
      BY <3>1, <3>2 DEF IndType
  <2>6. CASE HelloFails(c)
    <3>1. TypeOK'
      <4>1. handler' \in [Conns -> Handlers]
        BY <2>6, <2>0 DEF HelloFails, TypeOK, Handlers
      <4>2. /\ conn' \in [Ids -> Conns \cup {None}]
            /\ idle' \in [Ids -> BOOLEAN]
            /\ link' \in [Conns -> {"open", "lost", "closed"}]
        BY <2>6, <2>0 DEF HelloFails, Detach, TypeOK
      <4>. QED
        BY <2>6, <2>0, <4>1, <4>2 DEF HelloFails, TypeOK, registry
    <3>2. PointersOK'
      BY <2>6, <2>0 DEF HelloFails, Detach, TypeOK, PointersOK, registry
    <3>. QED
      BY <3>1, <3>2 DEF IndType
  <2>7. ASSUME NEW t \in tasks[c], TaskEnds(c, t)
        PROVE  IndType'
    <3>1. TypeOK'
      BY <2>7, <2>0 DEF TaskEnds, Detach, TypeOK, PointersOK, registry
    <3>2. PointersOK'
      BY <2>7, <2>0 DEF TaskEnds, Detach, TypeOK, PointersOK, registry
    <3>. QED
      BY <3>1, <3>2 DEF IndType
  <2>8. CASE Lose(c)
    <3>1. TypeOK'
      BY <2>8, <2>0 DEF Lose, TypeOK, PointersOK, registry
    <3>2. PointersOK'
      BY <2>8, <2>0 DEF Lose, TypeOK, PointersOK, registry
    <3>. QED
      BY <3>1, <3>2 DEF IndType
  <2>. QED
    BY <1>3, <2>1, <2>2, <2>3, <2>4, <2>5, <2>6, <2>7, <2>8 DEF Tunnel
<1>4. ASSUME NEW i \in Ids, Delete(i) \/ NewStream(i) \/ IdlePasses(i)
      PROVE  IndType'
  <2>0. Issued' = Issued /\ Handlers' = Handlers /\ Issued \subseteq Ids /\ TypeOK /\ PointersOK
    BY <1>4 DEF Delete, DeleteRemove, DeleteReadsConn, DeleteDetaches, NewStream,
         IdlePasses, registry, Handlers, Issued, IndType
  <2>1. CASE DeleteRemove(i)
    <3>1. TypeOK'
      <4>1. bySubdom' \in [Labels -> Issued \cup {None}]
        BY <2>1, <2>0 DEF DeleteRemove, TypeOK
      <4>2. del' \in [Ids -> [pc : {"none", "removed", "detach", "returned"},
                              conn : Conns \cup {None}]]
        BY <2>1, <2>0 DEF DeleteRemove, TypeOK
      <4>3. byID' \subseteq Issued /\ disk' \subseteq Issued
        BY <2>1, <2>0 DEF DeleteRemove, Persist, TypeOK
      <4>. QED
        BY <2>1, <2>0, <4>1, <4>2, <4>3 DEF DeleteRemove, TypeOK, network
    <3>2. PointersOK'
      BY <2>1, <2>0 DEF DeleteRemove, Persist, TypeOK, PointersOK, network
    <3>. QED
      BY <3>1, <3>2 DEF IndType
  <2>2. CASE DeleteReadsConn(i)
    <3>1. TypeOK'
      BY <2>2, <2>0 DEF DeleteReadsConn, TypeOK, PointersOK, registry, network
    <3>2. PointersOK'
      BY <2>2, <2>0 DEF DeleteReadsConn, TypeOK, PointersOK, registry, network
    <3>. QED
      BY <3>1, <3>2 DEF IndType
  <2>3. CASE DeleteDetaches(i)
    <3>1. TypeOK'
      <4>1. del' \in [Ids -> [pc : {"none", "removed", "detach", "returned"},
                              conn : Conns \cup {None}]]
        BY <2>3, <2>0 DEF DeleteDetaches, TypeOK
      <4>2. /\ conn' \in [Ids -> Conns \cup {None}]
            /\ idle' \in [Ids -> BOOLEAN]
            /\ link' \in [Conns -> {"open", "lost", "closed"}]
        BY <2>3, <2>0 DEF DeleteDetaches, Detach, TypeOK
      <4>. QED
        BY <2>3, <2>0, <4>1, <4>2 DEF DeleteDetaches, TypeOK, registry
    <3>2. PointersOK'
      BY <2>3, <2>0 DEF DeleteDetaches, Detach, TypeOK, PointersOK, registry
    <3>. QED
      BY <3>1, <3>2 DEF IndType
  <2>4. CASE NewStream(i)
    <3>1. TypeOK'
      BY <2>4, <2>0 DEF NewStream, TypeOK, PointersOK, registry, network
    <3>2. PointersOK'
      BY <2>4, <2>0 DEF NewStream, TypeOK, PointersOK, registry, network
    <3>. QED
      BY <3>1, <3>2 DEF IndType
  <2>5. CASE IdlePasses(i)
    <3>1. TypeOK'
      BY <2>5, <2>0 DEF IdlePasses, TypeOK, PointersOK, registry, network
    <3>2. PointersOK'
      BY <2>5, <2>0 DEF IdlePasses, TypeOK, PointersOK, registry, network
    <3>. QED
      BY <3>1, <3>2 DEF IndType
  <2>. QED
    BY <1>4, <2>1, <2>2, <2>3, <2>4, <2>5 DEF Delete
<1>5. CASE PruneIdle
  <2>1. CASE PruneBegin
    BY <2>1 DEF PruneBegin, NoPrune, IndType, TypeOK, PointersOK, Handlers, Issued, registry, network
  <2>2. ASSUME NEW i \in prune.todo, PruneTestsConnected(i)
        PROVE  IndType'
    BY <2>2 DEF PruneTestsConnected, IndType, TypeOK, PointersOK, Handlers, Issued, registry, network
  <2>3. CASE PruneTestsAge
    BY <2>3 DEF PruneTestsAge, IndType, TypeOK, PointersOK, Handlers, Issued, registry, network
  <2>4. CASE PruneRemove
    BY <2>4 DEF PruneRemove, IndType, TypeOK, PointersOK, Handlers, Issued, network
  <2>5. CASE PruneEnd
    BY <2>5 DEF PruneEnd, NoPrune, Persist, IndType, TypeOK, PointersOK, Handlers, Issued, network
  <2>. QED
    BY <1>5, <2>1, <2>2, <2>3, <2>4, <2>5 DEF PruneIdle
<1>6. CASE Restart
  <2>1. IndexOf(disk) \in [Labels -> Issued \cup {None}]
    BY DEF IndexOf, IndType, TypeOK
  <2>2. UNCHANGED Issued
    BY <1>6 DEF Restart, Issued
  <2>. QED
    BY <1>6, <2>1, <2>2 DEF Restart, NoHandler, NoDelete, NoPrune, IndType, TypeOK, PointersOK, Handlers
<1>7. CASE UNCHANGED vars
  BY <1>7 DEF vars, registry, network, IndType, TypeOK, PointersOK, Handlers, Issued
<1>. QED
  BY <1>1, <1>2, <1>3, <1>4, <1>5, <1>6, <1>7 DEF Next

\* Every variable keeps its type, for any instance and with disk faults.
THEOREM TypeCorrect == Spec => []TypeOK
  <1>1. IndType => TypeOK
  BY DEF IndType
<1>. QED
  BY <1>1, InitType, NextType, PTL DEF Spec

-----------------------------------------------------------------------------
\* The inductive invariant behind the properties of the two indexes.  While a
\* prune holds Manager.mu, what it has not looked at is still registered; the
\* labels on file are distinct, so load can rebuild the index; and without
\* disk faults the file lags behind memory only by what a running prune has
\* removed.
PruneOK ==
    /\ prune.todo \subseteq byID
    /\ prune.pc \in {"age", "remove"} => prune.cur \in byID \ prune.todo
    /\ MutexFree => prune.todo = {} /\ prune.gone = {}

FileDistinct == \A i, j \in disk : info[i].label = info[j].label => i = j

FileCurrent == ~DiskFaults => disk = byID \cup prune.gone

RegistryInv == IndexesAgree /\ PruneOK /\ FileDistinct /\ FileCurrent

\* Two registered sessions never share a label.
LEMMA ByIDDistinct ==
  ASSUME IndexesAgree, NEW i \in byID, NEW j \in byID, info[i].label = info[j].label
  PROVE  i = j
  BY DEF IndexesAgree

\* Index and file after Create.
LEMMA CreateRegistry ==
  ASSUME IndType, RegistryInv,
         NEW k \in Keys, NEW wish \in Labels \cup {None}, Create(k, wish)
  PROVE  RegistryInv'
<1>1. PICK id \in Ids \ Issued, label \in Granted(k, wish) :
        LET rest == byID \ {bySubdom[label]} IN
          /\ info' = [info EXCEPT ![id] = [key |-> k, label |-> label]]
          /\ byID' = rest \cup {id}
          /\ bySubdom' = [bySubdom EXCEPT ![label] = id]
          /\ idle' = [idle EXCEPT ![id] = FALSE]
          /\ Persist(rest \cup {id})
  BY DEF Create
<1>2. label \in Labels
  BY DEF Granted
<1>3. /\ prune' = prune
      /\ prune.todo = {} /\ prune.gone = {} /\ prune.pc = "unlocked"
  BY DEF Create, RegistryInv, PruneOK, MutexFree
<1>4. /\ byID \subseteq Issued /\ disk \subseteq Issued /\ Issued \subseteq Ids
      /\ bySubdom \in [Labels -> Issued \cup {None}]
      /\ info \in [Ids -> Sessions \cup {None}]
  BY DEF IndType, TypeOK, Issued
<1>5. id \notin byID /\ id \notin disk /\ \A i \in Issued : info'[i] = info[i]
  BY <1>1, <1>4
<1>6. info'[id].label = label
  BY <1>1, <1>4
<1>7. IndexesAgree'
  <2>1. ASSUME NEW i \in byID' PROVE bySubdom'[info'[i].label] = i
    <3>1. CASE i = id
      BY <1>1, <1>2, <1>4, <1>6, <3>1
    <3>2. CASE i # id
      <4>1. i \in byID /\ i # bySubdom[label] /\ info'[i] = info[i]
        BY <1>1, <1>4, <1>5, <2>1, <3>2
      <4>2. info[i].label # label /\ bySubdom[info[i].label] = i
        BY <4>1 DEF RegistryInv, IndexesAgree
      <4>3. info[i].label \in Labels
        BY <1>4, <4>1 DEF Issued, Sessions
      <4>. QED
        BY <1>1, <1>4, <4>1, <4>2, <4>3
    <3>. QED
      BY <3>1, <3>2
  <2>2. ASSUME NEW l \in Labels, bySubdom'[l] # None
        PROVE  bySubdom'[l] \in byID' /\ info'[bySubdom'[l]].label = l
    <3>1. CASE l = label
      BY <1>1, <1>4, <1>6, <3>1
    <3>2. CASE l # label
      <4>1. bySubdom'[l] = bySubdom[l]
        BY <1>1, <1>4, <3>2
      <4>2. bySubdom[l] \in byID /\ info[bySubdom[l]].label = l
        BY <2>2, <4>1 DEF RegistryInv, IndexesAgree
      <4>3. bySubdom[l] # bySubdom[label]
        BY <1>2, <2>2, <3>2, <4>1, <4>2 DEF RegistryInv, IndexesAgree
      <4>. QED
        BY <1>1, <1>4, <1>5, <4>1, <4>2, <4>3
    <3>. QED
      BY <3>1, <3>2
  <2>. QED
    BY <2>1, <2>2 DEF IndexesAgree
<1>8. PruneOK'
  BY <1>3 DEF PruneOK, MutexFree
<1>9. FileDistinct'
  <2>1. ASSUME NEW i \in byID', NEW j \in byID', info'[i].label = info'[j].label
        PROVE  i = j
    BY <1>7, <2>1 DEF IndexesAgree
  <2>2. CASE disk' = byID'
    BY <2>1, <2>2 DEF FileDistinct
  <2>3. CASE disk' = disk
    BY <1>4, <1>5, <2>3 DEF FileDistinct, RegistryInv
  <2>. QED
    BY <1>1, <2>2, <2>3 DEF Persist
<1>10. FileCurrent'
  BY <1>1, <1>3 DEF FileCurrent, Persist
<1>. QED
  BY <1>7, <1>8, <1>9, <1>10 DEF RegistryInv

\* Index and file after load.
LEMMA RestartRegistry ==
  ASSUME IndType, RegistryInv, Restart
  PROVE  RegistryInv'
<1>1. /\ byID' = disk /\ disk' = disk /\ info' = info
      /\ bySubdom' = IndexOf(disk)
      /\ prune' = NoPrune
  BY DEF Restart
<1>2. disk \subseteq Issued /\ info \in [Ids -> Sessions \cup {None}] /\ Issued \subseteq Ids
  BY DEF IndType, TypeOK, Issued
<1>3. ASSUME NEW i \in disk PROVE info[i].label \in Labels
  BY <1>2 DEF Issued, Sessions
<1>4. ASSUME NEW i \in disk PROVE IndexOf(disk)[info[i].label] = i
  <2>1. \A j \in disk : info[j].label = info[i].label => j = i
    BY DEF RegistryInv, FileDistinct
  <2>. QED
    BY <1>3, <2>1 DEF IndexOf
<1>5. ASSUME NEW l \in Labels, IndexOf(disk)[l] # None
      PROVE  IndexOf(disk)[l] \in disk /\ info[IndexOf(disk)[l]].label = l
  BY <1>5 DEF IndexOf
<1>6. IndexesAgree'
  BY <1>1, <1>4, <1>5 DEF IndexesAgree
<1>7. PruneOK' /\ FileDistinct' /\ FileCurrent'
  BY <1>1 DEF PruneOK, FileDistinct, FileCurrent, RegistryInv, NoPrune, MutexFree
<1>. QED
  BY <1>6, <1>7 DEF RegistryInv

\* Removing a session from both indexes keeps them inverse.
LEMMA RemoveAgree ==
  ASSUME IndType, IndexesAgree, NEW i \in byID, info' = info, byID' = byID \ {i},
         bySubdom' = [bySubdom EXCEPT ![info[i].label] = None]
  PROVE  IndexesAgree'
<1>1. /\ bySubdom \in [Labels -> Issued \cup {None}] /\ byID \subseteq Issued
      /\ info \in [Ids -> Sessions \cup {None}] /\ Issued \subseteq Ids
  BY DEF IndType, TypeOK, Issued
<1>2. ASSUME NEW j \in byID \ {i} PROVE bySubdom'[info[j].label] = j
  <2>1. info[j].label # info[i].label
    BY DEF IndexesAgree
  <2>. QED
    BY <1>1, <2>1 DEF IndexesAgree, Issued, Sessions
<1>3. ASSUME NEW l \in Labels, bySubdom'[l] # None
      PROVE  bySubdom'[l] \in byID \ {i} /\ info[bySubdom'[l]].label = l
  <2>1. l # info[i].label /\ bySubdom'[l] = bySubdom[l]
    BY <1>1, <1>3
  <2>. QED
    BY <1>3, <2>1 DEF IndexesAgree
<1>. QED
  BY <1>2, <1>3 DEF IndexesAgree

\* Removing a session under the lock (Manager.Delete) keeps the registry
\* consistent.
LEMMA DeleteRegistry ==
  ASSUME IndType, RegistryInv, NEW i \in Ids, DeleteRemove(i)
  PROVE  RegistryInv'
<1>1. /\ i \in byID /\ info' = info /\ prune' = prune
      /\ byID' = byID \ {i} /\ Persist(byID \ {i})
      /\ prune.todo = {} /\ prune.gone = {} /\ prune.pc = "unlocked"
  BY DEF DeleteRemove, RegistryInv, PruneOK, MutexFree
<1>2. IndexesAgree'
  BY <1>1, RemoveAgree DEF DeleteRemove, RegistryInv
<1>3. PruneOK'
  BY <1>1 DEF PruneOK, MutexFree
<1>4. FileDistinct'
  BY <1>1, ByIDDistinct DEF FileDistinct, Persist, RegistryInv
<1>5. FileCurrent'
  BY <1>1 DEF FileCurrent, Persist
<1>. QED
  BY <1>2, <1>3, <1>4, <1>5 DEF RegistryInv

\* PruneIdle holds the lock over all its steps, so the registry is consistent
\* again when it is done.
LEMMA PruneRegistry ==
  ASSUME IndType, RegistryInv, PruneIdle
  PROVE  RegistryInv'
<1>1. CASE PruneBegin
  BY <1>1 DEF PruneBegin, NoPrune, registry, RegistryInv, IndexesAgree, PruneOK,
              MutexFree, FileDistinct, FileCurrent
<1>2. ASSUME NEW i \in prune.todo, PruneTestsConnected(i)
      PROVE  RegistryInv'
  <2>1. prune \in [pc : {"unlocked", "scan", "age", "remove"}, todo : SUBSET Issued,
                   cur : Issued \cup {None}, gone : SUBSET Issued]
    BY DEF IndType, TypeOK
  <2>. QED
    BY <1>2, <2>1 DEF PruneTestsConnected, registry, RegistryInv, IndexesAgree,
                      PruneOK, MutexFree, FileDistinct, FileCurrent
<1>3. CASE PruneTestsAge
  <2>1. prune \in [pc : {"unlocked", "scan", "age", "remove"}, todo : SUBSET Issued,
                   cur : Issued \cup {None}, gone : SUBSET Issued]
    BY DEF IndType, TypeOK
  <2>. QED
    BY <1>3, <2>1 DEF PruneTestsAge, registry, RegistryInv, IndexesAgree, PruneOK,
                      MutexFree, FileDistinct, FileCurrent
<1>4. CASE PruneRemove
  <2>0. prune \in [pc : {"unlocked", "scan", "age", "remove"}, todo : SUBSET Issued,
                   cur : Issued \cup {None}, gone : SUBSET Issued]
    BY DEF IndType, TypeOK
  <2>1. /\ prune.cur \in byID \ prune.todo /\ info' = info /\ disk' = disk
        /\ byID' = byID \ {prune.cur}
        /\ bySubdom' = [bySubdom EXCEPT ![info[prune.cur].label] = None]
        /\ prune' = [prune EXCEPT !.pc = "scan", !.cur = None, !.gone = @ \cup {prune.cur}]
    BY <1>4 DEF PruneRemove, RegistryInv, PruneOK
  <2>2. IndexesAgree'
    BY <2>1, RemoveAgree DEF RegistryInv
  <2>3. PruneOK' /\ FileDistinct' /\ FileCurrent'
    BY <2>0, <2>1 DEF PruneOK, MutexFree, FileDistinct, FileCurrent, RegistryInv
  <2>. QED
    BY <2>2, <2>3 DEF RegistryInv
<1>5. CASE PruneEnd
  <2>1. /\ info' = info /\ byID' = byID /\ bySubdom' = bySubdom /\ prune' = NoPrune
        /\ disk' = byID \/ (disk' = disk /\ (DiskFaults \/ prune.gone = {}))
    BY <1>5 DEF PruneEnd, Persist
  <2>2. IndexesAgree' /\ PruneOK'
    BY <2>1 DEF IndexesAgree, PruneOK, NoPrune, MutexFree, RegistryInv
  <2>3. FileDistinct' /\ FileCurrent'
    BY <2>1, ByIDDistinct DEF FileDistinct, FileCurrent, RegistryInv, NoPrune
  <2>. QED
    BY <2>2, <2>3 DEF RegistryInv
<1>. QED
  BY <1>1, <1>2, <1>3, <1>4, <1>5 DEF PruneIdle

\* What the other steps leave alone.
LEMMA QuietRegistry ==
  ASSUME RegistryInv, UNCHANGED <<registry, prune>>
  PROVE  RegistryInv'
  BY DEF RegistryInv, IndexesAgree, PruneOK, MutexFree, FileDistinct, FileCurrent, registry

\* Every step keeps the registry consistent.
LEMMA NextRegistry == IndType /\ RegistryInv /\ [Next]_vars => RegistryInv'
<1>. SUFFICES ASSUME IndType, RegistryInv, [Next]_vars PROVE RegistryInv'
  OBVIOUS
<1>1. ASSUME NEW k \in Keys, NEW wish \in Labels \cup {None}, Create(k, wish)
      PROVE  RegistryInv'
  BY <1>1, CreateRegistry
<1>2. CASE Touch
  <2>1. FileDistinct'
    BY <1>2, ByIDDistinct DEF Touch, Persist, FileDistinct, RegistryInv
  <2>2. IndexesAgree' /\ PruneOK' /\ FileCurrent'
    BY <1>2 DEF Touch, Persist, IndexesAgree, PruneOK, MutexFree, FileCurrent, RegistryInv
  <2>. QED
    BY <2>1, <2>2 DEF RegistryInv
<1>3. ASSUME NEW c \in Conns, Tunnel(c) \/ Lose(c)
      PROVE  RegistryInv'
  <2>1. UNCHANGED <<registry, prune>>
    BY <1>3 DEF Tunnel, Lookup, UpgradeFails, Attach, CloseDisplaced, HelloSent,
                HelloFails, TaskEnds, Lose
  <2>. QED
    BY <2>1, QuietRegistry
<1>4. ASSUME NEW i \in Ids, DeleteRemove(i)
      PROVE  RegistryInv'
  BY <1>4, DeleteRegistry
<1>5. ASSUME NEW i \in Ids,
             \/ DeleteReadsConn(i) \/ DeleteDetaches(i)
             \/ NewStream(i) \/ IdlePasses(i)
      PROVE  RegistryInv'
  <2>1. UNCHANGED <<registry, prune>>
    BY <1>5 DEF DeleteReadsConn, DeleteDetaches, NewStream, IdlePasses
  <2>. QED
    BY <2>1, QuietRegistry
<1>6. CASE PruneIdle
  BY <1>6, PruneRegistry
<1>7. CASE Restart
  BY <1>7, RestartRegistry
<1>8. CASE UNCHANGED vars
  BY <1>8, QuietRegistry DEF vars
<1>. QED
  BY <1>1, <1>2, <1>3, <1>4, <1>5, <1>6, <1>7, <1>8 DEF Next, Delete

\* The empty registry is consistent.
LEMMA InitRegistry == Init => RegistryInv
  BY DEF Init, RegistryInv, IndexesAgree, PruneOK, MutexFree, FileDistinct,
         FileCurrent, NoPrune

\* Types and registry together hold in every behaviour.
LEMMA Inductive == Spec => [](IndType /\ RegistryInv)
  BY InitType, NextType, InitRegistry, NextRegistry, PTL DEF Spec

\* The indexes are inverse to each other in every reachable state, disk
\* faults and restarts included.
THEOREM IndexesAlwaysAgree == Spec => []IndexesAgree
<1>1. RegistryInv => IndexesAgree
  BY DEF RegistryInv
<1>. QED
  BY <1>1, Inductive, PTL

-----------------------------------------------------------------------------
\* Action properties of the registry, without disk faults.

LabelKeepsKeyStep ==
    \A l \in Labels : bySubdom[l] # None /\ bySubdom'[l] # None =>
        info[bySubdom[l]].key = info'[bySubdom'[l]].key

NoResurrectionStep ==
    \A i \in byID' \ byID : info[i] = None \/ i \in prune.gone

\* Create takes a label only from a session of the same key, and gives the new
\* session an id that was never used.
LEMMA CreateSteps ==
  ASSUME IndType, RegistryInv,
         NEW k \in Keys, NEW wish \in Labels \cup {None}, Create(k, wish)
  PROVE  LabelKeepsKeyStep /\ NoResurrectionStep
<1>1. PICK id \in Ids \ Issued, label \in Granted(k, wish) :
        LET rest == byID \ {bySubdom[label]} IN
          /\ info' = [info EXCEPT ![id] = [key |-> k, label |-> label]]
          /\ byID' = rest \cup {id}
          /\ bySubdom' = [bySubdom EXCEPT ![label] = id]
          /\ idle' = [idle EXCEPT ![id] = FALSE]
          /\ Persist(rest \cup {id})
  BY DEF Create
<1>2. /\ bySubdom \in [Labels -> Issued \cup {None}]
      /\ info \in [Ids -> Sessions \cup {None}]
      /\ label \in Labels
      /\ bySubdom[label] = None \/ info[bySubdom[label]].key = k
  BY DEF IndType, TypeOK, Granted
<1>3. LabelKeepsKeyStep
  <2>. SUFFICES ASSUME NEW l \in Labels, bySubdom[l] # None, bySubdom'[l] # None
                PROVE  info[bySubdom[l]].key = info'[bySubdom'[l]].key
    BY DEF LabelKeepsKeyStep
  <2>1. CASE l = label
    BY <1>1, <1>2, <2>1
  <2>2. CASE l # label
    BY <1>1, <1>2, <2>2
  <2>. QED
    BY <2>1, <2>2
<1>4. NoResurrectionStep
  BY <1>1 DEF NoResurrectionStep, Issued
<1>. QED
  BY <1>3, <1>4

\* load puts every label back where memory had it: the file holds what memory
\* holds and what a prune cut short had removed, all with distinct labels.
LEMMA RestartSteps ==
  ASSUME IndType, RegistryInv, ~DiskFaults, Restart
  PROVE  LabelKeepsKeyStep /\ NoResurrectionStep
<1>1. /\ byID' = disk /\ info' = info /\ bySubdom' = IndexOf(disk)
      /\ disk = byID \cup prune.gone
  BY DEF Restart, RegistryInv, FileCurrent
<1>2. ASSUME NEW l \in Labels, bySubdom[l] # None
      PROVE  IndexOf(disk)[l] = bySubdom[l]
  <2>1. bySubdom[l] \in disk /\ info[bySubdom[l]].label = l
    BY <1>1, <1>2 DEF RegistryInv, IndexesAgree
  <2>2. \A j \in disk : info[j].label = l => j = bySubdom[l]
    BY <2>1 DEF RegistryInv, FileDistinct
  <2>. QED
    BY <2>1, <2>2 DEF IndexOf
<1>. QED
  BY <1>1, <1>2 DEF LabelKeepsKeyStep, NoResurrectionStep

\* A step that only takes sessions out of the registry moves no label and
\* brings nothing back.
LEMMA OtherSteps ==
  ASSUME IndType, NEW l \in Labels, info' = info, byID' \subseteq byID,
         bySubdom' = [bySubdom EXCEPT ![l] = None] \/ bySubdom' = bySubdom
  PROVE  LabelKeepsKeyStep /\ NoResurrectionStep
  BY DEF LabelKeepsKeyStep, NoResurrectionStep, IndType, TypeOK

\* As long as writes of the file succeed, no step moves a label between keys or
\* brings a removed session back.
LEMMA NextSteps ==
  ASSUME IndType, RegistryInv, ~DiskFaults, [Next]_vars
  PROVE  LabelKeepsKeyStep /\ NoResurrectionStep
<1>0. ASSUME UNCHANGED <<info, byID, bySubdom>>
      PROVE  LabelKeepsKeyStep /\ NoResurrectionStep
  BY <1>0 DEF LabelKeepsKeyStep, NoResurrectionStep
<1>1. ASSUME NEW k \in Keys, NEW wish \in Labels \cup {None}, Create(k, wish)
      PROVE  LabelKeepsKeyStep /\ NoResurrectionStep
  BY <1>1, CreateSteps
<1>2. CASE Touch
  BY <1>0, <1>2 DEF Touch
<1>3. ASSUME NEW c \in Conns, Tunnel(c) \/ Lose(c)
      PROVE  LabelKeepsKeyStep /\ NoResurrectionStep
  BY <1>0, <1>3 DEF Tunnel, Lookup, UpgradeFails, Attach, CloseDisplaced, HelloSent,
                    HelloFails, TaskEnds, Lose, registry
<1>4. ASSUME NEW i \in Ids, DeleteRemove(i)
      PROVE  LabelKeepsKeyStep /\ NoResurrectionStep
  <2>1. info[i].label \in Labels
    BY <1>4 DEF DeleteRemove, IndType, TypeOK, Issued, Sessions
  <2>. QED
    BY <1>4, <2>1, OtherSteps DEF DeleteRemove
<1>5. ASSUME NEW i \in Ids,
             \/ DeleteReadsConn(i) \/ DeleteDetaches(i)
             \/ NewStream(i) \/ IdlePasses(i)
      PROVE  LabelKeepsKeyStep /\ NoResurrectionStep
  BY <1>0, <1>5 DEF DeleteReadsConn, DeleteDetaches, NewStream, IdlePasses, registry
<1>6. CASE PruneIdle
  <2>1. CASE PruneRemove
    <3>1. info[prune.cur].label \in Labels
      BY <2>1 DEF PruneRemove, RegistryInv, PruneOK, IndType, TypeOK, Issued, Sessions
    <3>. QED
      BY <2>1, <3>1, OtherSteps DEF PruneRemove
  <2>2. CASE PruneBegin \/ PruneTestsAge \/ PruneEnd
    BY <1>0, <2>2 DEF PruneBegin, PruneTestsAge, PruneEnd, registry
  <2>3. ASSUME NEW i \in prune.todo, PruneTestsConnected(i)
        PROVE  LabelKeepsKeyStep /\ NoResurrectionStep
    BY <1>0, <2>3 DEF PruneTestsConnected, registry
  <2>. QED
    BY <1>6, <2>1, <2>2, <2>3 DEF PruneIdle
<1>7. CASE Restart
  BY <1>7, RestartSteps
<1>8. CASE UNCHANGED vars
  BY <1>0, <1>8 DEF vars, registry
<1>. QED
  BY <1>1, <1>2, <1>3, <1>4, <1>5, <1>6, <1>7, <1>8 DEF Next, Delete

\* Without disk faults a label never passes from one key to another in one
\* step, restarts and interrupted prunes included.
THEOREM LabelsKeepKeys == ASSUME ~DiskFaults PROVE Spec => LabelKeepsKey
<1>1. IndType /\ RegistryInv /\ [Next]_vars => [LabelKeepsKeyStep]_vars
  BY NextSteps
<1>. QED
  BY <1>1, Inductive, PTL DEF Spec, LabelKeepsKey, LabelKeepsKeyStep

\* Without disk faults a removed session never comes back.
THEOREM NothingResurrected == ASSUME ~DiskFaults PROVE Spec => NoResurrection
<1>1. IndType /\ RegistryInv /\ [Next]_vars => [NoResurrectionStep]_vars
  BY NextSteps
<1>. QED
  BY <1>1, Inductive, PTL DEF Spec, NoResurrection, NoResurrectionStep

-----------------------------------------------------------------------------
\* Refinement: without disk faults every step is a step of Directory on the
\* file, or changes nothing there.

\* The holder of a label that some session on file has.
LEMMA HolderOnFile ==
  ASSUME IndType, FileDistinct, NEW i \in disk
  PROVE  /\ info[i].label \in Labels
         /\ OnFile[info[i].label] = [key |-> info[i].key, id |-> i]
<1>1. info[i].label \in Labels
  BY DEF IndType, TypeOK, Issued, Sessions
<1>2. \A j \in disk : info[j].label = info[i].label => j = i
  BY DEF FileDistinct
<1>. QED
  BY <1>1, <1>2 DEF OnFile

\* A label none of the sessions on file has is free after a restart.
LEMMA FreeOnFile ==
  ASSUME NEW l \in Labels, \A i \in disk : info[i].label # l
  PROVE  OnFile[l] = None
  BY DEF OnFile

\* Writing the registered sessions to the file frees the labels of those that
\* are no longer among them.
LEMMA ShrinkOnFile ==
  ASSUME IndType, FileDistinct, NEW S \in SUBSET disk, disk' = S, info' = info
  PROVE  Dir!Next
<1>. DEFINE freed == {l \in Labels : \A i \in S : info[i].label # l}
<1>1. OnFile' = [l \in Labels |-> IF l \in freed THEN None ELSE OnFile[l]]
  <2>1. ASSUME NEW l \in Labels, NEW i \in S, info[i].label = l
        PROVE  OnFile'[l] = OnFile[l]
    <3>1. \A j \in S : info[j].label = l => j = i
      BY <2>1 DEF FileDistinct
    <3>2. OnFile'[l] = [key |-> info[i].key, id |-> i]
      BY <2>1, <3>1 DEF OnFile
    <3>. QED
      BY <2>1, <3>2, HolderOnFile
  <2>2. ASSUME NEW l \in Labels, \A i \in S : info[i].label # l
        PROVE  OnFile'[l] = None
    BY <2>2 DEF OnFile
  <2>3. OnFile' = [l \in Labels |-> OnFile'[l]]
    BY DEF OnFile
  <2>. QED
    BY <2>1, <2>2, <2>3
<1>2. UNCHANGED Issued
  BY DEF Issued
<1>. QED
  BY <1>1, <1>2 DEF Dir!Next, Dir!Free

\* Create, persisted, is a claim in the directory.
LEMMA CreateImplements ==
  ASSUME IndType, RegistryInv, RegistryInv', IndType', ~DiskFaults,
         NEW k \in Keys, NEW wish \in Labels \cup {None}, Create(k, wish)
  PROVE  Dir!Next
<1>1. PICK id \in Ids \ Issued, label \in Granted(k, wish) :
        LET rest == byID \ {bySubdom[label]} IN
          /\ info' = [info EXCEPT ![id] = [key |-> k, label |-> label]]
          /\ byID' = rest \cup {id}
          /\ bySubdom' = [bySubdom EXCEPT ![label] = id]
          /\ idle' = [idle EXCEPT ![id] = FALSE]
          /\ Persist(rest \cup {id})
  BY DEF Create
<1>2. /\ info \in [Ids -> Sessions \cup {None}] /\ Issued \subseteq Ids
      /\ bySubdom \in [Labels -> Issued \cup {None}]
      /\ label \in Labels
      /\ bySubdom[label] = None \/ info[bySubdom[label]].key = k
  BY DEF IndType, TypeOK, Granted, Issued
<1>3. /\ disk = byID /\ byID \subseteq Issued
      /\ disk' = (byID \ {bySubdom[label]}) \cup {id}
  <2>1. prune.gone = {}
    BY DEF RegistryInv, PruneOK, Create
  <2>2. disk' = (byID \ {bySubdom[label]}) \cup {id}
    BY <1>1 DEF Persist
  <2>. QED
    BY <2>1, <2>2 DEF RegistryInv, FileCurrent, IndType, TypeOK
<1>4. Issued' = Issued \cup {id}
  BY <1>1, <1>2, NoneAssumption DEF Issued, Sessions
<1>5. /\ info'[id] = [key |-> k, label |-> label] /\ id \in disk'
      /\ \A i \in disk : info'[i] = info[i]
  BY <1>1, <1>2, <1>3
<1>6. OnFile[label] = None \/ OnFile[label].key = k
  <2>1. CASE \A i \in disk : info[i].label # label
    BY <1>2, <2>1, FreeOnFile
  <2>2. ASSUME NEW i \in disk, info[i].label = label
        PROVE  OnFile[label].key = k
    <3>1. bySubdom[label] = i
      BY <1>3, <2>2 DEF RegistryInv, IndexesAgree
    <3>2. i # None
      BY <1>2, <1>3, NoneAssumption
    <3>3. OnFile[label] = [key |-> info[i].key, id |-> i]
      BY <2>2, HolderOnFile DEF RegistryInv
    <3>. QED
      BY <1>2, <3>1, <3>2, <3>3
  <2>. QED
    BY <2>1, <2>2
<1>7. OnFile' = [OnFile EXCEPT ![label] = [key |-> k, id |-> id]]
  <2>1. OnFile'[label] = [key |-> k, id |-> id]
    <3>1. \A j \in disk' : info'[j].label = label => j = id
      BY <1>5 DEF RegistryInv, FileDistinct
    <3>. QED
      BY <1>2, <1>5, <3>1 DEF OnFile
  <2>2. ASSUME NEW l \in Labels, l # label
        PROVE  OnFile'[l] = OnFile[l]
    <3>1. ASSUME NEW i \in disk, info[i].label = l
          PROVE  OnFile'[l] = OnFile[l]
      <4>1. i # bySubdom[label]
        <5>1. bySubdom[label] # None => info[bySubdom[label]].label = label
          BY <1>2 DEF RegistryInv, IndexesAgree
        <5>. QED
          BY <1>2, <1>3, <2>2, <3>1, <5>1, NoneAssumption
      <4>2. i \in disk' /\ info'[i] = info[i]
        BY <1>3, <1>5, <3>1, <4>1
      <4>3. \A j \in disk' : info'[j].label = l => j = i
        BY <3>1, <4>2 DEF RegistryInv, FileDistinct
      <4>4. OnFile'[l] = [key |-> info[i].key, id |-> i]
        BY <3>1, <4>2, <4>3 DEF OnFile
      <4>. QED
        BY <3>1, <4>4, HolderOnFile DEF RegistryInv
    <3>2. CASE \A i \in disk : info[i].label # l
      <4>1. \A i \in disk' : info'[i].label # l
        BY <1>3, <1>5, <2>2, <3>2
      <4>2. OnFile'[l] = None
        BY <4>1 DEF OnFile
      <4>. QED
        BY <3>2, <4>2, FreeOnFile
    <3>. QED
      BY <3>1, <3>2
  <2>3. OnFile' = [l \in Labels |-> OnFile'[l]] /\ OnFile = [l \in Labels |-> OnFile[l]]
    BY DEF OnFile
  <2>. QED
    BY <1>2, <2>1, <2>2, <2>3
<1>8. id \notin Issued /\ id \in Ids
  BY <1>1
<1>. QED
  BY <1>2, <1>4, <1>6, <1>7, <1>8 DEF Dir!Next, Dir!Issue

\* Every step of the registry is a step of the directory, or none.
LEMMA NextImplements ==
  ASSUME IndType, RegistryInv, IndType', RegistryInv', ~DiskFaults, [Next]_vars
  PROVE  [Dir!Next]_<<OnFile, Issued>>
<1>0. ASSUME UNCHANGED <<info, disk>>
      PROVE  UNCHANGED <<OnFile, Issued>>
  BY <1>0 DEF OnFile, Issued
<1>1. ASSUME NEW k \in Keys, NEW wish \in Labels \cup {None}, Create(k, wish)
      PROVE  Dir!Next
  BY <1>1, CreateImplements
<1>2. CASE Touch
  <2>1. disk' = byID /\ info' = info /\ byID \subseteq disk
    BY <1>2 DEF Touch, Persist, RegistryInv, FileCurrent
  <2>. QED
    BY <2>1, ShrinkOnFile DEF RegistryInv
<1>3. ASSUME NEW c \in Conns, Tunnel(c) \/ Lose(c)
      PROVE  UNCHANGED <<info, disk>>
  BY <1>3 DEF Tunnel, Lookup, UpgradeFails, Attach, CloseDisplaced, HelloSent,
              HelloFails, TaskEnds, Lose, registry
<1>4. ASSUME NEW i \in Ids, DeleteRemove(i)
      PROVE  Dir!Next
  <2>1. disk' = byID \ {i} /\ info' = info /\ byID \ {i} \subseteq disk
    BY <1>4 DEF DeleteRemove, Persist, RegistryInv, FileCurrent
  <2>. QED
    BY <2>1, ShrinkOnFile DEF RegistryInv
<1>5. ASSUME NEW i \in Ids,
             \/ DeleteReadsConn(i) \/ DeleteDetaches(i)
             \/ NewStream(i) \/ IdlePasses(i)
      PROVE  UNCHANGED <<info, disk>>
  BY <1>5 DEF DeleteReadsConn, DeleteDetaches, NewStream, IdlePasses, registry
<1>6. CASE PruneEnd
  <2>1. info' = info /\ (disk' = byID \/ disk' = disk) /\ byID \subseteq disk
    BY <1>6 DEF PruneEnd, Persist, RegistryInv, FileCurrent
  <2>. QED
    BY <1>0, <2>1, ShrinkOnFile DEF RegistryInv
<1>7. ASSUME PruneIdle, ~PruneEnd
      PROVE  UNCHANGED <<info, disk>>
  BY <1>7 DEF PruneIdle, PruneBegin, PruneTestsConnected, PruneTestsAge, PruneRemove,
              registry
<1>8. CASE Restart
  BY <1>0, <1>8 DEF Restart
<1>9. CASE UNCHANGED vars
  BY <1>0, <1>9 DEF vars, registry
<1>. QED
  BY <1>0, <1>1, <1>2, <1>3, <1>4, <1>5, <1>6, <1>7, <1>8, <1>9 DEF Next, Delete

\* The empty registry is the empty directory.
LEMMA InitImplements == Init => Dir!Init
  BY DEF Init, Dir!Init, OnFile, Issued

\* Without disk faults the registry implements Directory.
THEOREM Refinement == ASSUME ~DiskFaults PROVE Spec => ImplementsDirectory
<1>1. /\ IndType /\ RegistryInv /\ IndType' /\ RegistryInv' /\ [Next]_vars
         => [Dir!Next]_<<OnFile, Issued>>
  BY NextImplements
<1>. QED
  BY <1>1, InitImplements, Inductive, PTL DEF Spec, ImplementsDirectory, Dir!Spec

-----------------------------------------------------------------------------
\* Connections.  NoLeakedConn is inductive once the types are known.

\* detach takes nothing but its own connection away, and closes that.
LEMMA DetachKeeps ==
  ASSUME IndType, NEW i \in Ids, NEW c \in Conns \cup {None}, Detach(i, c)
  PROVE  \A d \in Conns, j \in Ids :
            link'[d] = "open" => link[d] = "open" /\ (conn[j] = d => conn'[j] = d)
  BY DEF Detach, IndType, TypeOK

\* The connection attach displaces is in the hands of its handler.
LEMMA AttachLeaks ==
  ASSUME IndType, NoLeakedConn, NEW c \in Conns, Attach(c)
  PROVE  NoLeakedConn'
<1>. DEFINE i == handler[c].sid
<1>1. /\ handler[c].pc = "upgrade" /\ link' = link
      /\ conn' = [conn EXCEPT ![i] = c]
      /\ handler' = [handler EXCEPT ![c] =
            [pc |-> IF conn[i] = None THEN "hello" ELSE "displace",
             sid |-> i, old |-> conn[i]]]
  BY DEF Attach
<1>2. /\ i \in Ids /\ conn \in [Ids -> Conns \cup {None}]
      /\ handler \in [Conns -> Handlers] /\ Issued \subseteq Ids
  BY <1>1 DEF IndType, PointersOK, TypeOK, Issued
<1>. SUFFICES ASSUME NEW d \in Conns, link[d] = "open", handler'[d].pc \notin {"none", "upgrade"}
              PROVE  \/ \E j \in Ids : conn'[j] = d
                     \/ \E e \in Conns : handler'[e].pc = "displace" /\ handler'[e].old = d
  BY <1>1 DEF NoLeakedConn
<1>3. CASE d = c
  BY <1>1, <1>2, <1>3
<1>4. CASE d # c
  <2>1. handler'[d] = handler[d]
    BY <1>1, <1>2, <1>4
  <2>2. ASSUME NEW j \in Ids, conn[j] = d
        PROVE  \/ \E k \in Ids : conn'[k] = d
               \/ \E e \in Conns : handler'[e].pc = "displace" /\ handler'[e].old = d
    <3>1. CASE j = i
      <4>1. handler'[c].pc = "displace" /\ handler'[c].old = d
        BY <1>1, <1>2, <2>2, <3>1, NoneAssumption
      <4>. QED
        BY <4>1
    <3>2. CASE j # i
      BY <1>1, <1>2, <2>2, <3>2
    <3>. QED
      BY <3>1, <3>2
  <2>3. ASSUME NEW e \in Conns, handler[e].pc = "displace", handler[e].old = d
        PROVE  handler'[e].pc = "displace" /\ handler'[e].old = d
    BY <1>1, <1>2, <2>3
  <2>. QED
    BY <2>1, <2>2, <2>3 DEF NoLeakedConn
<1>. QED
  BY <1>3, <1>4

\* No step drops the last reference to an open connection.
LEMMA NextLeaks == IndType /\ NoLeakedConn /\ [Next]_vars => NoLeakedConn'
<1>. SUFFICES ASSUME IndType, NoLeakedConn, [Next]_vars PROVE NoLeakedConn'
  OBVIOUS
<1>0. ASSUME UNCHANGED <<link, handler, conn>> PROVE NoLeakedConn'
  BY <1>0 DEF NoLeakedConn
<1>a. /\ handler \in [Conns -> Handlers] /\ Issued \subseteq Ids
      /\ conn \in [Ids -> Conns \cup {None}]
      /\ link \in [Conns -> {"open", "lost", "closed"}]
  BY DEF IndType, TypeOK, Issued
<1>1. ASSUME NEW k \in Keys, NEW wish \in Labels \cup {None}, Create(k, wish)
      PROVE  NoLeakedConn'
  BY <1>0, <1>1 DEF Create, network
<1>2. CASE Touch
  BY <1>0, <1>2 DEF Touch, network
<1>3. ASSUME NEW c \in Conns, Tunnel(c) \/ Lose(c)
      PROVE  NoLeakedConn'
  <2>1. ASSUME NEW k \in Keys, NEW i \in Ids, Lookup(c, k, i)
        PROVE  NoLeakedConn'
    BY <2>1, <1>a DEF Lookup, NoHandler, Handlers, NoLeakedConn
  <2>2. CASE UpgradeFails(c)
    BY <2>2, <1>a DEF UpgradeFails, Handlers, NoLeakedConn
  <2>3. CASE Attach(c)
    BY <2>3, AttachLeaks
  <2>4. CASE CloseDisplaced(c)
    BY <2>4, <1>a DEF CloseDisplaced, Handlers, NoLeakedConn
  <2>5. CASE HelloSent(c)
    BY <2>5, <1>a DEF HelloSent, Handlers, NoLeakedConn
  <2>6. CASE HelloFails(c)
    <3>1. handler[c].sid \in Ids
      BY <2>6, <1>a DEF HelloFails, IndType, PointersOK
    <3>2. \A d \in Conns, j \in Ids :
             link'[d] = "open" => link[d] = "open" /\ (conn[j] = d => conn'[j] = d)
      BY <2>6, <3>1, DetachKeeps DEF HelloFails
    <3>3. /\ handler' = [handler EXCEPT ![c].pc = "done"] /\ handler[c].pc = "hello"
          /\ link[c] # "open"
      BY <2>6 DEF HelloFails
    <3>4. \A d \in Conns : d # c => handler'[d] = handler[d]
      BY <3>3, <1>a
    <3>. SUFFICES ASSUME NEW d \in Conns, link'[d] = "open",
                         handler'[d].pc \notin {"none", "upgrade"}
                  PROVE  \/ \E j \in Ids : conn'[j] = d
                         \/ \E e \in Conns : handler'[e].pc = "displace" /\ handler'[e].old = d
      BY DEF NoLeakedConn
    <3>5. d # c /\ link[d] = "open" /\ handler'[d] = handler[d]
      <4>1. d # c
        BY <3>1, <3>2, <3>3
      <4>. QED
        BY <3>1, <3>2, <3>4, <4>1
    <3>6. CASE \E j \in Ids : conn[j] = d
      BY <3>2, <3>6
    <3>7. ASSUME NEW e \in Conns, handler[e].pc = "displace", handler[e].old = d
          PROVE  handler'[e] = handler[e]
      BY <3>3, <3>4, <3>7
    <3>. QED
      BY <3>5, <3>6, <3>7 DEF NoLeakedConn
  <2>7. ASSUME NEW t \in tasks[c], TaskEnds(c, t)
        PROVE  NoLeakedConn'
    <3>1. handler[c].sid \in Ids
      BY <2>7, <1>a DEF TaskEnds, IndType, PointersOK
    <3>2. \A d \in Conns, j \in Ids :
             link'[d] = "open" => link[d] = "open" /\ (conn[j] = d => conn'[j] = d)
      BY <2>7, <3>1, DetachKeeps DEF TaskEnds
    <3>. SUFFICES ASSUME NEW d \in Conns, link'[d] = "open",
                         handler'[d].pc \notin {"none", "upgrade"}
                  PROVE  \/ \E j \in Ids : conn'[j] = d
                         \/ \E e \in Conns : handler'[e].pc = "displace" /\ handler'[e].old = d
      BY DEF NoLeakedConn
    <3>3. handler' = handler
      BY <2>7 DEF TaskEnds
    <3>4. link[d] = "open" /\ handler[d].pc \notin {"none", "upgrade"}
      BY <3>1, <3>2, <3>3
    <3>. QED
      BY <3>2, <3>3, <3>4 DEF NoLeakedConn
  <2>8. CASE Lose(c)
    BY <2>8, <1>a DEF Lose, NoLeakedConn
  <2>. QED
    BY <1>3, <2>1, <2>2, <2>3, <2>4, <2>5, <2>6, <2>7, <2>8 DEF Tunnel
<1>4. ASSUME NEW i \in Ids, DeleteDetaches(i)
      PROVE  NoLeakedConn'
  <2>1. del[i].conn \in Conns \cup {None}
    BY DEF IndType, TypeOK
  <2>2. \A d \in Conns, j \in Ids :
           link'[d] = "open" => link[d] = "open" /\ (conn[j] = d => conn'[j] = d)
    BY <1>4, <2>1, DetachKeeps DEF DeleteDetaches
  <2>. QED
    BY <1>4, <2>2 DEF DeleteDetaches, NoLeakedConn
<1>5. ASSUME NEW i \in Ids,
             \/ DeleteRemove(i) \/ DeleteReadsConn(i)
             \/ NewStream(i) \/ IdlePasses(i)
      PROVE  NoLeakedConn'
  BY <1>0, <1>5 DEF DeleteRemove, DeleteReadsConn, NewStream, IdlePasses, network
<1>6. CASE PruneIdle
  BY <1>0, <1>6 DEF PruneIdle, PruneBegin, PruneTestsConnected, PruneTestsAge,
                    PruneRemove, PruneEnd, network
<1>7. CASE Restart
  BY <1>7, <1>a DEF Restart, NoHandler, NoLeakedConn
<1>8. CASE UNCHANGED vars
  BY <1>0, <1>8 DEF vars, network
<1>. QED
  BY <1>1, <1>2, <1>3, <1>4, <1>5, <1>6, <1>7, <1>8 DEF Next, Delete

\* No socket is left open that no session has and nobody will close.
THEOREM ConnsNeverLeak == Spec => []NoLeakedConn
<1>1. Init => NoLeakedConn
  BY DEF Init, NoHandler, NoLeakedConn
<1>2. Spec => []IndType
  BY Inductive, PTL
<1>. QED
  BY <1>1, <1>2, NextLeaks, PTL DEF Spec

\* A connection goes only for a reason of its own: it is dead, its session is
\* being deleted, or the server restarts.
THEOREM StaleDetachesHarmless == Spec => StaleDetachHarmless
<1>. DEFINE Step == \A i \in Ids : conn[i] # None /\ conn'[i] = None =>
                       \/ link[conn[i]] # "open"
                       \/ del[i].pc = "detach" /\ del[i].conn = conn[i]
                       \/ Restarted
<1>1. ASSUME IndType, [Next]_vars PROVE Step
  <2>0. ASSUME UNCHANGED conn PROVE Step
    BY <2>0
  <2>1. ASSUME NEW c \in Conns, Attach(c) PROVE Step
    <3>1. conn' = [conn EXCEPT ![handler[c].sid] = c] /\ c # None
      BY <2>1, NoneAssumption DEF Attach
    <3>. QED
      BY <3>1 DEF IndType, TypeOK
  <2>2. ASSUME NEW c \in Conns, HelloFails(c) PROVE Step
    <3>1. \/ conn' = conn
          \/ conn' = [conn EXCEPT ![handler[c].sid] = None] /\ conn[handler[c].sid] = c
      BY <2>2 DEF HelloFails, Detach
    <3>2. link[c] # "open"
      BY <2>2 DEF HelloFails
    <3>3. ASSUME NEW j \in Ids, conn[j] # None, conn'[j] = None
          PROVE  link[conn[j]] # "open"
      <4>1. conn \in [Ids -> Conns \cup {None}]
        BY <1>1 DEF IndType, TypeOK
      <4>2. j = handler[c].sid
        BY <3>1, <3>3, <4>1
      <4>. QED
        BY <3>1, <3>2, <3>3, <4>2
    <3>. QED
      BY <3>3
  <2>3. ASSUME NEW c \in Conns, NEW t \in tasks[c], TaskEnds(c, t) PROVE Step
    <3>1. \/ conn' = conn
          \/ conn' = [conn EXCEPT ![handler[c].sid] = None] /\ conn[handler[c].sid] = c
      BY <2>3 DEF TaskEnds, Detach
    <3>2. link[c] # "open"
      BY <2>3 DEF TaskEnds
    <3>3. ASSUME NEW j \in Ids, conn[j] # None, conn'[j] = None
          PROVE  link[conn[j]] # "open"
      <4>1. conn \in [Ids -> Conns \cup {None}]
        BY <1>1 DEF IndType, TypeOK
      <4>2. j = handler[c].sid
        BY <3>1, <3>3, <4>1
      <4>. QED
        BY <3>1, <3>2, <3>3, <4>2
    <3>. QED
      BY <3>3
  <2>4. ASSUME NEW i \in Ids, DeleteDetaches(i) PROVE Step
    <3>1. \/ conn' = conn
          \/ conn' = [conn EXCEPT ![i] = None] /\ conn[i] = del[i].conn
      BY <2>4 DEF DeleteDetaches, Detach
    <3>2. del[i].pc = "detach"
      BY <2>4 DEF DeleteDetaches
    <3>3. ASSUME NEW j \in Ids, conn[j] # None, conn'[j] = None
          PROVE  del[j].pc = "detach" /\ del[j].conn = conn[j]
      <4>1. conn \in [Ids -> Conns \cup {None}]
        BY <1>1 DEF IndType, TypeOK
      <4>2. j = i
        BY <3>1, <3>3, <4>1
      <4>. QED
        BY <3>1, <3>2, <3>3, <4>2
    <3>. QED
      BY <3>3
  <2>5. CASE Restart
    BY <2>5 DEF Restart, Restarted, NoHandler, IndType, TypeOK
  <2>6. ASSUME ~UNCHANGED conn
        PROVE  \/ \E c \in Conns : Attach(c) \/ HelloFails(c) \/ \E t \in tasks[c] : TaskEnds(c, t)
               \/ \E i \in Ids : DeleteDetaches(i)
               \/ Restart
    BY <1>1, <2>6 DEF Next, Create, Touch, Tunnel, Lookup, UpgradeFails, CloseDisplaced,
         HelloSent, Lose, Delete, DeleteRemove, DeleteReadsConn, NewStream, IdlePasses,
         PruneIdle, PruneBegin, PruneTestsConnected, PruneTestsAge, PruneRemove, PruneEnd, vars
  <2>. QED
    BY <2>0, <2>1, <2>2, <2>3, <2>4, <2>5, <2>6
<1>2. Spec => []IndType
  BY Inductive, PTL
<1>3. IndType /\ [Next]_vars => [Step]_vars
  BY <1>1
<1>. QED
  BY <1>2, <1>3, PTL DEF Spec, StaleDetachHarmless

-----------------------------------------------------------------------------
(* Who notices that a connection is dead.                                   *)

\* The goroutines start when the handler is done.
TasksLast == \A c \in Conns : tasks[c] # {} => handler[c].pc = "done"

WatchInv == AttachedIsWatched /\ TasksLast

\* detach of a watcher takes the connection from the session it watches it for.
LEMMA WatcherDetaches ==
  ASSUME IndType, WatchInv, NEW c \in Conns, Detach(handler[c].sid, c)
  PROVE  \A i \in Ids, d \in Conns : conn'[i] = d => conn[i] = d /\ d # c
<1>. SUFFICES ASSUME NEW i \in Ids, NEW d \in Conns, conn'[i] = d
              PROVE  conn[i] = d /\ d # c
  OBVIOUS
<1>0. conn \in [Ids -> Conns \cup {None}]
  BY DEF IndType, TypeOK
<1>1. conn[i] = d
  BY <1>0, NoneAssumption DEF Detach
<1>2. d # c
  <2>. SUFFICES ASSUME d = c PROVE FALSE
    OBVIOUS
  <2>1. handler[c].sid = i
    BY <1>1 DEF WatchInv, AttachedIsWatched
  <2>. QED
    BY <1>0, <1>1, <2>1, NoneAssumption DEF Detach
<1>. QED
  BY <1>1, <1>2

\* No step leaves an attached connection without anybody to notice its end.
LEMMA NextWatch == IndType /\ WatchInv /\ [Next]_vars => WatchInv'
<1>. SUFFICES ASSUME IndType, WatchInv, [Next]_vars PROVE WatchInv'
  OBVIOUS
<1>a. /\ handler \in [Conns -> Handlers] /\ Issued \subseteq Ids
      /\ conn \in [Ids -> Conns \cup {None}]
      /\ tasks \in [Conns -> SUBSET {"keepalive", "readLoop"}]
  BY DEF IndType, TypeOK, Issued
<1>0. ASSUME UNCHANGED <<conn, handler, tasks>> PROVE WatchInv'
  BY <1>0 DEF WatchInv, AttachedIsWatched, TasksLast
<1>1. ASSUME NEW c \in Conns, NEW k \in Keys, NEW i \in Ids, Lookup(c, k, i)
      PROVE  WatchInv'
  <2>1. /\ conn' = conn /\ tasks' = tasks /\ handler[c].pc = "none"
        /\ \A d \in Conns : d # c => handler'[d] = handler[d]
    BY <1>1, <1>a DEF Lookup
  <2>. QED
    BY <2>1 DEF WatchInv, AttachedIsWatched, TasksLast
<1>2. ASSUME NEW c \in Conns, UpgradeFails(c)
      PROVE  WatchInv'
  <2>1. /\ conn' = conn /\ tasks' = tasks /\ handler[c].pc = "upgrade"
        /\ \A d \in Conns : d # c => handler'[d] = handler[d]
    BY <1>2, <1>a DEF UpgradeFails
  <2>. QED
    BY <2>1 DEF WatchInv, AttachedIsWatched, TasksLast
<1>3. ASSUME NEW c \in Conns, Attach(c)
      PROVE  WatchInv'
  <2>. DEFINE i == handler[c].sid
  <2>1. /\ i \in Ids /\ handler[c].pc = "upgrade" /\ tasks' = tasks
        /\ handler'[c].sid = i /\ handler'[c].pc \in {"displace", "hello"}
        /\ \A d \in Conns : d # c => handler'[d] = handler[d]
        /\ conn'[i] = c
        /\ \A j \in Ids : j # i => conn'[j] = conn[j]
    BY <1>3, <1>a DEF Attach, IndType, PointersOK
  <2>2. \A j \in Ids : conn[j] # c
    BY <2>1 DEF WatchInv, AttachedIsWatched
  <2>. HIDE DEF i
  <2>. QED
    BY <2>1, <2>2 DEF WatchInv, AttachedIsWatched, TasksLast
<1>4. ASSUME NEW c \in Conns, CloseDisplaced(c)
      PROVE  WatchInv'
  <2>1. /\ conn' = conn /\ tasks' = tasks /\ handler[c].pc = "displace"
        /\ handler'[c].sid = handler[c].sid /\ handler'[c].pc = "hello"
        /\ \A d \in Conns : d # c => handler'[d] = handler[d]
    BY <1>4, <1>a DEF CloseDisplaced, Handlers
  <2>. QED
    BY <2>1 DEF WatchInv, AttachedIsWatched, TasksLast
<1>5. ASSUME NEW c \in Conns, HelloSent(c)
      PROVE  WatchInv'
  <2>1. /\ conn' = conn /\ tasks'[c] # {}
        /\ handler'[c].sid = handler[c].sid /\ handler'[c].pc = "done"
        /\ \A d \in Conns : d # c => handler'[d] = handler[d] /\ tasks'[d] = tasks[d]
    BY <1>5, <1>a DEF HelloSent, Handlers
  <2>. QED
    BY <2>1 DEF WatchInv, AttachedIsWatched, TasksLast
<1>6. ASSUME NEW c \in Conns, HelloFails(c)
      PROVE  WatchInv'
  <2>1. /\ tasks' = tasks /\ handler'[c].pc = "done"
        /\ \A d \in Conns : d # c => handler'[d] = handler[d]
    BY <1>6, <1>a DEF HelloFails, Handlers
  <2>2. \A i \in Ids, d \in Conns : conn'[i] = d => conn[i] = d /\ d # c
    BY <1>6, WatcherDetaches DEF HelloFails
  <2>. QED
    BY <2>1, <2>2 DEF WatchInv, AttachedIsWatched, TasksLast
<1>7. ASSUME NEW c \in Conns, NEW t \in tasks[c], TaskEnds(c, t)
      PROVE  WatchInv'
  <2>1. /\ handler' = handler /\ tasks'[c] \subseteq tasks[c]
        /\ \A d \in Conns : d # c => tasks'[d] = tasks[d]
    BY <1>7, <1>a DEF TaskEnds
  <2>2. \A i \in Ids, d \in Conns : conn'[i] = d => conn[i] = d /\ d # c
    BY <1>7, WatcherDetaches DEF TaskEnds
  <2>. QED
    BY <2>1, <2>2 DEF WatchInv, AttachedIsWatched, TasksLast
<1>8. ASSUME NEW i \in Ids, DeleteDetaches(i)
      PROVE  WatchInv'
  <2>1. handler' = handler /\ tasks' = tasks
    BY <1>8 DEF DeleteDetaches
  <2>2. \A j \in Ids, d \in Conns : conn'[j] = d => conn[j] = d
    BY <1>8, <1>a, NoneAssumption DEF DeleteDetaches, Detach
  <2>. QED
    BY <2>1, <2>2 DEF WatchInv, AttachedIsWatched, TasksLast
<1>9. CASE Restart
  <2>1. \A j \in Ids : conn'[j] = None
    BY <1>9 DEF Restart
  <2>2. \A d \in Conns : tasks'[d] = {}
    BY <1>9 DEF Restart
  <2>. QED
    BY <2>1, <2>2, NoneAssumption DEF WatchInv, AttachedIsWatched, TasksLast
<1>10. ASSUME NEW c \in Conns, Lose(c)
       PROVE  UNCHANGED <<conn, handler, tasks>>
  BY <1>10 DEF Lose
<1>11. ASSUME NEW i \in Ids,
              \/ DeleteRemove(i) \/ DeleteReadsConn(i)
              \/ NewStream(i) \/ IdlePasses(i)
       PROVE  UNCHANGED <<conn, handler, tasks>>
  BY <1>11 DEF DeleteRemove, DeleteReadsConn, NewStream, IdlePasses, network
<1>12. ASSUME \/ PruneIdle \/ Touch
              \/ \E k \in Keys, wish \in Labels \cup {None} : Create(k, wish)
              \/ UNCHANGED vars
       PROVE  UNCHANGED <<conn, handler, tasks>>
  BY <1>12 DEF PruneIdle, PruneBegin, PruneTestsConnected, PruneTestsAge, PruneRemove,
               PruneEnd, Touch, Create, vars, network
<1>. QED
  BY <1>0, <1>1, <1>2, <1>3, <1>4, <1>5, <1>6, <1>7, <1>8, <1>9, <1>10, <1>11, <1>12
     DEF Next, Tunnel, Delete

\* Whatever is attached, displaced, deleted and restarted, an attached
\* connection has somebody who will detach it when it is dead: the part of
\* DeadConnDetached that does not depend on the scheduling.
THEOREM AlwaysWatched == Spec => []AttachedIsWatched
<1>1. Init => WatchInv
  BY NoneAssumption DEF Init, WatchInv, AttachedIsWatched, TasksLast
<1>2. WatchInv => AttachedIsWatched
  BY DEF WatchInv
<1>3. Spec => []IndType
  BY Inductive, PTL
<1>. QED
  BY <1>1, <1>2, <1>3, NextWatch, PTL DEF Spec
=============================================================================
