------------------------ MODULE ClientIdentityProofs ------------------------
(***************************************************************************)
(* What holds of the URLs of any number of clients, with any keys, pins and *)
(* wishes, after any number of faults.  Liveness is not proved.             *)
(***************************************************************************)
EXTENDS ClientIdentity, TLAPS

InUse(l, i) == holder[l] # None /\ holder[l].id = i

\* An id is in use once, and only ids that were issued are.
Registry ==
    /\ Shared \in spent
    /\ \A l \in Labels : holder[l] # None => holder[l].id \in spent
    /\ \A l, m \in Labels : \A i \in Ids : InUse(l, i) /\ InUse(m, i) => l = m

\* A label that somebody asks for is held by the key of one who does.
AskedFor ==
    \A l \in Labels : holder[l] # None =>
        l \in Random \/ \E c \in Clients : Wish[c] = l /\ KeyOf[c] = holder[l].key

\* A session that a client was told of is the one of its label, or is gone.
Told(t) == t # None => t.id \in spent /\ \A l \in Labels : InUse(l, t.id) => l = t.label

AtTunnel == {"dial", "upgrade", "up"}

\* What a client knows, in memory and on file.
KnowsOK(c) ==
    /\ opts[c] \in spent \cup {None} /\ file[c] \in spent \cup {None}
    /\ Told(tunnel[c]) /\ Told(url[c])
    /\ pc[c] = "save" => tunnel[c] # None /\ tunnel[c].id # opts[c]
    /\ pc[c] \in AtTunnel => tunnel[c] # None /\ tunnel[c].id = opts[c]
    /\ unsaved[c] = "no" /\ pc[c] # "stopped" => opts[c] = file[c]

\* A client whose last session still exists, and which has not lost its id in
\* a restart, is at that session or on its way to it.
Keeps(c) ==
    url[c] # None /\ HeldBy(c, url[c].id) /\ unsaved[c] # "lost" =>
        /\ pc[c] # "stopped" => opts[c] = url[c].id
        /\ unsaved[c] = "no" => file[c] = url[c].id
        /\ pc[c] # "save"
        /\ pc[c] \in AtTunnel => tunnel[c] = url[c]

\* Only clients of one key ask for the label of c.
Sole(c) == Wish[c] # None /\ \A d \in Clients : Wish[d] = Wish[c] => KeyOf[d] = KeyOf[c]

\* A session of the client's own has the label it asks for.
OwnId(c, i) == i # Shared => \A l \in Labels : InUse(l, i) => l = Wish[c]
OwnTunnel(c, t) == t # None => t.id = Shared \/ t.label = Wish[c]
Own(c) == Sole(c) => /\ OwnId(c, opts[c]) /\ OwnId(c, file[c])
                     /\ OwnTunnel(c, tunnel[c]) /\ OwnTunnel(c, url[c])

ClientOK(c) == KnowsOK(c) /\ Keeps(c) /\ Own(c)

\* The part of TypeOK that is about connections.
AttachingOK ==
    /\ conn \in [Ids -> Clients \cup {None, Dead}]
    /\ due \subseteq Clients
    /\ late \in [Ids -> Nat]

IInv ==
    /\ TypeOK
    /\ Registry
    /\ AskedFor
    /\ \A c \in Clients : ClientOK(c)

-----------------------------------------------------------------------------
LEMMA Names ==
    ASSUME TypeOK
    PROVE  /\ \A c \in Clients : KeyOf[c] \in Keys /\ Wish[c] \in Labels \cup {None}
           /\ Shared \in Ids /\ None \notin Ids /\ None \notin Labels /\ None \notin Clients
           /\ \A l \in Labels : holder[l] # None =>
                 holder[l].key \in Keys /\ holder[l].id \in Ids
                 /\ holder[l] = [key |-> holder[l].key, id |-> holder[l].id]
           /\ \A k \in Keys, i \in Ids : [key |-> k, id |-> i] # None
           /\ \A c \in Clients : tunnel[c] # None =>
                 tunnel[c] \in Tunnels /\ tunnel[c].id \in Ids /\ tunnel[c].label \in Labels
           /\ \A c \in Clients : url[c] # None =>
                 url[c] \in Tunnels /\ url[c].id \in Ids /\ url[c].label \in Labels
<1>1. ASSUME NEW l \in Labels, holder[l] # None
      PROVE  /\ holder[l].key \in Keys /\ holder[l].id \in Ids
             /\ holder[l] = [key |-> holder[l].key, id |-> holder[l].id]
  <2>1. holder[l] \in [key : Keys, id : Ids]
    BY <1>1 DEF TypeOK
  <2> QED BY <2>1
<1>2. ASSUME NEW c \in Clients
      PROVE  /\ tunnel[c] # None =>
                 tunnel[c] \in Tunnels /\ tunnel[c].id \in Ids /\ tunnel[c].label \in Labels
             /\ url[c] # None =>
                 url[c] \in Tunnels /\ url[c].id \in Ids /\ url[c].label \in Labels
  <2>1. tunnel[c] \in Tunnels \cup {None} /\ url[c] \in Tunnels \cup {None}
    BY DEF TypeOK
  <2>2. \A t \in Tunnels : t.id \in Ids /\ t.label \in Labels
    BY DEF Tunnels
  <2> QED BY <2>1, <2>2
<1> QED BY <1>1, <1>2, ClientsAssumption, NoneAssumption

LEMMA HeldMeans ==
    ASSUME TypeOK, NEW c \in Clients, NEW i \in Ids \cup {None}
    PROVE  HeldBy(c, i) <=> \E l \in Labels : InUse(l, i) /\ holder[l].key = KeyOf[c]
<1>1. ASSUME NEW l \in Labels, holder[l] = [key |-> KeyOf[c], id |-> i]
      PROVE  InUse(l, i) /\ holder[l].key = KeyOf[c]
  <2>1. holder[l] # None
    <3>1. holder[l] \in [key : Keys, id : Ids \cup {None}]
      BY <1>1, Names
    <3> QED BY <3>1, NoneAssumption
  <2> QED BY <1>1, <2>1 DEF InUse
<1>2. ASSUME NEW l \in Labels, InUse(l, i), holder[l].key = KeyOf[c]
      PROVE  holder[l] = [key |-> KeyOf[c], id |-> i]
  BY <1>2, Names DEF InUse
<1> QED BY <1>1, <1>2 DEF HeldBy

LEMMA InitOK == Init => IInv
<1> SUFFICES ASSUME Init PROVE IInv
  OBVIOUS
<1>1. \/ \A l \in Labels : holder[l] = None
      \/ \E c \in Clients, n \in Labels :
            /\ n = Wish[c] \/ (Wish[c] = None /\ n \in Random)
            /\ \A l \in Labels : holder[l] =
                  IF l = n THEN [key |-> KeyOf[c], id |-> Shared] ELSE None
  BY DEF Init
<1>2. holder \in [Labels -> [key : Keys, id : Ids] \cup {None}]
  BY ClientsAssumption DEF Init
<1>3. TypeOK
  BY <1>2, ClientsAssumption, MaxFaultsAssumption DEF Init, TypeOK
<1>4. \A l \in Labels : holder[l] # None =>
         /\ holder[l].id = Shared
         /\ \E c \in Clients : holder[l].key = KeyOf[c] /\ (l = Wish[c] \/ l \in Random)
  <2> SUFFICES ASSUME NEW l \in Labels, holder[l] # None
               PROVE  /\ holder[l].id = Shared
                      /\ \E c \in Clients : holder[l].key = KeyOf[c] /\ (l = Wish[c] \/ l \in Random)
    OBVIOUS
  <2>1. PICK c \in Clients, n \in Labels :
            /\ n = Wish[c] \/ n \in Random
            /\ holder[l] = IF l = n THEN [key |-> KeyOf[c], id |-> Shared] ELSE None
    BY <1>1
  <2>2. l = n /\ holder[l] = [key |-> KeyOf[c], id |-> Shared]
    BY <2>1
  <2> QED BY <2>1, <2>2
<1>5. \A l, m \in Labels : holder[l] # None /\ holder[m] # None => l = m
  BY <1>1
<1>6. Registry
  BY <1>4, <1>5 DEF Init, Registry, InUse
<1>7. AskedFor
  BY <1>4 DEF AskedFor
<1>8. ASSUME NEW c \in Clients PROVE ClientOK(c)
  <2>1. /\ opts[c] = None /\ tunnel[c] = None /\ url[c] = None /\ pc[c] = "stopped"
        /\ file[c] = None \/ file[c] = Shared
        /\ spent = {Shared}
    BY DEF Init
  <2>2. KnowsOK(c)
    BY <2>1 DEF KnowsOK, Told, AtTunnel
  <2>3. Keeps(c)
    BY <2>1 DEF Keeps
  <2>4. \A l \in Labels : ~InUse(l, None)
    BY <1>3, Names DEF InUse
  <2>5. Own(c)
    BY <2>1, <2>4 DEF Own, OwnId, OwnTunnel
  <2> QED BY <2>2, <2>3, <2>5 DEF ClientOK
<1> QED BY <1>3, <1>6, <1>7, <1>8 DEF IInv

LEMMA AttachingSteps == ASSUME TypeOK, [Next]_vars PROVE AttachingOK'
<1> USE DEF AttachingOK
<1>1. AttachingOK
  BY DEF TypeOK
<1>2. CASE UNCHANGED attaching
  BY <1>1, <1>2 DEF attaching
<1>3. ASSUME NEW c \in Clients, Dial(c) PROVE AttachingOK'
  BY <1>1, <1>3 DEF Dial
<1>4. ASSUME NEW c \in Clients, Attach(c) PROVE AttachingOK'
  BY <1>1, <1>4 DEF Attach
<1>5. ASSUME NEW c \in Clients, LinkLost(c) \/ Stop(c) PROVE AttachingOK'
  BY <1>1, <1>5 DEF LinkLost, Stop, Cut
<1>6. ASSUME NEW i \in Ids, LateAttach(i) PROVE AttachingOK'
  BY <1>1, <1>6 DEF LateAttach
<1>7. ASSUME NEW i \in Ids, Noticed(i) PROVE AttachingOK'
  BY <1>1, <1>7 DEF Noticed
<1>8. CASE RestartServer
  BY <1>8 DEF RestartServer
<1>9. ASSUME NEW l \in Labels, Remove(l) PROVE AttachingOK'
  BY <1>1, <1>9 DEF Remove
<1> QED BY <1>2, <1>3, <1>4, <1>5, <1>6, <1>7, <1>8, <1>9
        DEF Next, Start, Resume, Create, Save, Up, Dropped, vars

\* The registry has gone on: labels were freed or given to new sessions.
GoesOn ==
    /\ spent \subseteq spent'
    /\ \A l \in Labels : holder'[l] # None =>
          holder'[l] = holder[l] \/ holder'[l].id \notin spent

\* What is in use after such a step, of the ids there were, was before.
LEMMA StillInUse ==
    ASSUME GoesOn, NEW l \in Labels, NEW i \in spent, InUse(l, i)'
    PROVE  InUse(l, i) /\ holder'[l] = holder[l]
BY DEF GoesOn, InUse

LEMMA StillHeld ==
    ASSUME TypeOK, TypeOK', GoesOn, NEW c \in Clients, NEW i \in spent, HeldBy(c, i)'
    PROVE  HeldBy(c, i)
<1>1. i \in Ids
  BY DEF TypeOK
<1>2. PICK l \in Labels : holder'[l] = [key |-> KeyOf[c], id |-> i]
  BY DEF HeldBy
<1>3. [key |-> KeyOf[c], id |-> i] # None
  BY <1>1, Names
<1>4. holder'[l] = holder[l]
  BY <1>2, <1>3 DEF GoesOn
<1> QED BY <1>2, <1>4 DEF HeldBy

LEMMA StillTold ==
    ASSUME GoesOn, NEW t, Told(t)
    PROVE  t # None => t.id \in spent' /\ \A l \in Labels : InUse(l, t.id)' => l = t.label
BY StillInUse DEF Told, GoesOn

LEMMA StillOwn ==
    ASSUME IInv, TypeOK', GoesOn, NEW c \in Clients, NEW i \in spent \cup {None}, OwnId(c, i)
    PROVE  i # Shared => \A l \in Labels : InUse(l, i)' => l = Wish[c]
<1>1. \A l \in Labels : ~InUse(l, None)'
  <2> SUFFICES ASSUME NEW l \in Labels, holder'[l] # None PROVE holder'[l].id # None
    BY DEF InUse
  <2>1. holder'[l] \in [key : Keys, id : Ids]
    BY DEF TypeOK
  <2> QED BY <2>1, NoneAssumption
<1>2. CASE i = None
  BY <1>1, <1>2
<1>3. CASE i \in spent
  BY <1>3, StillInUse DEF OwnId
<1> QED BY <1>2, <1>3

\* Such a step is nothing to a client that goes on, gives up its tunnel, or
\* stops with its file as it is.
LEMMA OthersOK ==
    ASSUME IInv, TypeOK', GoesOn, NEW c \in Clients,
           opts'[c] = opts[c], tunnel'[c] = tunnel[c], file'[c] = file[c],
           url'[c] = url[c], unsaved'[c] = unsaved[c],
           \/ pc'[c] = pc[c]
           \/ pc[c] # "stopped" /\ pc'[c] = "register"
           \/ pc'[c] = "stopped"
    PROVE  ClientOK(c)'
<1> USE DEF IInv
<1>0. ClientOK(c) /\ TypeOK
  OBVIOUS
<1>2. KnowsOK(c)'
  <2>1. Told(tunnel[c]) /\ Told(url[c])
    BY <1>0 DEF ClientOK, KnowsOK
  <2>2. Told(tunnel[c])' /\ Told(url[c])'
    BY <2>1, StillTold DEF Told
  <2> QED BY <1>0, <2>2 DEF ClientOK, KnowsOK, GoesOn, AtTunnel, Told
<1>3. Keeps(c)'
  <2> SUFFICES ASSUME url[c] # None, HeldBy(c, url[c].id)', unsaved[c] # "lost"
               PROVE  /\ pc'[c] # "stopped" => opts[c] = url[c].id
                      /\ unsaved[c] = "no" => file[c] = url[c].id
                      /\ pc'[c] # "save"
                      /\ pc'[c] \in AtTunnel => tunnel[c] = url[c]
    BY DEF Keeps, HeldBy
  <2>1. url[c].id \in spent
    BY <1>0 DEF ClientOK, KnowsOK, Told
  <2>2. HeldBy(c, url[c].id)
    BY <1>0, <2>1, StillHeld
  <2> QED BY <1>0, <2>2 DEF ClientOK, Keeps, AtTunnel
<1>4. Own(c)'
  <2> SUFFICES ASSUME Sole(c) PROVE Own(c)'
    BY DEF Own, Sole
  <2>2. OwnId(c, opts[c])' /\ OwnId(c, file[c])'
    <3>1. OwnId(c, opts[c]) /\ OwnId(c, file[c])
      BY <1>0 DEF ClientOK, Own
    <3>2. opts[c] \in spent \cup {None} /\ file[c] \in spent \cup {None}
      BY <1>0 DEF ClientOK, KnowsOK
    <3> QED BY <3>1, <3>2, StillOwn DEF OwnId
  <2> QED BY <1>0, <2>2 DEF ClientOK, Own, OwnTunnel
<1> QED BY <1>2, <1>3, <1>4 DEF ClientOK

-----------------------------------------------------------------------------
(* Steps of one client that leave the registry alone.                       *)

LEMMA OneMoves ==
    ASSUME IInv, TypeOK', UNCHANGED directory, NEW c \in Clients, ClientOK(c)',
           \A d \in Clients : d # c =>
              /\ opts'[d] = opts[d] /\ tunnel'[d] = tunnel[d] /\ file'[d] = file[d]
              /\ url'[d] = url[d] /\ unsaved'[d] = unsaved[d] /\ pc'[d] = pc[d]
    PROVE  IInv'
<1>1. GoesOn
  BY DEF GoesOn, directory
<1>2. Registry' /\ AskedFor'
  BY DEF IInv, Registry, AskedFor, InUse, directory
<1>3. \A d \in Clients : ClientOK(d)'
  BY <1>1, OthersOK
<1> QED BY <1>2, <1>3 DEF IInv

LEMMA StartOK == ASSUME IInv, AttachingOK', NEW c \in Clients, Start(c) PROVE IInv'
<1>1. ClientOK(c) /\ TypeOK
  BY DEF IInv
<1>2. /\ pc[c] = "stopped"
      /\ pc' = [pc EXCEPT ![c] = "register"]
      /\ opts' = [opts EXCEPT ![c] = file[c]]
      /\ unsaved' = [unsaved EXCEPT ![c] = IF @ = "no" THEN @ ELSE "lost"]
      /\ UNCHANGED <<directory, attaching, tunnel, file, url, faults>>
  BY DEF Start
<1>3. TypeOK'
  BY <1>1, <1>2 DEF TypeOK, AttachingOK, directory
<1>4. /\ pc'[c] = "register" /\ opts'[c] = file[c]
      /\ unsaved'[c] = "lost" \/ (unsaved'[c] = "no" /\ unsaved[c] = "no")
  BY <1>1, <1>2 DEF TypeOK
<1>5. ClientOK(c)'
  <2>1. KnowsOK(c)'
    BY <1>1, <1>2, <1>4 DEF ClientOK, KnowsOK, Told, InUse, AtTunnel, directory
  <2>2. Keeps(c)'
    BY <1>1, <1>2, <1>4 DEF ClientOK, Keeps, HeldBy, AtTunnel, directory
  <2>3. Own(c)'
    BY <1>1, <1>2, <1>4 DEF ClientOK, Own, Sole, OwnId, OwnTunnel, InUse, directory
  <2> QED BY <2>1, <2>2, <2>3 DEF ClientOK
<1>6. \A d \in Clients : d # c =>
         opts'[d] = opts[d] /\ pc'[d] = pc[d] /\ unsaved'[d] = unsaved[d]
  BY <1>1, <1>2 DEF TypeOK
<1> QED BY <1>2, <1>3, <1>5, <1>6, OneMoves

LEMMA ResumeOK == ASSUME IInv, AttachingOK', NEW c \in Clients, Resume(c) PROVE IInv'
<1> DEFINE i == opts[c]
           l == LabelOf(i)
           t == [id |-> i, label |-> l]
<1>1. ClientOK(c) /\ TypeOK /\ Registry
  BY DEF IInv
<1>2. /\ pc[c] = "register" /\ HeldBy(c, i)
      /\ tunnel' = [tunnel EXCEPT ![c] = t]
      /\ pc' = [pc EXCEPT ![c] = "dial"]
      /\ UNCHANGED <<directory, opts, file, url, unsaved, faults>>
  BY DEF Resume, Answered
<1>3. l \in Labels /\ InUse(l, i)
  <2>1. i \in Ids \cup {None}
    BY <1>1 DEF TypeOK
  <2>2. \E m \in Labels : holder[m] # None /\ holder[m].id = i
    BY <1>1, <1>2, <2>1, HeldMeans DEF InUse
  <2> QED BY <2>2 DEF LabelOf, InUse
<1> HIDE DEF l
<1>4. i \in Ids /\ i \in spent /\ i # None
  <2>1. holder[l] # None /\ holder[l].id = i
    BY <1>3 DEF InUse
  <2>2. holder[l].id \in Ids /\ holder[l].id \in spent /\ None \notin Ids
    BY <1>1, <1>3, <2>1, Names DEF Registry
  <2> QED BY <2>1, <2>2
<1>5. t \in Tunnels /\ t # None /\ t.id = i /\ t.label = l
  BY <1>3, <1>4, NoneAssumption DEF Tunnels
<1>6. Told(t)
  BY <1>1, <1>3, <1>4, <1>5 DEF Told, Registry
<1> HIDE DEF t, i
<1>7. TypeOK'
  BY <1>1, <1>2, <1>5 DEF TypeOK, AttachingOK, directory
<1>8. pc'[c] = "dial" /\ tunnel'[c] = t
  BY <1>1, <1>2 DEF TypeOK
<1>9. ClientOK(c)'
  <2>1. KnowsOK(c)'
    BY <1>1, <1>2, <1>5, <1>6, <1>8 DEF ClientOK, KnowsOK, Told, InUse, AtTunnel, directory, i
  <2>2. Keeps(c)'
    <3> SUFFICES ASSUME url[c] # None, HeldBy(c, url[c].id), unsaved[c] # "lost"
                 PROVE  /\ opts[c] = url[c].id /\ t = url[c]
                        /\ unsaved[c] = "no" => file[c] = url[c].id
      BY <1>2, <1>8 DEF Keeps, HeldBy, directory
    <3>1. i = url[c].id /\ (unsaved[c] = "no" => file[c] = url[c].id)
      BY <1>1, <1>2 DEF ClientOK, Keeps, i
    <3>2. l = url[c].label
      BY <1>1, <1>3, <3>1 DEF ClientOK, KnowsOK, Told
    <3>3. url[c] = [id |-> url[c].id, label |-> url[c].label]
      BY <1>1, Names DEF Tunnels
    <3> QED BY <3>1, <3>2, <3>3 DEF t, i
  <2>3. Own(c)'
    <3>1. Sole(c) => OwnTunnel(c, t)
      BY <1>1, <1>3, <1>5 DEF ClientOK, Own, OwnId, OwnTunnel, i
    <3> QED BY <1>1, <1>2, <1>8, <3>1
            DEF ClientOK, Own, Sole, OwnId, OwnTunnel, InUse, directory
  <2> QED BY <2>1, <2>2, <2>3 DEF ClientOK
<1>10. \A d \in Clients : d # c => tunnel'[d] = tunnel[d] /\ pc'[d] = pc[d]
  BY <1>1, <1>2 DEF TypeOK
<1> QED BY <1>2, <1>7, <1>9, <1>10, OneMoves

LEMMA SaveOK == ASSUME IInv, AttachingOK', NEW c \in Clients, Save(c) PROVE IInv'
<1> DEFINE i == tunnel[c].id
<1>1. ClientOK(c) /\ TypeOK
  BY DEF IInv
<1>2. /\ pc[c] = "save"
      /\ pc' = [pc EXCEPT ![c] = "dial"]
      /\ opts' = [opts EXCEPT ![c] = i]
      /\ UNCHANGED <<directory, tunnel, url>>
  BY DEF Save
<1>3. tunnel[c] # None /\ i \in Ids /\ i \in spent
  BY <1>1, <1>2, Names DEF ClientOK, KnowsOK, Told
<1> HIDE DEF i
<1>4. \/ /\ file' = [file EXCEPT ![c] = i]
         /\ unsaved' = [unsaved EXCEPT ![c] = IF @ = "lost" THEN @ ELSE "no"]
         /\ UNCHANGED faults
      \/ /\ faults < MaxFaults /\ faults' = faults + 1
         /\ file' = [file EXCEPT ![c] = file'[c]] /\ file'[c] \in {None, file[c]}
         /\ unsaved' = [unsaved EXCEPT ![c] = IF @ = "lost" THEN @ ELSE "memory"]
  <2>1. CASE c \in InPlace
    BY <1>1, <2>1 DEF Save, Written, Fault, TypeOK, i
  <2>2. CASE c \notin InPlace
    BY <1>1, <2>2 DEF Save, Written, Fault, TypeOK, i
  <2> QED BY <2>1, <2>2
<1>5. TypeOK'
  <2>1. /\ file' \in [Clients -> Ids \cup {None}]
        /\ unsaved' \in [Clients -> {"no", "memory", "lost"}]
    BY <1>1, <1>3, <1>4 DEF TypeOK
  <2>2. faults' \in 0 .. MaxFaults
    BY <1>1, <1>4, MaxFaultsAssumption DEF TypeOK
  <2> QED BY <1>1, <1>2, <1>3, <2>1, <2>2 DEF TypeOK, AttachingOK, directory
<1>6. /\ pc'[c] = "dial" /\ opts'[c] = i
      /\ unsaved'[c] = "lost" <=> unsaved[c] = "lost"
      /\ file'[c] = i \/ (file'[c] \in {None, file[c]} /\ unsaved'[c] # "no")
  BY <1>1, <1>2, <1>4 DEF TypeOK
<1>7. ClientOK(c)'
  <2>1. KnowsOK(c)'
    BY <1>1, <1>2, <1>3, <1>6 DEF ClientOK, KnowsOK, Told, InUse, AtTunnel, directory, i
  <2>2. Keeps(c)'
    BY <1>1, <1>2, <1>6 DEF ClientOK, Keeps, HeldBy, directory
  <2>3. Own(c)'
    <3> SUFFICES ASSUME Sole(c) PROVE Own(c)'
      BY DEF Own, Sole
    <3>1. OwnId(c, i)
      BY <1>1, <1>3 DEF ClientOK, Own, OwnId, OwnTunnel, KnowsOK, Told, i
    <3>2. OwnId(c, None)
      BY <1>1, Names DEF OwnId, InUse
    <3>3. OwnId(c, file'[c])
      BY <1>1, <1>6, <3>1, <3>2 DEF ClientOK, Own
    <3> QED BY <1>1, <1>2, <1>6, <3>1, <3>3
            DEF ClientOK, Own, Sole, OwnId, OwnTunnel, InUse, directory
  <2> QED BY <2>1, <2>2, <2>3 DEF ClientOK
<1>8. \A d \in Clients : d # c => /\ opts'[d] = opts[d] /\ file'[d] = file[d]
                                 /\ unsaved'[d] = unsaved[d] /\ pc'[d] = pc[d]
  BY <1>1, <1>2, <1>4 DEF TypeOK
<1> QED BY <1>2, <1>5, <1>7, <1>8, OneMoves

LEMMA DialOK == ASSUME IInv, AttachingOK', NEW c \in Clients, Dial(c) PROVE IInv'
<1>1. ClientOK(c) /\ TypeOK
  BY DEF IInv
<1>2. /\ pc[c] = "dial"
      /\ pc' = [pc EXCEPT ![c] = pc'[c]] /\ pc'[c] \in {"upgrade", "register"}
      /\ UNCHANGED <<directory, opts, tunnel, file, url, unsaved, faults>>
  BY <1>1 DEF Dial, TypeOK
<1>3. TypeOK'
  BY <1>1, <1>2 DEF TypeOK, AttachingOK, directory
<1>4. ClientOK(c)'
  <2>1. KnowsOK(c)'
    BY <1>1, <1>2 DEF ClientOK, KnowsOK, Told, InUse, AtTunnel, directory
  <2>2. Keeps(c)'
    BY <1>1, <1>2 DEF ClientOK, Keeps, HeldBy, AtTunnel, directory
  <2>3. Own(c)'
    BY <1>1, <1>2 DEF ClientOK, Own, Sole, OwnId, OwnTunnel, InUse, directory
  <2> QED BY <2>1, <2>2, <2>3 DEF ClientOK
<1>5. \A d \in Clients : d # c => pc'[d] = pc[d]
  BY <1>1, <1>2 DEF TypeOK
<1> QED BY <1>2, <1>3, <1>4, <1>5, OneMoves

LEMMA UpOK == ASSUME IInv, AttachingOK', NEW c \in Clients, Up(c) PROVE IInv'
<1> DEFINE t == tunnel[c]
<1>1. ClientOK(c) /\ TypeOK
  BY DEF IInv
<1>2. /\ pc[c] = "upgrade"
      /\ pc' = [pc EXCEPT ![c] = "up"]
      /\ url' = [url EXCEPT ![c] = t]
      /\ unsaved' = [unsaved EXCEPT ![c] =
                        IF @ # "lost" THEN @ ELSE IF file[c] = opts[c] THEN "no" ELSE "memory"]
      /\ UNCHANGED <<directory, opts, tunnel, file, faults>>
  BY DEF Up
<1>3. t # None /\ t \in Tunnels /\ t.id \in Ids /\ t.id = opts[c]
  BY <1>1, <1>2, Names DEF ClientOK, KnowsOK, AtTunnel
<1>4. TypeOK'
  <2>1. unsaved' \in [Clients -> {"no", "memory", "lost"}]
    BY <1>1, <1>2 DEF TypeOK
  <2> QED BY <1>1, <1>2, <1>3, <2>1 DEF TypeOK, AttachingOK, directory
<1>5. /\ pc'[c] = "up" /\ url'[c] = t
      /\ unsaved'[c] = "no" => unsaved[c] = "no" \/ file[c] = opts[c]
  BY <1>1, <1>2 DEF TypeOK
<1>6. unsaved'[c] = "no" => file[c] = t.id /\ opts[c] = file[c]
  BY <1>1, <1>2, <1>3, <1>5 DEF ClientOK, KnowsOK
<1>7. ClientOK(c)'
  <2>1. KnowsOK(c)'
    BY <1>1, <1>2, <1>3, <1>5, <1>6 DEF ClientOK, KnowsOK, Told, InUse, AtTunnel, directory
  <2>2. Keeps(c)'
    BY <1>2, <1>3, <1>5, <1>6 DEF Keeps
  <2>3. Own(c)'
    BY <1>1, <1>2, <1>5 DEF ClientOK, Own, Sole, OwnId, OwnTunnel, InUse, directory
  <2> QED BY <2>1, <2>2, <2>3 DEF ClientOK
<1>8. \A d \in Clients : d # c =>
         pc'[d] = pc[d] /\ url'[d] = url[d] /\ unsaved'[d] = unsaved[d]
  BY <1>1, <1>2 DEF TypeOK
<1> QED BY <1>2, <1>4, <1>7, <1>8, OneMoves

LEMMA StopOK == ASSUME IInv, AttachingOK', NEW c \in Clients, Stop(c) PROVE IInv'
<1>1. ClientOK(c) /\ TypeOK
  BY DEF IInv
<1>2. /\ pc' = [pc EXCEPT ![c] = "stopped"]
      /\ file' = [file EXCEPT ![c] = file'[c]]
      /\ file'[c] = file[c] \/ (file'[c] = None /\ pc[c] = "save")
      /\ faults < MaxFaults /\ faults' = faults + 1
      /\ UNCHANGED <<directory, opts, tunnel, url, unsaved>>
  BY <1>1 DEF Stop, Fault, TypeOK
<1>3. TypeOK'
  BY <1>1, <1>2, MaxFaultsAssumption DEF TypeOK, AttachingOK, directory
<1>4. pc'[c] = "stopped"
  BY <1>1, <1>2 DEF TypeOK
<1>5. ClientOK(c)'
  <2>1. KnowsOK(c)'
    BY <1>1, <1>2, <1>4 DEF ClientOK, KnowsOK, Told, InUse, AtTunnel, directory
  <2>2. Keeps(c)'
    BY <1>1, <1>2, <1>4 DEF ClientOK, Keeps, HeldBy, AtTunnel, directory
  <2>3. Own(c)'
    <3>1. OwnId(c, None)
      BY <1>1, Names DEF OwnId, InUse
    <3> QED BY <1>1, <1>2, <3>1 DEF ClientOK, Own, Sole, OwnId, OwnTunnel, InUse, directory
  <2> QED BY <2>1, <2>2, <2>3 DEF ClientOK
<1>6. \A d \in Clients : d # c => pc'[d] = pc[d] /\ file'[d] = file[d]
  BY <1>1, <1>2 DEF TypeOK
<1> QED BY <1>2, <1>3, <1>5, <1>6, OneMoves

-----------------------------------------------------------------------------
(* Steps that touch no client but by ending its connection.                 *)

LEMMA BystandersOK ==
    ASSUME IInv, TypeOK', GoesOn, Registry', AskedFor',
           UNCHANGED <<opts, tunnel, file, url, unsaved>>,
           \A c \in Clients : pc'[c] = pc[c] \/ (pc[c] # "stopped" /\ pc'[c] = "register")
    PROVE  IInv'
<1>1. \A c \in Clients : ClientOK(c)'
  BY OthersOK
<1> QED BY <1>1 DEF IInv

LEMMA LostOK ==
    ASSUME IInv, AttachingOK',
           \/ \E c \in Clients : Attach(c) \/ Dropped(c) \/ LinkLost(c)
           \/ \E i \in Ids : LateAttach(i) \/ Noticed(i)
           \/ RestartServer
    PROVE  IInv'
<1>1. TypeOK
  BY DEF IInv
<1>2. UNCHANGED <<directory, opts, tunnel, file, url, unsaved>>
  BY DEF Attach, Dropped, LinkLost, LateAttach, Noticed, RestartServer, client
<1>3. /\ pc' \in [Clients -> {"stopped", "register", "save", "dial", "upgrade", "up"}]
      /\ \A c \in Clients : pc'[c] = pc[c] \/ (pc[c] # "stopped" /\ pc'[c] = "register")
  <2>1. CASE \E c \in Clients : Dropped(c) \/ LinkLost(c)
    BY <1>1, <2>1 DEF Dropped, LinkLost, TypeOK
  <2>2. CASE UNCHANGED client
    BY <1>1, <2>2 DEF TypeOK, client
  <2>3. CASE RestartServer
    BY <1>1, <2>3 DEF RestartServer, TypeOK
  <2> QED BY <2>1, <2>2, <2>3 DEF Attach, LateAttach, Noticed
<1>5. faults' \in 0 .. MaxFaults
  BY <1>1, MaxFaultsAssumption
     DEF Attach, Dropped, LinkLost, LateAttach, Noticed, RestartServer, TypeOK, Fault
<1>6. TypeOK'
  BY <1>1, <1>2, <1>3, <1>5 DEF TypeOK, AttachingOK, directory
<1>7. GoesOn /\ Registry' /\ AskedFor'
  BY <1>2 DEF IInv, GoesOn, Registry, AskedFor, InUse, directory
<1> QED BY <1>2, <1>3, <1>6, <1>7, BystandersOK

LEMMA RemoveOK == ASSUME IInv, AttachingOK', NEW l \in Labels, Remove(l) PROVE IInv'
<1>1. TypeOK /\ Registry /\ AskedFor
  BY DEF IInv
<1>2. /\ holder' = [m \in Labels |-> IF m \in {l} THEN None ELSE holder[m]]
      /\ UNCHANGED spent
      /\ faults < MaxFaults /\ faults' = faults + 1
      /\ UNCHANGED client
  BY DEF Remove, Dir!Free, Fault
<1>3. \A m \in Labels : holder'[m] # None => holder'[m] = holder[m]
  BY <1>2
<1>4. TypeOK'
  <2>1. holder' \in [Labels -> [key : Keys, id : Ids] \cup {None}]
    BY <1>1, <1>2 DEF TypeOK
  <2>2. faults' \in 0 .. MaxFaults
    BY <1>1, <1>2, MaxFaultsAssumption DEF TypeOK
  <2> QED BY <1>1, <1>2, <2>1, <2>2 DEF TypeOK, AttachingOK, client
<1>5. GoesOn /\ Registry' /\ AskedFor'
  BY <1>1, <1>2, <1>3 DEF GoesOn, Registry, AskedFor, InUse
<1> QED BY <1>2, <1>4, <1>5, BystandersOK DEF client

LEMMA CreateOK == ASSUME IInv, AttachingOK', NEW c \in Clients, Create(c) PROVE IInv'
<1> DEFINE i == CHOOSE i \in Ids : i \notin spent
<1>1. TypeOK /\ Registry /\ AskedFor /\ ClientOK(c)
  BY DEF IInv
<1>2. i \in Ids /\ i \notin spent
  <2>1. \E j \in Ids : j \notin spent
    BY <1>1 DEF Create, TypeOK
  <2> QED BY <2>1
<1>3. PICK l \in Granted(c) :
         /\ Dir!Issue(l, KeyOf[c], i)
         /\ \/ Answered(c, [id |-> i, label |-> l]) /\ UNCHANGED faults
            \/ Fault /\ UNCHANGED <<pc, tunnel>>
  BY DEF Create
<1> DEFINE s == [key |-> KeyOf[c], id |-> i]
           t == [id |-> i, label |-> l]
<1>4. /\ pc[c] = "register" /\ ~HeldBy(c, opts[c])
      /\ UNCHANGED <<opts, file, url, unsaved>>
  BY DEF Create
<1>5. /\ l \in Labels
      /\ l = Wish[c] \/ l \in Random
      /\ Sole(c) => l = Wish[c]
  <2>1. Random \subseteq Labels
    BY DEF Random
  <2>2. Wish[c] # None => Wish[c] \in Labels /\ Wish[c] \notin Random
    BY <1>1, Names DEF Random
  <2>3. Sole(c) /\ holder[Wish[c]] # None => holder[Wish[c]].key = KeyOf[c]
    BY <1>1, <2>2 DEF AskedFor, Sole
  <2> QED BY <2>1, <2>2, <2>3 DEF Granted, Sole
<1>6. /\ holder' = [holder EXCEPT ![l] = s]
      /\ spent' = spent \cup {i}
  BY <1>3 DEF Dir!Issue
<1>7. /\ s \in [key : Keys, id : Ids] /\ s # None /\ s.id = i /\ s.key = KeyOf[c]
      /\ t \in Tunnels /\ t # None /\ t.id = i /\ t.label = l
  BY <1>1, <1>2, <1>5, Names, NoneAssumption DEF Tunnels
<1>8. \/ /\ tunnel' = [tunnel EXCEPT ![c] = t]
         /\ pc' = [pc EXCEPT ![c] = "save"]
         /\ UNCHANGED faults
      \/ faults < MaxFaults /\ faults' = faults + 1 /\ UNCHANGED <<pc, tunnel>>
  <2>1. opts[c] # i
    BY <1>1, <1>2, Names DEF ClientOK, KnowsOK
  <2> QED BY <1>3, <1>7, <2>1 DEF Answered, Fault
<1> HIDE DEF i, s, t
<1>9. \A m \in Labels : holder'[m] = IF m = l THEN s ELSE holder[m]
  BY <1>1, <1>6 DEF TypeOK
<1>10. TypeOK'
  <2>1. holder' \in [Labels -> [key : Keys, id : Ids] \cup {None}] /\ spent' \subseteq Ids
    BY <1>1, <1>2, <1>5, <1>6, <1>7 DEF TypeOK
  <2>2. /\ pc' \in [Clients -> {"stopped", "register", "save", "dial", "upgrade", "up"}]
        /\ tunnel' \in [Clients -> Tunnels \cup {None}]
        /\ faults' \in 0 .. MaxFaults
    BY <1>1, <1>7, <1>8, MaxFaultsAssumption DEF TypeOK
  <2> QED BY <1>1, <1>4, <2>1, <2>2 DEF TypeOK, AttachingOK
<1>11. GoesOn
  BY <1>2, <1>6, <1>7, <1>9 DEF GoesOn
<1>12. Registry'
  <2>1. Shared \in spent' /\ \A m \in Labels : holder'[m] # None => holder'[m].id \in spent'
    BY <1>1, <1>6, <1>7, <1>9 DEF Registry
  <2>2. ASSUME NEW m \in Labels, NEW n \in Labels, NEW j \in Ids, InUse(m, j)', InUse(n, j)'
        PROVE  m = n
    <3>1. CASE j = i
      BY <1>1, <1>2, <1>9, <2>2, <3>1 DEF InUse, Registry
    <3>2. CASE j # i
      BY <1>1, <1>7, <1>9, <2>2, <3>2 DEF InUse, Registry
    <3> QED BY <3>1, <3>2
  <2> QED BY <2>1, <2>2 DEF Registry
<1>13. AskedFor'
  BY <1>1, <1>5, <1>7, <1>9 DEF AskedFor
<1>14. ASSUME NEW d \in Clients,
              opts'[d] = opts[d], tunnel'[d] = tunnel[d], pc'[d] = pc[d]
       PROVE  ClientOK(d)'
  BY <1>4, <1>10, <1>11, <1>14, OthersOK
<1>15. CASE UNCHANGED <<pc, tunnel>>
  BY <1>4, <1>10, <1>12, <1>13, <1>14, <1>15 DEF IInv
<1>16. CASE tunnel' = [tunnel EXCEPT ![c] = t] /\ pc' = [pc EXCEPT ![c] = "save"]
  <2>1. /\ tunnel'[c] = t /\ pc'[c] = "save"
        /\ \A d \in Clients : d # c => tunnel'[d] = tunnel[d] /\ pc'[d] = pc[d]
    BY <1>1, <1>16 DEF TypeOK
  <2>2. KnowsOK(c)'
    <3>1. \A m \in Labels : holder'[m] # None /\ holder'[m].id = i => m = l
      BY <1>1, <1>2, <1>9 DEF Registry
    <3>2. Told(tunnel[c])'
      BY <1>6, <1>7, <2>1, <3>1 DEF Told, InUse
    <3>3. Told(url[c])'
      BY <1>1, <1>4, <1>11, StillTold DEF ClientOK, KnowsOK, Told
    <3>4. opts[c] # i /\ opts[c] \in spent' \cup {None} /\ file[c] \in spent' \cup {None}
      BY <1>1, <1>2, <1>6, Names DEF ClientOK, KnowsOK
    <3> QED BY <1>1, <1>4, <1>7, <2>1, <3>2, <3>3, <3>4 DEF ClientOK, KnowsOK, AtTunnel
  <2>3. Keeps(c)'
    <3> SUFFICES ASSUME url[c] # None, HeldBy(c, url[c].id)', unsaved[c] # "lost" PROVE FALSE
      BY <1>4 DEF Keeps, HeldBy
    <3>0. url[c].id \in spent /\ url'[c] = url[c]
      BY <1>1, <1>4 DEF ClientOK, KnowsOK, Told
    <3>1. HeldBy(c, url[c].id)
      BY <1>1, <1>10, <1>11, <3>0, StillHeld
    <3>2. opts[c] = url[c].id
      BY <1>1, <1>4, <3>1 DEF ClientOK, Keeps, KnowsOK
    <3> QED BY <1>4, <3>1, <3>2
  <2>4. Own(c)'
    <3> SUFFICES ASSUME Sole(c) PROVE Own(c)'
      BY DEF Own, Sole
    <3>1. /\ opts[c] \in spent \cup {None} /\ file[c] \in spent \cup {None}
          /\ OwnId(c, opts[c]) /\ OwnId(c, file[c])
      BY <1>1 DEF ClientOK, KnowsOK, Own
    <3>2. OwnId(c, opts[c])' /\ OwnId(c, file[c])'
      BY <1>4, <1>10, <1>11, <3>1, StillOwn DEF OwnId
    <3>3. OwnTunnel(c, t)
      BY <1>5, <1>7 DEF OwnTunnel
    <3> QED BY <1>1, <1>4, <2>1, <3>2, <3>3 DEF ClientOK, Own, OwnTunnel
  <2>5. ClientOK(c)'
    BY <2>2, <2>3, <2>4 DEF ClientOK
  <2> QED BY <1>4, <1>10, <1>12, <1>13, <1>14, <2>1, <2>5 DEF IInv
<1> QED BY <1>8, <1>15, <1>16

-----------------------------------------------------------------------------
LEMMA NextOK == IInv /\ [Next]_vars => IInv'
<1> SUFFICES ASSUME IInv, [Next]_vars PROVE IInv'
  OBVIOUS
<1>0. AttachingOK'
  BY AttachingSteps DEF IInv
<1>1. CASE UNCHANGED vars
  BY <1>1 DEF vars, directory, attaching, client, IInv, TypeOK, Registry, AskedFor, InUse, ClientOK,
              KnowsOK, Told, Keeps, HeldBy, Own, OwnId, OwnTunnel, Sole
<1>2. ASSUME NEW c \in Clients,
             \/ Start(c) \/ Resume(c) \/ Create(c) \/ Save(c) \/ Dial(c) \/ Up(c)
             \/ Stop(c)
      PROVE  IInv'
  BY <1>0, <1>2, StartOK, ResumeOK, CreateOK, SaveOK, DialOK, UpOK, StopOK
<1>3. CASE \/ \E c \in Clients : Attach(c) \/ Dropped(c) \/ LinkLost(c)
           \/ \E i \in Ids : LateAttach(i) \/ Noticed(i)
           \/ RestartServer
  BY <1>0, <1>3, LostOK
<1>4. ASSUME NEW l \in Labels, Remove(l) PROVE IInv'
  BY <1>0, <1>4, RemoveOK
<1> QED BY <1>1, <1>2, <1>3, <1>4 DEF Next

LEMMA Invariant == Spec => []IInv
BY InitOK, NextOK, PTL DEF Spec

-----------------------------------------------------------------------------
(* Whose sessions clients are connected to.                                 *)

OfKey(c, i) == \A l \in Labels : InUse(l, i) => holder[l].key = KeyOf[c]

\* A client only knows of, and is only connected to, sessions of its own key;
\* while it is up it has recorded where, and what is to be attached for it is
\* the connection it has.
ServesOwn(c) ==
    /\ tunnel[c] # None => OfKey(c, tunnel[c].id)
    /\ pc[c] = "up" => url[c] = tunnel[c]
    /\ c \in due => pc[c] \in {"upgrade", "up"}
    /\ \A i \in Ids : conn[i] = c => i \in spent /\ OfKey(c, i)

ServesInv == \A c \in Clients : ServesOwn(c)

\* Ids are not given twice, so what was of a key still is.
LEMMA StillOfKey ==
    ASSUME GoesOn, NEW c \in Clients, NEW i \in spent, OfKey(c, i)
    PROVE  i \in spent' /\ OfKey(c, i)'
BY StillInUse DEF OfKey, GoesOn

\* A step in which a client learns of no session and gets no connection.
LEMMA ServesLess ==
    ASSUME IInv, GoesOn, NEW c \in Clients, ServesOwn(c),
           tunnel'[c] = tunnel[c],
           pc'[c] = "up" => pc[c] = "up" /\ url'[c] = url[c],
           c \in due' => pc'[c] \in {"upgrade", "up"},
           \A i \in Ids : conn'[i] = c => conn[i] = c
    PROVE  ServesOwn(c)'
<1>1. tunnel[c] # None => tunnel[c].id \in spent
  BY DEF IInv, ClientOK, KnowsOK, Told
<1>2. tunnel'[c] # None => OfKey(c, tunnel[c].id)'
  BY <1>1, StillOfKey DEF ServesOwn
<1> QED BY <1>2, StillOfKey DEF ServesOwn, OfKey

\* Every step but Create and Remove leaves the registry as it is; Remove
\* frees one label and Create issues one.
LEMMA RegistrySteps == ASSUME IInv, [Next]_vars PROVE GoesOn
<1>1. CASE UNCHANGED directory
  BY <1>1 DEF GoesOn, directory
<1>2. ASSUME NEW c \in Clients, Create(c)
      PROVE  GoesOn
  <2> DEFINE i == CHOOSE i \in Ids : i \notin spent
  <2>1. TypeOK
    BY DEF IInv
  <2>2. i \notin spent
    <3>1. \E j \in Ids : j \notin spent
      BY <1>2, <2>1 DEF Create, TypeOK
    <3> QED BY <3>1
  <2>3. PICK l \in Granted(c) : Dir!Issue(l, KeyOf[c], i)
    BY <1>2 DEF Create
  <2> HIDE DEF i
  <2>4. /\ spent' = spent \cup {i}
        /\ holder' = [holder EXCEPT ![l] = [key |-> KeyOf[c], id |-> i]]
    BY <2>3 DEF Dir!Issue
  <2>5. \A m \in Labels :
           holder'[m] = IF m = l THEN [key |-> KeyOf[c], id |-> i] ELSE holder[m]
    BY <2>1, <2>4 DEF TypeOK
  <2>6. [key |-> KeyOf[c], id |-> i].id = i
    OBVIOUS
  <2> QED BY <2>2, <2>4, <2>5, <2>6 DEF GoesOn
<1>3. ASSUME NEW l \in Labels, Remove(l)
      PROVE  GoesOn
  BY <1>3 DEF Remove, GoesOn, Dir!Free
<1> QED BY <1>1, <1>2, <1>3 DEF Next, Start, Resume, Save, Dial, Up, Attach, Dropped,
            LinkLost, Stop, LateAttach, Noticed, RestartServer, vars

LEMMA ServesInit == Init => ServesInv
<1> SUFFICES ASSUME Init, NEW c \in Clients PROVE ServesOwn(c)
  BY DEF ServesInv
<1>1. tunnel[c] = None /\ pc[c] = "stopped" /\ due = {} /\ \A i \in Ids : conn[i] = None
  BY DEF Init
<1>2. c # None
  BY NoneAssumption
<1> QED BY <1>1, <1>2 DEF ServesOwn

\* handleConnect answers with a session it has found under the client's key,
\* or with one it has just created for it.
LEMMA ToldOfOwn ==
    ASSUME IInv, IInv', ServesInv, GoesOn, NEW c \in Clients, Resume(c) \/ Create(c)
    PROVE  ServesInv'
<1>1. TypeOK /\ UNCHANGED <<conn, due, url>> /\ KnowsOK(c) /\ Registry
  BY DEF IInv, ClientOK, Resume, Create, attaching
<1>0. pc[c] = "register" /\ c \notin due
  BY DEF Resume, Create, ServesInv, ServesOwn
<1>2. CASE UNCHANGED <<pc, tunnel>>
  BY <1>1, <1>2, ServesLess DEF ServesInv, ServesOwn
<1>3. ASSUME NEW t, Answered(c, t),
             \A l \in Labels : holder'[l] # None /\ holder'[l].id = t.id =>
                               holder'[l].key = KeyOf[c]
      PROVE  ServesInv'
  <2>1. /\ tunnel'[c] = t /\ pc'[c] # "up"
        /\ \A d \in Clients : d # c => tunnel'[d] = tunnel[d] /\ pc'[d] = pc[d]
    BY <1>1, <1>3 DEF Answered, TypeOK
  <2>2. \A i \in Ids : conn'[i] = c => i \in spent' /\ OfKey(c, i)'
    BY <1>1, StillOfKey DEF ServesInv, ServesOwn
  <2>3. ServesOwn(c)'
    BY <1>0, <1>1, <1>3, <2>1, <2>2 DEF ServesOwn, OfKey, InUse
  <2>4. \A d \in Clients : d # c => ServesOwn(d)'
    BY <1>1, <2>1, ServesLess DEF ServesInv, ServesOwn
  <2> QED BY <2>3, <2>4 DEF ServesInv
<1>4. CASE Resume(c)
  <2> DEFINE t == [id |-> opts[c], label |-> LabelOf(opts[c])]
  <2>1. HeldBy(c, opts[c]) /\ Answered(c, t) /\ UNCHANGED directory
    BY <1>4 DEF Resume
  <2>2. opts[c] \in Ids \cup {None}
    BY <1>1 DEF TypeOK
  <2>3. PICK l \in Labels : InUse(l, opts[c]) /\ holder[l].key = KeyOf[c]
    BY <1>1, <2>1, <2>2, HeldMeans
  <2>4. opts[c] \in Ids
    BY <1>1, <2>3, Names DEF InUse
  <2>5. OfKey(c, opts[c])
    BY <1>1, <2>3, <2>4 DEF OfKey, Registry
  <2>6. t.id = opts[c]
    OBVIOUS
  <2> HIDE DEF t
  <2>7. \A m \in Labels : holder'[m] # None /\ holder'[m].id = t.id =>
                          holder'[m].key = KeyOf[c]
    BY <2>1, <2>5, <2>6 DEF OfKey, InUse, directory
  <2> QED BY <1>3, <2>1, <2>7
<1>5. CASE Create(c)
  <2> DEFINE i == CHOOSE i \in Ids : i \notin spent
  <2>1. i \in Ids /\ i \notin spent
    <3>1. \E j \in Ids : j \notin spent
      BY <1>1, <1>5 DEF Create, TypeOK
    <3> QED BY <3>1
  <2>2. PICK l \in Granted(c) :
           /\ Dir!Issue(l, KeyOf[c], i)
           /\ Answered(c, [id |-> i, label |-> l]) \/ UNCHANGED <<pc, tunnel>>
    BY <1>5 DEF Create
  <2> HIDE DEF i
  <2> DEFINE t == [id |-> i, label |-> l]
  <2>3. t.id = i
    OBVIOUS
  <2>4. holder' = [holder EXCEPT ![l] = [key |-> KeyOf[c], id |-> i]]
    BY <2>2 DEF Dir!Issue
  <2>5. \A m \in Labels :
           holder'[m] = IF m = l THEN [key |-> KeyOf[c], id |-> i] ELSE holder[m]
    BY <1>1, <2>4 DEF TypeOK
  <2>6. ASSUME NEW m \in Labels, holder'[m] # None, holder'[m].id = i
        PROVE  holder'[m].key = KeyOf[c]
    <3>1. m = l
      BY <1>1, <2>1, <2>5, <2>6 DEF Registry
    <3> QED BY <2>5, <3>1
  <2>7. Answered(c, t) \/ UNCHANGED <<pc, tunnel>>
    BY <2>2
  <2> HIDE DEF t
  <2> QED BY <1>2, <1>3, <2>3, <2>6, <2>7
<1> QED BY <1>4, <1>5

\* attach, with the client it is for still connected.
LEMMA AttachOwn ==
    ASSUME IInv, ServesInv, GoesOn, NEW c \in Clients, Attach(c)
    PROVE  ServesInv'
<1>1. TypeOK /\ c \in due /\ pc[c] \in AtTunnel
  BY DEF Attach, IInv, ServesInv, ServesOwn, AtTunnel
<1>2. /\ UNCHANGED <<directory, client>>
      /\ conn' = [conn EXCEPT ![tunnel[c].id] = c]
      /\ due' = due \ {c}
  BY DEF Attach
<1>3. tunnel[c].id \in spent /\ OfKey(c, tunnel[c].id)
  BY <1>1 DEF IInv, ClientOK, KnowsOK, Told, ServesInv, ServesOwn
<1>4. \A i \in Ids : conn'[i] = c => conn[i] = c \/ i = tunnel[c].id
  BY <1>1, <1>2 DEF TypeOK
<1>5. \A i \in Ids : conn'[i] = c => i \in spent' /\ OfKey(c, i)'
  BY <1>3, <1>4, StillOfKey DEF ServesInv, ServesOwn
<1>6. tunnel'[c] # None => OfKey(c, tunnel[c].id)'
  BY <1>2, <1>3 DEF OfKey, InUse, directory, client
<1>7. ServesOwn(c)'
  BY <1>2, <1>5, <1>6 DEF ServesInv, ServesOwn, client
<1>8. \A d \in Clients : d # c =>
         /\ \A i \in Ids : conn'[i] = d => conn[i] = d
         /\ d \in due' => pc'[d] \in {"upgrade", "up"}
  BY <1>1, <1>2 DEF TypeOK, ServesInv, ServesOwn, client
<1>9. \A d \in Clients : d # c => ServesOwn(d)'
  BY <1>2, <1>8, ServesLess DEF ServesInv, client
<1> QED BY <1>7, <1>9 DEF ServesInv

\* The client records where it serves when it comes up.
LEMMA UpOwn ==
    ASSUME IInv, ServesInv, GoesOn, NEW c \in Clients, Up(c)
    PROVE  ServesInv'
<1>1. TypeOK
  BY DEF IInv
<1>2. /\ UNCHANGED <<directory, attaching, tunnel>>
      /\ url' = [url EXCEPT ![c] = tunnel[c]]
      /\ pc' = [pc EXCEPT ![c] = "up"]
  BY DEF Up
<1>3. /\ url'[c] = tunnel[c] /\ pc'[c] = "up"
      /\ \A d \in Clients : d # c => pc'[d] = pc[d] /\ url'[d] = url[d]
  BY <1>1, <1>2 DEF TypeOK
<1>4. \A d \in Clients : d # c => ServesOwn(d)'
  BY <1>2, <1>3, ServesLess DEF ServesInv, ServesOwn, attaching
<1>5. ServesOwn(c)'
  BY <1>2, <1>3 DEF ServesInv, ServesOwn, OfKey, InUse, directory, attaching
<1> QED BY <1>4, <1>5 DEF ServesInv

LEMMA ServesNext == IInv /\ IInv' /\ ServesInv /\ [Next]_vars => ServesInv'
<1> SUFFICES ASSUME IInv, IInv', ServesInv, [Next]_vars PROVE ServesInv'
  OBVIOUS
<1>1. TypeOK /\ GoesOn
  BY RegistrySteps DEF IInv
<1>2. CASE UNCHANGED vars
  BY <1>1, <1>2, ServesLess DEF vars, attaching, client, ServesInv, ServesOwn
<1>3. ASSUME NEW c \in Clients, Resume(c) \/ Create(c) PROVE ServesInv'
  BY <1>1, <1>3, ToldOfOwn
<1>4. ASSUME NEW c \in Clients, Attach(c) \/ Up(c) PROVE ServesInv'
  BY <1>1, <1>4, AttachOwn, UpOwn
<1>5. CASE \/ \E c \in Clients : \/ Start(c) \/ Save(c) \/ Dial(c) \/ Dropped(c)
                                \/ LinkLost(c) \/ Stop(c)
           \/ \E i \in Ids : LateAttach(i) \/ Noticed(i)
           \/ RestartServer
           \/ \E l \in Labels : Remove(l)
  <2>1. UNCHANGED <<tunnel, url>>
    BY <1>5 DEF Start, Save, Dial, Dropped, LinkLost, Stop, LateAttach, Noticed,
                RestartServer, Remove, client
  <2>2. \A d \in Clients : pc'[d] = "up" => pc[d] = "up"
    BY <1>1, <1>5 DEF Start, Save, Dial, Dropped, LinkLost, Stop, LateAttach, Noticed,
                      RestartServer, Remove, client, TypeOK
  <2>3. \A i \in Ids : conn'[i] \in Clients => conn'[i] = conn[i]
    <3>1. CASE UNCHANGED conn
      BY <3>1
    <3>2. ASSUME NEW i \in Ids, LateAttach(i) \/ Noticed(i)
          PROVE  \A j \in Ids : conn'[j] \in Clients => conn'[j] = conn[j]
      BY <1>1, <3>2, NoneAssumption DEF LateAttach, Noticed, TypeOK
    <3>3. CASE RestartServer
      BY <3>3, NoneAssumption DEF RestartServer
    <3>4. ASSUME NEW l \in Labels, Remove(l)
          PROVE  \A j \in Ids : conn'[j] \in Clients => conn'[j] = conn[j]
      BY <1>1, <3>4, NoneAssumption DEF Remove, TypeOK
    <3> QED BY <1>5, <3>1, <3>2, <3>3, <3>4
            DEF Start, Save, Dial, Dropped, LinkLost, Stop, attaching
  <2>4. \A d \in Clients : d \in due' => pc'[d] \in {"upgrade", "up"}
    <3>1. \A d \in Clients : d \in due => pc[d] \in {"upgrade", "up"}
      BY DEF ServesInv, ServesOwn
    <3>2. ASSUME NEW c \in Clients,
                 \/ Start(c) \/ Save(c) \/ Dial(c) \/ Dropped(c) \/ LinkLost(c) \/ Stop(c)
          PROVE  \A d \in Clients : d \in due' => pc'[d] \in {"upgrade", "up"}
      <4>1. \A d \in Clients : d # c => pc'[d] = pc[d] /\ (d \in due' => d \in due)
        BY <1>1, <3>2 DEF Start, Save, Dial, Dropped, LinkLost, Stop, Cut, attaching, TypeOK
      <4>2. c \in due' => pc'[c] = "upgrade"
        <5>1. CASE Start(c) \/ Save(c) \/ Dropped(c)
          BY <3>1, <5>1 DEF Start, Save, Dropped, attaching
        <5>2. CASE Dial(c)
          BY <1>1, <3>1, <5>2 DEF Dial, TypeOK
        <5>3. CASE LinkLost(c) \/ Stop(c)
          BY <5>3 DEF LinkLost, Stop, Cut
        <5> QED BY <3>2, <5>1, <5>2, <5>3
      <4> QED BY <3>1, <4>1, <4>2
    <3>3. CASE UNCHANGED <<due, client>>
      BY <3>1, <3>3 DEF client
    <3>4. CASE RestartServer
      BY <3>4 DEF RestartServer
    <3> QED BY <1>5, <3>2, <3>3, <3>4 DEF LateAttach, Noticed, Remove
  <2> QED BY <1>1, <2>1, <2>2, <2>3, <2>4, ServesLess DEF ServesInv
<1> QED BY <1>2, <1>3, <1>4, <1>5 DEF Next

LEMMA ServesInvariant == Spec => []ServesInv
BY Invariant, ServesInit, ServesNext, PTL DEF Spec

-----------------------------------------------------------------------------
(* The theorems.                                                            *)

\* The variables of the model keep their types; so do the counts of
\* connections the server has yet to attach.
THEOREM TypeCorrect == Spec => []TypeOK
BY Invariant, PTL DEF IInv

\* What a client remembers, in memory, on file (whole, copied, cut or lost) and
\* as the URL it served, is a session that the server issued, and one that has
\* not changed its label and is not given to anybody else under another
\* (register, SaveSessionID, Create).
THEOREM KnownIsIssued ==
    Spec => [](\A c \in Clients :
                 /\ {opts[c], file[c]} \subseteq spent \cup {None}
                 /\ \A t \in {tunnel[c], url[c]} \ {None} :
                       /\ t.id \in spent
                       /\ \A l \in Labels :
                             holder[l] # None /\ holder[l].id = t.id => l = t.label)
<1> DEFINE Known == \A c \in Clients :
                 /\ {opts[c], file[c]} \subseteq spent \cup {None}
                 /\ \A t \in {tunnel[c], url[c]} \ {None} :
                       /\ t.id \in spent
                       /\ \A l \in Labels :
                             holder[l] # None /\ holder[l].id = t.id => l = t.label
<1>1. IInv => Known
  <2> SUFFICES ASSUME IInv, NEW c \in Clients
               PROVE  /\ {opts[c], file[c]} \subseteq spent \cup {None}
                      /\ \A t \in {tunnel[c], url[c]} \ {None} : Told(t)
    BY DEF Told, InUse
  <2> QED BY DEF IInv, ClientOK, KnowsOK
<1> HIDE DEF Known
<1>2. Spec => []Known
  BY <1>1, Invariant, PTL
<1> QED BY <1>2 DEF Known

\* A client's URL outlives restarts of either side, lost answers and whoever
\* shares its id, as long as its session exists and no restart has lost an id
\* whose write failed (register, SaveSessionID, handleConnect).
THEOREM UrlsSurvive == Spec => UrlSurvives
<1> DEFINE Kept == \A c \in Clients :
                      url[c] # None /\ url'[c].label # url[c].label =>
                         ~HeldBy(c, url[c].id) \/ unsaved[c] = "lost"
<1>1. IInv /\ [Next]_vars => [Kept]_vars
  <2> SUFFICES ASSUME IInv, Next, NEW c \in Clients, url[c] # None,
                      url'[c].label # url[c].label, HeldBy(c, url[c].id), unsaved[c] # "lost"
               PROVE  FALSE
    OBVIOUS
  <2>1. PICK d \in Clients : Up(d)
    BY DEF Next, Start, Resume, Create, Save, Dial, Attach, Dropped, LinkLost, Stop,
           LateAttach, Noticed, RestartServer, Remove, client
  <2>2. d = c
    BY <2>1 DEF Up, IInv, TypeOK
  <2>3. url'[c] = tunnel[c] /\ pc[c] \in AtTunnel
    BY <2>1, <2>2 DEF Up, IInv, TypeOK, AtTunnel
  <2> QED BY <2>3 DEF IInv, ClientOK, Keeps
<1> QED BY <1>1, Invariant, PTL DEF Spec, UrlSurvives

\* The label a client is pinned to, or asks for, is the one it serves on, if no
\* other key asks for it (Create, handleConnect).
THEOREM WishesStick == Spec => []WishSticks
<1>1. IInv => WishSticks
  BY DEF IInv, ClientOK, Own, Sole, OwnTunnel, WishSticks
<1> QED BY <1>1, Invariant, PTL

\* A connection leads to a client of the key that has the session, whatever
\* ids are copied, lost or saved too late (the key comparison of
\* handleConnect and handleTunnel, attach): nobody's URL is served by a client
\* of another key.
THEOREM ConnectedToOwnKey ==
    Spec => [](\A l \in Labels :
                 holder[l] # None /\ conn[holder[l].id] \in Clients =>
                    KeyOf[conn[holder[l].id]] = holder[l].key)
<1> DEFINE Own1 == \A l \in Labels :
                      holder[l] # None /\ conn[holder[l].id] \in Clients =>
                         KeyOf[conn[holder[l].id]] = holder[l].key
<1>1. IInv /\ ServesInv => Own1
  <2> SUFFICES ASSUME IInv, ServesInv, NEW l \in Labels, holder[l] # None,
                      conn[holder[l].id] \in Clients
               PROVE  KeyOf[conn[holder[l].id]] = holder[l].key
    OBVIOUS
  <2>1. holder[l].id \in Ids
    BY Names DEF IInv
  <2> QED BY <2>1 DEF ServesInv, ServesOwn, OfKey, InUse
<1> QED BY <1>1, Invariant, ServesInvariant, PTL

\* A client that is up, and whose session the server has a live connection
\* for, its own or that of another with the same id, is
\* reachable at the URL it was told, unless its session has gone: attach gives
\* a session its next connection in the step that takes the last one away.
\* This is what StaysReachable rests on once clients are up.
THEOREM UpIsReachable ==
    Spec => [](\A c \in Clients :
                 pc[c] = "up" /\ conn[tunnel[c].id] \in Clients =>
                    Reachable(c) \/ ~Live(tunnel[c].id))
<1> DEFINE Served == \A c \in Clients :
                        pc[c] = "up" /\ conn[tunnel[c].id] \in Clients =>
                           Reachable(c) \/ ~Live(tunnel[c].id)
<1>1. IInv /\ ServesInv => Served
  <2> SUFFICES ASSUME IInv, ServesInv, NEW c \in Clients, pc[c] = "up",
                      conn[tunnel[c].id] \in Clients, Live(tunnel[c].id)
               PROVE  Reachable(c)
    OBVIOUS
  <2>1. tunnel[c] # None /\ Told(tunnel[c]) /\ url[c] = tunnel[c]
        /\ OfKey(c, tunnel[c].id)
    BY DEF IInv, ClientOK, KnowsOK, AtTunnel, ServesInv, ServesOwn
  <2>2. PICK l \in Labels : InUse(l, tunnel[c].id)
    BY DEF Live, InUse
  <2>3. l = tunnel[c].label /\ holder[l].key = KeyOf[c]
    BY <2>1, <2>2 DEF Told, OfKey
  <2> QED BY <2>1, <2>2, <2>3, NoneAssumption DEF Reachable, InUse
<1> QED BY <1>1, Invariant, ServesInvariant, PTL
=============================================================================
