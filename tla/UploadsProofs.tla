---------------------------- MODULE UploadsProofs ----------------------------
(***************************************************************************)
(* What holds of the upload example for any number of uploads, of any       *)
(* number of files, next to any number of other requests and restarts.      *)
(***************************************************************************)
EXTENDS Uploads, TLAPS

Busy == {"copy", "rename"}

\* The file an upload is at is the last it has begun, and those before it
\* have been renamed.
UploadOK(u) ==
    /\ pc[u] \in Busy => out[u] \in Files /\ out[u] = <<u, count[u]>> /\ target[u] \in Names
    /\ pc[u] \notin Busy => out[u] = None
    /\ pc[u] = "rename" => Complete(out[u])
    /\ pc[u] \in {"parts", "saved"} => saved[u] = {<<u, k>> : k \in 1 .. count[u]}
    /\ pc[u] \in Busy => saved[u] = {<<u, k>> : k \in 1 .. (count[u] - 1)}

\* Somebody but the upload knows of the file.
Shown(f) ==
    \/ \E n \in Names : entry[n] = f
    \/ \E d \in Downloads : fd[d] = f
    \/ \E l \in Lists : \E x \in listed[l] : x[2] = f

\* A file that is shown is complete and no longer written.
ShownOK ==
    \A f \in Files : Shown(f) => Complete(f) /\ f[2] <= count[f[1]] /\ out[f[1]] # f

SizesOK == \A d \in Downloads : fd[d] # None => len[fd[d]] = announced[d]

\* A name that was there all along is still there, and listed or to be listed.
ListOK ==
    \A l \in Lists : \A n \in steady[l] :
        entry[n] # None /\ (n \in todo[l] \/ \E x \in listed[l] : x[1] = n)

IInv ==
    /\ TypeOK
    /\ \A u \in Uploaders : UploadOK(u)
    /\ ShownOK
    /\ SizesOK
    /\ ListOK
    /\ NoTempLeft

-----------------------------------------------------------------------------
LEMMA FilesAre ==
    /\ \A f \in Files : f[1] \in Uploaders /\ f[2] \in Nat \ {0} /\ f = <<f[1], f[2]>>
    /\ \A u \in Uploaders, k \in Nat \ {0} : k <= MaxParts[u] => <<u, k>> \in Files
    /\ None \notin Files
    /\ None \notin Names
<1>1. \A u \in Uploaders : MaxParts[u] \in Nat \ {0}
  BY BoundsAssumption
<1>2. ASSUME NEW f \in Files
      PROVE  f[1] \in Uploaders /\ f[2] \in Nat \ {0} /\ f = <<f[1], f[2]>>
  <2>1. PICK u \in Uploaders : f \in {u} \X (1 .. MaxParts[u])
    BY DEF Files
  <2>2. PICK k \in 1 .. MaxParts[u] : f = <<u, k>>
    BY <2>1
  <2> QED BY <1>1, <2>2
<1>3. ASSUME NEW u \in Uploaders, NEW k \in Nat \ {0}, k <= MaxParts[u] PROVE <<u, k>> \in Files
  <2>1. <<u, k>> \in {u} \X (1 .. MaxParts[u])
    BY <1>1, <1>3
  <2> QED BY <2>1 DEF Files
<1>4. None \notin Files
  <2> SUFFICES ASSUME None \in Files PROVE FALSE
    OBVIOUS
  <2>1. None[1] \in Uploaders /\ None[2] \in Nat \ {0} /\ None = <<None[1], None[2]>>
    BY <1>2
  <2>2. None \in Uploaders \X (Nat \ {0})
    BY <2>1
  <2> QED BY <2>2, NoneAssumption
<1> QED BY <1>2, <1>3, <1>4, NoneAssumption

\* The file that an upload is writing is its own.
LEMMA Private ==
    ASSUME IInv, NEW u \in Uploaders, pc[u] \in Busy
    PROVE  /\ out[u] \in Files /\ out[u] = <<u, count[u]>> /\ out[u][1] = u
           /\ count[u] \in Nat \ {0}
           /\ \A f \in Files : Shown(f) => f # out[u]
           /\ \A v \in Uploaders : out[v] = out[u] => v = u
<1>1. out[u] = <<u, count[u]>> /\ out[u][1] = u
  BY DEF IInv, UploadOK
<1>2. out[u] \in Files
  BY DEF IInv, UploadOK
<1>3. out[u] # None
  BY <1>2, FilesAre
<1>4. count[u] \in Nat \ {0}
  BY <1>1, <1>2, FilesAre
<1>5. \A f \in Files : Shown(f) => f # out[u]
  BY <1>1 DEF IInv, ShownOK
<1>6. ASSUME NEW v \in Uploaders, out[v] = out[u] PROVE v = u
  <2>1. out[v] = <<v, count[v]>>
    BY <1>3, <1>6 DEF IInv, UploadOK
  <2> QED BY <1>1, <1>6, <2>1
<1> QED BY <1>1, <1>2, <1>4, <1>5, <1>6

LEMMA InitOK == Init => IInv
<1> SUFFICES ASSUME Init PROVE IInv
  OBVIOUS
<1>1. TypeOK
  <2>1. \A u \in Uploaders : MaxParts[u] \in Nat \ {0}
    BY BoundsAssumption
  <2>2. /\ count \in [Uploaders -> Nat] /\ \A u \in Uploaders : count[u] <= MaxParts[u]
        /\ pc \in [Uploaders -> {"parts", "copy", "rename", "saved", "failed", "lost"}]
        /\ target \in [Uploaders -> Names \cup {None}]
        /\ out \in [Uploaders -> Files \cup {None}]
        /\ saved \in [Uploaders -> SUBSET Files]
    BY <2>1 DEF Init
  <2>3. /\ entry \in [Names -> Files \cup {None}] /\ temps \subseteq Files
        /\ len \in [Files -> 0 .. Chunks] /\ whole \in [Files -> BOOLEAN]
        /\ fd \in [Downloads -> Files \cup {None}] /\ announced \in [Downloads -> 0 .. Chunks]
    BY BoundsAssumption DEF Init
  <2>4. todo \in [Lists -> Folders \cup {None}]
    BY DEF Init
  <2>5. listed \in [Lists -> SUBSET ((Names \cup Files) \X Files)]
    <3>1. {} \in SUBSET ((Names \cup Files) \X Files)
      BY Zenon
    <3> QED BY <3>1 DEF Init
  <2>6. /\ steady \in [Lists -> SUBSET Names]
        /\ cut \subseteq Files /\ orphans \subseteq Files /\ restarts \in 0 .. MaxRestarts
    BY BoundsAssumption DEF Init
  <2> QED BY <2>2, <2>3, <2>4, <2>5, <2>6 DEF TypeOK
<1>2. \A u \in Uploaders : UploadOK(u)
  <2>1. ASSUME NEW k \in 1 .. 0 PROVE FALSE
    OBVIOUS
  <2> QED BY <2>1 DEF Init, UploadOK, Busy
<1>3. ShownOK
  BY FilesAre DEF Init, ShownOK, Shown
<1>4. SizesOK /\ ListOK /\ NoTempLeft
  BY DEF Init, SizesOK, ListOK, NoTempLeft
<1> QED BY <1>1, <1>2, <1>3, <1>4 DEF IInv

\* Refuse and Finish: the end of an upload that is at no file.
LEMMA OverOK ==
    ASSUME IInv, NEW u \in Uploaders, Refuse(u) \/ Finish(u)
    PROVE  IInv'
<1> USE DEF IInv
<1>1. /\ pc[u] = "parts" /\ pc' = [pc EXCEPT ![u] = pc'[u]]
      /\ pc'[u] \in {"failed", "saved"}
      /\ UNCHANGED <<folder, count, target, out, saved, reads, world>>
  BY DEF Refuse, Finish, TypeOK
<1>2. \A v \in Uploaders : v # u => pc'[v] = pc[v]
  BY <1>1 DEF TypeOK
<1>3. TypeOK'
  BY <1>1 DEF TypeOK, folder, reads, world
<1>4. \A v \in Uploaders : UploadOK(v)'
  BY <1>1, <1>2 DEF UploadOK, Busy, folder, Complete, world
<1>5. ShownOK' /\ SizesOK' /\ ListOK'
  BY <1>1 DEF ShownOK, Shown, SizesOK, ListOK, folder, reads, Complete, world
<1>6. NoTempLeft'
  <2> SUFFICES ASSUME NEW f \in temps, f \notin orphans
               PROVE  out[f[1]] = f /\ pc'[f[1]] \in Busy
    BY <1>1 DEF NoTempLeft, folder, world, Busy
  <2>1. f[1] \in Uploaders
    BY FilesAre DEF TypeOK
  <2>2. out[f[1]] = f /\ pc[f[1]] \in Busy
    BY DEF NoTempLeft, Busy
  <2> QED BY <1>1, <1>2, <2>1, <2>2 DEF Busy
<1> QED BY <1>3, <1>4, <1>5, <1>6

LEMMA NextPartOK ==
    ASSUME IInv, NEW u \in Uploaders, NEW n \in Names, NextPart(u, n)
    PROVE  IInv'
<1> USE DEF IInv
<1> DEFINE f == <<u, count[u] + 1>>
<1>0. TypeOK /\ pc[u] = "parts" /\ out[u] = None
  BY DEF NextPart, UploadOK, Busy
<1>1. /\ temps' = temps \cup {f}
      /\ out' = [out EXCEPT ![u] = f]
      /\ count' = [count EXCEPT ![u] = @ + 1]
      /\ target' = [target EXCEPT ![u] = n]
      /\ pc' = [pc EXCEPT ![u] = "copy"]
      /\ UNCHANGED <<entry, len, whole, saved, reads, world>>
  BY DEF NextPart, Part
<1>2. /\ count[u] \in Nat /\ count[u] + 1 <= MaxParts[u]
      /\ f \in Files /\ f[1] = u /\ f[2] = count[u] + 1
  <2>1. count[u] \in Nat /\ MaxParts[u] \in Nat /\ count[u] < MaxParts[u]
    BY <1>0, BoundsAssumption DEF NextPart, TypeOK
  <2> QED BY <2>1, FilesAre
<1>3. /\ out'[u] = f /\ count'[u] = count[u] + 1 /\ target'[u] = n /\ pc'[u] = "copy"
      /\ \A v \in Uploaders : v # u =>
            /\ out'[v] = out[v] /\ count'[v] = count[v]
            /\ target'[v] = target[v] /\ pc'[v] = pc[v]
  BY <1>0, <1>1 DEF TypeOK
<1>4. TypeOK'
  <2>1. count' \in [Uploaders -> Nat] /\ \A v \in Uploaders : count'[v] <= MaxParts[v]
    BY <1>0, <1>1, <1>2, <1>3 DEF TypeOK
  <2>2. /\ temps' \subseteq Files
        /\ out' \in [Uploaders -> Files \cup {None}]
        /\ target' \in [Uploaders -> Names \cup {None}]
        /\ pc' \in [Uploaders -> {"parts", "copy", "rename", "saved", "failed", "lost"}]
    BY <1>0, <1>1, <1>2 DEF TypeOK
  <2> QED BY <1>0, <1>1, <2>1, <2>2 DEF TypeOK, reads, world
<1>5. ASSUME NEW v \in Uploaders PROVE UploadOK(v)'
  <2>1. CASE v = u
    <3>1. saved'[u] = {<<u, k>> : k \in 1 .. count[u]}
      BY <1>0, <1>1 DEF UploadOK
    <3>2. (count[u] + 1) - 1 = count[u]
      BY <1>2
    <3> QED BY <1>2, <1>3, <2>1, <3>1, <3>2 DEF UploadOK, Busy
  <2>2. CASE v # u
    BY <1>1, <1>3, <2>2 DEF UploadOK, Busy, Complete, world
  <2> QED BY <2>1, <2>2
<1>6. ShownOK'
  <2> SUFFICES ASSUME NEW g \in Files, Shown(g)'
               PROVE  Complete(g)' /\ g[2] <= count'[g[1]] /\ out'[g[1]] # g
    BY DEF ShownOK
  <2>1. Complete(g) /\ g[2] <= count[g[1]] /\ out[g[1]] # g
    BY <1>1 DEF ShownOK, Shown, reads
  <2>2. g[1] \in Uploaders /\ g[2] \in Nat
    BY FilesAre
  <2>3. CASE g[1] = u
    BY <1>1, <1>2, <1>3, <2>1, <2>2, <2>3 DEF Complete, world
  <2>4. CASE g[1] # u
    BY <1>1, <1>3, <2>1, <2>2, <2>4 DEF Complete, world
  <2> QED BY <2>3, <2>4
<1>7. SizesOK' /\ ListOK'
  BY <1>1 DEF SizesOK, ListOK, reads
<1>8. NoTempLeft'
  <2> SUFFICES ASSUME NEW g \in temps', g \notin orphans'
               PROVE  out'[g[1]] = g /\ pc'[g[1]] \in Busy
    BY DEF NoTempLeft, Busy
  <2>1. CASE g = f
    BY <1>2, <1>3, <2>1 DEF Busy
  <2>2. CASE g # f
    <3>1. g \in temps /\ g \notin orphans /\ g[1] \in Uploaders
      BY <1>0, <1>1, <2>2, FilesAre DEF world, TypeOK
    <3>2. out[g[1]] = g /\ pc[g[1]] \in Busy
      BY <3>1 DEF NoTempLeft, Busy
    <3>3. g[1] # u
      BY <1>0, <3>2 DEF Busy
    <3> QED BY <1>3, <3>1, <3>2, <3>3
  <2> QED BY <2>1, <2>2
<1> QED BY <1>4, <1>5, <1>6, <1>7, <1>8

\* Copy and Close: only the file of the upload changes.
LEMMA CopyOK == ASSUME IInv, NEW u \in Uploaders, Copy(u) \/ Close(u) PROVE IInv'
<1> USE DEF IInv
<1> DEFINE f == out[u]
<1>0. TypeOK /\ pc[u] = "copy" /\ pc[u] \in Busy
  BY DEF Copy, Close, Busy
<1>1. /\ f \in Files /\ \A g \in Files : Shown(g) => g # f
      /\ \A v \in Uploaders : out[v] = f => v = u
  BY <1>0, Private
<1>2. UNCHANGED <<entry, temps, count, target, out, saved, reads, orphans, restarts>>
  BY DEF Copy, Close, uploads, world
<1>3. /\ len' \in [Files -> 0 .. Chunks] /\ whole' \in [Files -> BOOLEAN]
      /\ \A g \in Files : g # f => len'[g] = len[g] /\ whole'[g] = whole[g]
      /\ cut \subseteq cut' /\ cut' \subseteq Files
      /\ pc' \in [Uploaders -> {"parts", "copy", "rename", "saved", "failed", "lost"}]
      /\ \A v \in Uploaders : v # u => pc'[v] = pc[v]
      /\ pc'[u] \in Busy
      /\ pc'[u] = "rename" => whole'[f] \/ f \in cut'
  <2>1. CASE /\ len[f] < Chunks /\ len' = [len EXCEPT ![f] = @ + 1]
             /\ UNCHANGED <<whole, pc, cut>>
    <3>1. len[f] + 1 \in 0 .. Chunks
      BY <1>0, <1>1, <2>1, BoundsAssumption DEF TypeOK
    <3> QED BY <1>0, <1>1, <2>1, <3>1 DEF TypeOK
  <2>2. CASE /\ whole' = [whole EXCEPT ![f] = TRUE] /\ pc' = [pc EXCEPT ![u] = "rename"]
             /\ UNCHANGED <<len, cut>>
    BY <1>0, <1>1, <2>2 DEF TypeOK, Busy
  <2>3. CASE /\ \E k \in 0 .. len[f] : len' = [len EXCEPT ![f] = k]
             /\ cut' = cut \cup {f} /\ pc' = [pc EXCEPT ![u] = "rename"]
             /\ UNCHANGED whole
    <3>1. PICK k \in 0 .. len[f] : len' = [len EXCEPT ![f] = k]
      BY <2>3
    <3>2. k \in 0 .. Chunks
      BY <1>0, <1>1, BoundsAssumption DEF TypeOK
    <3> QED BY <1>0, <1>1, <2>3, <3>1, <3>2 DEF TypeOK, Busy
  <2> QED BY <2>1, <2>2, <2>3 DEF Copy, Close, uploads, world
<1>4. TypeOK'
  BY <1>0, <1>2, <1>3 DEF TypeOK, reads, world
<1>5. ASSUME NEW v \in Uploaders PROVE UploadOK(v)'
  <2>1. CASE v = u
    BY <1>0, <1>2, <1>3, <2>1 DEF UploadOK, Busy, Complete
  <2>2. CASE v # u
    <3>1. pc'[v] = pc[v] /\ UploadOK(v)
      BY <1>3, <2>2
    <3>2. pc[v] = "rename" => out[v] \in Files /\ out[v] # f
      BY <1>1, <2>2, <3>1 DEF UploadOK, Busy
    <3> QED BY <1>2, <1>3, <3>1, <3>2 DEF UploadOK, Complete
  <2> QED BY <2>1, <2>2
<1>6. ShownOK'
  BY <1>1, <1>2, <1>3 DEF ShownOK, Shown, Complete, reads
<1>7. SizesOK'
  <2> SUFFICES ASSUME NEW d \in Downloads, fd[d] # None PROVE len'[fd[d]] = announced[d]
    BY <1>2 DEF SizesOK, reads
  <2>1. fd[d] \in Files /\ Shown(fd[d])
    BY <1>0 DEF TypeOK, Shown
  <2> QED BY <1>1, <1>3, <2>1 DEF SizesOK
<1>8. ListOK'
  BY <1>2 DEF ListOK, reads
<1>9. NoTempLeft'
  <2> SUFFICES ASSUME NEW g \in temps, g \notin orphans
               PROVE  out[g[1]] = g /\ pc'[g[1]] \in Busy
    BY <1>2 DEF NoTempLeft, world, Busy
  <2>1. g[1] \in Uploaders
    BY <1>0, FilesAre DEF TypeOK
  <2>2. out[g[1]] = g /\ pc[g[1]] \in Busy
    BY DEF NoTempLeft, Busy
  <2> QED BY <1>3, <2>1, <2>2
<1> QED BY <1>4, <1>5, <1>6, <1>7, <1>8, <1>9

\* CopyFails and RenameFails.
LEMMA DiscardOK ==
    ASSUME IInv, NEW u \in Uploaders, CopyFails(u) \/ RenameFails(u)
    PROVE  IInv'
<1> USE DEF IInv
<1> DEFINE f == out[u]
<1>0. TypeOK /\ pc[u] \in Busy
  BY DEF CopyFails, RenameFails, Busy
<1>1. /\ f \in Files /\ f[1] = u /\ \A g \in Files : Shown(g) => g # f
      /\ \A v \in Uploaders : out[v] = f => v = u
  BY <1>0, Private
<1>2. /\ temps' = temps \ {f}
      /\ len' = [len EXCEPT ![f] = 0]
      /\ whole' = [whole EXCEPT ![f] = FALSE]
      /\ pc' = [pc EXCEPT ![u] = "failed"]
      /\ target' = [target EXCEPT ![u] = None]
      /\ out' = [out EXCEPT ![u] = None]
      /\ UNCHANGED <<entry, count, saved, reads, world>>
  BY DEF CopyFails, RenameFails, Discard, PartOver
<1>3. /\ \A g \in Files : g # f => len'[g] = len[g] /\ whole'[g] = whole[g]
      /\ pc'[u] = "failed" /\ out'[u] = None
      /\ \A v \in Uploaders : v # u =>
            pc'[v] = pc[v] /\ target'[v] = target[v] /\ out'[v] = out[v]
  BY <1>0, <1>1, <1>2 DEF TypeOK
<1>4. TypeOK'
  <2>1. /\ len' \in [Files -> 0 .. Chunks] /\ whole' \in [Files -> BOOLEAN]
        /\ temps' \subseteq Files
    BY <1>0, <1>1, <1>2, BoundsAssumption DEF TypeOK
  <2>2. /\ pc' \in [Uploaders -> {"parts", "copy", "rename", "saved", "failed", "lost"}]
        /\ target' \in [Uploaders -> Names \cup {None}]
        /\ out' \in [Uploaders -> Files \cup {None}]
    BY <1>0, <1>2 DEF TypeOK
  <2> QED BY <1>0, <1>2, <2>1, <2>2 DEF TypeOK, reads, world
<1>5. ASSUME NEW v \in Uploaders PROVE UploadOK(v)'
  <2>1. CASE v = u
    BY <1>3, <2>1 DEF UploadOK, Busy
  <2>2. CASE v # u
    <3>1. pc[v] = "rename" => out[v] \in Files /\ out[v] # f
      BY <1>1, <2>2 DEF UploadOK, Busy
    <3>2. pc'[v] = pc[v] /\ target'[v] = target[v] /\ out'[v] = out[v] /\ UNCHANGED <<saved, count>>
      BY <1>2, <1>3, <2>2
    <3> QED BY <1>2, <1>3, <3>1, <3>2 DEF UploadOK, Complete, world
  <2> QED BY <2>1, <2>2
<1>6. ShownOK'
  <2> SUFFICES ASSUME NEW g \in Files, Shown(g)'
               PROVE  Complete(g)' /\ g[2] <= count'[g[1]] /\ out'[g[1]] # g
    BY DEF ShownOK
  <2>1. Shown(g)
    BY <1>2 DEF Shown, reads
  <2>2. g[1] \in Uploaders /\ Complete(g) /\ g[2] <= count[g[1]] /\ out[g[1]] # g
    BY <2>1, FilesAre DEF ShownOK
  <2>3. out'[g[1]] # g
    BY <1>3, <2>2, FilesAre
  <2> QED BY <1>1, <1>2, <1>3, <2>1, <2>2, <2>3 DEF Complete, world
<1>7. SizesOK'
  <2> SUFFICES ASSUME NEW d \in Downloads, fd[d] # None PROVE len'[fd[d]] = announced[d]
    BY <1>2 DEF SizesOK, reads
  <2>1. fd[d] \in Files /\ Shown(fd[d])
    BY <1>0 DEF TypeOK, Shown
  <2> QED BY <1>1, <1>3, <2>1 DEF SizesOK
<1>8. ListOK'
  BY <1>2 DEF ListOK, reads
<1>9. NoTempLeft'
  <2> SUFFICES ASSUME NEW g \in temps, g # f, g \notin orphans
               PROVE  out'[g[1]] = g /\ pc'[g[1]] \in Busy
    BY <1>2 DEF NoTempLeft, world, Busy
  <2>1. g[1] \in Uploaders
    BY <1>0, FilesAre DEF TypeOK
  <2>2. out[g[1]] = g /\ pc[g[1]] \in Busy
    BY DEF NoTempLeft, Busy
  <2> QED BY <1>3, <2>1, <2>2
<1> QED BY <1>4, <1>5, <1>6, <1>7, <1>8, <1>9

LEMMA RenameOK == ASSUME IInv, NEW u \in Uploaders, Rename(u) PROVE IInv'
<1> USE DEF IInv
<1> DEFINE f == out[u]
           t == target[u]
<1>0. TypeOK /\ pc[u] = "rename" /\ pc[u] \in Busy
  BY DEF Rename, Busy
<1>1. /\ f \in Files /\ f[1] = u /\ f[2] = count[u] /\ f = <<u, count[u]>>
      /\ count[u] \in Nat \ {0}
      /\ t \in Names /\ Complete(f)
  BY <1>0, Private DEF UploadOK
<1>2. /\ temps' = temps \ {f}
      /\ entry' = [entry EXCEPT ![t] = f]
      /\ saved' = [saved EXCEPT ![u] = @ \cup {f}]
      /\ pc' = [pc EXCEPT ![u] = "parts"]
      /\ target' = [target EXCEPT ![u] = None]
      /\ out' = [out EXCEPT ![u] = None]
      /\ UNCHANGED <<len, whole, count, reads, world>>
  BY DEF Rename, PartOver
<1>3. /\ entry'[t] = f /\ \A n \in Names : n # t => entry'[n] = entry[n]
      /\ pc'[u] = "parts" /\ out'[u] = None /\ saved'[u] = saved[u] \cup {f}
      /\ \A v \in Uploaders : v # u => /\ pc'[v] = pc[v] /\ target'[v] = target[v]
                                       /\ out'[v] = out[v] /\ saved'[v] = saved[v]
  BY <1>0, <1>1, <1>2 DEF TypeOK
<1>4. TypeOK'
  <2>1. entry' \in [Names -> Files \cup {None}] /\ temps' \subseteq Files
    BY <1>0, <1>1, <1>2 DEF TypeOK
  <2>2. /\ pc' \in [Uploaders -> {"parts", "copy", "rename", "saved", "failed", "lost"}]
        /\ target' \in [Uploaders -> Names \cup {None}]
        /\ out' \in [Uploaders -> Files \cup {None}]
    BY <1>0, <1>2 DEF TypeOK
  <2>3. saved' \in [Uploaders -> SUBSET Files]
    BY <1>0, <1>1, <1>2 DEF TypeOK
  <2> QED BY <1>0, <1>2, <2>1, <2>2, <2>3 DEF TypeOK, reads, world
<1>5. ASSUME NEW v \in Uploaders PROVE UploadOK(v)'
  <2>1. CASE v = u
    <3>1. saved[u] = {<<u, k>> : k \in 1 .. (count[u] - 1)}
      BY <1>0 DEF UploadOK
    <3>2. saved'[u] = {<<u, k>> : k \in 1 .. (count[u] - 1)} \cup {<<u, count[u]>>}
      BY <1>1, <1>3, <3>1
    <3>3. \A k : k \in 1 .. count[u] <=> k \in 1 .. (count[u] - 1) \/ k = count[u]
      BY <1>1
    <3>4. saved'[u] = {<<u, k>> : k \in 1 .. count[u]}
      BY <3>2, <3>3
    <3> QED BY <1>2, <1>3, <2>1, <3>4 DEF UploadOK, Busy
  <2>2. CASE v # u
    BY <1>2, <1>3, <2>2 DEF UploadOK, Complete, world
  <2> QED BY <2>1, <2>2
<1>6. ShownOK'
  <2> SUFFICES ASSUME NEW g \in Files, Shown(g)'
               PROVE  Complete(g) /\ g[2] <= count[g[1]] /\ out'[g[1]] # g
    BY <1>2 DEF ShownOK, Complete, world
  <2>1. g[1] \in Uploaders /\ g[2] \in Nat /\ g # None
    BY FilesAre
  <2>2. CASE g = f
    BY <1>1, <1>3, <2>1, <2>2
  <2>3. CASE g # f
    <3>1. Shown(g)
      BY <1>2, <1>3, <2>3 DEF Shown, reads
    <3>2. Complete(g) /\ g[2] <= count[g[1]] /\ out[g[1]] # g
      BY <3>1 DEF ShownOK
    <3> QED BY <1>3, <2>1, <3>2
  <2> QED BY <2>2, <2>3
<1>7. SizesOK'
  BY <1>2 DEF SizesOK, reads
<1>8. ListOK'
  <2> SUFFICES ASSUME NEW l \in Lists, NEW n \in steady[l]
               PROVE  entry'[n] # None /\ (n \in todo[l] \/ \E x \in listed[l] : x[1] = n)
    BY <1>2 DEF ListOK, reads
  <2>1. n \in Names
    BY <1>0 DEF TypeOK
  <2>2. entry[n] # None /\ (n \in todo[l] \/ \E x \in listed[l] : x[1] = n)
    BY DEF ListOK
  <2>3. f # None
    BY <1>1, FilesAre
  <2> QED BY <1>3, <2>1, <2>2, <2>3
<1>9. NoTempLeft'
  <2> SUFFICES ASSUME NEW g \in temps, g # f, g \notin orphans
               PROVE  out'[g[1]] = g /\ pc'[g[1]] \in Busy
    BY <1>2 DEF NoTempLeft, world, Busy
  <2>1. g[1] \in Uploaders
    BY <1>0, FilesAre DEF TypeOK
  <2>2. out[g[1]] = g /\ pc[g[1]] \in Busy
    BY DEF NoTempLeft, Busy
  <2> QED BY <1>3, <2>1, <2>2
<1> QED BY <1>4, <1>5, <1>6, <1>7, <1>8, <1>9

\* Delete, Open, ReadDir and Info leave the uploads and all files alone.
LEMMA OthersOK ==
    ASSUME IInv, TypeOK', UNCHANGED <<temps, len, whole, uploads, world>>,
           \A f \in Files : Shown(f)' => Shown(f)
    PROVE  /\ \A u \in Uploaders : UploadOK(u)'
           /\ ShownOK'
           /\ NoTempLeft'
<1> USE DEF IInv
<1>1. \A u \in Uploaders : UploadOK(u)'
  BY DEF UploadOK, uploads, Complete, world
<1>2. ShownOK'
  BY DEF ShownOK, uploads, Complete, world
<1>3. NoTempLeft'
  BY DEF NoTempLeft, uploads, world
<1> QED BY <1>1, <1>2, <1>3

LEMMA DeleteOK == ASSUME IInv, NEW n \in Names, Delete(n) PROVE IInv'
<1> USE DEF IInv
<1>0. TypeOK
  OBVIOUS
<1>1. /\ entry' = [entry EXCEPT ![n] = None]
      /\ steady' = [l \in Lists |-> steady[l] \ {n}]
      /\ UNCHANGED <<temps, len, whole, uploads, fd, announced, todo, listed, world>>
  BY DEF Delete
<1>2. \A m \in Names : entry'[m] = IF m = n THEN None ELSE entry[m]
  BY <1>0, <1>1 DEF TypeOK
<1>3. TypeOK'
  BY <1>0, <1>1 DEF TypeOK, uploads, world
<1>4. \A f \in Files : Shown(f)' => Shown(f)
  BY <1>1, <1>2, FilesAre DEF Shown
<1>5. SizesOK'
  BY <1>1 DEF SizesOK
<1>6. ListOK'
  <2> SUFFICES ASSUME NEW l \in Lists, NEW m \in steady[l], m # n
               PROVE  entry'[m] # None /\ (m \in todo[l] \/ \E x \in listed[l] : x[1] = m)
    BY <1>1 DEF ListOK
  <2>1. m \in Names
    BY <1>0 DEF TypeOK
  <2> QED BY <1>2, <2>1 DEF ListOK
<1> QED BY <1>1, <1>3, <1>4, <1>5, <1>6, OthersOK

LEMMA OpenOK ==
    ASSUME IInv, NEW d \in Downloads, NEW n \in Names, Open(d, n)
    PROVE  IInv'
<1> USE DEF IInv
<1> DEFINE f == entry[n]
<1>0. TypeOK /\ f \in Files
  BY DEF Open, TypeOK
<1>1. /\ fd' = [fd EXCEPT ![d] = f]
      /\ announced' = [announced EXCEPT ![d] = len[f]]
      /\ UNCHANGED <<folder, uploads, todo, listed, steady, world>>
  BY DEF Open
<1>2. /\ \A e \in Downloads : fd'[e] = IF e = d THEN f ELSE fd[e]
      /\ \A e \in Downloads : announced'[e] = IF e = d THEN len[f] ELSE announced[e]
  BY <1>0, <1>1 DEF TypeOK
<1>3. TypeOK'
  <2>1. fd' \in [Downloads -> Files \cup {None}] /\ announced' \in [Downloads -> 0 .. Chunks]
    BY <1>0, <1>1 DEF TypeOK
  <2> QED BY <1>0, <1>1, <2>1 DEF TypeOK, folder, uploads, world
<1>4. \A g \in Files : Shown(g)' => Shown(g)
  BY <1>1, <1>2 DEF Shown, folder
<1>5. SizesOK'
  BY <1>1, <1>2 DEF SizesOK, folder
<1>6. ListOK'
  BY <1>1 DEF ListOK, folder
<1> QED BY <1>1, <1>3, <1>4, <1>5, <1>6, OthersOK DEF folder

LEMMA ReadDirOK == ASSUME IInv, NEW l \in Lists, ReadDir(l) PROVE IInv'
<1> USE DEF IInv
<1>0. TypeOK /\ Present \subseteq Names
  BY DEF Present
<1>1. /\ todo' = [todo EXCEPT ![l] = Present \cup temps]
      /\ steady' = [steady EXCEPT ![l] = Present]
      /\ UNCHANGED <<folder, uploads, fd, announced, listed, world>>
  BY DEF ReadDir
<1>2. TypeOK'
  <2>1. todo' \in [Lists -> Folders \cup {None}]
    <3>1. Present \cup temps \in Folders
      BY <1>0 DEF TypeOK, Folders
    <3> QED BY <1>0, <1>1, <3>1 DEF TypeOK
  <2>2. steady' \in [Lists -> SUBSET Names]
    BY <1>0, <1>1 DEF TypeOK
  <2> QED BY <1>0, <1>1, <2>1, <2>2 DEF TypeOK, folder, uploads, world
<1>3. \A f \in Files : Shown(f)' => Shown(f)
  BY <1>1 DEF Shown, folder
<1>4. SizesOK'
  BY <1>1 DEF SizesOK, folder
<1>5. ListOK'
  <2> SUFFICES ASSUME NEW k \in Lists, NEW n \in steady'[k]
               PROVE  entry[n] # None /\ (n \in todo'[k] \/ \E x \in listed[k] : x[1] = n)
    BY <1>1 DEF ListOK, folder
  <2>1. CASE k = l
    BY <1>0, <1>1, <2>1 DEF TypeOK, Present
  <2>2. CASE k # l
    BY <1>0, <1>1, <2>2 DEF TypeOK, ListOK
  <2> QED BY <2>1, <2>2
<1> QED BY <1>1, <1>2, <1>3, <1>4, <1>5, OthersOK DEF folder

LEMMA InfoOK ==
    ASSUME IInv, NEW l \in Lists, NEW e \in Names \cup Files, Info(l, e)
    PROVE  IInv'
<1> USE DEF IInv
<1> DEFINE more == IF e \in Present THEN listed[l] \cup {<<e, entry[e]>>} ELSE listed[l]
<1>0. TypeOK /\ todo[l] # None /\ e \in todo[l]
  BY DEF Info
<1>1. /\ todo' = [todo EXCEPT ![l] = @ \ {e}]
      /\ listed' = [listed EXCEPT ![l] = more]
      /\ UNCHANGED <<folder, uploads, fd, announced, steady, world>>
  BY <1>0 DEF Info, TypeOK
<1>2. e \in Present => e \in Names /\ entry[e] \in Files
  BY <1>0 DEF Present, TypeOK
<1>3. /\ \A k \in Lists : listed'[k] = IF k = l THEN more ELSE listed[k]
      /\ \A k \in Lists : todo'[k] = IF k = l THEN todo[l] \ {e} ELSE todo[k]
  BY <1>0, <1>1 DEF TypeOK
<1>4. \A x \in more : x \in listed[l] \/ (e \in Present /\ x = <<e, entry[e]>>)
  OBVIOUS
<1>5. listed[l] \subseteq more /\ (e \in Present => <<e, entry[e]>> \in more)
  OBVIOUS
<1> HIDE DEF more
<1>6. TypeOK'
  <2>1. todo[l] \ {e} \in Folders
    <3>1. todo[l] \in Folders
      BY <1>0 DEF TypeOK
    <3> QED BY <3>1 DEF Folders
  <2>2. todo' \in [Lists -> Folders \cup {None}]
    BY <1>0, <1>1, <2>1 DEF TypeOK
  <2>3. more \subseteq (Names \cup Files) \X Files
    BY <1>0, <1>2, <1>4 DEF TypeOK
  <2>4. listed' \in [Lists -> SUBSET ((Names \cup Files) \X Files)]
    BY <1>0, <1>1, <2>3 DEF TypeOK
  <2> QED BY <1>0, <1>1, <2>2, <2>4 DEF TypeOK, folder, uploads, world
<1>7. \A f \in Files : Shown(f)' => Shown(f)
  <2> SUFFICES ASSUME NEW f \in Files, Shown(f)' PROVE Shown(f)
    OBVIOUS
  <2>1. CASE \E x \in more : x[2] = f
    BY <1>2, <1>4, <2>1 DEF Shown
  <2>2. CASE ~ \E x \in more : x[2] = f
    BY <1>1, <1>3, <2>2 DEF Shown, folder
  <2> QED BY <2>1, <2>2
<1>8. SizesOK'
  BY <1>1 DEF SizesOK, folder
<1>9. ListOK'
  <2> SUFFICES ASSUME NEW k \in Lists, NEW n \in steady[k]
               PROVE  entry[n] # None /\ (n \in todo'[k] \/ \E x \in listed'[k] : x[1] = n)
    BY <1>1 DEF ListOK, folder
  <2>1. n \in Names /\ entry[n] # None /\ (n \in todo[k] \/ \E x \in listed[k] : x[1] = n)
    BY <1>0 DEF TypeOK, ListOK
  <2>2. CASE k # l
    BY <1>3, <2>1, <2>2
  <2>3. CASE k = l /\ n = e
    <3>1. <<n, entry[n]>> \in more
      BY <1>5, <2>1, <2>3 DEF Present
    <3>2. <<n, entry[n]>>[1] = n
      OBVIOUS
    <3> QED BY <1>3, <2>1, <2>3, <3>1, <3>2
  <2>4. CASE k = l /\ n # e
    BY <1>3, <1>5, <2>1, <2>4
  <2> QED BY <2>2, <2>3, <2>4
<1> QED BY <1>1, <1>6, <1>7, <1>8, <1>9, OthersOK DEF folder

LEMMA RestartOK == ASSUME IInv, Restart PROVE IInv'
<1> USE DEF IInv
<1>0. TypeOK
  OBVIOUS
<1>1. /\ target' = [u \in Uploaders |-> None]
      /\ out' = [u \in Uploaders |-> None]
      /\ fd' = [d \in Downloads |-> None]
      /\ announced' = [d \in Downloads |-> 0]
      /\ todo' = [l \in Lists |-> None]
      /\ listed' = [l \in Lists |-> {}]
      /\ steady' = [l \in Lists |-> {}]
      /\ orphans' = orphans \cup temps
      /\ UNCHANGED <<folder, count, saved, cut>>
  BY DEF Restart
<1>2. /\ pc' \in [Uploaders -> {"parts", "copy", "rename", "saved", "failed", "lost"}]
      /\ \A u \in Uploaders : pc'[u] = "lost" \/ (pc'[u] = pc[u] /\ pc[u] \notin Busy)
  BY <1>0 DEF Restart, TypeOK, Busy
<1>3. TypeOK'
  <2>1. restarts' \in 0 .. MaxRestarts
    BY <1>0, BoundsAssumption DEF Restart, TypeOK
  <2>2. /\ target' \in [Uploaders -> Names \cup {None}]
        /\ out' \in [Uploaders -> Files \cup {None}]
        /\ fd' \in [Downloads -> Files \cup {None}]
        /\ announced' \in [Downloads -> 0 .. Chunks]
    BY <1>1, BoundsAssumption
  <2>3. todo' \in [Lists -> Folders \cup {None}]
    BY <1>1
  <2>4. listed' \in [Lists -> SUBSET ((Names \cup Files) \X Files)]
    <3>1. {} \in SUBSET ((Names \cup Files) \X Files)
      BY Zenon
    <3> QED BY <1>1, <3>1
  <2>5. steady' \in [Lists -> SUBSET Names] /\ orphans' \subseteq Files
    BY <1>0, <1>1 DEF TypeOK
  <2> QED BY <1>0, <1>1, <1>2, <2>1, <2>2, <2>3, <2>4, <2>5 DEF TypeOK, folder
<1>4. ASSUME NEW u \in Uploaders PROVE UploadOK(u)'
  BY <1>1, <1>2 DEF UploadOK, Busy
<1>5. ShownOK'
  <2> SUFFICES ASSUME NEW f \in Files, Shown(f)'
               PROVE  Complete(f)' /\ f[2] <= count[f[1]] /\ out'[f[1]] # f
    BY <1>1 DEF ShownOK, folder
  <2>1. f # None /\ f[1] \in Uploaders
    BY FilesAre
  <2>2. Shown(f)
    BY <1>1, <2>1 DEF Shown, folder
  <2> QED BY <1>1, <2>1, <2>2 DEF ShownOK, Complete, folder
<1>6. SizesOK' /\ ListOK' /\ NoTempLeft'
  BY <1>1 DEF SizesOK, ListOK, NoTempLeft, folder
<1> QED BY <1>3, <1>4, <1>5, <1>6

LEMMA NextOK == IInv /\ [Next]_vars => IInv'
<1> SUFFICES ASSUME IInv, [Next]_vars PROVE IInv'
  OBVIOUS
<1>1. CASE UNCHANGED vars
  BY <1>1 DEF vars, folder, uploads, reads, world, IInv, TypeOK, UploadOK, ShownOK, Shown,
              SizesOK, ListOK, NoTempLeft, Complete
<1>2. ASSUME NEW u \in Uploaders,
             \/ Refuse(u) \/ Finish(u) \/ Copy(u) \/ Close(u) \/ CopyFails(u)
             \/ Rename(u) \/ RenameFails(u)
             \/ \E n \in Names : NextPart(u, n)
      PROVE  IInv'
  BY <1>2, OverOK, CopyOK, DiscardOK, RenameOK, NextPartOK
<1>3. ASSUME NEW n \in Names, Delete(n) \/ \E d \in Downloads : Open(d, n) PROVE IInv'
  BY <1>3, DeleteOK, OpenOK
<1>4. ASSUME NEW l \in Lists, ReadDir(l) \/ \E e \in Names \cup Files : Info(l, e) PROVE IInv'
  BY <1>4, ReadDirOK, InfoOK
<1>5. CASE Restart
  BY <1>5, RestartOK
<1> QED BY <1>1, <1>2, <1>3, <1>4, <1>5 DEF Next

LEMMA Invariant == Spec => []IInv
BY InitOK, NextOK, PTL DEF Spec

-----------------------------------------------------------------------------
(* The theorems.                                                            *)

\* The variables of the model keep their types.
THEOREM TypeCorrect == Spec => []TypeOK
BY Invariant, PTL DEF IInv

\* No name of the folder is ever for half a file, unless its Close failed
\* (upload).
THEOREM FilesAlwaysWhole == Spec => []FilesAreWhole
<1>1. IInv => FilesAreWhole
  BY DEF IInv, TypeOK, ShownOK, Shown, FilesAreWhole
<1> QED BY <1>1, Invariant, PTL

\* A download never gets anything but all of one upload, or what its Close
\* left of it (download).
THEOREM DownloadsAreOneVersion == Spec => []DownloadIsOneVersion
<1>1. IInv => DownloadIsOneVersion
  BY DEF IInv, TypeOK, ShownOK, Shown, SizesOK, DownloadIsOneVersion
<1> QED BY <1>1, Invariant, PTL

\* What an upload says it has saved is all it was sent (upload).
THEOREM SavedAlwaysMeansAll == Spec => []SavedMeansAll
<1>1. IInv => SavedMeansAll
  BY DEF IInv, UploadOK, SavedMeansAll
<1> QED BY <1>1, Invariant, PTL

\* Failures remove their temporary files (upload).
THEOREM TempsAreRemoved == Spec => []NoTempLeft
BY Invariant, PTL DEF IInv

\* Listings are fair to files that stay and show whole files only (listFiles).
THEOREM ListingsAreFair == Spec => []ListingIsFair
<1>1. IInv => ListingIsFair
  <2> SUFFICES ASSUME IInv, NEW l \in Lists
               PROVE  /\ \A x \in listed[l] : Complete(x[2])
                      /\ todo[l] = {} => steady[l] \subseteq {x[1] : x \in listed[l]}
    BY DEF ListingIsFair
  <2>1. ASSUME NEW x \in listed[l] PROVE Complete(x[2])
    <3>1. x[2] \in Files /\ Shown(x[2])
      BY <2>1 DEF IInv, TypeOK, Shown
    <3> QED BY <3>1 DEF IInv, ShownOK
  <2>2. ASSUME todo[l] = {}, NEW n \in steady[l] PROVE n \in {x[1] : x \in listed[l]}
    BY <2>2 DEF IInv, ListOK
  <2> QED BY <2>1, <2>2
<1> QED BY <1>1, Invariant, PTL
=============================================================================
