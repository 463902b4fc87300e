------------------------------- MODULE Uploads -------------------------------
(***************************************************************************)
(* The folder of the upload and download example and the requests that use  *)
(* it at once: upload, download, listFiles and deleteFile of                *)
(* examples/upload-download/main.go.                                        *)
(*                                                                         *)
(* A file's contents are known by the part of an upload they come from, and *)
(* by how many chunks of it have been written.  Temporary files have dot    *)
(* names of their own.  Sign-in, parts of a form that are not files and     *)
(* media types are left out; folders in the folder only make a rename fail. *)
(***************************************************************************)
EXTENDS Naturals

CONSTANTS
    Uploaders, Downloads, Lists,   \* requests, each made once
    Names,                         \* file names
    None,
    MaxParts,                      \* bound: files of each upload
    Chunks,                        \* bound: size of a file
    MaxRestarts                    \* bound

ASSUME BoundsAssumption == /\ MaxParts \in [Uploaders -> Nat \ {0}]
                           /\ Chunks \in Nat
                           /\ MaxRestarts \in Nat
ASSUME NoneAssumption == None \notin Names \cup (Uploaders \X (Nat \ {0}))

VARIABLES
    entry,      \* the file a name of the folder is for
    temps,      \* files that have temporary names
    len, whole, \* the chunks in a file; io.Copy and Close returned no error
    pc,         \* where an upload is
    count,      \* the parts it has met
    target,     \* the name of the last
    out,        \* the file that part is copied to
    saved,      \* the files it has renamed
    fd,         \* the file a download has open
    announced,  \* the size it was told
    todo,       \* entries a listing has still to look at
    listed,     \* the files in its answer
    steady,     \* names that were there ever since a listing began
    cut,        \* files whose Close failed, after which nobody knows what is in them
    orphans,    \* temporary files of a process that has gone
    restarts

folder  == <<entry, temps, len, whole>>
uploads == <<pc, count, target, out, saved>>
reads   == <<fd, announced, todo, listed, steady>>
world   == <<cut, orphans, restarts>>
vars    == <<folder, uploads, reads, world>>

Files == UNION {{u} \X (1 .. MaxParts[u]) : u \in Uploaders}
Part(u) == <<u, count[u] + 1>>
Present == {n \in Names : entry[n] # None}

Init ==
    /\ entry = [n \in Names |-> None]
    /\ temps = {}
    /\ len = [f \in Files |-> 0]
    /\ whole = [f \in Files |-> FALSE]
    /\ pc = [u \in Uploaders |-> "parts"]
    /\ count = [u \in Uploaders |-> 0]
    /\ target = [u \in Uploaders |-> None]
    /\ out = [u \in Uploaders |-> None]
    /\ saved = [u \in Uploaders |-> {}]
    /\ fd = [d \in Downloads |-> None]
    /\ announced = [d \in Downloads |-> 0]
    /\ todo = [l \in Lists |-> None]
    /\ listed = [l \in Lists |-> {}]
    /\ steady = [l \in Lists |-> {}]
    /\ cut = {}
    /\ orphans = {}
    /\ restarts = 0

-----------------------------------------------------------------------------
(* upload.                                                                  *)

\* Mutant of NextPart: the file is created under its own name.
CreateInPlace(u, n) ==
    LET f == IF entry[n] = None THEN Part(u) ELSE entry[n] IN
    /\ pc[u] = "parts"
    /\ count[u] < MaxParts[u]
    /\ entry' = [entry EXCEPT ![n] = f]
    /\ len' = [len EXCEPT ![f] = 0]
    /\ whole' = [whole EXCEPT ![f] = FALSE]
    /\ count' = [count EXCEPT ![u] = @ + 1]
    /\ target' = [target EXCEPT ![u] = n]
    /\ out' = [out EXCEPT ![u] = f]
    /\ pc' = [pc EXCEPT ![u] = "copy"]
    /\ UNCHANGED <<temps, saved, reads, world>>

\* Upload u is done with its part, and goes on to p.
PartOver(u, p) ==
    /\ pc' = [pc EXCEPT ![u] = p]
    /\ target' = [target EXCEPT ![u] = None]
    /\ out' = [out EXCEPT ![u] = None]

\* os.Remove of the temporary file.
Discard(u) ==
    /\ temps' = temps \ {out[u]}
    /\ len' = [len EXCEPT ![out[u]] = 0]
    /\ whole' = [whole EXCEPT ![out[u]] = FALSE]
    /\ UNCHANGED entry

\* The next part is a file with a good name: os.CreateTemp.
NextPart(u, n) ==
    /\ pc[u] = "parts"
    /\ count[u] < MaxParts[u]
    /\ temps' = temps \cup {Part(u)}
    /\ out' = [out EXCEPT ![u] = Part(u)]
    /\ count' = [count EXCEPT ![u] = @ + 1]
    /\ target' = [target EXCEPT ![u] = n]
    /\ pc' = [pc EXCEPT ![u] = "copy"]
    /\ UNCHANGED <<entry, len, whole, saved, reads, world>>

\* The body cannot be read on, the name is a bad one, or no temporary file
\* can be created: an error is answered, whatever was saved before.
Refuse(u) ==
    /\ pc[u] = "parts"
    /\ pc' = [pc EXCEPT ![u] = "failed"]
    /\ UNCHANGED <<folder, count, target, out, saved, reads, world>>

\* The body has ended as a form does.
Finish(u) ==
    /\ pc[u] = "parts"
    /\ pc' = [pc EXCEPT ![u] = IF saved[u] = {} THEN "failed" ELSE "saved"]
    /\ UNCHANGED <<folder, count, target, out, saved, reads, world>>

\* io.Copy writes.
Copy(u) ==
    /\ pc[u] = "copy"
    /\ len[out[u]] < Chunks
    /\ len' = [len EXCEPT ![out[u]] = @ + 1]
    /\ UNCHANGED <<entry, temps, whole, uploads, reads, world>>

\* io.Copy meets the end of the part, and the file is closed.  The error of
\* Close is ignored, also when it says that something was not written.
Close(u) ==
    /\ pc[u] = "copy"
    /\ \/ /\ whole' = [whole EXCEPT ![out[u]] = TRUE]
          /\ UNCHANGED <<len, cut>>
       \/ /\ \E k \in 0 .. len[out[u]] : len' = [len EXCEPT ![out[u]] = k]
          /\ cut' = cut \cup {out[u]}
          /\ UNCHANGED whole
    /\ pc' = [pc EXCEPT ![u] = "rename"]
    /\ UNCHANGED <<entry, temps, count, target, out, saved, reads, orphans, restarts>>

\* Mutant of CopyFails: the broken part is left out, and the next read.
SkipBroken(u) ==
    /\ pc[u] = "copy"
    /\ Discard(u)
    /\ PartOver(u, "parts")
    /\ UNCHANGED <<count, saved, reads, world>>

\* Mutant of CopyFails: what was copied is renamed.
RenameAnyway(u) ==
    /\ pc[u] = "copy"
    /\ pc' = [pc EXCEPT ![u] = "rename"]
    /\ UNCHANGED <<folder, count, target, out, saved, reads, world>>

\* The body breaks off within a part, or is over the limit, or the disk full.
CopyFails(u) ==
    /\ pc[u] = "copy"
    /\ Discard(u)
    /\ PartOver(u, "failed")
    /\ UNCHANGED <<count, saved, reads, world>>

\* Mutant of RenameFails: the temporary file is left.
LeaveTemp(u) ==
    /\ pc[u] = "rename"
    /\ PartOver(u, "failed")
    /\ UNCHANGED <<folder, count, saved, reads, world>>

\* os.Rename fails, as it does when the target is a folder.
RenameFails(u) ==
    /\ pc[u] = "rename"
    /\ Discard(u)
    /\ PartOver(u, "failed")
    /\ UNCHANGED <<count, saved, reads, world>>

\* os.Rename puts the file in the place of what had the name.
Rename(u) ==
    /\ pc[u] = "rename"
    /\ temps' = temps \ {out[u]}
    /\ entry' = [entry EXCEPT ![target[u]] = out[u]]
    /\ saved' = [saved EXCEPT ![u] = @ \cup {out[u]}]
    /\ PartOver(u, "parts")
    /\ UNCHANGED <<len, whole, count, reads, world>>

-----------------------------------------------------------------------------
(* deleteFile, download, listFiles.                                         *)

Delete(n) ==
    /\ entry[n] # None
    /\ entry' = [entry EXCEPT ![n] = None]
    /\ steady' = [l \in Lists |-> steady[l] \ {n}]
    /\ UNCHANGED <<temps, len, whole, uploads, fd, announced, todo, listed, world>>

\* The file is opened, and its size announced; a folder is not found.
Open(d, n) ==
    /\ fd[d] = None
    /\ entry[n] # None
    /\ fd' = [fd EXCEPT ![d] = entry[n]]
    /\ announced' = [announced EXCEPT ![d] = len[entry[n]]]
    /\ UNCHANGED <<folder, uploads, todo, listed, steady, world>>

\* os.ReadDir; the folder is taken to be read at once.
ReadDir(l) ==
    /\ todo[l] = None
    /\ todo' = [todo EXCEPT ![l] = Present \cup temps]
    /\ steady' = [steady EXCEPT ![l] = Present]
    /\ UNCHANGED <<folder, uploads, fd, announced, listed, world>>

\* Mutant of Info: an entry that is gone ends the listing.
InfoOrEnd(l, e) ==
    /\ todo[l] # None /\ e \in todo[l]
    /\ todo' = [todo EXCEPT ![l] = IF e \in Names /\ entry[e] = None THEN {} ELSE @ \ {e}]
    /\ listed' = [listed EXCEPT ![l] =
                    IF e \in Present THEN @ \cup {<<e, entry[e]>>} ELSE @]
    /\ UNCHANGED <<folder, uploads, fd, announced, steady, world>>

\* The next entry: a dot file is passed over, and what has gone since.
Info(l, e) ==
    /\ todo[l] # None /\ e \in todo[l]
    /\ todo' = [todo EXCEPT ![l] = @ \ {e}]
    /\ listed' = [listed EXCEPT ![l] =
                    IF e \in Present THEN @ \cup {<<e, entry[e]>>} ELSE @]
    /\ UNCHANGED <<folder, uploads, fd, announced, steady, world>>

-----------------------------------------------------------------------------
\* The process stops and is started again: the folder is as it was.
Restart ==
    /\ restarts < MaxRestarts
    /\ restarts' = restarts + 1
    /\ pc' = [u \in Uploaders |-> IF pc[u] \in {"copy", "rename"} \/ (pc[u] = "parts" /\ count[u] # 0)
                                  THEN "lost" ELSE pc[u]]
    /\ target' = [u \in Uploaders |-> None]
    /\ out' = [u \in Uploaders |-> None]
    /\ fd' = [d \in Downloads |-> None]
    /\ announced' = [d \in Downloads |-> 0]
    /\ todo' = [l \in Lists |-> None]
    /\ listed' = [l \in Lists |-> {}]
    /\ steady' = [l \in Lists |-> {}]
    /\ orphans' = orphans \cup temps
    /\ UNCHANGED <<folder, count, saved, cut>>

Next ==
    \/ \E u \in Uploaders :
          \/ Refuse(u) \/ Finish(u) \/ Copy(u) \/ Close(u) \/ CopyFails(u)
          \/ Rename(u) \/ RenameFails(u)
          \/ \E n \in Names : NextPart(u, n)
    \/ \E n \in Names : Delete(n) \/ \E d \in Downloads : Open(d, n)
    \/ \E l \in Lists : ReadDir(l) \/ \E e \in Names \cup Files : Info(l, e)
    \/ Restart

Spec == Init /\ [][Next]_vars

-----------------------------------------------------------------------------
\* What a folder may be found to hold.
Folders == SUBSET (Names \cup Files)

TypeOK ==
    /\ entry \in [Names -> Files \cup {None}]
    /\ temps \subseteq Files
    /\ len \in [Files -> 0 .. Chunks]
    /\ whole \in [Files -> BOOLEAN]
    /\ pc \in [Uploaders -> {"parts", "copy", "rename", "saved", "failed", "lost"}]
    /\ count \in [Uploaders -> Nat]
    /\ \A u \in Uploaders : count[u] <= MaxParts[u]
    /\ target \in [Uploaders -> Names \cup {None}]
    /\ out \in [Uploaders -> Files \cup {None}]
    /\ saved \in [Uploaders -> SUBSET Files]
    /\ fd \in [Downloads -> Files \cup {None}]
    /\ announced \in [Downloads -> 0 .. Chunks]
    /\ todo \in [Lists -> Folders \cup {None}]
    /\ listed \in [Lists -> SUBSET ((Names \cup Files) \X Files)]
    /\ steady \in [Lists -> SUBSET Names]
    /\ cut \subseteq Files
    /\ orphans \subseteq Files
    /\ restarts \in 0 .. MaxRestarts

\* All of the file is there, unless Close failed, which upload does not notice.
Complete(f) == whole[f] \/ f \in cut

\* What has a name of the folder is all of a file that was uploaded, however
\* uploads of one name cross, break off or die with the process ("so a failed
\* upload never leaves a half file in the listing", upload).  A file whose
\* Close failed is the one exception.
FilesAreWhole == \A n \in Names : entry[n] # None => Complete(entry[n])

\* A download gets all of one upload (or what Close left of it), of the size it
\* was told, also when the file is replaced or deleted under it (download opens
\* it once).
DownloadIsOneVersion ==
    \A d \in Downloads : fd[d] # None => Complete(fd[d]) /\ len[fd[d]] = announced[d]

\* The answer that lists what was saved means that every file of the request
\* was put in its place (upload).
SavedMeansAll ==
    \A u \in Uploaders : pc[u] = "saved" => saved[u] = {<<u, k>> : k \in 1 .. count[u]}

\* A temporary file belongs to an upload that is under way, or to a process
\* that has gone: every failure removes its own (os.Remove in upload).
NoTempLeft ==
    \A f \in temps : f \in orphans \/ (out[f[1]] = f /\ pc[f[1]] \in {"copy", "rename"})

\* A listing shows whole files only, and every file that was there from its
\* beginning, whatever comes and goes while it looks at one entry after the
\* other (listFiles).
ListingIsFair ==
    \A l \in Lists :
       /\ \A x \in listed[l] : Complete(x[2])
       /\ todo[l] = {} => steady[l] \subseteq {x[1] : x \in listed[l]}
=============================================================================
