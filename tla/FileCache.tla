------------------------------ MODULE FileCache ------------------------------
(***************************************************************************)
(* The directory a client serves (tunnelclient/fileserver.go) and the LRU  *)
(* cache of file contents in front of it (tunnelclient/filecache.go).      *)
(*                                                                         *)
(* A request stats the file, asks the cache, and on a miss reads the file, *)
(* stats it again and puts what it read into the cache.  The cache's       *)
(* operations hold fileCache.mu and are one action each; the calls on the  *)
(* file system are actions of their own, and another program may change    *)
(* the file between any two of them.  What a file holds is abstracted to a *)
(* version and a length.  Every change gives the file a modification time  *)
(* of its own, so the version is also the time os.Stat reports.            *)
(***************************************************************************)
EXTENDS Integers, Sequences, SequencesExt

CONSTANTS Paths,
          Requests,   \* requests the server may be handling at a time
          Sizes,      \* lengths a file may have
          MaxBytes,   \* the budget, cache_mb in the config
          Small,      \* budgets below this one have no per-file limit: 8 MB
          Share,      \* above it a file may take this fraction of it: 8
          MaxEdits,   \* bound: versions a file may go through
          None

ASSUME CacheAssumption ==
    /\ MaxBytes \in Nat /\ Small \in Nat \ {0} /\ Share \in Nat \ {0} /\ MaxEdits \in Nat
    /\ Sizes \subseteq Nat
    /\ None \notin Paths

VARIABLES disk,     \* what every path holds: a version and a length, or Gone
          entries,  \* fileCache.entries, by path
          order,    \* fileCache.order, the most recently used path first
          used,     \* fileCache.used
          req,      \* the local state of each request
          recent    \* history: the paths by their last use, cached or not

vars == <<disk, entries, order, used, req, recent>>
cache == <<entries, order, used, recent>>

-----------------------------------------------------------------------------
\* A file's contents, and what os.Stat says of it.
Contents == [version : 0..MaxEdits, size : Sizes]

\* cacheEntry: the bytes, and the stat they are filed under.
Entry == [data : Contents, info : Contents]

\* data is noted from the read on.
Request == [pc : {"idle", "stat", "miss", "read", "fresh"},
            path : Paths \cup {None},
            info : Contents \cup {None},
            data : Contents \cup {None}]

Idle == [pc |-> "idle", path |-> None, info |-> None, data |-> None]

\* A file that was removed has no length, and a version like any other.
Exists(p) == disk[p].size # None

Init ==
    /\ disk \in [Paths -> {c \in Contents : c.version = 0}]
    /\ entries = [p \in {} |-> Idle]
    /\ order = <<>>
    /\ used = 0
    /\ req = [r \in Requests |-> Idle]
    /\ recent = <<>>

Goes(r, new) == req' = [req EXCEPT ![r] = new]

\* newFileCache: one file may take an eighth of a budget that is not small.
MaxEntryBytes == IF MaxBytes < Small THEN MaxBytes ELSE MaxBytes \div Share

Cacheable(size) == size > 0 /\ size <= MaxEntryBytes

ToFront(p, seq) == <<p>> \o RemoveFirst(seq, p)

Total(numbers) ==
    LET sum[n \in 0..Len(numbers)] == IF n = 0 THEN 0 ELSE sum[n - 1] + numbers[n]
    IN sum[Len(numbers)]

\* What the listed entries of table weigh, one by one and together.
Weights(seq, table) == [i \in 1..Len(seq) |-> table[seq[i]].data.size]
Bytes(seq, table) == Total(Weights(seq, table))

Without(table, p) == [q \in DOMAIN table \ {p} |-> table[q]]

-----------------------------------------------------------------------------
(* The cache                                                               *)

\* The path has an entry, filed under this very stat.
Holds(p, info) == p \in DOMAIN entries /\ entries[p].info = info

\* fileCache.get misses: an entry filed under another stat is dropped.
Misses(p, info) ==
    /\ ~Holds(p, info)
    /\ IF p \in DOMAIN entries
       THEN /\ entries' = Without(entries, p)
            /\ order' = RemoveFirst(order, p)
            /\ used' = used - entries[p].data.size
       ELSE UNCHANGED <<entries, order, used>>
    /\ UNCHANGED recent

\* Mutant of Hits: the entry is not moved to the front.
HitsInPlace(p, info) ==
    /\ Holds(p, info)
    /\ recent' = ToFront(p, recent)
    /\ UNCHANGED <<entries, order, used>>

\* fileCache.get hits.
Hits(p, info) ==
    /\ Holds(p, info)
    /\ order' = ToFront(p, order)
    /\ recent' = ToFront(p, recent)
    /\ UNCHANGED <<entries, used>>

\* The table with an entry filed for p, in place of the one it may have.
Filed(p, data, info) ==
    [q \in DOMAIN entries \cup {p} |->
        IF q = p THEN [data |-> data, info |-> info] ELSE entries[q]]

\* Of what is listed, weighing total, entries leave from the back until the
\* budget is kept: no more of them than that takes.
EvictOldest(listed, table, total) ==
    LET Left(n) == total - Bytes(SubSeq(listed, n + 1, Len(listed)), table) IN
    \E n \in 0..Len(listed) :
        /\ n = 0 \/ Left(n) <= MaxBytes
        /\ \A m \in n + 1..Len(listed) : Left(m) > MaxBytes
        /\ order' = SubSeq(listed, 1, n)
        /\ entries' = [q \in ToSet(order') |-> table[q]]
        /\ used' = Left(n)

\* Mutant of Put: nothing is evicted.
PutUnbounded(p, data, info) ==
    /\ order' = ToFront(p, order)
    /\ entries' = Filed(p, data, info)
    /\ used' = Bytes(order', entries')
    /\ recent' = ToFront(p, recent)

\* Mutant of Put: the entry the path already has is not taken off the account.
PutOver(p, data, info) ==
    /\ EvictOldest(ToFront(p, order), Filed(p, data, info), used + data.size)
    /\ recent' = ToFront(p, recent)

\* fileCache.put of something cacheable: it replaces the path's entry and goes
\* to the front.
Put(p, data, info) ==
    LET old == IF p \in DOMAIN entries THEN entries[p].data.size ELSE 0 IN
    /\ EvictOldest(ToFront(p, order), Filed(p, data, info), used - old + data.size)
    /\ recent' = ToFront(p, recent)

-----------------------------------------------------------------------------
(* fileServer.serveFile                                                    *)

\* The handler's stat of the file the path resolves to; a file that is not
\* there is answered 404.
Stat(r) ==
    /\ req[r].pc = "idle"
    /\ \E p \in Paths :
          /\ Exists(p)
          /\ Goes(r, [req[r] EXCEPT !.pc = "stat", !.path = p, !.info = disk[p]])
    /\ UNCHANGED <<disk, cache>>

\* The cache is asked.  A hit is the answer; a miss of a file too big to hold
\* is answered from the disk.
Get(r) ==
    /\ req[r].pc = "stat"
    /\ LET p == req[r].path  info == req[r].info IN
       \/ Hits(p, info) /\ Goes(r, Idle)
       \/ /\ Misses(p, info)
          /\ Goes(r, IF Cacheable(info.size) THEN [req[r] EXCEPT !.pc = "miss"]
                     ELSE Idle)
    /\ UNCHANGED disk

\* os.ReadFile; a file that has gone is answered 500.
Read(r) ==
    /\ req[r].pc = "miss"
    /\ Goes(r, IF Exists(req[r].path)
               THEN [req[r] EXCEPT !.pc = "read", !.data = disk[req[r].path]]
               ELSE Idle)
    /\ UNCHANGED <<disk, cache>>

\* Mutant of StatAgain: what was read is filed under the first stat.
StatKept(r) ==
    /\ req[r].pc = "read"
    /\ Goes(r, [req[r] EXCEPT !.pc = "fresh"])
    /\ UNCHANGED <<disk, cache>>

\* The second stat; if it fails nothing is cached.
StatAgain(r) ==
    /\ req[r].pc = "read"
    /\ Goes(r, IF Exists(req[r].path)
               THEN [req[r] EXCEPT !.pc = "fresh", !.info = disk[req[r].path]]
               ELSE Idle)
    /\ UNCHANGED <<disk, cache>>

\* Mutant of Store: the size was checked before the read.
StoreUnchecked(r) ==
    /\ req[r].pc = "fresh"
    /\ Put(req[r].path, req[r].data, req[r].info)
    /\ Goes(r, Idle)
    /\ UNCHANGED disk

\* What was read is cached, unless the file was written to in the meantime and
\* is no longer of a size to cache.
Store(r) ==
    /\ req[r].pc = "fresh"
    /\ IF Cacheable(req[r].data.size)
       THEN Put(req[r].path, req[r].data, req[r].info)
       ELSE UNCHANGED cache
    /\ Goes(r, Idle)
    /\ UNCHANGED disk

\* Another program writes, replaces or removes the file.
Edit(p) ==
    /\ disk[p].version < MaxEdits
    /\ \E size \in Sizes \cup {None} :
          disk' = [disk EXCEPT ![p] = [version |-> @.version + 1, size |-> size]]
    /\ UNCHANGED <<cache, req>>

Serve(r) == Stat(r) \/ Get(r) \/ Read(r) \/ StatAgain(r) \/ Store(r)

Next ==
    \/ \E r \in Requests : Serve(r)
    \/ \E p \in Paths : Edit(p)

Spec == Init /\ [][Next]_vars
-----------------------------------------------------------------------------
(* Properties                                                              *)

\* Everything is of its type.
TypeOK ==
    /\ disk \in [Paths -> [version : 0..MaxEdits, size : Sizes \cup {None}]]
    /\ DOMAIN entries \subseteq Paths
    /\ \A p \in DOMAIN entries : entries[p] \in Entry
    /\ order \in Seq(Paths) /\ recent \in Seq(Paths)
    /\ used \in Nat
    /\ req \in [Requests -> Request]

\* The list holds every entry once and used is what the entries weigh, also
\* when several requests put the same file or the file changes size under them
\* (filecache.go:87-116).
Accounted ==
    /\ ToSet(order) = DOMAIN entries
    /\ IsInjective(order)
    /\ used = Bytes(order, entries)

\* The contents that are kept never weigh more than the budget while the lock
\* is free, however many requests put files at once and whatever the files
\* grow to meanwhile (filecache.go:33: "at most maxBytes of file content").
WithinBudget == Bytes(order, entries) <= MaxBytes

\* p comes before q in the sequence.
Ahead(p, q, seq) ==
    \E i, j \in 1..Len(seq) : i < j /\ seq[i] = p /\ seq[j] = q

\* What is evicted is always the least recently used: the list is the order in
\* which the paths it holds were last put or hit (filecache.go:20).
OrderIsRecency == \A p, q \in Paths : Ahead(p, q, order) => Ahead(p, q, recent)

\* Nothing is filed under a stat that is older than the bytes
\* (fileserver.go:104).
NotUnderOlderStamp ==
    \A p \in DOMAIN entries :
        entries[p].data.version <= entries[p].info.version

\* An entry holds what the file was at the stat it is filed under, so a hit
\* never serves a file's previous contents (filecache.go:12).
HitsAreCurrent == \A p \in DOMAIN entries : entries[p].data = entries[p].info

\* No entry is bigger than one file may be, even if the file grew between the
\* stat that found it small enough and the read (filecache.go:15 and 93).
EntriesBounded ==
    \A p \in DOMAIN entries : entries[p].data.size \in 1..MaxEntryBytes

=============================================================================
