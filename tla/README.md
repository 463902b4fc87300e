# A verification of https-tunnel

TLA+ models of the tunnel server, its client, the connection between them and the
state around them, with the upload example that is built on the client; TLC
configurations that check the models on small instances, and theorems that TLAPS
proves for instances of any size. References are to the repository's
files; `session.go:158` is `internal/server/session.go`, line 158.

## 1. The system

A **client** opens an HTTPS connection to the **server**, upgrades it and keeps
it open. The server gives the client's *session* a host name; each public
request for that host name becomes a *stream* on the client's connection, and
the client replays it against something local. Frames of all streams share the
one socket.

| Part | Source | State | Operations | Modelled in |
|---|---|---|---|---|
| Session registry | `internal/server/session.go`, handlers in `server.go` | two indexes (`byID`, `bySubdom`) under `Manager.mu`, a state file, one connection per session under `Session.mu` | Create, Get, Delete, PruneIdle, ReapExpired, Touch, load; attach, detach | `SessionManager`, abstractly `Directory` |
| In-flight requests | `session.go`, `proxy.go`, `frame.go` | the stream table and id counter under `Session.mu`; per stream a head channel, an error channel and a pipe | serveTunnel, pumpRequestBody, newStream, dropStream, finish; readLoop, keepalive | `SessionStreams` |
| Client | `tunnelclient/client.go` | the stream table under `Client.mu`, the connection, a body pipe per request | Run, connectAndServe, serve, handle, drop, closeAll | `ClientStreams` |
| Administrator account | `auth.go`, `internal/config/config.go` | name and hash under `adminMu`, browser sessions under `adminAuth.mu`, the config file under `Config.mu` | login, account change, logout, expiry, SaveAdminAccount, Load | `AdminAccount` |
| Served directory | `tunnelclient/fileserver.go`, `filecache.go` | an LRU list, a map and a byte count under `fileCache.mu` | serveFile, get, put | `FileCache` |
| A tunnel's connection | `internal/tunnel/frame.go`, the pingers and read loops of both ends | `Conn.wmu`, the buffered reader and writer, the socket | NewConn, ReadFrame, WriteFrame, WriteBody, Close | `FrameConn`, abstractly `Channel` |
| Identity of a client | `client.go`, `config.go`, handleConnect and handleTunnel in `server.go` | the session id in memory and on file, the server's registry | register, SaveSessionID, dialTunnel, resume | `ClientIdentity`, on `Directory` |
| Upload and download example | `examples/upload-download/main.go` | a folder, with temporary files in it | upload, download, listFiles, deleteFile | `Uploads` |
| Host routing, label sanitising, config parsing | `server.go`, `config.go` | none | handler, hostname, sanitizeLabel, stripComments | not modelled |
| Web UI | `web/` | a table of sessions, polled | useSessions | not modelled |
| Command, other examples, nginx, systemd, CI, OpenAPI, icon tool | | none of their own, or no concurrency with the above | | not modelled |

How the parts meet:

- `handleTunnel` (server.go:261) looks a session up in the registry, upgrades
  the connection, *attaches* it, writes the Hello and starts a read loop and a
  keepalive. From then on registry operations (Delete, PruneIdle) and the
  connection's goroutines work on the same `Session`.
- `serveTunnel` (proxy.go:22) takes a stream from the attached connection; the
  read loop hands it what the client answers; attach and detach end the streams
  of the connection they replace.
- The client's `serve` loop hands frames to one goroutine per request; all of
  them write to the connection, and the table outlives it.
- All of these goroutines, and a pinger on each side, write frames to the one
  socket under `Conn.wmu`; most ignore the error of a write, and each read loop
  answers pings itself.
- A client presents the session id it has on file; the server resumes that
  session or issues another, whose id the client saves before it dials.
- The account exists in memory, in the config file and, as a copy of the name,
  in each browser session.

What is hard about it is everything between two lock holds: a connection that
is displaced while it is being torn down, a frame for a stream that has gone, a
request that starts while the table is being emptied, a client goroutine that
returns after the tunnel it served has been replaced, a frame that is cut off by
its deadline with others waiting behind it, a crash between a save and an
update. `PROJECT.json` lists these as *hazards*, each at its line with the
properties that would notice it.

### What makes each part correct

- **Registry**: the two indexes are inverse at all times; a host name never
  changes hands between keys; what was removed stays removed over restarts; no
  connection is leaked, none is cut by the teardown of another, a dead one is
  noticed.
- **Requests**: a caller gets the frames of its own request and no others; every
  request is answered or failed, never forgotten, when connections come and go.
- **Client**: the same from the other end: no handler waits for a body that
  nobody will send, bodies that end are complete, a lost tunnel is dialled
  again, a cancelled Run returns.
- **Account**: the restricted first boot session becomes unrestricted only with
  a password; a password once chosen is never lost; the file and the memory agree.
- **Connection**: only whole frames arrive, in the order in which they were
  written; nobody waits for ever to write one; what one end can no longer write
  to is closed at both.
- **Identity**: a client keeps its URL over whatever stops, breaks and restarts;
  a label of its own is never lost to a random one; in the end the URL is served.
- **Uploads**: a name is for a whole file, a download is one version of it, what
  was answered is what was done, nothing is left behind or missed by a listing.
- **Cache**: list, map and byte count agree, budgets are kept, the least
  recently used goes first, a hit is what the file is.

## 2. The modules

| Module | What it is |
|---|---|
| `Directory` | abstract: host names held by sessions of keys; claim and free, one step each |
| `SessionManager` | the registry with its locks, goroutines, crashes and restarts; implements `Directory` |
| `SessionManagerProofs` | theorems about it |
| `SessionStreams` | one session's requests and connections |
| `SessionStreamsProofs` | theorems about it |
| `ClientStreams` | the client over several connections |
| `ClientStreamsProofs` | theorems about it |
| `Channel` | abstract: frames that are sent and arrive, in order and whole |
| `FrameConn` | a connection, both ends and both directions; implements `Channel` twice |
| `FrameConnProofs` | theorems about it |
| `ClientIdentity` | clients, their session ids and the server's registry, over restarts of each |
| `ClientIdentityProofs` | theorems about it |
| `AdminAccount` | account, browser sessions and config file |
| `AdminAccountProofs` | theorems about it |
| `FileCache` | the directory handler and its cache |
| `FileCacheProofs` | theorems about it |
| `Uploads` | the folder of the upload example and the requests that use it |
| `UploadsProofs` | theorems about it |
| `MC...` | the module of that name on small instances, with the symmetry sets and orders TLC needs |

An action is what the code does in one hold of a lock, or one call that can
block or fail. Where a handler works on after an unlock with what it read, the
value is in the model's state and the rest of the handler is another action.
Each module begins with the data it abstracts. Definitions whose comment starts
with "Mutant of", and the section "Plausible bugs" of `AdminAccount`, are bugs the
code might have had; no specification uses them, they show that the properties notice something.

### SessionManager

`byID`, `bySubdom` and `disk` are the two indexes and the file. `conn[i]` is
`Session.conn`. `handler[c]` is where the instance of `handleTunnel` that owns
connection `c` is, `tasks[c]` which of its two goroutines still run, `del[i]` a
Delete under way, `prune` the one PruneIdle that can hold the lock. `info` keeps
the key and label of ids that are gone, which is also how the properties know
that an id was used. `idle[i]` says that `LastSeen` is before the cutoff a prune
would use: time is only that. `Restart` may happen in any state, loads the file,
drops every connection and goroutine, and may age any session, since the
`LastSeen` on file is old. With `DiskFaults` any write of the file may fail,
which the code ignores. `Detach` closes the connection in the step that takes it
off the session; the code does so after the unlock, when nobody else refers to
it. Left out: the return of keepalive at an orderly shutdown, after which the
process ends (`Restart` may end it in any state), reads that change nothing
(List, Snapshot, the resume in handleConnect), counters and timestamps, random
label collisions after eight attempts.

### SessionStreams

`serve[r]` is where serveTunnel is with request `r` (`head`: writing
RequestHead; `wait`: in the select; `stream`: copying; `join`: waiting for the
body; `drop`: the deferred dropStream), `pump[r]` the goroutine of its body.
`st[r]` is the stream object, which outlives its place in the table. `sweep[c]`
is what attach or detach has taken out and not yet failed. `reader[c]` is the
read loop, blocked when it is in `write`. The client is what `reply` allows: it
answers a request it was sent, in order, with a head the server can read or not
(`RecvBadHead`), and may abort at any point. A head may also fail to be sent on
a connection that is well (ErrFrameTooLarge, `HeadFails`), and a Delete detaches
a connection that is well (`Deleted`). `Drop` takes the stream out of the table
and finishes it in one step; in between no sweep can find the stream any more, and
the read loop, if it had it already, could only deliver to a caller that has left.
Left out: the return of keepalive at an orderly shutdown. The
caller's going away and the 60 s timeout are steps that may happen whenever the
select waits. A link may be lost at any time, and a write to a lost link may
still succeed.

### ClientStreams

`loop` is the goroutine of Run, with the handler serve is blocked on; `inb[r]`
the inbound (pipe) of a request, `handler[r]` its goroutine, `resp[r]` what it
has written. `last` and `sent` are the server: the ids it gave and what it sent.
With `Resets` the ids may start again between connections, which is what the
server does after a restart and for a new session. The local handler may read,
write and return in any order.

### FrameConn

`job[e][g]` is the frame with which goroutine `g` of end `e` is in WriteFrame,
`wmu[e]` who has the lock. A frame is two parts, header and payload, or one;
`wire[e]` are the parts that end `e` has handed to its socket since the
beginning, of which the other end has read `taken[e]`, and at most `Buffer` are
in between. `Fail` is a write that meets its deadline or a closed connection,
before, between or after its parts; `broken` is the error bufio.Writer keeps and
answers every later write with (`Refused`). A reader that meets a part other
than the one that is due returns a frame nobody wrote, recorded as 0. A link that
the network has dropped is not a step of its own: each end comes to a read
deadline (`Close`) or to a write that fails. The loops that read are those of
`serve` and `readLoop`, reduced to what they do with a ping. What frames carry
is the business of the two stream models, which take a frame for one message;
`ImplementsChannels` is what lets them.

### ClientIdentity

`holder` and `spent` are the variables of `Directory`, and the server's registry
changes by its two actions only: what `SessionManager` is shown to implement is
used here in its place. `conn` is the connection of each session, `pc` where a
client is between loading its file and being up, `opts` and `file` the two copies
of its session id. A pin of a key and a label that a client asks for are both
`Wish`, since handleConnect puts one in the place of the other. `Shared` is the
id in a file that several clients were copied from. handleTunnel writes the 101
and attaches afterwards: `due` are the clients whose connection the server has
still to attach (`Up` and `Attach` come in either order), `late` counts for each
session the connections whose client has left them since. Such a one is attached
all the same (`LateAttach`, `Dead` in `conn`), also in the place of a newer one
of the same session, and stays until the server notices. `unsaved` says that a
write of the file has failed: "memory" while the process still has the id that
the file lacks, "lost" once it has restarted without it. Faults are an answer lost
after the server has acted, a write of the file that fails, a lost link, a stop
of the client at any point, a restart of the server and a removal. `InPlace` are
clients that, like the example, write the file in place, so that a stop while
they do leaves no id. `Live`, `Reachable` and `Stranded` only serve the properties.

### AdminAccount

`account`, `file` and `sessions` are the three copies, `req` the handlers under
way. A password hash is represented by the password it verifies. Fields of a
request are chosen where the handler first looks at them, which gives the same
behaviours as fixing them on arrival. Logins and account changes are separate
constants because some properties depend on how many changes overlap. `Reset` is
what the README tells an operator to do about a forgotten password: stop, clear
the hash, start.

### FileCache

A file is a version and a length; os.Stat reports both, because every change is
taken to give the file a new modification time. (If it does not, the cache
cannot notice a change of equal length at all; the code's comment takes the same
view.) `Edit` may happen between any two calls of the handler, a write in place
being several edits. `recent` is a history of uses that the cache does not keep,
to compare its list with. What entries weigh is a sum over the list (`Bytes`, by
way of `Total` of a sequence of lengths), evicted from the back until what is left
fits; sums are recursive functions, so that they can be reasoned about.

### Uploads

A file is the part of an upload it was copied from, `<<u, k>>`, whether it still
has its temporary name (`temps`) or one of the folder (`entry`). `len` and
`whole` say how much of it has been written. upload ignores the error of
`tmp.Close` (`Close`): a file for which it failed may lack anything, is renamed
all the same, and is in `cut`. A download keeps its file open over
a rename or a removal (`fd`), and remembers the size it announced. A listing
reads the folder at once and then looks at one entry after another (`ReadDir`,
`Info`). `Restart` loses every request under way and nothing of the folder; an
upload of which nothing has been read yet is taken to be made again.

## 3. The runs

The runs take between a few seconds and about three minutes each with two workers.

| Run | Instance | Shows |
|---|---|---|
| `registry` | 2 keys, 3 labels of which 1 reserved, 3 ids, 1 connection | `IndexesAgree`, `LabelKeepsKey`, `NoResurrection`, and that the registry implements `Directory` |
| `connections` | 1 session, 2 connections, file writes may fail | `AttachedIsWatched`, `NoLeakedConn`, `StaleDetachHarmless`, `DeadConnDetached` |
| `streams` | 2 requests, the first with bodies, 2 connections, 1 chunk | `OwnFrames`, `NobodyForgotten`, `TableIsLive` |
| `streams_live` | 2 requests, the first answered with a body, 2 connections, 1 chunk | `OrphansAnswered`, `DeadConnReleasesAll`, `ReadLoopReleased` |
| `client` | 2 requests, 2 connections, ids may start again | `NobodyStranded`, `TableIsCurrent`, `OwnIdBodiesComplete`, `Reconnects`, `StopsWhenCancelled` |
| `frames` | 1 request goroutine, the pingers and both loops, buffers of 1 part, 2 frames asked for at each end | `FramesIntact`, `WritesReturn`, `FailureEndsTunnel`, and that each direction implements `Channel` |
| `identity` | 2 clients of one key, one of which asks for a label and one writes its file in place; 5 labels, 5 ids, 2 faults | `WishSticks`, `UrlSurvives`, `StaysReachable` |
| `admin` | 2 logins and a change at a time, 2 names, 2 passwords, 3 tokens | `TypeOK`, `PennedIn`, `PasswordSticks`, `FileIsMemory` |
| `file_cache` | 3 files, 2 requests, lengths 1 to 3, budget 5, at most 2 per file, 1 edit per file | `WithinBudget`, `Accounted`, `EntriesBounded`, `NotUnderOlderStamp`, `OrderIsRecency` |
| `uploads` | an upload of up to 2 files and one of 1 file, 2 names, 1 chunk, 1 download, 1 listing, 1 restart | `FilesAreWhole`, `DownloadIsOneVersion`, `SavedMeansAll`, `NoTempLeft`, `ListingIsFair` |
| `client_reused_ids`, `file_cache_stale` | small instances | the disagreements below |

Why these bounds are enough to be interesting: two labels and two keys are what
a label can change hands between, and a third id is the session that comes after
a reclaim and a delete. Two connections of a session are one that is still being
torn down and the one that displaced it; with two requests a stream of the old
connection and one of the new coexist. Two connections of a client let a handler
of the first return during the second. Two logins and a change, and two requests
to the cache, give every overlap of two handlers; except for `FileIsMemory` the
theorems about the account hold for any number of overlapping changes too.
A buffer of one part blocks a writer in the middle of a frame and between two; a
request goroutine, a pinger and a loop at the server against a pinger and a loop
at the client are three writers for one lock, and two calls at each end are
enough for a ping in each direction while another frame is under way, so that
both loops can be blocked in a pong. Two faults are a failed save and the crash
that makes it felt, or a lost answer and a removal; with five ids and labels no
client of the run is ever left without. The two uploads cross on either name
while a second file of the first is still to come or fails.
The cache's three files do not all fit, one length is over the limit of one
file, and the limit is a fraction of the budget as it is in the code (`Share` is
8 there, 2 here; `Small` is 8 MB there). Tokens, ids and connections are used
once, so their numbers bound the length of a run; `Chunks`, `Epochs`, `MaxEdits`,
`MaxCalls`, `MaxFaults`, `MaxParts` and `MaxRestarts` are the remaining bounds
and appear in the guards of the actions they limit. Runs with
`CHECK_DEADLOCK FALSE` are those in which the system may stop because a bound is
used up: every request answered and no connection left, both ends of a connection
closed, Run returned, or every file removed.

The type invariants of all modules but `AdminAccount` are in no run: all are
proved. `NobodyForgotten` and `NobodyStranded` speak of every stream and every
body, whoever is still interested in it: an open one is always known to the code
that would end it.

Symmetry is used in safety runs only, on constants no definition tells apart.
Both runs of `SessionStreams` have two requests and two connections, since what they
are about is a sweep while new streams start on the connection that displaced the
old one, and a read loop of the old one that is blocked meanwhile. Instead of
symmetry `MCSessionStreams` fixes the order in which connections attach and
streams begin (`InOrder`), and gives bodies to the first request only
(`OneHasBodies`); so a request without a body that begins before one with a body is
left to the theorems, which hold every invariant of the safety run for any mix. The
liveness run also leaves out request bodies, `Deleted` and `RecvBadHead`, which end
streams as other steps do (`SmallNext`). No fairness is asked of a step that any of
this restricts. The three liveness properties say of a bad state that it does not
last (`[]<>~(...)`).

### Fairness

Goroutines that can take a step take it in the end; Go's scheduler and the
deadlines on every read give that. In `SessionManager` this is assumed of the
upgrade handler's steps, the two goroutines of a connection whose socket is dead
(a ping fails or the read deadline passes) and a Delete that has begun. In
`SessionStreams` it is
assumed of the server's goroutines and not of callers or the network: a caller
may never read, a client may never answer. In `ClientStreams` it is assumed of
the client's goroutines and of local handlers, which return in the end
(`HandlersReturn`): `serve` writes a request's body into a pipe and waits until
the handler reads it, so behind a handler that neither reads nor returns the
client never notices that its tunnel is gone. Nothing fair is assumed of lost
links, timeouts, cancellations or restarts. In `FrameConn` the tickers tick, loops
read what has arrived, whoever waits for the lock gets it when it is free often
enough, and who has it either writes the next part or fails, which WriteTimeout
gives; that the socket takes anything is not assumed. In `ClientIdentity` a
client that runs retries (Run), and the server answers, attaches what it has sent
a 101 to, and notices dead connections; nobody has to start a client, and faults are bounded. The account,
the cache and the uploads have no liveness properties: nothing in them waits.

### Where code and documentation disagree

Each of these runs checks one property that a comment or the repository's README
states, and TLC finds the behaviour of the code that breaks it.

| Run | What the text says | What the code does |
|---|---|---|
| `client_reused_ids` | frame.go:14, every request has its own stream id | ids start again with a new session; the late drop of an old handler ends the body of the new request with its id |
| `file_cache_stale` | filecache.go:12, an edited file is picked up immediately | a change between the read and the second stat leaves the old contents under the new stat |

The models contain more of the same kind, each one a property away from a run:

- PruneIdle tests, tests again and removes under three holds of locks, and may
  remove a session that a client attached to in between (session.go:345 says
  connected sessions are left alone).
- An upgrade that passed its lookup before a Delete attaches after it has
  returned (session.go:306: Delete disconnects the client), as it does in
  `ClientIdentity` (`Stranded`).
- Two account changes at a time can leave the file with the name that the memory
  gave up (README.md:401: renaming is final).
- Two clients of one key that ask for one label can take it from each other
  without end: each finds its session gone when it dials. Only their back-off
  parts them.
- A session id that could not be saved is taken for saved by the process that has
  it in memory, and lost when that restarts (config.go:235: a later run resumes
  the same public URL).
- A connection that the client has already given up can be attached after the one
  that followed it, and displace it: the client has to dial a third time.
- upload renames a file whose Close failed (main.go:417: a failed upload never
  leaves a half file in the listing).
- attach lets a request's head onto the wire before the Hello, which frame.go:93
  puts first.
- A request body that breaks off is ended with RequestEnd, and a response that
  breaks off ends for the caller as if it were complete: neither uses the Abort
  of frame.go:118. After an Abort to the client the local handler runs on.
- A caller that does not read stops the frames of every request of the session
  (README.md:349: requests and responses interleave freely).
- A login that was checked before an account change can issue its session after
  it (README.md:238: any change signs everyone out).
- Below 8 MB one file may take the whole cache (README.md:156: an eighth).

## 4. What is proved

For any number of keys, labels, sessions, connections, requests, names,
passwords and tokens, with the assumptions the modules state about their
constants:

**SessionManagerProofs.** `TypeCorrect`, `IndexesAlwaysAgree`, `LabelsKeepKeys`,
`NothingResurrected`, `Refinement` (the registry implements `Directory`),
`ConnsNeverLeak`, `StaleDetachesHarmless`, `AlwaysWatched`. `IndexesAgree` is not inductive by
itself: a restart builds the label index from the file, so the labels on file
have to be distinct, and the file may differ from memory only by what a running
prune has removed (`FileDistinct`, `FileCurrent`, `PruneOK`, together
`RegistryInv`). Labels keep their keys, nothing is resurrected and the registry
implements its abstraction only as long as writes of the file succeed
(`~DiskFaults`): with a failed write a restart does bring old sessions back.
The refinement maps the abstract holder of a label to what the *file* says, since
that is what survives; a prune is then the one step in which it saves.
`AlwaysWatched` needs that goroutines of a connection exist only once the handler
has started them (`TasksLast`): a handler that is still writing the Hello tears
down itself, one that has written it has left two behind.

**SessionStreamsProofs.** `TypeCorrect`, `TableAlwaysLive`,
`NobodyEverForgotten`, `FramesAreOwn`, `AlwaysWatched`, `BlockedAlwaysHasReader`.
The invariant adds that the id counter is
the number of streams started and ids are never shared (`IdsCounted`, `IdsOwn`),
that a handler has a stream exactly while it is under way
(`HandlersOwnStreams`), and that a connection that is being swept is not
attached again (`SweepsOver`). It is proved by three lemmas that say what any
step does to the objects, to the table and to the handlers (`ObjectsSteps`,
`TableSteps`, `HandlersSteps`); the theorems then argue about those few kinds of
step instead of about thirty actions. That nobody is forgotten rests on `Told`: a
stream that has ended has left an error, or a head before its end, in its
channels, so that a handler that waits with both of them empty has an open stream,
which is in the table or in a sweep.

**AdminAccountProofs.** `TypeCorrect`, `FirstBootPennedIn`, `PasswordIsDurable`,
`SerialChangesAgree`. What a handler read of the account may be out of date when
it acts on it; the invariant (`RequestsOK`) holds because it can be out of date
in one direction only: while the process runs, a hash appears and never goes
away. That memory and file agree is proved for servers that handle one change at
a time, which is stated as an assumption of the theorem; its invariant
(`SerialInv`) says that between save and update the memory lacks exactly what
the change is about to add.

**ClientStreamsProofs.** `TypeCorrect`, `TableAlwaysCurrent`,
`NobodyEverStranded`, `OwnBodiesComplete`, `AllBodiesComplete`,
`BlockedAlwaysHasReader`. The three invariants of the run hold each other up. What they lack is that the table is empty unless
serve reads (`PhaseOK`), that it holds no id the server has still to give on this
connection (`TableOK`), and that the server has given no more ids than it has
sent requests (`Counted`). `AllBodiesComplete` assumes a server that never gives an
id twice (`~Resets`) and proves for it what `client_reused_ids` finds violated
without: the reuse of ids is the only cause.

**FrameConnProofs.** `TypeCorrect`, `FramesAlwaysIntact`, `Refinement`,
`AlwaysGoesOn`. The invariant says, for each direction, which orders of parts can be on a wire
(`WireOK`), where its writer is in that order (`WriterOK`: while nothing has
failed, a free lock means that the last frame is complete) and where its reader is
(`ReaderOK`). That a failed frame is the last one is what carries it: the error of
bufio.Writer is never cleared. The refinement maps frames, numbered in the order
of the lock, to what `Channel` calls sent, and every step to a Send, an Arrive or
a stutter of each direction.

**ClientIdentityProofs.** `KnownIsIssued`, `UrlsSurvive`, `WishesStick`,
`ConnectedToOwnKey`, `UpIsReachable`, and the types. The invariant has what the
registry keeps (`Registry`: ids are in use once; `AskedFor`: a label that somebody
asks for is held by the key of one who does) and what each client knows: a session
it was told of has the label it was told or is gone (`Told`, from which
`KnownIsIssued` follows), and a client whose session exists, and which has not lost
its id to a failed write and a restart, has that session in memory while it runs
and on file unless a write failed, and is at it or on its way to it (`Keeps`). A
second invariant on top of it (`ServesInv`) says whose sessions a client is told
of and connected to: only those of its own key, although ids are copied between
clients of different keys and connections are attached late. What the registry
does for these clients is by definition an `Issue` or a `Free` of `Directory`.

**UploadsProofs.** `TypeCorrect` and all five properties. An upload works on the
last file it has begun, and those before it were renamed (`UploadOK`); a file that
anybody but its upload knows of is complete, or its Close failed, and is no longer
written (`ShownOK`).

**FileCacheProofs.** `TypeCorrect`, `AlwaysWithinBudget`, `AlwaysAccounted`,
`EvictsByRecency`, `EntriesAlwaysBounded`, `NeverUnderOlderStamp`,
`OnlyThatWindow`. The cache's byte count is a sum over its list, and an element
that is touched is taken out of the middle of it. What a sum is cannot be proved
by the library's induction theorems, which want a predicate as an argument; here
the induction is over a *set* of numbers (`Induction`), whose least element
outside the set is what well-foundedness of the naturals gives. From it follow
that sums exist and that appending and removing change them by one element
(`SumsExist`, `TotalAppend` and the lemmas after them); the cache's operations
are then argued about one by one. The
invariant has two halves: `CacheInv` (list, map, count, budget and recency) and
`RequestsInv` (what each request under way has seen of its file).
`OnlyThatWindow` proves what `file_cache_stale` finds violated, for files that do
not change between a request's read and its second stat (`QuietReads`): that
window is the only cause.

**What the liveness properties rest on.** A liveness property says that somebody
acts in the end; its safety half says that there always is somebody to act. That
half is proved, for any number of connections, requests and goroutines:

| Theorem | Says that there is always | Serves |
|---|---|---|
| `SessionManagerProofs!AlwaysWatched` | a handler or goroutine that will detach the attached connection | `DeadConnDetached` |
| `SessionStreamsProofs!AlwaysWatched` | a Hello to be written or a keepalive at the attached connection | `DeadConnReleasesAll` |
| `SessionStreamsProofs!NobodyEverForgotten` | a table entry or a sweep for a caller that waits | `OrphansAnswered` |
| `SessionStreamsProofs!BlockedAlwaysHasReader` | a handler that goes on to dropStream, or a sweep, when the read loop is blocked | `ReadLoopReleased` |
| `ClientStreamsProofs!BlockedAlwaysHasReader` | a handler that runs or returns when serve is blocked | `Reconnects`, `StopsWhenCancelled` |
| `FrameConnProofs!AlwaysGoesOn` | a writer behind the write lock, and a pinger and a loop at an end that is open | `WritesReturn`, `FailureEndsTunnel` |
| `ClientIdentityProofs!UpIsReachable` | the right session at the label of a client that is up | `StaysReachable` |

**Only model-checked.** The liveness properties themselves, that is, the step from
"there is somebody" to "it happens", which needs fairness and is out of the
prover's reach, as is anything about ENABLED: `OrphansAnswered`,
`DeadConnReleasesAll`, `ReadLoopReleased`, `DeadConnDetached`, `Reconnects`,
`StopsWhenCancelled`, `WritesReturn`, `FailureEndsTunnel`, `StaysReachable`. Every
invariant and every action property of the passing runs is proved.

## 5. The plan

Done: the registry with its abstraction, the requests of a session, the client,
the connection between them with its abstraction, the identity of clients on top
of the registry's abstraction, the account, the cache, the uploads, each with
proofs. What could be added:

1. *Ids over a restart of the server*: a composition of the two stream models in
   which the reuse of ids follows from the registry instead of an assumption.
2. *Pure parts* against reference definitions on bounded inputs: sanitizeLabel
   and hostname, stripComments, the bytes of a frame's header.
3. *The web UI's polling*, and the sign-in of the upload example.

## 6. What is not modelled

Formatting, logging, headers and cookies' attributes; counters shown in the UI;
TLS, HTTP and the file system beyond the outcomes of the calls made to them; the
lengths of timeouts and back-offs (every timer may fire whenever it is running);
password hashing; the listing of served directories and the resolution of paths;
host routing, the sanitising of labels and the parsing of the config file, which
are functions of a string and keep nothing; the web UI, which shows what the API
answers and corrects itself with every poll; the sign-in of the upload example;
the command line, the other examples, deployment files, build scripts and CI, which keep no
state that the system shares.
