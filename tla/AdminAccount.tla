---------------------------- MODULE AdminAccount ----------------------------
(***************************************************************************)
(* The administrator account of the server's web UI                        *)
(* (internal/server/auth.go) and the copy of it in the config file         *)
(* (internal/config/config.go).                                            *)
(*                                                                         *)
(* The account lives in three places, each under a lock of its own: the    *)
(* name and the password hash the server compares with (Server.adminMu),   *)
(* the browser sessions it has admitted (adminAuth.mu) and the config file *)
(* (Config.mu).  A handler takes and releases these locks one after the    *)
(* other, so every lock hold is one action, and req records how far each   *)
(* request is.  A request's fields are chosen where the handler first      *)
(* tells them apart.  A password hash is represented by the one password   *)
(* it verifies.                                                            *)
(***************************************************************************)
EXTENDS Integers

CONSTANTS Names,        \* usernames validateUsername accepts, normalised
          DefaultName,  \* "admin", the name while the config gives none
          Passwords,    \* passwords long enough to be chosen
          Default,      \* the first boot password
          Tokens,       \* cookie values
          Logins,       \* login requests the server may be handling at a time
          Changes,      \* account changes the same
          None          \* an absent field: "" in the code

ASSUME AccountAssumption ==
    /\ Logins \cap Changes = {}
    /\ DefaultName \in Names
    /\ Default \notin Passwords
    /\ None \notin Names \cup Passwords \cup Tokens \cup {Default}

VARIABLES account,   \* Server.cfg.Admin: the name and hash in memory
          file,      \* the admin object of the config file
          sessions,  \* adminAuth.sessions, a function on the tokens it holds
          issued,    \* tokens handed out so far: a new one is always unused
          req        \* the local state of each request

vars == <<account, file, sessions, issued, req>>

Requests == Logins \cup Changes

-----------------------------------------------------------------------------
Account == [name : Names, hash : Passwords \cup {None}]

FileAccount == [name : Names \cup {None}, hash : Passwords \cup {None}]

\* live turns FALSE when the session's time is up.
Session == [name : Names, mustChange : BOOLEAN, live : BOOLEAN]

Request == [pc : {"idle", "named", "verified", "issue",
                  "looked_up", "change_named", "change_verified",
                  "change_renaming", "checked", "saved", "updated"},
            cookie : Tokens \cup {None},        \* the session that asks
            name : Names \cup {None},           \* a name read from the server
            mustChange : BOOLEAN,
            newName : Names \cup {None},
            newPassword : Passwords \cup {None}]

Idle == [pc |-> "idle", cookie |-> None, name |-> None, mustChange |-> FALSE,
         newName |-> None, newPassword |-> None]

\* Config.applyDefaults: a config file without a name means the default one.
Loaded(f) == [name |-> IF f.name = None THEN DefaultName ELSE f.name,
              hash |-> f.hash]

\* What an absent field leaves alone.
OrElse(new, old) == IF new = None THEN old ELSE new

\* The table f without the sessions outside S.
Only(f, S) == [t \in S |-> f[t]]

Init ==
    /\ file \in FileAccount
    /\ account = Loaded(file)
    /\ sessions = [t \in {} |-> Idle]
    /\ issued = {}
    /\ req = [r \in Requests |-> Idle]

\* The request goes on, with local state new.
Goes(r, new) == req' = [req EXCEPT ![r] = new]

\* The request is over.
Replied(r) == Goes(r, Idle)

\* checkAdminPassword's second half: the default password while there is no
\* hash, and then only the password the hash was made from.
Accepts(hash, password) == password = IF hash = None THEN Default ELSE hash

-----------------------------------------------------------------------------
(* Plausible bugs, each of which a property below notices                  *)

\* The first boot check is left out: a rename alone lifts the restriction.
ChecksNoFirstBoot(r) ==
    /\ req[r].pc = "change_renaming"
    /\ \E password \in Passwords \cup {Default, None} :
          IF /\ req[r].newName \in {None, req[r].name} => password # None
             /\ password # Default
          THEN Goes(r, [req[r] EXCEPT !.pc = "checked", !.name = None,
                           !.newPassword = password])
          ELSE Replied(r)
    /\ UNCHANGED <<account, file, sessions, issued>>

\* An absent password is written as an empty hash.
SavesAbsentHash(r) ==
    /\ req[r].pc = "checked"
    /\ \/ /\ file' = [name |-> OrElse(req[r].newName, file.name),
                      hash |-> req[r].newPassword]
          /\ Goes(r, [req[r] EXCEPT !.pc = "saved"])
       \/ Replied(r) /\ UNCHANGED file
    /\ UNCHANGED <<account, sessions, issued>>

\* A failed save is logged, and the handler goes on.
SavesOrGoesOn(r) ==
    /\ req[r].pc = "checked"
    /\ \/ file' = [name |-> OrElse(req[r].newName, file.name),
                   hash |-> OrElse(req[r].newPassword, file.hash)]
       \/ UNCHANGED file
    /\ Goes(r, [req[r] EXCEPT !.pc = "saved"])
    /\ UNCHANGED <<account, sessions, issued>>

\* An absent name is stored as the account's.
UpdatesAbsentName(r) ==
    /\ req[r].pc = "saved"
    /\ account' = [name |-> req[r].newName,
                   hash |-> OrElse(req[r].newPassword, account.hash)]
    /\ Goes(r, [req[r] EXCEPT !.pc = "updated", !.name = account'.name])
    /\ UNCHANGED <<file, sessions, issued>>

-----------------------------------------------------------------------------
(* handleAuthLogin                                                         *)

\* The submitted name is compared with adminUsername(); another one is
\* answered 401 and changes nothing.
LoginName(r) ==
    /\ req[r].pc = "idle"
    /\ \E name \in Names :
          IF name = account.name
          THEN Goes(r, [req[r] EXCEPT !.pc = "named"])
          ELSE UNCHANGED req
    /\ UNCHANGED <<account, file, sessions, issued>>

\* The hash is read under a second hold of adminMu.
LoginPassword(r) ==
    /\ req[r].pc = "named"
    /\ \E password \in Passwords \cup {Default} :
          IF Accepts(account.hash, password)
          THEN Goes(r, [req[r] EXCEPT !.pc = "verified",
                           !.mustChange = (account.hash = None)])
          ELSE Replied(r)
    /\ UNCHANGED <<account, file, sessions, issued>>

\* The argument of issue: the name is read again.
LoginReadsName(r) ==
    /\ req[r].pc = "verified"
    /\ Goes(r, [req[r] EXCEPT !.pc = "issue", !.name = account.name])
    /\ UNCHANGED <<account, file, sessions, issued>>

\* adminAuth.issue, after it dropped what has expired.
LoginIssues(r) ==
    /\ req[r].pc = "issue"
    /\ \E t \in Tokens \ issued :
          LET kept == {u \in DOMAIN sessions : sessions[u].live} IN
          /\ sessions' = [u \in kept \cup {t} |->
                IF u = t THEN [name |-> req[r].name, live |-> TRUE,
                               mustChange |-> req[r].mustChange]
                ELSE sessions[u]]
          /\ issued' = issued \cup {t}
    /\ Replied(r)
    /\ UNCHANGED <<account, file>>

-----------------------------------------------------------------------------
(* handleAuthAccount                                                       *)

\* authSession finds the cookie's session, or drops it when it has expired.
ChangeLooksUp(r) ==
    /\ req[r].pc = "idle"
    /\ \E t \in DOMAIN sessions :
          IF sessions[t].live
          THEN /\ Goes(r, [req[r] EXCEPT !.pc = "looked_up", !.cookie = t,
                              !.name = sessions[t].name])
               /\ UNCHANGED sessions
          ELSE /\ sessions' = Only(sessions, DOMAIN sessions \ {t})
               /\ UNCHANGED req
    /\ UNCHANGED <<account, file, issued>>

\* checkAdminPassword(sess.username, ...): the session's name must still be
\* the account's.
ChangeName(r) ==
    /\ req[r].pc = "looked_up"
    /\ IF req[r].name = account.name
       THEN Goes(r, [req[r] EXCEPT !.pc = "change_named", !.name = None])
       ELSE Replied(r)
    /\ UNCHANGED <<account, file, sessions, issued>>

ChangePassword(r) ==
    /\ req[r].pc = "change_named"
    /\ \E password \in Passwords \cup {Default} :
          IF Accepts(account.hash, password)
          THEN Goes(r, [req[r] EXCEPT !.pc = "change_verified"])
          ELSE Replied(r)
    /\ UNCHANGED <<account, file, sessions, issued>>

\* renaming compares the new name with the name read now; name keeps it.
\* Names are those that validateUsername accepts, another is refused.
ChangeReadsName(r) ==
    /\ req[r].pc = "change_verified"
    /\ \/ \E new \in Names \cup {None} :
             Goes(r, [req[r] EXCEPT !.pc = "change_renaming", !.newName = new,
                         !.name = account.name])
       \/ Replied(r)
    /\ UNCHANGED <<account, file, sessions, issued>>

\* The checks from passwordUnset on: a first boot must end with a password,
\* something has to change, and the default password is not a choice.
ChangeChecks(r) ==
    /\ req[r].pc = "change_renaming"
    /\ \E password \in Passwords \cup {Default, None} :
          IF /\ account.hash = None => password # None
             /\ req[r].newName \in {None, req[r].name} => password # None
             /\ password # Default
          THEN Goes(r, [req[r] EXCEPT !.pc = "checked", !.name = None,
                           !.newPassword = password])
          ELSE Replied(r)
    /\ UNCHANGED <<account, file, sessions, issued>>

\* Config.SaveAdminAccount merges the change into what the file holds now,
\* writes a temporary file and renames it: one step, or none at all.
ChangeSaves(r) ==
    /\ req[r].pc = "checked"
    /\ \/ /\ file' = [name |-> OrElse(req[r].newName, file.name),
                      hash |-> OrElse(req[r].newPassword, file.hash)]
          /\ Goes(r, [req[r] EXCEPT !.pc = "saved"])
       \/ Replied(r) /\ UNCHANGED file
    /\ UNCHANGED <<account, sessions, issued>>

\* The account in memory follows; current is the name it has then.
ChangeUpdates(r) ==
    /\ req[r].pc = "saved"
    /\ account' = [name |-> OrElse(req[r].newName, account.name),
                   hash |-> OrElse(req[r].newPassword, account.hash)]
    /\ Goes(r, [req[r] EXCEPT !.pc = "updated", !.name = account'.name])
    /\ UNCHANGED <<file, sessions, issued>>

\* adminAuth.rename keeps the asking browser's session, if it is still there,
\* under the new name and without its restriction, and drops the others.
ChangeRenames(r) ==
    /\ req[r].pc = "updated"
    /\ sessions' = [t \in DOMAIN sessions \cap {req[r].cookie} |->
          [sessions[t] EXCEPT !.name = req[r].name, !.mustChange = FALSE]]
    /\ Replied(r)
    /\ UNCHANGED <<account, file, issued>>

-----------------------------------------------------------------------------
(* handleAuthLogout, time, and the process                                 *)

Logout(t) ==
    /\ t \in DOMAIN sessions
    /\ sessions' = Only(sessions, DOMAIN sessions \ {t})
    /\ UNCHANGED <<account, file, issued, req>>

Expire(t) ==
    /\ t \in DOMAIN sessions
    /\ sessions[t].live
    /\ sessions' = [sessions EXCEPT ![t].live = FALSE]
    /\ UNCHANGED <<account, file, issued, req>>

\* The process stops, whatever requests it was handling, and starts from the
\* file f it finds.
StartsFrom(f) ==
    /\ account' = Loaded(f)
    /\ file' = f
    /\ sessions' = [t \in {} |-> Idle]
    /\ req' = [r \in Requests |-> Idle]
    /\ UNCHANGED issued

Restart == StartsFrom(file)

\* The way back from a forgotten password: stop, clear password_hash, start.
Reset == StartsFrom([file EXCEPT !.hash = None])

Login(r) ==
    LoginName(r) \/ LoginPassword(r) \/ LoginReadsName(r) \/ LoginIssues(r)

Change(r) ==
    \/ ChangeLooksUp(r) \/ ChangeName(r) \/ ChangePassword(r)
    \/ ChangeReadsName(r) \/ ChangeChecks(r) \/ ChangeSaves(r)
    \/ ChangeUpdates(r) \/ ChangeRenames(r)

Next ==
    \/ \E r \in Logins : Login(r)
    \/ \E r \in Changes : Change(r)
    \/ \E t \in Tokens : Logout(t) \/ Expire(t)
    \/ Restart
    \/ Reset

Spec == Init /\ [][Next]_vars

-----------------------------------------------------------------------------
(* Properties                                                              *)

\* The account always has a name, every session is under a token that was
\* issued, and the requests are in states the handlers reach.
TypeOK ==
    /\ account \in Account
    /\ file \in FileAccount
    /\ issued \subseteq Tokens
    /\ DOMAIN sessions \subseteq issued
    /\ \A t \in DOMAIN sessions : sessions[t] \in Session
    /\ req \in [Requests -> Request]

\* A session that may do more than choose a password exists only on a server
\* whose account has a password of its own (auth.go:43 and 95), however a
\* login, an account change and the end of the first boot overlap.
PennedIn ==
    \A t \in DOMAIN sessions : ~sessions[t].mustChange => account.hash # None

\* Once the account has a password, so has the config file: neither a crash
\* nor a failed save at any point of a change brings a later start back to
\* the first boot password (auth.go:47-48).
PasswordSticks == account.hash # None => file.hash # None

\* Unless a change is between its save and its update of the memory, the
\* server runs on the account a restart would give it (auth.go:301: the
\* previous name is not left behind as a second way in).  It holds as long as
\* one change is handled at a time.
FileIsMemory ==
    (\A r \in Requests : req[r].pc # "saved") => account = Loaded(file)

=============================================================================
