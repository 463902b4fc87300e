------------------------- MODULE AdminAccountProofs -------------------------
\* What TLAPS proves of the administrator account, for any number of names,
\* passwords, browsers and requests at a time.
EXTENDS AdminAccount, TLAPS

\* What a request may rely on between two lock holds.  What it read of the
\* account may be old, but only in one direction: a hash never goes away while
\* the process runs.
RequestsOK ==
    \A r \in Requests :
        /\ req[r].pc \in {"issue", "updated"} => req[r].name \in Names
        /\ req[r].pc \in {"verified", "issue"} /\ ~req[r].mustChange =>
              account.hash # None
        /\ req[r].pc \in {"checked", "saved"} /\ req[r].newPassword = None =>
              account.hash # None
        /\ req[r].pc = "saved" /\ req[r].newPassword # None => file.hash # None
        /\ req[r].pc = "updated" => account.hash # None

Inv == TypeOK /\ RequestsOK /\ PennedIn /\ PasswordSticks

\* The invariant holds when the process starts, whatever its file says.
LEMMA InitInv == Init => Inv
<1>. SUFFICES ASSUME Init PROVE Inv
  OBVIOUS
<1>1. account \in Account /\ account.hash = file.hash
  BY AccountAssumption DEF Init, Loaded, Account, FileAccount
<1>2. Idle \in Request
  BY DEF Idle, Request
<1>3. TypeOK
  BY <1>1, <1>2 DEF Init, TypeOK
<1>. QED
  BY <1>1, <1>3 DEF Init, Inv, RequestsOK, PennedIn, PasswordSticks, Idle

\* Starting again from the file, or from the file without its hash.
LEMMA StartInv ==
  ASSUME Inv, NEW f \in FileAccount, StartsFrom(f)
  PROVE  Inv'
<1>1. account' \in Account /\ account'.hash = file'.hash
  BY AccountAssumption DEF StartsFrom, Loaded, Account, FileAccount
<1>2. Idle \in Request
  BY DEF Idle, Request
<1>3. TypeOK'
  BY <1>1, <1>2 DEF StartsFrom, Inv, TypeOK
<1>. QED
  BY <1>1, <1>3 DEF StartsFrom, Inv, RequestsOK, PennedIn, PasswordSticks, Idle

\* A request that is over relies on nothing.
LEMMA RepliedInv ==
  ASSUME Inv, NEW r \in Requests, Replied(r),
         UNCHANGED <<account, file, issued, sessions>>
  PROVE  Inv'
<1>1. Idle \in Request
  BY DEF Idle, Request
<1>2. TypeOK'
  BY <1>1 DEF Inv, TypeOK, Replied, Goes
<1>. QED
  BY <1>2 DEF Inv, TypeOK, RequestsOK, PennedIn, PasswordSticks,
              Replied, Goes, Idle

\* A request that goes on: the rest of the state is as good as it was, and the
\* new local state has to be.
LEMMA GoesInv ==
  ASSUME Inv, NEW r \in Requests, NEW new \in Request, Goes(r, new),
         UNCHANGED <<account, file, issued, sessions>>,
         new.pc \in {"issue", "updated"} => new.name \in Names,
         new.pc \in {"verified", "issue"} /\ ~new.mustChange =>
            account.hash # None,
         new.pc \in {"checked", "saved"} /\ new.newPassword = None =>
            account.hash # None,
         new.pc \notin {"saved", "updated"}
  PROVE  Inv'
BY DEF Inv, TypeOK, RequestsOK, PennedIn, PasswordSticks, Goes

\* A login, up to the session it issues.
LEMMA LoginInv ==
  ASSUME Inv, NEW r \in Requests, Login(r)
  PROVE  Inv'
<1>0. /\ account.name \in Names /\ account.hash \in Passwords \cup {None}
      /\ req[r] \in Request /\ Idle \in Request
  BY DEF Inv, TypeOK, Account, Idle, Request
<1>1. CASE LoginName(r)
  <2>. DEFINE new == [req[r] EXCEPT !.pc = "named"]
  <2>1. new \in Request /\ new.pc = "named"
    BY <1>0 DEF Request
  <2>2. CASE Goes(r, new)
    <3>. HIDE DEF new
    <3>. QED
      BY <1>1, <2>1, <2>2, GoesInv DEF LoginName
  <2>3. CASE UNCHANGED req
    BY <1>1, <2>3
       DEF LoginName, Inv, TypeOK, RequestsOK, PennedIn, PasswordSticks
  <2>. QED
    BY <1>1, <2>2, <2>3 DEF LoginName
<1>2. CASE LoginPassword(r)
  <2>. DEFINE new == [req[r] EXCEPT !.pc = "verified",
                                    !.mustChange = (account.hash = None)]
  <2>1. new \in Request /\ new.pc = "verified"
    BY <1>0 DEF Request
  <2>2. new.mustChange <=> account.hash = None
    BY <1>0 DEF Request
  <2>3. CASE Goes(r, new)
    <3>. HIDE DEF new
    <3>. QED
      BY <1>2, <2>1, <2>2, <2>3, GoesInv DEF LoginPassword
  <2>. QED
    BY <1>2, <2>3, RepliedInv DEF LoginPassword
<1>3. CASE LoginReadsName(r)
  <2>. DEFINE new == [req[r] EXCEPT !.pc = "issue", !.name = account.name]
  <2>1. /\ new \in Request /\ new.pc = "issue" /\ new.name \in Names
        /\ new.mustChange = req[r].mustChange
    BY <1>0 DEF Request
  <2>2. Goes(r, new) /\ req[r].pc = "verified"
    BY <1>3 DEF LoginReadsName
  <2>3. ~req[r].mustChange => account.hash # None
    BY <2>2 DEF Inv, RequestsOK
  <2>. HIDE DEF new
  <2>. QED
    BY <1>3, <2>1, <2>2, <2>3, GoesInv DEF LoginReadsName
<1>4. CASE LoginIssues(r)
  <2>. DEFINE new == [name |-> req[r].name, live |-> TRUE,
                      mustChange |-> req[r].mustChange]
  <2>1. PICK t \in Tokens \ issued :
          LET kept == {u \in DOMAIN sessions : sessions[u].live} IN
          /\ sessions' = [u \in kept \cup {t} |->
                            IF u = t THEN new ELSE sessions[u]]
          /\ issued' = issued \cup {t}
    BY <1>4 DEF LoginIssues
  <2>2. new \in Session /\ (~new.mustChange => account.hash # None)
    BY <1>0, <1>4 DEF LoginIssues, Request, Session, Inv, RequestsOK
  <2>3. /\ DOMAIN sessions' \subseteq DOMAIN sessions \cup {t}
        /\ \A u \in DOMAIN sessions' :
              sessions'[u] = IF u = t THEN new ELSE sessions[u]
    BY <2>1
  <2>4. UNCHANGED <<account, file>> /\ req' = [req EXCEPT ![r] = Idle]
    BY <1>4 DEF LoginIssues, Replied, Goes
  <2>. HIDE DEF new
  <2>5. TypeOK'
    BY <1>0, <2>1, <2>2, <2>3, <2>4 DEF Inv, TypeOK
  <2>6. PennedIn' /\ PasswordSticks'
    BY <2>2, <2>3, <2>4 DEF Inv, PennedIn, PasswordSticks
  <2>7. RequestsOK'
    BY <2>4 DEF Inv, TypeOK, RequestsOK, Idle
  <2>. QED
    BY <2>5, <2>6, <2>7 DEF Inv
<1>. QED
  BY <1>1, <1>2, <1>3, <1>4 DEF Login

\* An account change, from the session lookup to the sessions it drops.
LEMMA ChangeInv ==
  ASSUME Inv, NEW r \in Requests, Change(r)
  PROVE  Inv'
<1>0. /\ account \in Account
      /\ account.name \in Names /\ account.hash \in Passwords \cup {None}
      /\ req[r] \in Request /\ Idle \in Request
  BY DEF Inv, TypeOK, Account, Idle, Request
<1>1. CASE ChangeLooksUp(r)
  <2>1. PICK t \in DOMAIN sessions :
          IF sessions[t].live
          THEN /\ Goes(r, [req[r] EXCEPT !.pc = "looked_up", !.cookie = t,
                                         !.name = sessions[t].name])
               /\ UNCHANGED sessions
          ELSE /\ sessions' = Only(sessions, DOMAIN sessions \ {t})
               /\ UNCHANGED req
    BY <1>1 DEF ChangeLooksUp
  <2>. DEFINE new == [req[r] EXCEPT !.pc = "looked_up", !.cookie = t,
                                    !.name = sessions[t].name]
  <2>2. sessions[t].name \in Names /\ t \in Tokens
    BY DEF Inv, TypeOK, Session
  <2>3. new \in Request /\ new.pc = "looked_up"
    BY <1>0, <2>2 DEF Request
  <2>4. CASE Goes(r, new) /\ UNCHANGED sessions
    <3>. HIDE DEF new
    <3>. QED
      BY <1>1, <2>3, <2>4, GoesInv DEF ChangeLooksUp
  <2>5. CASE sessions' = Only(sessions, DOMAIN sessions \ {t}) /\ UNCHANGED req
    BY <1>1, <2>5 DEF ChangeLooksUp, Only,
                      Inv, TypeOK, RequestsOK, PennedIn, PasswordSticks
  <2>. QED
    BY <2>1, <2>4, <2>5
<1>2. CASE ChangeName(r)
  <2>. DEFINE new == [req[r] EXCEPT !.pc = "change_named", !.name = None]
  <2>1. new \in Request /\ new.pc = "change_named"
    BY <1>0 DEF Request
  <2>2. CASE Goes(r, new)
    <3>. HIDE DEF new
    <3>. QED
      BY <1>2, <2>1, <2>2, GoesInv DEF ChangeName
  <2>. QED
    BY <1>2, <2>2, RepliedInv DEF ChangeName
<1>3. CASE ChangePassword(r)
  <2>. DEFINE new == [req[r] EXCEPT !.pc = "change_verified"]
  <2>1. new \in Request /\ new.pc = "change_verified"
    BY <1>0 DEF Request
  <2>2. CASE Goes(r, new)
    <3>. HIDE DEF new
    <3>. QED
      BY <1>3, <2>1, <2>2, GoesInv DEF ChangePassword
  <2>. QED
    BY <1>3, <2>2, RepliedInv DEF ChangePassword
<1>4. CASE ChangeReadsName(r)
  <2>1. ASSUME NEW n \in Names \cup {None},
               Goes(r, [req[r] EXCEPT !.pc = "change_renaming", !.newName = n,
                                      !.name = account.name])
        PROVE  Inv'
    <3>. DEFINE new == [req[r] EXCEPT !.pc = "change_renaming", !.newName = n,
                                      !.name = account.name]
    <3>1. new \in Request /\ new.pc = "change_renaming"
      BY <1>0 DEF Request
    <3>. HIDE DEF new
    <3>. QED
      BY <1>4, <2>1, <3>1, GoesInv DEF ChangeReadsName, new
  <2>. QED
    BY <1>4, <2>1, RepliedInv DEF ChangeReadsName
<1>5. CASE ChangeChecks(r)
  <2>1. ASSUME NEW password \in Passwords \cup {Default, None},
               account.hash = None => password # None, password # Default,
               Goes(r, [req[r] EXCEPT !.pc = "checked", !.name = None,
                                      !.newPassword = password])
        PROVE  Inv'
    <3>. DEFINE new == [req[r] EXCEPT !.pc = "checked", !.name = None,
                                      !.newPassword = password]
    <3>1. new \in Request /\ new.pc = "checked" /\ new.newPassword = password
      BY <1>0, <2>1 DEF Request
    <3>2. Goes(r, new)
      BY <2>1
    <3>. HIDE DEF new
    <3>. QED
      BY <1>5, <2>1, <3>1, <3>2, GoesInv DEF ChangeChecks
  <2>. QED
    BY <1>5, <2>1, RepliedInv DEF ChangeChecks
<1>6. CASE ChangeSaves(r)
  <2>. DEFINE new == [req[r] EXCEPT !.pc = "saved"]
  <2>1. /\ new \in Request /\ new.pc = "saved"
        /\ new.newPassword = req[r].newPassword
    BY <1>0 DEF Request
  <2>2. CASE /\ file' = [name |-> OrElse(req[r].newName, file.name),
                         hash |-> OrElse(req[r].newPassword, file.hash)]
             /\ Goes(r, new)
    <3>1. /\ file' \in FileAccount /\ (file.hash # None => file'.hash # None)
          /\ req[r].newPassword # None => file'.hash # None
      BY <1>0, <2>2 DEF Inv, TypeOK, OrElse, FileAccount, Request
    <3>2. /\ req[r].newPassword = None => account.hash # None
          /\ UNCHANGED <<account, sessions, issued>>
      BY <1>6 DEF ChangeSaves, Inv, RequestsOK
    <3>. HIDE DEF new
    <3>. QED
      BY <2>1, <2>2, <3>1, <3>2
         DEF Goes, Inv, TypeOK, RequestsOK, PennedIn, PasswordSticks
  <2>. QED
    BY <1>6, <2>2, RepliedInv DEF ChangeSaves
<1>7. CASE ChangeUpdates(r)
  <2>. DEFINE new == [req[r] EXCEPT !.pc = "updated", !.name = account'.name]
  <2>1. /\ account' \in Account /\ account'.name \in Names
        /\ account'.hash # None /\ file.hash # None
    BY <1>0, <1>7 DEF ChangeUpdates, OrElse, Account, Request, Inv, RequestsOK,
                      PasswordSticks
  <2>2. new \in Request /\ new.pc = "updated" /\ new.name \in Names
    BY <1>0, <2>1 DEF Request
  <2>3. Goes(r, new) /\ UNCHANGED <<file, sessions, issued>>
    BY <1>7 DEF ChangeUpdates
  <2>. HIDE DEF new
  <2>. QED
    BY <2>1, <2>2, <2>3
       DEF Goes, Inv, TypeOK, RequestsOK, PennedIn, PasswordSticks
<1>8. CASE ChangeRenames(r)
  <2>1. req[r].name \in Names /\ account.hash # None
    BY <1>8 DEF ChangeRenames, Inv, RequestsOK
  <2>2. /\ DOMAIN sessions' \subseteq DOMAIN sessions
        /\ \A t \in DOMAIN sessions' : sessions'[t] \in Session
    BY <1>0, <1>8, <2>1 DEF ChangeRenames, Inv, TypeOK, Session
  <2>3. UNCHANGED <<account, file, issued>> /\ req' = [req EXCEPT ![r] = Idle]
    BY <1>8 DEF ChangeRenames, Replied, Goes
  <2>4. TypeOK'
    BY <1>0, <2>2, <2>3 DEF Inv, TypeOK
  <2>5. RequestsOK'
    BY <2>3 DEF Inv, TypeOK, RequestsOK, Idle
  <2>. QED
    BY <2>1, <2>3, <2>4, <2>5 DEF Inv, PennedIn, PasswordSticks
<1>. QED
  BY <1>1, <1>2, <1>3, <1>4, <1>5, <1>6, <1>7, <1>8 DEF Change

\* Every step keeps the invariant.
LEMMA NextInv == Inv /\ [Next]_vars => Inv'
<1>. SUFFICES ASSUME Inv, [Next]_vars PROVE Inv'
  OBVIOUS
<1>1. ASSUME NEW r \in Requests, Login(r) \/ Change(r)
      PROVE  Inv'
  BY <1>1, LoginInv, ChangeInv
<1>0. Logins \subseteq Requests /\ Changes \subseteq Requests
  BY DEF Requests
<1>2. ASSUME NEW t \in Tokens, Logout(t) \/ Expire(t)
      PROVE  Inv'
  <2>1. /\ UNCHANGED <<account, file, issued, req>>
        /\ DOMAIN sessions' \subseteq DOMAIN sessions
        /\ \A u \in DOMAIN sessions' :
              /\ sessions'[u] \in Session
              /\ sessions'[u].mustChange = sessions[u].mustChange
    BY <1>2 DEF Inv, TypeOK, Session, Logout, Expire, Only
  <2>. QED
    BY <2>1 DEF Inv, TypeOK, RequestsOK, PennedIn, PasswordSticks
<1>3. CASE Restart
  BY <1>3, StartInv DEF Restart, Inv, TypeOK
<1>4. CASE Reset
  <2>1. [file EXCEPT !.hash = None] \in FileAccount
    BY DEF Inv, TypeOK, FileAccount
  <2>. QED
    BY <1>4, <2>1, StartInv DEF Reset
<1>5. CASE UNCHANGED vars
  BY <1>5 DEF vars, Inv, TypeOK, RequestsOK, PennedIn, PasswordSticks
<1>. QED
  BY <1>0, <1>1, <1>2, <1>3, <1>4, <1>5 DEF Next

\* The invariant of every behaviour.
LEMMA Invariance == Spec => []Inv
  BY InitInv, NextInv, PTL DEF Spec

\* The account, its file and its sessions keep their types, and no session is
\* under a token that was never issued.
THEOREM TypeCorrect == Spec => []TypeOK
<1>1. Inv => TypeOK
  BY DEF Inv
<1>. QED
  BY <1>1, Invariance, PTL

\* However logins, account changes, restarts and resets overlap, a session
\* that is not restricted to choosing a password exists only while the account
\* has a password of its own.
THEOREM FirstBootPennedIn == Spec => []PennedIn
<1>1. Inv => PennedIn
  BY DEF Inv
<1>. QED
  BY <1>1, Invariance, PTL

\* A chosen password survives every crash: the file has one whenever the
\* memory has.
THEOREM PasswordIsDurable == Spec => []PasswordSticks
<1>1. Inv => PasswordSticks
  BY DEF Inv
<1>. QED
  BY <1>1, Invariance, PTL

-----------------------------------------------------------------------------
(* One change at a time                                                    *)

\* The account as the change r is about to leave it in memory.
Merged(r) == [name |-> OrElse(req[r].newName, account.name),
              hash |-> OrElse(req[r].newPassword, account.hash)]

\* A login is never where an account change saves, and between the save and
\* the update the memory lacks exactly what the change is about to add.
SerialInv ==
    /\ \A r \in Logins : req[r].pc \in {"idle", "named", "verified", "issue"}
    /\ \A r \in Requests : req[r].pc = "saved" => Loaded(file) = Merged(r)
    /\ FileIsMemory

\* Nothing about the file and the memory has happened when the server starts.
LEMMA SerialInit == Init => SerialInv
BY DEF Init, SerialInv, FileIsMemory, Idle, Requests

\* A step that neither saves nor updates leaves both conjuncts as they were,
\* whatever it does to the request's other fields.
LEMMA SerialQuiet ==
  ASSUME SerialInv, NEW r \in Requests, NEW new,
         TypeOK, Goes(r, new), UNCHANGED <<account, file>>,
         r \in Logins => new.pc \in {"idle", "named", "verified", "issue"},
         new.pc # "saved", req[r].pc # "saved"
  PROVE  SerialInv'
BY DEF SerialInv, FileIsMemory, Merged, Goes, TypeOK

\* One step of a login.
LEMMA SerialLogin ==
  ASSUME Inv, SerialInv, NEW r \in Logins, Login(r)
  PROVE  SerialInv'
<1>. r \in Requests /\ TypeOK /\ req[r] \in Request
  BY DEF Requests, Inv, TypeOK
<1>. USE DEF Replied, Idle, Request
<1>1. CASE LoginName(r)
  <2>1. CASE UNCHANGED req
    BY <1>1, <2>1 DEF LoginName, SerialInv, FileIsMemory, Merged
  <2>2. CASE Goes(r, [req[r] EXCEPT !.pc = "named"])
    BY <1>1, <2>2, SerialQuiet DEF LoginName
  <2>. QED
    BY <1>1, <2>1, <2>2 DEF LoginName
<1>2. CASE LoginPassword(r)
  BY <1>2, SerialQuiet DEF LoginPassword
<1>3. CASE LoginReadsName(r)
  BY <1>3, SerialQuiet DEF LoginReadsName
<1>4. CASE LoginIssues(r)
  BY <1>4, SerialQuiet DEF LoginIssues
<1>. QED
  BY <1>1, <1>2, <1>3, <1>4 DEF Login

\* One step of the only change there can be.
LEMMA SerialChange ==
  ASSUME Inv, SerialInv, \A c, d \in Changes : c = d,
         NEW r \in Changes, Change(r)
  PROVE  SerialInv'
<1>. r \in Requests /\ r \notin Logins /\ TypeOK /\ req[r] \in Request
  BY AccountAssumption DEF Requests, Inv, TypeOK
<1>. USE DEF Replied, Idle, Request
<1>1. CASE ChangeLooksUp(r)
  <2>1. CASE UNCHANGED req
    BY <1>1, <2>1 DEF ChangeLooksUp, SerialInv, FileIsMemory, Merged
  <2>2. ASSUME NEW t, Goes(r, [req[r] EXCEPT !.pc = "looked_up", !.cookie = t,
                                             !.name = sessions[t].name])
        PROVE  SerialInv'
    BY <1>1, <2>2, SerialQuiet DEF ChangeLooksUp
  <2>. QED
    BY <1>1, <2>1, <2>2 DEF ChangeLooksUp
<1>2. CASE ChangeName(r)
  BY <1>2, SerialQuiet DEF ChangeName
<1>3. CASE ChangePassword(r)
  BY <1>3, SerialQuiet DEF ChangePassword
<1>4. CASE ChangeReadsName(r)
  BY <1>4, SerialQuiet DEF ChangeReadsName
<1>5. CASE ChangeChecks(r)
  BY <1>5, SerialQuiet DEF ChangeChecks
<1>6. CASE ChangeSaves(r)
  <2>1. \A q \in Requests : req[q].pc # "saved"
    BY <1>6 DEF ChangeSaves, SerialInv, Requests
  <2>2. account = Loaded(file)
    BY <2>1 DEF SerialInv, FileIsMemory
  <2>. DEFINE new == [req[r] EXCEPT !.pc = "saved"]
  <2>3. CASE /\ file' = [name |-> OrElse(req[r].newName, file.name),
                         hash |-> OrElse(req[r].newPassword, file.hash)]
             /\ Goes(r, new)
    <3>1. new.pc = "saved" /\ new.newName = req[r].newName
          /\ new.newPassword = req[r].newPassword
      OBVIOUS
    <3>2. Loaded(file') = Merged(r)
      BY <2>2, <2>3 DEF Loaded, Merged, OrElse
    <3>3. UNCHANGED account
      BY <1>6 DEF ChangeSaves
    <3>. HIDE DEF new
    <3>. QED
      BY <2>1, <2>3, <3>1, <3>2, <3>3
         DEF Goes, SerialInv, FileIsMemory, Merged, TypeOK
  <2>. QED
    BY <1>6, <2>3, SerialQuiet DEF ChangeSaves
<1>7. CASE ChangeUpdates(r)
  <2>. DEFINE new == [req[r] EXCEPT !.pc = "updated", !.name = account'.name]
  <2>1. account' = Loaded(file')
    BY <1>7 DEF ChangeUpdates, SerialInv, Merged
  <2>2. \A q \in Requests : q # r => req[q].pc # "saved"
    BY DEF SerialInv, Requests
  <2>3. Goes(r, new) /\ new.pc = "updated"
    BY <1>7 DEF ChangeUpdates
  <2>. HIDE DEF new
  <2>. QED
    BY <2>1, <2>2, <2>3 DEF Goes, SerialInv, FileIsMemory, TypeOK
<1>8. CASE ChangeRenames(r)
  BY <1>8, SerialQuiet DEF ChangeRenames
<1>. QED
  BY <1>1, <1>2, <1>3, <1>4, <1>5, <1>6, <1>7, <1>8 DEF Change

\* Every step, with the invariant proved above at hand.
LEMMA SerialNext ==
  ASSUME \A c, d \in Changes : c = d
  PROVE  Inv /\ SerialInv /\ [Next]_vars => SerialInv'
<1>. SUFFICES ASSUME Inv, SerialInv, [Next]_vars PROVE SerialInv'
  OBVIOUS
<1>1. ASSUME NEW r \in Logins, Login(r) PROVE SerialInv'
  BY <1>1, SerialLogin
<1>2. ASSUME NEW r \in Changes, Change(r) PROVE SerialInv'
  BY <1>2, SerialChange
<1>3. ASSUME NEW t \in Tokens, Logout(t) \/ Expire(t) PROVE SerialInv'
  BY <1>3 DEF Logout, Expire, SerialInv, FileIsMemory, Merged
<1>4. ASSUME NEW f, StartsFrom(f) PROVE SerialInv'
  BY <1>4 DEF StartsFrom, SerialInv, FileIsMemory, Idle, Requests
<1>5. CASE UNCHANGED vars
  BY <1>5 DEF vars, SerialInv, FileIsMemory, Merged
<1>. QED
  BY <1>1, <1>2, <1>3, <1>4, <1>5 DEF Next, Restart, Reset

\* On a server that handles one account change at a time, with any number of
\* logins, the account in memory is the one a restart would load, except
\* between a change's save and its update.
THEOREM SerialChangesAgree ==
  ASSUME \A c, d \in Changes : c = d
  PROVE  Spec => []FileIsMemory
<1>1. Inv /\ SerialInv /\ [Next]_vars => SerialInv'
  BY SerialNext
<1>2. SerialInv => FileIsMemory
  BY DEF SerialInv
<1>. QED
  BY <1>1, <1>2, SerialInit, Invariance, PTL DEF Spec
=============================================================================
