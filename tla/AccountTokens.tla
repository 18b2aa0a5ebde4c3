---------------------------- MODULE AccountTokens ----------------------------
(***************************************************************************)
(* The ChatGPT credentials that FCC processes share through one file:      *)
(* providers/openai_codex/auth.py, with the lock of core/                  *)
(* interprocess_lock.py.  Credentials are told apart by a number; the      *)
(* authority accepts a refresh token until it has answered it with new     *)
(* credentials.  A refresh runs in a request, which may be cancelled at    *)
(* any await.  What it gave to a thread goes on all the same, while the    *)
(* request gives its file lock back: such a thread writes or deletes the   *)
(* file behind the lock, or gets a lock that nobody waits for any more.    *)
(***************************************************************************)
EXTENDS FiniteSets, Naturals

CONSTANTS
  Server,          \* FCC processes
  NoServer,
  MaxCredentials,  \* bound: credentials the authority issues
  MaxCalls         \* bound: refreshes, logins and disconnects

ASSUME AccountAssumption ==
  NoServer \notin Server /\ MaxCredentials \in Nat \ {0} /\ MaxCalls \in Nat

NoToken == 0
Credential == 1..MaxCredentials
AnyToken == Credential \cup {NoToken}

VARIABLES
  saved,      \* the credential file
  memory,     \* _credentials of each process
  issued,     \* credentials issued so far
  accepted,   \* refresh tokens the authority accepts
  expiring,   \* credentials about to expire: REFRESH_EARLY_SECONDS
  refresh,    \* the operation of each process that holds its _state_lock
  login,      \* the login task of each process
  fileLock,   \* the process, and which of its two, that holds the file lock
  late,       \* what threads of cancelled operations are still to write
  astray,     \* all they were to write so far
  unlinks,    \* how many of them are still to delete the file
  waits,      \* how many still wait for the file lock
  calls

threads == <<late, astray, unlinks, waits>>
accountVars == <<saved, memory, issued, accepted, expiring, refresh, login, fileLock, threads, calls>>

(***************************************************************************)
(* An operation under the state lock is waiting for the file lock,         *)
(* reading the file, posting its refresh token, writing the answer,        *)
(* deleting what was rejected; or it is a disconnect that revokes, waits   *)
(* for the lock, or removes the file.  Before, while it closes the login,  *)
(* a disconnect has only the operation lock, and the stage of the login.   *)
(***************************************************************************)

AtRest == [at |-> "idle", new |-> NoToken]
Unlocked == <<NoServer, "free">>

AccountInit ==
  /\ saved = 1
  /\ memory = [p \in Server |-> 1]
  /\ issued = 1 /\ accepted = {1} /\ expiring = {}
  /\ refresh = [p \in Server |-> AtRest]
  /\ login = [p \in Server |-> AtRest]
  /\ fileLock = Unlocked
  /\ late = {} /\ astray = {} /\ unlinks = 0 /\ waits = 0
  /\ calls = 0

Free == fileLock = Unlocked
Refreshes(p, stage) == refresh' = [refresh EXCEPT ![p].at = stage]
EndsRefresh(p) == refresh' = [refresh EXCEPT ![p] = AtRest]
EndsLogin(p) == login' = [login EXCEPT ![p] = AtRest]
Unlocks(p, who) == fileLock' = IF fileLock = <<p, who>> THEN Unlocked ELSE fileLock
Counts == calls < MaxCalls /\ calls' = calls + 1
authority == <<issued, accepted, expiring>>

\* The authority issues new credentials.
Issues ==
  /\ issued < MaxCredentials
  /\ issued' = issued + 1

Expires(k) ==
  /\ k \in 1..issued /\ k \notin expiring
  /\ expiring' = expiring \cup {k}
  /\ UNCHANGED <<saved, memory, issued, accepted, refresh, login, fileLock, threads, calls>>

-----------------------------------------------------------------------------
(* access() and recover_unauthorized() with a token to renew. *)

AccessRefreshes(p) ==
  /\ refresh[p].at = "idle" /\ memory[p] # NoToken
  /\ memory[p] \in expiring
  /\ Counts
  /\ Refreshes(p, "locking")
  /\ UNCHANGED <<saved, memory, authority, login, fileLock, threads>>

\* A token was refused.  The file is read before, without its lock, and what
\* it holds is taken over; the request goes on with that, if it is not what was
\* refused, and else renews it.
RecoverReloads(p) ==
  /\ refresh[p].at = "idle"
  /\ Counts
  /\ memory' = IF saved = NoToken THEN memory ELSE [memory EXCEPT ![p] = saved]
  /\ \/ UNCHANGED refresh
     \/ memory'[p] # NoToken /\ Refreshes(p, "locking")
  /\ UNCHANGED <<saved, authority, login, fileLock, threads>>

\* Mutant of RefreshLocks: nobody else is kept out of the refresh.
RefreshLocksNothing(p) ==
  /\ refresh[p].at = "locking"
  /\ Refreshes(p, "reading")
  /\ UNCHANGED <<saved, memory, authority, login, fileLock, threads, calls>>

RefreshLocks(p) ==
  /\ refresh[p].at = "locking" /\ Free
  /\ fileLock' = <<p, "refresh">>
  /\ Refreshes(p, "reading")
  /\ UNCHANGED <<saved, memory, authority, login, threads, calls>>

\* _refresh_locked() takes over what another process has saved, if it is good
\* for some time; else it presents its own token.
RefreshReads(p) ==
  /\ refresh[p].at = "reading"
  /\ IF saved \notin {NoToken, memory[p]} /\ saved \notin expiring
     THEN memory' = [memory EXCEPT ![p] = saved] /\ EndsRefresh(p) /\ Unlocks(p, "refresh")
     ELSE Refreshes(p, "posting") /\ UNCHANGED <<memory, fileLock>>
  /\ UNCHANGED <<saved, authority, login, threads, calls>>

\* The authority accepts it, once.
Renews(p) ==
  /\ refresh[p].at = "posting" /\ memory[p] \in accepted
  /\ Issues
  /\ accepted' = (accepted \ {memory[p]}) \cup {issued'}

RefreshAnswered(p) ==
  /\ Renews(p)
  /\ refresh' = [refresh EXCEPT ![p] = [at |-> "writing", new |-> issued']]
  /\ UNCHANGED <<saved, memory, expiring, login, fileLock, threads, calls>>

RefreshWrites(p) ==
  /\ refresh[p].at = "writing"
  /\ saved' = refresh[p].new
  /\ memory' = [memory EXCEPT ![p] = refresh[p].new]
  /\ EndsRefresh(p) /\ Unlocks(p, "refresh")
  /\ UNCHANGED <<authority, login, threads, calls>>

RefreshRejected(p) ==
  /\ refresh[p].at = "posting" /\ memory[p] \notin accepted
  /\ Refreshes(p, "rejected")
  /\ UNCHANGED <<saved, memory, authority, login, fileLock, threads, calls>>

\* The credentials are deleted, in the file and here.
RefreshDeletes(p) ==
  /\ refresh[p].at = "rejected"
  /\ saved' = NoToken
  /\ memory' = [memory EXCEPT ![p] = NoToken]
  /\ EndsRefresh(p) /\ Unlocks(p, "refresh")
  /\ UNCHANGED <<authority, login, threads, calls>>

\* The lock was not to be had in 30 s; or the file, the network or the server
\* failed, after the authority had answered or before, and after the file was
\* replaced or before.
RefreshGivesUp(p) ==
  /\ refresh[p].at # "idle"
  /\ EndsRefresh(p) /\ Unlocks(p, "refresh")
  /\ \/ UNCHANGED <<issued, accepted>>
     \/ Renews(p)
  /\ saved' \in {saved} \cup (IF refresh[p].at = "writing" THEN {refresh[p].new} ELSE {})
  /\ UNCHANGED <<memory, expiring, login, threads, calls>>

\* What the thread of a cancelled operation is still to do; one that reads the
\* file does no harm.
Abandons(stage, new) ==
  /\ late' = late \cup new /\ astray' = astray \cup new
  /\ unlinks' = unlinks + (IF stage \in {"rejected", "erasing"} THEN 1 ELSE 0)
  /\ waits' = waits + (IF stage \in {"locking", "removing"} THEN 1 ELSE 0)

\* The request is cancelled; a post of its may be under way.
RefreshCancelled(p) ==
  /\ refresh[p].at # "idle"
  /\ EndsRefresh(p) /\ Unlocks(p, "refresh")
  /\ \/ UNCHANGED <<issued, accepted>>
     \/ Renews(p)
  /\ Abandons(refresh[p].at, IF refresh[p].at = "writing" THEN {refresh[p].new} ELSE {})
  /\ UNCHANGED <<saved, memory, expiring, login, calls>>

LateWrite(k) ==
  /\ k \in late
  /\ late' = late \ {k}
  /\ saved' = k
  /\ UNCHANGED <<astray, unlinks, waits, memory, authority, refresh, login, fileLock, calls>>

LateDelete ==
  /\ unlinks > 0 /\ unlinks' = unlinks - 1
  /\ saved' = NoToken
  /\ UNCHANGED <<late, astray, waits, memory, authority, refresh, login, fileLock, calls>>

\* A thread that nobody waits for any more gets the lock, or gives up; the lock
\* is given back when the handle goes.
StrayLocks ==
  /\ waits > 0 /\ waits' = waits - 1
  /\ \/ Free /\ fileLock' = <<NoServer, "stray">>
     \/ UNCHANGED fileLock
  /\ UNCHANGED <<late, astray, unlinks, saved, memory, authority, refresh, login, calls>>

StrayUnlocks ==
  /\ fileLock = <<NoServer, "stray">> /\ fileLock' = Unlocked
  /\ UNCHANGED <<threads, saved, memory, authority, refresh, login, calls>>

-----------------------------------------------------------------------------
(* Login and disconnect. *)

LoginStarts(p) ==
  /\ login[p].at = "idle" /\ refresh[p].at = "idle"
  /\ Counts
  /\ login' = [login EXCEPT ![p].at = "granting"]
  /\ UNCHANGED <<saved, memory, authority, refresh, fileLock, threads>>

\* _exchange_code() answered; or the login fails.
LoginGranted(p) ==
  /\ login[p].at = "granting"
  /\ Issues
  /\ accepted' = accepted \cup {issued'}
  /\ login' = [login EXCEPT ![p] = [at |-> "locking", new |-> issued']]
  /\ UNCHANGED <<saved, memory, expiring, refresh, fileLock, threads, calls>>

LoginFails(p) ==
  /\ login[p].at \in {"granting", "locking", "writing"}
  /\ EndsLogin(p) /\ Unlocks(p, "login")
  /\ saved' \in {saved} \cup (IF login[p].at = "writing" THEN {login[p].new} ELSE {})
  /\ UNCHANGED <<memory, authority, refresh, threads, calls>>

LoginLocks(p) ==
  /\ login[p].at = "locking" /\ Free
  /\ fileLock' = <<p, "login">>
  /\ login' = [login EXCEPT ![p].at = "writing"]
  /\ UNCHANGED <<saved, memory, authority, refresh, threads, calls>>

LoginWrites(p) ==
  /\ login[p].at = "writing"
  /\ saved' = login[p].new
  /\ Unlocks(p, "login")
  /\ login' = [login EXCEPT ![p].at = "storing"]
  /\ UNCHANGED <<memory, authority, refresh, threads, calls>>

LoginStores(p) ==
  /\ login[p].at = "storing" /\ refresh[p].at = "idle"
  /\ memory' = [memory EXCEPT ![p] = login[p].new]
  /\ EndsLogin(p)
  /\ UNCHANGED <<saved, authority, refresh, fileLock, threads, calls>>

\* cancel_login() and disconnect() cancel the login task and wait for its end.
LoginCut(p, next) ==
  /\ refresh[p].at = "idle"
  /\ Abandons(login[p].at, IF login[p].at = "writing" THEN {login[p].new} ELSE {})
  /\ login' = [login EXCEPT ![p] = [at |-> next, new |-> NoToken]] /\ Unlocks(p, "login")
  /\ UNCHANGED <<saved, memory, authority, refresh>>

CancelLogin(p) ==
  /\ login[p].at \notin {"idle", "closing"}
  /\ LoginCut(p, "idle")
  /\ UNCHANGED calls

DisconnectBegins(p) ==
  /\ login[p].at # "closing"
  /\ Counts
  /\ LoginCut(p, "closing")

DisconnectRevokes(p) ==
  /\ login[p].at = "closing" /\ refresh[p].at = "idle"
  /\ accepted' \in {accepted, accepted \ {memory[p]}}
  /\ Refreshes(p, "removing") /\ EndsLogin(p)
  /\ UNCHANGED <<saved, memory, issued, expiring, fileLock, threads, calls>>

\* The disconnect is cancelled while it closes the login or revokes.
DisconnectCancelled(p) ==
  /\ login[p].at = "closing" /\ EndsLogin(p)
  /\ \/ UNCHANGED accepted
     \/ refresh[p].at = "idle" /\ accepted' = accepted \ {memory[p]}
  /\ UNCHANGED <<saved, memory, issued, expiring, refresh, fileLock, threads, calls>>

DisconnectLocks(p) ==
  /\ refresh[p].at = "removing" /\ Free
  /\ fileLock' = <<p, "refresh">>
  /\ Refreshes(p, "erasing")
  /\ UNCHANGED <<saved, memory, authority, login, threads, calls>>

DisconnectEnds(p) ==
  /\ refresh[p].at = "erasing"
  /\ saved' = NoToken
  /\ memory' = [memory EXCEPT ![p] = NoToken]
  /\ EndsRefresh(p) /\ Unlocks(p, "refresh")
  /\ UNCHANGED <<authority, login, threads, calls>>

AccountDone ==
  /\ calls = MaxCalls /\ late = {} /\ unlinks = 0 /\ waits = 0
  /\ \A p \in Server : refresh[p].at = "idle" /\ login[p].at = "idle"
  /\ UNCHANGED accountVars

AccountNext ==
  \/ \E k \in Credential : Expires(k) \/ LateWrite(k)
  \/ \E p \in Server :
       \/ AccessRefreshes(p) \/ RecoverReloads(p) \/ RefreshLocks(p) \/ RefreshGivesUp(p)
       \/ RefreshReads(p) \/ RefreshAnswered(p) \/ RefreshWrites(p) \/ RefreshRejected(p)
       \/ RefreshDeletes(p) \/ RefreshCancelled(p)
       \/ LoginStarts(p) \/ LoginGranted(p) \/ LoginFails(p) \/ LoginLocks(p) \/ LoginWrites(p)
       \/ LoginStores(p) \/ CancelLogin(p)
       \/ DisconnectBegins(p) \/ DisconnectRevokes(p) \/ DisconnectCancelled(p)
       \/ DisconnectLocks(p) \/ DisconnectEnds(p)
  \/ LateDelete \/ StrayLocks \/ StrayUnlocks
  \/ AccountDone

AccountSpec == AccountInit /\ [][AccountNext]_accountVars

-----------------------------------------------------------------------------
(* Saved credentials that the authority would still renew are replaced or  *)
(* removed only by a login or a disconnect, or if they were about to       *)
(* expire: no refresh, of any process, overwrites or deletes those that    *)
(* another process has saved (auth.py _refresh_locked).  A cancelled       *)
(* request is the exception: what its thread had begun is done behind the  *)
(* lock, and may delete or overwrite good credentials of others; and what  *)
(* was written behind the lock another refresh may miss.                   *)
GoodTokenSurvives ==
  [][(saved' # saved /\ saved \in accepted)
       => \/ \E p \in Server : login[p].at = "writing" /\ login'[p].at # "writing"
          \/ \E p \in Server : refresh[p].at = "erasing" /\ refresh'[p].at = "idle"
          \/ late \ late' # {} \/ unlinks' < unlinks
          \/ saved \in expiring \cup astray]_accountVars
=============================================================================
