-------------------------------- MODULE Users --------------------------------
(***************************************************************************)
(* auth.py and the routes that use it: the user store in users.json, login *)
(* with its rate limit and lockout, sessions, reset tokens and the         *)
(* administration of users.  Handlers run on the event loop; the check of  *)
(* a request's session runs in a worker thread, before its handler.        *)
(***************************************************************************)
EXTENDS Naturals, Sequences, FiniteSets

CONSTANTS
  Names, Ips, Requests,
  First,       \* the administrator migrated from config.ini
  Window,      \* RATE_LIMIT_WINDOW_SECONDS
  MaxAttempts, \* RATE_LIMIT_MAX_ATTEMPTS
  Threshold,   \* ACCOUNT_LOCKOUT_THRESHOLD
  SessionAge, ResetAge,
  MaxTime, MaxPasswords, MaxTokens, MaxCrashes, \* bounds
  None

Roles == {"admin", "operator"}
Accounts == [role : Roles, enabled : BOOLEAN, locked : BOOLEAN, failed : 0 .. Threshold, pw : 1 .. MaxPasswords]
Stores == [Names -> Accounts \cup {None}]
Identities == [user : Names, role : Roles]
Counters == [count : 1 .. MaxAttempts, first : 0 .. MaxTime, until : 0 .. MaxTime + Window]
Links == [user : Names, pw : 1 .. MaxPasswords, at : 0 .. MaxTime]

ASSUME UserConstants ==
  /\ First \in Names /\ {Window, MaxAttempts, Threshold, SessionAge, ResetAge, MaxPasswords} \subseteq Nat \ {0}
  /\ MaxAttempts >= 2
  /\ {MaxTime, MaxTokens, MaxCrashes} \subseteq Nat
  /\ None \notin Names \cup Accounts \cup Stores \cup Identities \cup Counters

VARIABLES
  now,
  users,    \* what users.json last held in full
  torn,     \* the file is being rewritten, or was when the process died
  writing,  \* the content being written, or None
  rate,     \* _rate_limit_store
  sessions, \* the session cookies handed out
  resets,   \* the reset links mailed
  spent,    \* the reset links that changed a password
  request,  \* the identity each request was let in with
  attempts, \* per address, the last times it was answered that a login failed
  crashes

storeVars == <<users, torn, writing>>
limitVars == <<rate, attempts>>
userVars == <<now, storeVars, limitVars, sessions, resets, spent, request, crashes>>

UsersTypeOK ==
  /\ now \in 0 .. MaxTime /\ users \in Stores /\ torn \in BOOLEAN /\ writing \in Stores \cup {None}
  /\ rate \in [Ips -> Counters \cup {None}]
  /\ sessions \subseteq [user : Names, at : 0 .. MaxTime]
  /\ spent \subseteq resets /\ resets \subseteq Links
  /\ request \in [Requests -> Identities \cup {None}]
  /\ attempts \in [Ips -> Seq(0 .. MaxTime)] /\ crashes \in 0 .. MaxCrashes

NewAccount(role, pw) == [role |-> role, enabled |-> TRUE, locked |-> FALSE, failed |-> 0, pw |-> pw]

UsersInit ==
  /\ now = 0
  /\ users = [u \in Names |-> IF u = First THEN NewAccount("admin", 1) ELSE None]
  /\ torn = FALSE /\ writing = None
  /\ rate = [i \in Ips |-> None]
  /\ sessions = {} /\ resets = {} /\ spent = {}
  /\ request = [r \in Requests |-> None]
  /\ attempts = [i \in Ips |-> <<>>]
  /\ crashes = 0

-----------------------------------------------------------------------------
(* The store *)

\* _load_users(): a file that does not parse holds nobody.
Loaded == IF torn THEN [u \in Names |-> None] ELSE users

Idle == writing = None

\* _save_users(): opening the file for writing empties it.
Saves(new) == writing' = new /\ torn' = TRUE /\ UNCHANGED users
Kept == UNCHANGED storeVars

Saved ==
  /\ writing # None
  /\ users' = writing /\ torn' = FALSE /\ writing' = None
  /\ UNCHANGED <<now, limitVars, sessions, resets, spent, request, crashes>>

Known(u) == Loaded[u] # None
Usable(u) == Known(u) /\ Loaded[u].enabled /\ ~ Loaded[u].locked
Administrators(s) == {u \in Names : s[u] # None /\ s[u].role = "admin"}
EnabledAdministrators(s) == {u \in Administrators(s) : s[u].enabled}
Fresh(token, age) == now - token.at <= age

-----------------------------------------------------------------------------
(* Rate limit and login *)

Blocked(ip) == rate[ip] # None /\ now < rate[ip].until

Expired(ip) == rate[ip] # None /\ now > rate[ip].until /\ now - rate[ip].first > Window

Cleaned == [ip \in Ips |-> IF Expired(ip) THEN None ELSE rate[ip]]

\* Mutant: the limit is one attempt late.
FailureCountedLate(ip) ==
  LET r == rate[ip]
  IN IF r = None \/ now - r.first > Window
     THEN [count |-> 1, first |-> now, until |-> 0]
     ELSE [count |-> IF r.count < MaxAttempts THEN r.count + 1 ELSE MaxAttempts, first |-> r.first,
           until |-> IF r.count + 1 > MaxAttempts THEN now + Window ELSE r.until]

\* _record_failed_attempt()
FailureCounted(ip) ==
  LET r == rate[ip]
  IN IF r = None \/ now - r.first > Window
     THEN [count |-> 1, first |-> now, until |-> 0]
     ELSE [count |-> IF r.count < MaxAttempts THEN r.count + 1 ELSE MaxAttempts, first |-> r.first,
           until |-> IF r.count + 1 >= MaxAttempts THEN now + Window ELSE r.until]

\* As many as two full counts are remembered.
Remembered(times) == Append(IF Len(times) < 2 * MaxAttempts THEN times ELSE Tail(times), now)

Attempted(ip) ==
  /\ rate' = [Cleaned EXCEPT ![ip] = FailureCounted(ip)]
  /\ attempts' = [attempts EXCEPT ![ip] = Remembered(attempts[ip])]

\* _record_failed_login(): the account is locked by the failure that reaches the threshold.
LoginFailed(u) ==
  LET n == Loaded[u].failed + 1
  IN [Loaded EXCEPT ![u].failed = n, ![u].locked = Loaded[u].locked \/ n >= Threshold]

\* The form asks for the limit and the account's state before the password.
LoginRefused(ip, u) == Blocked(ip) \/ (Known(u) /\ ~ Usable(u))

Login(ip, u, correct) ==
  /\ Idle
  /\ \/ /\ Blocked(ip) \/ (Known(u) /\ ~ Usable(u))
        /\ rate' = Cleaned
        /\ Kept /\ UNCHANGED <<attempts, sessions>>
     \/ /\ ~ LoginRefused(ip, u) /\ Known(u) /\ correct /\ Cardinality(sessions) < MaxTokens
        /\ rate' = [Cleaned EXCEPT ![ip] = None]
        /\ attempts' = [attempts EXCEPT ![ip] = <<>>]
        /\ Saves([Loaded EXCEPT ![u].failed = 0])
        /\ sessions' = sessions \cup {[user |-> u, at |-> now]}
     \/ /\ ~ LoginRefused(ip, u) /\ (Known(u) => ~ correct)
        /\ Attempted(ip)
        /\ IF Known(u) THEN Saves(LoginFailed(u)) ELSE Kept
        /\ UNCHANGED sessions
  /\ UNCHANGED <<now, resets, spent, request, crashes>>

-----------------------------------------------------------------------------
(* Passwords *)

\* request_password_reset(): nothing for an unknown or disabled user.
Minted(u) ==
  IF Known(u) /\ Loaded[u].enabled THEN {[user |-> u, pw |-> Loaded[u].pw, at |-> now]} ELSE {}

\* Asking for a link counts against the address, whoever it is asked for.
ForgotPassword(ip, u) ==
  /\ Idle
  /\ IF Blocked(ip)
     THEN rate' = Cleaned /\ UNCHANGED <<attempts, resets>>
     ELSE /\ Attempted(ip)
          /\ resets' = IF Cardinality(resets) < MaxTokens THEN resets \cup Minted(u) ELSE resets
  /\ UNCHANGED <<now, storeVars, sessions, spent, request, crashes>>

\* The hash of a new password is unlike any that a link still names; no other
\* difference between two passwords is ever looked at.
UnlikeLinks(u, pw) == \A t \in resets : t.user = u => t.pw < pw
NewPassword(u) == CHOOSE pw \in 1 .. MaxPasswords : UnlikeLinks(u, pw)

WithPassword(s, u) == [s EXCEPT ![u].pw = NewPassword(u)]
CanChoose(u) == UnlikeLinks(u, MaxPasswords) \* bound
CanChange(u) == Known(u) /\ CanChoose(u)

\* Mutant: the fingerprint of the password is not compared.
ValidUnversioned(t) == Fresh(t, ResetAge) /\ Known(t.user) /\ Loaded[t.user].enabled

\* verify_reset_token(): the token names the password it may replace.
Valid(t) ==
  /\ Fresh(t, ResetAge) /\ Known(t.user) /\ Loaded[t.user].enabled
  /\ Loaded[t.user].pw = t.pw

\* The new password ends the lockout too.
Recovered(u) == [WithPassword(Loaded, u) EXCEPT ![u].failed = 0, ![u].locked = FALSE]

ResetPassword(t) ==
  /\ Idle /\ t \in resets /\ CanChange(t.user)
  /\ Valid(t)
  /\ Saves(Recovered(t.user))
  /\ spent' = spent \cup {t}
  /\ UNCHANGED <<now, limitVars, sessions, resets, request, crashes>>

ChangePassword(r) ==
  /\ Idle /\ request[r] # None
  /\ LET u == request[r].user
     IN IF CanChange(u) THEN Saves(WithPassword(Loaded, u)) ELSE Kept
  /\ request' = [request EXCEPT ![r] = None]
  /\ UNCHANGED <<now, limitVars, sessions, resets, spent, crashes>>

-----------------------------------------------------------------------------
(* Requests *)

\* get_current_user(): a token that is not too old, of an account that may act.
Current(t) == Fresh(t, SessionAge) /\ Usable(t.user)

\* The dependency runs in a worker thread, while the loop may be writing.
LetIn(r, t) ==
  /\ request[r] = None /\ t \in sessions
  /\ Current(t)
  /\ request' = [request EXCEPT ![r] = [user |-> t.user, role |-> Loaded[t.user].role]]
  /\ UNCHANGED <<now, storeVars, limitVars, sessions, resets, spent, crashes>>

\* Redirected to the login page; the cookie is gone with the next login.
TurnedAway(t) ==
  /\ t \in sessions
  /\ ~ Current(t)
  /\ sessions' = sessions \ {t}
  /\ UNCHANGED <<now, storeVars, limitVars, resets, spent, request, crashes>>

\* A handler for administrators, with the identity its request came in with.
Administers(r, saves) ==
  /\ Idle /\ request[r] # None /\ request[r].role = "admin"
  /\ saves
  /\ request' = [request EXCEPT ![r] = None]
  /\ UNCHANGED <<now, limitVars, sessions, resets, spent, crashes>>

CreateUser(r, u, role) ==
  /\ CanChoose(u)
  /\ Administers(r, IF Known(u) THEN Kept ELSE Saves([Loaded EXCEPT ![u] = NewAccount(role, NewPassword(u))]))

\* The two guards of update_user(): they count different administrators.
Demotes(u, role) == role \notin {None, "admin"} /\ Loaded[u].role = "admin"
Disables(u, enabled) == enabled = FALSE /\ Loaded[u].role = "admin"
LastAdministrator == Cardinality(Administrators(Loaded)) <= 1
LastEnabled == Cardinality(EnabledAdministrators(Loaded)) <= 1

UpdateUser(r, u, role, enabled) ==
  Administers(r,
    IF ~ Known(u) \/ (Demotes(u, role) /\ LastAdministrator) \/ (enabled # None /\ Disables(u, enabled) /\ LastEnabled)
    THEN Kept
    ELSE Saves([Loaded EXCEPT ![u].role = IF role = None THEN @ ELSE role,
                              ![u].enabled = IF enabled = None THEN @ ELSE enabled]))

\* Mutant: only one's own account is protected.
DeleteUserUncounted(r, u) ==
  Administers(r, IF u = request[r].user \/ ~ Known(u) THEN Kept ELSE Saves([Loaded EXCEPT ![u] = None]))

DeleteUser(r, u) ==
  Administers(r,
    IF u = request[r].user \/ ~ Known(u) \/ (Loaded[u].role = "admin" /\ LastAdministrator)
    THEN Kept ELSE Saves([Loaded EXCEPT ![u] = None]))

\* An administrator's reset leaves the lockout alone.
ResetUserPassword(r, u) ==
  Administers(r, IF CanChange(u) THEN Saves(WithPassword(Loaded, u)) ELSE Kept)

\* Mutant: the count of failures stays.
UnlockedOnly(u) == [Loaded EXCEPT ![u].locked = FALSE]
Unlocked(u) == [Loaded EXCEPT ![u].locked = FALSE, ![u].failed = 0]
UnlockUser(r, u) == Administers(r, IF Known(u) THEN Saves(Unlocked(u)) ELSE Kept)

-----------------------------------------------------------------------------
Tick ==
  /\ now < MaxTime /\ now' = now + 1
  /\ UNCHANGED <<storeVars, limitVars, sessions, resets, spent, request, crashes>>

\* The limits are in memory; a file that was being written stays cut.
Crash ==
  /\ crashes < MaxCrashes /\ crashes' = crashes + 1
  /\ writing' = None
  /\ rate' = [i \in Ips |-> None] /\ attempts' = [i \in Ips |-> <<>>]
  /\ request' = [r \in Requests |-> None]
  /\ UNCHANGED <<now, users, torn, sessions, resets, spent>>

UsersNext ==
  \/ Saved \/ Tick \/ Crash
  \/ \E ip \in Ips, u \in Names : ForgotPassword(ip, u) \/ \E correct \in BOOLEAN : Login(ip, u, correct)
  \/ \E t \in resets : ResetPassword(t)
  \/ \E t \in sessions : TurnedAway(t) \/ \E r \in Requests : LetIn(r, t)
  \/ \E r \in Requests :
       \/ ChangePassword(r)
       \/ \E u \in Names :
            \/ DeleteUser(r, u) \/ ResetUserPassword(r, u) \/ UnlockUser(r, u)
            \/ \E role \in Roles : CreateUser(r, u, role)
            \/ \E role \in Roles \cup {None}, enabled \in BOOLEAN \cup {None} : UpdateUser(r, u, role, enabled)

UsersSpec == UsersInit /\ [][UsersNext]_userVars

-----------------------------------------------------------------------------
(* Properties *)

\* Some account keeps the administrator's role, whatever requests that were
\* let in before they lost theirs still do.
AnAdministratorRemains == Administrators(users) # {}

\* An account is locked exactly when its failures have reached the threshold:
\* unlocking, a reset link and a login each put both back.
LockedByFailures ==
  \A u \in Names : users[u] # None => (users[u].locked <=> users[u].failed >= Threshold)

\* Between two logins that succeed, an address that is limited gets fewer than
\* two full counts of answers in any window, across its resets and blocks.
RateLimited ==
  \A ip \in Ips : Len(attempts[ip]) = 2 * MaxAttempts => now - attempts[ip][1] > Window

\* A reset link works once, and no longer once another link that was mailed for
\* the same password has worked.
ResetsOnce ==
  [][\A t \in resets : ResetPassword(t) => /\ t \notin spent
                                           /\ \A s \in spent : s.user = t.user => s.pw < t.pw]_userVars

\* auth.py: "Prevent removing the last admin".  One who may sign in remains.
AnEnabledAdministratorRemains == EnabledAdministrators(users) # {}

\* The manual: the user store is written atomically.  A crash leaves it whole.
StoreSurvives == torn => writing # None

\* The same for readers: a good session is not turned away by a write.
SessionsHold ==
  [][\A t \in sessions : TurnedAway(t) =>
       ~ (Fresh(t, SessionAge) /\ users[t.user] # None /\ users[t.user].enabled /\ ~ users[t.user].locked)]_userVars

=============================================================================
