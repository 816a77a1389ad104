------------------------------ MODULE UsersProofs ------------------------------
(***************************************************************************)
(* Proofs about Users, for any number of accounts, addresses, requests,    *)
(* reset links and crashes, any window and any limits of two attempts or   *)
(* more: an administrator remains, accounts are locked by their failures   *)
(* alone, reset links work once, and the rate limit holds.                 *)
(***************************************************************************)
EXTENDS Users, FiniteSetTheorems, SequenceTheorems, TLAPS

-----------------------------------------------------------------------------
(* The store *)

StoreTypeOK ==
  /\ now \in 0 .. MaxTime /\ users \in Stores /\ torn \in BOOLEAN /\ writing \in Stores \cup {None}
  /\ sessions \subseteq [user : Names, at : 0 .. MaxTime]
  /\ spent \subseteq resets /\ resets \subseteq Links
  /\ request \in [Requests -> Identities \cup {None}]
  /\ crashes \in 0 .. MaxCrashes

LockedIn(store) ==
  \A u \in Names : store[u] # None => (store[u].locked <=> store[u].failed >= Threshold)

\* The links that were used name passwords older than the one in the store.
SpentIsOld(store) ==
  \A t \in spent : store[t.user] # None => t.pw < store[t.user].pw

Sound(store) == Administrators(store) # {} /\ LockedIn(store)

\* A file that is cut has let nobody in since the process that cut it died.
StoreIInv ==
  /\ StoreTypeOK
  /\ writing # None => torn
  /\ Sound(users) /\ (~ torn => SpentIsOld(users))
  /\ writing # None => Sound(writing) /\ SpentIsOld(writing)
  /\ torn /\ Idle => \A r \in Requests : request[r] = None

\* A store that differs in one account is sound if that account is, and if it was not
\* the last administrator's.
LEMMA OneAccountChanged ==
  ASSUME StoreTypeOK, Sound(users), SpentIsOld(users), NEW u \in Names, NEW account \in Accounts \cup {None},
         \/ account # None /\ account.role = "admin"
         \/ users[u] = None
         \/ users[u].role # "admin"
         \/ Administrators(users) \ {u} # {},
         account # None => (account.locked <=> account.failed >= Threshold),
         account # None => \A t \in spent : t.user = u => t.pw < account.pw
  PROVE  LET store == [users EXCEPT ![u] = account]
         IN store \in Stores /\ Sound(store) /\ SpentIsOld(store)
<1> DEFINE store == [users EXCEPT ![u] = account]
<1>1. users \in [Names -> Accounts \cup {None}] /\ spent \subseteq Links
  BY DEF StoreTypeOK, Stores
<1>2. /\ store \in [Names -> Accounts \cup {None}] /\ store[u] = account
      /\ \A x \in Names \ {u} : store[x] = users[x]
  BY <1>1
<1> HIDE DEF store
<1>3. Administrators(store) # {}
  <2>1. CASE account # None /\ account.role = "admin"
    BY <1>2, <2>1 DEF Administrators
  <2>2. CASE users[u] = None \/ users[u].role # "admin" \/ Administrators(users) \ {u} # {}
    <3>1. PICK x \in Administrators(users) : x # u
      BY <2>2 DEF Sound, Administrators
    <3>2. QED
      BY <1>2, <3>1 DEF Administrators
  <2>3. QED
    BY <2>1, <2>2
<1>4. LockedIn(store)
  BY <1>2 DEF Sound, LockedIn
<1>5. SpentIsOld(store)
  BY <1>1, <1>2 DEF SpentIsOld, Links
<1>6. QED
  BY <1>2, <1>3, <1>4, <1>5 DEF Sound, Stores, store

\* Opening the file for writing cuts it; what it will hold is sound.
LEMMA SavesKeep ==
  ASSUME StoreIInv, NEW new \in Stores, Saves(new), Sound(new),
         \A t \in spent' : new[t.user] # None => t.pw < new[t.user].pw,
         sessions' \subseteq [user : Names, at : 0 .. MaxTime],
         spent' \subseteq resets', resets' \subseteq Links,
         request' \in [Requests -> Identities \cup {None}],
         UNCHANGED <<now, crashes>>
  PROVE  StoreIInv'
<1>1. writing' = new /\ torn' = TRUE /\ users' = users /\ new # None
  BY UserConstants DEF Saves, UserConstants
<1>2. StoreTypeOK'
  BY <1>1 DEF StoreIInv, StoreTypeOK
<1>3. Sound(users)' /\ Sound(writing)'
  BY <1>1 DEF StoreIInv, Sound, Administrators, LockedIn
<1>4. SpentIsOld(writing)'
  BY <1>1 DEF SpentIsOld
<1>5. QED
  BY <1>1, <1>2, <1>3, <1>4 DEF StoreIInv, Idle

\* What leaves the store alone may end requests, let them in while the file is whole,
\* and mail links.
LEMMA KeptKeeps ==
  ASSUME StoreIInv, Kept, UNCHANGED spent,
         now' \in 0 .. MaxTime, crashes' \in 0 .. MaxCrashes,
         sessions' \subseteq [user : Names, at : 0 .. MaxTime],
         resets \subseteq resets', resets' \subseteq Links,
         request' \in [Requests -> Identities \cup {None}],
         torn => \A r \in Requests : request'[r] \in {request[r], None}
  PROVE  StoreIInv'
<1>1. users' = users /\ torn' = torn /\ writing' = writing
  BY DEF Kept, storeVars
<1>2. StoreTypeOK'
  BY <1>1 DEF StoreIInv, StoreTypeOK
<1>3. Sound(users)' /\ (~ torn' => SpentIsOld(users)')
  BY <1>1 DEF StoreIInv, Sound, Administrators, LockedIn, SpentIsOld
<1>4. writing' # None => Sound(writing)' /\ SpentIsOld(writing)'
  BY <1>1 DEF StoreIInv, Sound, Administrators, LockedIn, SpentIsOld
<1>5. torn' /\ Idle' => \A r \in Requests : request'[r] = None
  BY <1>1 DEF StoreIInv, Idle
<1>6. QED
  BY <1>1, <1>2, <1>3, <1>4, <1>5 DEF StoreIInv

\* Who finds an account has read the whole file.
LEMMA KnownIsRead ==
  ASSUME StoreTypeOK, NEW u \in Names, Known(u)
  PROVE  ~ torn /\ Loaded = users /\ users[u] \in Accounts /\ users[u] # None
BY DEF Known, Loaded, StoreTypeOK, Stores

\* The password chosen is unlike any that a link names.
LEMMA NewPasswordIsNew ==
  ASSUME NEW u \in Names, CanChoose(u)
  PROVE  NewPassword(u) \in 1 .. MaxPasswords /\ \A t \in resets : t.user = u => t.pw < NewPassword(u)
<1>1. MaxPasswords \in 1 .. MaxPasswords
  BY UserConstants DEF UserConstants
<1>2. \E pw \in 1 .. MaxPasswords : UnlikeLinks(u, pw)
  BY <1>1 DEF CanChoose
<1>3. NewPassword(u) \in 1 .. MaxPasswords /\ UnlikeLinks(u, NewPassword(u))
  BY <1>2 DEF NewPassword
<1>4. QED
  BY <1>3 DEF UnlikeLinks

\* An account under a new password, whatever else changes in it.
LEMMA WithPasswordIsSound ==
  ASSUME StoreIInv, NEW u \in Names, CanChange(u), ~ torn
  PROVE  /\ WithPassword(Loaded, u) \in Stores /\ Sound(WithPassword(Loaded, u))
         /\ \A t \in resets : WithPassword(Loaded, u)[t.user] # None /\ t.user = u
                                => t.pw < WithPassword(Loaded, u)[t.user].pw
         /\ SpentIsOld(WithPassword(Loaded, u))
         /\ Recovered(u) \in Stores /\ Sound(Recovered(u)) /\ SpentIsOld(Recovered(u))
         /\ \A t \in resets : t.user = u => t.pw < Recovered(u)[u].pw
<1> DEFINE account == [users[u] EXCEPT !.pw = NewPassword(u)]
           free == [users[u] EXCEPT !.pw = NewPassword(u), !.failed = 0, !.locked = FALSE]
<1>1. /\ users \in [Names -> Accounts \cup {None}] /\ Loaded = users
      /\ users[u] \in Accounts /\ users[u] # None
      /\ spent \subseteq resets /\ resets \subseteq Links
  BY KnownIsRead DEF StoreIInv, StoreTypeOK, Stores, CanChange
<1>2. NewPassword(u) \in 1 .. MaxPasswords /\ \A t \in resets : t.user = u => t.pw < NewPassword(u)
  BY NewPasswordIsNew DEF CanChange
<1>3. Threshold \in Nat \ {0} /\ None \notin Accounts
  BY UserConstants DEF UserConstants
<1>4. /\ account \in Accounts /\ account # None /\ account.role = users[u].role /\ account.pw = NewPassword(u)
      /\ account.locked = users[u].locked /\ account.failed = users[u].failed
  BY <1>1, <1>2, <1>3 DEF Accounts
<1>5. /\ free \in Accounts /\ free # None /\ free.role = users[u].role /\ free.pw = NewPassword(u)
      /\ free.locked = FALSE /\ free.failed = 0
  <2>1. 0 \in 0 .. Threshold /\ FALSE \in BOOLEAN
    BY <1>3
  <2>2. free \in Accounts
    BY <1>1, <1>2, <2>1 DEF Accounts
  <2>3. free # None
    BY <1>3, <2>2
  <2>4. QED
    BY <1>1, <2>2, <2>3 DEF Accounts
<1>6. WithPassword(Loaded, u) = [users EXCEPT ![u] = account]
  BY <1>1 DEF WithPassword
<1>7. Recovered(u) = [users EXCEPT ![u] = free]
  BY <1>1 DEF Recovered, WithPassword
<1> HIDE DEF account, free
<1>8. account.locked <=> account.failed >= Threshold
  BY <1>1, <1>4 DEF StoreIInv, Sound, LockedIn
<1>9. free.locked <=> free.failed >= Threshold
  BY <1>3, <1>5
<1>10. /\ [users EXCEPT ![u] = account] \in Stores /\ Sound([users EXCEPT ![u] = account])
       /\ SpentIsOld([users EXCEPT ![u] = account])
  BY <1>1, <1>2, <1>4, <1>8, OneAccountChanged DEF StoreIInv
<1>11. /\ [users EXCEPT ![u] = free] \in Stores /\ Sound([users EXCEPT ![u] = free])
       /\ SpentIsOld([users EXCEPT ![u] = free])
  BY <1>1, <1>2, <1>5, <1>9, OneAccountChanged DEF StoreIInv
<1>12. QED
  BY <1>1, <1>2, <1>4, <1>5, <1>6, <1>7, <1>10, <1>11

-----------------------------------------------------------------------------
(* Each step preserves the invariant of the store *)

\* A handler that ends its request, having kept the store or saved a sound one.
LEMMA HandlerKeeps ==
  ASSUME StoreIInv, NEW r \in Requests, Idle, request[r] # None,
         request' = [request EXCEPT ![r] = None],
         UNCHANGED <<now, sessions, resets, spent, crashes>>,
         ~ torn => Kept \/ \E new \in Stores : Saves(new) /\ Sound(new) /\ SpentIsOld(new)
  PROVE  StoreIInv' /\ ~ torn
<1>1. ~ torn
  BY DEF StoreIInv
<1>2. request' \in [Requests -> Identities \cup {None}]
  BY DEF StoreIInv, StoreTypeOK
<1>3. CASE Kept
  BY <1>1, <1>2, <1>3, KeptKeeps DEF StoreIInv, StoreTypeOK
<1>4. CASE \E new \in Stores : Saves(new) /\ Sound(new) /\ SpentIsOld(new)
  <2>1. PICK new \in Stores : Saves(new) /\ Sound(new) /\ SpentIsOld(new)
    BY <1>4
  <2>2. QED
    BY <1>2, <2>1, SavesKeep DEF StoreIInv, StoreTypeOK, SpentIsOld
<1>5. QED
  BY <1>1, <1>3, <1>4

\* With more than one administrator another one remains.
LEMMA AnotherRemains ==
  ASSUME NEW u \in Names, ~ torn, ~ LastAdministrator
  PROVE  Administrators(users) \ {u} # {}
<1>1. SUFFICES ASSUME Administrators(users) \ {u} = {} PROVE FALSE
  OBVIOUS
<1>2. Administrators(users) = {} \/ Administrators(users) = {u}
  BY <1>1
<1>3. Cardinality({}) <= 1 /\ Cardinality({u}) <= 1
  <2>1. Cardinality({}) = 0 /\ Cardinality({u}) = 1
    BY FS_EmptySet, FS_Singleton, Zenon
  <2>2. QED
    BY <2>1
<1>4. QED
  BY <1>2, <1>3 DEF LastAdministrator, Loaded

LEMMA CreateUserKeeps ==
  ASSUME StoreIInv, NEW r \in Requests, NEW u \in Names, NEW role \in Roles, CreateUser(r, u, role)
  PROVE  StoreIInv'
<1> DEFINE account == NewAccount(role, NewPassword(u))
<1>1. NewPassword(u) \in 1 .. MaxPasswords /\ \A t \in resets : t.user = u => t.pw < NewPassword(u)
  BY NewPasswordIsNew DEF CreateUser
<1>2. Threshold \in Nat \ {0} /\ None \notin Accounts
  BY UserConstants DEF UserConstants
<1>3. /\ account \in Accounts /\ account.pw = NewPassword(u) /\ account.locked = FALSE /\ account.failed = 0
  <2>1. 0 \in 0 .. Threshold /\ FALSE \in BOOLEAN /\ TRUE \in BOOLEAN
    BY <1>2
  <2>2. QED
    BY <1>1, <2>1 DEF NewAccount, Accounts
<1>4. account # None /\ (account.locked <=> account.failed >= Threshold)
  BY <1>2, <1>3
<1> HIDE DEF account
<1>5. ASSUME ~ torn, ~ Known(u)
      PROVE  /\ [users EXCEPT ![u] = account] \in Stores /\ Sound([users EXCEPT ![u] = account])
             /\ SpentIsOld([users EXCEPT ![u] = account])
  <2>1. users[u] = None
    BY <1>5 DEF Known, Loaded
  <2>2. spent \subseteq resets
    BY DEF StoreIInv, StoreTypeOK
  <2>3. QED
    BY <1>1, <1>3, <1>4, <1>5, <2>1, <2>2, OneAccountChanged DEF StoreIInv
<1>6. ~ torn => Kept \/ \E new \in Stores : Saves(new) /\ Sound(new) /\ SpentIsOld(new)
  <2>1. ~ torn => Loaded = users
    BY DEF Loaded
  <2>2. QED
    BY <1>5, <2>1 DEF CreateUser, Administers, account
<1>7. QED
  BY <1>6, HandlerKeeps DEF CreateUser, Administers

\* Demoting counts the administrators, so does deleting; disabling takes no role.
LEMMA UpdateUserKeeps ==
  ASSUME StoreIInv, NEW r \in Requests, NEW u \in Names, NEW role \in Roles \cup {None},
         NEW enabled \in BOOLEAN \cup {None}, UpdateUser(r, u, role, enabled)
  PROVE  StoreIInv'
<1> DEFINE account == [users[u] EXCEPT !.role = IF role = None THEN @ ELSE role,
                                       !.enabled = IF enabled = None THEN @ ELSE enabled]
<1>1. None \notin Accounts
  BY UserConstants DEF UserConstants
<1>2. ASSUME ~ torn, Known(u), ~ (Demotes(u, role) /\ LastAdministrator)
      PROVE  /\ [users EXCEPT ![u] = account] \in Stores /\ Sound([users EXCEPT ![u] = account])
             /\ SpentIsOld([users EXCEPT ![u] = account])
  <2>1. users[u] \in Accounts /\ users[u] # None /\ Loaded = users /\ spent \subseteq resets
    BY <1>2, KnownIsRead DEF StoreIInv, StoreTypeOK
  <2>2. /\ account \in Accounts /\ account.pw = users[u].pw /\ account.locked = users[u].locked
        /\ account.failed = users[u].failed
        /\ account.role = IF role = None THEN users[u].role ELSE role
    BY <2>1 DEF Accounts
  <2> HIDE DEF account
  <2>3. account # None /\ (account.locked <=> account.failed >= Threshold)
    BY <1>1, <2>1, <2>2 DEF StoreIInv, Sound, LockedIn
  <2>4. \A t \in spent : t.user = u => t.pw < account.pw
    BY <1>2, <2>1, <2>2 DEF StoreIInv, SpentIsOld
  <2>5. account.role = "admin" \/ users[u].role # "admin" \/ Administrators(users) \ {u} # {}
    BY <1>2, <2>1, <2>2, AnotherRemains DEF Demotes
  <2>6. QED
    BY <1>2, <2>2, <2>3, <2>4, <2>5, OneAccountChanged DEF StoreIInv
<1>3. ~ torn => Kept \/ \E new \in Stores : Saves(new) /\ Sound(new) /\ SpentIsOld(new)
  <2>1. CASE ~ Known(u) \/ (Demotes(u, role) /\ LastAdministrator) \/ (enabled # None /\ Disables(u, enabled) /\ LastEnabled)
    BY <2>1 DEF UpdateUser, Administers
  <2>2. CASE ~ (~ Known(u) \/ (Demotes(u, role) /\ LastAdministrator) \/ (enabled # None /\ Disables(u, enabled) /\ LastEnabled))
    <3>1. Saves([Loaded EXCEPT ![u].role = IF role = None THEN @ ELSE role,
                               ![u].enabled = IF enabled = None THEN @ ELSE enabled])
      BY <2>2 DEF UpdateUser, Administers
    <3>2. ASSUME ~ torn
          PROVE  [Loaded EXCEPT ![u].role = IF role = None THEN @ ELSE role,
                                ![u].enabled = IF enabled = None THEN @ ELSE enabled]
                   = [users EXCEPT ![u] = account]
      BY <2>2, <3>2, KnownIsRead DEF StoreIInv, StoreTypeOK, Stores
    <3> HIDE DEF account
    <3>3. QED
      BY <1>2, <2>2, <3>1, <3>2
  <2>3. QED
    BY <2>1, <2>2
<1>4. QED
  BY <1>3, HandlerKeeps DEF UpdateUser, Administers

LEMMA DeleteUserKeeps ==
  ASSUME StoreIInv, NEW r \in Requests, NEW u \in Names, DeleteUser(r, u)
  PROVE  StoreIInv'
<1>1. ASSUME ~ torn, Known(u), ~ (Loaded[u].role = "admin" /\ LastAdministrator)
      PROVE  /\ [users EXCEPT ![u] = None] \in Stores /\ Sound([users EXCEPT ![u] = None])
             /\ SpentIsOld([users EXCEPT ![u] = None])
  <2>1. users[u].role # "admin" \/ Administrators(users) \ {u} # {}
    BY <1>1, AnotherRemains DEF Loaded
  <2>2. QED
    BY <1>1, <2>1, OneAccountChanged DEF StoreIInv
<1>2. ~ torn => Loaded = users
  BY DEF Loaded
<1>3. ~ torn => Kept \/ \E new \in Stores : Saves(new) /\ Sound(new) /\ SpentIsOld(new)
  BY <1>1, <1>2 DEF DeleteUser, Administers
<1>4. QED
  BY <1>3, HandlerKeeps DEF DeleteUser, Administers

LEMMA PasswordChangesKeep ==
  ASSUME StoreIInv, NEW r \in Requests, ChangePassword(r) \/ \E u \in Names : ResetUserPassword(r, u)
  PROVE  StoreIInv'
<1>1. PICK u \in Names :
        /\ Idle /\ request[r] # None /\ request' = [request EXCEPT ![r] = None]
        /\ IF CanChange(u) THEN Saves(WithPassword(Loaded, u)) ELSE Kept
        /\ UNCHANGED <<now, sessions, resets, spent, crashes>>
  <2>1. request[r] # None => request[r].user \in Names
    BY DEF StoreIInv, StoreTypeOK, Identities
  <2>2. QED
    BY <2>1 DEF ChangePassword, ResetUserPassword, Administers
<1>2. ~ torn => Kept \/ \E new \in Stores : Saves(new) /\ Sound(new) /\ SpentIsOld(new)
  BY <1>1, WithPasswordIsSound
<1>3. QED
  BY <1>1, <1>2, HandlerKeeps

LEMMA UnlockUserKeeps ==
  ASSUME StoreIInv, NEW r \in Requests, NEW u \in Names, UnlockUser(r, u)
  PROVE  StoreIInv'
<1> DEFINE account == [users[u] EXCEPT !.locked = FALSE, !.failed = 0]
<1>1. ASSUME ~ torn, Known(u)
      PROVE  Unlocked(u) \in Stores /\ Sound(Unlocked(u)) /\ SpentIsOld(Unlocked(u))
  <2>1. /\ users[u] \in Accounts /\ users[u] # None /\ Loaded = users
        /\ Threshold \in Nat \ {0} /\ None \notin Accounts /\ users \in [Names -> Accounts \cup {None}]
    BY <1>1, KnownIsRead, UserConstants DEF StoreIInv, StoreTypeOK, Stores, UserConstants
  <2>2. 0 \in 0 .. Threshold /\ FALSE \in BOOLEAN
    BY <2>1
  <2>3. account \in Accounts
    BY <2>1, <2>2 DEF Accounts
  <2>4. account.pw = users[u].pw /\ account.locked = FALSE /\ account.failed = 0 /\ account.role = users[u].role
    BY <2>1 DEF Accounts
  <2>5. Unlocked(u) = [users EXCEPT ![u] = account]
    BY <2>1 DEF Unlocked
  <2> HIDE DEF account
  <2>6. account # None /\ (account.locked <=> account.failed >= Threshold)
    BY <2>1, <2>3, <2>4
  <2>7. \A t \in spent : t.user = u => t.pw < account.pw
    BY <1>1, <2>1, <2>4 DEF StoreIInv, SpentIsOld
  <2>8. account.role = "admin" \/ users[u].role # "admin"
    BY <2>4
  <2>9. /\ [users EXCEPT ![u] = account] \in Stores /\ Sound([users EXCEPT ![u] = account])
        /\ SpentIsOld([users EXCEPT ![u] = account])
    BY <1>1, <2>3, <2>6, <2>7, <2>8, OneAccountChanged DEF StoreIInv
  <2>10. QED
    BY <2>5, <2>9
<1>2. ~ torn => Kept \/ \E new \in Stores : Saves(new) /\ Sound(new) /\ SpentIsOld(new)
  BY <1>1 DEF UnlockUser, Administers
<1>3. QED
  BY <1>2, HandlerKeeps DEF UnlockUser, Administers

\* A failure that reaches the threshold locks; a login clears the failures of an
\* account that was not locked.
LEMMA LoginKeeps ==
  ASSUME StoreIInv, NEW ip \in Ips, NEW u \in Names, NEW correct \in BOOLEAN, Login(ip, u, correct)
  PROVE  StoreIInv'
<1> DEFINE fails == Loaded[u].failed + 1
           failed == [users[u] EXCEPT !.failed = fails, !.locked = users[u].locked \/ fails >= Threshold]
           cleared == [users[u] EXCEPT !.failed = 0]
<1>1. Threshold \in Nat \ {0} /\ None \notin Accounts
  BY UserConstants DEF UserConstants
<1>2. ASSUME Known(u), Usable(u)
      PROVE  /\ [users EXCEPT ![u] = failed] \in Stores /\ Sound([users EXCEPT ![u] = failed])
             /\ SpentIsOld([users EXCEPT ![u] = failed])
             /\ LoginFailed(u) = [users EXCEPT ![u] = failed]
  <2>1. /\ users[u] \in Accounts /\ users[u] # None /\ Loaded = users /\ ~ torn /\ ~ users[u].locked
        /\ users \in [Names -> Accounts \cup {None}]
    BY <1>2, KnownIsRead DEF StoreIInv, StoreTypeOK, Stores, Usable
  <2>2. users[u].failed \in 0 .. Threshold /\ users[u].failed < Threshold
    BY <1>1, <2>1 DEF StoreIInv, Sound, LockedIn, Accounts
  <2>3. fails \in 0 .. Threshold /\ (users[u].locked \/ fails >= Threshold) \in BOOLEAN
    BY <1>1, <2>1, <2>2
  <2>4. (users[u].locked \/ fails >= Threshold) <=> fails >= Threshold
    BY <2>1
  <2> HIDE DEF fails
  <2>5. failed \in Accounts
    BY <2>1, <2>3 DEF Accounts
  <2>6. /\ failed.pw = users[u].pw /\ failed.role = users[u].role /\ failed.failed = fails
        /\ failed.locked = (users[u].locked \/ fails >= Threshold)
    BY <2>1 DEF Accounts
  <2>7. LoginFailed(u) = [users EXCEPT ![u] = failed]
    BY <2>1 DEF LoginFailed, fails
  <2> HIDE DEF failed
  <2>8. failed # None /\ (failed.locked <=> failed.failed >= Threshold)
    BY <1>1, <2>4, <2>5, <2>6
  <2>9. \A t \in spent : t.user = u => t.pw < failed.pw
    BY <2>1, <2>6 DEF StoreIInv, SpentIsOld
  <2>10. failed.role = "admin" \/ users[u].role # "admin"
    BY <2>6
  <2>11. QED
    BY <2>1, <2>5, <2>7, <2>8, <2>9, <2>10, OneAccountChanged DEF StoreIInv
<1>3. ASSUME Known(u), Usable(u)
      PROVE  /\ [Loaded EXCEPT ![u].failed = 0] \in Stores /\ Sound([Loaded EXCEPT ![u].failed = 0])
             /\ SpentIsOld([Loaded EXCEPT ![u].failed = 0])
  <2>1. /\ users[u] \in Accounts /\ users[u] # None /\ Loaded = users /\ ~ torn /\ ~ users[u].locked
        /\ users \in [Names -> Accounts \cup {None}]
    BY <1>3, KnownIsRead DEF StoreIInv, StoreTypeOK, Stores, Usable
  <2>2. 0 \in 0 .. Threshold /\ ~ (0 >= Threshold)
    BY <1>1
  <2>3. cleared \in Accounts
    BY <2>1, <2>2 DEF Accounts
  <2>4. /\ cleared.pw = users[u].pw /\ cleared.role = users[u].role /\ cleared.failed = 0
        /\ cleared.locked = users[u].locked
    BY <2>1 DEF Accounts
  <2>5. [Loaded EXCEPT ![u].failed = 0] = [users EXCEPT ![u] = cleared]
    BY <2>1
  <2> HIDE DEF cleared
  <2>6. cleared # None /\ (cleared.locked <=> cleared.failed >= Threshold)
    BY <1>1, <2>1, <2>2, <2>3, <2>4
  <2>7. \A t \in spent : t.user = u => t.pw < cleared.pw
    BY <2>1, <2>4 DEF StoreIInv, SpentIsOld
  <2>8. cleared.role = "admin" \/ users[u].role # "admin"
    BY <2>4
  <2>9. /\ [users EXCEPT ![u] = cleared] \in Stores /\ Sound([users EXCEPT ![u] = cleared])
        /\ SpentIsOld([users EXCEPT ![u] = cleared])
    BY <2>1, <2>3, <2>6, <2>7, <2>8, OneAccountChanged DEF StoreIInv
  <2>10. QED
    BY <2>5, <2>9
<1> HIDE DEF failed, cleared, fails
<1>4. /\ sessions' \subseteq [user : Names, at : 0 .. MaxTime]
      /\ UNCHANGED <<now, resets, spent, request, crashes>>
  BY DEF Login, StoreIInv, StoreTypeOK
<1>5. Kept \/ \E new \in Stores : Saves(new) /\ Sound(new) /\ SpentIsOld(new)
  BY <1>2, <1>3 DEF Login, LoginRefused
<1>6. CASE Kept
  BY <1>4, <1>6, KeptKeeps DEF StoreIInv, StoreTypeOK
<1>7. CASE \E new \in Stores : Saves(new) /\ Sound(new) /\ SpentIsOld(new)
  BY <1>4, <1>7, SavesKeep DEF StoreIInv, StoreTypeOK, SpentIsOld
<1>8. QED
  BY <1>5, <1>6, <1>7

\* The link that is used joins those whose passwords are old.
LEMMA ResetPasswordKeeps ==
  ASSUME StoreIInv, NEW t \in resets, ResetPassword(t) PROVE StoreIInv'
<1>1. t.user \in Names /\ spent \subseteq resets /\ resets \subseteq Links
  BY DEF StoreIInv, StoreTypeOK, Links
<1>2. ~ torn
  BY <1>1, KnownIsRead DEF StoreIInv, ResetPassword, CanChange
<1> DEFINE new == Recovered(t.user)
<1>3. /\ new \in Stores /\ Sound(new) /\ SpentIsOld(new) /\ t.pw < new[t.user].pw
  BY <1>1, <1>2, WithPasswordIsSound DEF ResetPassword
<1> HIDE DEF new
<1>4. /\ Saves(new) /\ spent' = spent \cup {t}
      /\ UNCHANGED <<now, sessions, resets, request, crashes>>
  BY DEF ResetPassword, new
<1>5. \A s \in spent' : new[s.user] # None => s.pw < new[s.user].pw
  BY <1>3, <1>4 DEF SpentIsOld
<1>6. QED
  BY <1>1, <1>3, <1>4, <1>5, SavesKeep DEF StoreIInv, StoreTypeOK

LEMMA ForgotPasswordKeeps ==
  ASSUME StoreIInv, NEW ip \in Ips, NEW u \in Names, ForgotPassword(ip, u) PROVE StoreIInv'
<1>1. Minted(u) \subseteq Links
  BY KnownIsRead DEF StoreIInv, StoreTypeOK, Minted, Links, Accounts
<1>2. resets \subseteq resets' /\ resets' \subseteq Links
  BY <1>1 DEF StoreIInv, StoreTypeOK, ForgotPassword
<1>3. Kept /\ UNCHANGED <<now, sessions, spent, request, crashes>>
  BY DEF ForgotPassword, Kept
<1>4. QED
  BY <1>2, <1>3, KeptKeeps DEF StoreIInv, StoreTypeOK

\* Nobody is let in while the file is cut.
LEMMA SessionChecksKeep ==
  ASSUME StoreIInv, NEW t \in sessions, TurnedAway(t) \/ \E r \in Requests : LetIn(r, t)
  PROVE  StoreIInv'
<1>1. t.user \in Names
  BY DEF StoreIInv, StoreTypeOK
<1>2. Kept /\ UNCHANGED <<now, resets, spent, crashes>> /\ sessions' \subseteq sessions
  BY DEF TurnedAway, LetIn, Kept
<1>3. CASE TurnedAway(t)
  BY <1>2, <1>3, KeptKeeps DEF StoreIInv, StoreTypeOK, TurnedAway
<1>4. ASSUME NEW r \in Requests, LetIn(r, t) PROVE StoreIInv'
  <2>1. ~ torn /\ Loaded[t.user].role \in Roles
    BY <1>1, <1>4, KnownIsRead DEF StoreIInv, LetIn, Current, Usable, Accounts
  <2>2. request' \in [Requests -> Identities \cup {None}]
    BY <1>1, <1>4, <2>1 DEF StoreIInv, StoreTypeOK, LetIn, Identities
  <2>3. QED
    BY <1>2, <2>1, <2>2, KeptKeeps DEF StoreIInv, StoreTypeOK
<1>5. QED
  BY <1>3, <1>4

\* A crash in the middle of a save leaves a cut file and no request.
LEMMA SystemKeeps == ASSUME StoreIInv, Saved \/ Tick \/ Crash PROVE StoreIInv'
<1>1. CASE Saved
  <2>1. /\ users' = writing /\ torn' = FALSE /\ writing' = None /\ writing # None
        /\ UNCHANGED <<now, sessions, resets, spent, request, crashes>>
    BY <1>1 DEF Saved
  <2>2. StoreTypeOK'
    BY <2>1 DEF StoreIInv, StoreTypeOK
  <2>3. Sound(users)' /\ SpentIsOld(users)'
    BY <2>1 DEF StoreIInv, Sound, Administrators, LockedIn, SpentIsOld
  <2>4. QED
    BY <2>1, <2>2, <2>3 DEF StoreIInv, Idle
<1>2. CASE Tick
  <2>1. now' \in 0 .. MaxTime /\ Kept /\ UNCHANGED <<sessions, resets, spent, request, crashes>>
    BY <1>2, UserConstants DEF Tick, Kept, StoreIInv, StoreTypeOK, UserConstants
  <2>2. QED
    BY <2>1, KeptKeeps DEF StoreIInv, StoreTypeOK
<1>3. CASE Crash
  <2>1. /\ writing' = None /\ crashes' \in 0 .. MaxCrashes /\ \A r \in Requests : request'[r] = None
        /\ request' = [r \in Requests |-> None]
        /\ UNCHANGED <<now, users, torn, sessions, resets, spent>>
    BY <1>3, UserConstants DEF Crash, StoreIInv, StoreTypeOK, UserConstants
  <2>2. StoreTypeOK'
    BY <2>1 DEF StoreIInv, StoreTypeOK
  <2>3. Sound(users)' /\ (~ torn' => SpentIsOld(users)')
    BY <2>1 DEF StoreIInv, Sound, Administrators, LockedIn, SpentIsOld
  <2>4. QED
    BY <2>1, <2>2, <2>3 DEF StoreIInv
<1>4. QED
  BY <1>1, <1>2, <1>3

LEMMA StoreInitially == UsersInit => StoreIInv
<1> SUFFICES ASSUME UsersInit PROVE StoreIInv
  OBVIOUS
<1> DEFINE admin == NewAccount("admin", 1)
<1>1. /\ First \in Names /\ Threshold \in Nat \ {0} /\ MaxPasswords \in Nat \ {0} /\ MaxTime \in Nat
      /\ MaxCrashes \in Nat /\ None \notin Accounts
  BY UserConstants DEF UserConstants
<1>2. admin \in Accounts /\ admin.role = "admin" /\ admin.locked = FALSE /\ admin.failed = 0
  <2>1. 0 \in 0 .. Threshold /\ 1 \in 1 .. MaxPasswords /\ FALSE \in BOOLEAN /\ TRUE \in BOOLEAN
    BY <1>1
  <2>2. QED
    BY <2>1 DEF NewAccount, Accounts, Roles
<1>3. admin # None /\ (admin.locked <=> admin.failed >= Threshold)
  BY <1>1, <1>2
<1> HIDE DEF admin
<1>4. users = [u \in Names |-> IF u = First THEN admin ELSE None]
  BY DEF UsersInit, admin
<1>5. StoreTypeOK
  <2>1. users \in Stores
    BY <1>2, <1>4 DEF Stores
  <2>2. request \in [Requests -> Identities \cup {None}] /\ 0 \in 0 .. MaxTime /\ 0 \in 0 .. MaxCrashes
    BY <1>1 DEF UsersInit
  <2>3. QED
    BY <2>1, <2>2 DEF UsersInit, StoreTypeOK
<1>6. Sound(users)
  BY <1>1, <1>2, <1>3, <1>4 DEF Sound, Administrators, LockedIn
<1>7. QED
  BY <1>5, <1>6 DEF UsersInit, StoreIInv, SpentIsOld

LEMMA StoreInductive == StoreIInv /\ [UsersNext]_userVars => StoreIInv'
<1> SUFFICES ASSUME StoreIInv, [UsersNext]_userVars PROVE StoreIInv'
  OBVIOUS
<1>1. ASSUME NEW ip \in Ips, NEW u \in Names,
             ForgotPassword(ip, u) \/ \E correct \in BOOLEAN : Login(ip, u, correct)
      PROVE  StoreIInv'
  BY <1>1, ForgotPasswordKeeps, LoginKeeps
<1>2. ASSUME NEW t \in resets, ResetPassword(t) PROVE StoreIInv'
  BY <1>2, ResetPasswordKeeps
<1>3. ASSUME NEW t \in sessions, TurnedAway(t) \/ \E r \in Requests : LetIn(r, t) PROVE StoreIInv'
  BY <1>3, SessionChecksKeep
<1>4. ASSUME NEW r \in Requests, ChangePassword(r) \/ \E u \in Names : ResetUserPassword(r, u) PROVE StoreIInv'
  BY <1>4, PasswordChangesKeep
<1>5. ASSUME NEW r \in Requests, NEW u \in Names,
             \/ DeleteUser(r, u) \/ UnlockUser(r, u)
             \/ \E role \in Roles : CreateUser(r, u, role)
             \/ \E role \in Roles \cup {None}, enabled \in BOOLEAN \cup {None} : UpdateUser(r, u, role, enabled)
      PROVE  StoreIInv'
  BY <1>5, DeleteUserKeeps, UnlockUserKeeps, CreateUserKeeps, UpdateUserKeeps
<1>6. CASE UNCHANGED userVars
  BY <1>6 DEF userVars, storeVars, StoreIInv, StoreTypeOK, Sound, Administrators, LockedIn, SpentIsOld, Idle
<1>7. QED
  BY <1>1, <1>2, <1>3, <1>4, <1>5, <1>6, SystemKeeps DEF UsersNext

\* The store last written in full has an administrator, locks agree with failure counts
\* and no used link fits a password of today, also while the file is being rewritten.
THEOREM StoreInvariant == UsersSpec => []StoreIInv
BY StoreInitially, StoreInductive, PTL DEF UsersSpec

\* update_user(), delete_user(): whatever requests are in flight, and wherever a crash
\* cuts the file, the store that was last written in full has an administrator.
THEOREM AdministratorRemains == UsersSpec => []AnAdministratorRemains
<1>1. StoreIInv => AnAdministratorRemains
  BY DEF StoreIInv, Sound, AnAdministratorRemains
<1>2. QED
  BY <1>1, StoreInvariant, PTL

\* ACCOUNT_LOCKOUT_THRESHOLD: an account is locked exactly when its failures reached it;
\* every way to unlock it clears them.
THEOREM FailuresLock == UsersSpec => []LockedByFailures
<1>1. StoreIInv => LockedByFailures
  BY DEF StoreIInv, Sound, LockedIn, LockedByFailures
<1>2. QED
  BY <1>1, StoreInvariant, PTL

\* verify_reset_token(): a link that changed a password never works again, nor does any
\* other that was mailed for the same password.
THEOREM LinksWorkOnce == UsersSpec => ResetsOnce
<1>1. ASSUME StoreIInv, NEW t \in resets, ResetPassword(t)
      PROVE  t \notin spent /\ \A s \in spent : s.user = t.user => s.pw < t.pw
  <2>1. t \in Links /\ t.user \in Names /\ t.pw \in Nat
    BY <1>1 DEF StoreIInv, StoreTypeOK, Links
  <2>2. ~ torn /\ users[t.user] # None /\ users[t.user].pw = t.pw
    BY <1>1, <2>1, KnownIsRead DEF StoreIInv, ResetPassword, CanChange, Valid
  <2>3. \A s \in spent : s.user = t.user => s.pw < t.pw
    BY <1>1, <2>2 DEF StoreIInv, SpentIsOld
  <2>4. QED
    BY <2>1, <2>3
<1>2. StoreIInv => [\A t \in resets : ResetPassword(t) =>
                      /\ t \notin spent
                      /\ \A s \in spent : s.user = t.user => s.pw < t.pw]_userVars
  BY <1>1, Zenon
<1>3. QED
  BY <1>2, StoreInvariant, PTL DEF ResetsOnce

-----------------------------------------------------------------------------
(* The rate limit *)

\* The k-th last entry.
Ago(times, k) == times[Len(times) - k + 1]

LimitTypeOK ==
  /\ now \in 0 .. MaxTime
  /\ rate \in [Ips -> Counters \cup {None}]
  /\ attempts \in [Ips -> Seq(0 .. MaxTime)]

InOrder(times) ==
  \A j, k \in 1 .. Len(times) : j <= k => Ago(times, k) <= Ago(times, j) /\ Ago(times, j) <= now

\* An address without a counter: its last failure is past, a full count ago is past a window.
Rested(times) ==
  /\ Len(times) >= 1 => Ago(times, 1) < now
  /\ Len(times) >= MaxAttempts => Ago(times, MaxAttempts) + Window < now

\* The period that a counter counts began p failures ago.  It has as many as the counter
\* says, or one more when the block ended with the window.  Before it, less than a full count
\* lies within a window of its beginning.
Period(times, counter, p) ==
  /\ p \in 1 .. Len(times) /\ p \in {counter.count, MaxAttempts + 1}
  /\ Ago(times, p) = counter.first
  /\ p = MaxAttempts + 1 => counter.count = MaxAttempts /\ Ago(times, 1) = counter.first + Window
  /\ p < Len(times) => Ago(times, p + 1) < counter.first
  /\ p + MaxAttempts <= Len(times) => Ago(times, p + MaxAttempts) + Window < counter.first

Counted(times, counter) ==
  /\ \E p \in Nat : Period(times, counter, p)
  /\ Ago(times, 1) <= counter.first + Window
  /\ Len(times) >= MaxAttempts => Ago(times, MaxAttempts) <= counter.first
  /\ counter.until = IF counter.count = MaxAttempts THEN Ago(times, 1) + Window ELSE 0

Limited(ip) ==
  /\ Len(attempts[ip]) <= 2 * MaxAttempts
  /\ InOrder(attempts[ip])
  /\ IF rate[ip] = None THEN Rested(attempts[ip]) ELSE Counted(attempts[ip], rate[ip])

LimitIInv == LimitTypeOK /\ \A ip \in Ips : Limited(ip)

LEMMA LimitConstants ==
  /\ MaxAttempts \in Nat /\ MaxAttempts >= 2 /\ Window \in Nat /\ Window >= 1 /\ MaxTime \in Nat
  /\ None \notin Counters
BY UserConstants DEF UserConstants

\* Another failure: it is the last one, the others are one further back.
LEMMA RememberedTimes ==
  ASSUME now \in 0 .. MaxTime, NEW times \in Seq(0 .. MaxTime), Len(times) <= 2 * MaxAttempts
  PROVE  /\ Remembered(times) \in Seq(0 .. MaxTime)
         /\ Len(Remembered(times)) \in Nat /\ Len(Remembered(times)) >= 1
         /\ Len(Remembered(times)) = IF Len(times) < 2 * MaxAttempts THEN Len(times) + 1 ELSE Len(times)
         /\ Ago(Remembered(times), 1) = now
         /\ \A k \in 1 .. Len(Remembered(times)) - 1 :
              k \in 1 .. Len(times) /\ Ago(Remembered(times), k + 1) = Ago(times, k)
<1> USE LimitConstants
<1> DEFINE kept == IF Len(times) < 2 * MaxAttempts THEN times ELSE Tail(times)
<1>1. Len(times) \in Nat
  BY LenProperties
<1>2. /\ kept \in Seq(0 .. MaxTime)
      /\ Len(kept) = IF Len(times) < 2 * MaxAttempts THEN Len(times) ELSE Len(times) - 1
      /\ \A k \in 1 .. Len(kept) : kept[Len(kept) - k + 1] = times[Len(times) - k + 1]
  <2>1. CASE Len(times) < 2 * MaxAttempts
    BY <2>1
  <2>2. CASE ~ (Len(times) < 2 * MaxAttempts)
    <3>1. times # << >>
      BY <1>1, <2>2
    <3>2. Tail(times) \in Seq(0 .. MaxTime) /\ Len(Tail(times)) = Len(times) - 1
          /\ \A i \in 1 .. Len(times) - 1 : Tail(times)[i] = times[i + 1]
      BY <3>1, HeadTailProperties
    <3>3. QED
      BY <1>1, <2>2, <3>2
  <2>3. QED
    BY <2>1, <2>2
<1>3. Remembered(times) = Append(kept, now)
  BY DEF Remembered
<1> HIDE DEF kept
<1>4. /\ Append(kept, now) \in Seq(0 .. MaxTime) /\ Len(Append(kept, now)) = Len(kept) + 1
      /\ \A i \in 1 .. Len(kept) : Append(kept, now)[i] = kept[i]
      /\ Append(kept, now)[Len(kept) + 1] = now
  <2>1. kept \in Seq(0 .. MaxTime) /\ now \in 0 .. MaxTime
    BY <1>2
  <2>2. QED
    BY <2>1, AppendProperties
<1>5. Len(kept) \in Nat /\ Len(kept) <= Len(times)
  <2>1. Len(kept) \in Nat
    BY <1>2, LenProperties
  <2>2. Len(kept) = Len(times) \/ Len(kept) = Len(times) - 1
    BY <1>2
  <2>3. QED
    BY <1>1, <2>1, <2>2
<1>6. Ago(Append(kept, now), 1) = now
  BY <1>4, <1>5 DEF Ago
<1>7. ASSUME NEW k \in 1 .. Len(kept)
      PROVE  k \in 1 .. Len(times) /\ Ago(Append(kept, now), k + 1) = Ago(times, k)
  <2>1. Len(kept) - k + 1 \in 1 .. Len(kept) /\ k \in 1 .. Len(times)
    <3>1. k \in Nat /\ 1 <= k /\ k <= Len(kept)
      BY <1>5
    <3>2. QED
      BY <1>1, <1>5, <3>1
  <2>2. Ago(Append(kept, now), k + 1) = Append(kept, now)[Len(kept) - k + 1]
    BY <1>4, <1>5 DEF Ago
  <2>3. QED
    BY <1>2, <1>4, <2>1, <2>2 DEF Ago
<1>8. QED
  BY <1>1, <1>2, <1>3, <1>4, <1>5, <1>6, <1>7

\* The times of one address, as numbers.
LEMMA TimesAreNumbers ==
  ASSUME NEW times \in Seq(0 .. MaxTime), NEW k \in 1 .. Len(times)
  PROVE  Ago(times, k) \in 0 .. MaxTime
<1>1. Len(times) \in Nat /\ Len(times) - k + 1 \in 1 .. Len(times)
  BY LenProperties
<1>2. QED
  BY <1>1, ElementOfSeq DEF Ago

\* When a counter's window has passed its address has rested, whether the counter is
\* cleaned up or a new period begins.
LEMMA WindowPassed ==
  ASSUME LimitTypeOK, NEW times \in Seq(0 .. MaxTime), NEW counter \in Counters,
         Counted(times, counter), now - counter.first > Window
  PROVE  Rested(times)
<1> USE LimitConstants
<1>1. Len(times) \in Nat /\ counter.first \in Nat /\ now \in Nat
  BY LenProperties DEF LimitTypeOK, Counters
<1>2. Len(times) >= 1 => Ago(times, 1) \in Nat
  BY <1>1, TimesAreNumbers
<1>3. Len(times) >= MaxAttempts => Ago(times, MaxAttempts) \in Nat
  BY <1>1, TimesAreNumbers
<1>4. QED
  BY <1>1, <1>2, <1>3 DEF Counted, Rested

\* A failure that begins a period.
LEMMA PeriodBegins ==
  ASSUME LimitTypeOK, NEW times \in Seq(0 .. MaxTime), Len(times) <= 2 * MaxAttempts,
         InOrder(times), Rested(times)
  PROVE  Counted(Remembered(times), [count |-> 1, first |-> now, until |-> 0])
<1> USE LimitConstants
<1> DEFINE new == Remembered(times)
           counter == [count |-> 1, first |-> now, until |-> 0]
<1>1. /\ now \in 0 .. MaxTime /\ Len(times) \in Nat /\ new \in Seq(0 .. MaxTime)
      /\ Len(new) \in Nat /\ Len(new) >= 1 /\ Ago(new, 1) = now
      /\ Len(new) = IF Len(times) < 2 * MaxAttempts THEN Len(times) + 1 ELSE Len(times)
      /\ \A k \in 1 .. Len(new) - 1 : k \in 1 .. Len(times) /\ Ago(new, k + 1) = Ago(times, k)
  BY RememberedTimes, LenProperties DEF LimitTypeOK
<1>2. counter.count = 1 /\ counter.first = now /\ counter.until = 0
  OBVIOUS
<1> HIDE DEF new, counter
<1>3. 1 < Len(new) => Ago(new, 2) < now
  <2>1. 1 < Len(new) => 1 \in 1 .. Len(new) - 1
    BY <1>1
  <2>2. 1 < Len(new) => Ago(new, 1 + 1) = Ago(times, 1) /\ Len(times) >= 1
    BY <1>1, <2>1
  <2>3. QED
    BY <2>2 DEF Rested
<1>4. 1 + MaxAttempts <= Len(new) => Ago(new, 1 + MaxAttempts) + Window < now
  <2>1. 1 + MaxAttempts <= Len(new) => MaxAttempts \in 1 .. Len(new) - 1
    BY <1>1
  <2>2. 1 + MaxAttempts <= Len(new) => Ago(new, MaxAttempts + 1) = Ago(times, MaxAttempts) /\ Len(times) >= MaxAttempts
    BY <1>1, <2>1
  <2>3. QED
    BY <2>2 DEF Rested
<1>5. Len(new) >= MaxAttempts => Ago(new, MaxAttempts) <= now
  <2>1. Len(new) >= MaxAttempts => MaxAttempts - 1 \in 1 .. Len(new) - 1
    BY <1>1
  <2>2. Len(new) >= MaxAttempts => Ago(new, MaxAttempts - 1 + 1) = Ago(times, MaxAttempts - 1)
                                   /\ MaxAttempts - 1 \in 1 .. Len(times)
    BY <1>1, <2>1
  <2>3. Len(new) >= MaxAttempts => Ago(times, MaxAttempts - 1) <= now
    BY <2>2 DEF InOrder
  <2>4. QED
    BY <2>2, <2>3
<1>6. Period(new, counter, 1)
  BY <1>1, <1>2, <1>3, <1>4 DEF Period
<1>7. QED
  BY <1>1, <1>2, <1>5, <1>6 DEF Counted, new, counter

\* A failure within its counter's period: one more, and the block when the count is full.  A
\* full counter counts on only when its block and its window end together, which is when all
\* of its failures were at once.
LEMMA PeriodGoesOn ==
  ASSUME LimitTypeOK, NEW times \in Seq(0 .. MaxTime), Len(times) <= 2 * MaxAttempts,
         InOrder(times), NEW counter \in Counters, Counted(times, counter),
         now - counter.first <= Window, now >= counter.until, now >= counter.first,
         NEW next \in Counters, next.first = counter.first,
         next.count = IF counter.count < MaxAttempts THEN counter.count + 1 ELSE MaxAttempts,
         next.until = IF counter.count + 1 >= MaxAttempts THEN now + Window ELSE counter.until
  PROVE  Counted(Remembered(times), next)
<1> USE LimitConstants
<1> DEFINE new == Remembered(times)
<1>1. /\ now \in Nat /\ Len(times) \in Nat /\ Len(new) \in Nat /\ Ago(new, 1) = now
      /\ Len(new) = Len(times) + 1 \/ (Len(new) = Len(times) /\ Len(times) > MaxAttempts)
      /\ \A k \in 1 .. Len(new) - 1 : k \in 1 .. Len(times) /\ Ago(new, k + 1) = Ago(times, k)
  <2>1. /\ now \in 0 .. MaxTime /\ Len(times) \in Nat /\ Len(new) \in Nat /\ Ago(new, 1) = now
        /\ Len(new) = IF Len(times) < 2 * MaxAttempts THEN Len(times) + 1 ELSE Len(times)
        /\ \A k \in 1 .. Len(new) - 1 : k \in 1 .. Len(times) /\ Ago(new, k + 1) = Ago(times, k)
    BY RememberedTimes, LenProperties DEF LimitTypeOK
  <2> HIDE DEF new
  <2>2. QED
    BY <2>1
<1>2. /\ counter.count \in Nat /\ counter.count >= 1 /\ counter.count <= MaxAttempts
      /\ counter.first \in Nat /\ counter.until \in Nat
      /\ next.count \in 1 .. MaxAttempts
  BY DEF Counters
<1>3. PICK p \in Nat : Period(times, counter, p)
  BY DEF Counted
<1>4. \A k \in 1 .. Len(times) : Ago(times, k) \in Nat
  BY TimesAreNumbers
<1> HIDE DEF new
\* The period has not had its extra failure yet.
<1>5. p = counter.count /\ p \in 1 .. Len(times) /\ p <= MaxAttempts
  <2>1. p \in 1 .. Len(times) /\ p \in {counter.count, MaxAttempts + 1} /\ Ago(times, 1) \in Nat
    BY <1>1, <1>3, <1>4 DEF Period
  <2>2. ASSUME p = MaxAttempts + 1 PROVE FALSE
    <3>1. counter.count = MaxAttempts /\ Ago(times, 1) = counter.first + Window
      BY <1>3, <2>2 DEF Period
    <3>2. counter.until = Ago(times, 1) + Window
      BY <3>1 DEF Counted
    <3>3. QED
      BY <1>1, <1>2, <3>1, <3>2
  <2>3. QED
    BY <1>2, <2>1, <2>2
<1>6. Ago(times, p) = counter.first
  BY <1>3 DEF Period
\* A full counter: all of its failures were when it began, a window ago.
<1>7. counter.count = MaxAttempts =>
        /\ now = counter.first + Window
        /\ \A k \in 1 .. p : Ago(times, k) = counter.first
  <2>1. ASSUME counter.count = MaxAttempts
        PROVE  Ago(times, 1) <= counter.first /\ now <= counter.first + Window
               /\ now >= Ago(times, 1) + Window
    <3>1. counter.until = Ago(times, 1) + Window
      BY <2>1 DEF Counted
    <3>2. Ago(times, 1) \in Nat
      BY <1>4, <1>5
    <3>3. QED
      BY <1>1, <1>2, <3>1, <3>2
  <2>2. \A k \in 1 .. p : Ago(times, k) \in Nat /\ Ago(times, k) >= counter.first /\ Ago(times, k) <= Ago(times, 1)
    <3>1. ASSUME NEW k \in 1 .. p
          PROVE  Ago(times, k) \in Nat /\ Ago(times, k) >= Ago(times, p) /\ Ago(times, k) <= Ago(times, 1)
      <4>1. k \in Nat /\ p \in Nat /\ 1 <= k /\ k <= p /\ p <= Len(times)
        BY <1>1, <1>5
      <4>2. k \in 1 .. Len(times) /\ 1 \in 1 .. Len(times) /\ p \in 1 .. Len(times)
        BY <1>1, <4>1
      <4>3. Ago(times, p) <= Ago(times, k) /\ Ago(times, k) <= Ago(times, 1)
        BY <4>1, <4>2 DEF InOrder
      <4>4. Ago(times, k) \in Nat /\ Ago(times, p) \in Nat
        BY <1>4, <4>2
      <4>5. QED
        BY <4>3, <4>4
    <3>2. QED
      BY <1>6, <3>1
  <2>3. ASSUME counter.count = MaxAttempts, NEW k \in 1 .. p PROVE Ago(times, k) = counter.first
    <3>1. Ago(times, k) \in Nat /\ Ago(times, k) >= counter.first /\ Ago(times, k) <= counter.first
      <4>1. 1 \in 1 .. p /\ Ago(times, 1) \in Nat
        BY <1>1, <1>4, <1>5
      <4>2. QED
        BY <1>2, <2>1, <2>2, <2>3, <4>1
    <3>2. QED
      BY <1>2, <3>1
  <2>4. ASSUME counter.count = MaxAttempts PROVE now = counter.first + Window
    <3>1. 1 \in 1 .. p /\ Ago(times, 1) \in Nat /\ now \in Nat
      BY <1>1, <1>4, <1>5
    <3>2. Ago(times, 1) >= counter.first
      BY <2>2, <3>1
    <3>3. Ago(times, 1) <= counter.first /\ now <= counter.first + Window /\ now >= Ago(times, 1) + Window
      BY <2>1, <2>4
    <3>4. Ago(times, 1) = counter.first
      BY <1>2, <3>1, <3>2, <3>3
    <3>5. now <= counter.first + Window /\ now >= counter.first + Window /\ counter.first + Window \in Nat
      BY <1>2, <3>3, <3>4
    <3>6. QED
      BY <3>1, <3>5
  <2>5. QED
    BY <2>3, <2>4
<1>8. p + 1 \in 1 .. Len(new)
  <2>1. p \in Nat /\ p >= 1 /\ p <= Len(times) /\ p <= MaxAttempts
    BY <1>1, <1>5
  <2>2. Len(times) \in Nat /\ Len(new) \in Nat
        /\ (Len(new) = Len(times) + 1 \/ (Len(new) = Len(times) /\ Len(times) > MaxAttempts))
    BY <1>1
  <2>3. p + 1 >= 1 /\ p + 1 <= Len(new)
    BY <2>1, <2>2
  <2>4. QED
    BY <2>1, <2>2, <2>3
<1>9. Ago(new, p + 1) = counter.first
  BY <1>1, <1>5, <1>6, <1>8
<1>10. p + 1 < Len(new) => Ago(new, p + 1 + 1) < counter.first
  <2>1. ASSUME p + 1 < Len(new) PROVE Ago(new, p + 1 + 1) = Ago(times, p + 1) /\ p < Len(times)
    BY <1>1, <1>5, <2>1
  <2>2. QED
    BY <1>3, <2>1 DEF Period
<1>11. p + 1 + MaxAttempts <= Len(new) => Ago(new, p + 1 + MaxAttempts) + Window < counter.first
  <2>1. ASSUME p + 1 + MaxAttempts <= Len(new)
        PROVE  Ago(new, p + 1 + MaxAttempts) = Ago(times, p + MaxAttempts) /\ p + MaxAttempts <= Len(times)
    <3>1. p + MaxAttempts \in 1 .. Len(new) - 1 /\ p + MaxAttempts + 1 = p + 1 + MaxAttempts
      <4>1. Len(new) \in Nat /\ p >= 1
        BY <1>1, <1>5
      <4>2. QED
        BY <2>1, <4>1
    <3>2. p + MaxAttempts \in 1 .. Len(times) /\ Ago(new, p + MaxAttempts + 1) = Ago(times, p + MaxAttempts)
      BY <1>1, <3>1
    <3>3. QED
      BY <1>1, <3>1, <3>2
  <2>2. QED
    BY <1>3, <2>1 DEF Period
<1>12. Period(new, next, p + 1)
  <2>1. p + 1 \in {next.count, MaxAttempts + 1}
    BY <1>2, <1>5
  <2>2. p + 1 = MaxAttempts + 1 => next.count = MaxAttempts /\ Ago(new, 1) = next.first + Window
    BY <1>1, <1>2, <1>5, <1>7
  <2>3. QED
    BY <1>8, <1>9, <1>10, <1>11, <2>1, <2>2 DEF Period
<1>13. Ago(new, 1) <= next.first + Window
  BY <1>1, <1>2
<1>14. Len(new) >= MaxAttempts => Ago(new, MaxAttempts) <= next.first
  <2>1. ASSUME Len(new) >= MaxAttempts
        PROVE  /\ MaxAttempts - 1 \in 1 .. Len(times)
               /\ Ago(new, MaxAttempts) = Ago(times, MaxAttempts - 1)
    <3>1. MaxAttempts - 1 \in 1 .. Len(new) - 1 /\ MaxAttempts - 1 + 1 = MaxAttempts
      BY <1>1, <2>1
    <3>2. QED
      BY <1>1, <3>1
  <2>2. CASE counter.count = MaxAttempts
    <3>1. MaxAttempts - 1 \in 1 .. p
      BY <1>5, <2>2
    <3>2. Len(new) >= MaxAttempts => Ago(new, MaxAttempts) = counter.first
      BY <1>7, <2>1, <2>2, <3>1
    <3>3. QED
      BY <1>2, <3>2
  <2>3. CASE counter.count < MaxAttempts
    <3>1. ASSUME Len(new) >= MaxAttempts PROVE Ago(times, MaxAttempts - 1) <= Ago(times, p)
      <4>1. p <= MaxAttempts - 1 /\ MaxAttempts - 1 \in 1 .. Len(times)
        BY <1>5, <2>1, <2>3, <3>1
      <4>2. QED
        BY <1>5, <4>1 DEF InOrder
    <3>2. QED
      BY <1>6, <2>1, <3>1
  <2>4. QED
    BY <1>2, <2>2, <2>3
<1>15. next.until = IF next.count = MaxAttempts THEN Ago(new, 1) + Window ELSE 0
  <2>1. counter.until = IF counter.count = MaxAttempts THEN Ago(times, 1) + Window ELSE 0
    BY DEF Counted
  <2>2. QED
    BY <1>1, <1>2, <2>1
<1>16. QED
  BY <1>1, <1>5, <1>12, <1>13, <1>14, <1>15 DEF Counted, new

\* What a step does to the clock, the counters and the times.
LimitStep ==
  \/ UNCHANGED <<now, rate, attempts>>
  \/ now < MaxTime /\ now' = now + 1 /\ UNCHANGED <<rate, attempts>>
  \/ UNCHANGED <<now, attempts>> /\ rate' = Cleaned
  \/ /\ UNCHANGED now
     /\ \E ip \in Ips : /\ rate' = [Cleaned EXCEPT ![ip] = None]
                        /\ attempts' = [attempts EXCEPT ![ip] = << >>]
  \/ UNCHANGED now /\ \E ip \in Ips : ~ Blocked(ip) /\ Attempted(ip)
  \/ UNCHANGED now /\ rate' = [i \in Ips |-> None] /\ attempts' = [i \in Ips |-> << >>]

LEMMA StepsLimit == [UsersNext]_userVars => LimitStep
<1> SUFFICES ASSUME [UsersNext]_userVars PROVE LimitStep
  OBVIOUS
<1>1. ASSUME NEW ip \in Ips, NEW u \in Names, ForgotPassword(ip, u) PROVE LimitStep
  BY <1>1 DEF ForgotPassword, LimitStep
<1>2. ASSUME NEW ip \in Ips, NEW u \in Names, NEW correct \in BOOLEAN, Login(ip, u, correct) PROVE LimitStep
  BY <1>2 DEF Login, LoginRefused, LimitStep
<1>3. Crash => LimitStep
  BY DEF Crash, LimitStep
<1>4. Tick => LimitStep
  BY DEF Tick, limitVars, LimitStep
<1>5. ASSUME NEW r \in Requests, NEW u \in Names,
             \/ DeleteUser(r, u) \/ UnlockUser(r, u) \/ ResetUserPassword(r, u)
             \/ \E role \in Roles : CreateUser(r, u, role)
             \/ \E role \in Roles \cup {None}, enabled \in BOOLEAN \cup {None} : UpdateUser(r, u, role, enabled)
      PROVE  LimitStep
  BY <1>5 DEF DeleteUser, UnlockUser, ResetUserPassword, CreateUser, UpdateUser, Administers, limitVars, LimitStep
<1>6. ASSUME Saved \/ (\E t \in resets : ResetPassword(t)) \/ (\E r \in Requests : ChangePassword(r))
             \/ \E t \in sessions : TurnedAway(t) \/ \E r \in Requests : LetIn(r, t)
      PROVE  LimitStep
  BY <1>6 DEF Saved, ResetPassword, ChangePassword, TurnedAway, LetIn, limitVars, LimitStep
<1>7. UNCHANGED userVars => LimitStep
  BY DEF userVars, limitVars, LimitStep
<1>8. QED
  BY <1>1, <1>2, <1>3, <1>4, <1>5, <1>6, <1>7 DEF UsersNext

\* The counter of an address that is not touched is kept, or cleaned up after its window.
LEMMA CleanedKeeps ==
  ASSUME LimitIInv, NEW ip \in Ips, UNCHANGED now, attempts'[ip] = attempts[ip], rate'[ip] = Cleaned[ip]
  PROVE  Limited(ip)'
<1>1. attempts[ip] \in Seq(0 .. MaxTime) /\ rate[ip] \in Counters \cup {None} /\ None \notin Counters
  BY LimitConstants DEF LimitIInv, LimitTypeOK
<1>2. CASE Expired(ip)
  <2>1. Rested(attempts[ip])
    BY <1>1, <1>2, WindowPassed DEF LimitIInv, Limited, Expired
  <2>2. rate'[ip] = None
    BY <1>2 DEF Cleaned
  <2>3. QED
    BY <2>1, <2>2 DEF LimitIInv, Limited, InOrder, Rested
<1>3. CASE ~ Expired(ip)
  <2>1. rate'[ip] = rate[ip]
    BY <1>3 DEF Cleaned
  <2>2. QED
    BY <2>1 DEF LimitIInv, Limited, InOrder, Rested, Counted, Period
<1>4. QED
  BY <1>2, <1>3

\* A failed attempt begins a period or goes on with one.
LEMMA AttemptKeeps ==
  ASSUME LimitIInv, NEW ip \in Ips, UNCHANGED now, ~ Blocked(ip), Attempted(ip)
  PROVE  Limited(ip)' /\ FailureCounted(ip) \in Counters
<1> USE LimitConstants
<1> DEFINE times == attempts[ip]
           new == Remembered(times)
           counter == FailureCounted(ip)
<1>1. /\ times \in Seq(0 .. MaxTime) /\ Len(times) \in Nat /\ rate[ip] \in Counters \cup {None}
      /\ now \in 0 .. MaxTime /\ Len(times) <= 2 * MaxAttempts /\ InOrder(times)
  BY LenProperties DEF LimitIInv, LimitTypeOK, Limited
<1>2. attempts'[ip] = new /\ rate'[ip] = counter
  BY DEF LimitIInv, LimitTypeOK, Attempted, Cleaned
<1>3. ASSUME rate[ip] = None \/ now - rate[ip].first > Window
      PROVE  counter \in Counters /\ Counted(new, counter)
  <2>1. counter = [count |-> 1, first |-> now, until |-> 0]
    BY <1>3 DEF FailureCounted
  <2>2. counter \in Counters /\ counter # None
    BY <1>1, <2>1 DEF Counters
  <2>3. Rested(times)
    BY <1>1, <1>3, WindowPassed DEF LimitIInv, Limited
  <2>4. Counted(new, [count |-> 1, first |-> now, until |-> 0])
    BY <1>1, <2>3, PeriodBegins DEF LimitIInv
  <2> HIDE DEF counter, new, times
  <2>5. QED
    BY <2>1, <2>2, <2>4
<1>4. ASSUME ~ (rate[ip] = None \/ now - rate[ip].first > Window)
      PROVE  counter \in Counters /\ Counted(new, counter)
  <2> DEFINE r == rate[ip]
  <2>1. /\ r \in Counters /\ Counted(times, r) /\ now >= r.until /\ now - r.first <= Window
        /\ r.first \in 0 .. MaxTime /\ r.count \in 1 .. MaxAttempts /\ r.until \in 0 .. MaxTime + Window
    BY <1>1, <1>4 DEF LimitIInv, Limited, Blocked, Counters
  <2>2. /\ counter = [count |-> IF r.count < MaxAttempts THEN r.count + 1 ELSE MaxAttempts, first |-> r.first,
                      until |-> IF r.count + 1 >= MaxAttempts THEN now + Window ELSE r.until]
    BY <1>4 DEF FailureCounted
  <2>3. counter \in Counters /\ counter # None
    <3>1. (IF r.count < MaxAttempts THEN r.count + 1 ELSE MaxAttempts) \in 1 .. MaxAttempts
      BY <2>1
    <3>2. (IF r.count + 1 >= MaxAttempts THEN now + Window ELSE r.until) \in 0 .. MaxTime + Window
      BY <1>1, <2>1
    <3> HIDE DEF r
    <3>3. counter \in Counters
      BY <2>1, <2>2, <3>1, <3>2 DEF Counters
    <3>4. QED
      BY <3>3
  <2>4. now >= r.first
    <3>1. PICK p \in Nat : Period(times, r, p)
      BY <2>1 DEF Counted
    <3>2. p \in 1 .. Len(times) /\ Ago(times, p) = r.first
      BY <3>1 DEF Period
    <3>3. QED
      BY <1>1, <3>2 DEF InOrder
  <2> HIDE DEF r, counter
  <2>5. Counted(new, counter)
    BY <1>1, <2>1, <2>2, <2>3, <2>4, PeriodGoesOn DEF LimitIInv
  <2>6. QED
    BY <2>3, <2>5
<1>5. /\ Len(new) \in Nat /\ Len(new) <= 2 * MaxAttempts /\ Ago(new, 1) = now
      /\ \A k \in 1 .. Len(new) - 1 : k \in 1 .. Len(times) /\ Ago(new, k + 1) = Ago(times, k)
  <2>1. now \in 0 .. MaxTime /\ times \in Seq(0 .. MaxTime) /\ Len(times) <= 2 * MaxAttempts
    BY <1>1
  <2>2. /\ Len(new) \in Nat /\ Ago(new, 1) = now
        /\ Len(new) = IF Len(times) < 2 * MaxAttempts THEN Len(times) + 1 ELSE Len(times)
        /\ \A k \in 1 .. Len(new) - 1 : k \in 1 .. Len(times) /\ Ago(new, k + 1) = Ago(times, k)
    <3> HIDE DEF times
    <3>1. QED
      BY <2>1, RememberedTimes
  <2> HIDE DEF times, new
  <2>3. Len(new) <= 2 * MaxAttempts
    BY <1>1, <2>1, <2>2
  <2>4. QED
    BY <2>2, <2>3
<1>6. InOrder(new)
  <2> SUFFICES ASSUME NEW j \in 1 .. Len(new), NEW k \in 1 .. Len(new), j <= k
               PROVE  Ago(new, k) <= Ago(new, j) /\ Ago(new, j) <= now
    BY DEF InOrder
  <2>1. ASSUME NEW i \in 2 .. Len(new)
        PROVE  i - 1 \in 1 .. Len(times) /\ Ago(new, i) = Ago(times, i - 1) /\ Ago(new, i) <= now
    <3>1. i - 1 \in 1 .. Len(new) - 1 /\ i - 1 + 1 = i
      BY <1>5
    <3>2. i - 1 \in 1 .. Len(times) /\ Ago(new, i) = Ago(times, i - 1)
      BY <1>5, <3>1
    <3>3. i - 1 <= i - 1
      BY <3>1
    <3>4. QED
      BY <1>1, <3>2, <3>3 DEF InOrder
  <2>2. CASE j = 1
    <3>1. k = 1 \/ k \in 2 .. Len(new)
      BY <1>5
    <3>2. now <= now
      BY <1>1
    <3>3. QED
      BY <1>5, <2>1, <2>2, <3>1, <3>2
  <2>3. CASE j # 1
    <3>1. j \in 2 .. Len(new) /\ k \in 2 .. Len(new) /\ j - 1 <= k - 1
      BY <1>5, <2>3
    <3>2. Ago(times, k - 1) <= Ago(times, j - 1)
      BY <1>1, <2>1, <3>1 DEF InOrder
    <3>3. QED
      BY <2>1, <3>1, <3>2
  <2>4. QED
    BY <2>2, <2>3
<1> HIDE DEF times, new, counter
<1>7. counter \in Counters /\ Counted(new, counter) /\ counter # None
  BY <1>3, <1>4
<1>8. Limited(ip)'
  <2>1. Len(new) <= 2 * MaxAttempts /\ (InOrder(attempts[ip]))'
    BY <1>2, <1>5, <1>6 DEF InOrder
  <2>2. Counted(attempts[ip], rate[ip])'
    BY <1>2, <1>7 DEF Counted, Period
  <2>3. QED
    BY <1>2, <1>7, <2>1, <2>2 DEF Limited
<1>9. QED
  BY <1>7, <1>8 DEF counter
\* A step of the clock: what was past is further past.
LEMMA TickKeeps ==
  ASSUME LimitIInv, NEW ip \in Ips, now < MaxTime, now' = now + 1, UNCHANGED <<rate, attempts>>
  PROVE  Limited(ip)'
<1> USE LimitConstants
<1> DEFINE times == attempts[ip]
<1>1. /\ now \in Nat /\ times \in Seq(0 .. MaxTime) /\ Len(times) \in Nat
      /\ Len(times) <= 2 * MaxAttempts /\ InOrder(times)
  BY LenProperties DEF LimitIInv, LimitTypeOK, Limited
<1>2. \A k \in 1 .. Len(times) : Ago(times, k) \in Nat
  BY <1>1, TimesAreNumbers
<1>3. InOrder(times)'
  <2> SUFFICES ASSUME NEW j \in 1 .. Len(times), NEW k \in 1 .. Len(times), j <= k
               PROVE  Ago(times, k) <= Ago(times, j) /\ Ago(times, j) <= now + 1
    BY <1>1 DEF InOrder
  <2>1. Ago(times, k) <= Ago(times, j) /\ Ago(times, j) <= now
    BY <1>1 DEF InOrder
  <2>2. Ago(times, j) \in Nat
    BY <1>2
  <2>3. QED
    BY <1>1, <2>1, <2>2
<1>4. Rested(times) => Rested(times)'
  <2>1. (Len(times) >= 1 => Ago(times, 1) \in Nat) /\ (Len(times) >= MaxAttempts => Ago(times, MaxAttempts) \in Nat)
    BY <1>1, <1>2
  <2>2. QED
    BY <1>1, <2>1 DEF Rested
<1>5. ASSUME rate[ip] # None PROVE Counted(times, rate[ip])'
  BY <1>5 DEF LimitIInv, Limited, Counted, Period
<1>6. QED
  BY <1>1, <1>3, <1>4, <1>5 DEF LimitIInv, Limited

LEMMA LimitInitially == UsersInit => LimitIInv
<1> SUFFICES ASSUME UsersInit PROVE LimitIInv
  OBVIOUS
<1> USE LimitConstants
<1>1. LimitTypeOK
  BY DEF UsersInit, LimitTypeOK
<1>2. ASSUME NEW ip \in Ips PROVE Limited(ip)
  <2>1. attempts[ip] = << >> /\ Len(attempts[ip]) = 0 /\ rate[ip] = None
    BY DEF UsersInit
  <2>2. QED
    BY <2>1 DEF Limited, InOrder, Rested
<1>3. QED
  BY <1>1, <1>2 DEF LimitIInv

LEMMA LimitInductive == LimitIInv /\ [UsersNext]_userVars => LimitIInv'
<1> SUFFICES ASSUME LimitIInv, LimitStep PROVE LimitIInv'
  BY StepsLimit
<1> USE LimitConstants
<1>1. LimitTypeOK /\ Cleaned \in [Ips -> Counters \cup {None}]
  BY DEF LimitIInv, LimitTypeOK, Cleaned
<1>2. CASE UNCHANGED <<now, rate, attempts>>
  BY <1>2 DEF LimitIInv, LimitTypeOK, Limited, InOrder, Rested, Counted, Period
<1>3. CASE now < MaxTime /\ now' = now + 1 /\ UNCHANGED <<rate, attempts>>
  <2>1. LimitTypeOK'
    BY <1>1, <1>3 DEF LimitTypeOK
  <2>2. QED
    BY <1>3, <2>1, TickKeeps DEF LimitIInv
<1>4. CASE UNCHANGED <<now, attempts>> /\ rate' = Cleaned
  <2>1. LimitTypeOK'
    BY <1>1, <1>4 DEF LimitTypeOK
  <2>2. QED
    BY <1>4, <2>1, CleanedKeeps DEF LimitIInv
<1>5. ASSUME UNCHANGED now, NEW ip \in Ips, rate' = [Cleaned EXCEPT ![ip] = None],
             attempts' = [attempts EXCEPT ![ip] = << >>]
      PROVE  LimitIInv'
  <2>1. LimitTypeOK'
    BY <1>1, <1>5 DEF LimitTypeOK
  <2>2. Limited(ip)'
    <3>1. attempts'[ip] = << >> /\ Len(attempts'[ip]) = 0 /\ rate'[ip] = None
      BY <1>1, <1>5 DEF LimitTypeOK
    <3>2. QED
      BY <3>1 DEF Limited, InOrder, Rested
  <2>3. ASSUME NEW other \in Ips, other # ip PROVE Limited(other)'
    BY <1>1, <1>5, <2>3, CleanedKeeps DEF LimitTypeOK
  <2>4. QED
    BY <2>1, <2>2, <2>3 DEF LimitIInv
<1>6. ASSUME UNCHANGED now, NEW ip \in Ips, ~ Blocked(ip), Attempted(ip) PROVE LimitIInv'
  <2>1. Limited(ip)' /\ FailureCounted(ip) \in Counters
    BY <1>6, AttemptKeeps
  <2>2. Remembered(attempts[ip]) \in Seq(0 .. MaxTime)
    BY <1>1, RememberedTimes DEF LimitIInv, Limited, LimitTypeOK
  <2>3. LimitTypeOK'
    BY <1>1, <1>6, <2>1, <2>2 DEF LimitTypeOK, Attempted
  <2>4. ASSUME NEW other \in Ips, other # ip PROVE Limited(other)'
    BY <1>1, <1>6, <2>4, CleanedKeeps DEF LimitTypeOK, Attempted
  <2>5. QED
    BY <2>1, <2>3, <2>4 DEF LimitIInv
<1>7. CASE UNCHANGED now /\ rate' = [i \in Ips |-> None] /\ attempts' = [i \in Ips |-> << >>]
  <2>1. LimitTypeOK'
    BY <1>1, <1>7 DEF LimitTypeOK
  <2>2. ASSUME NEW ip \in Ips PROVE Limited(ip)'
    <3>1. attempts'[ip] = << >> /\ Len(attempts'[ip]) = 0 /\ rate'[ip] = None
      BY <1>7
    <3>2. QED
      BY <3>1 DEF Limited, InOrder, Rested
  <2>3. QED
    BY <2>1, <2>2 DEF LimitIInv
<1>8. QED
  BY <1>2, <1>3, <1>4, <1>5, <1>6, <1>7 DEF LimitStep

\* The counters of the rate limit and the times of the failures tell the same story, from
\* _record_failed_attempt() and _cleanup_rate_limit_store() on.
THEOREM LimitInvariant == UsersSpec => []LimitIInv
<1>1. QED
  BY LimitInitially, LimitInductive, PTL DEF UsersSpec

\* Between two logins that succeed, a limited address never gets two full counts of answers
\* within a window.  A full counter blocks for a window; before its period less than a full
\* count lies within a window of the period's beginning.
LEMMA LimitHolds == LimitIInv => RateLimited
<1> SUFFICES ASSUME LimitIInv, NEW ip \in Ips, Len(attempts[ip]) = 2 * MaxAttempts
             PROVE  now - attempts[ip][1] > Window
  BY DEF RateLimited
<1> USE LimitConstants
<1> DEFINE times == attempts[ip]
           M == MaxAttempts
<1>1. /\ now \in Nat /\ times \in Seq(0 .. MaxTime) /\ rate[ip] \in Counters \cup {None}
      /\ InOrder(times) /\ Len(times) = 2 * M
  BY DEF LimitIInv, LimitTypeOK, Limited
<1>2. \A k \in 1 .. 2 * M : Ago(times, k) \in Nat
  BY <1>1, TimesAreNumbers
<1>3. times[1] = Ago(times, 2 * M)
  BY <1>1 DEF Ago
<1>4. \A k \in 1 .. 2 * M : Ago(times, 2 * M) <= Ago(times, k) /\ Ago(times, k) <= now
  BY <1>1 DEF InOrder
<1>5. ASSUME NEW k \in 1 .. 2 * M, Ago(times, k) + Window < now PROVE now - times[1] > Window
  <2>1. Ago(times, k) \in Nat /\ Ago(times, 2 * M) \in Nat /\ Ago(times, 2 * M) <= Ago(times, k)
    BY <1>2, <1>4
  <2>2. Ago(times, 2 * M) + Window < now
    BY <1>1, <1>5, <2>1
  <2>3. QED
    BY <1>1, <1>3, <2>1, <2>2
<1>6. CASE rate[ip] = None
  <2>1. M \in 1 .. 2 * M /\ Len(times) >= M
    BY <1>1
  <2>2. Ago(times, M) + Window < now
    BY <1>6, <2>1 DEF LimitIInv, Limited, Rested
  <2>3. QED
    BY <1>5, <2>1, <2>2
<1>7. CASE rate[ip] # None
  <2>1. Counted(times, rate[ip]) /\ rate[ip].first \in Nat /\ rate[ip].count \in 1 .. M
    BY <1>1, <1>7 DEF LimitIInv, Limited, Counters
  <2>2. PICK p \in Nat : Period(times, rate[ip], p)
    BY <2>1 DEF Counted
  <2>3. p \in 1 .. 2 * M /\ Ago(times, p) = rate[ip].first /\ p \in {rate[ip].count, M + 1}
    BY <1>1, <2>2 DEF Period
  <2>4. rate[ip].first <= now
    BY <1>4, <2>3
  <2>5. CASE p <= M
    <3>1. p + M \in 1 .. 2 * M /\ p + M <= Len(times)
      BY <1>1, <2>3, <2>5
    <3>2. Ago(times, p + M) + Window < rate[ip].first /\ Ago(times, p + M) \in Nat
      BY <1>2, <2>2, <3>1 DEF Period
    <3>3. Ago(times, p + M) + Window < now
      BY <1>1, <2>1, <2>4, <3>2
    <3>4. QED
      BY <1>5, <3>1, <3>3
  <2>6. CASE p = M + 1
    <3>1. p + 1 \in 1 .. 2 * M \/ (p = 2 * M /\ M = 1)
      BY <2>3, <2>6
    <3>2. p + 1 \in 1 .. 2 * M /\ p < Len(times)
      BY <1>1, <2>3, <2>6, <3>1
    <3>3. Ago(times, p + 1) < rate[ip].first /\ Ago(times, 1) = rate[ip].first + Window
      BY <2>2, <2>6, <3>2 DEF Period
    <3>4. 1 \in 1 .. 2 * M
      BY <1>1
    <3>5. Ago(times, p + 1) \in Nat /\ Ago(times, 1) <= now
      BY <1>2, <1>4, <3>2, <3>4
    <3>6. Ago(times, p + 1) + Window < now
      BY <1>1, <2>1, <3>3, <3>5
    <3>7. QED
      BY <1>5, <3>2, <3>6
  <2>7. p <= M \/ p = M + 1
    <3>1. p = rate[ip].count \/ p = M + 1
      BY <2>3
    <3>2. QED
      BY <2>1, <3>1
  <2>8. QED
    BY <2>5, <2>6, <2>7
<1>8. QED
  BY <1>6, <1>7

\* The rate limit of auth.py holds against the record of the answers: a limited address gets
\* fewer than two full counts in any window, across resets, blocks and clean-ups.
THEOREM RateIsLimited == UsersSpec => []RateLimited
<1>1. QED
  BY LimitInvariant, LimitHolds, PTL

\* Each variable keeps its type.
THEOREM UsersTypes == UsersSpec => []UsersTypeOK
<1>1. StoreIInv /\ LimitIInv => UsersTypeOK
  BY DEF StoreIInv, StoreTypeOK, LimitIInv, LimitTypeOK, UsersTypeOK
<1>2. QED
  BY <1>1, StoreInvariant, LimitInvariant, PTL

================================================================================
