----------------------------- MODULE UserStore -----------------------------
(***************************************************************************)
(* Local accounts of several API replicas.  The identity document lives in *)
(* one Secret and is replaced by conditional updates; every replica keeps  *)
(* a copy, which it replaces every two seconds, at each sign-in and after  *)
(* each change of its own, and judges sessions by that copy.               *)
(*                                                                         *)
(* A revision of the Secret never changes, so the documents ever stored    *)
(* form a sequence, and a copy is the number of its revision.              *)
(***************************************************************************)
EXTENDS Naturals, Sequences, FiniteSets

CONSTANTS Replicas,
          Names,       \* of accounts
          Bootstrap,   \* the account seeded from the environment
          Managed,     \* the accounts that calls are about (bound)
          Modes,       \* the MFA modes the policy takes (bound)
          Codes,       \* recovery codes of an enrolment
          Backend,     \* where sessions are kept: "token" or "redis"
          None,        \* no name
          MaxRevision, \* revisions of the Secret (bound)
          MaxSessions, \* sessions at once (bound)
          MaxRequests  \* requests and restarts in all (bound)

MFAModes == {"disabled", "optional", "required-admins", "required-all"}
Roles == {"admin", "viewer"}

ASSUME UserStoreAssumption ==
  /\ Bootstrap \in Names /\ Managed \subseteq Names /\ None \notin Names
  /\ "optional" \in Modes /\ Modes \subseteq MFAModes
  /\ Codes \in Nat /\ Backend \in {"token", "redis"}
  /\ MaxRevision \in Nat /\ MaxSessions \in Nat /\ MaxRequests \in Nat

VARIABLES documents,  \* what the Secret held, the present document last
          cache,      \* each replica's copy, 0 before it serves
          tick,       \* what the synchronisation of a replica has loaded
          call,       \* the request a replica is working on
          challenges, \* names that may present a second factor
          sessions,   \* sessions in use, and the revision they were made from
          redeemed,   \* (ghost) recovery codes used, and by which revision
          requests    \* requests and restarts so far

vars == <<documents, cache, tick, call, challenges, sessions, redeemed, requests>>

---------------------------------------------------------------------------
(* Accounts.  A password, a TOTP secret or a set of recovery codes is named  *)
(* by the revision that brought it, and so is the account itself; 0 is none. *)

Absent == [id |-> 0, role |-> "viewer", disabled |-> FALSE, version |-> 0,
           password |-> 0, totp |-> 0, pending |-> 0, codes |-> {}]

NewAccount(role, rev) == [Absent EXCEPT !.id = rev, !.role = role, !.version = 1, !.password = rev]

\* Seeded fault: the recovery codes stay.
ClearSecrets(u) == [u EXCEPT !.totp = 0, !.pending = 0]

clearMFA(u) == [u EXCEPT !.totp = 0, !.pending = 0, !.codes = {}]

Exists(u) == u.id # 0
ActiveAdmin(u) == Exists(u) /\ u.role = "admin" /\ ~u.disabled
ActiveAdmins(users) == {n \in Names : ActiveAdmin(users[n])}

RequiresMFA(mode, role) == mode = "required-all" \/ (mode = "required-admins" /\ role = "admin")

SetupRequired(d, n) == RequiresMFA(d.mode, d.users[n].role) /\ d.users[n].totp = 0

SessionUser(d, n) ==
  [name |-> n, role |-> d.users[n].role, version |-> d.users[n].version,
   setup |-> SetupRequired(d, n)]

\* What the backend gives back of it: the version is not part of a user's JSON.
Stored(user) == IF Backend = "redis" THEN [user EXCEPT !.version = 0] ELSE user

Latest == Len(documents)
Cached(r) == documents[cache[r]]

ValidateSession(r, user) ==
  LET current == Cached(r).users[user.name] IN
  /\ Exists(current) /\ ~current.disabled
  /\ current.version = user.version /\ current.role = user.role

Accepts(r, s) == cache[r] # 0 /\ ValidateSession(r, Stored(s.user))

---------------------------------------------------------------------------
(* Calls *)

Idle == [state |-> "idle", op |-> "none", name |-> None, rev |-> 0, local |-> 0]

\* A request that begins by Refresh, that is by loading the document.
Loading(op, n) == [state |-> "loaded", op |-> op, name |-> n, rev |-> Latest, local |-> 0]

\* One that begins to update the document, by reading it.
Updating(op, n, local) == [state |-> "put", op |-> op, name |-> n, rev |-> Latest, local |-> local]

At(r, state, op) == call[r].state = state /\ call[r].op = op
Read(r) == documents[call[r].rev]
Serving(r) == cache[r] # 0

\* A replica takes up a request.
Requests(r, first) ==
  /\ Serving(r) /\ call[r] = Idle /\ requests < MaxRequests
  /\ call' = [call EXCEPT ![r] = first]
  /\ requests' = requests + 1
  /\ UNCHANGED <<documents, cache, tick, challenges, sessions, redeemed>>

\* The conditional update of the Secret with the changed document.
Put(r, d) ==
  /\ call[r].rev = Latest /\ Latest < MaxRevision
  /\ documents' = Append(documents, d)
  /\ call' = [call EXCEPT ![r].state = "apply", ![r].rev = Latest + 1]

\* A change of one account by the call of r.
PutUser(r, n, u) == Put(r, [Read(r) EXCEPT !.users[n] = u])

\* RetryOnConflict: the document has changed, so it is read again.
Conflict(r) ==
  /\ call[r].state = "put" /\ call[r].rev # Latest
  /\ call' = [call EXCEPT ![r].rev = Latest]
  /\ UNCHANGED <<documents, cache, tick, challenges, sessions, redeemed, requests>>

\* mutate applies its own document.
Applied(r) ==
  /\ call[r].state = "apply" /\ call[r].op # "code"
  /\ cache' = [cache EXCEPT ![r] = call[r].rev]
  /\ call' = [call EXCEPT ![r] = Idle]
  /\ UNCHANGED <<documents, tick, challenges, sessions, redeemed, requests>>

\* A load or update fails, the change or the credentials are refused, the
\* fifth attempt conflicts, or the answer of a stored update is lost.
Fails(r) ==
  /\ call[r].state # "idle"
  /\ call' = [call EXCEPT ![r] = Idle]
  /\ UNCHANGED <<documents, cache, tick, challenges, sessions, redeemed, requests>>

---------------------------------------------------------------------------
(* Replicas *)

Restart(r) ==
  /\ Serving(r) /\ requests < MaxRequests
  /\ cache' = [cache EXCEPT ![r] = 0]
  /\ tick' = [tick EXCEPT ![r] = 0]
  /\ call' = [call EXCEPT ![r] = Idle]
  /\ requests' = requests + 1
  /\ UNCHANGED <<documents, challenges, sessions, redeemed>>

ConfigurePersistence(r) ==
  /\ ~Serving(r) /\ call[r] = Idle
  /\ call' = [call EXCEPT ![r] = Updating("seed", None, 0)]
  /\ UNCHANGED <<documents, cache, tick, challenges, sessions, redeemed, requests>>

Seeded(rev) == [mode |-> "optional", users |->
                 [n \in Names |-> IF n = Bootstrap THEN NewAccount("admin", rev) ELSE Absent]]

\* A document without users is replaced by the seed, another is stored again.
Seed(r) ==
  /\ At(r, "put", "seed")
  /\ Put(r, IF \E n \in Names : Exists(Read(r).users[n]) THEN Read(r) ELSE Seeded(Latest + 1))
  /\ UNCHANGED <<cache, tick, challenges, sessions, redeemed, requests>>

\* Seeded fault: the ticker waits for the request under way.
LoadWhenIdle(r) ==
  /\ Serving(r) /\ tick[r] = 0 /\ call[r] = Idle
  /\ tick' = [tick EXCEPT ![r] = Latest]
  /\ UNCHANGED <<documents, cache, call, challenges, sessions, redeemed, requests>>

\* StartSync: every two seconds the document is loaded, and applied later.
TickLoad(r) ==
  /\ Serving(r) /\ tick[r] = 0
  /\ tick' = [tick EXCEPT ![r] = Latest]
  /\ UNCHANGED <<documents, cache, call, challenges, sessions, redeemed, requests>>

TickApply(r) ==
  /\ tick[r] # 0
  /\ cache' = [cache EXCEPT ![r] = tick[r]]
  /\ tick' = [tick EXCEPT ![r] = 0]
  /\ UNCHANGED <<documents, call, challenges, sessions, redeemed, requests>>

---------------------------------------------------------------------------
(* Signing in *)

Login(r, n) == Requests(r, Loading("login", n))

VerifyMFA(r, n) == n \in challenges /\ Requests(r, Loading("verify", n))

\* Refresh applies what was loaded, whatever the replica has applied since.
Refreshed(r) ==
  /\ call[r].state = "loaded"
  /\ cache' = [cache EXCEPT ![r] = call[r].rev]
  /\ call' = [call EXCEPT ![r].state = "read"]
  /\ UNCHANGED <<documents, tick, challenges, sessions, redeemed, requests>>

\* Seeded fault: the version is read when the session is made.
IssueCurrent(r, n, rev) ==
  /\ Cardinality(sessions) < MaxSessions
  /\ sessions' = sessions \cup
       {[user |-> [SessionUser(documents[rev], n) EXCEPT !.version = documents[Latest].users[n].version],
         rev |-> rev]}
  /\ call' = [call EXCEPT ![r] = Updating("record", None, 0)]

\* A session made from the account in revision rev; RecordAuthentication then
\* updates the document within the same request.
IssueSession(r, n, rev) ==
  /\ Cardinality(sessions) < MaxSessions
  /\ sessions' = sessions \cup {[user |-> SessionUser(documents[rev], n), rev |-> rev]}
  /\ call' = [call EXCEPT ![r] = Updating("record", None, 0)]

Usable(u) == Exists(u) /\ ~u.disabled

\* The password is right: a session, or a challenge for the second factor.
Authenticate(r) ==
  LET n == call[r].name
      u == Cached(r).users[n] IN
  /\ At(r, "read", "login") /\ Usable(u)
  /\ IF u.totp # 0 /\ Cached(r).mode # "disabled"
     THEN /\ challenges' = challenges \cup {n}
          /\ call' = [call EXCEPT ![r] = Idle]
          /\ UNCHANGED sessions
     ELSE IssueSession(r, n, cache[r]) /\ UNCHANGED challenges
  /\ UNCHANGED <<documents, cache, tick, redeemed, requests>>

\* VerifySecondFactor: a code of the authenticator ...
TOTPVerified(r) ==
  LET u == Cached(r).users[call[r].name] IN
  /\ At(r, "read", "verify") /\ Usable(u) /\ u.totp # 0
  /\ IssueSession(r, call[r].name, cache[r])
  /\ UNCHANGED <<documents, cache, tick, challenges, redeemed, requests>>

\* ... or a recovery code, which is looked for in the document.
TryRecovery(r) ==
  LET u == Cached(r).users[call[r].name] IN
  /\ At(r, "read", "verify") /\ Usable(u) /\ u.totp # 0
  /\ call' = [call EXCEPT ![r] = Updating("code", call[r].name, cache[r])]
  /\ UNCHANGED <<documents, cache, tick, challenges, sessions, redeemed, requests>>

\* Seeded fault: the code is looked for in the copy made before.
RedeemCached(r) ==
  LET n == call[r].name
      u == Read(r).users[n] IN
  /\ At(r, "put", "code") /\ Usable(u) /\ u.totp # 0
  /\ \E code \in documents[call[r].local].users[n].codes :
       /\ PutUser(r, n, [u EXCEPT !.codes = @ \ {code}])
       /\ redeemed' = redeemed \cup {[name |-> n, code |-> code, rev |-> Latest + 1]}
  /\ UNCHANGED <<cache, tick, challenges, sessions, requests>>

Redeem(r) ==
  LET n == call[r].name
      u == Read(r).users[n] IN
  /\ At(r, "put", "code") /\ Usable(u) /\ u.totp # 0
  /\ \E code \in u.codes :
       /\ PutUser(r, n, [u EXCEPT !.codes = @ \ {code}])
       /\ redeemed' = redeemed \cup {[name |-> n, code |-> code, rev |-> Latest + 1]}
  /\ UNCHANGED <<cache, tick, challenges, sessions, requests>>

\* The session is made from the account as it was before the code was used.
Recovered(r) ==
  /\ At(r, "apply", "code")
  /\ cache' = [cache EXCEPT ![r] = call[r].rev]
  /\ IssueSession(r, call[r].name, call[r].local)
  /\ UNCHANGED <<documents, tick, challenges, redeemed, requests>>

RecordAuthentication(r) ==
  /\ At(r, "put", "record")
  /\ Put(r, Read(r))
  /\ UNCHANGED <<cache, tick, challenges, sessions, redeemed, requests>>

ChallengeExpires(n) ==
  /\ n \in challenges
  /\ challenges' = challenges \ {n}
  /\ UNCHANGED <<documents, cache, tick, call, sessions, redeemed, requests>>

\* Signing out, expiry, or a refused session taken out of Redis.
SessionEnds(s) ==
  /\ sessions' = sessions \ {s}
  /\ UNCHANGED <<documents, cache, tick, call, challenges, redeemed, requests>>

---------------------------------------------------------------------------
(* Changes of the document.  Their arguments are chosen when they succeed. *)

Change(r) == Requests(r, Updating("change", None, 0))

Changes(r) ==
  /\ At(r, "put", "change")
  /\ UNCHANGED <<cache, tick, challenges, sessions, redeemed, requests>>

\* Whoever must now set up a second factor has to sign in again.
UpdatePolicy(r) ==
  /\ Changes(r)
  /\ \E mode \in Modes :
       Put(r, [mode |-> mode, users |-> [n \in Names |->
         LET u == Read(r).users[n] IN
         IF mode # Read(r).mode /\ Exists(u) /\ RequiresMFA(mode, u.role) /\ u.totp = 0
         THEN [u EXCEPT !.version = @ + 1] ELSE u]])

Create(r) ==
  /\ Changes(r)
  /\ \E n \in Managed, role \in Roles :
       ~Exists(Read(r).users[n]) /\ PutUser(r, n, NewAccount(role, Latest + 1))

\* The administrators are counted after the change, so that two must stay.
AdminsStay(r, n, changed) ==
  ActiveAdmin(Read(r).users[n]) /\ ~ActiveAdmin(changed) =>
    Cardinality(ActiveAdmins([Read(r).users EXCEPT ![n] = changed])) > 1

UpdateAdmin(r) ==
  /\ Changes(r)
  /\ \E n \in Managed, role \in Roles, disabled, password, resetMFA \in BOOLEAN :
       LET u == Read(r).users[n]
           changed == [u EXCEPT !.role = role, !.disabled = disabled]
           renewed == IF password
                      THEN [changed EXCEPT !.password = Latest + 1, !.version = @ + 1] ELSE changed
           reset == IF resetMFA THEN clearMFA(renewed) ELSE renewed
       IN /\ Exists(u)
          /\ AdminsStay(r, n, changed)
          /\ PutUser(r, n, [reset EXCEPT !.version = @ + 1])

Delete(r) ==
  /\ Changes(r)
  /\ \E n \in Managed :
       LET users == Read(r).users IN
       /\ Exists(users[n])
       /\ ActiveAdmin(users[n]) => Cardinality(ActiveAdmins(users)) > 1
       /\ PutUser(r, n, Absent)

ChangePassword(r) ==
  /\ Changes(r)
  /\ \E n \in Managed : LET u == Read(r).users[n] IN
       Usable(u) /\ PutUser(r, n, [u EXCEPT !.password = Latest + 1, !.version = @ + 1])

ChangeEmail(r) ==
  /\ Changes(r)
  /\ \E n \in Managed : LET u == Read(r).users[n] IN
       Usable(u) /\ PutUser(r, n, [u EXCEPT !.version = @ + 1])

\* The new recovery codes replace those in use before the secret is confirmed.
BeginMFAEnrollment(r) ==
  /\ Changes(r)
  /\ Read(r).mode # "disabled"
  /\ \E n \in Managed : LET u == Read(r).users[n] IN
       Usable(u) /\ PutUser(r, n, [u EXCEPT !.pending = Latest + 1,
                                            !.codes = {Latest + 1} \X (1 .. Codes)])

ConfirmMFAEnrollment(r) ==
  /\ Changes(r)
  /\ \E n \in Managed : LET u == Read(r).users[n] IN
       /\ u.pending # 0
       /\ PutUser(r, n, [u EXCEPT !.totp = u.pending, !.pending = 0, !.version = @ + 1])

DisableMFA(r) ==
  /\ Changes(r)
  /\ \E n \in Managed : LET u == Read(r).users[n] IN
       /\ u.totp # 0 /\ ~RequiresMFA(Read(r).mode, u.role)
       /\ PutUser(r, n, [clearMFA(u) EXCEPT !.version = @ + 1])

---------------------------------------------------------------------------

\* The Secret of a new installation has no users, and no replica serves yet;
\* otherwise all serve, and the accounts but for one have a second factor, a
\* challenge and a session that is accepted.
Enrolled(role) == [NewAccount(role, 1) EXCEPT !.totp = 1, !.codes = {1} \X (1 .. Codes)]

InitialAccounts ==
  {[n \in Names |-> Absent]} \cup
  {[n \in Names |-> IF n = Bootstrap THEN NewAccount("admin", 1) ELSE Enrolled(role)] :
     role \in Roles}

Init ==
  /\ \E users \in InitialAccounts :
       /\ documents = <<[mode |-> "optional", users |-> users]>>
       /\ cache = [r \in Replicas |-> users[Bootstrap].id]
       /\ LET enrolled == {n \in Names : users[n].totp # 0} IN
            /\ challenges = enrolled
            /\ sessions =
                 {s \in {[user |-> SessionUser(documents[1], n), rev |-> 1] : n \in enrolled} :
                    \A r \in Replicas : Accepts(r, s)}
  /\ tick = [r \in Replicas |-> 0]
  /\ call = [r \in Replicas |-> Idle]
  /\ redeemed = {}
  /\ requests = 0

Next ==
  \/ \E r \in Replicas :
       \/ Restart(r) \/ ConfigurePersistence(r) \/ Seed(r)
       \/ TickLoad(r) \/ TickApply(r)
       \/ Refreshed(r) \/ Conflict(r) \/ Applied(r) \/ Fails(r)
       \/ Authenticate(r) \/ TOTPVerified(r) \/ TryRecovery(r) \/ Redeem(r) \/ Recovered(r)
       \/ RecordAuthentication(r)
       \/ Change(r) \/ UpdatePolicy(r) \/ Create(r) \/ UpdateAdmin(r) \/ Delete(r)
       \/ ChangePassword(r) \/ ChangeEmail(r)
       \/ BeginMFAEnrollment(r) \/ ConfirmMFAEnrollment(r) \/ DisableMFA(r)
       \/ \E n \in Managed : Login(r, n) \/ VerifyMFA(r, n)
  \/ \E n \in Names : ChallengeExpires(n)
  \/ \E s \in sessions : SessionEnds(s)

\* The goroutine of a serving replica's ticker goes on, loading and applying in
\* turn; nothing else is assumed to.
Spec ==
  /\ Init /\ [][Next]_vars
  /\ \A r \in Replicas : WF_vars(TickLoad(r) \/ TickApply(r))

---------------------------------------------------------------------------
(* Properties *)

Code == Nat \X (1 .. Codes)
Account == [id : Nat, role : Roles, disabled : BOOLEAN, version : Nat,
            password : Nat, totp : Nat, pending : Nat, codes : SUBSET Code]
Document == [mode : Modes, users : [Names -> Account]]
Calls == [state : {"idle", "loaded", "read", "put", "apply"},
          op : {"none", "login", "verify", "seed", "code", "record", "change"},
          name : Names \cup {None}, rev : Nat, local : Nat]
User == [name : Names, role : Roles, version : Nat, setup : BOOLEAN]

\* Recovery codes go with an enrolment, and what is no account has no contents.
WellFormed(u) ==
  /\ u.codes # {} => u.totp # 0 \/ u.pending # 0
  /\ IF Exists(u) THEN u.version # 0 ELSE u = Absent

\* Documents and sessions are well formed, and a copy or a call that is under
\* way always refers to a revision that was stored.
TypeOK ==
  /\ documents \in Seq(Document) /\ documents # <<>>
  /\ \A i \in DOMAIN documents, n \in Names : WellFormed(documents[i].users[n])
  /\ cache \in [Replicas -> 0 .. Latest]
  /\ tick \in [Replicas -> 0 .. Latest]
  /\ call \in [Replicas -> Calls]
  /\ \A r \in Replicas : call[r].state # "idle" =>
       /\ call[r].rev \in 1 .. Latest
       /\ call[r].op \in {"login", "verify", "code"} => call[r].name \in Names
       /\ call[r].op = "code" => call[r].local \in 1 .. Latest
       /\ call[r].state = "read" => Serving(r)
  /\ challenges \subseteq Names
  /\ sessions \subseteq [user : User, rev : 1 .. Latest]
  /\ redeemed \subseteq [name : Names, code : Code, rev : 1 .. Latest]
  /\ requests \in Nat

\* In some revision from i to j, in either order, there is no account n.
Deleted(n, i, j) ==
  \E k \in (i .. j) \cup (j .. i) : ~Exists(documents[k].users[n])

\* A session a replica accepts is worth what signing in to the account, as this
\* replica knows it, would give: it is the account the session was made from,
\* with the same role, password and second factor, and unless the replica's copy
\* is older than the session, it is confined to enrolment when the policy asks
\* for that.  The one exception is a name that was without an account meanwhile:
\* versions start at 1 again, and the session passes for one of the new account.
SessionMatchesAccount ==
  \A r \in Replicas, s \in sessions :
    Accepts(r, s) =>
      LET n == s.user.name
          now == Cached(r).users[n]
          then == documents[s.rev].users[n]
      IN \/ /\ now.id = then.id
            /\ now.role = then.role /\ now.password = then.password /\ now.totp = then.totp
            /\ s.rev <= cache[r] /\ SetupRequired(Cached(r), n) => s.user.setup
         \/ Deleted(n, s.rev, cache[r])

\* What INSTALL.md:343-345 says of a deletion: a replica that knows a later
\* document than the one in which the account of a session is gone refuses the
\* session.  It does not hold, as an account created under the name starts at
\* session version 1, which the old session may carry (users.go:462-465).
DeletedAccountSignedOut ==
  \A r \in Replicas, s \in sessions :
    s.rev <= cache[r] /\ Deleted(s.user.name, s.rev, cache[r]) => ~Accepts(r, s)

\* A recovery code is used by one update of the document, whatever replicas it
\* is presented to at the same time and however stale their copies are.
RecoveryCodeOnce ==
  \A x, y \in redeemed : x.name = y.name /\ x.code = y.code => x.rev = y.rev

\* A document with accounts has an administrator who can sign in, although
\* administrators delete, disable and demote each other on several replicas.
AdminRemains ==
  \A i \in DOMAIN documents :
    (\E n \in Names : Exists(documents[i].users[n])) => ActiveAdmins(documents[i].users) # {}

\* Once the document stays as it is, every serving replica has it, although a
\* slow refresh or a late answer may put an older copy over a newer one.
CachesSettle ==
  <>[](\A r \in Replicas : cache[r] \in {0, Latest})

\* A replica whose copy is the revision a session was made from accepts it.  It
\* does not hold with Redis.
FreshSessionAccepted ==
  \A r \in Replicas, s \in sessions : cache[r] = s.rev => Accepts(r, s)
=============================================================================
