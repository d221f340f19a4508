-------------------------- MODULE UserStoreProofs --------------------------
(***************************************************************************)
(* Whatever the replicas, accounts and interleavings: the stored documents *)
(* and the copies are well typed, an accepted session matches its account, *)
(* a recovery code is used once and an administrator remains.              *)
(*                                                                         *)
(* Every update of the Secret is a Write: the document it stores is judged *)
(* against the one before it by Good, and since the update is conditional  *)
(* what holds of neighbouring revisions extends to any two revisions.      *)
(***************************************************************************)
EXTENDS UserStore, TLAPS, FiniteSetTheorems

\* What one update may make of an account: the same account under the same or,
\* if what it takes to sign in changes, a later version; no account; or a new
\* account, named by the revision, as its recovery codes are.
Succeeds(u, v, rev) ==
  /\ v.id = u.id \/ v.id = 0 \/ (u.id = 0 /\ v.id = rev)
  /\ v.id # 0 /\ v.id = u.id =>
       /\ v.version >= u.version
       /\ v.version = u.version => v.role = u.role /\ v.password = u.password /\ v.totp = u.totp
  /\ v.codes \subseteq u.codes \cup ({rev} \X (1 .. Codes))

\* The accounts c and d have for n ask no more of a session of the same version.
Asks(c, d, n) ==
  LET u == c.users[n]
      v == d.users[n] IN
  v.id # 0 /\ v.id = u.id /\ v.version = u.version /\ SetupRequired(d, n) => SetupRequired(c, n)

Good(c, d, rev) ==
  /\ d \in Document
  /\ \A n \in Names : /\ WellFormed(d.users[n])
                      /\ Succeeds(c.users[n], d.users[n], rev)
                      /\ Asks(c, d, n)
  /\ ActiveAdmins(c.users) # {} => ActiveAdmins(d.users) # {}

Write(r, d) ==
  /\ call[r].state = "put" /\ Put(r, d)
  /\ Good(Read(r), d, Latest + 1)
  /\ UNCHANGED <<cache, tick, challenges, sessions, requests>>

---------------------------------------------------------------------------
(* Accounts and documents *)

\* What is no account has no contents and is well formed.
LEMMA AbsentTyped == Absent \in Account /\ WellFormed(Absent) /\ ~Exists(Absent)
BY DEF Absent, Account, WellFormed, Exists, Roles

\* The recovery codes of an enrolment are codes.
LEMMA CodesTyped == ASSUME NEW rev \in Nat PROVE {rev} \X (1 .. Codes) \subseteq Code
BY DEF Code

\* A new account is well formed.
LEMMA NewTyped ==
  ASSUME NEW role \in Roles, NEW rev \in Nat \ {0}
  PROVE  LET u == NewAccount(role, rev) IN
         /\ u \in Account /\ WellFormed(u)
         /\ u.id = rev /\ u.role = role /\ ~u.disabled /\ u.codes = {} /\ u.totp = 0
<1> DEFINE u == NewAccount(role, rev)
<1>1. u \in Account
  BY AbsentTyped DEF NewAccount, Account
<1>2. /\ u.id = rev /\ u.role = role /\ ~u.disabled
      /\ u.version = 1 /\ u.codes = {} /\ u.totp = 0
  BY AbsentTyped DEF NewAccount, Absent
<1>3. QED BY <1>1, <1>2 DEF WellFormed, Exists

\* Replacing one account by a successor stores a good document, provided that
\* an administrator remains.
LEMMA Replaced ==
  ASSUME NEW c \in Document, \A n \in Names : WellFormed(c.users[n]),
         NEW n \in Names, NEW v \in Account, NEW rev \in Nat,
         WellFormed(v), Succeeds(c.users[n], v, rev),
         ActiveAdmin(c.users[n]) /\ ~ActiveAdmin(v) =>
           \E m \in Names \ {n} : ActiveAdmin(c.users[m])
  PROVE  Good(c, [c EXCEPT !.users[n] = v], rev)
<1> DEFINE d == [c EXCEPT !.users[n] = v]
<1>1. d \in Document /\ d.mode = c.mode /\ d.users = [c.users EXCEPT ![n] = v]
  BY DEF Document
<1>2. \A m \in Names : d.users[m] = IF m = n THEN v ELSE c.users[m]
  BY <1>1 DEF Document
<1>3. ASSUME NEW m \in Names
      PROVE WellFormed(d.users[m]) /\ Succeeds(c.users[m], d.users[m], rev) /\ Asks(c, d, m)
  <2>1. CASE m = n
    BY <1>1, <1>2, <2>1 DEF Asks, Succeeds, SetupRequired
  <2>2. CASE m # n
    <3>1. d.users[m] = c.users[m] /\ c.users[m] \in Account
      BY <1>2, <2>2 DEF Document
    <3>2. Asks(c, d, m)
      BY <1>1, <3>1 DEF Asks, SetupRequired
    <3>3. c.users[m].version \in Nat /\ c.users[m].id \in Nat
      BY <3>1 DEF Account
    <3>4. QED BY <3>1, <3>2, <3>3 DEF Succeeds
  <2>3. QED BY <2>1, <2>2
<1>4. ActiveAdmins(c.users) # {} => ActiveAdmins(d.users) # {}
  BY <1>2 DEF ActiveAdmins
<1>5. QED BY <1>1, <1>3, <1>4 DEF Good

\* A document succeeds itself.
LEMMA Kept ==
  ASSUME NEW c \in Document, \A n \in Names : WellFormed(c.users[n]), NEW rev \in Nat
  PROVE  Good(c, c, rev)
<1>1. \A n \in Names : c.users[n].version \in Nat
  BY DEF Document, Account
<1>2. QED BY <1>1 DEF Good, Succeeds, Asks

---------------------------------------------------------------------------
(* The updates of the Secret *)

\* A stored revision is a well formed document.
LEMMA RevisionTyped ==
  ASSUME TypeOK, NEW i \in 1 .. Latest
  PROVE  /\ documents[i] \in Document /\ Latest \in Nat \ {0}
         /\ \A n \in Names : documents[i].users[n] \in Account /\ WellFormed(documents[i].users[n])
<1>1. documents[i] \in Document /\ Latest \in Nat \ {0} /\ i \in DOMAIN documents
  BY DEF TypeOK, Latest
<1>2. QED BY <1>1 DEF TypeOK, Document

\* So is the document a call has read.
LEMMA ReadTyped ==
  ASSUME TypeOK, NEW r \in Replicas, call[r].state # "idle"
  PROVE  /\ Read(r) \in Document /\ Latest \in Nat \ {0}
         /\ \A n \in Names : Read(r).users[n] \in Account /\ WellFormed(Read(r).users[n])
<1>1. call[r].rev \in 1 .. Latest
  BY DEF TypeOK
<1>2. QED BY <1>1, RevisionTyped DEF Read

\* An update of one account is a Write when the account succeeds itself and an
\* administrator remains.
LEMMA PutUserWrites ==
  ASSUME TypeOK, NEW r \in Replicas, NEW n \in Names, NEW v \in Account,
         call[r].state = "put", PutUser(r, n, v),
         UNCHANGED <<cache, tick, challenges, sessions, requests>>,
         WellFormed(v), Succeeds(Read(r).users[n], v, Latest + 1),
         ActiveAdmin(Read(r).users[n]) /\ ~ActiveAdmin(v) =>
           \E m \in Names \ {n} : ActiveAdmin(Read(r).users[m])
  PROVE  Write(r, [Read(r) EXCEPT !.users[n] = v])
<1>1. Read(r) \in Document /\ Latest + 1 \in Nat /\ \A m \in Names : WellFormed(Read(r).users[m])
  BY ReadTyped
<1>2. Good(Read(r), [Read(r) EXCEPT !.users[n] = v], Latest + 1)
  BY <1>1, Replaced
<1>3. QED BY <1>2 DEF Write, PutUser

\* The seed is a good document where there were no accounts.
LEMMA SeededGood ==
  ASSUME NEW c \in Document, \A n \in Names : WellFormed(c.users[n]) /\ ~Exists(c.users[n]),
         NEW rev \in Nat \ {0}
  PROVE  Good(c, Seeded(rev), rev) /\ ActiveAdmins(Seeded(rev).users) # {}
<1> DEFINE d == Seeded(rev)
<1>1. /\ \A n \in Names : d.users[n] = IF n = Bootstrap THEN NewAccount("admin", rev) ELSE Absent
      /\ d = [mode |-> "optional", users |-> d.users]
      /\ d.users = [n \in Names |-> IF n = Bootstrap THEN NewAccount("admin", rev) ELSE Absent]
  BY DEF Seeded
<1>2. NewAccount("admin", rev) \in Account /\ ActiveAdmin(NewAccount("admin", rev))
  BY NewTyped DEF ActiveAdmin, Exists, Roles
<1>3. \A n \in Names : d.users[n] \in Account /\ WellFormed(d.users[n])
  BY <1>1, NewTyped, AbsentTyped DEF Roles
<1>4. d \in Document
  BY <1>1, <1>3, UserStoreAssumption DEF Document
<1>5. ASSUME NEW n \in Names PROVE Succeeds(c.users[n], d.users[n], rev) /\ Asks(c, d, n)
  <2>1. c.users[n].id = 0
    BY DEF Exists
  <2>2. d.users[n].id \in {0, rev} /\ d.users[n].codes = {}
    BY <1>1, NewTyped DEF Roles, Absent
  <2>3. QED BY <2>1, <2>2 DEF Succeeds, Asks
<1>6. ActiveAdmins(d.users) # {}
  BY <1>1, <1>2, UserStoreAssumption DEF ActiveAdmins
<1>7. QED BY <1>3, <1>4, <1>5, <1>6 DEF Good

\* Seeding stores the document again, or the seed.
LEMMA SeedWrites ==
  ASSUME TypeOK, NEW r \in Replicas, Seed(r)
  PROVE  \E d : /\ Write(r, d) /\ UNCHANGED redeemed
                /\ \/ d = Read(r) /\ \E n \in Names : Exists(d.users[n])
                   \/ ActiveAdmins(d.users) # {}
<1>1. call[r].state = "put"
  BY DEF Seed, At
<1>2. Read(r) \in Document /\ Latest + 1 \in Nat \ {0} /\ \A n \in Names : WellFormed(Read(r).users[n])
  BY <1>1, ReadTyped
<1>3. CASE \E n \in Names : Exists(Read(r).users[n])
  <2>1. Put(r, Read(r))
    BY <1>3 DEF Seed
  <2>2. Write(r, Read(r))
    BY <1>1, <1>2, <2>1, Kept DEF Seed, Write
  <2>3. QED BY <1>3, <2>2 DEF Seed
<1>4. CASE \A n \in Names : ~Exists(Read(r).users[n])
  <2>1. Put(r, Seeded(Latest + 1))
    BY <1>4 DEF Seed
  <2>2. Good(Read(r), Seeded(Latest + 1), Latest + 1) /\ ActiveAdmins(Seeded(Latest + 1).users) # {}
    BY <1>2, <1>4, SeededGood
  <2>3. Write(r, Seeded(Latest + 1))
    BY <1>1, <2>1, <2>2 DEF Seed, Write
  <2>4. QED BY <2>2, <2>3 DEF Seed
<1>5. QED BY <1>3, <1>4

\* Recording a sign-in stores the document again.
LEMMA RecordWrites ==
  ASSUME TypeOK, NEW r \in Replicas, RecordAuthentication(r)
  PROVE  \E d : Write(r, d) /\ UNCHANGED redeemed
<1>1. call[r].state = "put"
  BY DEF RecordAuthentication, At
<1>2. Good(Read(r), Read(r), Latest + 1)
  BY <1>1, ReadTyped, Kept
<1>3. Write(r, Read(r))
  BY <1>1, <1>2, SMTT(40) DEF RecordAuthentication, Write
<1>4. QED BY <1>3 DEF RecordAuthentication

\* Redeeming a recovery code takes it out of the account.
LEMMA RedeemWrites ==
  ASSUME TypeOK, NEW r \in Replicas, Redeem(r)
  PROVE  \E d : /\ Write(r, d) /\ call[r].name \in Names
                /\ \E code \in Read(r).users[call[r].name].codes :
                     /\ d.users[call[r].name].codes = Read(r).users[call[r].name].codes \ {code}
                     /\ redeemed' = redeemed \cup
                                      {[name |-> call[r].name, code |-> code, rev |-> Latest + 1]}
<1> DEFINE n == call[r].name
           u == Read(r).users[n]
<1>1. call[r].state = "put" /\ n \in Names
  BY DEF Redeem, At, TypeOK
<1>2. PICK code \in u.codes :
        /\ PutUser(r, n, [u EXCEPT !.codes = @ \ {code}])
        /\ redeemed' = redeemed \cup {[name |-> n, code |-> code, rev |-> Latest + 1]}
  BY DEF Redeem
<1>3. u \in Account /\ WellFormed(u) /\ Usable(u) /\ u.totp # 0 /\ Read(r) \in Document
  BY <1>1, ReadTyped DEF Redeem
<1> DEFINE v == [u EXCEPT !.codes = @ \ {code}]
<1>4. /\ v \in Account /\ v.codes = u.codes \ {code} /\ v.id = u.id /\ v.version = u.version
      /\ v.role = u.role /\ v.password = u.password /\ v.totp = u.totp /\ v.disabled = u.disabled
  BY <1>3, SMTT(40) DEF Account
<1>5. WellFormed(v) /\ Succeeds(u, v, Latest + 1)
  <2>1. u.version \in Nat
    BY <1>3 DEF Account
  <2>2. QED BY <1>3, <1>4, <2>1 DEF WellFormed, Succeeds, Usable, Exists
<1>6. Write(r, [Read(r) EXCEPT !.users[n] = v])
  <2>1. ActiveAdmin(u) => ActiveAdmin(v)
    BY <1>4 DEF ActiveAdmin, Exists
  <2>2. UNCHANGED <<cache, tick, challenges, sessions, requests>>
    BY DEF Redeem
  <2>3. QED BY <1>1, <1>2, <1>4, <1>5, <2>1, <2>2, PutUserWrites
<1>7. [Read(r) EXCEPT !.users[n] = v].users[n].codes = u.codes \ {code}
  BY <1>1, <1>3, <1>4 DEF Document
<1>8. QED BY <1>1, <1>2, <1>6, <1>7

---------------------------------------------------------------------------
(* The changes of the document *)

\* What every change of an account starts from.
LEMMA ChangeReads ==
  ASSUME TypeOK, NEW r \in Replicas, Changes(r), NEW n \in Managed
  PROVE  /\ n \in Names /\ call[r].state = "put" /\ Latest \in Nat
         /\ Read(r).users[n] \in Account /\ WellFormed(Read(r).users[n])
         /\ UNCHANGED <<cache, tick, challenges, sessions, redeemed, requests>>
BY ReadTyped, UserStoreAssumption DEF Changes, At

\* A change under the next version succeeds the account, and is a Write if the
\* account is still the administrator it was.
LEMMA BumpWrites ==
  ASSUME TypeOK, NEW r \in Replicas, Changes(r), NEW n \in Managed, NEW v \in Account,
         PutUser(r, n, v), Exists(Read(r).users[n]), v.id = Read(r).users[n].id,
         v.version > Read(r).users[n].version,
         v.codes # {} => v.totp # 0 \/ v.pending # 0,
         v.codes \subseteq Read(r).users[n].codes \cup ({Latest + 1} \X (1 .. Codes)),
         ActiveAdmin(Read(r).users[n]) /\ ~ActiveAdmin(v) =>
           \E m \in Names \ {n} : ActiveAdmin(Read(r).users[m])
  PROVE  \E d : Write(r, d) /\ UNCHANGED redeemed
<1> DEFINE u == Read(r).users[n]
<1>1. n \in Names /\ call[r].state = "put" /\ u \in Account
  BY ChangeReads
<1>2. UNCHANGED <<cache, tick, challenges, sessions, redeemed, requests>>
  BY ChangeReads
<1>3. u.version \in Nat /\ v.version \in Nat
  BY <1>1 DEF Account
<1>4. WellFormed(v) /\ Succeeds(u, v, Latest + 1)
  BY <1>3 DEF WellFormed, Succeeds, Exists
<1>5. Write(r, [Read(r) EXCEPT !.users[n] = v])
  BY <1>1, <1>2, <1>4, PutUserWrites
<1>6. QED BY <1>2, <1>5

\* A new policy turns away whoever must now set up a second factor.
LEMMA UpdatePolicyWrites ==
  ASSUME TypeOK, NEW r \in Replicas, UpdatePolicy(r)
  PROVE  \E d : Write(r, d) /\ UNCHANGED redeemed
<1> DEFINE c == Read(r)
           Bumped(mode, u) == mode # c.mode /\ Exists(u) /\ RequiresMFA(mode, u.role) /\ u.totp = 0
           After(mode) == [mode |-> mode, users |-> [n \in Names |->
                            IF Bumped(mode, c.users[n])
                            THEN [c.users[n] EXCEPT !.version = @ + 1] ELSE c.users[n]]]
<1>1. PICK mode \in Modes : Put(r, After(mode))
  BY DEF UpdatePolicy
<1> DEFINE d == After(mode)
<1>2. call[r].state = "put" /\ UNCHANGED <<cache, tick, challenges, sessions, redeemed, requests>>
  BY DEF UpdatePolicy, Changes, At
<1>3. c \in Document /\ \A n \in Names : c.users[n] \in Account /\ WellFormed(c.users[n])
  BY <1>2, ReadTyped
<1>4. ASSUME NEW n \in Names
      PROVE  /\ d.users[n] \in Account /\ WellFormed(d.users[n])
             /\ Succeeds(c.users[n], d.users[n], Latest + 1) /\ Asks(c, d, n)
             /\ ActiveAdmin(c.users[n]) => ActiveAdmin(d.users[n])
  <2> DEFINE u == c.users[n]
             v == d.users[n]
  <2>1. u \in Account /\ WellFormed(u) /\ u.version \in Nat
    BY <1>3, SMTT(40) DEF Account
  <2>2. CASE Bumped(mode, u)
    <3>1. /\ v = [u EXCEPT !.version = @ + 1] /\ v \in Account /\ v.version = u.version + 1
          /\ v.id = u.id /\ v.role = u.role /\ v.codes = u.codes /\ v.disabled = u.disabled
          /\ v.totp = u.totp /\ v.pending = u.pending
      BY <2>1, <2>2 DEF Account
    <3>2. v.version # u.version
      BY <2>1, <3>1
    <3>3. Succeeds(u, v, Latest + 1)
      BY <2>1, <3>1, <3>2 DEF Succeeds
    <3>4. Asks(c, d, n)
      BY <3>2 DEF Asks
    <3>5. WellFormed(v)
      BY <2>1, <2>2, <3>1 DEF WellFormed, Exists
    <3>6. QED BY <3>1, <3>3, <3>4, <3>5 DEF ActiveAdmin, Exists
  <2>3. CASE ~Bumped(mode, u)
    <3>1. v = u /\ d.mode = mode
      BY <2>3
    <3>2. Asks(c, d, n)
      BY <2>3, <3>1 DEF Asks, SetupRequired, Exists
    <3>3. Succeeds(u, v, Latest + 1)
      BY <2>1, <3>1 DEF Succeeds
    <3>4. QED BY <2>1, <3>1, <3>2, <3>3
  <2>4. QED BY <2>2, <2>3
<1>5. d \in Document
  BY <1>4 DEF Document
<1>6. Good(c, d, Latest + 1)
  BY <1>4, <1>5 DEF Good, ActiveAdmins
<1>7. QED BY <1>1, <1>2, <1>6 DEF Write

\* A created account is a new one.
LEMMA CreateWrites ==
  ASSUME TypeOK, NEW r \in Replicas, Create(r)
  PROVE  \E d : Write(r, d) /\ UNCHANGED redeemed
<1>1. Changes(r)
  BY DEF Create
<1>2. PICK n \in Managed, role \in Roles :
        ~Exists(Read(r).users[n]) /\ PutUser(r, n, NewAccount(role, Latest + 1))
  BY DEF Create
<1> DEFINE u == Read(r).users[n]
           v == NewAccount(role, Latest + 1)
<1>3. /\ n \in Names /\ call[r].state = "put" /\ Latest + 1 \in Nat \ {0}
      /\ u \in Account /\ UNCHANGED <<cache, tick, challenges, sessions, redeemed, requests>>
  BY <1>1, ChangeReads
<1>4. v \in Account /\ WellFormed(v) /\ v.id = Latest + 1 /\ v.codes = {}
  BY <1>3, NewTyped
<1>5. u.id = 0
  BY <1>2 DEF Exists
<1>6. Succeeds(u, v, Latest + 1) /\ ~ActiveAdmin(u)
  BY <1>3, <1>4, <1>5 DEF Succeeds, ActiveAdmin, Exists
<1>7. Write(r, [Read(r) EXCEPT !.users[n] = v])
  BY <1>2, <1>3, <1>4, <1>6, PutUserWrites
<1>8. QED BY <1>3, <1>7

\* The next version of an account is otherwise the same.
LEMMA BumpedTyped ==
  ASSUME NEW u \in Account
  PROVE  LET v == [u EXCEPT !.version = @ + 1] IN
         /\ v \in Account /\ v.id = u.id /\ v.version = u.version + 1 /\ v.version > u.version
         /\ v.role = u.role /\ v.disabled = u.disabled
         /\ v.codes = u.codes /\ v.totp = u.totp /\ v.pending = u.pending
BY DEF Account

\* Setting a password makes the next version of the account.
LEMMA RenewedTyped ==
  ASSUME NEW u \in Account, NEW k \in Nat
  PROVE  LET v == [u EXCEPT !.password = k, !.version = @ + 1] IN
         /\ v \in Account /\ v.id = u.id /\ v.version = u.version + 1
         /\ v.role = u.role /\ v.disabled = u.disabled
         /\ v.codes = u.codes /\ v.totp = u.totp /\ v.pending = u.pending
<1> DEFINE v == [u EXCEPT !.password = k, !.version = @ + 1]
<1>1. v \in Account
  <2>1. [u EXCEPT !.password = k] \in Account
    BY DEF Account
  <2>2. v = [[u EXCEPT !.password = k] EXCEPT !.version = @ + 1]
    BY DEF Account
  <2>3. QED BY <2>1, <2>2, BumpedTyped
<1>2. v.id = u.id /\ v.version = u.version + 1
  BY DEF Account
<1>3. v.role = u.role /\ v.disabled = u.disabled
  BY DEF Account
<1>4. v.codes = u.codes /\ v.totp = u.totp /\ v.pending = u.pending
  BY DEF Account
<1>5. QED BY <1>1, <1>2, <1>3, <1>4

\* Clearing the second factor clears the recovery codes.
LEMMA ClearedTyped ==
  ASSUME NEW u \in Account
  PROVE  /\ clearMFA(u) \in Account /\ clearMFA(u).id = u.id
         /\ clearMFA(u).version = u.version /\ clearMFA(u).role = u.role
         /\ clearMFA(u).disabled = u.disabled /\ clearMFA(u).codes = {}
BY DEF Account, clearMFA

\* An administrator's change of an account; it counts the administrators left.
LEMMA UpdateAdminWrites ==
  ASSUME TypeOK, NEW r \in Replicas, UpdateAdmin(r)
  PROVE  \E d : Write(r, d) /\ UNCHANGED redeemed
<1>1. Changes(r)
  BY DEF UpdateAdmin
<1> DEFINE c == Read(r)
           Changed(u, role, disabled) == [u EXCEPT !.role = role, !.disabled = disabled]
           Renewed(u, password) ==
             IF password THEN [u EXCEPT !.password = Latest + 1, !.version = @ + 1] ELSE u
           Reset(u, resetMFA) == IF resetMFA THEN clearMFA(u) ELSE u
<1>2. PICK n \in Managed, role \in Roles, disabled \in BOOLEAN, password \in BOOLEAN, resetMFA \in BOOLEAN :
        LET u == c.users[n]
            changed == Changed(u, role, disabled)
            reset == Reset(Renewed(changed, password), resetMFA)
        IN /\ Exists(u)
           /\ ActiveAdmin(u) /\ ~ActiveAdmin(changed) =>
                Cardinality(ActiveAdmins([c.users EXCEPT ![n] = changed])) > 1
           /\ PutUser(r, n, [reset EXCEPT !.version = @ + 1])
  BY DEF UpdateAdmin, AdminsStay
<1> DEFINE u == c.users[n]
           changed == Changed(u, role, disabled)
           renewed == Renewed(changed, password)
           reset == Reset(renewed, resetMFA)
           v == [reset EXCEPT !.version = @ + 1]
<1>3. n \in Names /\ Latest + 1 \in Nat /\ u \in Account /\ WellFormed(u) /\ c \in Document
  BY <1>1, ChangeReads, ReadTyped
<1>4. u.version \in Nat /\ u.codes \in SUBSET Code
  BY <1>3 DEF Account
<1>5. /\ changed \in Account /\ changed.id = u.id /\ changed.version = u.version
      /\ changed.role = role /\ changed.disabled = disabled
      /\ changed.codes = u.codes /\ changed.totp = u.totp /\ changed.pending = u.pending
  BY <1>3 DEF Account
<1>6. /\ renewed \in Account /\ renewed.id = u.id /\ renewed.version >= u.version
      /\ renewed.role = role /\ renewed.disabled = disabled
      /\ renewed.codes = u.codes /\ renewed.totp = u.totp /\ renewed.pending = u.pending
  <2> HIDE DEF changed
  <2>1. CASE password
    <3>1. renewed = [changed EXCEPT !.password = Latest + 1, !.version = @ + 1]
      BY <2>1
    <3>2. changed.version \in Nat
      BY <1>4, <1>5
    <3>3. Latest + 1 \in Nat /\ changed \in Account
      BY <1>3, <1>5
    <3>4. /\ renewed \in Account /\ renewed.id = changed.id /\ renewed.version = changed.version + 1
          /\ renewed.role = changed.role /\ renewed.disabled = changed.disabled
          /\ renewed.codes = changed.codes /\ renewed.totp = changed.totp
          /\ renewed.pending = changed.pending
      <4> HIDE DEF renewed
      <4> QED BY <3>1, <3>3, RenewedTyped
    <3>5. QED BY <1>4, <1>5, <3>2, <3>4
  <2>2. CASE ~password
    BY <1>4, <1>5, <2>2
  <2>3. QED BY <2>1, <2>2
<1>7. /\ reset \in Account /\ reset.id = u.id /\ reset.version >= u.version
      /\ reset.role = role /\ reset.disabled = disabled
      /\ reset.codes \subseteq u.codes
      /\ reset.codes # {} => reset.totp # 0 \/ reset.pending # 0
  <2> HIDE DEF renewed
  <2>1. CASE resetMFA
    BY <1>6, <2>1, ClearedTyped
  <2>2. CASE ~resetMFA
    BY <1>3, <1>6, <2>2 DEF WellFormed
  <2>3. QED BY <2>1, <2>2
<1>8. reset.version \in Nat
  BY <1>7 DEF Account
<1>9. /\ v \in Account /\ v.id = u.id /\ v.version = reset.version + 1
      /\ v.role = role /\ v.disabled = disabled /\ v.codes = reset.codes
      /\ v.totp = reset.totp /\ v.pending = reset.pending
  <2> HIDE DEF reset
  <2> QED BY <1>7, BumpedTyped
<1>10. v.version > u.version
  BY <1>4, <1>7, <1>8, <1>9
<1>11. ASSUME ActiveAdmin(u), ~ActiveAdmin(v)
       PROVE  \E m \in Names \ {n} : ActiveAdmin(c.users[m])
  <2> DEFINE left == [c.users EXCEPT ![n] = changed]
  <2>1. ~ActiveAdmin(changed)
    BY <1>5, <1>9, <1>11 DEF ActiveAdmin, Exists
  <2>2. Cardinality(ActiveAdmins(left)) > 1
    BY <1>2, <1>11, <2>1
  <2>3. ActiveAdmins(left) # {}
    BY <2>2, FS_EmptySet
  <2>4. PICK m \in Names : ActiveAdmin(left[m])
    BY <2>3 DEF ActiveAdmins
  <2>5. \A k \in Names : left[k] = IF k = n THEN changed ELSE c.users[k]
    BY <1>3 DEF Document
  <2>6. QED BY <2>1, <2>4, <2>5
<1>12. QED BY <1>1, <1>2, <1>7, <1>9, <1>10, <1>11, BumpWrites, ZenonT(60)

\* A deletion counts the administrators before it.
LEMMA DeleteWrites ==
  ASSUME TypeOK, NEW r \in Replicas, Delete(r)
  PROVE  \E d : Write(r, d) /\ UNCHANGED redeemed
<1>1. Changes(r)
  BY DEF Delete
<1>2. PICK n \in Managed :
        /\ ActiveAdmin(Read(r).users[n]) => Cardinality(ActiveAdmins(Read(r).users)) > 1
        /\ PutUser(r, n, Absent)
  BY DEF Delete
<1> DEFINE users == Read(r).users
<1>3. /\ n \in Names /\ call[r].state = "put" /\ users[n] \in Account
      /\ UNCHANGED <<cache, tick, challenges, sessions, redeemed, requests>>
  BY <1>1, ChangeReads
<1>4. Succeeds(users[n], Absent, Latest + 1) /\ ~ActiveAdmin(Absent)
  BY DEF Succeeds, Absent, ActiveAdmin, Exists
<1>5. ASSUME ActiveAdmin(users[n])
      PROVE  \E m \in Names \ {n} : ActiveAdmin(users[m])
  <2>1. Cardinality(ActiveAdmins(users)) > 1
    BY <1>2, <1>5
  <2>2. ActiveAdmins(users) # {n}
    BY <2>1, FS_Singleton
  <2>3. n \in ActiveAdmins(users)
    BY <1>3, <1>5 DEF ActiveAdmins
  <2>4. QED BY <2>2, <2>3 DEF ActiveAdmins
<1>6. Write(r, [Read(r) EXCEPT !.users[n] = Absent])
  BY <1>2, <1>3, <1>4, <1>5, AbsentTyped, PutUserWrites
<1>7. QED BY <1>3, <1>6

\* A user's new password is the next version of the account.
LEMMA ChangePasswordWrites ==
  ASSUME TypeOK, NEW r \in Replicas, ChangePassword(r)
  PROVE  \E d : Write(r, d) /\ UNCHANGED redeemed
<1>1. Changes(r)
  BY DEF ChangePassword
<1>2. PICK n \in Managed :
        /\ Usable(Read(r).users[n])
        /\ PutUser(r, n, [Read(r).users[n] EXCEPT !.password = Latest + 1, !.version = @ + 1])
  BY DEF ChangePassword
<1> DEFINE u == Read(r).users[n]
           v == [u EXCEPT !.password = Latest + 1, !.version = @ + 1]
<1>3. u \in Account /\ WellFormed(u) /\ Latest + 1 \in Nat /\ u.version \in Nat
  BY <1>1, ChangeReads DEF Account
<1>4. /\ v \in Account /\ v.id = u.id /\ v.version = u.version + 1
      /\ v.role = u.role /\ v.disabled = u.disabled
      /\ v.codes = u.codes /\ v.totp = u.totp /\ v.pending = u.pending
  BY <1>3, RenewedTyped
<1>5. PutUser(r, n, v) /\ Exists(u)
  BY <1>2 DEF Usable
<1> HIDE DEF v
<1>6. v.version > u.version /\ (ActiveAdmin(u) => ActiveAdmin(v))
  BY <1>3, <1>4 DEF ActiveAdmin, Exists
<1>7. v.codes # {} => v.totp # 0 \/ v.pending # 0
  BY <1>3, <1>4 DEF WellFormed
<1>8. QED BY <1>1, <1>4, <1>5, <1>6, <1>7, BumpWrites

\* So is a new address.
LEMMA ChangeEmailWrites ==
  ASSUME TypeOK, NEW r \in Replicas, ChangeEmail(r)
  PROVE  \E d : Write(r, d) /\ UNCHANGED redeemed
<1>1. Changes(r)
  BY DEF ChangeEmail
<1>2. PICK n \in Managed :
        /\ Usable(Read(r).users[n])
        /\ PutUser(r, n, [Read(r).users[n] EXCEPT !.version = @ + 1])
  BY DEF ChangeEmail
<1> DEFINE u == Read(r).users[n]
           v == [u EXCEPT !.version = @ + 1]
<1>3. u \in Account /\ WellFormed(u)
  BY <1>1, ChangeReads
<1>4. /\ v \in Account /\ v.id = u.id /\ v.version > u.version
      /\ v.role = u.role /\ v.disabled = u.disabled
      /\ v.codes = u.codes /\ v.totp = u.totp /\ v.pending = u.pending
  BY <1>3, BumpedTyped
<1>5. PutUser(r, n, v) /\ Exists(u)
  BY <1>2 DEF Usable
<1> HIDE DEF v
<1>6. ActiveAdmin(u) => ActiveAdmin(v)
  BY <1>4 DEF ActiveAdmin, Exists
<1>7. v.codes # {} => v.totp # 0 \/ v.pending # 0
  BY <1>3, <1>4 DEF WellFormed
<1>8. QED BY <1>1, <1>4, <1>5, <1>6, <1>7, BumpWrites

\* An enrolment begins within the same version; its codes carry the revision.
LEMMA BeginWrites ==
  ASSUME TypeOK, NEW r \in Replicas, BeginMFAEnrollment(r)
  PROVE  \E d : Write(r, d) /\ UNCHANGED redeemed
<1>1. Changes(r)
  BY DEF BeginMFAEnrollment
<1> DEFINE fresh == {Latest + 1} \X (1 .. Codes)
<1>2. PICK n \in Managed :
        /\ Usable(Read(r).users[n])
        /\ PutUser(r, n, [Read(r).users[n] EXCEPT !.pending = Latest + 1, !.codes = fresh])
  BY DEF BeginMFAEnrollment
<1> DEFINE u == Read(r).users[n]
           v == [u EXCEPT !.pending = Latest + 1, !.codes = fresh]
<1>3. /\ n \in Names /\ call[r].state = "put" /\ Latest + 1 \in Nat \ {0}
      /\ u \in Account /\ WellFormed(u)
      /\ UNCHANGED <<cache, tick, challenges, sessions, redeemed, requests>>
  <2>1. Latest \in Nat
    BY <1>1, ChangeReads
  <2>2. QED BY <1>1, <2>1, ChangeReads
<1>4. fresh \subseteq Code
  BY <1>3, CodesTyped
<1>5. v \in Account /\ v.codes = fresh /\ v.pending = Latest + 1
  <2> HIDE DEF fresh
  <2> QED BY <1>3, <1>4 DEF Account
<1>6. /\ v.id = u.id /\ v.version = u.version /\ v.role = u.role
      /\ v.disabled = u.disabled /\ v.password = u.password /\ v.totp = u.totp
  BY <1>3 DEF Account
<1>7. PutUser(r, n, v) /\ Exists(u)
  BY <1>2 DEF Usable
<1>8. u.version \in Nat
  BY <1>3 DEF Account
<1> HIDE DEF v
<1>9. WellFormed(v) /\ Succeeds(u, v, Latest + 1) /\ (ActiveAdmin(u) => ActiveAdmin(v))
  BY <1>3, <1>5, <1>6, <1>7, <1>8 DEF WellFormed, Succeeds, ActiveAdmin, Exists
<1>10. Write(r, [Read(r) EXCEPT !.users[n] = v])
  BY <1>3, <1>5, <1>7, <1>9, PutUserWrites
<1>11. QED BY <1>3, <1>10

\* The confirmed secret is the next version of the account.
LEMMA ConfirmWrites ==
  ASSUME TypeOK, NEW r \in Replicas, ConfirmMFAEnrollment(r)
  PROVE  \E d : Write(r, d) /\ UNCHANGED redeemed
<1>1. Changes(r)
  BY DEF ConfirmMFAEnrollment
<1>2. PICK n \in Managed :
        LET u == Read(r).users[n] IN
        /\ u.pending # 0
        /\ PutUser(r, n, [u EXCEPT !.totp = u.pending, !.pending = 0, !.version = @ + 1])
  BY DEF ConfirmMFAEnrollment
<1> DEFINE u == Read(r).users[n]
           w == [u EXCEPT !.totp = u.pending, !.pending = 0]
           v == [u EXCEPT !.totp = u.pending, !.pending = 0, !.version = @ + 1]
<1>3. u \in Account /\ WellFormed(u)
  BY <1>1, ChangeReads
<1>4. u.pending # 0 /\ Exists(u)
  BY <1>2, <1>3 DEF WellFormed, Absent
<1>5. /\ w \in Account /\ w.totp = u.pending /\ w.id = u.id /\ w.version = u.version
      /\ w.role = u.role /\ w.disabled = u.disabled /\ w.codes = u.codes
  BY <1>3 DEF Account
<1>6. v = [w EXCEPT !.version = @ + 1]
  BY <1>3 DEF Account
<1>7. PutUser(r, n, v)
  BY <1>2
<1> HIDE DEF v, w
<1>8. /\ v \in Account /\ v.id = u.id /\ v.version > u.version
      /\ v.role = u.role /\ v.disabled = u.disabled /\ v.codes = u.codes /\ v.totp = u.pending
  BY <1>5, <1>6, BumpedTyped
<1>9. ActiveAdmin(u) => ActiveAdmin(v)
  BY <1>8 DEF ActiveAdmin, Exists
<1>10. QED BY <1>1, <1>4, <1>7, <1>8, <1>9, BumpWrites

\* So is an account without its second factor.
LEMMA DisableWrites ==
  ASSUME TypeOK, NEW r \in Replicas, DisableMFA(r)
  PROVE  \E d : Write(r, d) /\ UNCHANGED redeemed
<1>1. Changes(r)
  BY DEF DisableMFA
<1>2. PICK n \in Managed :
        /\ Read(r).users[n].totp # 0
        /\ PutUser(r, n, [clearMFA(Read(r).users[n]) EXCEPT !.version = @ + 1])
  BY DEF DisableMFA
<1> DEFINE u == Read(r).users[n]
           w == clearMFA(u)
           v == [w EXCEPT !.version = @ + 1]
<1>3. u \in Account /\ WellFormed(u)
  BY <1>1, ChangeReads
<1>4. Exists(u)
  BY <1>2, <1>3 DEF WellFormed, Absent
<1>5. /\ w \in Account /\ w.id = u.id /\ w.version = u.version
      /\ w.role = u.role /\ w.disabled = u.disabled /\ w.codes = {}
  BY <1>3, ClearedTyped
<1>6. PutUser(r, n, v)
  BY <1>2
<1> HIDE DEF w
<1>7. /\ v \in Account /\ v.id = u.id /\ v.version > u.version
      /\ v.role = u.role /\ v.disabled = u.disabled /\ v.codes = {}
  BY <1>5, BumpedTyped
<1> HIDE DEF v
<1>8. ActiveAdmin(u) => ActiveAdmin(v)
  BY <1>7 DEF ActiveAdmin, Exists
<1>9. QED BY <1>1, <1>4, <1>6, <1>7, <1>8, BumpWrites

---------------------------------------------------------------------------
(* Types *)

\* The steps that store a document and redeem no code.
Stores(r) ==
  \/ Seed(r) \/ RecordAuthentication(r) \/ UpdatePolicy(r) \/ Create(r) \/ UpdateAdmin(r)
  \/ Delete(r) \/ ChangePassword(r) \/ ChangeEmail(r)
  \/ BeginMFAEnrollment(r) \/ ConfirmMFAEnrollment(r) \/ DisableMFA(r)

LEMMA StoreWrites ==
  ASSUME TypeOK, NEW r \in Replicas, Stores(r)
  PROVE  \E d : Write(r, d) /\ UNCHANGED redeemed
BY SeedWrites, RecordWrites, UpdatePolicyWrites, CreateWrites, UpdateAdminWrites, DeleteWrites,
   ChangePasswordWrites, ChangeEmailWrites, BeginWrites, ConfirmWrites, DisableWrites DEF Stores

\* The documents after a Write: the one that was read, and no other, was present.
LEMMA WriteAppends ==
  ASSUME TypeOK, NEW r \in Replicas, NEW d, Write(r, d)
  PROVE  /\ documents' \in Seq(Document) /\ Latest' = Latest + 1 /\ Latest \in Nat \ {0}
         /\ documents'[Latest + 1] = d
         /\ \A i \in 1 .. Latest : documents'[i] = documents[i]
         /\ Read(r) = documents[Latest]
<1>1. d \in Document /\ documents' = Append(documents, d) /\ call[r].rev = Latest
  BY DEF Write, Good, Put
<1>2. documents \in Seq(Document) /\ documents # <<>>
  BY DEF TypeOK
<1>3. QED BY <1>1, <1>2 DEF Latest, Read

\* A call that has stored a document is otherwise the same.
LEMMA CallStored ==
  ASSUME NEW c \in Calls, NEW k \in Nat
  PROVE  LET e == [c EXCEPT !.state = "apply", !.rev = k] IN
         /\ e \in Calls /\ e.state = "apply" /\ e.rev = k
         /\ e.op = c.op /\ e.name = c.name /\ e.local = c.local
BY DEF Calls

\* Types when a call stores a document.
LEMMA WriteTyped ==
  ASSUME TypeOK, NEW r \in Replicas, NEW d, Write(r, d),
         redeemed' \subseteq [name : Names, code : Code, rev : 1 .. Latest + 1]
  PROVE  TypeOK'
<1>1. /\ documents' \in Seq(Document) /\ Latest' = Latest + 1 /\ Latest \in Nat \ {0}
      /\ documents'[Latest + 1] = d /\ \A i \in 1 .. Latest : documents'[i] = documents[i]
  BY WriteAppends
<1>2. DOMAIN documents' = 1 .. Latest + 1 /\ DOMAIN documents = 1 .. Latest
  BY <1>1 DEF Latest, TypeOK
<1>3. \A n \in Names : WellFormed(d.users[n])
  BY DEF Write, Good
<1>4. \A i \in 1 .. Latest + 1, n \in Names : WellFormed(documents'[i].users[n])
  <2> SUFFICES ASSUME NEW i \in 1 .. Latest + 1, NEW n \in Names
               PROVE  WellFormed(documents'[i].users[n])
    OBVIOUS
  <2>1. CASE i \in 1 .. Latest
    BY <1>1, <1>2, <2>1 DEF TypeOK
  <2>2. CASE i = Latest + 1
    BY <1>1, <1>3, <2>2
  <2>3. QED BY <1>1, <2>1, <2>2
<1>5. UNCHANGED <<cache, tick, challenges, sessions, requests>>
  BY DEF Write
<1>6. /\ call[r].state = "put"
      /\ call' = [call EXCEPT ![r].state = "apply", ![r].rev = Latest + 1]
  BY DEF Write, Put
<1>7. /\ call' \in [Replicas -> Calls]
      /\ call'[r].state = "apply" /\ call'[r].rev = Latest + 1
      /\ call'[r].op = call[r].op /\ call'[r].name = call[r].name /\ call'[r].local = call[r].local
      /\ \A s \in Replicas \ {r} : call'[s] = call[s]
  <2> DEFINE c == [call[r] EXCEPT !.state = "apply", !.rev = Latest + 1]
  <2>1. call \in [Replicas -> Calls] /\ call[r] \in Calls
    BY DEF TypeOK
  <2>2. /\ c \in Calls /\ c.state = "apply" /\ c.rev = Latest + 1
        /\ c.op = call[r].op /\ c.name = call[r].name /\ c.local = call[r].local
    <3>1. Latest + 1 \in Nat
      BY <1>1
    <3>2. QED BY <2>1, <3>1, CallStored
  <2>3. call' = [call EXCEPT ![r] = c]
    BY <1>6, <2>1
  <2> HIDE DEF c
  <2>4. QED BY <2>1, <2>2, <2>3
<1>8. cache' \in [Replicas -> 0 .. Latest'] /\ tick' \in [Replicas -> 0 .. Latest']
  BY <1>1, <1>5 DEF TypeOK
<1>9. ASSUME NEW s \in Replicas, call'[s].state # "idle"
      PROVE  /\ call'[s].rev \in 1 .. Latest'
             /\ call'[s].op \in {"login", "verify", "code"} => call'[s].name \in Names
             /\ call'[s].op = "code" => call'[s].local \in 1 .. Latest'
             /\ call'[s].state = "read" => Serving(s)'
  <2>1. CASE s = r
    BY <1>1, <1>6, <1>7, <2>1 DEF TypeOK
  <2>2. CASE s # r
    BY <1>1, <1>5, <1>7, <1>9, <2>2 DEF TypeOK, Serving
  <2>3. QED BY <2>1, <2>2
<1>10. sessions' \subseteq [user : User, rev : 1 .. Latest']
  BY <1>1, <1>5 DEF TypeOK
<1>11. documents' # <<>> /\ challenges' \subseteq Names /\ requests' \in Nat
  BY <1>1, <1>2, <1>5 DEF TypeOK
<1>12. QED BY <1>1, <1>2, <1>4, <1>7, <1>8, <1>9, <1>10, <1>11 DEF TypeOK

\* The type of a call under way.
CallOK(r) ==
  /\ call[r] \in Calls
  /\ call[r].state # "idle" =>
       /\ call[r].rev \in 1 .. Latest
       /\ call[r].op \in {"login", "verify", "code"} => call[r].name \in Names
       /\ call[r].op = "code" => call[r].local \in 1 .. Latest
       /\ call[r].state = "read" => Serving(r)

\* Types when no document is stored and only the call and the copies of one
\* replica, and perhaps challenges and sessions, change.
LEMMA LocalTyped ==
  ASSUME TypeOK, NEW r \in Replicas, UNCHANGED <<documents, redeemed>>,
         call' = [call EXCEPT ![r] = call'[r]], CallOK(r)',
         cache' = [cache EXCEPT ![r] = cache'[r]], cache'[r] \in 0 .. Latest,
         tick' = [tick EXCEPT ![r] = tick'[r]], tick'[r] \in 0 .. Latest,
         challenges' \subseteq Names, sessions' \subseteq [user : User, rev : 1 .. Latest],
         requests' \in Nat
  PROVE  TypeOK'
<1>1. Latest' = Latest
  BY DEF Latest
<1>2. \A s \in Replicas \ {r} : call'[s] = call[s] /\ cache'[s] = cache[s]
  BY DEF TypeOK
<1>3. call' \in [Replicas -> Calls]
  BY DEF TypeOK, CallOK
<1>4. cache' \in [Replicas -> 0 .. Latest'] /\ tick' \in [Replicas -> 0 .. Latest']
  BY <1>1 DEF TypeOK
<1>5. ASSUME NEW s \in Replicas, call'[s].state # "idle"
      PROVE  /\ call'[s].rev \in 1 .. Latest'
             /\ call'[s].op \in {"login", "verify", "code"} => call'[s].name \in Names
             /\ call'[s].op = "code" => call'[s].local \in 1 .. Latest'
             /\ call'[s].state = "read" => Serving(s)'
  <2>1. CASE s = r
    BY <1>5, <2>1 DEF CallOK
  <2>2. CASE s # r
    BY <1>1, <1>2, <1>5, <2>2 DEF TypeOK, Serving
  <2>3. QED BY <2>1, <2>2
<1>6. QED BY <1>1, <1>3, <1>4, <1>5 DEF TypeOK

\* The present revision exists.
LEMMA LatestTyped ==
  ASSUME TypeOK
  PROVE  Latest \in Nat \ {0} /\ Latest \in 1 .. Latest /\ Latest \in 0 .. Latest
<1>1. Latest \in Nat \ {0}
  BY DEF TypeOK, Latest
<1>2. QED BY <1>1

\* The calls a step may leave.
LEMMA IdleTyped == Idle \in Calls /\ Idle.state = "idle"
BY DEF Calls, Idle

LEMMA LoadingTyped ==
  ASSUME TypeOK, NEW n \in Names, NEW op \in {"login", "verify"}
  PROVE  LET c == Loading(op, n) IN
         /\ c \in Calls /\ c.rev = Latest /\ c.state = "loaded" /\ c.op = op /\ c.name = n
BY LatestTyped DEF Calls, Loading

LEMMA UpdatingTyped ==
  ASSUME TypeOK, NEW n \in Names \cup {None}, NEW local \in Nat,
         NEW op \in {"seed", "code", "record", "change"}
  PROVE  LET c == Updating(op, n, local) IN
         /\ c \in Calls /\ c.rev = Latest /\ c.state = "put" /\ c.op = op /\ c.name = n
         /\ c.local = local
BY LatestTyped DEF Calls, Updating

\* Both kinds of change of a call that is under way keep its type.
LEMMA CallMoved ==
  ASSUME NEW c \in Calls, NEW k \in Nat
  PROVE  /\ LET e == [c EXCEPT !.state = "read"] IN
              /\ e \in Calls /\ e.state = "read" /\ e.rev = c.rev
              /\ e.op = c.op /\ e.name = c.name /\ e.local = c.local
         /\ LET e == [c EXCEPT !.rev = k] IN
              /\ e \in Calls /\ e.state = c.state /\ e.rev = k
              /\ e.op = c.op /\ e.name = c.name /\ e.local = c.local
BY DEF Calls

\* A session made from a stored revision is well typed.
LEMMA SessionTyped ==
  ASSUME TypeOK, NEW n \in Names, NEW i \in 1 .. Latest
  PROVE  [user |-> SessionUser(documents[i], n), rev |-> i] \in [user : User, rev : 1 .. Latest]
<1>1. documents[i].users[n] \in Account
  BY RevisionTyped
<1>2. SetupRequired(documents[i], n) \in BOOLEAN
  BY DEF SetupRequired, RequiresMFA
<1>3. SessionUser(documents[i], n) \in User
  BY <1>1, <1>2 DEF SessionUser, User, Account
<1>4. QED BY <1>3

\* Initially.
LEMMA InitTyped == Init => TypeOK
<1> SUFFICES ASSUME Init PROVE TypeOK
  OBVIOUS
<1>1. PICK users \in InitialAccounts :
        /\ documents = <<[mode |-> "optional", users |-> users]>>
        /\ cache = [r \in Replicas |-> users[Bootstrap].id]
  BY DEF Init
<1>2. ASSUME NEW role \in Roles PROVE Enrolled(role) \in Account /\ WellFormed(Enrolled(role))
  <2>1. NewAccount(role, 1) \in Account /\ NewAccount(role, 1).id = 1
    BY NewTyped
  <2>2. NewAccount(role, 1).version = 1
    BY DEF NewAccount, Absent
  <2>3. {1} \X (1 .. Codes) \subseteq Code
    BY CodesTyped
  <2> DEFINE u == NewAccount(role, 1)
             codes == {1} \X (1 .. Codes)
  <2> HIDE DEF u, codes
  <2>4. Enrolled(role) = [u EXCEPT !.totp = 1, !.codes = codes]
    BY DEF Enrolled, u, codes
  <2>5. /\ Enrolled(role) \in Account /\ Enrolled(role).id = 1
        /\ Enrolled(role).totp = 1 /\ Enrolled(role).version = 1
    BY <2>1, <2>2, <2>3, <2>4 DEF Account, u, codes
  <2>6. QED BY <2>5 DEF WellFormed, Exists
<1>3. /\ NewAccount("admin", 1) \in Account /\ WellFormed(NewAccount("admin", 1))
      /\ NewAccount("admin", 1).id = 1
  BY NewTyped DEF Roles
<1>4. /\ users \in [Names -> Account] /\ \A n \in Names : WellFormed(users[n])
      /\ users[Bootstrap].id \in {0, 1}
  <2>1. CASE users = [n \in Names |-> Absent]
    BY <2>1, AbsentTyped, UserStoreAssumption DEF Exists
  <2>2. ASSUME NEW role \in Roles,
               users = [n \in Names |-> IF n = Bootstrap THEN NewAccount("admin", 1) ELSE Enrolled(role)]
        PROVE  /\ users \in [Names -> Account] /\ \A n \in Names : WellFormed(users[n])
               /\ users[Bootstrap].id \in {0, 1}
    <3>1. \A n \in Names : users[n] \in Account /\ WellFormed(users[n])
      BY <1>2, <1>3, <2>2
    <3>2. users[Bootstrap].id = 1
      BY <1>3, <2>2, UserStoreAssumption
    <3>3. QED BY <2>2, <3>1, <3>2
  <2>3. QED BY <2>1, <2>2 DEF InitialAccounts
<1>5. /\ documents \in Seq(Document) /\ Len(documents) = 1 /\ documents[1].users = users
      /\ documents # <<>>
  <2>1. [mode |-> "optional", users |-> users] \in Document
    BY <1>4, UserStoreAssumption DEF Document
  <2> DEFINE d == [mode |-> "optional", users |-> users]
  <2>2. d \in Document /\ d.users = users /\ documents = <<d>>
    BY <1>1, <2>1
  <2> HIDE DEF d
  <2>3. QED BY <2>2
<1>6. DOMAIN documents = {1} /\ Latest = 1
  <2>1. DOMAIN documents = 1 .. 1
    BY <1>5
  <2>2. QED BY <1>5, <2>1 DEF Latest
<1>7. Idle \in Calls /\ Idle.state = "idle"
  BY DEF Idle, Calls
<1>8. call \in [Replicas -> Calls] /\ \A r \in Replicas : call[r] = Idle
  BY <1>7 DEF Init
<1>9. cache \in [Replicas -> 0 .. Latest] /\ tick \in [Replicas -> 0 .. Latest]
  BY <1>1, <1>4, <1>6 DEF Init
<1>10. challenges \subseteq Names /\ sessions \subseteq [user : User, rev : 1 .. Latest]
  <2>1. ASSUME NEW n \in Names
        PROVE  [user |-> SessionUser(documents[1], n), rev |-> 1] \in [user : User, rev : 1 .. Latest]
    <3>1. documents[1].users[n] \in Account
      BY <1>4, <1>5
    <3>2. SessionUser(documents[1], n) \in User
      BY <3>1 DEF SessionUser, User, Account, SetupRequired, RequiresMFA
    <3>3. QED BY <1>6, <3>2
  <2>2. challenges \subseteq Names
    BY DEF Init
  <2>3. \A s \in sessions : \E n \in Names : s = [user |-> SessionUser(documents[1], n), rev |-> 1]
    BY DEF Init
  <2>4. QED BY <2>1, <2>2, <2>3
<1>11. QED BY <1>4, <1>5, <1>6, <1>7, <1>8, <1>9, <1>10 DEF Init, TypeOK

\* The steps of a replica that store no document.
Works(r) ==
  \/ Restart(r) \/ ConfigurePersistence(r) \/ TickLoad(r) \/ TickApply(r)
  \/ Refreshed(r) \/ Conflict(r) \/ Applied(r) \/ Fails(r)
  \/ Authenticate(r) \/ TOTPVerified(r) \/ TryRecovery(r) \/ Recovered(r) \/ Change(r)
  \/ \E n \in Managed : Login(r, n) \/ VerifyMFA(r, n)

\* A session is made, and the call goes on to record the sign-in.
LEMMA IssueTyped ==
  ASSUME TypeOK, NEW r \in Replicas, NEW n \in Names, NEW rev \in 1 .. Latest,
         IssueSession(r, n, rev), UNCHANGED <<documents, redeemed, tick, challenges, requests>>,
         cache' = [cache EXCEPT ![r] = cache'[r]], cache'[r] \in 0 .. Latest
  PROVE  TypeOK'
<1> DEFINE c == Updating("record", None, 0)
<1>1. sessions' \subseteq [user : User, rev : 1 .. Latest]
  BY SessionTyped DEF IssueSession, TypeOK
<1>2. call' = [call EXCEPT ![r] = c] /\ Latest' = Latest
  BY DEF IssueSession, Latest
<1>3. /\ call \in [Replicas -> Calls] /\ tick \in [Replicas -> 0 .. Latest]
      /\ challenges \subseteq Names /\ requests \in Nat
  BY DEF TypeOK
<1>4. c \in Calls /\ c.rev = Latest /\ c.state = "put" /\ c.op = "record" /\ Latest \in 1 .. Latest
  BY UpdatingTyped, LatestTyped
<1> HIDE DEF c
<1>5. call'[r] = c /\ call' = [call EXCEPT ![r] = call'[r]]
  BY <1>2, <1>3
<1>6. CallOK(r)'
  BY <1>2, <1>4, <1>5 DEF CallOK
<1>7. tick' = [tick EXCEPT ![r] = tick'[r]] /\ tick'[r] \in 0 .. Latest
  BY <1>3
<1>8. challenges' \subseteq Names /\ requests' \in Nat
  BY <1>3
<1>9. QED BY <1>1, <1>5, <1>6, <1>7, <1>8, LocalTyped

\* Types when a replica works without storing a document.
LEMMA WorkTyped ==
  ASSUME TypeOK, NEW r \in Replicas, Works(r)
  PROVE  TypeOK'
<1>1. /\ cache \in [Replicas -> 0 .. Latest] /\ tick \in [Replicas -> 0 .. Latest]
      /\ call \in [Replicas -> Calls] /\ CallOK(r) /\ requests + 1 \in Nat
      /\ Latest \in Nat \ {0} /\ Latest \in 1 .. Latest /\ Latest \in 0 .. Latest
      /\ challenges \subseteq Names /\ sessions \subseteq [user : User, rev : 1 .. Latest]
      /\ requests \in Nat
  BY LatestTyped, SMTT(40) DEF TypeOK, CallOK
<1>2. Idle \in Calls /\ Idle.state = "idle"
  BY IdleTyped
<1>3. /\ call = [call EXCEPT ![r] = call[r]] /\ cache = [cache EXCEPT ![r] = cache[r]]
      /\ tick = [tick EXCEPT ![r] = tick[r]] /\ cache[r] \in 0 .. Latest /\ tick[r] \in 0 .. Latest
  BY <1>1
<1>4. UNCHANGED documents => Latest' = Latest
  BY DEF Latest
<1>5. ASSUME Restart(r) PROVE TypeOK'
  <2>1. call'[r] = Idle /\ cache'[r] = 0 /\ tick'[r] = 0
    BY <1>1, <1>5 DEF Restart
  <2>2. CallOK(r)'
    BY <1>2, <2>1 DEF CallOK
  <2>3. /\ call' = [call EXCEPT ![r] = call'[r]] /\ cache' = [cache EXCEPT ![r] = cache'[r]]
        /\ tick' = [tick EXCEPT ![r] = tick'[r]] /\ cache'[r] \in 0 .. Latest /\ tick'[r] \in 0 .. Latest
    BY <1>1, <1>5, <2>1 DEF Restart
  <2>4. /\ UNCHANGED <<documents, redeemed>> /\ challenges' \subseteq Names
        /\ sessions' \subseteq [user : User, rev : 1 .. Latest] /\ requests' \in Nat
    BY <1>1, <1>5 DEF Restart
  <2>5. QED BY <2>2, <2>3, <2>4, LocalTyped
<1>6. ASSUME ConfigurePersistence(r) PROVE TypeOK'
  <2>1. call'[r] = Updating("seed", None, 0) /\ UNCHANGED documents
    BY <1>1, <1>6 DEF ConfigurePersistence
  <2>2. CallOK(r)'
    <3> DEFINE c == Updating("seed", None, 0)
    <3>1. c \in Calls /\ c.rev = Latest /\ c.state = "put" /\ c.op = "seed" /\ call'[r] = c
      BY <2>1, UpdatingTyped
    <3> HIDE DEF c
    <3>2. QED BY <1>1, <1>4, <2>1, <3>1 DEF CallOK
  <2>3. QED BY <1>1, <1>3, <1>6, <2>1, <2>2, LocalTyped DEF ConfigurePersistence
<1>7. ASSUME TickLoad(r) PROVE TypeOK'
  <2>1. tick'[r] = Latest /\ CallOK(r)'
    BY <1>1, <1>4, <1>7 DEF TickLoad, CallOK, Serving
  <2>2. QED BY <1>1, <1>3, <1>7, <2>1, LocalTyped DEF TickLoad
<1>8. ASSUME TickApply(r) PROVE TypeOK'
  <2>1. tick'[r] = 0 /\ cache'[r] = tick[r] /\ CallOK(r)'
    BY <1>1, <1>4, <1>8 DEF TickApply, CallOK, Serving
  <2>2. /\ call' = [call EXCEPT ![r] = call'[r]] /\ cache' = [cache EXCEPT ![r] = cache'[r]]
        /\ tick' = [tick EXCEPT ![r] = tick'[r]] /\ cache'[r] \in 0 .. Latest /\ tick'[r] \in 0 .. Latest
    BY <1>1, <1>3, <1>8, <2>1 DEF TickApply
  <2>3. /\ UNCHANGED <<documents, redeemed>> /\ challenges' \subseteq Names
        /\ sessions' \subseteq [user : User, rev : 1 .. Latest] /\ requests' \in Nat
    BY <1>1, <1>8 DEF TickApply
  <2>4. QED BY <2>1, <2>2, <2>3, LocalTyped
<1>9. ASSUME Refreshed(r) PROVE TypeOK'
  <2> DEFINE e == [call[r] EXCEPT !.state = "read"]
  <2>1. call[r].state # "idle" /\ call[r].rev \in 1 .. Latest
    BY <1>1, <1>9 DEF Refreshed, CallOK
  <2>2. call' = [call EXCEPT ![r] = e] /\ call'[r] = e /\ cache'[r] = call[r].rev
    BY <1>1, <1>9 DEF Refreshed
  <2>3. /\ e \in Calls /\ e.rev = call[r].rev
        /\ e.op = call[r].op /\ e.name = call[r].name /\ e.local = call[r].local
    <3>1. call[r] \in Calls /\ 0 \in Nat
      BY <1>1
    <3>2. QED BY <3>1, CallMoved
  <2>4. Latest' = Latest
    BY <1>4, <1>9 DEF Refreshed
  <2> HIDE DEF e
  <2>5. CallOK(r)'
    BY <1>1, <2>1, <2>2, <2>3, <2>4 DEF CallOK, Serving
  <2>6. /\ call' = [call EXCEPT ![r] = call'[r]] /\ cache' = [cache EXCEPT ![r] = cache'[r]]
        /\ tick' = [tick EXCEPT ![r] = tick'[r]] /\ cache'[r] \in 0 .. Latest /\ tick'[r] \in 0 .. Latest
    BY <1>1, <1>3, <1>9, <2>1, <2>2 DEF Refreshed
  <2>7. /\ UNCHANGED <<documents, redeemed>> /\ challenges' \subseteq Names
        /\ sessions' \subseteq [user : User, rev : 1 .. Latest] /\ requests' \in Nat
    BY <1>1, <1>9 DEF Refreshed
  <2>8. QED BY <2>5, <2>6, <2>7, LocalTyped
<1>10. ASSUME Conflict(r) PROVE TypeOK'
  <2> DEFINE e == [call[r] EXCEPT !.rev = Latest]
  <2>1. call' = [call EXCEPT ![r] = e] /\ call'[r] = e /\ Latest' = Latest /\ UNCHANGED cache
    BY <1>1, <1>4, <1>10 DEF Conflict
  <2>2. /\ e \in Calls /\ e.rev = Latest /\ e.state = call[r].state
        /\ e.op = call[r].op /\ e.name = call[r].name /\ e.local = call[r].local
    <3>1. call[r] \in Calls /\ Latest \in Nat
      BY <1>1
    <3>2. QED BY <3>1, CallMoved
  <2> HIDE DEF e
  <2>3. CallOK(r)'
    BY <1>1, <2>1, <2>2 DEF CallOK, Serving
  <2>4. call' = [call EXCEPT ![r] = call'[r]]
    BY <2>1
  <2>5. QED BY <1>1, <1>3, <1>10, <2>3, <2>4, LocalTyped DEF Conflict
<1>11. ASSUME Applied(r) \/ Fails(r) PROVE TypeOK'
  <2>1. /\ call'[r] = Idle /\ cache'[r] \in 0 .. Latest /\ call' = [call EXCEPT ![r] = call'[r]]
        /\ cache' = [cache EXCEPT ![r] = cache'[r]]
    BY <1>1, <1>3, <1>11 DEF Applied, Fails, CallOK
  <2>2. CallOK(r)'
    BY <1>2, <2>1 DEF CallOK
  <2>3. QED BY <1>1, <1>3, <1>11, <2>1, <2>2, LocalTyped DEF Applied, Fails
<1>12. ASSUME Authenticate(r) PROVE TypeOK'
  <2>1. call[r].name \in Names /\ cache[r] \in 1 .. Latest
    BY <1>1, <1>12 DEF Authenticate, At, CallOK, Serving
  <2>2. CASE IssueSession(r, call[r].name, cache[r]) /\ UNCHANGED challenges
    BY <1>3, <1>12, <2>1, <2>2, IssueTyped DEF Authenticate
  <2>3. CASE /\ challenges' = challenges \cup {call[r].name}
             /\ call' = [call EXCEPT ![r] = Idle] /\ UNCHANGED sessions
    <3>1. call'[r] = Idle /\ challenges' \subseteq Names
      BY <1>1, <2>1, <2>3 DEF TypeOK
    <3>2. CallOK(r)'
      BY <1>2, <3>1 DEF CallOK
    <3>3. QED BY <1>1, <1>3, <1>12, <2>3, <3>1, <3>2, LocalTyped DEF Authenticate
  <2>4. QED BY <1>12, <2>2, <2>3 DEF Authenticate
<1>13. ASSUME TOTPVerified(r) PROVE TypeOK'
  <2>1. call[r].name \in Names /\ cache[r] \in 1 .. Latest
    BY <1>1, <1>13 DEF TOTPVerified, At, CallOK, Serving
  <2>2. QED BY <1>3, <1>13, <2>1, IssueTyped DEF TOTPVerified
<1>14. ASSUME TryRecovery(r) PROVE TypeOK'
  <2>1. call[r].name \in Names /\ cache[r] \in 1 .. Latest
    BY <1>1, <1>14 DEF TryRecovery, At, CallOK, Serving
  <2>2. call'[r] = Updating("code", call[r].name, cache[r]) /\ Latest' = Latest
    BY <1>1, <1>4, <1>14 DEF TryRecovery
  <2>3. CallOK(r)'
    <3> DEFINE c == Updating("code", call[r].name, cache[r])
    <3>1. /\ c \in Calls /\ c.rev = Latest /\ c.state = "put" /\ c.op = "code" /\ call'[r] = c
          /\ c.name = call[r].name /\ c.local = cache[r]
      BY <2>1, <2>2, UpdatingTyped
    <3> HIDE DEF c
    <3>2. QED BY <1>1, <2>1, <2>2, <3>1 DEF CallOK
  <2>4. QED BY <1>1, <1>3, <1>14, <2>2, <2>3, LocalTyped DEF TryRecovery
<1>15. ASSUME Recovered(r) PROVE TypeOK'
  <2>1. call[r].name \in Names /\ call[r].local \in 1 .. Latest /\ call[r].rev \in 1 .. Latest
    BY <1>1, <1>15 DEF Recovered, At, CallOK
  <2>2. cache'[r] = call[r].rev /\ cache' = [cache EXCEPT ![r] = cache'[r]]
    BY <1>1, <1>15 DEF Recovered
  <2>3. /\ IssueSession(r, call[r].name, call[r].local)
        /\ UNCHANGED <<documents, redeemed, tick, challenges, requests>>
    BY <1>15 DEF Recovered
  <2>4. cache'[r] \in 0 .. Latest
    BY <1>1, <2>1, <2>2
  <2>5. QED BY <2>1, <2>2, <2>3, <2>4, IssueTyped
<1>16. ASSUME NEW c \in Calls, Requests(r, c), c.rev = Latest, c.state \in {"loaded", "put"},
              c.op \in {"login", "verify"} => c.name \in Names, c.op # "code"
       PROVE  TypeOK'
  <2>1. call'[r] = c /\ Latest' = Latest
    BY <1>1, <1>4, <1>16 DEF Requests
  <2>2. CallOK(r)'
    BY <1>1, <1>16, <2>1 DEF CallOK
  <2>3. QED BY <1>1, <1>3, <1>16, <2>1, <2>2, LocalTyped DEF Requests
<1>17. ASSUME Change(r) PROVE TypeOK'
  <2> DEFINE c == Updating("change", None, 0)
  <2>1. c \in Calls /\ c.rev = Latest /\ c.state = "put" /\ c.op = "change"
    BY UpdatingTyped
  <2>2. QED BY <1>16, <1>17, <2>1 DEF Change
<1>18. ASSUME NEW n \in Managed, NEW op \in {"login", "verify"}, Requests(r, Loading(op, n))
       PROVE  TypeOK'
  <2>1. n \in Names /\ n # None
    BY UserStoreAssumption
  <2>2. /\ Loading(op, n) \in Calls /\ Loading(op, n).rev = Latest
        /\ Loading(op, n).state = "loaded" /\ Loading(op, n).op = op /\ Loading(op, n).name = n
    BY <2>1, LoadingTyped
  <2>3. QED BY <1>16, <1>18, <2>1, <2>2
<1>19. ASSUME NEW n \in Managed, Login(r, n) \/ VerifyMFA(r, n) PROVE TypeOK'
  BY <1>18, <1>19 DEF Login, VerifyMFA
<1>20. QED BY <1>5, <1>6, <1>7, <1>8, <1>9, <1>10, <1>11, <1>12, <1>13, <1>14, <1>15, <1>17, <1>19
           DEF Works

\* Types when a recovery code is redeemed.
LEMMA RedeemTyped ==
  ASSUME TypeOK, NEW r \in Replicas, Redeem(r)
  PROVE  TypeOK'
<1> DEFINE n == call[r].name
<1>1. PICK d : /\ Write(r, d) /\ n \in Names
               /\ \E code \in Read(r).users[n].codes :
                    redeemed' = redeemed \cup {[name |-> n, code |-> code, rev |-> Latest + 1]}
  BY RedeemWrites
<1>2. PICK code \in Read(r).users[n].codes :
        redeemed' = redeemed \cup {[name |-> n, code |-> code, rev |-> Latest + 1]}
  BY <1>1
<1>3. Read(r).users[n] \in Account /\ Latest \in Nat \ {0}
  BY <1>1, ReadTyped DEF Write
<1>4. code \in Code /\ Latest + 1 \in 1 .. Latest + 1
  BY <1>3 DEF Account
<1>5. redeemed \subseteq [name : Names, code : Code, rev : 1 .. Latest + 1]
  BY <1>3 DEF TypeOK
<1>6. redeemed' \subseteq [name : Names, code : Code, rev : 1 .. Latest + 1]
  BY <1>1, <1>2, <1>4, <1>5
<1>7. QED BY <1>1, <1>6, WriteTyped

\* Types when another document is stored.
LEMMA StoreTyped ==
  ASSUME TypeOK, NEW r \in Replicas, Stores(r)
  PROVE  TypeOK'
<1>1. PICK d : Write(r, d) /\ UNCHANGED redeemed
  BY StoreWrites
<1>2. Latest \in Nat \ {0}
  BY LatestTyped
<1>3. redeemed' \subseteq [name : Names, code : Code, rev : 1 .. Latest + 1]
  BY <1>1, <1>2 DEF TypeOK
<1>4. QED BY <1>1, <1>3, WriteTyped

\* What no replica does: a challenge or a session ends.
Ends == (\E n \in Names : ChallengeExpires(n)) \/ (\E s \in sessions : SessionEnds(s))

\* Every step works, stores, redeems or ends something.
LEMMA NextCases ==
  ASSUME Next
  PROVE  (\E r \in Replicas : Works(r) \/ Stores(r) \/ Redeem(r)) \/ Ends
BY DEF Next, Works, Stores, Ends

\* Types when a challenge or a session ends, or nothing happens.
LEMMA EndsTyped == TypeOK /\ (Ends \/ UNCHANGED vars) => TypeOK'
<1> SUFFICES ASSUME TypeOK, Ends \/ UNCHANGED vars PROVE TypeOK'
  OBVIOUS
<1>1. /\ UNCHANGED <<documents, cache, tick, call, redeemed, requests>>
      /\ challenges' \subseteq challenges /\ sessions' \subseteq sessions
  BY DEF Ends, ChallengeExpires, SessionEnds, vars
<1>2. Latest' = Latest /\ \A r \in Replicas : Serving(r)' <=> Serving(r)
  BY <1>1 DEF Latest, Serving
<1>3. QED BY <1>1, <1>2 DEF TypeOK

\* Documents, copies, calls and sessions are well typed in every reachable
\* state, for every set of replicas and names: what no account is has no
\* contents, no recovery code outlives its enrolment, and every copy refers to
\* a revision that was stored.
THEOREM TypeCorrect == Spec => []TypeOK
<1>1. ASSUME TypeOK, Next PROVE TypeOK'
  <2>1. ASSUME NEW r \in Replicas, Works(r) PROVE TypeOK'
    BY <1>1, <2>1, WorkTyped
  <2>2. ASSUME NEW r \in Replicas, Stores(r) PROVE TypeOK'
    BY <1>1, <2>2, StoreTyped
  <2>3. ASSUME NEW r \in Replicas, Redeem(r) PROVE TypeOK'
    BY <1>1, <2>3, RedeemTyped
  <2>4. QED BY <1>1, <2>1, <2>2, <2>3, NextCases, EndsTyped
<1>2. TypeOK /\ UNCHANGED vars => TypeOK'
  BY EndsTyped
<1>3. QED BY <1>1, <1>2, InitTyped, PTL DEF Spec

---------------------------------------------------------------------------
(* Revisions: between any two of them an account changes what it takes to     *)
(* sign in only with its version or its identity.                             *)

Agree(i, j, n) ==
  LET u == documents[i].users[n]
      v == documents[j].users[n] IN
  u.id # 0 /\ u.id = v.id =>
    /\ v.version >= u.version
    /\ v.version = u.version =>
         /\ v.role = u.role /\ v.password = u.password /\ v.totp = u.totp
         /\ SetupRequired(documents[j], n) => SetupRequired(documents[i], n)

\* An account becomes another one only by way of no account.
Continues(i, j, n) ==
  documents[i].users[n].id = documents[j].users[n].id
    \/ \E k \in i .. j : documents[k].users[n].id = 0

Named ==
  \A i \in 1 .. Latest, n \in Names :
    /\ documents[i].users[n].id <= i
    /\ \A code \in documents[i].users[n].codes : code[1] <= i

Revisions ==
  /\ Named
  /\ \A i, j \in 1 .. Latest, n \in Names : i <= j => Agree(i, j, n) /\ Continues(i, j, n)

\* A Write keeps the names within the revisions.
LEMMA WriteNamed ==
  ASSUME TypeOK, Named, NEW r \in Replicas, NEW d, Write(r, d)
  PROVE  Named'
<1>1. /\ Latest' = Latest + 1 /\ Latest \in Nat \ {0} /\ documents'[Latest + 1] = d
      /\ \A i \in 1 .. Latest : documents'[i] = documents[i]
      /\ Read(r) = documents[Latest]
  BY WriteAppends
<1> SUFFICES ASSUME NEW i \in 1 .. Latest + 1, NEW n \in Names
             PROVE  /\ documents'[i].users[n].id <= i
                    /\ \A code \in documents'[i].users[n].codes : code[1] <= i
  BY <1>1 DEF Named
<1>2. CASE i \in 1 .. Latest
  BY <1>1, <1>2 DEF Named
<1>3. CASE i = Latest + 1
  <2> DEFINE u == documents[Latest].users[n]
             v == d.users[n]
  <2>1. Succeeds(u, v, Latest + 1) /\ Latest \in 1 .. Latest
    BY <1>1 DEF Write, Good
  <2>2. u \in Account /\ u.id <= Latest /\ \A code \in u.codes : code[1] <= Latest
    BY <2>1, RevisionTyped DEF Named
  <2>3. v.id <= Latest + 1
    BY <1>1, <2>1, <2>2 DEF Succeeds, Account
  <2>4. ASSUME NEW code \in v.codes PROVE code[1] <= Latest + 1
    <3>1. CASE code \in u.codes
      <4>1. code \in Code /\ code[1] <= Latest
        BY <2>2, <3>1 DEF Account
      <4>2. code[1] \in Nat
        BY <4>1 DEF Code
      <4>3. QED BY <1>1, <4>1, <4>2
    <3>2. CASE code \in {Latest + 1} \X (1 .. Codes)
      BY <1>1, <3>2
    <3>3. QED BY <2>1, <3>1, <3>2 DEF Succeeds
  <2>5. QED BY <1>1, <1>3, <2>3, <2>4
<1>4. QED BY <1>1, <1>2, <1>3

\* A Write agrees with every revision before it.
LEMMA WriteRevisions ==
  ASSUME TypeOK, Revisions, NEW r \in Replicas, NEW d, Write(r, d)
  PROVE  Revisions'
<1>1. /\ Latest' = Latest + 1 /\ Latest \in Nat \ {0} /\ documents'[Latest + 1] = d
      /\ \A i \in 1 .. Latest : documents'[i] = documents[i]
      /\ Read(r) = documents[Latest]
  BY WriteAppends
<1>2. Named'
  BY WriteNamed DEF Revisions
<1>3. ASSUME NEW i \in 1 .. Latest + 1, NEW j \in 1 .. Latest + 1, NEW n \in Names, i <= j
      PROVE  Agree(i, j, n)'
  <2>1. CASE j \in 1 .. Latest
    <3>1. i \in 1 .. Latest /\ Agree(i, j, n)
      BY <1>1, <1>3, <2>1 DEF Revisions
    <3>2. QED BY <1>1, <2>1, <3>1 DEF Agree, SetupRequired
  <2>2. CASE i = Latest + 1
    <3>1. j = i /\ d.users[n] \in Account
      BY <1>1, <1>3, <2>2 DEF Write, Good, Document
    <3>2. d.users[n].version \in Nat
      BY <3>1 DEF Account
    <3>3. QED BY <1>1, <2>2, <3>1, <3>2 DEF Agree, SetupRequired
  <2>3. CASE i \in 1 .. Latest /\ j = Latest + 1
    <3> DEFINE u == documents[i].users[n]
               w == documents[Latest].users[n]
               v == d.users[n]
    <3>1. /\ Succeeds(w, v, Latest + 1) /\ Asks(documents[Latest], d, n) /\ Latest \in 1 .. Latest
          /\ d \in Document
      BY <1>1 DEF Write, Good
    <3>2. u \in Account /\ w \in Account /\ u.id <= i /\ Agree(i, Latest, n) /\ v \in Account
      BY <1>1, <2>3, <3>1, RevisionTyped DEF Revisions, Named, Document
    <3>3. /\ u.id \in Nat /\ w.id \in Nat /\ v.id \in Nat
          /\ u.version \in Nat /\ w.version \in Nat /\ v.version \in Nat
      BY <3>2 DEF Account
    <3>4. ASSUME u.id # 0, u.id = v.id PROVE w.id = u.id
      BY <1>1, <2>3, <3>1, <3>2, <3>3, <3>4 DEF Succeeds
    <3>5. ASSUME u.id # 0, u.id = v.id
          PROVE  /\ v.version >= u.version
                 /\ v.version = u.version =>
                      /\ v.role = u.role /\ v.password = u.password /\ v.totp = u.totp
                      /\ SetupRequired(d, n) => SetupRequired(documents[i], n)
      <4>1. /\ w.id = u.id /\ w.version >= u.version
            /\ w.version = u.version =>
                 /\ w.role = u.role /\ w.password = u.password /\ w.totp = u.totp
                 /\ SetupRequired(documents[Latest], n) => SetupRequired(documents[i], n)
        BY <3>2, <3>4, <3>5 DEF Agree
      <4>2. /\ v.version >= w.version
            /\ v.version = w.version =>
                 /\ v.role = w.role /\ v.password = w.password /\ v.totp = w.totp
                 /\ SetupRequired(d, n) => SetupRequired(documents[Latest], n)
        BY <3>1, <3>5, <4>1 DEF Succeeds, Asks
      <4>3. QED BY <3>3, <4>1, <4>2
    <3>6. QED BY <1>1, <2>3, <3>5 DEF Agree, SetupRequired
  <2>4. QED BY <1>1, <1>3, <2>1, <2>2, <2>3
<1>4. ASSUME NEW i \in 1 .. Latest + 1, NEW j \in 1 .. Latest + 1, NEW n \in Names, i <= j
      PROVE  Continues(i, j, n)'
  <2>1. CASE j \in 1 .. Latest
    <3>1. i \in 1 .. Latest /\ Continues(i, j, n)
      BY <1>1, <1>4, <2>1 DEF Revisions
    <3>2. \A k \in i .. j : documents'[k] = documents[k]
      BY <1>1, <2>1, <3>1
    <3>3. QED BY <1>1, <2>1, <3>1, <3>2 DEF Continues
  <2>2. CASE i = Latest + 1
    BY <1>1, <1>4, <2>2 DEF Continues
  <2>3. CASE i \in 1 .. Latest /\ j = Latest + 1
    <3> DEFINE w == documents[Latest].users[n]
               v == d.users[n]
    <3>1. Succeeds(w, v, Latest + 1) /\ Latest \in 1 .. Latest /\ i <= Latest
      BY <1>1, <2>3 DEF Write, Good
    <3>2. Continues(i, Latest, n)
      BY <2>3, <3>1 DEF Revisions
    <3>3. \A k \in i .. Latest : documents'[k] = documents[k] /\ k \in i .. j
      BY <1>1, <2>3
    <3>4. Latest \in i .. Latest /\ j \in i .. j /\ documents'[j] = d
      BY <1>1, <2>3, <3>1
    <3>5. CASE v.id = w.id
      BY <2>3, <3>2, <3>3, <3>4, <3>5 DEF Continues
    <3>6. CASE v.id = 0
      BY <3>4, <3>6 DEF Continues
    <3>7. CASE w.id = 0
      BY <3>3, <3>4, <3>7 DEF Continues
    <3>8. QED BY <3>1, <3>5, <3>6, <3>7 DEF Succeeds
  <2>4. QED BY <1>1, <1>4, <2>1, <2>2, <2>3
<1>5. QED BY <1>1, <1>2, <1>3, <1>4 DEF Revisions

---------------------------------------------------------------------------
(* Sessions *)

\* A session says what the account of its revision said.
Made ==
  \A s \in sessions :
    /\ s.user.name \in Names /\ s.rev \in 1 .. Latest
    /\ s.user = SessionUser(documents[s.rev], s.user.name)

SessionInv == TypeOK /\ Revisions /\ Made

\* A step that stores no document makes sessions of stored revisions only, and
\* redeems no code.
LEMMA WorkSessions ==
  ASSUME TypeOK, NEW r \in Replicas, Works(r)
  PROVE  /\ UNCHANGED <<documents, redeemed>>
         /\ \A s \in sessions' : s \in sessions \/ \E n \in Names, rev \in 1 .. Latest :
               s = [user |-> SessionUser(documents[rev], n), rev |-> rev]
<1> DEFINE Issued == \E n \in Names, rev \in 1 .. Latest : IssueSession(r, n, rev)
<1>1. UNCHANGED <<documents, redeemed>>
  BY DEF Works, Restart, ConfigurePersistence, TickLoad, TickApply, Refreshed, Conflict, Applied,
         Fails, Authenticate, TOTPVerified, TryRecovery, Recovered, Change, Login, VerifyMFA, Requests
<1>2. ASSUME At(r, "read", "login") \/ At(r, "read", "verify")
      PROVE  call[r].name \in Names /\ cache[r] \in 1 .. Latest
  <2>1. call[r].name \in Names /\ Serving(r) /\ cache[r] \in 0 .. Latest /\ Latest \in Nat
    BY <1>2, LatestTyped DEF At, TypeOK
  <2>2. QED BY <2>1 DEF Serving
<1>3. ASSUME At(r, "apply", "code")
      PROVE  call[r].name \in Names /\ call[r].local \in 1 .. Latest
  BY <1>3 DEF At, TypeOK
<1>4. ASSUME Authenticate(r) \/ TOTPVerified(r) PROVE Issued \/ UNCHANGED sessions
  BY <1>2, <1>4 DEF Authenticate, TOTPVerified
<1>5. ASSUME Recovered(r) PROVE Issued
  BY <1>3, <1>5 DEF Recovered
<1>6. Issued \/ UNCHANGED sessions
  BY <1>4, <1>5
     DEF Works, Restart, ConfigurePersistence, TickLoad, TickApply, Refreshed, Conflict, Applied,
         Fails, TryRecovery, Change, Login, VerifyMFA, Requests
<1>7. QED BY <1>1, <1>6 DEF IssueSession

\* Sessions stay as they were made.
LEMMA SessionStep == SessionInv /\ [Next]_vars => SessionInv'
<1> SUFFICES ASSUME SessionInv, [Next]_vars PROVE SessionInv'
  OBVIOUS
<1>1. TypeOK /\ Revisions /\ Made
  BY DEF SessionInv
<1>2. ASSUME NEW r \in Replicas, Works(r) PROVE SessionInv'
  <2>1. /\ UNCHANGED <<documents, redeemed>>
        /\ \A s \in sessions' : s \in sessions \/ \E n \in Names, rev \in 1 .. Latest :
              s = [user |-> SessionUser(documents[rev], n), rev |-> rev]
    BY <1>1, <1>2, WorkSessions
  <2>2. Revisions' /\ Latest' = Latest
    BY <1>1, <2>1, SMTT(40) DEF Revisions, Named, Agree, Continues, SetupRequired, Latest
  <2>3. ASSUME NEW s \in sessions'
        PROVE  /\ s.user.name \in Names /\ s.rev \in 1 .. Latest
               /\ s.user = SessionUser(documents[s.rev], s.user.name)
    <3>1. CASE s \in sessions
      BY <1>1, <3>1 DEF Made
    <3>2. ASSUME NEW n \in Names, NEW rev \in 1 .. Latest,
                 s = [user |-> SessionUser(documents[rev], n), rev |-> rev]
          PROVE  /\ s.user.name \in Names /\ s.rev \in 1 .. Latest
                 /\ s.user = SessionUser(documents[s.rev], s.user.name)
      <4>1. SessionUser(documents[rev], n).name = n
        BY DEF SessionUser
      <4>2. s.user = SessionUser(documents[rev], n) /\ s.rev = rev
        BY <3>2
      <4>3. QED BY <4>1, <4>2
    <3>3. QED BY <2>1, <3>1, <3>2
  <2>4. \A rev, n : SessionUser(documents[rev], n)' = SessionUser(documents[rev], n)
    BY <2>1 DEF SessionUser, SetupRequired
  <2>5. Made'
    BY <2>1, <2>2, <2>3, <2>4 DEF Made
  <2>6. QED BY <1>1, <1>2, <2>2, <2>5, WorkTyped DEF SessionInv
<1>3. ASSUME NEW r \in Replicas, NEW d, Write(r, d), TypeOK' PROVE SessionInv'
  <2>1. Revisions'
    BY <1>1, <1>3, WriteRevisions
  <2>2. /\ Latest' = Latest + 1 /\ Latest \in Nat
        /\ \A i \in 1 .. Latest : documents'[i] = documents[i]
    BY <1>1, <1>3, WriteAppends
  <2>3. UNCHANGED sessions
    BY <1>3 DEF Write
  <2>4. \A i \in 1 .. Latest, n \in Names :
          SessionUser(documents[i], n)' = SessionUser(documents[i], n)
    BY <2>2 DEF SessionUser, SetupRequired
  <2>5. ASSUME NEW s \in sessions
        PROVE  /\ s.user.name \in Names /\ s.rev \in 1 .. Latest'
               /\ s.user = SessionUser(documents[s.rev], s.user.name)'
    <3>1. /\ s.user.name \in Names /\ s.rev \in 1 .. Latest
          /\ s.user = SessionUser(documents[s.rev], s.user.name)
      BY <1>1 DEF Made
    <3>2. QED BY <2>2, <2>4, <3>1
  <2>6. Made'
    BY <2>3, <2>5 DEF Made
  <2>7. QED BY <1>3, <2>1, <2>6 DEF SessionInv
<1>4. ASSUME NEW r \in Replicas, Stores(r) PROVE SessionInv'
  BY <1>1, <1>3, <1>4, StoreWrites, StoreTyped
<1>5. ASSUME NEW r \in Replicas, Redeem(r) PROVE SessionInv'
  BY <1>1, <1>3, <1>5, RedeemWrites, RedeemTyped
<1>6. ASSUME Ends \/ UNCHANGED vars PROVE SessionInv'
  <2>1. UNCHANGED documents /\ sessions' \subseteq sessions
    BY <1>6 DEF Ends, ChallengeExpires, SessionEnds, vars
  <2>2. Revisions' /\ Latest' = Latest
    BY <1>1, <2>1, SMTT(40) DEF Revisions, Named, Agree, Continues, SetupRequired, Latest
  <2>3. Made'
    BY <1>1, <2>1, <2>2 DEF Made, SessionUser, SetupRequired
  <2>4. QED BY <1>1, <1>6, <2>2, <2>3, EndsTyped DEF SessionInv
<1>7. QED BY <1>2, <1>4, <1>5, <1>6, NextCases

\* Initially no account differs from itself.
LEMMA InitRevisions == Init => SessionInv
<1> SUFFICES ASSUME Init PROVE SessionInv
  OBVIOUS
<1>1. TypeOK
  BY InitTyped
<1>2. PICK users \in InitialAccounts : documents = <<[mode |-> "optional", users |-> users]>>
  BY DEF Init
<1>3. Latest = 1 /\ documents[1].users = users
  BY <1>2 DEF Latest
<1>4. 1 \in 1 .. Latest
  BY <1>3
<1>5. \A n \in Names : users[n] \in Account
  BY <1>1, <1>3, <1>4, RevisionTyped
<1>6. ASSUME NEW n \in Names
      PROVE  users[n].id <= 1 /\ \A code \in users[n].codes : code[1] <= 1
  <2>1. users[n] \in {Absent, NewAccount("admin", 1)} \cup {Enrolled(role) : role \in Roles}
    BY DEF InitialAccounts
  <2>2. Absent.id = 0 /\ Absent.codes = {}
    BY DEF Absent
  <2>3. NewAccount("admin", 1).id = 1 /\ NewAccount("admin", 1).codes = {}
    BY NewTyped DEF Roles
  <2>4. \A role \in Roles : Enrolled(role).id = 1 /\ Enrolled(role).codes = {1} \X (1 .. Codes)
    BY DEF Enrolled, NewAccount, Absent
  <2>5. QED BY <2>1, <2>2, <2>3, <2>4
<1>7. Named
  BY <1>3, <1>6 DEF Named
<1>8. \A i, j \in 1 .. Latest, n \in Names : i <= j => Agree(i, j, n) /\ Continues(i, j, n)
  <2>1. \A n \in Names : documents[1].users[n].version \in Nat
    BY <1>3, <1>5 DEF Account
  <2>2. \A i, j \in 1 .. Latest : i = 1 /\ j = 1
    BY <1>3
  <2>3. QED BY <2>1, <2>2 DEF Agree, Continues
<1>9. Made
  <2>1. ASSUME NEW s \in sessions PROVE /\ s.user.name \in Names /\ s.rev \in 1 .. Latest
                                       /\ s.user = SessionUser(documents[s.rev], s.user.name)
    <3>1. PICK n \in Names : s = [user |-> SessionUser(documents[1], n), rev |-> 1]
      BY DEF Init
    <3>2. s.user = SessionUser(documents[1], n) /\ s.rev = 1
      BY <3>1
    <3>3. s.user.name = n
      BY <3>2 DEF SessionUser
    <3>4. QED BY <1>4, <3>2, <3>3
  <2>2. QED BY <2>1 DEF Made
<1>10. QED BY <1>1, <1>7, <1>8, <1>9 DEF SessionInv, Revisions

\* A session accepted by a replica matches the account it knows: unless there was
\* none in between it is the same, and the versions are equal, so that the two
\* revisions agree.  What Redis keeps has version 0,
\* which is no account's, so that such sessions are accepted by none.
LEMMA SessionSafe == SessionInv => SessionMatchesAccount
<1> SUFFICES ASSUME SessionInv, NEW r \in Replicas, NEW s \in sessions, Accepts(r, s),
                    ~Deleted(s.user.name, s.rev, cache[r])
             PROVE  LET now == Cached(r).users[s.user.name]
                        then == documents[s.rev].users[s.user.name] IN
                    /\ now.id = then.id
                    /\ now.role = then.role /\ now.password = then.password /\ now.totp = then.totp
                    /\ s.rev <= cache[r] /\ SetupRequired(Cached(r), s.user.name) => s.user.setup
  BY DEF SessionMatchesAccount
<1> DEFINE n == s.user.name
           now == Cached(r).users[n]
           then == documents[s.rev].users[n]
<1>1. /\ n \in Names /\ s.rev \in 1 .. Latest /\ s.user = SessionUser(documents[s.rev], n)
      /\ TypeOK /\ Revisions /\ Latest \in Nat
  BY LatestTyped DEF SessionInv, Made
<1>2. cache[r] \in 1 .. Latest
  BY <1>1 DEF Accepts, TypeOK
<1>3. now \in Account /\ WellFormed(now) /\ then \in Account /\ Cached(r) = documents[cache[r]]
  BY <1>1, <1>2, RevisionTyped DEF Cached
<1>4. s.user.version = then.version /\ s.user.setup = SetupRequired(documents[s.rev], n)
  <2> DEFINE user == SessionUser(documents[s.rev], n)
  <2>1. user.version = then.version /\ user.setup = SetupRequired(documents[s.rev], n)
    BY DEF SessionUser
  <2>2. s.user = user
    BY <1>1
  <2> HIDE DEF user
  <2>3. QED BY <2>1, <2>2
<1>5. now.id # 0 /\ now.version = then.version
  <2>1. CASE Backend = "redis"
    <3>1. s.user = [name |-> n, role |-> then.role, version |-> then.version,
                    setup |-> SetupRequired(documents[s.rev], n)]
      BY <1>1 DEF SessionUser
    <3>2. Stored(s.user).version = 0 /\ Stored(s.user).name = n
      BY <2>1, <3>1 DEF Stored
    <3>3. now.version = 0 /\ Exists(now)
      BY <3>2 DEF Accepts, ValidateSession
    <3>4. QED BY <1>3, <3>3 DEF WellFormed
  <2>2. CASE Backend # "redis"
    <3>1. Stored(s.user) = s.user
      BY <2>2 DEF Stored
    <3>2. QED BY <1>4, <3>1, SMTT(40) DEF Accepts, ValidateSession, Exists
  <2>3. QED BY <2>1, <2>2, SMTT(40)
<1>6. CASE s.rev <= cache[r]
  <2>1. Agree(s.rev, cache[r], n) /\ Continues(s.rev, cache[r], n)
    BY <1>1, <1>2, <1>6, SMTT(40) DEF Revisions
  <2>2. now.id = then.id
    BY <1>3, <2>1 DEF Continues, Deleted, Exists
  <2>3. QED BY <1>3, <1>4, <1>5, <2>1, <2>2 DEF Agree
<1>7. CASE cache[r] < s.rev
  <2>1. Agree(cache[r], s.rev, n) /\ Continues(cache[r], s.rev, n)
    BY <1>1, <1>2, <1>7 DEF Revisions
  <2>2. ~(s.rev <= cache[r])
    BY <1>1, <1>2, <1>7
  <2>3. now.id = then.id
    BY <1>3, <2>1 DEF Continues, Deleted, Exists
  <2>4. QED BY <1>3, <1>5, <2>1, <2>2, <2>3 DEF Agree
<1>8. s.rev \in Nat /\ cache[r] \in Nat
  BY <1>1, <1>2
<1>9. QED BY <1>6, <1>7, <1>8, SMTT(40)

\* For every set of replicas and accounts: a session that a replica accepts is
\* worth what signing in to the account, as this replica knows it, would give,
\* unless in some document between the two the name had no account.
THEOREM Matches == Spec => []SessionMatchesAccount
<1>1. Init => SessionInv
  BY InitRevisions
<1>2. SessionInv /\ [Next]_vars => SessionInv'
  BY SessionStep
<1>3. SessionInv => SessionMatchesAccount
  BY SessionSafe
<1>4. QED BY <1>1, <1>2, <1>3, PTL DEF Spec

---------------------------------------------------------------------------
(* Recovery codes *)

\* A redeemed code is older than the revision that redeemed it, and is in none
\* of the account's code sets from there on.
Gone ==
  \A x \in redeemed :
    /\ x.name \in Names /\ x.code[1] < x.rev /\ x.rev \in 1 .. Latest
    /\ \A i \in x.rev .. Latest : x.code \notin documents[i].users[x.name].codes

CodeInv == TypeOK /\ Named /\ Gone /\ RecoveryCodeOnce

\* A Write brings back no redeemed code.
LEMMA WriteGone ==
  ASSUME CodeInv, NEW r \in Replicas, NEW d, Write(r, d), NEW x \in redeemed
  PROVE  /\ x.name \in Names /\ x.code[1] < x.rev /\ x.rev \in 1 .. Latest'
         /\ \A i \in x.rev .. Latest' : x.code \notin documents'[i].users[x.name].codes
<1>1. /\ Latest' = Latest + 1 /\ Latest \in Nat \ {0} /\ documents'[Latest + 1] = d
      /\ \A i \in 1 .. Latest : documents'[i] = documents[i]
      /\ Read(r) = documents[Latest]
  BY WriteAppends DEF CodeInv
<1>2. /\ x.name \in Names /\ x.code[1] < x.rev /\ x.rev \in 1 .. Latest
      /\ \A i \in x.rev .. Latest : x.code \notin documents[i].users[x.name].codes
      /\ x.code \in Code
  BY DEF CodeInv, Gone, TypeOK
<1>3. x.code[1] \in Nat
  BY <1>2 DEF Code
<1>4. x.code \notin d.users[x.name].codes
  <2>1. Succeeds(documents[Latest].users[x.name], d.users[x.name], Latest + 1)
    BY <1>1, <1>2 DEF Write, Good
  <2>2. x.code \notin documents[Latest].users[x.name].codes
    BY <1>1, <1>2
  <2>3. x.code \notin {Latest + 1} \X (1 .. Codes)
    BY <1>1, <1>2, <1>3
  <2>4. QED BY <2>1, <2>2, <2>3 DEF Succeeds
<1>5. ASSUME NEW i \in x.rev .. Latest + 1 PROVE x.code \notin documents'[i].users[x.name].codes
  <2>1. CASE i \in x.rev .. Latest
    BY <1>1, <1>2, <2>1
  <2>2. CASE i = Latest + 1
    BY <1>1, <1>4, <2>2
  <2>3. QED BY <1>1, <1>2, <2>1, <2>2
<1>6. QED BY <1>1, <1>2, <1>5

\* Redeemed codes stay redeemed, and a code is redeemed where it still is.
LEMMA CodeStep == CodeInv /\ [Next]_vars => CodeInv'
<1> SUFFICES ASSUME CodeInv, [Next]_vars PROVE CodeInv'
  OBVIOUS
<1>1. TypeOK /\ Named /\ Gone /\ RecoveryCodeOnce
  BY DEF CodeInv
<1>2. ASSUME UNCHANGED <<documents, redeemed>>, TypeOK' PROVE CodeInv'
  <2>1. Latest' = Latest
    BY <1>2 DEF Latest
  <2>2. Named' /\ Gone' /\ RecoveryCodeOnce'
    BY <1>1, <1>2, <2>1 DEF Named, Gone, RecoveryCodeOnce
  <2>3. QED BY <1>2, <2>2 DEF CodeInv
<1>3. ASSUME NEW r \in Replicas, Works(r) PROVE CodeInv'
  BY <1>1, <1>2, <1>3, WorkSessions, WorkTyped
<1>4. ASSUME NEW r \in Replicas, Stores(r) PROVE CodeInv'
  <2>1. PICK d : Write(r, d) /\ UNCHANGED redeemed
    BY <1>1, <1>4, StoreWrites
  <2>2. Named' /\ TypeOK'
    BY <1>1, <1>4, <2>1, WriteNamed, StoreTyped
  <2>3. Gone' /\ RecoveryCodeOnce'
    BY <1>1, <2>1, WriteGone DEF Gone, RecoveryCodeOnce
  <2>4. QED BY <2>2, <2>3 DEF CodeInv
<1>5. ASSUME NEW r \in Replicas, Redeem(r) PROVE CodeInv'
  <2> DEFINE n == call[r].name
             codes == Read(r).users[n].codes
  <2>1. PICK d : /\ Write(r, d) /\ n \in Names
                 /\ \E code \in codes :
                      /\ d.users[n].codes = codes \ {code}
                      /\ redeemed' = redeemed \cup {[name |-> n, code |-> code, rev |-> Latest + 1]}
    BY <1>1, <1>5, RedeemWrites
  <2>2. PICK code \in codes :
          /\ d.users[n].codes = codes \ {code}
          /\ redeemed' = redeemed \cup {[name |-> n, code |-> code, rev |-> Latest + 1]}
    BY <2>1
  <2> DEFINE y == [name |-> n, code |-> code, rev |-> Latest + 1]
  <2>3. /\ Latest' = Latest + 1 /\ Latest \in Nat \ {0} /\ documents'[Latest + 1] = d
        /\ Read(r) = documents[Latest] /\ Latest \in 1 .. Latest
    BY <1>1, <2>1, WriteAppends
  <2>4. code \in Code /\ code[1] <= Latest /\ code \in documents[Latest].users[n].codes
    BY <1>1, <2>1, <2>2, <2>3, RevisionTyped DEF Named, Account
  <2>5. code[1] \in Nat
    BY <2>4 DEF Code
  <2>6. /\ y.name \in Names /\ y.code[1] < y.rev /\ y.rev \in 1 .. Latest'
        /\ \A i \in y.rev .. Latest' : y.code \notin documents'[i].users[y.name].codes
    BY <2>1, <2>2, <2>3, <2>4, <2>5
  <2>7. Gone'
    BY <2>1, <2>2, <2>6, WriteGone DEF Gone
  <2>8. \A x \in redeemed : ~(x.name = n /\ x.code = code)
    BY <1>1, <2>3, <2>4 DEF Gone
  <2>9. RecoveryCodeOnce'
    BY <1>1, <2>2, <2>8 DEF RecoveryCodeOnce
  <2>10. Named' /\ TypeOK'
    BY <1>1, <1>5, <2>1, WriteNamed, RedeemTyped
  <2>11. QED BY <2>7, <2>9, <2>10 DEF CodeInv
<1>6. ASSUME Ends \/ UNCHANGED vars PROVE CodeInv'
  <2>1. UNCHANGED <<documents, redeemed>>
    BY <1>6 DEF Ends, ChallengeExpires, SessionEnds, vars
  <2>2. QED BY <1>1, <1>2, <1>6, <2>1, EndsTyped
<1>7. QED BY <1>3, <1>4, <1>5, <1>6, NextCases

\* Whatever replicas a recovery code is presented to, at the same time and with
\* stale copies, one update of the document uses it.
THEOREM CodeOnce == Spec => []RecoveryCodeOnce
<1>1. Init => CodeInv
  <2>1. Init => TypeOK /\ Named
    BY InitRevisions DEF SessionInv, Revisions
  <2>2. Init => Gone /\ RecoveryCodeOnce
    BY DEF Init, Gone, RecoveryCodeOnce
  <2>3. QED BY <2>1, <2>2 DEF CodeInv
<1>2. CodeInv /\ [Next]_vars => CodeInv'
  BY CodeStep
<1>3. CodeInv => RecoveryCodeOnce
  BY DEF CodeInv
<1>4. QED BY <1>1, <1>2, <1>3, PTL DEF Spec

---------------------------------------------------------------------------
(* Administrators *)

\* Whoever serves, or is about to after seeding, has stored or read a document
\* with an administrator.
Entered(r) == call[r].state # "idle" =>
  Serving(r) \/ (call[r].op = "seed" /\ call[r].state \in {"put", "apply"})

Administered ==
  \A r \in Replicas :
    /\ Serving(r) \/ At(r, "apply", "seed") => ActiveAdmins(documents[Latest].users) # {}
    /\ tick[r] # 0 => Serving(r)
    /\ Entered(r)

AdminInv == TypeOK /\ AdminRemains /\ Administered

\* A step that stores no document lets no other replica serve.
LEMMA WorkEntered ==
  ASSUME TypeOK, Administered, NEW r \in Replicas, Works(r)
  PROVE  /\ Serving(r)' \/ At(r, "apply", "seed")' => Serving(r) \/ At(r, "apply", "seed")
         /\ tick'[r] # 0 => Serving(r)'
         /\ Entered(r)'
         /\ \A s \in Replicas \ {r} : cache'[s] = cache[s] /\ tick'[s] = tick[s] /\ call'[s] = call[s]
<1>1. /\ cache \in [Replicas -> 0 .. Latest] /\ tick \in [Replicas -> 0 .. Latest]
      /\ call \in [Replicas -> Calls] /\ Latest \in Nat
      /\ call[r].state # "idle" => call[r].rev # 0
      /\ call[r].state = "read" => Serving(r)
      /\ tick[r] # 0 => Serving(r)
      /\ Entered(r)
  BY LatestTyped DEF TypeOK, Administered
<1> DEFINE Fine ==
             /\ Serving(r)' \/ At(r, "apply", "seed")' => Serving(r) \/ At(r, "apply", "seed")
             /\ tick'[r] # 0 => Serving(r)'
             /\ Entered(r)'
             /\ \A s \in Replicas \ {r} :
                  cache'[s] = cache[s] /\ tick'[s] = tick[s] /\ call'[s] = call[s]
<1>2. Idle.state = "idle"
  BY IdleTyped
<1>3. ASSUME Restart(r) \/ Fails(r) PROVE Fine
  BY <1>1, <1>2, <1>3 DEF Restart, Fails, Serving, At, Entered
<1>4. ASSUME ConfigurePersistence(r) PROVE Fine
  <2>1. call'[r] = Updating("seed", None, 0)
    BY <1>1, <1>4 DEF ConfigurePersistence
  <2>2. call'[r].state = "put" /\ call'[r].op = "seed"
    BY <2>1 DEF Updating
  <2>3. QED BY <1>1, <1>4, <2>2 DEF ConfigurePersistence, Serving, At, Entered
<1>5. ASSUME TickLoad(r) PROVE Fine
  BY <1>1, <1>5 DEF TickLoad, Serving, At, Entered
<1>6. ASSUME TickApply(r) PROVE Fine
  BY <1>1, <1>6 DEF TickApply, Serving, At, Entered
<1>7. ASSUME Refreshed(r) PROVE Fine
  <2>1. call[r].state = "loaded" /\ Serving(r)
    BY <1>1, <1>7 DEF Refreshed, Entered
  <2>2. cache'[r] # 0 /\ UNCHANGED tick
    BY <1>1, <1>7, <2>1 DEF Refreshed
  <2>3. \A s \in Replicas \ {r} : cache'[s] = cache[s] /\ call'[s] = call[s]
    BY <1>1, <1>7 DEF Refreshed
  <2>4. QED BY <2>1, <2>2, <2>3 DEF Serving, Entered
<1>8. ASSUME Conflict(r) PROVE Fine
  <2>1. call'[r].state = "put" /\ call'[r].op = call[r].op /\ call[r].state = "put"
    BY <1>1, <1>8 DEF Conflict, Calls
  <2>2. UNCHANGED <<cache, tick>> /\ \A s \in Replicas \ {r} : call'[s] = call[s]
    BY <1>1, <1>8 DEF Conflict
  <2>3. QED BY <1>1, <2>1, <2>2 DEF Serving, At, Entered
<1>9. ASSUME Applied(r) PROVE Fine
  <2>1. call'[r] = Idle /\ cache'[r] # 0 /\ UNCHANGED tick
    BY <1>1, <1>9 DEF Applied
  <2>2. \A s \in Replicas \ {r} : cache'[s] = cache[s] /\ call'[s] = call[s]
    BY <1>1, <1>9 DEF Applied
  <2>3. Serving(r) \/ At(r, "apply", "seed")
    BY <1>1, <1>9 DEF Applied, Entered, At
  <2>4. QED BY <1>2, <2>1, <2>2, <2>3 DEF Serving, Entered
<1>10. ASSUME Serving(r), cache'[r] # 0, UNCHANGED tick,
              \A s \in Replicas \ {r} : cache'[s] = cache[s] /\ call'[s] = call[s]
       PROVE  Fine
  BY <1>10 DEF Serving, Entered
<1>11. ASSUME Authenticate(r) \/ TOTPVerified(r) \/ TryRecovery(r) PROVE Fine
  <2>1. Serving(r) /\ UNCHANGED <<cache, tick>>
    BY <1>1, <1>11 DEF Authenticate, TOTPVerified, TryRecovery, At
  <2>2. \A s \in Replicas \ {r} : call'[s] = call[s]
    BY <1>1, <1>11 DEF Authenticate, TOTPVerified, TryRecovery, IssueSession
  <2>3. QED BY <1>10, <2>1, <2>2 DEF Serving
<1>12. ASSUME Recovered(r) PROVE Fine
  <2>1. Serving(r) /\ cache'[r] # 0 /\ UNCHANGED tick
    BY <1>1, <1>12 DEF Recovered, At, Entered
  <2>2. \A s \in Replicas \ {r} : cache'[s] = cache[s] /\ call'[s] = call[s]
    BY <1>1, <1>12 DEF Recovered, IssueSession
  <2>3. QED BY <1>10, <2>1, <2>2
<1>13. ASSUME NEW c, Requests(r, c) PROVE Fine
  <2>1. Serving(r) /\ UNCHANGED <<cache, tick>> /\ \A s \in Replicas \ {r} : call'[s] = call[s]
    BY <1>1, <1>13 DEF Requests
  <2>2. QED BY <1>10, <2>1 DEF Serving
<1>14. ASSUME NEW n \in Managed, Login(r, n) \/ VerifyMFA(r, n) PROVE Fine
  BY <1>13, <1>14 DEF Login, VerifyMFA
<1>15. ASSUME Change(r) PROVE Fine
  BY <1>13, <1>15 DEF Change
<1>16. QED BY <1>3, <1>4, <1>5, <1>6, <1>7, <1>8, <1>9, <1>11, <1>12, <1>14, <1>15 DEF Works

\* A Write of a document with an administrator keeps one.
LEMMA WriteAdministered ==
  ASSUME AdminInv, NEW r \in Replicas, NEW d, Write(r, d), ActiveAdmins(d.users) # {}
  PROVE  AdminRemains' /\ Administered'
<1>1. /\ Latest' = Latest + 1 /\ Latest \in Nat \ {0} /\ documents'[Latest + 1] = d
      /\ \A i \in 1 .. Latest : documents'[i] = documents[i]
      /\ documents' \in Seq(Document) /\ documents \in Seq(Document)
  BY WriteAppends DEF AdminInv, TypeOK
<1>2. DOMAIN documents' = 1 .. Latest + 1 /\ DOMAIN documents = 1 .. Latest
  BY <1>1 DEF Latest
<1>3. AdminRemains'
  <2> SUFFICES ASSUME NEW i \in 1 .. Latest + 1, \E n \in Names : Exists(documents'[i].users[n])
               PROVE  ActiveAdmins(documents'[i].users) # {}
    BY <1>2 DEF AdminRemains, ActiveAdmins
  <2>1. CASE i \in 1 .. Latest
    BY <1>1, <1>2, <2>1 DEF AdminInv, AdminRemains
  <2>2. CASE i = Latest + 1
    BY <1>1, <2>2
  <2>3. QED BY <1>1, <2>1, <2>2
<1>4. UNCHANGED <<cache, tick>> /\ call[r].state = "put"
      /\ call' = [call EXCEPT ![r].state = "apply", ![r].rev = Latest + 1]
  BY DEF Write, Put
<1>5. ASSUME NEW s \in Replicas
      PROVE  /\ tick'[s] # 0 => Serving(s)'
             /\ Entered(s)'
  <2>1. /\ tick[s] # 0 => Serving(s)
        /\ Entered(s) /\ call \in [Replicas -> Calls]
    BY DEF AdminInv, Administered, TypeOK
  <2>2. CASE s # r
    BY <1>4, <2>1, <2>2 DEF Serving, Entered
  <2>3. CASE s = r
    <3>1. call'[s].state = "apply" /\ call'[s].op = call[s].op
      BY <1>4, <2>1, <2>3 DEF Calls
    <3>2. QED BY <1>4, <2>1, <2>3, <3>1 DEF Serving, Entered
  <2>4. QED BY <2>2, <2>3
<1>6. ActiveAdmins(documents[Latest].users)' # {}
  <2>1. documents'[Latest'] = d
    BY <1>1
  <2>2. QED BY <2>1 DEF ActiveAdmins
<1>7. QED BY <1>3, <1>5, <1>6 DEF Administered

\* An administrator remains at every step.
LEMMA AdminStep == AdminInv /\ [Next]_vars => AdminInv'
<1> SUFFICES ASSUME AdminInv, [Next]_vars PROVE AdminInv'
  OBVIOUS
<1>1. TypeOK /\ AdminRemains /\ Administered
  BY DEF AdminInv
<1>2. UNCHANGED documents => AdminRemains' /\ Latest' = Latest
  BY <1>1 DEF AdminRemains, ActiveAdmins, Latest
<1>3. ASSUME NEW r \in Replicas, Works(r) PROVE AdminInv'
  <2>1. UNCHANGED documents
    BY <1>1, <1>3, WorkSessions
  <2>2. /\ Serving(r)' \/ At(r, "apply", "seed")' => Serving(r) \/ At(r, "apply", "seed")
        /\ tick'[r] # 0 => Serving(r)'
        /\ Entered(r)'
        /\ \A s \in Replicas \ {r} : cache'[s] = cache[s] /\ tick'[s] = tick[s] /\ call'[s] = call[s]
    BY <1>1, <1>3, WorkEntered
  <2>3. ActiveAdmins(documents[Latest].users)' = ActiveAdmins(documents[Latest].users)
    BY <1>2, <2>1 DEF ActiveAdmins
  <2>4. ASSUME NEW s \in Replicas
        PROVE  /\ Serving(s)' \/ At(s, "apply", "seed")' => ActiveAdmins(documents[Latest].users)' # {}
               /\ tick'[s] # 0 => Serving(s)'
               /\ Entered(s)'
    <3>1. CASE s = r
      BY <1>1, <2>2, <2>3, <3>1 DEF Administered
    <3>2. CASE s # r
      BY <1>1, <2>2, <2>3, <3>2 DEF Administered, Serving, At, Entered
    <3>3. QED BY <3>1, <3>2
  <2>5. QED BY <1>1, <1>2, <1>3, <2>1, <2>4, WorkTyped DEF AdminInv, Administered
<1>4. ASSUME NEW r \in Replicas, NEW d, Write(r, d), call[r].op # "seed"
      PROVE  ActiveAdmins(d.users) # {}
  <2>1. Serving(r) /\ Read(r) = documents[Latest]
    BY <1>1, <1>4, WriteAppends DEF Write, Administered, Entered
  <2>2. ActiveAdmins(Read(r).users) # {}
    BY <1>1, <2>1 DEF Administered
  <2>3. QED BY <1>4, <2>2 DEF Write, Good
<1>5. ASSUME NEW r \in Replicas, Seed(r) PROVE AdminInv'
  <2>1. PICK d : /\ Write(r, d)
                 /\ \/ d = Read(r) /\ \E n \in Names : Exists(d.users[n])
                    \/ ActiveAdmins(d.users) # {}
    BY <1>1, <1>5, SeedWrites
  <2>2. Read(r) = documents[Latest] /\ Latest \in DOMAIN documents
    BY <1>1, <2>1, WriteAppends DEF TypeOK, Latest
  <2>3. ActiveAdmins(d.users) # {}
    BY <1>1, <2>1, <2>2 DEF AdminRemains
  <2>4. TypeOK'
    BY <1>1, <1>5, StoreTyped DEF Stores
  <2>5. QED BY <2>1, <2>3, <2>4, WriteAdministered DEF AdminInv
<1>6. ASSUME NEW r \in Replicas, Stores(r), ~Seed(r) PROVE AdminInv'
  <2>1. PICK d : Write(r, d)
    BY <1>1, <1>6, StoreWrites, SMTT(40)
  <2>2. call[r].op # "seed"
    BY <1>6 DEF Stores, RecordAuthentication, UpdatePolicy, Create, UpdateAdmin, Delete, ChangePassword,
                ChangeEmail, BeginMFAEnrollment, ConfirmMFAEnrollment, DisableMFA, Changes, At
  <2>3. QED BY <1>1, <1>4, <1>6, <2>1, <2>2, StoreTyped, WriteAdministered DEF AdminInv
<1>7. ASSUME NEW r \in Replicas, Redeem(r) PROVE AdminInv'
  <2>1. PICK d : Write(r, d)
    BY <1>1, <1>7, RedeemWrites
  <2>2. call[r].op # "seed"
    BY <1>7 DEF Redeem, At
  <2>3. QED BY <1>1, <1>4, <1>7, <2>1, <2>2, RedeemTyped, WriteAdministered DEF AdminInv
<1>8. ASSUME Ends \/ UNCHANGED vars PROVE AdminInv'
  <2>1. UNCHANGED <<documents, cache, tick, call>>
    BY <1>8 DEF Ends, ChallengeExpires, SessionEnds, vars
  <2>2. Administered'
    BY <1>1, <1>2, <2>1 DEF Administered, Serving, At, Entered, ActiveAdmins
  <2>3. QED BY <1>1, <1>2, <1>8, <2>1, <2>2, EndsTyped DEF AdminInv
<1>9. QED BY <1>3, <1>5, <1>6, <1>7, <1>8, NextCases

\* Initially there are no accounts and no replica serves, or the bootstrap
\* account is an administrator.
LEMMA InitAdmin == Init => AdminInv
<1> SUFFICES ASSUME Init PROVE AdminInv
  OBVIOUS
<1>1. TypeOK
  BY InitTyped
<1>2. PICK users \in InitialAccounts :
        /\ documents = <<[mode |-> "optional", users |-> users]>>
        /\ cache = [r \in Replicas |-> users[Bootstrap].id]
  BY DEF Init
<1>3. Latest = 1 /\ DOMAIN documents = 1 .. 1 /\ documents[1].users = users
  BY <1>2 DEF Latest
<1>4. /\ \A r \in Replicas : tick[r] = 0 /\ call[r].state = "idle"
      /\ \A r \in Replicas : cache[r] = users[Bootstrap].id
  BY <1>2, IdleTyped DEF Init
<1>5. CASE users = [n \in Names |-> Absent]
  <2>1. \A n \in Names : ~Exists(users[n])
    BY <1>5, AbsentTyped
  <2>2. users[Bootstrap].id = 0
    BY <2>1, UserStoreAssumption DEF Exists
  <2>3. QED BY <1>1, <1>3, <1>4, <2>1, <2>2
            DEF AdminInv, AdminRemains, Administered, Serving, At, Entered
<1>6. ASSUME NEW role \in Roles,
             users = [n \in Names |-> IF n = Bootstrap THEN NewAccount("admin", 1) ELSE Enrolled(role)]
      PROVE  AdminInv
  <2>1. ActiveAdmin(users[Bootstrap])
    BY <1>6, NewTyped, UserStoreAssumption DEF ActiveAdmin, Exists, Roles
  <2>2. ActiveAdmins(users) # {}
    BY <2>1, UserStoreAssumption DEF ActiveAdmins
  <2>3. QED BY <1>1, <1>3, <1>4, <2>2 DEF AdminInv, AdminRemains, Administered, Serving, At, Entered
<1>7. QED BY <1>5, <1>6 DEF InitialAccounts

\* A document with accounts has an administrator who can sign in, although
\* several replicas delete, disable and demote administrators at once.
THEOREM LastAdmin == Spec => []AdminRemains
<1>1. Init => AdminInv
  BY InitAdmin
<1>2. AdminInv /\ [Next]_vars => AdminInv'
  BY AdminStep
<1>3. AdminInv => AdminRemains
  BY DEF AdminInv
<1>4. QED BY <1>1, <1>2, <1>3, PTL DEF Spec
=============================================================================
