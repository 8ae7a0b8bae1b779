----------------------- MODULE ProfileAccounts_proofs -----------------------
(***************************************************************************)
(* Proofs about ProfileAccounts, for any accounts, names, factories,       *)
(* clients and recoveries: an active administrator remains, only one       *)
(* changes accounts, the audit trail tells the present state of every      *)
(* account, login names stay distinct and no stale page overwrites.        *)
(***************************************************************************)
EXTENDS ProfileAccounts, TLAPS

TrailRecord ==
  [role: Roles, active: BOOLEAN, grants: SUBSET Factories, must: BOOLEAN]
Documents ==
  [ users: [UserIds -> Account \cup {None}],
    factories: [Factories -> {"unknown", "active", "inactive"}],
    trail: [UserIds -> TrailRecord \cup {None}], revision: Nat ]

(* A document that a recovery may bring back is as good as the present     *)
(* one: somebody can administer it, its trail tells its accounts, and      *)
(* none of its ids will be given out again.                                *)
GoodDocument(d) ==
  /\ d \in Documents
  /\ d.trail = TrailOf(d.users)
  /\ \E u \in UserIds : ActiveAdmin(d.users, u)
  /\ \A u \in UserIds : d.users[u] # None => u \in issued

ClientsOK ==
  /\ session \in [Clients -> UserIds \cup {None}]
  /\ gate \in [Clients ->
       [actor: UserIds, view: {"admin", "password"}] \cup {None}]
  /\ form \in [Clients -> [target: UserIds, seen: Account] \cup {None}]

AccountsInv ==
  /\ GoodDocument(doc)
  /\ recoveries < MaxRecoveries => GoodDocument(prior)
  /\ ClientsOK
  /\ prompt \in Names \cup {None} /\ issued \subseteq UserIds
  /\ recoveries \in 0 .. MaxRecoveries

(* As long as nothing was recovered, revisions tell versions of an account *)
(* apart.                                                                  *)
PageOK(c) ==
  form[c] # None =>
    LET now == doc.users[form[c].target]
    IN  /\ now # None /\ form[c].seen.revision <= now.revision
        /\ form[c].seen.revision = now.revision => form[c].seen = now
PagesInv == AccountsInv /\ (recoveries = 0 => \A c \in Clients : PageOK(c))

-----------------------------------------------------------------------------
(* Replaying events: as an edit appends at most four, no induction is      *)
(* needed.                                                                 *)

LEMMA ReplayedEquation ==
  ASSUME NEW told, NEW events, Len(events) \in 0 .. 4
  PROVE  \E f : /\ f = [n \in 0 .. Len(events) |->
                        IF n = 0 THEN told ELSE Tell(f[n - 1], events[n])]
                /\ Replayed(told, events) = f[Len(events)]
  <1> DEFINE a1 == Tell(told, events[1])
             a2 == Tell(a1, events[2])
             a3 == Tell(a2, events[3])
             a4 == Tell(a3, events[4])
             f == [n \in 0 .. Len(events) |->
                     IF n = 0 THEN told ELSE IF n = 1 THEN a1
                     ELSE IF n = 2 THEN a2 ELSE IF n = 3 THEN a3 ELSE a4]
             g == CHOOSE h : h = [n \in 0 .. Len(events) |->
                        IF n = 0 THEN told ELSE Tell(h[n - 1], events[n])]
  <1>1. f = [n \in 0 .. Len(events) |->
                        IF n = 0 THEN told ELSE Tell(f[n - 1], events[n])]
    OBVIOUS
  <1>2. g = [n \in 0 .. Len(events) |->
                        IF n = 0 THEN told ELSE Tell(g[n - 1], events[n])]
    <2>. HIDE DEF f
    <2>. QED BY <1>1
  <1>3. Replayed(told, events) = g[Len(events)]
    BY DEF Replayed
  <1>. HIDE DEF g
  <1>. QED BY <1>2, <1>3

LEMMA ReplayedNone ==
  ASSUME NEW told
  PROVE  Replayed(told, <<>>) = told
  <1> DEFINE s == <<>>
  <1>1. Len(s) = 0 /\ Len(s) \in 0 .. 4
    OBVIOUS
  <1>. HIDE DEF s
  <1>2. PICK f : /\ f = [n \in 0 .. Len(s) |->
                          IF n = 0 THEN told ELSE Tell(f[n - 1], s[n])]
                 /\ Replayed(told, s) = f[Len(s)]
    BY <1>1, ReplayedEquation
  <1>3. Replayed(told, s) = told
    BY <1>1, <1>2
  <1>. QED
    BY <1>3 DEF s

LEMMA ReplayedOne ==
  ASSUME NEW told, NEW a
  PROVE  Replayed(told, <<a>>) = Tell(told, a)
  <1> DEFINE s == <<a>>
  <1>1. Len(s) = 1 /\ Len(s) \in 0 .. 4 /\ s[1] = a
    OBVIOUS
  <1>. HIDE DEF s
  <1>2. PICK f : /\ f = [n \in 0 .. Len(s) |->
                        IF n = 0 THEN told ELSE Tell(f[n - 1], s[n])]
                /\ Replayed(told, s) = f[Len(s)]
    BY <1>1, ReplayedEquation
  <1>3. f[0] = told /\ f[1] = Tell(f[0], a)
    BY <1>1, <1>2
  <1>4. Replayed(told, s) = Tell(told, a)
    BY <1>1, <1>2, <1>3
  <1>. QED BY <1>4 DEF s

LEMMA AtMostFour ==
  ASSUME NEW f, NEW g, NEW k \in 0 .. 4, f[0] = g[0],
         \A n \in 1 .. k : f[n - 1] = g[n - 1] => f[n] = g[n]
  PROVE  f[k] = g[k]
  <1>1. CASE k = 0
    BY <1>1
  <1>2. ASSUME k >= 1 PROVE f[1] = g[1]
    BY <1>2
  <1>3. ASSUME k >= 2 PROVE f[2] = g[2]
    BY <1>2, <1>3
  <1>4. ASSUME k >= 3 PROVE f[3] = g[3]
    BY <1>3, <1>4
  <1>5. ASSUME k >= 4 PROVE f[4] = g[4]
    BY <1>4, <1>5
  <1>. QED
    BY <1>1, <1>2, <1>3, <1>4, <1>5

LEMMA ReplayedBoth ==
  ASSUME NEW told, NEW S, NEW s \in Seq(S), NEW t \in Seq(S), Len(s) + Len(t) <= 4
  PROVE  Replayed(told, s \o t) = Replayed(Replayed(told, s), t)
  <1> DEFINE u == s \o t
  <1>0. u \in Seq(S) /\ Len(u) = Len(s) + Len(t)
    OBVIOUS
  <1>1. /\ u \in Seq(S) /\ Len(u) = Len(s) + Len(t)
        /\ Len(s) \in 0 .. 4 /\ Len(t) \in 0 .. 4 /\ Len(u) \in 0 .. 4
    <2>. HIDE DEF u
    <2>1. Len(s) \in Nat /\ Len(t) \in Nat
      OBVIOUS
    <2>2. \A k, l \in Nat :
           k + l <= 4 => k \in 0 .. 4 /\ l \in 0 .. 4 /\ k + l \in 0 .. 4
      OBVIOUS
    <2>. QED
      BY <1>0, <2>1, <2>2
  <1>2. \A n \in 1 .. Len(s) : u[n] = s[n]
    OBVIOUS
  <1>3. \A n \in 1 .. Len(t) : u[Len(s) + n] = t[n]
    OBVIOUS
  <1>. HIDE DEF u
  <1>4. PICK f : /\ f = [n \in 0 .. Len(s) |->
                        IF n = 0 THEN told ELSE Tell(f[n - 1], s[n])]
                 /\ Replayed(told, s) = f[Len(s)]
    BY <1>1, ReplayedEquation
  <1>5. PICK g : /\ g = [n \in 0 .. Len(t) |->
                        IF n = 0 THEN f[Len(s)] ELSE Tell(g[n - 1], t[n])]
                 /\ Replayed(f[Len(s)], t) = g[Len(t)]
    BY <1>1, ReplayedEquation
  <1>6. PICK h : /\ h = [n \in 0 .. Len(u) |->
                        IF n = 0 THEN told ELSE Tell(h[n - 1], u[n])]
                 /\ Replayed(told, u) = h[Len(u)]
    BY <1>1, ReplayedEquation
  <1>7. h[Len(s)] = f[Len(s)]
    <2>0. h[0] = f[0]
      BY <1>1, <1>4, <1>6
    <2>1. ASSUME NEW n \in 1 .. Len(s), h[n - 1] = f[n - 1] PROVE h[n] = f[n]
      <3>1. n \in 0 .. Len(s) /\ n \in 0 .. Len(u) /\ n # 0
        BY <1>1
      <3>2. h[n] = Tell(h[n - 1], u[n]) /\ f[n] = Tell(f[n - 1], s[n])
        BY <1>4, <1>6, <3>1
      <3>. QED BY <1>2, <2>1, <3>2
    <2>. QED BY <2>0, <2>1, <1>1, AtMostFour
  <1>8. h[Len(u)] = g[Len(t)]
    <2>0. h[Len(s)] = g[0]
      BY <1>1, <1>5, <1>7
    <2>1. ASSUME NEW n \in 1 .. Len(t), h[Len(s) + n - 1] = g[n - 1] PROVE h[Len(s) + n] = g[n]
      <3> DEFINE m == Len(s) + n
      <3>1. n \in 0 .. Len(t) /\ m \in 0 .. Len(u) /\ n # 0 /\ m # 0
        BY <1>1
      <3>2. m - 1 = Len(s) + n - 1
        BY <1>1
      <3>. HIDE DEF m
      <3>3. h[m] = Tell(h[m - 1], u[m]) /\ g[n] = Tell(g[n - 1], t[n])
        BY <1>5, <1>6, <3>1
      <3>4. u[m] = t[n]
        BY <1>3 DEF m
      <3>. QED BY <2>1, <3>2, <3>3, <3>4 DEF m
    <2> DEFINE rest == [n \in 0 .. Len(t) |-> h[Len(s) + n]]
    <2>2. rest[0] = g[0]
      BY <1>1, <2>0
    <2>3. \A n \in 1 .. Len(t) : rest[n - 1] = g[n - 1] => rest[n] = g[n]
      <3>1. SUFFICES ASSUME NEW n \in 1 .. Len(t), rest[n - 1] = g[n - 1]
                     PROVE  rest[n] = g[n]
        OBVIOUS
      <3>2. n - 1 \in 0 .. Len(t) /\ n \in 0 .. Len(t) /\ Len(s) + (n - 1) = Len(s) + n - 1
        BY <1>1
      <3>3. rest[n - 1] = h[Len(s) + n - 1] /\ rest[n] = h[Len(s) + n]
        BY <3>2
      <3>. QED
        BY <3>1, <3>3, <2>1
    <2>4. rest[Len(t)] = h[Len(u)]
      BY <1>1
    <2>. HIDE DEF rest
    <2>. QED BY <2>2, <2>3, <2>4, <1>1, AtMostFour
  <1>. QED BY <1>4, <1>5, <1>6, <1>8 DEF u

LEMMA ReplayedTwo ==
  ASSUME NEW told, NEW a, NEW b
  PROVE  Replayed(told, <<a>> \o <<b>>) = Tell(Tell(told, a), b)
  <1> DEFINE s == <<a>>
             t == <<b>>
             S == {a, b}
  <1>1. s \in Seq(S) /\ t \in Seq(S) /\ Len(s) + Len(t) <= 4
    OBVIOUS
  <1>2. Replayed(told, s) = Tell(told, a)
    BY ReplayedOne
  <1>3. Replayed(Tell(told, a), t) = Tell(Tell(told, a), b)
    BY ReplayedOne
  <1>. HIDE DEF s, t, S
  <1>4. Replayed(told, s \o t) = Replayed(Replayed(told, s), t)
    BY <1>1, ReplayedBoth
  <1>. QED
    BY <1>2, <1>3, <1>4 DEF s, t

LEMMA UpdateIsTold ==
  ASSUME NEW before \in Account, NEW after \in Account, before.must = after.must
  PROVE  Replayed(Trail(before), UpdateEvents(before, after)) = Trail(after)
  <1> DEFINE e == [action |-> "USER_UPDATED"]
             er == [action |-> "SYSTEM_ROLE_CHANGED", after |-> after.role]
             eg == [ action |-> "ACCESS_GRANTS_CHANGED",
                     added |-> after.grants \ before.grants,
                     removed |-> before.grants \ after.grants ]
             ea == [action |-> IF after.active THEN "USER_ACTIVATED"
                                               ELSE "USER_DEACTIVATED"]
             r == IF before.role = after.role THEN <<>> ELSE <<er>>
             g == IF before.grants = after.grants THEN <<>> ELSE <<eg>>
             a == IF before.active = after.active THEN <<>> ELSE <<ea>>
             S == {e, er, eg, ea}
             t0 == Trail(before)
             t1 == Trail([before EXCEPT !.role = after.role])
             t2 == Trail([before EXCEPT !.role = after.role, !.grants = after.grants])
             t3 == Trail(after)
  <1>1. /\ Tell(t0, e) = t0
        /\ Tell(t0, er) = t1
        /\ Tell(t1, eg) = t2
        /\ Tell(t2, ea) = t3
    <2>1. Tell(t0, e) = t0
      BY DEF Tell
    <2>2. Tell(t0, er) = t1
      BY DEF Tell, Trail
    <2>3. Tell(t1, eg) = t2
      BY DEF Tell, Trail, Account
    <2>4. Tell(t2, ea) = t3
      BY DEF Tell, Trail, Account
    <2>. QED BY <2>1, <2>2, <2>3, <2>4
  <1>2. /\ before.role = after.role => t1 = t0
        /\ before.grants = after.grants => t2 = t1
        /\ before.active = after.active => t3 = t2
    BY DEF Trail, Account
  <1>4. UpdateEvents(before, after) = <<e>> \o r \o g \o a
    BY DEF UpdateEvents, GrantEvents
  <1>5. /\ <<e>> \in Seq(S) /\ Len(<<e>>) = 1
        /\ r \in Seq(S) /\ Len(r) <= 1
        /\ g \in Seq(S) /\ Len(g) <= 1
        /\ a \in Seq(S) /\ Len(a) <= 1
    <2>1. {e, er, eg, ea} = S
      OBVIOUS
    <2>. HIDE DEF e, er, eg, ea, S
    <2>2. e \in S /\ er \in S /\ eg \in S /\ ea \in S
      BY <2>1
    <2>3. \A z \in S : <<z>> \in Seq(S) /\ Len(<<z>>) = 1
      OBVIOUS
    <2>4. <<>> \in Seq(S) /\ Len(<<>>) = 0
      OBVIOUS
    <2>. QED BY <2>2, <2>3, <2>4
  <1>6. /\ Replayed(t0, <<e>>) = t0
        /\ Replayed(t0, r) = t1
        /\ Replayed(t1, g) = t2
        /\ Replayed(t2, a) = t3
    <2>. HIDE DEF e, er, eg, ea, t0, t1, t2, t3
    <2>. QED BY <1>1, <1>2, ReplayedNone, ReplayedOne
  <1>. HIDE DEF e, er, eg, ea, t0, t1, t2, t3, r, g, a, S
  <1> DEFINE v == <<e>>
             x == v \o r
             y == x \o g
             z == y \o a
  <1>7. v \in Seq(S) /\ Len(v) <= 1 /\ Replayed(t0, v) = t0
    BY <1>5, <1>6
  <1>. HIDE DEF v
  <1>8. x \in Seq(S) /\ Len(x) <= 2 /\ Replayed(t0, x) = t1
    <2>1. v \in Seq(S) /\ r \in Seq(S)
      BY <1>5, <1>7
    <2>2. x \in Seq(S) /\ Len(x) = Len(v) + Len(r)
      BY <2>1
    <2>3. Len(v) + Len(r) <= 2
      BY <1>5, <1>7
    <2>4. Replayed(t0, x) = Replayed(Replayed(t0, v), r)
      BY <2>1, <2>3, ReplayedBoth
    <2>. QED
      BY <1>6, <1>7, <2>2, <2>3, <2>4
  <1>. HIDE DEF x
  <1>9. y \in Seq(S) /\ Len(y) <= 3 /\ Replayed(t0, y) = t2
    <2>1. x \in Seq(S) /\ g \in Seq(S)
      BY <1>5, <1>8
    <2>2. y \in Seq(S) /\ Len(y) = Len(x) + Len(g)
      BY <2>1
    <2>3. Len(x) + Len(g) <= 3
      BY <1>5, <1>8
    <2>4. Replayed(t0, y) = Replayed(Replayed(t0, x), g)
      BY <2>1, <2>3, ReplayedBoth
    <2>. QED
      BY <1>6, <1>8, <2>2, <2>3, <2>4
  <1>. HIDE DEF y
  <1>10. Replayed(t0, z) = Replayed(Replayed(t0, y), a)
    <2>1. Len(y) + Len(a) <= 4 /\ y \in Seq(S) /\ a \in Seq(S)
      BY <1>5, <1>9
    <2>. QED
      BY <2>1, ReplayedBoth
  <1>. QED
    BY <1>4, <1>6, <1>9, <1>10 DEF v, x, y, t0, t3
-----------------------------------------------------------------------------
(* Writing the document.                                                   *)

LEMMA NotNone ==
  /\ None \notin Account /\ None \notin UserIds /\ None \notin Names
  /\ \A r \in TrailRecord : r.role \in Roles
  BY AccountsAssumption DEF AccountsAssumption, TrailRecord

LEMMA NewValue ==
  ASSUME NEW S, NEW old \in S, NEW value \in S \cup {Keep}
  PROVE  New(value, old) \in S
  BY DEF New

LEMMA UsersWritten ==
  ASSUME AccountsInv, NEW u \in UserIds, NEW account \in Account, NEW events,
         WriteAccount(u, account, events)
  PROVE  /\ doc'.users = [doc.users EXCEPT ![u] = account]
         /\ doc'.users \in [UserIds -> Account \cup {None}]
         /\ doc'.users[u] = account
         /\ \A v \in UserIds \ {u} : doc'.users[v] = doc.users[v]
         /\ doc'.trail = [doc.trail EXCEPT ![u] = Replayed(doc.trail[u], events)]
         /\ doc' = [ users |-> doc'.users, factories |-> doc.factories,
                     trail |-> doc'.trail, revision |-> doc.revision + 1 ]
         /\ Remember(doc)
  <1>1. doc \in Documents
    BY DEF AccountsInv, GoodDocument
  <1>2. doc.users \in [UserIds -> Account \cup {None}]
    BY <1>1 DEF Documents
  <1> DEFINE users == [doc.users EXCEPT ![u] = account]
             trail == [doc.trail EXCEPT ![u] = Replayed(doc.trail[u], events)]
  <1>3. doc' = [doc EXCEPT !.users = users, !.revision = @ + 1,
                            !.trail[u] = Replayed(@, events)]
    BY DEF WriteAccount
  <1>4. doc' = [ users |-> users, factories |-> doc.factories,
                 trail |-> trail, revision |-> doc.revision + 1 ]
    <2>. HIDE DEF users
    <2>. QED
      BY <1>1, <1>3 DEF Documents
  <1>5. /\ users \in [UserIds -> Account \cup {None}] /\ users[u] = account
        /\ \A v \in UserIds \ {u} : users[v] = doc.users[v]
    BY <1>2
  <1>6. Remember(doc)
    BY DEF WriteAccount
  <1>. HIDE DEF users, trail
  <1>7. doc'.users = users /\ doc'.trail = trail
    BY <1>4
  <1>. QED
    BY <1>4, <1>5, <1>6, <1>7 DEF users, trail

(* A document in which one account is replaced, and its trail with it.     *)
LEMMA GoodReplacement ==
  ASSUME GoodDocument(doc), NEW u \in UserIds, NEW account \in Account,
         doc'.users = [doc.users EXCEPT ![u] = account],
         doc'.trail = [doc.trail EXCEPT ![u] = Trail(account)],
         doc' = [ users |-> doc'.users, factories |-> doc.factories,
                  trail |-> doc'.trail, revision |-> doc.revision + 1 ],
         \E v \in UserIds : ActiveAdmin(doc'.users, v),
         issued \subseteq issued', u \in issued'
  PROVE  GoodDocument(doc)'
  <1>0. /\ doc \in Documents /\ doc.trail = TrailOf(doc.users)
        /\ \A v \in UserIds : doc.users[v] # None => v \in issued
    BY DEF GoodDocument
  <1>1. /\ doc.users \in [UserIds -> Account \cup {None}]
        /\ doc.trail \in [UserIds -> TrailRecord \cup {None}]
        /\ doc.factories \in [Factories -> {"unknown", "active", "inactive"}]
        /\ doc.revision + 1 \in Nat
    BY <1>0 DEF Documents
  <1>2. /\ doc'.users \in [UserIds -> Account \cup {None}]
        /\ doc'.users[u] = account
        /\ \A v \in UserIds \ {u} : doc'.users[v] = doc.users[v]
    BY <1>1
  <1>3. doc' \in Documents
    <2>1. Trail(account) \in TrailRecord
      BY DEF Trail, TrailRecord, Account
    <2>2. doc'.trail \in [UserIds -> TrailRecord \cup {None}]
      BY <1>1, <2>1
    <2>. QED
      BY <1>1, <1>2, <2>2 DEF Documents
  <1>4. doc'.trail = TrailOf(doc'.users)
    <2>1. account # None
      BY NotNone
    <2>2. TrailOf(doc'.users) =
            [v \in UserIds |-> IF v = u THEN Trail(account)
                               ELSE IF doc.users[v] = None THEN None
                                    ELSE Trail(doc.users[v])]
      BY <1>2, <2>1 DEF TrailOf
    <2>3. doc.trail = [v \in UserIds |-> IF doc.users[v] = None THEN None
                                         ELSE Trail(doc.users[v])]
      BY <1>0 DEF TrailOf
    <2>. QED
      BY <2>2, <2>3
  <1>5. \A v \in UserIds : doc'.users[v] # None => v \in issued'
    BY <1>0, <1>2
  <1>. QED
    BY <1>3, <1>4, <1>5 DEF GoodDocument

LEMMA DocumentWritten ==
  ASSUME AccountsInv, NEW u \in UserIds, NEW account \in Account, NEW events,
         WriteAccount(u, account, events),
         Replayed(doc.trail[u], events) = Trail(account),
         \E v \in UserIds : ActiveAdmin(doc'.users, v),
         issued \subseteq issued', u \in issued', recoveries' = recoveries
  PROVE  /\ GoodDocument(doc)'
         /\ (recoveries < MaxRecoveries => GoodDocument(prior))'
  <1>0. /\ doc'.users = [doc.users EXCEPT ![u] = account]
        /\ doc'.users \in [UserIds -> Account \cup {None}]
        /\ doc'.users[u] = account
        /\ \A v \in UserIds \ {u} : doc'.users[v] = doc.users[v]
        /\ doc'.trail = [doc.trail EXCEPT ![u] = Replayed(doc.trail[u], events)]
        /\ doc' = [ users |-> doc'.users, factories |-> doc.factories,
                    trail |-> doc'.trail, revision |-> doc.revision + 1 ]
        /\ Remember(doc)
    BY UsersWritten, Zenon
  <1>t. doc'.trail = [doc.trail EXCEPT ![u] = Trail(account)]
    BY <1>0
  <1>1. GoodDocument(doc)
    BY DEF AccountsInv
  <1>2. GoodDocument(doc)'
    BY <1>0, <1>1, <1>t, GoodReplacement
  <1>3. prior' = doc \/ ~(recoveries' < MaxRecoveries)
    BY <1>0 DEF Remember
  <1>. QED
    BY <1>1, <1>2, <1>3 DEF GoodDocument

(* The trail of an account that exists.                                    *)
LEMMA TrailNow ==
  ASSUME AccountsInv, NEW u \in UserIds
  PROVE  doc.trail[u] = IF doc.users[u] = None THEN None ELSE Trail(doc.users[u])
  BY DEF AccountsInv, GoodDocument, TrailOf

LEMMA AdminKept ==
  ASSUME AccountsInv, NEW u \in UserIds, NEW account \in Account, NEW events,
         WriteAccount(u, account, events), doc.users[u] # None,
         account.role = doc.users[u].role, account.active = doc.users[u].active
  PROVE  \E v \in UserIds : ActiveAdmin(doc'.users, v)
  <1>0. /\ doc'.users[u] = account
        /\ \A v \in UserIds \ {u} : doc'.users[v] = doc.users[v]
    BY UsersWritten
  <1>1. PICK v \in UserIds : ActiveAdmin(doc.users, v)
    BY DEF AccountsInv, GoodDocument
  <1>2. CASE v = u
    BY <1>0, <1>1, <1>2, NotNone DEF ActiveAdmin, IsAdmin
  <1>3. CASE v # u
    BY <1>0, <1>1, <1>3 DEF ActiveAdmin, IsAdmin
  <1>. QED
    BY <1>2, <1>3

(* The whole invariant, once the document is seen to.                      *)
LEMMA ClientsFollow ==
  ASSUME AccountsInv, NEW c \in Clients, Leave(c), issued' \subseteq UserIds,
         GoodDocument(doc)', (recoveries < MaxRecoveries => GoodDocument(prior))'
  PROVE  AccountsInv'
  BY DEF AccountsInv, ClientsOK, Leave

-----------------------------------------------------------------------------
(* Requests.                                                               *)

LEMMA LoginInv ==
  ASSUME AccountsInv, NEW c \in Clients, NEW name \in Names, Login(c, name)
  PROVE  AccountsInv'
  <1>1. PICK u \in UserIds : /\ Exists(u)
                             /\ WriteAccount(u, LoggedIn(doc.users[u]), <<>>)
                             /\ session' = [session EXCEPT ![c] = u]
    BY DEF Login
  <1> DEFINE account == LoggedIn(doc.users[u])
  <1>2. /\ doc.users[u] \in Account /\ account \in Account
        /\ account.role = doc.users[u].role /\ account.active = doc.users[u].active
        /\ Trail(account) = Trail(doc.users[u])
    BY <1>1 DEF Exists, AccountsInv, GoodDocument, Documents, LoggedIn, Account, Trail
  <1>3. Replayed(doc.trail[u], <<>>) = Trail(account)
    BY <1>1, <1>2, TrailNow, ReplayedNone DEF Exists
  <1>4. UNCHANGED <<form, gate, prompt, issued, recoveries>>
    BY DEF Login, operator
  <1>5. u \in issued
    BY <1>1 DEF AccountsInv, GoodDocument, Exists
  <1>. HIDE DEF account
  <1>6. \E v \in UserIds : ActiveAdmin(doc'.users, v)
    BY <1>1, <1>2, AdminKept DEF Exists, account
  <1>7. GoodDocument(doc)' /\ (recoveries < MaxRecoveries => GoodDocument(prior))'
    BY <1>1, <1>2, <1>3, <1>4, <1>5, <1>6, DocumentWritten DEF account
  <1>. QED
    BY <1>1, <1>4, <1>7 DEF AccountsInv, ClientsOK

LEMMA CreateUserInv ==
  ASSUME AccountsInv, NEW c \in Clients, NEW u \in UserIds, NEW email \in Names,
         NEW role \in Roles, NEW submitted \in SUBSET Factories,
         CreateUser(c, u, email, role, submitted)
  PROVE  AccountsInv'
  <1> DEFINE grants == IF role = "ADMIN" THEN {} ELSE submitted
             account == [ role |-> role, active |-> TRUE, grants |-> grants,
                          email |-> email, username |-> email, must |-> TRUE,
                          revision |-> 1 ]
             e == [action |-> "USER_CREATED", role |-> role]
             told == [role |-> role, active |-> TRUE, grants |-> {}, must |-> TRUE]
  <1>1. /\ WriteAccount(u, account, <<e>> \o GrantEvents({}, grants))
        /\ ActiveAdmin(doc.users, gate[c].actor) /\ gate[c].actor \in UserIds
        /\ u \notin issued /\ issued' = issued \cup {u} /\ Leave(c)
    BY DEF CreateUser, ActorIsAdmin, Inside, AccountsInv, ClientsOK
  <1>2. account \in Account
    BY DEF Account
  <1>3. Replayed(doc.trail[u], <<e>> \o GrantEvents({}, grants)) = Trail(account)
    <2>1. Tell(doc.trail[u], e) = told
      BY DEF Tell
    <2>2. CASE grants = {}
      <3>1. GrantEvents({}, grants) = <<>>
        BY <2>2 DEF GrantEvents
      <3>2. <<e>> \o <<>> = <<e>>
        <4>. HIDE DEF e
        <4>. QED OBVIOUS
      <3>3. told = Trail(account)
        BY <2>2 DEF Trail
      <3>. HIDE DEF e, told, account
      <3>. QED
        BY <2>1, <3>1, <3>2, <3>3, ReplayedOne
    <2>3. CASE grants # {}
      <3> DEFINE eg == [ action |-> "ACCESS_GRANTS_CHANGED",
                         added |-> grants \ {}, removed |-> {} \ grants ]
      <3>1. GrantEvents({}, grants) = <<eg>>
        BY <2>3 DEF GrantEvents
      <3>2. Tell(told, eg) = Trail(account)
        BY DEF Tell, Trail
      <3>. HIDE DEF e, eg, told, account
      <3>3. Replayed(doc.trail[u], <<e>> \o <<eg>>) = Tell(Tell(doc.trail[u], e), eg)
        BY ReplayedTwo
      <3>. QED
        BY <2>1, <3>1, <3>2, <3>3
    <2>. QED
      BY <2>2, <2>3
  <1>4. \E v \in UserIds : ActiveAdmin(doc'.users, v)
    <2>1. gate[c].actor # u
      BY <1>1 DEF ActiveAdmin, AccountsInv, GoodDocument
    <2>. HIDE DEF account
    <2>2. \A v \in UserIds \ {u} : doc'.users[v] = doc.users[v]
      BY <1>1, <1>2, UsersWritten
    <2>3. ActiveAdmin(doc'.users, gate[c].actor)
      BY <1>1, <2>1, <2>2 DEF ActiveAdmin
    <2>. QED
      BY <1>1, <2>3
  <1>. HIDE DEF account
  <1>5. GoodDocument(doc)' /\ (recoveries < MaxRecoveries => GoodDocument(prior))'
    <2>1. recoveries' = recoveries
      BY <1>1 DEF Leave
    <2>. QED
      BY <1>1, <1>2, <1>3, <1>4, <2>1, DocumentWritten
  <1>. QED
    BY <1>1, <1>5, ClientsFollow DEF AccountsInv

(* A request that only reads the document.                                 *)
LEMMA ReadingInv ==
  ASSUME AccountsInv, NEW c \in Clients,
         \/ Logout(c) \/ EnterAdministration(c) \/ EnterChangePassword(c)
         \/ Refuse(c) \/ \E u \in UserIds : OpenForm(c, u)
  PROVE  AccountsInv'
  <1>1. ClientsOK /\ doc.users \in [UserIds -> Account \cup {None}]
    BY DEF AccountsInv, GoodDocument, Documents
  <1>2. UNCHANGED <<doc, prior, operator>> /\ ClientsOK'
    <2>1. CASE Logout(c)
      BY <1>1, <2>1 DEF Logout, ClientsOK, operator
    <2>2. CASE EnterAdministration(c)
      BY <1>1, <2>2 DEF EnterAdministration, LoginRequired, CurrentUser, ClientsOK, operator
    <2>3. CASE EnterChangePassword(c)
      BY <1>1, <2>3 DEF EnterChangePassword, CurrentUser, ClientsOK, operator
    <2>4. CASE Refuse(c)
      BY <1>1, <2>4 DEF Refuse, Leave, ClientsOK, operator
    <2>5. ASSUME NEW u \in UserIds, OpenForm(c, u) PROVE UNCHANGED <<doc, prior, operator>> /\ ClientsOK'
      BY <1>1, <2>5 DEF OpenForm, Exists, ClientsOK, operator
    <2>. QED
      BY <2>1, <2>2, <2>3, <2>4, <2>5
  <1>. QED
    BY <1>2 DEF AccountsInv, GoodDocument, operator

(* What a change may be made of, and makes.                                *)
LEMMA EditedAccount ==
  ASSUME NEW old \in Account, NEW change \in Changes
  PROVE  /\ Edited(old, change) \in Account
         /\ Edited(old, change).must = old.must
         /\ Edited(old, change).role = New(change.role, old.role)
         /\ Edited(old, change).active = New(change.active, old.active)
         /\ Edited(old, change).revision = old.revision + 1
  <1>1. /\ New(change.role, old.role) \in Roles
        /\ New(change.active, old.active) \in BOOLEAN
        /\ New(change.email, old.email) \in Names
        /\ New(change.email, old.username) \in Names
        /\ New(change.grants, old.grants) \in SUBSET Factories
    <2>1. /\ old.role \in Roles /\ old.active \in BOOLEAN /\ old.email \in Names
          /\ old.username \in Names /\ old.grants \in SUBSET Factories
          /\ change.role \in Roles \cup {Keep} /\ change.active \in BOOLEAN \cup {Keep}
          /\ change.email \in Names \cup {Keep}
          /\ change.grants \in (SUBSET Factories) \cup {Keep}
      BY DEF Account, Changes
    <2>. HIDE DEF Roles
    <2>2. New(change.role, old.role) \in Roles
      BY <2>1 DEF New
    <2>3. New(change.active, old.active) \in BOOLEAN
      BY <2>1, Zenon DEF New
    <2>4. New(change.email, old.email) \in Names /\ New(change.email, old.username) \in Names
      BY <2>1 DEF New
    <2>5. New(change.grants, old.grants) \in SUBSET Factories
      <3>1. CASE change.grants = Keep
        BY <2>1, <3>1 DEF New
      <3>2. CASE change.grants # Keep
        <4>1. change.grants \in SUBSET Factories
          BY <2>1, <3>2
        <4>. QED
          BY <3>2, <4>1 DEF New
      <3>. QED
        BY <3>1, <3>2
    <2>. QED
      BY <2>2, <2>3, <2>4, <2>5
  <1> DEFINE grants == IF New(change.role, old.role) = "ADMIN" THEN {}
                       ELSE New(change.grants, old.grants)
  <1>2. grants \in SUBSET Factories
    BY <1>1
  <1> DEFINE role == New(change.role, old.role)
             active == New(change.active, old.active)
             email == New(change.email, old.email)
             username == New(change.email, old.username)
             made == [ role |-> role, active |-> active, grants |-> grants,
                       email |-> email, username |-> username,
                       must |-> old.must, revision |-> old.revision + 1 ]
  <1>3. Edited(old, change) =
          [old EXCEPT !.role = role, !.active = active, !.grants = grants,
                      !.email = email, !.username = username, !.revision = @ + 1]
    BY DEF Edited
  <1>4. role \in Roles /\ active \in BOOLEAN /\ email \in Names /\ username \in Names
    BY <1>1
  <1>. HIDE DEF role, active, grants, email, username
  <1>5. Edited(old, change) = made
    BY <1>3 DEF Account
  <1>6. made \in Account /\ made.must = old.must /\ made.revision = old.revision + 1
        /\ made.role = role /\ made.active = active
    BY <1>2, <1>4 DEF Account
  <1>. QED
    BY <1>5, <1>6 DEF role, active

(* A request that rewrites an account and ends.                            *)
LEMMA RewriteInv ==
  ASSUME AccountsInv, NEW c \in Clients, NEW u \in UserIds, doc.users[u] # None,
         NEW account \in Account, NEW events, WriteAccount(u, account, events),
         Replayed(Trail(doc.users[u]), events) = Trail(account),
         \E v \in UserIds : ActiveAdmin(doc'.users, v),
         Leave(c), UNCHANGED issued
  PROVE  AccountsInv'
  <1>1. Replayed(doc.trail[u], events) = Trail(account)
    BY TrailNow
  <1>2. u \in issued /\ issued \subseteq UserIds
    BY DEF AccountsInv, GoodDocument
  <1>3. recoveries' = recoveries
    BY DEF Leave
  <1>4. GoodDocument(doc)' /\ (recoveries < MaxRecoveries => GoodDocument(prior))'
    BY <1>1, <1>2, <1>3, DocumentWritten
  <1>. QED
    BY <1>2, <1>4, ClientsFollow

LEMMA UpdateUserInv ==
  ASSUME AccountsInv, NEW c \in Clients, NEW change \in Changes,
         UpdateUser(c, change)
  PROVE  AccountsInv'
  <1> DEFINE u == form[c].target
             old == doc.users[u]
             new == Edited(old, change)
  <1>1. /\ u \in UserIds /\ old # None /\ MayEdit(c, u, change)
        /\ WriteAccount(u, new, UpdateEvents(old, new))
        /\ Leave(c) /\ UNCHANGED issued
    BY DEF UpdateUser, FormIsCurrent, Exists, AccountsInv, ClientsOK
  <1>2. old \in Account
    BY <1>1 DEF AccountsInv, GoodDocument, Documents
  <1>3. /\ new \in Account /\ new.must = old.must
        /\ new.role = New(change.role, old.role)
        /\ new.active = New(change.active, old.active)
    BY <1>2, EditedAccount
  <1>4. AdminStays(u, new.role, new.active)
    BY <1>1, <1>3 DEF MayEdit
  <1>. HIDE DEF new, old, u
  <1>5. Replayed(Trail(old), UpdateEvents(old, new)) = Trail(new)
    BY <1>2, <1>3, UpdateIsTold
  <1>6. \E v \in UserIds : ActiveAdmin(doc'.users, v)
    <2>1. doc'.users[u] = new /\ \A v \in UserIds \ {u} : doc'.users[v] = doc.users[v]
      BY <1>1, <1>3, UsersWritten
    <2>2. CASE \E v \in UserIds \ {u} : ActiveAdmin(doc.users, v)
      BY <2>1, <2>2 DEF ActiveAdmin
    <2>3. CASE new.role = "ADMIN" /\ new.active
      BY <1>1, <1>3, <2>1, <2>3, NotNone DEF ActiveAdmin, IsAdmin
    <2>. QED
      BY <1>4, <2>2, <2>3 DEF AdminStays
  <1>. QED
    BY <1>1, <1>3, <1>5, <1>6, RewriteInv DEF old

(* An account with another password flag, under the next revision.         *)
LEMMA FlaggedAccount ==
  ASSUME NEW old \in Account, NEW flag \in BOOLEAN
  PROVE  /\ [old EXCEPT !.must = flag, !.revision = @ + 1] \in Account
         /\ Trail([old EXCEPT !.must = flag, !.revision = @ + 1])
              = [Trail(old) EXCEPT !.must = flag]
         /\ [old EXCEPT !.must = flag, !.revision = @ + 1].role = old.role
         /\ [old EXCEPT !.must = flag, !.revision = @ + 1].active = old.active
  <1> DEFINE new == [old EXCEPT !.must = flag, !.revision = @ + 1]
             made == [ role |-> old.role, active |-> old.active,
                       grants |-> old.grants, email |-> old.email,
                       username |-> old.username, must |-> flag,
                       revision |-> old.revision + 1 ]
  <1>0. new = [old EXCEPT !.must = flag, !.revision = @ + 1]
    OBVIOUS
  <1>. HIDE DEF new
  <1>1. new = made
    BY <1>0 DEF Account
  <1>2. made \in Account
    <2>1. /\ old.role \in Roles /\ old.active \in BOOLEAN /\ old.grants \in SUBSET Factories
          /\ old.email \in Names /\ old.username \in Names /\ old.revision + 1 \in Nat
      BY DEF Account
    <2> HIDE DEF Roles
    <2>. QED
      BY <2>1 DEF Account
  <1>3. Trail(made) = [Trail(old) EXCEPT !.must = flag]
    BY DEF Trail
  <1>. QED
    BY <1>0, <1>1, <1>2, <1>3

LEMMA ResetPasswordInv ==
  ASSUME AccountsInv, NEW c \in Clients, ResetPassword(c)
  PROVE  AccountsInv'
  <1> DEFINE u == form[c].target
             old == doc.users[u]
             new == [old EXCEPT !.must = TRUE, !.revision = @ + 1]
             e == [action |-> "PASSWORD_RESET_BY_ADMIN"]
  <1>1. /\ u \in UserIds /\ old # None /\ WriteAccount(u, new, <<e>>)
        /\ Leave(c) /\ UNCHANGED issued
    BY DEF ResetPassword, FormIsCurrent, Exists, AccountsInv, ClientsOK
  <1>2. old \in Account
    BY <1>1 DEF AccountsInv, GoodDocument, Documents
  <1>3. /\ new \in Account /\ new.role = old.role /\ new.active = old.active
        /\ Tell(Trail(old), e) = Trail(new)
    <2>1. Tell(Trail(old), e) = [Trail(old) EXCEPT !.must = TRUE]
      BY DEF Tell
    <2>. QED
      BY <1>2, <2>1, FlaggedAccount
  <1>. HIDE DEF new, e, old, u
  <1>4. Replayed(Trail(old), <<e>>) = Trail(new)
    BY <1>3, ReplayedOne
  <1>5. \E v \in UserIds : ActiveAdmin(doc'.users, v)
    BY <1>1, <1>3, AdminKept DEF old
  <1>. QED
    BY <1>1, <1>3, <1>4, <1>5, RewriteInv DEF old

LEMMA ChangePasswordInv ==
  ASSUME AccountsInv, NEW c \in Clients, ChangePassword(c)
  PROVE  AccountsInv'
  <1> DEFINE u == gate[c].actor
             old == doc.users[u]
             new == PasswordChanged(old)
             e == [action |-> "PASSWORD_CHANGED"]
  <1>1. /\ u \in UserIds /\ old # None /\ WriteAccount(u, new, <<e>>)
        /\ Leave(c) /\ UNCHANGED issued
    BY DEF ChangePassword, Inside, Exists, AccountsInv, ClientsOK
  <1>2. old \in Account
    BY <1>1 DEF AccountsInv, GoodDocument, Documents
  <1>3. /\ new \in Account /\ new.role = old.role /\ new.active = old.active
        /\ Tell(Trail(old), e) = Trail(new)
    <2>1. Tell(Trail(old), e) = [Trail(old) EXCEPT !.must = FALSE]
      BY DEF Tell
    <2>. QED
      BY <1>2, <2>1, FlaggedAccount DEF PasswordChanged
  <1>. HIDE DEF new, e, old, u
  <1>4. Replayed(Trail(old), <<e>>) = Trail(new)
    BY <1>3, ReplayedOne
  <1>5. \E v \in UserIds : ActiveAdmin(doc'.users, v)
    BY <1>1, <1>3, AdminKept DEF old
  <1>. QED
    BY <1>1, <1>3, <1>4, <1>5, RewriteInv DEF old

LEMMA FactoriesAdded ==
  ASSUME AccountsInv, NEW new \in SUBSET Factories, AddFactories(new),
         UNCHANGED <<issued, recoveries>>
  PROVE  /\ GoodDocument(doc)'
         /\ (recoveries < MaxRecoveries => GoodDocument(prior))'
         /\ doc'.users = doc.users
  <1> DEFINE factories == [f \in Factories |->
                             IF f \in new THEN "active" ELSE doc.factories[f]]
  <1>1. doc \in Documents
    BY DEF AccountsInv, GoodDocument
  <1>2. doc' = [doc EXCEPT !.revision = @ + 1, !.factories = factories]
    BY DEF AddFactories
  <1>3. factories \in [Factories -> {"unknown", "active", "inactive"}]
    BY <1>1 DEF Documents
  <1>. HIDE DEF factories
  <1>4. doc' = [ users |-> doc.users, factories |-> factories,
                 trail |-> doc.trail, revision |-> doc.revision + 1 ]
    BY <1>1, <1>2 DEF Documents
  <1>5. doc' \in Documents
    BY <1>1, <1>3, <1>4 DEF Documents
  <1>6. doc'.users = doc.users /\ doc'.trail = doc.trail
    BY <1>4
  <1>7. GoodDocument(doc)'
    BY <1>5, <1>6 DEF AccountsInv, GoodDocument
  <1>8. prior' = doc \/ ~(recoveries' < MaxRecoveries)
    BY DEF AddFactories, Remember
  <1>. QED
    BY <1>6, <1>7, <1>8 DEF AccountsInv, GoodDocument

LEMMA CreateFactoryInv ==
  ASSUME AccountsInv, NEW c \in Clients, NEW f \in Factories, CreateFactory(c, f)
  PROVE  AccountsInv'
  <1>1. AddFactories({f}) /\ Leave(c) /\ UNCHANGED <<issued, recoveries>>
    BY DEF CreateFactory, Leave
  <1>2. GoodDocument(doc)' /\ (recoveries < MaxRecoveries => GoodDocument(prior))'
    BY <1>1, FactoriesAdded
  <1>. QED
    BY <1>1, <1>2, ClientsFollow DEF AccountsInv

LEMMA MergeFactoriesInv ==
  ASSUME AccountsInv, NEW found \in SUBSET Factories, MergeFactories(found)
  PROVE  AccountsInv'
  <1>1. AddFactories(found \ Known) /\ UNCHANGED <<clients, prompt, issued, recoveries>>
    BY DEF MergeFactories, operator
  <1>2. GoodDocument(doc)' /\ (recoveries < MaxRecoveries => GoodDocument(prior))'
    BY <1>1, FactoriesAdded
  <1>. QED
    BY <1>1, <1>2 DEF AccountsInv, ClientsOK, clients

(* What the bootstrap command installs.                                    *)
LEMMA BootstrapWritten ==
  ASSUME AccountsInv, NEW u \in UserIds, NEW email \in Names, BootstrapCreate(u, email)
  PROVE  \E account \in Account :
           /\ doc'.users = [doc.users EXCEPT ![u] = account]
           /\ doc'.trail = [doc.trail EXCEPT ![u] = Trail(account)]
           /\ doc' = [ users |-> doc'.users, factories |-> doc.factories,
                       trail |-> doc'.trail, revision |-> doc.revision + 1 ]
           /\ ActiveAdmin(doc'.users, u)
  <1> DEFINE account == [ role |-> "ADMIN", active |-> TRUE, grants |-> {},
                          email |-> email, username |-> prompt, must |-> FALSE,
                          revision |-> 1 ]
             users == [doc.users EXCEPT ![u] = account]
  <1>1. account \in Account /\ account # None
    <2>1. prompt \in Names
      BY DEF BootstrapCreate, AccountsInv
    <2>2. account \in Account
      BY <2>1 DEF Account, Roles
    <2>. QED
      BY <2>2, NotNone
  <1>2. account.active /\ IsAdmin(account)
    BY DEF IsAdmin
  <1>3. doc' = [doc EXCEPT !.users = users, !.revision = @ + 1,
                           !.trail[u] = Trail(account)]
    BY DEF BootstrapCreate
  <1>4. doc \in Documents
    BY DEF AccountsInv, GoodDocument
  <1>. HIDE DEF account
  <1>5. doc' = [ users |-> users, factories |-> doc.factories,
                 trail |-> [doc.trail EXCEPT ![u] = Trail(account)],
                 revision |-> doc.revision + 1 ]
    <2>. HIDE DEF users
    <2>. QED
      BY <1>3, <1>4 DEF Documents
  <1>6. doc'.users = users /\ doc'.trail = [doc.trail EXCEPT ![u] = Trail(account)]
    <2>. HIDE DEF users
    <2>. QED
      BY <1>5
  <1>7. doc'.users[u] = account
    BY <1>4, <1>6 DEF Documents
  <1>8. ActiveAdmin(doc'.users, u)
    BY <1>1, <1>2, <1>7 DEF ActiveAdmin
  <1>. QED
    BY <1>1, <1>5, <1>6, <1>8

LEMMA BootstrapCreateInv ==
  ASSUME AccountsInv, NEW u \in UserIds, NEW email \in Names, BootstrapCreate(u, email)
  PROVE  AccountsInv'
  <1>1. PICK account \in Account :
           /\ doc'.users = [doc.users EXCEPT ![u] = account]
           /\ doc'.trail = [doc.trail EXCEPT ![u] = Trail(account)]
           /\ doc' = [ users |-> doc'.users, factories |-> doc.factories,
                       trail |-> doc'.trail, revision |-> doc.revision + 1 ]
           /\ ActiveAdmin(doc'.users, u)
    BY BootstrapWritten
  <1>2. /\ issued' = issued \cup {u} /\ prompt' = None /\ Remember(doc)
        /\ UNCHANGED <<clients, recoveries>>
    BY DEF BootstrapCreate
  <1>3. GoodDocument(doc)
    BY DEF AccountsInv
  <1>4. GoodDocument(doc)'
    BY <1>1, <1>2, <1>3, GoodReplacement
  <1>5. prior' = doc \/ ~(recoveries' < MaxRecoveries)
    BY <1>2 DEF Remember
  <1>6. (recoveries < MaxRecoveries => GoodDocument(prior))'
    BY <1>2, <1>3, <1>5 DEF GoodDocument
  <1>. QED
    BY <1>2, <1>4, <1>6 DEF AccountsInv, ClientsOK, clients

LEMMA BootstrapPromptInv ==
  ASSUME AccountsInv, BootstrapStop \/ \E username \in Names : BootstrapAsk(username)
  PROVE  AccountsInv'
  BY DEF BootstrapStop, BootstrapAsk, AccountsInv, GoodDocument, ClientsOK, clients

LEMMA RecoverInv ==
  ASSUME AccountsInv, Recover
  PROVE  AccountsInv'
  <1>1. PICK source \in {doc, prior} :
          /\ doc' = [source EXCEPT !.revision = @ + 1]
          /\ prior' = IF recoveries + 1 < MaxRecoveries THEN source ELSE None
    BY DEF Recover
  <1>2. /\ recoveries < MaxRecoveries /\ recoveries' = recoveries + 1
        /\ UNCHANGED <<clients, prompt, issued>>
    BY DEF Recover
  <1>3. GoodDocument(source)
    BY <1>2 DEF AccountsInv
  <1>4. doc' = [ users |-> source.users, factories |-> source.factories,
                 trail |-> source.trail, revision |-> source.revision + 1 ]
    BY <1>1, <1>3 DEF GoodDocument, Documents
  <1>5. doc' \in Documents /\ doc'.users = source.users /\ doc'.trail = source.trail
    BY <1>3, <1>4 DEF GoodDocument, Documents
  <1>6. GoodDocument(doc)'
    BY <1>2, <1>3, <1>5 DEF GoodDocument
  <1>7. (recoveries < MaxRecoveries => GoodDocument(prior))'
    BY <1>1, <1>2, <1>3 DEF GoodDocument
  <1>8. recoveries' \in 0 .. MaxRecoveries
    BY <1>2, AccountsAssumption DEF AccountsInv, AccountsAssumption
  <1>. QED
    BY <1>2, <1>6, <1>7, <1>8 DEF AccountsInv, ClientsOK, clients

LEMMA InitInv == Init => AccountsInv
  <1>. SUFFICES ASSUME Init PROVE AccountsInv
    OBVIOUS
  <1>1. doc \in Documents
    <2>1. \A u \in UserIds : InitialUsers[u] # None => Trail(InitialUsers[u]) \in TrailRecord
      BY AccountsAssumption DEF AccountsAssumption, Trail, TrailRecord, Account
    <2>2. TrailOf(InitialUsers) \in [UserIds -> TrailRecord \cup {None}]
      BY <2>1 DEF TrailOf
    <2>. QED
      BY <2>2, AccountsAssumption DEF AccountsAssumption, Init, Documents
  <1>2. doc.users = InitialUsers /\ doc.trail = TrailOf(doc.users)
    BY DEF Init
  <1>3. GoodDocument(doc)
    BY <1>1, <1>2, AdminAtFirst DEF AdminAtFirst, GoodDocument, Init
  <1>4. recoveries < MaxRecoveries => prior = doc
    BY DEF Init
  <1>. QED
    BY <1>3, <1>4, AccountsAssumption DEF AccountsAssumption, AccountsInv, ClientsOK, Init

LEMMA NextInv == AccountsInv /\ [Next]_vars => AccountsInv'
  <1>. SUFFICES ASSUME AccountsInv, [Next]_vars PROVE AccountsInv'
    OBVIOUS
  <1>1. ASSUME NEW c \in Clients, Request(c) PROVE AccountsInv'
    BY <1>1, LoginInv, ReadingInv, CreateUserInv, UpdateUserInv, ResetPasswordInv,
       ChangePasswordInv, CreateFactoryInv DEF Request
  <1>2. CASE UNCHANGED vars
    BY <1>2 DEF vars, AccountsInv, GoodDocument, ClientsOK
  <1>. QED
    BY <1>1, <1>2, MergeFactoriesInv, BootstrapCreateInv, BootstrapPromptInv,
       RecoverInv DEF Next

THEOREM AccountsAlways == Spec => []AccountsInv
  BY InitInv, NextInv, PTL DEF Spec

-----------------------------------------------------------------------------
(* Results.                                                                *)

(* The system never loses its last active administrator: no demotion,      *)
(* deactivation, login, reset, bootstrap or recovery, in any order, leaves *)
(* the document without one.                                               *)
THEOREM AdminAlwaysRemains == Spec => []AdminRemains
  <1>1. AccountsInv => AdminRemains
    BY DEF AccountsInv, GoodDocument, AdminRemains
  <1>. QED
    BY <1>1, AccountsAlways, PTL

(* The audit trail always tells the role, state, grants and password flag  *)
(* that every account has now.                                             *)
THEOREM TrailAlwaysReconstructs == Spec => []AuditReconstructs
  <1>1. AccountsInv => AuditReconstructs
    BY DEF AccountsInv, GoodDocument, TrailOf, AuditReconstructs, Exists
  <1>. QED
    BY <1>1, AccountsAlways, PTL

-----------------------------------------------------------------------------
(* What each request makes of the accounts.                                *)

Rewritten(u, account) ==
  /\ u \in UserIds /\ account \in Account
  /\ doc'.users[u] = account
  /\ \A v \in UserIds \ {u} : doc'.users[v] = doc.users[v]
  /\ ValidUsers(doc'.users)

LEMMA WrittenIsRewritten ==
  ASSUME AccountsInv, NEW u \in UserIds, NEW account \in Account, NEW events,
         WriteAccount(u, account, events)
  PROVE  Rewritten(u, account)
  <1>1. /\ doc'.users = [doc.users EXCEPT ![u] = account]
        /\ doc'.users[u] = account
        /\ \A v \in UserIds \ {u} : doc'.users[v] = doc.users[v]
    BY UsersWritten
  <1>2. ValidUsers([doc.users EXCEPT ![u] = account])
    BY DEF WriteAccount
  <1>3. ValidUsers(doc'.users)
    BY <1>1, <1>2
  <1>. QED
    BY <1>1, <1>3 DEF Rewritten

LEMMA LoginWrites ==
  ASSUME AccountsInv, NEW c \in Clients, NEW name \in Names, Login(c, name)
  PROVE  /\ \E u \in UserIds : /\ doc.users[u] \in Account /\ doc.users[u] # None
                               /\ Rewritten(u, LoggedIn(doc.users[u]))
         /\ UNCHANGED <<form, gate, operator>>
  <1>1. PICK u \in UserIds : Exists(u) /\ WriteAccount(u, LoggedIn(doc.users[u]), <<>>)
    BY DEF Login
  <1>2. doc.users[u] \in Account /\ doc.users[u] # None
    BY <1>1 DEF Exists, AccountsInv, GoodDocument, Documents
  <1>3. LoggedIn(doc.users[u]) \in Account
    BY <1>2 DEF LoggedIn, Account
  <1>4. Rewritten(u, LoggedIn(doc.users[u]))
    BY <1>1, <1>3, WrittenIsRewritten
  <1>5. UNCHANGED <<form, gate, operator>>
    BY DEF Login
  <1>. QED
    BY <1>2, <1>4, <1>5

LEMMA CreateUserWrites ==
  ASSUME AccountsInv, NEW c \in Clients, NEW u \in UserIds, NEW email \in Names,
         NEW role \in Roles, NEW submitted \in SUBSET Factories,
         CreateUser(c, u, email, role, submitted)
  PROVE  /\ \E account \in Account : /\ Rewritten(u, account)
                                     /\ account.email = email
                                     /\ account.username = email
         /\ doc.users[u] = None /\ EmailFree(u, email)
         /\ gate[c] # None /\ ActiveAdmin(doc.users, gate[c].actor) /\ Leave(c)
  <1> DEFINE grants == IF role = "ADMIN" THEN {} ELSE submitted
             account == [ role |-> role, active |-> TRUE, grants |-> grants,
                          email |-> email, username |-> email, must |-> TRUE,
                          revision |-> 1 ]
             events == <<[action |-> "USER_CREATED", role |-> role]>>
                         \o GrantEvents({}, grants)
  <1>1. /\ WriteAccount(u, account, events) /\ u \notin issued /\ EmailFree(u, email)
        /\ gate[c] # None /\ ActiveAdmin(doc.users, gate[c].actor) /\ Leave(c)
    BY DEF CreateUser, Inside, ActorIsAdmin
  <1>2. account \in Account
    BY DEF Account
  <1>3. account.email = email /\ account.username = email
    OBVIOUS
  <1>. HIDE DEF account, events
  <1>4. Rewritten(u, account)
    BY <1>1, <1>2, WrittenIsRewritten
  <1>5. doc.users[u] = None
    BY <1>1 DEF AccountsInv, GoodDocument
  <1>. QED
    BY <1>1, <1>2, <1>3, <1>4, <1>5

LEMMA UpdateUserWrites ==
  ASSUME AccountsInv, NEW c \in Clients, NEW change \in Changes,
         UpdateUser(c, change)
  PROVE  LET u == form[c].target
             old == doc.users[u]
         IN  /\ u \in UserIds /\ old # None /\ old \in Account
             /\ Rewritten(u, Edited(old, change))
             /\ EmailFree(u, Edited(old, change).email)
             /\ gate[c] # None /\ ActiveAdmin(doc.users, gate[c].actor)
             /\ FormIsCurrent(c) /\ Leave(c) /\ UNCHANGED issued
  <1> DEFINE u == form[c].target
             old == doc.users[u]
             new == Edited(old, change)
  <1>1. /\ u \in UserIds /\ old # None /\ MayEdit(c, u, change)
        /\ WriteAccount(u, new, UpdateEvents(old, new))
        /\ EmailFree(u, new.email)
        /\ FormIsCurrent(c) /\ Leave(c) /\ UNCHANGED issued /\ gate[c] # None
    BY DEF UpdateUser, Inside, FormIsCurrent, Exists, AccountsInv, ClientsOK
  <1>2. old \in Account
    BY <1>1 DEF AccountsInv, GoodDocument, Documents
  <1>3. new \in Account
    BY <1>2, EditedAccount
  <1>4. ActiveAdmin(doc.users, gate[c].actor)
    BY <1>1 DEF MayEdit, ActorIsAdmin
  <1>. HIDE DEF new, old, u
  <1>5. Rewritten(u, new)
    BY <1>1, <1>3, WrittenIsRewritten
  <1>. QED
    BY <1>1, <1>2, <1>4, <1>5 DEF new, old, u

LEMMA ResetPasswordWrites ==
  ASSUME AccountsInv, NEW c \in Clients, ResetPassword(c)
  PROVE  LET u == form[c].target
             old == doc.users[u]
         IN  /\ u \in UserIds /\ old # None /\ old \in Account
             /\ Rewritten(u, [old EXCEPT !.must = TRUE, !.revision = @ + 1])
             /\ gate[c] # None /\ ActiveAdmin(doc.users, gate[c].actor)
             /\ FormIsCurrent(c) /\ Leave(c) /\ UNCHANGED issued
  <1> DEFINE u == form[c].target
             old == doc.users[u]
             new == [old EXCEPT !.must = TRUE, !.revision = @ + 1]
             events == <<[action |-> "PASSWORD_RESET_BY_ADMIN"]>>
  <1>1. /\ u \in UserIds /\ old # None /\ WriteAccount(u, new, events)
        /\ gate[c] # None /\ ActiveAdmin(doc.users, gate[c].actor)
        /\ FormIsCurrent(c) /\ Leave(c) /\ UNCHANGED issued
    BY DEF ResetPassword, ActorIsAdmin, Inside, FormIsCurrent, Exists, AccountsInv, ClientsOK
  <1>2. old \in Account
    BY <1>1 DEF AccountsInv, GoodDocument, Documents
  <1>3. new \in Account
    BY <1>2, FlaggedAccount
  <1>. HIDE DEF new, old, u, events
  <1>4. Rewritten(u, new)
    BY <1>1, <1>3, WrittenIsRewritten
  <1>. QED
    BY <1>1, <1>2, <1>4 DEF new, old, u

LEMMA ChangePasswordWrites ==
  ASSUME AccountsInv, NEW c \in Clients, ChangePassword(c)
  PROVE  LET u == gate[c].actor
             old == doc.users[u]
         IN  /\ u \in UserIds /\ old # None /\ old \in Account /\ old.active
             /\ Rewritten(u, PasswordChanged(old))
             /\ gate[c] # None /\ gate[c].view = "password"
             /\ Leave(c) /\ UNCHANGED issued
  <1> DEFINE u == gate[c].actor
             old == doc.users[u]
             new == PasswordChanged(old)
             events == <<[action |-> "PASSWORD_CHANGED"]>>
  <1>1. /\ u \in UserIds /\ old # None /\ old.active /\ WriteAccount(u, new, events)
        /\ gate[c] # None /\ gate[c].view = "password" /\ Leave(c) /\ UNCHANGED issued
    BY DEF ChangePassword, Inside, Exists, AccountsInv, ClientsOK
  <1>2. old \in Account
    BY <1>1 DEF AccountsInv, GoodDocument, Documents
  <1>3. new \in Account
    BY <1>2, FlaggedAccount DEF PasswordChanged
  <1>. HIDE DEF new, old, u, events
  <1>4. Rewritten(u, new)
    BY <1>1, <1>3, WrittenIsRewritten
  <1>. QED
    BY <1>1, <1>2, <1>4 DEF new, old, u

(* The steps that leave the accounts as they are.                          *)
Untouched ==
  \/ \E c \in Clients : \/ Logout(c) \/ EnterAdministration(c) \/ EnterChangePassword(c)
                       \/ Refuse(c) \/ (\E u \in UserIds : OpenForm(c, u))
                       \/ (\E f \in Factories : CreateFactory(c, f))
  \/ \E found \in SUBSET Factories : MergeFactories(found)
  \/ BootstrapStop \/ (\E username \in Names : BootstrapAsk(username))
  \/ UNCHANGED vars

LEMMA UntouchedUsers ==
  ASSUME AccountsInv, Untouched
  PROVE  doc'.users = doc.users /\ UNCHANGED <<issued, recoveries>>
  <1>1. ASSUME NEW c \in Clients, NEW f \in Factories, CreateFactory(c, f)
        PROVE  doc'.users = doc.users /\ UNCHANGED <<issued, recoveries>>
    <2>1. AddFactories({f}) /\ UNCHANGED <<issued, recoveries>>
      BY <1>1 DEF CreateFactory, Leave
    <2>. QED
      BY <2>1, FactoriesAdded
  <1>2. ASSUME NEW found \in SUBSET Factories, MergeFactories(found)
        PROVE  doc'.users = doc.users /\ UNCHANGED <<issued, recoveries>>
    <2>1. AddFactories(found \ Known) /\ UNCHANGED <<issued, recoveries>>
      BY <1>2 DEF MergeFactories, operator
    <2>. QED
      BY <2>1, FactoriesAdded
  <1>3. ASSUME NEW c \in Clients,
               \/ Logout(c) \/ EnterAdministration(c) \/ EnterChangePassword(c)
               \/ Refuse(c) \/ \E u \in UserIds : OpenForm(c, u)
        PROVE  doc'.users = doc.users /\ UNCHANGED <<issued, recoveries>>
    BY <1>3 DEF Logout, EnterAdministration, EnterChangePassword, Refuse, Leave,
                OpenForm, operator
  <1>4. CASE \/ BootstrapStop \/ (\E username \in Names : BootstrapAsk(username))
             \/ UNCHANGED vars
    BY <1>4 DEF BootstrapStop, BootstrapAsk, vars
  <1>. QED
    BY <1>1, <1>2, <1>3, <1>4 DEF Untouched

(* Every step is one of these.                                             *)
Touching(c) ==
  \/ \E name \in Names : Login(c, name)
  \/ \E u \in UserIds, email \in Names, role \in Roles,
        submitted \in SUBSET Factories : CreateUser(c, u, email, role, submitted)
  \/ \E change \in Changes : UpdateUser(c, change)
  \/ ResetPassword(c) \/ ChangePassword(c)

LEMMA KindsOfStep ==
  ASSUME AccountsInv, [Next]_vars
  PROVE  \/ Untouched \/ (\E c \in Clients : Touching(c))
         \/ prompt' # prompt \/ recoveries' # recoveries
  <1>1. ASSUME NEW c \in Clients, Request(c) PROVE Untouched \/ Touching(c)
    BY <1>1 DEF Request, Untouched, Touching
  <1>2. ASSUME NEW u \in UserIds, NEW email \in Names, BootstrapCreate(u, email)
        PROVE  prompt' # prompt
    BY <1>2 DEF BootstrapCreate
  <1>3. ASSUME Recover PROVE recoveries' # recoveries
    BY <1>3, AccountsAssumption DEF Recover, AccountsInv, AccountsAssumption
  <1>4. CASE BootstrapStop \/ UNCHANGED vars
    BY <1>4 DEF Untouched
  <1>5. ASSUME NEW found \in SUBSET Factories, MergeFactories(found) PROVE Untouched
    BY <1>5 DEF Untouched
  <1>6. ASSUME NEW username \in Names, BootstrapAsk(username) PROVE Untouched
    BY <1>6 DEF Untouched
  <1>. QED
    BY <1>1, <1>2, <1>3, <1>4, <1>5, <1>6 DEF Next

(* An account whose names stay, or become one free name, disturbs nobody.  *)
LEMMA NamesKept ==
  ASSUME AccountsInv, NEW u, NEW account, Rewritten(u, account),
         LoginsDistinct(doc.users),
         \/ /\ doc.users[u] # None
            /\ account.email = doc.users[u].email
            /\ account.username = doc.users[u].username
         \/ account.username = account.email /\ EmailFree(u, account.email)
  PROVE  LoginsDistinct(doc'.users)
  <1>1. SUFFICES ASSUME NEW v \in UserIds, NEW w \in UserIds, v # w,
                        doc'.users[v] # None, doc'.users[w] # None
                 PROVE  doc'.users[v].username # doc'.users[w].email
    BY DEF LoginsDistinct
  <1>2. /\ doc'.users[u] = account /\ u \in UserIds
        /\ \A x \in UserIds \ {u} : doc'.users[x] = doc.users[x]
    BY DEF Rewritten
  <1>3. CASE v # u /\ w # u
    BY <1>1, <1>2, <1>3 DEF LoginsDistinct
  <1>4. CASE doc.users[u] # None /\ account.email = doc.users[u].email
             /\ account.username = doc.users[u].username
    <2>1. CASE v = u
      BY <1>1, <1>2, <1>4, <2>1 DEF LoginsDistinct
    <2>2. CASE w = u
      BY <1>1, <1>2, <1>4, <2>2 DEF LoginsDistinct
    <2>. QED
      BY <1>3, <2>1, <2>2
  <1>5. CASE account.username = account.email /\ EmailFree(u, account.email)
    <2>1. CASE v = u
      BY <1>1, <1>2, <1>5, <2>1 DEF EmailFree, Exists
    <2>2. CASE w = u
      <3>1. doc'.users[v].username # doc'.users[u].username
        BY <1>1, <1>2, <2>2 DEF Rewritten, ValidUsers
      <3>. QED
        BY <1>2, <1>5, <2>2, <3>1
    <2>. QED
      BY <1>3, <2>1, <2>2
  <1>. QED
    BY <1>4, <1>5

(* No request makes a login name that belonged to one account belong to    *)
(* two.                                                                    *)
THEOREM LoginsAlwaysStayDistinct == Spec => LoginsStayDistinct
  <1>1. ASSUME AccountsInv, [Next]_vars,
               LoginsDistinct(doc.users), UNCHANGED <<prompt, recoveries>>
        PROVE  LoginsDistinct(doc'.users)
    <2>1. CASE Untouched
      BY <1>1, <2>1, UntouchedUsers
    <2>2. ASSUME NEW c \in Clients, Touching(c) PROVE LoginsDistinct(doc'.users)
      <3>1. ASSUME NEW name \in Names, Login(c, name) PROVE LoginsDistinct(doc'.users)
        <4>1. PICK u \in UserIds : /\ doc.users[u] \in Account /\ doc.users[u] # None
                                   /\ Rewritten(u, LoggedIn(doc.users[u]))
          BY <1>1, <3>1, LoginWrites
        <4>2. LoggedIn(doc.users[u]).email = doc.users[u].email
              /\ LoggedIn(doc.users[u]).username = doc.users[u].username
          BY <4>1 DEF LoggedIn, Account
        <4>. QED
          BY <1>1, <4>1, <4>2, NamesKept
      <3>2. ASSUME NEW u \in UserIds, NEW email \in Names, NEW role \in Roles,
                   NEW submitted \in SUBSET Factories,
                   CreateUser(c, u, email, role, submitted)
            PROVE  LoginsDistinct(doc'.users)
        BY <1>1, <3>2, CreateUserWrites, NamesKept
      <3>3. ASSUME NEW change \in Changes, UpdateUser(c, change)
            PROVE  LoginsDistinct(doc'.users)
        <4> DEFINE u == form[c].target
                   old == doc.users[u]
                   new == Edited(old, change)
        <4>1. /\ old # None /\ old \in Account /\ Rewritten(u, new)
              /\ EmailFree(u, new.email)
          BY <1>1, <3>3, UpdateUserWrites
        <4>2. \/ new.email = old.email /\ new.username = old.username
              \/ new.username = new.email
          BY <4>1 DEF Edited, New, Account
        <4>. HIDE DEF new
        <4>. QED
          BY <1>1, <4>1, <4>2, NamesKept
      <3>4. CASE ResetPassword(c)
        <4> DEFINE u == form[c].target
                   old == doc.users[u]
                   new == [old EXCEPT !.must = TRUE, !.revision = @ + 1]
        <4>1. old # None /\ old \in Account /\ Rewritten(u, new)
          BY <1>1, <3>4, ResetPasswordWrites
        <4>2. new.email = old.email /\ new.username = old.username
          BY <4>1 DEF Account
        <4>. HIDE DEF new
        <4>. QED
          BY <1>1, <4>1, <4>2, NamesKept
      <3>5. CASE ChangePassword(c)
        <4> DEFINE u == gate[c].actor
                   old == doc.users[u]
                   new == PasswordChanged(old)
        <4>1. old # None /\ old \in Account /\ Rewritten(u, new)
          BY <1>1, <3>5, ChangePasswordWrites
        <4>2. new.email = old.email /\ new.username = old.username
          BY <4>1 DEF PasswordChanged, Account
        <4>. HIDE DEF new
        <4>. QED
          BY <1>1, <4>1, <4>2, NamesKept
      <3>. QED
        BY <2>2, <3>1, <3>2, <3>3, <3>4, <3>5 DEF Touching
    <2>. QED
      BY <1>1, <2>1, <2>2, KindsOfStep
  <1>. QED
    BY <1>1, AccountsAlways, PTL DEF Spec, LoginsStayDistinct

-----------------------------------------------------------------------------
(* Who changes accounts.                                                   *)

LEMMA LeavingFinishes ==
  ASSUME AccountsInv, NEW c \in Clients, Leave(c), gate[c] # None
  PROVE  /\ Finishes(c)
         /\ \A b \in Clients : Finishes(b) => b = c
         /\ UNCHANGED <<session, form>>
  <1>1. gate \in [Clients -> [actor: UserIds, view: {"admin", "password"}] \cup {None}]
    BY DEF AccountsInv, ClientsOK
  <1>. QED
    BY <1>1 DEF Leave, Finishes

LEMMA LoginKeepsTheRest ==
  ASSUME NEW old \in Account, old # None
  PROVE  SameExcept(old, LoggedIn(old), {"revision"})
  <1>1. LoggedIn(old) \in Account /\ LoggedIn(old) # None
    <2>1. LoggedIn(old) \in Account
      BY DEF LoggedIn, Account
    <2>. QED
      BY <2>1, NotNone
  <1>2. \A field \in DOMAIN old \ {"revision"} : old[field] = LoggedIn(old)[field]
    BY DEF LoggedIn, Account
  <1>. QED
    BY <1>1, <1>2 DEF SameExcept

LEMMA PasswordKeepsTheRest ==
  ASSUME NEW old \in Account, old # None
  PROVE  SameExcept(old, PasswordChanged(old), {"must", "revision"})
  <1>1. PasswordChanged(old) # None
    BY FlaggedAccount, NotNone DEF PasswordChanged
  <1>2. \A field \in DOMAIN old \ {"must", "revision"} :
          old[field] = PasswordChanged(old)[field]
    BY DEF PasswordChanged, Account
  <1>. QED
    BY <1>1, <1>2 DEF SameExcept

(* Accounts are changed by active administrators only, except for what a   *)
(* user's own login and own change of password touch.                      *)
THEOREM ActorsAreAlwaysAdmins == Spec => ActorsAreAdmins
  <1> DEFINE Right(u) ==
        \/ SameExcept(doc.users[u], doc'.users[u], {"revision"})
        \/ \E c \in Clients : Finishes(c) /\
             \/ ActiveAdmin(doc.users, gate[c].actor)
             \/ /\ gate[c].actor = u /\ doc.users[u].active
                /\ SameExcept(doc.users[u], doc'.users[u], {"must", "revision"})
  <1>1. ASSUME AccountsInv, [Next]_vars, NEW u \in UserIds,
               doc'.users[u] # doc.users[u], UNCHANGED <<recoveries, prompt>>
        PROVE  Right(u)
    <2>1. PICK c \in Clients : Touching(c)
      BY <1>1, UntouchedUsers, KindsOfStep
    <2>2. ASSUME NEW name \in Names, Login(c, name) PROVE Right(u)
      <3>1. PICK v \in UserIds : /\ doc.users[v] \in Account /\ doc.users[v] # None
                                 /\ Rewritten(v, LoggedIn(doc.users[v]))
        BY <1>1, <2>2, LoginWrites
      <3>2. u = v /\ doc'.users[u] = LoggedIn(doc.users[u])
        BY <1>1, <3>1 DEF Rewritten
      <3>. QED
        BY <3>1, <3>2, LoginKeepsTheRest
    <2>3. ASSUME gate[c] # None, ActiveAdmin(doc.users, gate[c].actor), Leave(c)
          PROVE  Right(u)
      BY <1>1, <2>3, LeavingFinishes
    <2>4. CASE ChangePassword(c)
      <3> DEFINE v == gate[c].actor
                 old == doc.users[v]
      <3>1. /\ v \in UserIds /\ old # None /\ old \in Account /\ old.active
            /\ Rewritten(v, PasswordChanged(old)) /\ gate[c] # None /\ Leave(c)
        BY <1>1, <2>4, ChangePasswordWrites
      <3>2. u = v /\ doc'.users[u] = PasswordChanged(old)
        BY <1>1, <3>1 DEF Rewritten
      <3>3. Finishes(c)
        BY <1>1, <3>1, LeavingFinishes
      <3>4. SameExcept(old, PasswordChanged(old), {"must", "revision"})
        BY <3>1, PasswordKeepsTheRest
      <3>. QED
        BY <3>1, <3>2, <3>3, <3>4
    <2>5. CASE ResetPassword(c)
      BY <1>1, <2>3, <2>5, ResetPasswordWrites
    <2>6. ASSUME NEW change \in Changes, UpdateUser(c, change) PROVE Right(u)
      BY <1>1, <2>3, <2>6, UpdateUserWrites
    <2>7. ASSUME NEW v \in UserIds, NEW email \in Names, NEW role \in Roles,
                 NEW submitted \in SUBSET Factories,
                 CreateUser(c, v, email, role, submitted)
          PROVE  Right(u)
      BY <1>1, <2>3, <2>7, CreateUserWrites
    <2>. HIDE DEF Right
    <2>. QED
      BY <2>1, <2>2, <2>4, <2>5, <2>6, <2>7 DEF Touching
  <1>2. ASSUME AccountsInv, [Next]_vars
        PROVE  \A u \in UserIds :
                 /\ doc'.users[u] # doc.users[u] /\ recoveries' = recoveries
                 /\ prompt' = prompt
                 => Right(u)
    BY <1>1, <1>2
  <1>. QED
    BY <1>2, AccountsAlways, PTL DEF Spec, ActorsAreAdmins

-----------------------------------------------------------------------------
(* Stale pages.                                                            *)

(* A rewritten account has a revision that no page has seen.               *)
LEMMA PagesFollowRewrite ==
  ASSUME AccountsInv, \A c \in Clients : PageOK(c), form' = form,
         NEW u, NEW account, Rewritten(u, account),
         \/ doc.users[u] = None
         \/ doc.users[u] \in Account /\ account.revision = doc.users[u].revision + 1
  PROVE  \A c \in Clients : PageOK(c)'
  <1>1. SUFFICES ASSUME NEW c \in Clients, form[c] # None
                 PROVE  /\ doc'.users[form[c].target] # None
                        /\ form[c].seen.revision <= doc'.users[form[c].target].revision
                        /\ form[c].seen.revision = doc'.users[form[c].target].revision
                             => form[c].seen = doc'.users[form[c].target]
    BY DEF PageOK
  <1> DEFINE t == form[c].target
  <1>2. t \in UserIds /\ form[c].seen \in Account
    BY <1>1 DEF AccountsInv, ClientsOK
  <1>3. /\ doc.users[t] # None /\ form[c].seen.revision <= doc.users[t].revision
        /\ form[c].seen.revision = doc.users[t].revision => form[c].seen = doc.users[t]
    BY <1>1 DEF PageOK
  <1>4. CASE t # u
    BY <1>2, <1>3, <1>4 DEF Rewritten
  <1>5. CASE t = u
    <2>1. /\ doc'.users[t] = account /\ account \in Account
          /\ doc.users[t] \in Account /\ account.revision = doc.users[t].revision + 1
      BY <1>3, <1>5 DEF Rewritten
    <2>2. /\ form[c].seen.revision \in Nat /\ doc.users[t].revision \in Nat
      BY <1>2, <2>1 DEF Account
    <2>3. form[c].seen.revision < account.revision
      BY <1>3, <2>1, <2>2
    <2>4. account.revision \in Nat
      BY <2>1 DEF Account
    <2>. QED
      BY <2>1, <2>2, <2>3, <2>4, NotNone
  <1>. QED
    BY <1>4, <1>5

LEMMA PagesFollowUntouched ==
  ASSUME AccountsInv, \A c \in Clients : PageOK(c), Untouched
  PROVE  \A c \in Clients : PageOK(c)'
  <1>1. doc'.users = doc.users
    BY UntouchedUsers
  <1>2. ASSUME form' = form PROVE \A c \in Clients : PageOK(c)'
    BY <1>1, <1>2 DEF PageOK
  <1>3. ASSUME NEW c \in Clients, NEW u \in UserIds, OpenForm(c, u)
        PROVE  \A b \in Clients : PageOK(b)'
    <2>1. /\ form' = [form EXCEPT ![c] = [target |-> u, seen |-> doc.users[u]]]
          /\ doc.users[u] # None
      BY <1>3 DEF OpenForm, Exists
    <2>2. doc.users[u] \in Account
      BY <2>1 DEF AccountsInv, GoodDocument, Documents
    <2>3. doc.users[u].revision <= doc.users[u].revision
      BY <2>2 DEF Account
    <2>4. ASSUME NEW b \in Clients PROVE PageOK(b)'
      <3>1. CASE b = c
        <4>1. form'[b] = [target |-> u, seen |-> doc.users[u]]
          BY <2>1, <3>1 DEF AccountsInv, ClientsOK
        <4>. QED
          BY <1>1, <2>1, <2>3, <4>1 DEF PageOK
      <3>2. CASE b # c
        <4>1. form'[b] = form[b]
          BY <2>1, <3>2 DEF AccountsInv, ClientsOK
        <4>. QED
          BY <1>1, <4>1 DEF PageOK
      <3>. QED
        BY <3>1, <3>2
    <2>. QED
      BY <2>4
  <1>4. form' = form \/ \E c \in Clients, u \in UserIds : OpenForm(c, u)
    BY DEF Untouched, Logout, EnterAdministration, EnterChangePassword, Refuse, Leave,
           CreateFactory, MergeFactories, BootstrapStop, BootstrapAsk, clients, vars
  <1>. QED
    BY <1>2, <1>3, <1>4

LEMMA PagesFollowTouch ==
  ASSUME AccountsInv, \A b \in Clients : PageOK(b), NEW c \in Clients, Touching(c)
  PROVE  \A b \in Clients : PageOK(b)'
  <1>1. ASSUME NEW name \in Names, Login(c, name) PROVE \A b \in Clients : PageOK(b)'
    <2>1. PICK u \in UserIds : /\ doc.users[u] \in Account
                               /\ Rewritten(u, LoggedIn(doc.users[u]))
      BY <1>1, LoginWrites
    <2>2. LoggedIn(doc.users[u]).revision = doc.users[u].revision + 1
      BY <2>1 DEF LoggedIn, Account
    <2>3. form' = form
      BY <1>1, LoginWrites
    <2>. QED
      BY <2>1, <2>2, <2>3, PagesFollowRewrite
  <1>2. ASSUME NEW u \in UserIds, NEW email \in Names, NEW role \in Roles,
               NEW submitted \in SUBSET Factories,
               CreateUser(c, u, email, role, submitted)
        PROVE  \A b \in Clients : PageOK(b)'
    <2>1. form' = form
      BY <1>2 DEF CreateUser, Leave
    <2>. QED
      BY <1>2, <2>1, CreateUserWrites, PagesFollowRewrite
  <1>3. ASSUME NEW change \in Changes, UpdateUser(c, change)
        PROVE  \A b \in Clients : PageOK(b)'
    <2> DEFINE old == doc.users[form[c].target]
               new == Edited(old, change)
    <2>1. old \in Account /\ Rewritten(form[c].target, new) /\ form' = form
      BY <1>3, UpdateUserWrites DEF Leave
    <2>2. new.revision = old.revision + 1
      BY <2>1, EditedAccount
    <2>. HIDE DEF new
    <2>. QED
      BY <2>1, <2>2, PagesFollowRewrite
  <1>4. CASE ResetPassword(c)
    <2> DEFINE old == doc.users[form[c].target]
               new == [old EXCEPT !.must = TRUE, !.revision = @ + 1]
    <2>1. old \in Account /\ Rewritten(form[c].target, new) /\ form' = form
      BY <1>4, ResetPasswordWrites DEF Leave
    <2>2. new.revision = old.revision + 1
      BY <2>1 DEF Account
    <2>. HIDE DEF new
    <2>. QED
      BY <2>1, <2>2, PagesFollowRewrite
  <1>5. CASE ChangePassword(c)
    <2> DEFINE old == doc.users[gate[c].actor]
               new == PasswordChanged(old)
    <2>1. old \in Account /\ Rewritten(gate[c].actor, new) /\ form' = form
      BY <1>5, ChangePasswordWrites DEF Leave
    <2>2. new.revision = old.revision + 1
      BY <2>1 DEF PasswordChanged, Account
    <2>. HIDE DEF new
    <2>. QED
      BY <2>1, <2>2, PagesFollowRewrite
  <1>. QED
    BY <1>1, <1>2, <1>3, <1>4, <1>5 DEF Touching

(* The next two facts are about runs in which no recovery brings accounts  *)
(* back under revisions they had before.                                   *)
LEMMA PagesAlways ==
  ASSUME MaxRecoveries = 0
  PROVE  Spec => []PagesInv
  <1>1. Init => PagesInv
    BY InitInv DEF Init, PagesInv, PageOK
  <1>2. ASSUME PagesInv, [Next]_vars PROVE PagesInv'
    <2>1. AccountsInv /\ AccountsInv' /\ recoveries = 0 /\ recoveries' = 0
      BY <1>2, NextInv DEF PagesInv, AccountsInv
    <2>2. \A c \in Clients : PageOK(c)
      BY <1>2, <2>1 DEF PagesInv
    <2>3. ASSUME NEW u \in UserIds, NEW email \in Names, BootstrapCreate(u, email)
          PROVE  \A c \in Clients : PageOK(c)'
      <3>1. PICK account \in Account :
              doc'.users = [doc.users EXCEPT ![u] = account]
        BY <2>1, <2>3, BootstrapWritten
      <3>2. form' = form /\ doc.users[u] = None
        BY <2>1, <2>3 DEF BootstrapCreate, clients, AccountsInv, GoodDocument
      <3>3. \A v \in UserIds \ {u} : doc'.users[v] = doc.users[v]
        BY <2>1, <3>1 DEF AccountsInv, GoodDocument, Documents
      <3>4. \A c \in Clients : form[c] # None => form[c].target \in UserIds \ {u}
        BY <2>1, <2>2, <3>2 DEF PageOK, AccountsInv, ClientsOK
      <3>. QED
        BY <2>2, <3>2, <3>3, <3>4 DEF PageOK
    <2>4. \/ Untouched \/ (\E c \in Clients : Touching(c))
          \/ \E u \in UserIds, email \in Names : BootstrapCreate(u, email)
      <3>1. ~Recover
        BY <2>1 DEF Recover
      <3>2. ASSUME NEW c \in Clients, Request(c) PROVE Untouched \/ Touching(c)
        BY <3>2 DEF Request, Untouched, Touching
      <3>. QED
        BY <1>2, <3>1, <3>2 DEF Next, Untouched
    <2>5. \A c \in Clients : PageOK(c)'
      BY <2>1, <2>2, <2>3, <2>4, PagesFollowUntouched, PagesFollowTouch
    <2>. QED
      BY <2>1, <2>5 DEF PagesInv
  <1>. QED
    BY <1>1, <1>2, PTL DEF Spec

(* As long as nothing is recovered, an edit or a reset that commits meets  *)
(* the account exactly as its page showed it.                              *)
THEOREM NeverStaleEdit ==
  ASSUME MaxRecoveries = 0
  PROVE  Spec => NoStaleEdit
  <1>1. ASSUME PagesInv, [Next]_vars, NEW c \in Clients,
               Finishes(c), gate[c].view = "admin", form[c] # None,
               Exists(form[c].target),
               doc'.users[form[c].target] # doc.users[form[c].target]
        PROVE  doc.users[form[c].target] = form[c].seen
    <2>1. AccountsInv /\ recoveries = 0 /\ PageOK(c)
      BY <1>1 DEF PagesInv, AccountsInv
    <2>2. /\ form[c].target \in UserIds /\ gate[c] # None /\ gate'[c] # gate[c]
          /\ doc.users[form[c].target] # None
      BY <1>1, <2>1 DEF AccountsInv, ClientsOK, Finishes, Exists
    <2>3. ~Untouched
      BY <1>1, <2>1, UntouchedUsers
    <2>4. PICK b \in Clients : Touching(b)
      <3>1. ~Recover
        BY <2>1 DEF Recover
      <3>2. ASSUME NEW u \in UserIds, NEW email \in Names PROVE ~BootstrapCreate(u, email)
        BY <2>2 DEF BootstrapCreate, clients
      <3>3. ASSUME NEW b \in Clients, Request(b) PROVE Untouched \/ Touching(b)
        BY <3>3 DEF Request, Untouched, Touching
      <3>. QED
        BY <1>1, <2>3, <3>1, <3>2, <3>3 DEF Next, Untouched
    <2>5. ASSUME NEW name \in Names PROVE ~Login(b, name)
      BY <2>2 DEF Login
    <2>6. ASSUME NEW u \in UserIds, NEW email \in Names, NEW role \in Roles,
                 NEW submitted \in SUBSET Factories
          PROVE  ~CreateUser(b, u, email, role, submitted)
      BY <1>1, <2>1, <2>2, CreateUserWrites DEF Rewritten
    <2>7. ASSUME ChangePassword(b) PROVE FALSE
      <3>1. gate[b] # None /\ gate[b].view = "password" /\ Leave(b)
        BY <2>1, <2>7, ChangePasswordWrites
      <3>2. b = c
        BY <1>1, <2>1, <3>1, LeavingFinishes
      <3>. QED
        BY <1>1, <3>1, <3>2
    <2>8. FormIsCurrent(b) /\ gate[b] # None /\ Leave(b)
      BY <2>1, <2>4, <2>5, <2>6, <2>7, UpdateUserWrites, ResetPasswordWrites DEF Touching
    <2>9. b = c
      BY <1>1, <2>1, <2>8, LeavingFinishes
    <2>. QED
      BY <1>1, <2>1, <2>8, <2>9 DEF FormIsCurrent, PageOK
  <1>2. ASSUME PagesInv, [Next]_vars
        PROVE  \A c \in Clients :
                 /\ Finishes(c) /\ gate[c].view = "admin" /\ form[c] # None
                 /\ Exists(form[c].target)
                 /\ doc'.users[form[c].target] # doc.users[form[c].target]
                 => doc.users[form[c].target] = form[c].seen
    BY <1>1, <1>2
  <1>. QED
    BY <1>2, PagesAlways, PTL DEF Spec, NoStaleEdit
=============================================================================
