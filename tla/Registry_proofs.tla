-------------------------- MODULE Registry_proofs --------------------------
EXTENDS Registry, TLAPS, SequenceTheorems, FiniteSetTheorems, WellFoundedInduction

\* A database is its rows, its children and the last number of each table.
Db(A, B, C) == [rows |-> A, kids |-> B, next |-> C]
Parts(A, B, C) ==
  /\ A = [u \in Tables |-> A[u]] /\ B = [u \in Parents |-> B[u]] /\ C = [u \in Tables |-> C[u]]
TableOK(u, rows, last) ==
  /\ last \in Nat /\ DOMAIN rows \subseteq 1..last
  /\ rows \in [DOMAIN rows -> Rows]
  /\ u # "notes" => \A i \in DOMAIN rows : rows[i].name \in Names
KidsOK(kids) == kids \in [DOMAIN kids -> Seq(Nat)]
Shaped(A, B, C) ==
  /\ Parts(A, B, C)
  /\ \A u \in Tables : TableOK(u, A[u], C[u])
  /\ \A u \in Parents : KidsOK(B[u])
\* At most one row is active, without counting.
One(rows) == \A i, j \in DOMAIN rows : rows[i].active /\ rows[j].active => i = j
RefOK(u, ref, A) ==
  /\ u = "servers" => ref \in DOMAIN A["gateways"] \cup {0}
  /\ u \in Owned => ref \in DOMAIN A["servers"]
RowsRef(A) == \A u \in Tables : \A i \in DOMAIN A[u] : RefOK(u, A[u][i].ref, A)
KidsRef(A, B) ==
  \A u \in Parents : \A i \in DOMAIN B[u] :
    (B[u][i] # <<>> => i \in DOMAIN A[u]) /\ ToSet(B[u][i]) \subseteq DOMAIN A[HoldsOf(u)]
IdsKept(A, C, A2, C2) ==
  \A u \in Tables : C[u] <= C2[u] /\ DOMAIN A2[u] \cap (1..C[u]) \subseteq DOMAIN A[u]

\* What a statement or a transaction may do to a database.
Good(db) == Wellformed(db) /\ One(db.rows["profiles"])
Goes(k, db, r) ==
  /\ r.ok \in BOOLEAN /\ (~r.ok => r.db = db)
  /\ Good(r.db)
  /\ IdsKept(db.rows, db.next, r.db.rows, r.db.next)
  /\ k /\ RefsIn(db) => RefsIn(r.db)

LEMMA HasParts ==
  ASSUME NEW db, Wellformed(db)
  PROVE  db = Db(db.rows, db.kids, db.next) /\ Shaped(db.rows, db.kids, db.next)
<1> DEFINE A == [u \in Tables |-> db.rows[u]]
           B == [u \in Parents |-> db.kids[u]]
           C == [u \in Tables |-> db.next[u]]
<1>1. db = [rows |-> A, kids |-> B, next |-> C]
  BY DEF Wellformed
<1>2. db.rows = A /\ db.kids = B /\ db.next = C
  <2> HIDE DEF A, B, C
  <2> QED
    BY <1>1
<1>3. Parts(A, B, C)
  BY DEF Parts
<1>4. /\ \A u \in Tables : TableOK(u, db.rows[u], db.next[u])
      /\ \A u \in Parents : KidsOK(db.kids[u])
  BY DEF Wellformed, TableOK, KidsOK, Live
<1> HIDE DEF A, B, C
<1> QED
  BY <1>1, <1>2, <1>3, <1>4 DEF Db, Shaped

LEMMA IsWellformed ==
  ASSUME NEW A, NEW B, NEW C, Shaped(A, B, C)
  PROVE  Wellformed(Db(A, B, C))
<1> DEFINE db == Db(A, B, C)
<1>1. db.rows = A /\ db.kids = B /\ db.next = C
  BY DEF Db
<1>2. db = [rows |-> [u \in Tables |-> A[u]], kids |-> [u \in Parents |-> B[u]],
            next |-> [u \in Tables |-> C[u]]]
  BY DEF Db, Shaped, Parts
<1> HIDE DEF db
<1>3. db = [rows |-> [t \in Tables |-> db.rows[t]], kids |-> [t \in Parents |-> db.kids[t]],
            next |-> [t \in Tables |-> db.next[t]]]
  BY <1>1, <1>2
<1>4. ASSUME NEW t \in Tables
      PROVE  /\ db.next[t] \in Nat /\ Live(db, t) \subseteq 1..db.next[t]
             /\ db.rows[t] \in [Live(db, t) -> Rows]
             /\ t # "notes" => \A i \in Live(db, t) : db.rows[t][i].name \in Names
  BY <1>1 DEF Shaped, TableOK, Live
<1>5. \A t \in Parents : db.kids[t] \in [DOMAIN db.kids[t] -> Seq(Nat)]
  BY <1>1 DEF Shaped, KidsOK
<1>6. Wellformed(db)
  BY <1>3, <1>4, <1>5 DEF Wellformed
<1> QED
  BY <1>6 DEF db

LEMMA RefsAre ==
  ASSUME NEW A, NEW B, NEW C
  PROVE  RefsIn(Db(A, B, C)) <=> RowsRef(A) /\ KidsRef(A, B)
<1> DEFINE db == Db(A, B, C)
<1>1. db.rows = A /\ db.kids = B
  BY DEF Db
<1> HIDE DEF db
<1>2. ASSUME NEW u \in Tables, NEW row
      PROVE  RefHolds(db, u, row) <=> RefOK(u, row.ref, A)
  <2>1. CASE u = "servers"
    BY <2>1, <1>1 DEF RefHolds, RefOK, Live, Owned
  <2>2. CASE u \in Owned
    BY <2>2, <1>1 DEF RefHolds, RefOK, Live, Owned
  <2>3. CASE u # "servers" /\ u \notin Owned
    BY <2>3, <1>1 DEF RefHolds, RefOK, Live, Owned
  <2> QED
    BY <2>1, <2>2, <2>3
<1>3. (\A u \in Tables : \A i \in Live(db, u) : RefHolds(db, u, db.rows[u][i])) <=> RowsRef(A)
  BY <1>1, <1>2 DEF RowsRef, Live
<1>4. ASSUME NEW u \in Parents
      PROVE  (\A i \in DOMAIN db.kids[u] :
               (db.kids[u][i] # <<>> => i \in Live(db, u)) /\ KidsHold(db, u, db.kids[u][i]))
             <=> (\A i \in DOMAIN B[u] :
               (B[u][i] # <<>> => i \in DOMAIN A[u]) /\ ToSet(B[u][i]) \subseteq DOMAIN A[HoldsOf(u)])
  BY <1>1 DEF Live, KidsHold
<1>5. RefsIn(db) <=> RowsRef(A) /\ KidsRef(A, B)
  BY <1>3, <1>4 DEF RefsIn, KidsRef
<1> QED
  BY <1>5 DEF db

\* One step of a database, in parts.
Moves(k, A, B, C, A2, B2, C2) ==
  /\ Shaped(A2, B2, C2) /\ One(A2["profiles"])
  /\ IdsKept(A, C, A2, C2)
  /\ k /\ RowsRef(A) /\ KidsRef(A, B) => RowsRef(A2) /\ KidsRef(A2, B2)

LEMMA MovesGo ==
  ASSUME NEW k, NEW A, NEW B, NEW C, NEW A2, NEW B2, NEW C2, Moves(k, A, B, C, A2, B2, C2)
  PROVE  Goes(k, Db(A, B, C), Done(Db(A2, B2, C2)))
<1> DEFINE db == Db(A, B, C)
           new == Db(A2, B2, C2)
<1>1. /\ db.rows = A /\ db.kids = B /\ db.next = C
      /\ new.rows = A2 /\ new.kids = B2 /\ new.next = C2
  BY DEF Db
<1>2. Wellformed(new)
  BY IsWellformed DEF Moves
<1>3. RefsIn(db) <=> RowsRef(A) /\ KidsRef(A, B)
  BY RefsAre
<1>4. RefsIn(new) <=> RowsRef(A2) /\ KidsRef(A2, B2)
  BY RefsAre
<1>5. Done(new).ok = TRUE /\ Done(new).db = new
  BY DEF Done
<1> HIDE DEF db, new
<1>6. Goes(k, db, Done(new))
  BY <1>1, <1>2, <1>3, <1>4, <1>5 DEF Goes, Good, Moves
<1> QED
  BY <1>6 DEF db, new

LEMMA StaysGo ==
  ASSUME NEW k, NEW db, Good(db)
  PROVE  Goes(k, db, Done(db)) /\ Goes(k, db, Fails(db))
<1>1. Done(db).ok = TRUE /\ Done(db).db = db /\ Fails(db).ok = FALSE /\ Fails(db).db = db
  BY DEF Done, Fails
<1>2. IdsKept(db.rows, db.next, db.rows, db.next)
  <2>1. \A u \in Tables : db.next[u] \in Nat
    BY DEF Good, Wellformed
  <2> QED
    BY <2>1 DEF IdsKept
<1> QED
  BY <1>1, <1>2 DEF Goes

LEMMA ThenGo ==
  ASSUME NEW k, NEW db, NEW mid, NEW r, Good(db), Goes(k, db, Done(mid)), Goes(k, mid, r), r.ok
  PROVE  Goes(k, db, r)
<1>1. Done(mid).db = mid
  BY DEF Done
<1>2. IdsKept(db.rows, db.next, r.db.rows, r.db.next)
  <2>1. \A u \in Tables : db.next[u] \in Nat /\ mid.next[u] \in Nat /\ r.db.next[u] \in Nat
    BY <1>1 DEF Good, Goes, Wellformed
  <2>2. IdsKept(db.rows, db.next, mid.rows, mid.next)
    BY <1>1 DEF Goes
  <2>3. IdsKept(mid.rows, mid.next, r.db.rows, r.db.next)
    BY DEF Goes
  <2> QED
    BY <2>1, <2>2, <2>3 DEF IdsKept
<1> QED
  BY <1>1, <1>2 DEF Goes

----------------------------------------------------------------------------
\* One table.

LEMMA RowsMove ==
  ASSUME NEW k, NEW A, NEW B, NEW C, Shaped(A, B, C), One(A["profiles"]),
         NEW t \in Tables, NEW g \in [DOMAIN A[t] -> Rows],
         t # "notes" => \A i \in DOMAIN A[t] : g[i].name \in Names,
         t = "profiles" => One(g),
         k /\ RowsRef(A) => \A i \in DOMAIN A[t] : RefOK(t, g[i].ref, A)
  PROVE  Moves(k, A, B, C, [A EXCEPT ![t] = g], B, C)
<1> DEFINE A2 == [A EXCEPT ![t] = g]
<1>1. A2 = [u \in Tables |-> A2[u]]
  BY DEF Shaped, Parts
<1>2. A2[t] = g /\ \A u \in Tables \ {t} : A2[u] = A[u]
  BY DEF Shaped, Parts
<1> HIDE DEF A2
<1>3. \A u \in Tables : DOMAIN A2[u] = DOMAIN A[u]
  BY <1>2
<1>4. Shaped(A2, B, C)
  <2>1. ASSUME NEW u \in Tables
        PROVE  TableOK(u, A2[u], C[u])
    <3>1. TableOK(u, A[u], C[u])
      BY DEF Shaped
    <3> QED
      BY <1>2, <3>1 DEF TableOK
  <2> QED
    BY <1>1, <2>1 DEF Shaped, Parts
<1>5. One(A2["profiles"])
  BY <1>2 DEF Tables
<1>6. IdsKept(A, C, A2, C)
  BY <1>3 DEF IdsKept, Shaped, TableOK
<1>7. ASSUME k, RowsRef(A), KidsRef(A, B)
      PROVE  RowsRef(A2) /\ KidsRef(A2, B)
  <2>1. \A u \in Tables : \A ref : RefOK(u, ref, A2) <=> RefOK(u, ref, A)
    BY <1>3 DEF RefOK, Tables
  <2>2. RowsRef(A2)
    <3> SUFFICES ASSUME NEW u \in Tables, NEW i \in DOMAIN A2[u]
                 PROVE  RefOK(u, A2[u][i].ref, A2)
      BY DEF RowsRef
    <3>1. CASE u = t
      BY <3>1, <2>1, <1>2, <1>7
    <3>2. CASE u # t
      BY <3>2, <2>1, <1>2, <1>7 DEF RowsRef
    <3> QED
      BY <3>1, <3>2
  <2>3. KidsRef(A2, B)
    <3>1. \A u \in Parents : u \in Tables /\ HoldsOf(u) \in Tables
      BY DEF Parents, Tables, HoldsOf
    <3> QED
      BY <3>1, <1>3, <1>7 DEF KidsRef
  <2> QED
    BY <2>2, <2>3
<1>8. Moves(k, A, B, C, A2, B, C)
  BY <1>4, <1>5, <1>6, <1>7 DEF Moves
<1> QED
  BY <1>8 DEF A2

LEMMA AddMove ==
  ASSUME NEW k, NEW A, NEW B, NEW C, Shaped(A, B, C), One(A["profiles"]),
         NEW t \in Tables, NEW row \in Rows, ~row.active,
         t # "notes" => row.name \in Names,
         k => RefOK(t, row.ref, A)
  PROVE  Moves(k, A, B, C, [A EXCEPT ![t] = With(A[t], C[t] + 1, row)], B,
               [C EXCEPT ![t] = C[t] + 1])
<1> DEFINE id == C[t] + 1
           g == With(A[t], id, row)
           A2 == [A EXCEPT ![t] = g]
           C2 == [C EXCEPT ![t] = id]
<1>1. A2 = [u \in Tables |-> A2[u]] /\ C2 = [u \in Tables |-> C2[u]]
  BY DEF Shaped, Parts
<1>2. A2[t] = g /\ \A u \in Tables \ {t} : A2[u] = A[u]
  BY DEF Shaped, Parts
<1>3. C2[t] = id /\ \A u \in Tables \ {t} : C2[u] = C[u]
  BY DEF Shaped, Parts
<1>4. /\ DOMAIN g = DOMAIN A[t] \cup {id} /\ g[id] = row
      /\ g \in [DOMAIN g -> Rows]
  <2>1. A[t] \in [DOMAIN A[t] -> Rows]
    BY DEF Shaped, TableOK
  <2> QED
    BY <2>1 DEF With
<1>5. C[t] \in Nat /\ id \in Nat /\ id \notin DOMAIN A[t] /\ DOMAIN A[t] \subseteq 1..C[t]
  BY DEF Shaped, TableOK
<1>6. \A i \in DOMAIN A[t] : g[i] = A[t][i]
  BY <1>5 DEF With
<1> HIDE DEF A2, C2, g
<1>7. \A u \in Tables : DOMAIN A[u] \subseteq DOMAIN A2[u]
  BY <1>2, <1>4
<1>8. Shaped(A2, B, C2)
  <2>1. ASSUME NEW u \in Tables
        PROVE  TableOK(u, A2[u], C2[u])
    <3>1. TableOK(u, A[u], C[u])
      BY DEF Shaped
    <3>2. CASE u = t
      <4>1. DOMAIN g \subseteq 1..id
        BY <1>4, <1>5
      <4>2. u # "notes" => \A i \in DOMAIN g : g[i].name \in Names
        BY <3>1, <3>2, <1>4, <1>6 DEF TableOK
      <4> QED
        BY <3>2, <1>2, <1>3, <1>4, <1>5, <4>1, <4>2 DEF TableOK
    <3>3. CASE u # t
      BY <3>1, <3>3, <1>2, <1>3
    <3> QED
      BY <3>2, <3>3
  <2> QED
    BY <1>1, <2>1 DEF Shaped, Parts
<1>9. One(A2["profiles"])
  <2>1. CASE t = "profiles"
    <3>1. One(g)
      BY <2>1, <1>4, <1>6 DEF One
    <3> QED
      BY <2>1, <3>1, <1>2
  <2>2. CASE t # "profiles"
    BY <2>2, <1>2 DEF Tables
  <2> QED
    BY <2>1, <2>2
<1>10. IdsKept(A, C, A2, C2)
  <2> SUFFICES ASSUME NEW u \in Tables
               PROVE  C[u] <= C2[u] /\ DOMAIN A2[u] \cap (1..C[u]) \subseteq DOMAIN A[u]
    BY DEF IdsKept
  <2>1. C[u] \in Nat
    BY DEF Shaped, TableOK
  <2>2. CASE u = t
    <3>1. id \notin 1..C[t]
      BY <1>5
    <3> QED
      BY <2>2, <3>1, <1>2, <1>3, <1>4, <1>5
  <2>3. CASE u # t
    BY <2>1, <2>3, <1>2, <1>3
  <2> QED
    BY <2>2, <2>3
<1>11. ASSUME k, RowsRef(A), KidsRef(A, B)
       PROVE  RowsRef(A2) /\ KidsRef(A2, B)
  <2>1. \A u \in Tables : \A ref : RefOK(u, ref, A) => RefOK(u, ref, A2)
    BY <1>7 DEF RefOK, Tables
  <2>2. RowsRef(A2)
    <3> SUFFICES ASSUME NEW u \in Tables, NEW i \in DOMAIN A2[u]
                 PROVE  RefOK(u, A2[u][i].ref, A2)
      BY DEF RowsRef
    <3>1. CASE u = t /\ i = id
      BY <3>1, <2>1, <1>2, <1>4, <1>11
    <3>2. CASE u = t /\ i # id
      BY <3>2, <2>1, <1>2, <1>4, <1>6, <1>11 DEF RowsRef
    <3>3. CASE u # t
      BY <3>3, <2>1, <1>2, <1>11 DEF RowsRef
    <3> QED
      BY <3>1, <3>2, <3>3
  <2>3. KidsRef(A2, B)
    <3>1. \A u \in Parents : u \in Tables /\ HoldsOf(u) \in Tables
      BY DEF Parents, Tables, HoldsOf
    <3> QED
      BY <3>1, <1>7, <1>11 DEF KidsRef
  <2> QED
    BY <2>2, <2>3
<1>12. Moves(k, A, B, C, A2, B, C2)
  BY <1>8, <1>9, <1>10, <1>11 DEF Moves
<1> QED
  BY <1>12 DEF A2, C2, g

\* The children of one row.
LEMMA KidsMove ==
  ASSUME NEW k, NEW A, NEW B, NEW C, Shaped(A, B, C), One(A["profiles"]),
         NEW t \in Parents, NEW id, NEW kids \in Seq(Nat),
         k => ToSet(kids) \subseteq DOMAIN A[HoldsOf(t)] /\ (kids # <<>> => id \in DOMAIN A[t])
  PROVE  Moves(k, A, B, C, A, [B EXCEPT ![t] = With(B[t], id, kids)], C)
<1> DEFINE g == With(B[t], id, kids)
           B2 == [B EXCEPT ![t] = g]
<1>1. B2 = [u \in Parents |-> B2[u]]
  BY DEF Shaped, Parts
<1>2. B2[t] = g /\ \A u \in Parents \ {t} : B2[u] = B[u]
  BY DEF Shaped, Parts
<1>3. /\ DOMAIN g = DOMAIN B[t] \cup {id} /\ g[id] = kids
      /\ \A i \in DOMAIN B[t] \ {id} : g[i] = B[t][i]
      /\ KidsOK(g)
  <2>1. KidsOK(B[t])
    BY DEF Shaped
  <2> QED
    BY <2>1 DEF With, KidsOK
<1> HIDE DEF B2, g
<1>4. Shaped(A, B2, C)
  <2>1. \A u \in Parents : KidsOK(B2[u])
    BY <1>2, <1>3 DEF Shaped
  <2> QED
    BY <1>1, <2>1 DEF Shaped, Parts
<1>5. IdsKept(A, C, A, C)
  BY DEF IdsKept, Shaped, TableOK
<1>6. ASSUME k, KidsRef(A, B)
      PROVE  KidsRef(A, B2)
  <2> SUFFICES ASSUME NEW u \in Parents, NEW i \in DOMAIN B2[u]
               PROVE  (B2[u][i] # <<>> => i \in DOMAIN A[u]) /\ ToSet(B2[u][i]) \subseteq DOMAIN A[HoldsOf(u)]
    BY DEF KidsRef
  <2>1. CASE u = t /\ i = id
    BY <2>1, <1>2, <1>3, <1>6
  <2>2. CASE u = t /\ i # id
    BY <2>2, <1>2, <1>3, <1>6 DEF KidsRef
  <2>3. CASE u # t
    BY <2>3, <1>2, <1>6 DEF KidsRef
  <2> QED
    BY <2>1, <2>2, <2>3
<1>7. Moves(k, A, B, C, A, B2, C)
  BY <1>4, <1>5, <1>6 DEF Moves
<1> QED
  BY <1>7 DEF B2, g

----------------------------------------------------------------------------
\* Deleting.

\* Every set of numbers that is not empty has a least one.
LEMMA Least ==
  ASSUME NEW N \in SUBSET Nat, N # {}
  PROVE  \E m \in N : \A n \in N : m <= n
<1> DEFINE R == OpToRel(<, Nat)
<1>1. IsWellFoundedOn(R, Nat)
  BY NatLessThanWellFounded
<1>2. R = {p \in Nat \X Nat : p[1] < p[2]}
  BY DEF OpToRel
<1> HIDE DEF R
<1>3. \A m, n \in Nat : <<n, m>> \notin R => m <= n
  BY <1>2
<1>4. PICK m \in N : \A n \in N : <<n, m>> \notin R
  BY <1>1, WFMin
<1> QED
  BY <1>3, <1>4

\* Induction up to N, with a set where the library has an operator.
LEMMA UpTo ==
  ASSUME NEW N \in Nat, NEW P, 0 \in P, \A n \in 0..N-1 : n \in P => n + 1 \in P
  PROVE  \A n \in 0..N : n \in P
<1> DEFINE Bad == {n \in Nat : n <= N /\ n \notin P}
<1> SUFFICES ASSUME Bad # {} PROVE FALSE
  OBVIOUS
<1>1. PICK m \in Bad : \A n \in Bad : m <= n
  <2> Bad \in SUBSET Nat
    OBVIOUS
  <2> HIDE DEF Bad
  <2> QED
    BY Least
<1>2. m # 0
  OBVIOUS
<1>3. m - 1 \in Nat /\ m - 1 \in 0..N-1 /\ m - 1 \notin Bad
  BY <1>1, <1>2
<1> QED
  BY <1>3

\* Drop takes every occurrence out, however long the list is.
LEMMA DropType ==
  ASSUME NEW S, NEW q \in Seq(S), NEW x, NEW T, T = S \ {x}
  PROVE  Drop(q, x) \in Seq(T)
<1> DEFINE N == Len(q)
           Up(v, i) == IF q[i] = x THEN v ELSE Append(v, q[i])
           Built(n, f) == f \in [0..n -> Seq(T)] /\ f[0] = <<>> /\ \A i \in 1..n : f[i] = Up(f[i-1], i)
<1>n. N \in Nat
  OBVIOUS
<1>0. \A i \in 1..N, v \in Seq(T) : Up(v, i) \in Seq(T)
  OBVIOUS
<1>1. ASSUME NEW n \in Nat, n < N, NEW f, Built(n, f)
      PROVE  \E g : Built(n + 1, g)
  <2> HIDE DEF Up, N
  <2> DEFINE g == [i \in 0..n+1 |-> IF i = n + 1 THEN Up(f[n], n + 1) ELSE f[i]]
  <2>1. g \in [0..n+1 -> Seq(T)]
    <3>1. n + 1 \in 1..N
      BY <1>n, <1>1
    <3>2. f[n] \in Seq(T)
      <4> n \in 0..n
        OBVIOUS
      <4> QED
        BY <1>1
    <3>3. Up(f[n], n + 1) \in Seq(T)
      BY <1>0, <3>1, <3>2
    <3> QED
      BY <3>3, <1>1
  <2>2. g[0] = <<>> /\ \A i \in 1..n+1 : g[i] = Up(g[i-1], i)
    BY <1>1
  <2> QED
    BY <2>1, <2>2
<1>2. \E f : Built(0, f)
  <2> Built(0, [i \in 0..0 |-> <<>>])
    OBVIOUS
  <2> QED
    OBVIOUS
<1>3. \E f : Built(N, f)
  <2> DEFINE P == {n \in Nat : \E f : Built(n, f)}
  <2> HIDE DEF Built, N
  <2>1. 0 \in P
    BY <1>2
  <2>2. \A n \in 0..N-1 : n \in P => n + 1 \in P
    BY <1>n, <1>1
  <2> HIDE DEF P
  <2>3. \A n \in 0..N : n \in P
    BY <1>n, <2>1, <2>2, UpTo
  <2>4. N \in P
    BY <1>n, <2>3
  <2> QED
    BY <2>4 DEF P
<1>4. PICK f : Built(N, f)
  BY <1>3
<1> DEFINE Grows(g, i) == IF i = 0 THEN <<>> ELSE IF q[i] = x THEN g[i-1] ELSE Append(g[i-1], q[i])
           IsF(g) == g = [i \in 0..Len(q) |-> Grows(g, i)]
           F == CHOOSE g : IsF(g)
<1>5. IsF(f)
  <2>1. \A i \in 0..Len(q) : f[i] = Grows(f, i)
    <3> TAKE i \in 0..Len(q)
    <3>1. CASE i = 0
      BY <3>1, <1>4
    <3>2. CASE i # 0
      <4>1. i \in 1..N
        BY <3>2
      <4>2. f[i] = Up(f[i-1], i)
        BY <4>1, <1>4
      <4> QED
        BY <4>2, <3>2
    <3> QED
      BY <3>1, <3>2
  <2>2. f \in [0..Len(q) -> Seq(T)]
    BY <1>4
  <2> HIDE DEF Grows
  <2> QED
    BY <2>1, <2>2
<1>6. IsF(F)
  BY <1>5
<1>7. Drop(q, x) = F[N]
  BY DEF Drop
<1>8. \A n \in 0..N : F[n] \in Seq(T)
  <2> DEFINE P == {n \in Nat : F[n] \in Seq(T)}
  <2> HIDE DEF F
  <2>1. \A i \in 0..Len(q) : F[i] = Grows(F, i)
    <3> HIDE DEF Grows
    <3> QED
      BY <1>6
  <2>a. F[0] = <<>>
    BY <2>1, <1>n
  <2>b. \A n \in 0..N-1 : F[n + 1] = Up(F[n], n + 1)
    <3> TAKE n \in 0..N-1
    <3>1. n + 1 \in 0..Len(q) /\ n + 1 # 0 /\ (n + 1) - 1 = n
      BY <1>n
    <3> QED
      BY <3>1, <2>1
  <2>2. 0 \in P
    <3> <<>> \in Seq(T)
      OBVIOUS
    <3> QED
      BY <2>a
  <2>3. \A n \in 0..N-1 : n \in P => n + 1 \in P
    <3> TAKE n \in 0..N-1
    <3> HIDE DEF Up
    <3>1. n + 1 \in 1..N
      BY <1>n
    <3> QED
      BY <1>0, <2>b, <3>1
  <2> HIDE DEF P
  <2>4. \A n \in 0..N : n \in P
    BY <1>n, <2>2, <2>3, UpTo
  <2> QED
    BY <2>4 DEF P
<1> HIDE DEF F
<1> QED
  BY <1>n, <1>7, <1>8

LEMMA DropHolds ==
  ASSUME NEW kids \in Seq(Nat), NEW id
  PROVE  /\ Drop(kids, id) \in Seq(Nat)
         /\ ToSet(Drop(kids, id)) \subseteq ToSet(kids) \ {id}
         /\ kids = <<>> => Drop(kids, id) = <<>>
<1> DEFINE S == ToSet(kids)
           T == S \ {id}
           q == Drop(kids, id)
<1>1. kids \in Seq(S) /\ S \subseteq Nat
  BY DEF ToSet
<1> HIDE DEF S
<1>2. q \in Seq(T)
  BY <1>1, DropType
<1> HIDE DEF q
<1>3. \A i \in DOMAIN q : q[i] \in T
  BY <1>2
<1>4. q \in Seq(Nat)
  <2>1. Len(q) \in Nat /\ q \in [1..Len(q) -> Nat]
    <3>1. Len(q) \in Nat /\ DOMAIN q = 1..Len(q) /\ q = [i \in 1..Len(q) |-> q[i]]
      BY <1>2
    <3> QED
      BY <3>1, <1>1, <1>3
  <2> QED
    BY <2>1
<1>5. ToSet(q) \subseteq T
  BY <1>3 DEF ToSet
<1>6. kids = <<>> => q = <<>>
  <2> SUFFICES ASSUME kids = <<>> PROVE q = <<>>
    OBVIOUS
  <2>1. S = {}
    BY DEF ToSet, S
  <2>2. Len(q) \in Nat /\ DOMAIN q = 1..Len(q)
    BY <1>2
  <2>3. Len(q) = 0
    <3> SUFFICES ASSUME Len(q) # 0 PROVE FALSE
      OBVIOUS
    <3>1. 1 \in DOMAIN q
      BY <2>2
    <3> QED
      BY <3>1, <2>1, <1>3
  <2> QED
    BY <1>4, <2>3, EmptySeq
<1> QED
  BY <1>4, <1>5, <1>6 DEF q, S

LEMMA WithoutHolds ==
  ASSUME NEW f, NEW S
  PROVE  /\ DOMAIN Without(f, S) = DOMAIN f \ S
         /\ \A i \in DOMAIN f \ S : Without(f, S)[i] = f[i]
         /\ Without(f, S) = [i \in DOMAIN f \ S |-> f[i]]
BY DEF Without, Restrict

LEMMA RefEdit ==
  ASSUME NEW row \in Rows, NEW r \in Nat, NEW y, y = [row EXCEPT !.ref = r]
  PROVE  y \in Rows /\ y.name = row.name /\ y.active = row.active /\ y.ref = r
BY DEF Rows

LEMMA PwdEdit ==
  ASSUME NEW row \in Rows, NEW w \in Pwds \cup {None, Hidden}, NEW y, y = [row EXCEPT !.pwd = w]
  PROVE  y \in Rows /\ y.name = row.name /\ y.active = row.active /\ y.ref = row.ref
BY DEF Rows

LEMMA ActiveEdit ==
  ASSUME NEW row \in Rows, NEW a \in BOOLEAN, NEW y, y = [row EXCEPT !.active = a]
  PROVE  y \in Rows /\ y.name = row.name /\ y.active = a /\ y.ref = row.ref
BY DEF Rows

LEMMA PolicyEdit ==
  ASSUME NEW row \in Rows, NEW v \in {None, "own"}, NEW y, y = [row EXCEPT !.policy = v]
  PROVE  y \in Rows /\ y.name = row.name /\ y.active = row.active /\ y.ref = row.ref
BY DEF Rows

LEMMA FewerRows ==
  ASSUME NEW u \in Tables, NEW rows, NEW last, TableOK(u, rows, last), NEW S
  PROVE  TableOK(u, Without(rows, S), last) /\ (One(rows) => One(Without(rows, S)))
<1> DEFINE g == Without(rows, S)
<1>1. DOMAIN g = DOMAIN rows \ S /\ \A i \in DOMAIN g : g[i] = rows[i]
  BY DEF Without, Restrict
<1>2. g \in [DOMAIN g -> Rows]
  <2>1. g = [i \in DOMAIN rows \ S |-> rows[i]]
    BY WithoutHolds
  <2>2. \A i \in DOMAIN rows : rows[i] \in Rows
    BY DEF TableOK
  <2> HIDE DEF g
  <2> QED
    BY <1>1, <2>1, <2>2
<1> HIDE DEF g
<1>3. TableOK(u, g, last)
  BY <1>1, <1>2 DEF TableOK
<1>4. One(rows) => One(g)
  BY <1>1 DEF One
<1> QED
  BY <1>3, <1>4 DEF g

\* Without foreign keys a row goes alone.
LEMMA AloneMove ==
  ASSUME NEW k, ~k, NEW A, NEW B, NEW C, Shaped(A, B, C), One(A["profiles"]), NEW t \in Tables, NEW id
  PROVE  Moves(k, A, B, C, [A EXCEPT ![t] = Without(A[t], {id})], B, C)
<1> DEFINE g == Without(A[t], {id})
           A2 == [A EXCEPT ![t] = g]
<1>1. A2 = [u \in Tables |-> A2[u]]
  BY DEF Shaped, Parts
<1>2. A2[t] = g /\ \A u \in Tables \ {t} : A2[u] = A[u]
  BY DEF Shaped, Parts
<1>3. TableOK(t, g, C[t]) /\ (One(A[t]) => One(g)) /\ DOMAIN g \subseteq DOMAIN A[t]
  <2>1. TableOK(t, A[t], C[t])
    BY DEF Shaped
  <2>2. DOMAIN g \subseteq DOMAIN A[t]
    BY DEF Without, Restrict
  <2> QED
    BY <2>1, <2>2, FewerRows
<1> HIDE DEF A2, g
<1>4. Shaped(A2, B, C)
  BY <1>1, <1>2, <1>3 DEF Shaped, Parts
<1>5. One(A2["profiles"])
  BY <1>2, <1>3 DEF Tables
<1>6. IdsKept(A, C, A2, C)
  <2>1. \A u \in Tables : C[u] \in Nat
    BY DEF Shaped, TableOK
  <2> QED
    BY <2>1, <1>2, <1>3 DEF IdsKept
<1>7. Moves(k, A, B, C, A2, B, C)
  BY <1>4, <1>5, <1>6 DEF Moves
<1> QED
  BY <1>7 DEF A2, g

\* With them the row takes what is its own with it.
LEMMA RowsAfterOK ==
  ASSUME NEW u \in Tables, NEW t \in Tables, NEW rows, NEW last, TableOK(u, rows, last), NEW id
  PROVE  LET g == RowsAfter(rows, u, t, id) IN
         /\ TableOK(u, g, last) /\ (One(rows) => One(g)) /\ DOMAIN g \subseteq DOMAIN rows
         /\ u = t => id \notin DOMAIN g
         /\ u \notin Owned /\ u # t => DOMAIN g = DOMAIN rows
         /\ u \notin Owned => DOMAIN rows \ {id} \subseteq DOMAIN g
         /\ \A i \in DOMAIN g :
              \/ g[i].ref = rows[i].ref /\ (u \in Owned /\ t = "servers" /\ u # t => g[i].ref # id)
                                        /\ (u = "servers" /\ t = "gateways" => g[i].ref # id)
              \/ u = "servers" /\ g[i].ref = 0
<1> DEFINE g == RowsAfter(rows, u, t, id)
           S == {i \in DOMAIN rows : rows[i].ref = id}
           z == [i \in DOMAIN rows |-> IF rows[i].ref = id THEN [rows[i] EXCEPT !.ref = 0] ELSE rows[i]]
<1>1. CASE u = t
  <2>1. g = Without(rows, {id})
    BY <1>1 DEF RowsAfter, Owned
  <2>2. ~(u = "servers" /\ t = "gateways")
    BY <1>1
  <2>3. TableOK(u, g, last) /\ (One(rows) => One(g))
    BY <2>1, FewerRows
  <2>4. DOMAIN g = DOMAIN rows \ {id} /\ \A i \in DOMAIN g : g[i] = rows[i]
    BY <2>1 DEF Without, Restrict
  <2> QED
    BY <1>1, <2>2, <2>3, <2>4
<1>2. CASE u # t /\ u \in Owned /\ t = "servers"
  <2>1. g = Without(rows, S)
    BY <1>2 DEF RowsAfter
  <2>2. u # "servers"
    BY <1>2 DEF Owned
  <2>3. TableOK(u, g, last) /\ (One(rows) => One(g))
    BY <2>1, FewerRows
  <2>4. DOMAIN g = DOMAIN rows \ S /\ \A i \in DOMAIN g : g[i] = rows[i]
    BY <2>1 DEF Without, Restrict
  <2> QED
    BY <1>2, <2>2, <2>3, <2>4
<1>3. CASE u = "servers" /\ t = "gateways"
  <2>1. g = z
    BY <1>3 DEF RowsAfter, Owned
  <2>2. DOMAIN z = DOMAIN rows
    OBVIOUS
  <2>3. \A i \in DOMAIN rows : /\ z[i] \in Rows
                               /\ z[i].name = rows[i].name /\ z[i].active = rows[i].active
                               /\ (z[i].ref = 0 \/ (z[i].ref = rows[i].ref /\ rows[i].ref # id))
    <3> TAKE i \in DOMAIN rows
    <3>1. rows[i] \in Rows
      BY DEF TableOK
    <3>2. CASE rows[i].ref = id
      <4> DEFINE y == [rows[i] EXCEPT !.ref = 0]
      <4>1. y \in Rows /\ y.name = rows[i].name /\ y.active = rows[i].active /\ y.ref = 0
        BY <3>1, RefEdit
      <4>2. z[i] = y
        BY <3>2
      <4> HIDE DEF z
      <4>3. z[i] \in Rows /\ z[i].name = rows[i].name /\ z[i].active = rows[i].active /\ z[i].ref = 0
        BY <4>1, <4>2
      <4> QED
        BY <4>3
    <3>3. CASE rows[i].ref # id
      BY <3>1, <3>3
    <3> QED
      BY <3>2, <3>3
  <2>4. z \in [DOMAIN z -> Rows]
    BY <2>3
  <2> HIDE DEF z
  <2>5. TableOK(u, z, last)
    BY <2>2, <2>3, <2>4 DEF TableOK
  <2>6. One(rows) => One(z)
    BY <2>2, <2>3 DEF One
  <2>7. u \notin Owned
    BY <1>3 DEF Owned
  <2> QED
    BY <1>3, <2>1, <2>2, <2>3, <2>5, <2>6, <2>7
<1>4. CASE /\ u # t /\ ~(u \in Owned /\ t = "servers") /\ ~(u = "servers" /\ t = "gateways")
  <2>1. g = rows
    BY <1>4 DEF RowsAfter
  <2> QED
    BY <1>4, <2>1
<1> QED
  BY <1>1, <1>2, <1>3, <1>4

LEMMA KidsAfterOK ==
  ASSUME NEW u \in Parents, NEW t \in Tables, NEW kids, KidsOK(kids), NEW id
  PROVE  LET g == KidsAfter(kids, u, t, id) IN
         /\ KidsOK(g) /\ DOMAIN g \subseteq DOMAIN kids
         /\ u = t => id \notin DOMAIN g
         /\ \A i \in DOMAIN g : /\ g[i] # <<>> => kids[i] # <<>>
                                /\ ToSet(g[i]) \subseteq ToSet(kids[i])
                                /\ HoldsOf(u) = t => id \notin ToSet(g[i])
<1> DEFINE own == IF u = t THEN Without(kids, {id}) ELSE kids
           h == [i \in DOMAIN own |-> Drop(own[i], id)]
           g == KidsAfter(kids, u, t, id)
<1>1. /\ DOMAIN own \subseteq DOMAIN kids /\ (u = t => id \notin DOMAIN own)
      /\ \A i \in DOMAIN own : own[i] = kids[i] /\ own[i] \in Seq(Nat)
      /\ KidsOK(own)
  <2>1. CASE u = t
    <3>1. own = [i \in DOMAIN kids \ {id} |-> kids[i]]
      BY <2>1, WithoutHolds
    <3> QED
      BY <2>1, <3>1 DEF KidsOK
  <2>2. CASE u # t
    BY <2>2 DEF KidsOK
  <2> QED
    BY <2>1, <2>2
<1>2. g = IF HoldsOf(u) = t THEN h ELSE own
  BY DEF KidsAfter
<1> HIDE DEF own, g
<1>3. CASE HoldsOf(u) = t
  <2>1. g = h
    BY <1>2, <1>3
  <2>2. DOMAIN g = DOMAIN own /\ \A i \in DOMAIN own : g[i] = Drop(own[i], id)
    BY <2>1
  <2>3. \A i \in DOMAIN own : /\ g[i] \in Seq(Nat) /\ ToSet(g[i]) \subseteq ToSet(kids[i]) \ {id}
                              /\ kids[i] = <<>> => g[i] = <<>>
    BY <1>1, <2>2, DropHolds
  <2>4. g \in [DOMAIN g -> Seq(Nat)]
    BY <2>1, <2>2, <2>3
  <2> HIDE DEF h
  <2>5. KidsOK(g)
    BY <2>4 DEF KidsOK
  <2> QED
    BY <1>1, <2>2, <2>3, <2>5 DEF g
<1>4. CASE HoldsOf(u) # t
  BY <1>1, <1>2, <1>4 DEF g
<1> QED
  BY <1>3, <1>4

LEMMA CascadeMove ==
  ASSUME NEW A, NEW B, NEW C, Shaped(A, B, C), One(A["profiles"]), NEW t \in Tables, NEW id
  PROVE  Moves(TRUE, A, B, C, [u \in Tables |-> RowsAfter(A[u], u, t, id)],
               [u \in Parents |-> KidsAfter(B[u], u, t, id)], C)
<1> DEFINE A2 == [u \in Tables |-> RowsAfter(A[u], u, t, id)]
           B2 == [u \in Parents |-> KidsAfter(B[u], u, t, id)]
<1>1. ASSUME NEW u \in Tables
      PROVE  /\ TableOK(u, A2[u], C[u]) /\ (One(A[u]) => One(A2[u])) /\ DOMAIN A2[u] \subseteq DOMAIN A[u]
             /\ u = t => id \notin DOMAIN A2[u]
             /\ u \notin Owned /\ u # t => DOMAIN A2[u] = DOMAIN A[u]
             /\ u \notin Owned => DOMAIN A[u] \ {id} \subseteq DOMAIN A2[u]
             /\ \A i \in DOMAIN A2[u] :
                  \/ A2[u][i].ref = A[u][i].ref
                     /\ (u \in Owned /\ t = "servers" /\ u # t => A2[u][i].ref # id)
                     /\ (u = "servers" /\ t = "gateways" => A2[u][i].ref # id)
                  \/ u = "servers" /\ A2[u][i].ref = 0
  <2>1. TableOK(u, A[u], C[u])
    BY DEF Shaped
  <2>2. A2[u] = RowsAfter(A[u], u, t, id)
    OBVIOUS
  <2> HIDE DEF A2
  <2> QED
    BY <2>1, <2>2, RowsAfterOK
<1>2. ASSUME NEW u \in Parents
      PROVE  /\ KidsOK(B2[u]) /\ DOMAIN B2[u] \subseteq DOMAIN B[u]
             /\ u = t => id \notin DOMAIN B2[u]
             /\ \A i \in DOMAIN B2[u] : /\ B2[u][i] # <<>> => B[u][i] # <<>>
                                        /\ ToSet(B2[u][i]) \subseteq ToSet(B[u][i])
                                        /\ HoldsOf(u) = t => id \notin ToSet(B2[u][i])
  <2>1. KidsOK(B[u])
    BY DEF Shaped
  <2>2. B2[u] = KidsAfter(B[u], u, t, id)
    OBVIOUS
  <2> HIDE DEF B2
  <2> QED
    BY <2>1, <2>2, KidsAfterOK
<1>3. A2 = [u \in Tables |-> A2[u]] /\ B2 = [u \in Parents |-> B2[u]]
  OBVIOUS
<1> HIDE DEF A2, B2
<1>4. Shaped(A2, B2, C)
  <2>1. Parts(A2, B2, C)
    BY <1>3 DEF Parts, Shaped
  <2> QED
    BY <2>1, <1>1, <1>2 DEF Shaped
<1>5. One(A2["profiles"])
  BY <1>1 DEF Tables
<1>6. IdsKept(A, C, A2, C)
  <2>1. \A u \in Tables : C[u] \in Nat
    BY DEF Shaped, TableOK
  <2> QED
    BY <2>1, <1>1 DEF IdsKept
<1>h. /\ \A u \in Parents : u \in Tables /\ u \notin Owned /\ HoldsOf(u) \in {"gateways", "servers"}
      /\ {"gateways", "servers"} \subseteq Tables \ Owned
  BY DEF Parents, Tables, HoldsOf, Owned
<1>7. ASSUME RowsRef(A)
      PROVE  RowsRef(A2)
  <2> SUFFICES ASSUME NEW u \in Tables, NEW i \in DOMAIN A2[u]
               PROVE  RefOK(u, A2[u][i].ref, A2)
    BY DEF RowsRef
  <2> DEFINE old == A[u][i].ref
             ref == A2[u][i].ref
  <2>1. RefOK(u, old, A)
    BY <1>1, <1>7 DEF RowsRef
  <2>2. ASSUME u = "servers"
        PROVE  ref \in DOMAIN A2["gateways"] \cup {0}
    <3>1. \/ ref = 0 \/ (ref = old /\ (t = "gateways" => ref # id))
      BY <1>1, <2>2
    <3>2. CASE ref = 0
      BY <3>2
    <3>3. CASE ref = old /\ (t = "gateways" => ref # id)
      <4>1. old \in DOMAIN A["gateways"] \cup {0}
        BY <2>1, <2>2 DEF RefOK
      <4>2. \A j \in DOMAIN A["gateways"] : (t = "gateways" => j # id) => j \in DOMAIN A2["gateways"]
        BY <1>1, <1>h
      <4> HIDE DEF old, ref
      <4> QED
        BY <3>3, <4>1, <4>2
    <3> QED
      BY <3>1, <3>2, <3>3
  <2>3. ASSUME u \in Owned
        PROVE  ref \in DOMAIN A2["servers"]
    <3>1. u # "servers"
      BY <2>3 DEF Owned
    <3>2. ref = old /\ (t = "servers" => ref # id)
      BY <1>1, <2>3, <3>1
    <3>3. old \in DOMAIN A["servers"]
      BY <2>1, <2>3 DEF RefOK
    <3>4. \A j \in DOMAIN A["servers"] : (t = "servers" => j # id) => j \in DOMAIN A2["servers"]
      BY <1>1, <1>h
    <3> HIDE DEF old, ref
    <3> QED
      BY <3>2, <3>3, <3>4
  <2> QED
    BY <2>2, <2>3 DEF RefOK
<1>8. ASSUME KidsRef(A, B)
      PROVE  KidsRef(A2, B2)
  <2> SUFFICES ASSUME NEW u \in Parents, NEW i \in DOMAIN B2[u]
               PROVE  (B2[u][i] # <<>> => i \in DOMAIN A2[u]) /\ ToSet(B2[u][i]) \subseteq DOMAIN A2[HoldsOf(u)]
    BY DEF KidsRef
  <2>1. /\ i \in DOMAIN B[u] /\ (B[u][i] # <<>> => i \in DOMAIN A[u])
        /\ ToSet(B[u][i]) \subseteq DOMAIN A[HoldsOf(u)]
    BY <1>2, <1>8 DEF KidsRef
  <2>2. B2[u][i] # <<>> => i \in DOMAIN A2[u]
    <3>1. CASE u = t
      <4>1. i # id
        BY <1>2, <3>1
      <4> QED
        BY <4>1, <2>1, <1>1, <1>2, <1>h
    <3>2. CASE u # t
      BY <3>2, <2>1, <1>1, <1>2, <1>h
    <3> QED
      BY <3>1, <3>2
  <2>3. ToSet(B2[u][i]) \subseteq DOMAIN A2[HoldsOf(u)]
    <3>1. ToSet(B2[u][i]) \subseteq DOMAIN A[HoldsOf(u)] /\ (HoldsOf(u) = t => id \notin ToSet(B2[u][i]))
      BY <2>1, <1>2
    <3>2. HoldsOf(u) \in Tables \ Owned
      BY <1>h
    <3>3. HoldsOf(u) # t => DOMAIN A2[HoldsOf(u)] = DOMAIN A[HoldsOf(u)]
      BY <3>2, <1>1
    <3>4. DOMAIN A[HoldsOf(u)] \ {id} \subseteq DOMAIN A2[HoldsOf(u)]
      BY <3>2, <1>1
    <3> QED
      BY <3>1, <3>3, <3>4
  <2> QED
    BY <2>2, <2>3
<1>9. Moves(TRUE, A, B, C, A2, B2, C)
  BY <1>4, <1>5, <1>6, <1>7, <1>8 DEF Moves
<1> QED
  BY <1>9 DEF A2, B2

----------------------------------------------------------------------------
\* The statements and the transactions.

LEMMA RefHoldsIs ==
  ASSUME NEW db, NEW u \in Tables, NEW row
  PROVE  RefHolds(db, u, row) <=> RefOK(u, row.ref, db.rows)
<1>1. CASE u = "servers"
  BY <1>1 DEF RefHolds, RefOK, Live, Owned
<1>2. CASE u \in Owned
  BY <1>2 DEF RefHolds, RefOK, Live, Owned
<1>3. CASE u # "servers" /\ u \notin Owned
  BY <1>3 DEF RefHolds, RefOK, Live, Owned
<1> QED
  BY <1>1, <1>2, <1>3

LEMMA AddedGoes ==
  ASSUME NEW k \in BOOLEAN, NEW db, Good(db), NEW t \in Tables, NEW row \in Rows, ~row.active,
         t # "notes" => row.name \in Names, k => RefHolds(db, t, row)
  PROVE  Goes(k, db, Done(Added(db, t, row)))
<1> DEFINE A == db.rows
           B == db.kids
           C == db.next
<1>1. db = Db(A, B, C) /\ Shaped(A, B, C) /\ One(A["profiles"])
  BY HasParts DEF Good
<1>2. k => RefOK(t, row.ref, A)
  BY RefHoldsIs
<1>3. Added(db, t, row) = Db([A EXCEPT ![t] = With(A[t], C[t] + 1, row)], B, [C EXCEPT ![t] = C[t] + 1])
  BY DEF Added, Db, NewId
<1> HIDE DEF A, B, C
<1>4. Moves(k, A, B, C, [A EXCEPT ![t] = With(A[t], C[t] + 1, row)], B, [C EXCEPT ![t] = C[t] + 1])
  BY <1>1, <1>2, AddMove
<1> QED
  BY <1>1, <1>3, <1>4, MovesGo

LEMMA InsertGoes ==
  ASSUME NEW k \in BOOLEAN, NEW db, Good(db), NEW t \in Tables, NEW row \in Rows, ~row.active,
         t # "notes" => row.name \in Names
  PROVE  Goes(k, db, Insert(k, db, t, row))
<1>1. CASE Unique(db, t, row.name, 0) /\ (k => RefHolds(db, t, row))
  <2>1. Insert(k, db, t, row) = Done(Added(db, t, row))
    BY <1>1 DEF Insert
  <2> QED
    BY <1>1, <2>1, AddedGoes
<1>2. CASE ~(Unique(db, t, row.name, 0) /\ (k => RefHolds(db, t, row)))
  <2>1. Insert(k, db, t, row) = Fails(db)
    BY <1>2 DEF Insert
  <2> QED
    BY <2>1, StaysGo
<1> QED
  BY <1>1, <1>2

LEMMA WithKidsGoes ==
  ASSUME NEW k \in BOOLEAN, NEW db, Good(db), NEW t \in Parents, NEW id, NEW kids \in Seq(Nat),
         k => KidsHold(db, t, kids) /\ (kids # <<>> => id \in Live(db, t))
  PROVE  Goes(k, db, Done(WithKids(db, t, id, kids)))
<1> DEFINE A == db.rows
           B == db.kids
           C == db.next
<1>1. db = Db(A, B, C) /\ Shaped(A, B, C) /\ One(A["profiles"])
  BY HasParts DEF Good
<1>2. k => ToSet(kids) \subseteq DOMAIN A[HoldsOf(t)] /\ (kids # <<>> => id \in DOMAIN A[t])
  BY DEF KidsHold, Live
<1> HIDE DEF A, B, C
<1>3. WithKids(db, t, id, kids) = Db(A, [B EXCEPT ![t] = With(B[t], id, kids)], C)
  <2> SUFFICES [Db(A, B, C) EXCEPT !.kids[t] = With(@, id, kids)] = Db(A, [B EXCEPT ![t] = With(B[t], id, kids)], C)
    BY <1>1 DEF WithKids
  <2> QED
    BY DEF Db
<1>4. Moves(k, A, B, C, A, [B EXCEPT ![t] = With(B[t], id, kids)], C)
  BY <1>1, <1>2, KidsMove
<1> QED
  BY <1>1, <1>3, <1>4, MovesGo

LEMMA InsertWithGoes ==
  ASSUME NEW k \in BOOLEAN, NEW db, Good(db), NEW t \in Parents, NEW row \in Rows, ~row.active,
         row.name \in Names, NEW kids \in Seq(Nat)
  PROVE  Goes(k, db, InsertWith(k, db, t, row, kids))
<1>0. t \in Tables /\ t # "servers" /\ t \notin Owned /\ HoldsOf(t) \in Tables /\ HoldsOf(t) # t
  BY DEF Parents, Tables, Owned, HoldsOf
<1>1. CASE Unique(db, t, row.name, 0) /\ (k => KidsHold(db, t, kids))
  <2> DEFINE mid == Added(db, t, row)
             id == NewId(db, t)
             r == Done(WithKids(mid, t, id, kids))
  <2>1. InsertWith(k, db, t, row, kids) = r
    BY <1>1 DEF InsertWith
  <2>2. RefHolds(db, t, row)
    BY <1>0 DEF RefHolds
  <2>3. Goes(k, db, Done(mid))
    BY <1>0, <2>2, AddedGoes
  <2>4. Good(mid)
    BY <2>3 DEF Goes, Done
  <2>5. id \in Live(mid, t) /\ Live(mid, HoldsOf(t)) = Live(db, HoldsOf(t))
    <3>1. mid.rows = [db.rows EXCEPT ![t] = With(@, id, row)]
      BY DEF Added
    <3>2. db.rows = [u \in Tables |-> db.rows[u]]
      BY HasParts DEF Good, Shaped, Parts
    <3> HIDE DEF mid, id
    <3>3. mid.rows[t] = With(db.rows[t], id, row) /\ mid.rows[HoldsOf(t)] = db.rows[HoldsOf(t)]
      BY <1>0, <3>1, <3>2
    <3> QED
      BY <3>3 DEF Live, With
  <2>6. k => KidsHold(mid, t, kids)
    BY <1>1, <2>5 DEF KidsHold
  <2> HIDE DEF mid, id
  <2>7. Goes(k, mid, r)
    BY <2>4, <2>5, <2>6, WithKidsGoes
  <2>8. r.ok
    BY DEF Done
  <2> QED
    BY <2>1, <2>3, <2>7, <2>8, ThenGo
<1>2. CASE ~(Unique(db, t, row.name, 0) /\ (k => KidsHold(db, t, kids)))
  <2>1. InsertWith(k, db, t, row, kids) = Fails(db)
    BY <1>2 DEF InsertWith
  <2> QED
    BY <2>1, StaysGo
<1> QED
  BY <1>1, <1>2

LEMMA PutGoes ==
  ASSUME NEW k \in BOOLEAN, NEW db, Good(db), NEW t \in Tables, NEW id \in Live(db, t), NEW row \in Rows,
         t # "notes" => row.name \in Names, k => RefHolds(db, t, row),
         t = "profiles" => row.active = db.rows[t][id].active
  PROVE  Goes(k, db, Done([db EXCEPT !.rows[t][id] = row]))
<1> DEFINE A == db.rows
           B == db.kids
           C == db.next
           g == [A[t] EXCEPT ![id] = row]
<1>1. db = Db(A, B, C) /\ Shaped(A, B, C) /\ One(A["profiles"])
  BY HasParts DEF Good
<1>2. k => RefOK(t, row.ref, A)
  BY RefHoldsIs
<1>3. id \in DOMAIN A[t] /\ (t = "profiles" => row.active = A[t][id].active)
  BY DEF Live
<1> HIDE DEF A, B, C
<1>4. [db EXCEPT !.rows[t][id] = row] = Db([A EXCEPT ![t] = g], B, C)
  <2> SUFFICES [Db(A, B, C) EXCEPT !.rows[t][id] = row] = Db([A EXCEPT ![t] = g], B, C)
    BY <1>1
  <2> QED
    BY DEF Db
<1>5. TableOK(t, A[t], C[t])
  BY <1>1 DEF Shaped
<1>6. g \in [DOMAIN A[t] -> Rows] /\ g[id] = row /\ \A i \in DOMAIN A[t] \ {id} : g[i] = A[t][i]
  BY <1>3, <1>5 DEF TableOK
<1> HIDE DEF g
<1>7. t # "notes" => \A i \in DOMAIN A[t] : g[i].name \in Names
  BY <1>5, <1>6 DEF TableOK
<1>8. t = "profiles" => One(g)
  <2> SUFFICES ASSUME t = "profiles" PROVE One(g)
    OBVIOUS
  <2>1. DOMAIN g = DOMAIN A[t] /\ \A i \in DOMAIN A[t] : g[i].active = A[t][i].active
    BY <1>3, <1>6
  <2> QED
    BY <1>1, <2>1 DEF One
<1>9. k /\ RowsRef(A) => \A i \in DOMAIN A[t] : RefOK(t, g[i].ref, A)
  BY <1>2, <1>6 DEF RowsRef
<1>10. Moves(k, A, B, C, [A EXCEPT ![t] = g], B, C)
  BY <1>1, <1>6, <1>7, <1>8, <1>9, RowsMove
<1> QED
  BY <1>1, <1>4, <1>10, MovesGo

LEMMA SaveGoes ==
  ASSUME NEW k \in BOOLEAN, NEW db, Good(db), NEW t \in Tables, NEW id, NEW row \in Rows,
         t # "notes" => row.name \in Names,
         t = "profiles" /\ id \in Live(db, t) => row.active = db.rows[t][id].active
  PROVE  /\ Goes(k, db, Save(k, db, t, id, row))
         /\ Save(k, db, t, id, row) = Done(Save(k, db, t, id, row).db) \/ ~Save(k, db, t, id, row).ok
<1> DEFINE r == Save(k, db, t, id, row)
<1>1. CASE id \notin Live(db, t)
  <2>1. r = Done(db)
    BY <1>1 DEF Save
  <2>2. Done(db).db = db
    BY DEF Done
  <2> HIDE DEF r
  <2>3. Goes(k, db, r) /\ (r = Done(r.db) \/ ~r.ok)
    BY <2>1, <2>2, StaysGo
  <2> QED
    BY <2>3 DEF r
<1>2. CASE id \in Live(db, t) /\ Unique(db, t, row.name, id) /\ (k => RefHolds(db, t, row))
  <2> DEFINE new == [db EXCEPT !.rows[t][id] = row]
  <2>1. r = Done(new)
    BY <1>2 DEF Save
  <2>2. Done(new).db = new
    BY DEF Done
  <2>3. Goes(k, db, Done(new))
    BY <1>2, PutGoes
  <2> HIDE DEF r, new
  <2>4. Goes(k, db, r) /\ (r = Done(r.db) \/ ~r.ok)
    BY <2>1, <2>2, <2>3
  <2> QED
    BY <2>4 DEF r
<1>3. CASE id \in Live(db, t) /\ ~(Unique(db, t, row.name, id) /\ (k => RefHolds(db, t, row)))
  <2>1. r = Fails(db)
    BY <1>3 DEF Save
  <2>2. ~Fails(db).ok
    BY DEF Fails
  <2> HIDE DEF r
  <2>3. Goes(k, db, r) /\ (r = Done(r.db) \/ ~r.ok)
    BY <2>1, <2>2, StaysGo
  <2> QED
    BY <2>3 DEF r
<1> QED
  BY <1>1, <1>2, <1>3

LEMMA DeleteGoes ==
  ASSUME NEW k \in BOOLEAN, NEW db, Good(db), NEW t \in Tables, NEW id
  PROVE  Goes(k, db, Delete(k, db, t, id))
<1> DEFINE A == db.rows
           B == db.kids
           C == db.next
<1>1. db = Db(A, B, C) /\ Shaped(A, B, C) /\ One(A["profiles"])
  BY HasParts DEF Good
<1>2. CASE k
  <2>1. Delete(k, db, t, id) = Done(Cascade(db, t, id))
    BY <1>2 DEF Delete
  <2>2. Cascade(db, t, id) = Db([u \in Tables |-> RowsAfter(A[u], u, t, id)],
                                [u \in Parents |-> KidsAfter(B[u], u, t, id)], C)
    BY DEF Cascade, Db
  <2> HIDE DEF A, B, C
  <2>3. Moves(TRUE, A, B, C, [u \in Tables |-> RowsAfter(A[u], u, t, id)],
              [u \in Parents |-> KidsAfter(B[u], u, t, id)], C)
    BY <1>1, CascadeMove
  <2>4. Goes(TRUE, db, Delete(k, db, t, id))
    BY <1>1, <2>1, <2>2, <2>3, MovesGo
  <2>5. k = TRUE
    BY <1>2
  <2> QED
    BY <2>4, <2>5
<1>3. CASE ~k
  <2>1. Delete(k, db, t, id) = Done(DeleteAlone(db, t, id))
    BY <1>3 DEF Delete
  <2> HIDE DEF A, B, C
  <2>2. DeleteAlone(db, t, id) = Db([A EXCEPT ![t] = Without(A[t], {id})], B, C)
    <3> SUFFICES [Db(A, B, C) EXCEPT !.rows[t] = Without(@, {id})] = Db([A EXCEPT ![t] = Without(A[t], {id})], B, C)
      BY <1>1 DEF DeleteAlone
    <3> QED
      BY DEF Db
  <2>3. Moves(k, A, B, C, [A EXCEPT ![t] = Without(A[t], {id})], B, C)
    BY <1>1, <1>3, AloneMove
  <2> QED
    BY <1>1, <2>1, <2>2, <2>3, MovesGo
<1> QED
  BY <1>2, <1>3

LEMMA SaveKeepsLive ==
  ASSUME NEW k, NEW db, Good(db), NEW t \in Tables, NEW id, NEW row
  PROVE  \A u \in Tables : Live(Save(k, db, t, id, row).db, u) = Live(db, u)
<1> DEFINE r == Save(k, db, t, id, row)
           new == [db EXCEPT !.rows[t][id] = row]
           A == db.rows
           B == db.kids
           C == db.next
<1>1. db = Db(A, B, C) /\ Shaped(A, B, C)
  BY HasParts DEF Good
<1>2. \A u \in Tables : Live(new, u) = Live(db, u)
  <2> HIDE DEF A, B, C
  <2>1. [Db(A, B, C) EXCEPT !.rows[t][id] = row].rows = [A EXCEPT ![t] = [A[t] EXCEPT ![id] = row]]
    BY DEF Db
  <2>2. new.rows = [A EXCEPT ![t] = [A[t] EXCEPT ![id] = row]]
    BY <1>1, <2>1
  <2>3. A = [u \in Tables |-> A[u]]
    BY <1>1 DEF Shaped, Parts
  <2>4. db.rows = A
    BY DEF A
  <2> HIDE DEF new
  <2> QED
    BY <2>2, <2>3, <2>4 DEF Live
<1>3. r = Done(db) \/ r = Done(new) \/ r = Fails(db)
  BY DEF Save
<1>4. r.db = db \/ r.db = new
  <2> HIDE DEF r, new
  <2> QED
    BY <1>3 DEF Done, Fails
<1> QED
  BY <1>2, <1>4

LEMMA SaveWithGoes ==
  ASSUME NEW k \in BOOLEAN, NEW db, Good(db), NEW t \in Parents, NEW id, NEW row \in Rows,
         row.name \in Names, NEW kids \in Seq(Nat),
         t = "profiles" /\ id \in Live(db, t) => row.active = db.rows[t][id].active
  PROVE  Goes(k, db, SaveWith(k, db, t, id, row, kids))
<1> DEFINE saved == Save(k, db, t, id, row)
           ok == saved.ok /\ (k => KidsHold(db, t, kids) /\ (kids # <<>> => id \in Live(db, t)))
           r == Done(WithKids(saved.db, t, id, kids))
<1>0. t \in Tables /\ HoldsOf(t) \in Tables
  BY DEF Parents, Tables, HoldsOf
<1>1. CASE ok
  <2>1. SaveWith(k, db, t, id, row, kids) = r
    BY <1>1 DEF SaveWith
  <2>2. Goes(k, db, saved) /\ saved = Done(saved.db)
    BY <1>0, <1>1, SaveGoes
  <2>3. \A u \in Tables : Live(saved.db, u) = Live(db, u)
    BY <1>0, SaveKeepsLive
  <2>4. k => KidsHold(saved.db, t, kids) /\ (kids # <<>> => id \in Live(saved.db, t))
    BY <1>0, <1>1, <2>3 DEF KidsHold
  <2> HIDE DEF saved
  <2>5. Good(saved.db)
    BY <2>2 DEF Goes
  <2>6. Goes(k, saved.db, r)
    BY <2>4, <2>5, WithKidsGoes
  <2>7. Goes(k, db, Done(saved.db))
    BY <2>2
  <2>8. r.ok
    BY DEF Done
  <2> QED
    BY <2>1, <2>6, <2>7, <2>8, ThenGo
<1>2. CASE ~ok
  <2>1. SaveWith(k, db, t, id, row, kids) = Fails(db)
    BY <1>2 DEF SaveWith
  <2> QED
    BY <2>1, StaysGo
<1> QED
  BY <1>1, <1>2

\* The rows of a table are changed, but not what they are called or reference.
LEMMA RepaintGoes ==
  ASSUME NEW k \in BOOLEAN, NEW db, Good(db), NEW t \in Tables, NEW g \in [Live(db, t) -> Rows],
         \A i \in Live(db, t) : g[i].name = db.rows[t][i].name /\ g[i].ref = db.rows[t][i].ref,
         t = "profiles" => One(g)
  PROVE  Goes(k, db, Done(Db([db.rows EXCEPT ![t] = g], db.kids, db.next)))
<1> DEFINE A == db.rows
           B == db.kids
           C == db.next
<1>1. db = Db(A, B, C) /\ Shaped(A, B, C) /\ One(A["profiles"])
  BY HasParts DEF Good
<1>2. Live(db, t) = DOMAIN A[t]
  BY DEF Live
<1> HIDE DEF A, B, C
<1>3. TableOK(t, A[t], C[t])
  BY <1>1 DEF Shaped
<1>4. \A i \in DOMAIN A[t] : g[i].name = A[t][i].name /\ g[i].ref = A[t][i].ref
  BY <1>2 DEF A
<1>5. t # "notes" => \A i \in DOMAIN A[t] : g[i].name \in Names
  BY <1>3, <1>4 DEF TableOK
<1>6. k /\ RowsRef(A) => \A i \in DOMAIN A[t] : RefOK(t, g[i].ref, A)
  BY <1>4 DEF RowsRef
<1>7. Moves(k, A, B, C, [A EXCEPT ![t] = g], B, C)
  BY <1>1, <1>2, <1>5, <1>6, RowsMove
<1>8. Goes(k, Db(A, B, C), Done(Db([A EXCEPT ![t] = g], B, C)))
  BY <1>7, MovesGo
<1>9. Goes(k, db, Done(Db([A EXCEPT ![t] = g], B, C)))
  BY <1>1, <1>8
<1> QED
  BY <1>9 DEF A, B, C

LEMMA RowHere ==
  ASSUME NEW db, Good(db), NEW t \in Tables, NEW i \in Live(db, t)
  PROVE  /\ db.rows[t][i] \in Rows /\ i \in Nat /\ i # 0
         /\ t # "notes" => db.rows[t][i].name \in Names
<1>1. TableOK(t, db.rows[t], db.next[t])
  BY HasParts DEF Good, Shaped
<1> QED
  BY <1>1 DEF TableOK, Live

\* The column of some rows is set.
LEMMA ColumnGoes ==
  ASSUME NEW k \in BOOLEAN, NEW db, Good(db), NEW S, NEW w \in Pwds \cup {None, Hidden}
  PROVE  Goes(k, db, Done([db EXCEPT !.rows["servers"] =
                            [i \in DOMAIN @ |-> IF i \in S THEN [@[i] EXCEPT !.pwd = w] ELSE @[i]]]))
<1> DEFINE A == db.rows
           B == db.kids
           C == db.next
           rows == A["servers"]
           g == [i \in DOMAIN rows |-> IF i \in S THEN [rows[i] EXCEPT !.pwd = w] ELSE rows[i]]
           new == [db EXCEPT !.rows["servers"] =
                    [i \in DOMAIN @ |-> IF i \in S THEN [@[i] EXCEPT !.pwd = w] ELSE @[i]]]
<1>0. "servers" \in Tables
  BY DEF Tables
<1>1. db = Db(A, B, C)
  BY HasParts DEF Good
<1>2. new = Db([A EXCEPT !["servers"] = g], B, C)
  <2> HIDE DEF A, B, C
  <2>1. [Db(A, B, C) EXCEPT !.rows["servers"] =
          [i \in DOMAIN @ |-> IF i \in S THEN [@[i] EXCEPT !.pwd = w] ELSE @[i]]]
        = Db([A EXCEPT !["servers"] = g], B, C)
    BY DEF Db
  <2> QED
    BY <1>1, <2>1
<1>3. ASSUME NEW i \in DOMAIN rows
      PROVE  g[i] \in Rows /\ g[i].name = rows[i].name /\ g[i].ref = rows[i].ref
  <2>1. rows[i] \in Rows
    BY <1>0, RowHere DEF Live
  <2> DEFINE y == [rows[i] EXCEPT !.pwd = w]
  <2>2. y \in Rows /\ y.name = rows[i].name /\ y.ref = rows[i].ref
    BY <2>1, PwdEdit
  <2>3. g[i] = y \/ g[i] = rows[i]
    OBVIOUS
  <2> HIDE DEF g, y, rows
  <2> QED
    BY <2>1, <2>2, <2>3
<1>4. g \in [Live(db, "servers") -> Rows]
  BY <1>3 DEF Live
<1> HIDE DEF g, new
<1>5. Goes(k, db, Done(Db([db.rows EXCEPT !["servers"] = g], db.kids, db.next)))
  BY <1>0, <1>3, <1>4, RepaintGoes DEF Live
<1> QED
  BY <1>2, <1>5 DEF new

LEMMA ActivatedGoes ==
  ASSUME NEW k \in BOOLEAN, Good(d), NEW id
  PROVE  Goes(k, d, Done(Activated(id)))
<1> DEFINE A == d.rows
           B == d.kids
           C == d.next
           rows == A["profiles"]
           g == [i \in DOMAIN rows |-> [rows[i] EXCEPT !.active = i = id]]
<1>0. "profiles" \in Tables
  BY DEF Tables
<1>1. d = Db(A, B, C)
  BY HasParts DEF Good
<1>2. Activated(id) = Db([A EXCEPT !["profiles"] = g], B, C)
  <2> HIDE DEF A, B, C
  <2>1. [Db(A, B, C) EXCEPT !.rows["profiles"] = [i \in DOMAIN @ |-> [@[i] EXCEPT !.active = i = id]]]
        = Db([A EXCEPT !["profiles"] = g], B, C)
    BY DEF Db
  <2> QED
    BY <1>1, <2>1 DEF Activated
<1>3. ASSUME NEW i \in DOMAIN rows
      PROVE  /\ g[i] \in Rows /\ g[i].name = rows[i].name /\ g[i].ref = rows[i].ref
             /\ g[i].active = (i = id)
  <2>1. rows[i] \in Rows
    BY <1>0, RowHere DEF Live
  <2> DEFINE y == [rows[i] EXCEPT !.active = i = id]
  <2>2. y \in Rows /\ y.name = rows[i].name /\ y.ref = rows[i].ref /\ y.active = (i = id)
    BY <2>1 DEF Rows
  <2>3. g[i] = y
    OBVIOUS
  <2> HIDE DEF g, y, rows
  <2> QED
    BY <2>2, <2>3
<1>4. g \in [Live(d, "profiles") -> Rows]
  BY <1>3 DEF Live
<1>5. One(g)
  <2>1. DOMAIN g = DOMAIN rows
    OBVIOUS
  <2> HIDE DEF g, rows
  <2> QED
    BY <1>3, <2>1 DEF One
<1> HIDE DEF g
<1>6. Goes(k, d, Done(Db([d.rows EXCEPT !["profiles"] = g], d.kids, d.next)))
  BY <1>0, <1>3, <1>4, <1>5, RepaintGoes DEF Live
<1> QED
  BY <1>2, <1>6

----------------------------------------------------------------------------
\* The repositories.

LEMMA CallFields ==
  ASSUME NEW c, CallOK(c)
  PROVE  /\ c.op \in Ops /\ c.table \in Tables /\ c.id \in Nat /\ c.row \in Rows /\ c.kids \in Seq(Nat)
         /\ c.pwd \in Pwds \cup {None} /\ c.then \in Thens /\ c.map \in [Names -> Pwds \cup {None}]
         /\ c.wrote \in BOOLEAN
BY DEF CallOK, Callable

LEMMA DoCreate ==
  ASSUME NEW k \in BOOLEAN, Good(d), NEW c, CallOK(c), c.op = "create"
  PROVE  Goes(k, d, Do(k, c))
<1> DEFINE t == c.table
<1>1. /\ t \in Tables /\ c.row \in Rows /\ c.kids \in Seq(Nat) /\ ~c.row.active
      /\ (t # "notes" => c.row.name \in Names) /\ c.pwd \in Pwds \cup {None, Hidden}
  BY CallFields DEF CallOK
<1>2. CASE t = "servers"
  <2> DEFINE row == [c.row EXCEPT !.pwd = c.pwd]
  <2>1. Do(k, c) = Insert(k, d, t, row)
    BY <1>2 DEF Do, ServerCreate
  <2>2. row \in Rows /\ row.active = c.row.active /\ row.name = c.row.name
    BY <1>1, PwdEdit
  <2> HIDE DEF row
  <2> QED
    BY <1>1, <2>1, <2>2, InsertGoes
<1>3. CASE t \in Parents
  <2>1. Do(k, c) = InsertWith(k, d, t, c.row, c.kids)
    BY <1>3 DEF Do, Parents, GatewayCreate, ClusterCreate, ProfileCreate
  <2>2. t # "notes"
    BY <1>3 DEF Parents
  <2> QED
    BY <1>1, <1>3, <2>1, <2>2, InsertWithGoes
<1>4. CASE t # "servers" /\ t \notin Parents
  <2>1. Do(k, c) = Insert(k, d, t, c.row)
    BY <1>1, <1>4 DEF Do, Tables, Parents, TunnelCreate, AppServerCreate, AliasCreate, HostCreate, AgentMemoryAdd
  <2> QED
    BY <1>1, <2>1, InsertGoes
<1> QED
  BY <1>2, <1>3, <1>4

LEMMA DoUpdate ==
  ASSUME NEW k \in BOOLEAN, Good(d), NEW c, CallOK(c), c.op = "update"
  PROVE  Goes(k, d, Do(k, c))
<1> DEFINE t == c.table
           id == c.id
<1>1. /\ t \in Tables \ {"aliases", "notes"} /\ c.row \in Rows /\ c.kids \in Seq(Nat)
      /\ c.row.name \in Names /\ c.pwd \in Pwds \cup {None, Hidden}
  BY CallFields DEF CallOK
<1>2. CASE t = "servers" /\ id \notin Live(d, t)
  <2>1. Do(k, c) = Done(d)
    BY <1>2 DEF Do, ServerUpdate
  <2> QED
    BY <2>1, StaysGo
<1>3. CASE t = "servers" /\ id \in Live(d, t)
  <2> DEFINE w == IF c.pwd # None THEN c.pwd ELSE d.rows["servers"][id].pwd
             row == [c.row EXCEPT !.pwd = w]
  <2>1. Do(k, c) = Save(k, d, t, id, row)
    BY <1>3 DEF Do, ServerUpdate
  <2>2. w \in Pwds \cup {None, Hidden}
    <3>1. d.rows["servers"][id] \in Rows
      BY <1>1, <1>3, RowHere
    <3> QED
      BY <1>1, <3>1 DEF Rows
  <2> HIDE DEF w
  <2>3. row \in Rows /\ row.name = c.row.name
    BY <1>1, <2>2, PwdEdit
  <2> HIDE DEF row
  <2> QED
    BY <1>1, <1>3, <2>1, <2>3, SaveGoes
<1>4. CASE t = "profiles"
  <2> DEFINE a == id \in Live(d, "profiles") /\ d.rows["profiles"][id].active
             row == [c.row EXCEPT !.active = a]
  <2>1. Do(k, c) = SaveWith(k, d, t, id, row, c.kids)
    BY <1>4 DEF Do, ProfileUpdate
  <2>2. row \in Rows /\ row.name = c.row.name /\ (row.active <=> a)
    BY <1>1 DEF Rows
  <2>3. id \in Live(d, "profiles") => row.active = d.rows["profiles"][id].active
    <3> SUFFICES ASSUME id \in Live(d, "profiles") PROVE row.active = d.rows["profiles"][id].active
      OBVIOUS
    <3>1. d.rows["profiles"][id] \in Rows
      BY <1>1, <1>4, RowHere
    <3>2. d.rows["profiles"][id].active \in BOOLEAN /\ row.active \in BOOLEAN
      BY <2>2, <3>1 DEF Rows
    <3> HIDE DEF row
    <3> QED
      BY <2>2, <3>2
  <2> HIDE DEF row
  <2> QED
    BY <1>1, <1>4, <2>1, <2>2, <2>3, SaveWithGoes DEF Parents
<1>5. CASE t \in {"gateways", "clusters"}
  <2>1. Do(k, c) = SaveWith(k, d, t, id, c.row, c.kids)
    BY <1>5 DEF Do, GatewayUpdate, ClusterUpdate
  <2> QED
    BY <1>1, <1>5, <2>1, SaveWithGoes DEF Parents
<1>6. CASE t = "hosts"
  <2>1. Do(k, c) = Done(d)
    BY <1>6 DEF Do, HostUpdate
  <2> QED
    BY <2>1, StaysGo
<1>7. CASE t \in {"tunnels", "app_servers"}
  <2>1. Do(k, c) = Save(k, d, t, id, c.row)
    BY <1>7 DEF Do, TunnelUpdate, AppServerUpdate
  <2> QED
    BY <1>1, <1>7, <2>1, SaveGoes
<1> QED
  BY <1>1, <1>2, <1>3, <1>4, <1>5, <1>6, <1>7 DEF Tables

LEMMA DoDelete ==
  ASSUME NEW k \in BOOLEAN, Good(d), NEW c, CallOK(c), c.op = "delete"
  PROVE  Goes(k, d, Do(k, c))
<1>1. c.table \in Tables
  BY CallFields
<1>2. Do(k, c) = Delete(k, d, c.table, c.id)
  BY <1>1 DEF Do, Tables, ServerDelete, GatewayDelete, ClusterDelete, ProfileDelete, TunnelDelete,
              AppServerDelete, AliasDelete, HostDelete, AgentMemoryDelete
<1> QED
  BY <1>1, <1>2, DeleteGoes

LEMMA DoMask ==
  ASSUME NEW k \in BOOLEAN, Good(d), NEW c, CallOK(c), c.op = "mask"
  PROVE  Goes(k, d, Do(k, c)) /\ Do(k, c).ok
<1>1. CASE c.id \notin Live(d, "servers")
  <2>1. Do(k, c) = Done(d)
    BY <1>1 DEF Do, ClearPassword
  <2> QED
    BY <2>1, StaysGo DEF Done
<1>2. CASE c.id \in Live(d, "servers")
  <2> DEFINE A == d.rows
             B == d.kids
             C == d.next
             rows == A["servers"]
             g == [rows EXCEPT ![c.id].pwd = Hidden]
             y == [rows[c.id] EXCEPT !.pwd = Hidden]
             new == [d EXCEPT !.rows["servers"][c.id].pwd = Hidden]
  <2>0. "servers" \in Tables
    BY DEF Tables
  <2>1. Do(k, c) = Done(new)
    BY <1>2 DEF Do, ClearPassword
  <2>2. d = Db(A, B, C)
    BY HasParts DEF Good
  <2>3. new = Db([A EXCEPT !["servers"] = g], B, C)
    <3> HIDE DEF A, B, C
    <3>1. [Db(A, B, C) EXCEPT !.rows["servers"][c.id].pwd = Hidden] = Db([A EXCEPT !["servers"] = g], B, C)
      BY DEF Db
    <3> QED
      BY <2>2, <3>1
  <2>4. y \in Rows /\ y.name = rows[c.id].name /\ y.ref = rows[c.id].ref
    <3>1. rows[c.id] \in Rows
      BY <1>2, <2>0, RowHere
    <3> QED
      BY <3>1, PwdEdit
  <2>5. rows = [i \in Live(d, "servers") |-> rows[i]] /\ \A i \in Live(d, "servers") : rows[i] \in Rows
    <3>1. TableOK("servers", rows, C["servers"])
      BY <2>0, HasParts DEF Good, Shaped
    <3> QED
      BY <3>1 DEF TableOK, Live
  <2>6. g = [rows EXCEPT ![c.id] = y]
    OBVIOUS
  <2> HIDE DEF g, y, rows, new
  <2>7. g \in [Live(d, "servers") -> Rows]
    BY <2>4, <2>5, <2>6
  <2>8. \A i \in Live(d, "servers") : g[i].name = rows[i].name /\ g[i].ref = rows[i].ref
    BY <2>4, <2>5, <2>6
  <2>9. Goes(k, d, Done(Db([d.rows EXCEPT !["servers"] = g], d.kids, d.next)))
    BY <2>0, <2>7, <2>8, RepaintGoes DEF rows
  <2> QED
    BY <2>1, <2>3, <2>9 DEF Done
<1> QED
  BY <1>1, <1>2

LEMMA DoActivate ==
  ASSUME NEW k \in BOOLEAN, Good(d), NEW c, CallOK(c), c.op = "activate"
  PROVE  Goes(k, d, Do(k, c))
<1>1. Do(k, c) = SetActive(k, c)
  BY DEF Do
<1>2. SetActive(k, c) = Fails(d) \/ SetActive(k, c) = Done(Activated(c.id))
  BY DEF SetActive
<1> QED
  BY <1>1, <1>2, StaysGo, ActivatedGoes

Writing == {"create", "update", "delete", "mask", "activate"}
LEMMA DoGoes ==
  ASSUME NEW k \in BOOLEAN, Good(d), NEW c, CallOK(c), c.op \in Writing
  PROVE  Goes(k, d, Do(k, c))
BY DoCreate, DoUpdate, DoDelete, DoMask, DoActivate DEF Writing

----------------------------------------------------------------------------
\* The requests: each leaves a client with a call as CallOK describes it, on the row
\* of a server that is there, unless servers are edited freely.

Aimed(c) ==
  /\ c.op \notin {"save", "mask", "add"}
  /\ c.op = "update" /\ c.table = "servers" => "servers" \in Uses[world] \/ (Stands(c) /\ c.pwd = None)
  /\ c.op = "set" => c.pwd # None /\ (c.id = 0 <=> c.then = "vault only") /\ (c.id # 0 => Stands(c))
Asks(p) == \E c : CallOK(c) /\ Aimed(c) /\ client' = [client EXCEPT ![p] = c]

LEMMA CallIs ==
  ASSUME NEW op \in Ops, NEW t \in Tables, NEW id \in Nat, NEW row \in Rows, NEW kids \in Seq(Nat),
         NEW c, c = Call(op, t, id, row, kids)
  PROVE  /\ c \in Callable /\ c.op = op /\ c.table = t /\ c.row = row /\ c.then = "done" /\ ~c.wrote
         /\ c.pwd = None /\ c.id = id
<1>1. NoMap \in [Names -> Pwds \cup {None}]
  BY DEF NoMap
<1>2. c = [op |-> op, table |-> t, id |-> id, row |-> row, kids |-> kids, pwd |-> None,
           then |-> "done", map |-> NoMap, wrote |-> FALSE]
  BY DEF Call
<1>3. "done" \in Thens
  BY DEF Thens
<1> QED
  BY <1>1, <1>2, <1>3 DEF Callable

LEMMA GivenIs ==
  ASSUME NEW c \in Callable, NEW w \in Pwds \cup {None}, NEW y, y = Given(c, w)
  PROVE  /\ y \in Callable /\ y.op = c.op /\ y.table = c.table /\ y.row = c.row /\ y.then = c.then
         /\ y.wrote = c.wrote /\ y.pwd = w /\ y.id = c.id
BY DEF Given, Callable

LEMMA DoesIs ==
  ASSUME NEW c \in Callable, NEW op \in Ops, NEW y, y = Does(c, op)
  PROVE  /\ y \in Callable /\ y.op = op /\ y.table = c.table /\ y.row = c.row /\ y.then = c.then
         /\ y.wrote = c.wrote /\ y.pwd = c.pwd /\ y.id = c.id
BY DEF Does, Callable

LEMMA ThenIs ==
  ASSUME NEW c \in Callable, NEW th \in Thens, NEW y, y = Then(c, th)
  PROVE  /\ y \in Callable /\ y.op = c.op /\ y.table = c.table /\ y.row = c.row /\ y.then = th
         /\ y.wrote = c.wrote /\ y.pwd = c.pwd /\ y.id = c.id
BY DEF Then, Callable

LEMMA OnIs ==
  ASSUME NEW c \in Callable, NEW id \in Nat, NEW y, y = On(c, id)
  PROVE  /\ y \in Callable /\ y.op = c.op /\ y.table = c.table /\ y.row = c.row /\ y.then = c.then
         /\ y.wrote = c.wrote /\ y.pwd = c.pwd /\ y.id = id
BY DEF On, Callable

LEMMA MapsIs ==
  ASSUME NEW c \in Callable, NEW m \in [Names -> Pwds \cup {None}], NEW y, y = Maps(c, m)
  PROVE  /\ y \in Callable /\ y.op = c.op /\ y.table = c.table /\ y.row = c.row /\ y.then = c.then
         /\ y.wrote = c.wrote /\ y.pwd = c.pwd /\ y.id = c.id /\ y.map = m
BY DEF Maps, Callable

LEMMA WroteIs ==
  ASSUME NEW c \in Callable, NEW y, y = Wrote(c)
  PROVE  /\ y \in Callable /\ y.op = c.op /\ y.table = c.table /\ y.row = c.row /\ y.then = c.then
         /\ y.pwd = c.pwd /\ y.id = c.id
BY DEF Wrote, Callable

LEMMA FollowsIs ==
  ASSUME NEW c \in Callable, NEW op \in Ops, NEW th \in Thens, NEW y, y = Follows(c, op, th)
  PROVE  /\ y \in Callable /\ y.op = op /\ y.table = c.table /\ y.row = c.row /\ y.then = th
         /\ y.wrote = c.wrote /\ y.pwd = c.pwd /\ y.id = c.id
<1>1. PICK z : z = Does(c, op)
  OBVIOUS
<1>2. y = Then(z, th)
  BY <1>1 DEF Follows
<1>3. z \in Callable /\ z.op = op /\ z.table = c.table /\ z.row = c.row /\ z.wrote = c.wrote
      /\ z.pwd = c.pwd /\ z.id = c.id
  BY <1>1, DoesIs
<1> QED
  BY <1>2, <1>3, ThenIs

LEMMA NoKids == \E e \in Seq(Nat) : e = <<>>
<1>1. <<>> \in Seq(Nat)
  OBVIOUS
<1> QED
  BY <1>1, Zenon

LEMMA Zero == \E z \in Nat : z = 0
OBVIOUS

LEMMA RowIs ==
  ASSUME NEW n \in Names \cup {None}, NEW r \in Nat
  PROVE  Row(n, r) \in Rows /\ ~Row(n, r).active /\ Row(n, r).name = n /\ Row(n, r).ref = r
BY DEF Row, Rows

LEMMA RestsOK == CallOK(Idle) /\ CallOK(Refused) /\ Idle.op = "idle" /\ Idle.then = "done"
                 /\ Refused.op = "idle" /\ Refused.then = "refused"
<1>1. Row(None, 0) \in Rows /\ "servers" \in Tables /\ "idle" \in Ops
  BY RowIs DEF Tables, Ops
<1>e. PICK e \in Seq(Nat), z \in Nat : e = <<>> /\ z = 0
  BY NoKids, Zero, Zenon
<1>2. PICK c : c = Idle
  OBVIOUS
<1>c. c = Call("idle", "servers", z, Row(None, 0), e)
  BY <1>e, <1>2, Zenon DEF Idle
<1>3. c \in Callable /\ c.op = "idle" /\ c.then = "done" /\ ~c.wrote
  BY <1>1, <1>c, CallIs
<1>4. PICK y : y = Refused
  OBVIOUS
<1>5. "refused" \in Thens
  BY DEF Thens
<1>6. y \in Callable /\ y.op = "idle" /\ y.then = "refused" /\ ~y.wrote
  BY <1>2, <1>3, <1>4, <1>5, ThenIs DEF Refused
<1> QED
  BY <1>2, <1>3, <1>4, <1>6 DEF CallOK

LEMMA AsksRefused ==
  ASSUME NEW p
  PROVE  Refuses(p) => Asks(p)
BY RestsOK DEF Refuses, Asks, Aimed

LEMMA AsksCreate ==
  ASSUME NEW p, NEW t \in Tables, NEW n \in Names \cup {None}, NEW r \in Nat, NEW kids \in Seq(Nat),
         t # "notes" => n \in Names
  PROVE  /\ Calls(p, Creates(t, Row(n, r), kids)) => Asks(p)
         /\ \A w \in Pwds \cup {None} :
              /\ Calls(p, Given(Creates(t, Row(n, r), kids), w)) => Asks(p)
              /\ \A th \in {"set and mask", "read back"} :
                   Calls(p, Then(Given(Creates(t, Row(n, r), kids), w), th)) /\ t = "servers" => Asks(p)
<1>1. PICK row : row = Row(n, r)
  OBVIOUS
<1>2. row \in Rows /\ "create" \in Ops
  BY <1>1, RowIs DEF Ops
<1>r. ~row.active /\ row.name = n /\ {"set and mask", "read back"} \subseteq Thens
  BY <1>1, RowIs DEF Thens
<1>3. PICK c : c = Creates(t, Row(n, r), kids)
  OBVIOUS
<1>e. PICK zero \in Nat : zero = 0
  BY Zero
<1>4. c = Call("create", t, zero, row, kids)
  BY <1>1, <1>3, <1>e, Zenon DEF Creates
<1>5. c \in Callable /\ c.op = "create" /\ c.table = t /\ c.row = row /\ c.then = "done" /\ ~c.wrote
  BY <1>2, <1>4, CallIs
<1>6. CallOK(c) /\ Aimed(c)
  BY <1>2, <1>r, <1>5 DEF CallOK, Aimed
<1>7. ASSUME NEW w \in Pwds \cup {None}, NEW th \in {"set and mask", "read back"}
      PROVE  /\ CallOK(Given(c, w)) /\ Aimed(Given(c, w))
             /\ t = "servers" => CallOK(Then(Given(c, w), th)) /\ Aimed(Then(Given(c, w), th))
  <2>1. PICK y : y = Given(c, w)
    OBVIOUS
  <2>2. y \in Callable /\ y.op = "create" /\ y.table = t /\ y.row = row /\ y.then = "done" /\ y.wrote = c.wrote
    BY <1>5, <2>1, GivenIs
  <2>3. PICK z : z = Then(y, th)
    OBVIOUS
  <2>t. th \in Thens
    BY <1>r
  <2>4. z \in Callable /\ z.op = "create" /\ z.table = t /\ z.row = row /\ z.then = th /\ z.wrote = c.wrote
    BY <2>2, <2>3, <2>t, ThenIs
  <2>5. CallOK(y) /\ Aimed(y)
    BY <1>2, <1>r, <1>5, <2>2 DEF CallOK, Aimed
  <2>6. t = "servers" => CallOK(z) /\ Aimed(z)
    BY <1>2, <1>r, <1>5, <2>4 DEF CallOK, Aimed
  <2> QED
    BY <2>1, <2>3, <2>5, <2>6
<1> QED
  BY <1>3, <1>6, <1>7 DEF Calls, Asks

LEMMA AsksUpdate ==
  ASSUME NEW p, NEW t \in Tables \ {"aliases", "notes"}, NEW id \in Nat, NEW row \in Rows,
         row.name \in Names, NEW kids \in Seq(Nat)
  PROVE  /\ (t = "servers" => id \in Live(d, "servers") /\ At("servers", id).name = row.name)
           /\ Calls(p, Updates(t, id, row, kids)) => Asks(p)
         /\ \A w \in Pwds \cup {None} :
              (t = "servers" => "servers" \in Uses[world]) /\ Calls(p, Given(Updates(t, id, row, kids), w)) => Asks(p)
<1>1. PICK c : c = Updates(t, id, row, kids)
  OBVIOUS
<1>2. "update" \in Ops
  BY DEF Ops
<1>3. /\ c \in Callable /\ c.op = "update" /\ c.table = t /\ c.row = row /\ c.then = "done" /\ ~c.wrote
      /\ c.id = id /\ c.pwd = None
  BY <1>1, <1>2, CallIs DEF Updates
<1>4. CallOK(c) /\ ((t = "servers" => id \in Live(d, "servers") /\ At("servers", id).name = row.name) => Aimed(c))
  BY <1>3 DEF CallOK, Aimed, Stands
<1>5. ASSUME NEW w \in Pwds \cup {None}
      PROVE  CallOK(Given(c, w)) /\ ((t = "servers" => "servers" \in Uses[world]) => Aimed(Given(c, w)))
  <2>1. PICK y : y = Given(c, w)
    OBVIOUS
  <2>2. y \in Callable /\ y.op = "update" /\ y.table = t /\ y.row = row /\ y.then = "done" /\ y.wrote = c.wrote
    BY <1>3, <2>1, GivenIs
  <2>3. CallOK(y) /\ ((t = "servers" => "servers" \in Uses[world]) => Aimed(y))
    BY <1>3, <2>2 DEF CallOK, Aimed
  <2> QED
    BY <2>1, <2>3
<1> QED
  BY <1>1, <1>4, <1>5 DEF Calls, Asks

LEMMA AsksDelete ==
  ASSUME NEW p, NEW t \in Tables, NEW id \in Nat
  PROVE  Calls(p, Deletes(t, id)) => Asks(p)
<1>1. PICK c : c = Deletes(t, id)
  OBVIOUS
<1>2. "delete" \in Ops /\ Row(None, 0) \in Rows
  BY RowIs DEF Ops
<1>e. PICK e \in Seq(Nat) : e = <<>>
  BY NoKids
<1>c. c = Call("delete", t, id, Row(None, 0), e)
  BY <1>1, <1>e, Zenon DEF Deletes
<1>3. c \in Callable /\ c.op = "delete" /\ c.then = "done" /\ ~c.wrote
  BY <1>2, <1>c, CallIs
<1>4. CallOK(c) /\ Aimed(c)
  BY <1>3 DEF CallOK, Aimed
<1> QED
  BY <1>1, <1>4 DEF Calls, Asks

LEMMA AsksActivate ==
  ASSUME NEW p, NEW id \in Nat
  PROVE  Calls(p, Call("activate", "profiles", id, Row(None, 0), <<>>)) => Asks(p)
<1>1. PICK c : c = Call("activate", "profiles", id, Row(None, 0), <<>>)
  OBVIOUS
<1>2. "activate" \in Ops /\ "profiles" \in Tables /\ Row(None, 0) \in Rows
  BY RowIs DEF Ops, Tables
<1>e. PICK e \in Seq(Nat) : e = <<>>
  BY NoKids
<1>c. c = Call("activate", "profiles", id, Row(None, 0), e)
  BY <1>1, <1>e, Zenon
<1>3. c \in Callable /\ c.op = "activate" /\ c.then = "done" /\ ~c.wrote
  BY <1>2, <1>c, CallIs
<1>4. CallOK(c) /\ Aimed(c)
  BY <1>3 DEF CallOK, Aimed
<1> QED
  BY <1>1, <1>4 DEF Calls, Asks

LEMMA AsksOther ==
  ASSUME NEW p, NEW op \in {"start", "stop", "forget"}, NEW t \in Tables, NEW id \in Nat, NEW row \in Rows,
         row.name \in Names, t = IF op = "forget" THEN "servers" ELSE "tunnels"
  PROVE  /\ Calls(p, Call(op, t, id, row, <<>>)) => Asks(p)
         /\ Calls(p, Then(Call(op, t, id, row, <<>>), "delete")) => Asks(p)
<1>1. PICK c : c = Call(op, t, id, row, <<>>)
  OBVIOUS
<1>2. op \in Ops /\ "delete" \in Thens
  BY DEF Ops, Thens
<1>e. PICK e \in Seq(Nat) : e = <<>>
  BY NoKids
<1>c. c = Call(op, t, id, row, e)
  BY <1>1, <1>e, Zenon
<1>3. c \in Callable /\ c.op = op /\ c.table = t /\ c.row = row /\ c.then = "done" /\ ~c.wrote
  BY <1>2, <1>c, CallIs
<1>4. CallOK(c) /\ Aimed(c)
  BY <1>3 DEF CallOK, Aimed
<1>5. PICK y : y = Then(c, "delete")
  OBVIOUS
<1>6. y \in Callable /\ y.op = op /\ y.table = t /\ y.row = row /\ y.then = "delete" /\ y.wrote = c.wrote
  BY <1>2, <1>3, <1>5, ThenIs
<1>7. CallOK(y) /\ Aimed(y)
  BY <1>3, <1>6 DEF CallOK, Aimed
<1> QED
  BY <1>1, <1>4, <1>5, <1>7 DEF Calls, Asks

LEMMA SetCall ==
  ASSUME NEW id \in Nat, NEW row \in Rows, NEW w \in Pwds, NEW y,
         y = Given(Call("set", "servers", id, row, <<>>), w)
  PROVE  /\ y \in Callable /\ y.op = "set" /\ y.table = "servers" /\ y.row = row /\ ~y.wrote
         /\ y.pwd = w /\ y.id = id
<1>1. "set" \in Ops /\ "servers" \in Tables
  BY DEF Ops, Tables
<1>2. PICK e \in Seq(Nat) : e = <<>>
  BY NoKids
<1>3. PICK c : c = Call("set", "servers", id, row, <<>>)
  OBVIOUS
<1>4. c = Call("set", "servers", id, row, e)
  BY <1>2, <1>3, Zenon
<1>5. c \in Callable /\ c.op = "set" /\ c.table = "servers" /\ c.row = row /\ ~c.wrote /\ c.id = id
  BY <1>1, <1>4, CallIs
<1>6. w \in Pwds \cup {None}
  OBVIOUS
<1>7. y = Given(c, w)
  BY <1>3, Zenon
<1> QED
  BY <1>5, <1>6, <1>7, GivenIs

SetThens == {"mask", "mask or update", "vault only"}
\* A password is set for the row of a server, or for a name alone.
Fits(id, row, th) ==
  /\ id = 0 <=> th = "vault only"
  /\ id # 0 => id \in Live(d, "servers") /\ At("servers", id).name = row.name
LEMMA AsksSet ==
  ASSUME NEW p, NEW id \in Nat, NEW row \in Rows, row.name \in Names, NEW w \in Pwds,
         NEW th \in SetThens, Fits(id, row, th)
  PROVE  Calls(p, Sets(id, row, w, th)) => Asks(p)
<1>1. th \in Thens
  BY DEF Thens, SetThens
<1>2. PICK y : y = Given(Call("set", "servers", id, row, <<>>), w)
  OBVIOUS
<1>3. /\ y \in Callable /\ y.op = "set" /\ y.table = "servers" /\ y.row = row /\ ~y.wrote
      /\ y.pwd = w /\ y.id = id
  BY <1>2, SetCall
<1>4. PICK z : z = Then(y, th)
  OBVIOUS
<1>5. /\ z \in Callable /\ z.op = "set" /\ z.table = "servers" /\ z.row = row /\ z.then = th /\ z.wrote = y.wrote
      /\ z.pwd = w /\ z.id = id
  BY <1>1, <1>3, <1>4, ThenIs
<1>n. w # None
  BY RegistryAssumption
<1>6. CallOK(z) /\ Aimed(z)
  BY <1>3, <1>5, <1>n DEF CallOK, SetThens, Aimed, Stands, Fits
<1>7. z = Sets(id, row, w, th)
  BY <1>2, <1>4, Zenon DEF Sets
<1> QED
  BY <1>6, <1>7 DEF Calls, Asks

LEMMA Looked ==
  ASSUME Good(d), NEW t \in Tables
  PROVE  /\ Known(t) \subseteq Nat /\ {0} \cup Known(t) \subseteq Nat
         /\ \A i \in Live(d, t) : /\ i \in Nat /\ i # 0 /\ At(t, i) \in Rows /\ At(t, i).ref \in Nat
                                  /\ t # "notes" => At(t, i).name \in Names
         /\ \A id : GetByID(t, id) \subseteq Live(d, t)
         /\ \A n : GetByName(t, n) \subseteq Live(d, t)
<1>1. d.next[t] \in Nat
  BY DEF Good, Wellformed
<1>2. Known(t) \subseteq Nat
  BY <1>1 DEF Known
<1>3. ASSUME NEW i \in Live(d, t)
      PROVE  i \in Nat /\ i # 0 /\ At(t, i) \in Rows /\ At(t, i).ref \in Nat /\ (t # "notes" => At(t, i).name \in Names)
  <2>1. i \in Nat /\ i # 0 /\ d.rows[t][i] \in Rows /\ (t # "notes" => d.rows[t][i].name \in Names)
    BY <1>3, RowHere
  <2>2. d.rows[t][i].ref \in Nat
    BY <2>1 DEF Rows
  <2> QED
    BY <2>1, <2>2 DEF At
<1>4. /\ \A id : GetByID(t, id) \subseteq Live(d, t)
      /\ \A n : GetByName(t, n) \subseteq Live(d, t)
  BY DEF GetByID, GetByName
<1> QED
  BY <1>2, <1>3, <1>4

LEMMA HostLooked ==
  \A n : GetByHost(n) \subseteq Live(d, "servers")
BY DEF GetByHost, GetByName

LEMMA KidListsAre ==
  ASSUME NEW S \in SUBSET Nat
  PROVE  KidLists(S) \subseteq Seq(Nat)
<1>1. ASSUME NEW n \in 0..MaxKids, NEW s \in [1..n -> S]
      PROVE  s \in Seq(Nat)
  <2>1. n \in Nat
    BY RegistryAssumption
  <2>2. s \in [1..n -> Nat]
    OBVIOUS
  <2> QED
    BY <2>1, <2>2
<1> QED
  BY <1>1 DEF KidLists

LEMMA KidsAre ==
  ASSUME Good(d), NEW t \in Parents, NEW id
  PROVE  Kids(t, id) \in Seq(Nat)
<1>1. KidsOK(d.kids[t])
  BY HasParts DEF Good, Shaped
<1>2. CASE id \in DOMAIN d.kids[t]
  BY <1>1, <1>2 DEF Kids, KidsOK
<1>3. CASE id \notin DOMAIN d.kids[t]
  <2>1. PICK e \in Seq(Nat) : e = <<>>
    BY NoKids
  <2> QED
    BY <1>3, <2>1, Zenon DEF Kids
<1> QED
  BY <1>2, <1>3

LEMMA RouteIs ==
  ASSUME NEW r \in Nat
  PROVE  Route(r) \in Seq(Nat)
BY DEF Route

LEMMA TableNames ==
  /\ "servers" \in Tables /\ "gateways" \in Tables /\ "clusters" \in Tables /\ "profiles" \in Tables
  /\ "tunnels" \in Tables /\ "app_servers" \in Tables /\ "aliases" \in Tables /\ "hosts" \in Tables
  /\ "notes" \in Tables
BY DEF Tables

LEMMA WebServers ==
  ASSUME Good(d), NEW p, createServer(p) \/ updateServer(p) \/ deleteServer(p)
  PROVE  Asks(p)
<1>1. CASE createServer(p)
  <2>1. PICK n \in Names, r \in {0} \cup Known("gateways"), w \in Pwds \cup {None} :
          Calls(p, Then(Given(Creates("servers", Row(n, r), <<>>), w), "read back"))
    BY <1>1 DEF createServer
  <2>2. r \in Nat
    BY Looked, TableNames
  <2>3. PICK e \in Seq(Nat) : e = <<>>
    BY NoKids
  <2>4. Calls(p, Then(Given(Creates("servers", Row(n, r), e), w), "read back"))
    BY <2>1, <2>3, Zenon
  <2> QED
    BY <2>2, <2>4, AsksCreate, TableNames
<1>2. CASE updateServer(p)
  <2>1. PICK id :
          \/ Refuses(p)
          \/ \E i \in GetByID("servers", id) :
               \E n \in Names, r \in {0, At("servers", i).ref} \cup Known("gateways"), w \in Pwds \cup {None} :
                 Calls(p, Given(Updates("servers", i, Row(n, r), <<>>), w))
    BY <1>2 DEF updateServer, Found
  <2>2. ASSUME NEW i \in GetByID("servers", id), NEW n \in Names,
               NEW r \in {0, At("servers", i).ref} \cup Known("gateways"), NEW w \in Pwds \cup {None},
               Calls(p, Given(Updates("servers", i, Row(n, r), <<>>), w))
        PROVE  Asks(p)
    <3>1. i \in Nat /\ r \in Nat
      BY Looked, TableNames
    <3>2. PICK row \in Rows : row = Row(n, r) /\ row.name \in Names
      BY <3>1, RowIs
    <3>3. PICK e \in Seq(Nat) : e = <<>>
      BY NoKids
    <3>4. Calls(p, Given(Updates("servers", i, row, e), w))
      BY <2>2, <3>2, <3>3, Zenon
    <3>5. "servers" \in Tables \ {"aliases", "notes"} /\ "servers" \in Uses[world]
      BY <1>2, TableNames DEF updateServer, Ready
    <3> QED
      BY <3>1, <3>2, <3>4, <3>5, AsksUpdate
  <2> QED
    BY <2>1, <2>2, AsksRefused
<1>3. CASE deleteServer(p)
  BY <1>3, AsksDelete, Looked, TableNames DEF deleteServer
<1> QED
  BY <1>1, <1>2, <1>3

Updatable == Tables \ {"aliases", "notes"}
LEMMA CreatesBare ==
  ASSUME NEW p, NEW t \in Tables, NEW n \in Names, NEW r \in Nat, Calls(p, Creates(t, Row(n, r), <<>>))
  PROVE  Asks(p)
<1>1. PICK e \in Seq(Nat) : e = <<>>
  BY NoKids
<1>2. Calls(p, Creates(t, Row(n, r), e))
  BY <1>1, Zenon
<1> QED
  BY <1>2, AsksCreate

LEMMA UpdatesBare ==
  ASSUME NEW p, NEW t \in Updatable, NEW id \in Nat, NEW row \in Rows, row.name \in Names,
         t = "servers" => id \in Live(d, "servers") /\ At("servers", id).name = row.name,
         Calls(p, Updates(t, id, row, <<>>))
  PROVE  Asks(p)
<1>1. PICK e \in Seq(Nat) : e = <<>>
  BY NoKids
<1>2. Calls(p, Updates(t, id, row, e))
  BY <1>1, Zenon
<1> QED
  BY <1>2, AsksUpdate DEF Updatable

LEMMA UpdatesRow ==
  ASSUME NEW p, NEW t \in Updatable \ {"servers"}, NEW id \in Nat, NEW n \in Names, NEW r \in Nat, NEW kids \in Seq(Nat),
         Calls(p, Updates(t, id, Row(n, r), kids))
  PROVE  Asks(p)
<1>1. PICK row \in Rows : row = Row(n, r) /\ row.name \in Names
  BY RowIs
<1>2. Calls(p, Updates(t, id, row, kids))
  BY <1>1, Zenon
<1> QED
  BY <1>1, <1>2, AsksUpdate DEF Updatable

LEMMA UpdatesRowBare ==
  ASSUME NEW p, NEW t \in Updatable \ {"servers"}, NEW id \in Nat, NEW n \in Names, NEW r \in Nat,
         Calls(p, Updates(t, id, Row(n, r), <<>>))
  PROVE  Asks(p)
<1>1. PICK row \in Rows : row = Row(n, r) /\ row.name \in Names
  BY RowIs
<1>2. Calls(p, Updates(t, id, row, <<>>))
  BY <1>1, Zenon
<1> QED
  BY <1>1, <1>2, UpdatesBare

LEMMA Updatables ==
  /\ "servers" \in Updatable /\ "gateways" \in Updatable /\ "clusters" \in Updatable
  /\ "profiles" \in Updatable /\ "tunnels" \in Updatable /\ "app_servers" \in Updatable
  /\ "hosts" \in Updatable
BY DEF Updatable, Tables

LEMMA Hops ==
  ASSUME Good(d)
  PROVE  KidLists(Known("servers")) \subseteq Seq(Nat) /\ KidLists(GetByHost(None)) \subseteq Seq(Nat)
<1>1. Known("servers") \in SUBSET Nat /\ GetByHost(None) \in SUBSET Nat
  BY Looked, HostLooked, TableNames
<1> QED
  BY <1>1, KidListsAre

LEMMA WebGateways ==
  ASSUME Good(d), NEW p,
         createGateway(p) \/ updateGateway(p) \/ deleteGateway(p)
  PROVE  Asks(p)
<1>1. CASE createGateway(p)
  BY <1>1, Zero, Hops, AsksCreate, Looked, TableNames DEF createGateway, Found
<1>2. CASE updateGateway(p)
  BY <1>2, Zero, Hops, Updatables, UpdatesRow, AsksRefused, Looked, TableNames DEF updateGateway, Found
<1>3. CASE deleteGateway(p)
  BY <1>3, AsksDelete, Looked, TableNames DEF deleteGateway, Found
<1> QED
  BY <1>1, <1>2, <1>3

LEMMA WebClusters ==
  ASSUME Good(d), NEW p,
         createCluster(p) \/ updateCluster(p) \/ deleteCluster(p)
  PROVE  Asks(p)
<1>1. CASE createCluster(p)
  BY <1>1, Zero, Hops, AsksCreate, Looked, TableNames DEF createCluster, Found
<1>2. CASE updateCluster(p)
  BY <1>2, Zero, Hops, Updatables, UpdatesRow, AsksRefused, Looked, TableNames DEF updateCluster, Found
<1>3. CASE deleteCluster(p)
  BY <1>3, AsksDelete, Looked, TableNames DEF deleteCluster, Found
<1> QED
  BY <1>1, <1>2, <1>3

LEMMA WebHosts ==
  ASSUME Good(d), NEW p,
         createHost(p) \/ updateHost(p) \/ deleteHost(p)
  PROVE  Asks(p)
<1>1. CASE createHost(p)
  BY <1>1, Zero, CreatesBare, Looked, TableNames DEF createHost, Found
<1>2. CASE updateHost(p)
  BY <1>2, Updatables, UpdatesBare, AsksRefused, Looked, TableNames DEF updateHost, Found
<1>3. CASE deleteHost(p)
  BY <1>3, AsksDelete, Looked, TableNames DEF deleteHost, Found
<1> QED
  BY <1>1, <1>2, <1>3

LEMMA WebTunnels ==
  ASSUME Good(d), NEW p,
         createTunnel(p) \/ deleteTunnel(p) \/ startTunnel(p) \/ stopTunnel(p)
  PROVE  Asks(p)
<1>1. CASE createTunnel(p)
  BY <1>1, Zero, CreatesBare, Looked, TableNames DEF createTunnel, Found
<1>2. CASE deleteTunnel(p)
  BY <1>2, AsksDelete, Looked, TableNames DEF deleteTunnel, Found
<1>3. CASE startTunnel(p)
  BY <1>3, AsksOther, AsksRefused, Looked, TableNames DEF startTunnel, Found
<1>4. CASE stopTunnel(p)
  BY <1>4, AsksOther, AsksRefused, Looked, TableNames DEF stopTunnel, Found
<1> QED
  BY <1>1, <1>2, <1>3, <1>4

LEMMA WebProfiles ==
  ASSUME Good(d), NEW p,
         createProfile(p) \/ deleteProfile(p) \/ activateProfile(p) \/ deactivateProfile(p)
  PROVE  Asks(p)
<1>1. CASE createProfile(p)
  BY <1>1, Zero, RouteIs, AsksCreate, Looked, TableNames DEF createProfile
<1>2. CASE deleteProfile(p)
  BY <1>2, AsksDelete, Looked, TableNames DEF deleteProfile
<1>3. CASE activateProfile(p)
  BY <1>3, AsksActivate, Looked, TableNames DEF activateProfile
<1>4. CASE deactivateProfile(p)
  BY <1>4, Zero, AsksActivate DEF deactivateProfile
<1> QED
  BY <1>1, <1>2, <1>3, <1>4

LEMMA WebAppServers ==
  ASSUME Good(d), NEW p,
         createAppServer(p) \/ deleteAppServer(p)
  PROVE  Asks(p)
<1>1. CASE createAppServer(p)
  BY <1>1, CreatesBare, Looked, TableNames DEF createAppServer
<1>2. CASE deleteAppServer(p)
  BY <1>2, AsksDelete, Looked, TableNames DEF deleteAppServer
<1> QED
  BY <1>1, <1>2

LEMMA CliGateways ==
  ASSUME Good(d), NEW p,
         GatewayAdd(p) \/ GatewayRemove(p)
  PROVE  Asks(p)
<1>1. CASE GatewayAdd(p)
  BY <1>1, Zero, Hops, AsksCreate, AsksRefused, Looked, TableNames DEF GatewayAdd
<1>2. CASE GatewayRemove(p)
  BY <1>2, AsksDelete, AsksRefused, Looked, TableNames DEF GatewayRemove, Found, GatewayByName
<1> QED
  BY <1>1, <1>2

LEMMA CliTunnels ==
  ASSUME Good(d), NEW p,
         TunnelAdd(p) \/ TunnelRm(p) \/ TunnelStart(p) \/ TunnelStop(p)
  PROVE  Asks(p)
<1>1. CASE TunnelAdd(p)
  BY <1>1, CreatesBare, AsksRefused, HostLooked, Looked, TableNames DEF TunnelAdd, Found
<1>2. CASE TunnelRm(p)
  BY <1>2, AsksOther, AsksRefused, Looked, TableNames DEF TunnelRm, Found, TunnelByName
<1>3. CASE TunnelStart(p)
  BY <1>3, AsksOther, AsksRefused, Looked, TableNames DEF TunnelStart, Found, TunnelByName
<1>4. CASE TunnelStop(p)
  BY <1>4, AsksOther, AsksRefused, Looked, TableNames DEF TunnelStop, Found, TunnelByName
<1> QED
  BY <1>1, <1>2, <1>3, <1>4

LEMMA CliLists ==
  ASSUME Good(d), NEW p,
         \/ AppServerAdd(p) \/ AppServerRemove(p) \/ AliasAdd(p) \/ AliasRemove(p)
         \/ HostsAdd(p) \/ HostsUpdate(p) \/ HostsDelete(p)
  PROVE  Asks(p)
<1>1. CASE AppServerAdd(p)
  BY <1>1, CreatesBare, AsksRefused, HostLooked, Looked, TableNames DEF AppServerAdd, Found
<1>2. CASE AppServerRemove(p)
  BY <1>2, AsksDelete, AsksRefused, Looked, TableNames DEF AppServerRemove, Found, AppServerByName
<1>3. CASE HostsAdd(p)
  BY <1>3, Zero, CreatesBare, Looked, TableNames DEF HostsAdd
<1>4. CASE HostsUpdate(p)
  BY <1>4, Updatables, UpdatesBare, AsksRefused, Looked, TableNames DEF HostsUpdate, Found, GetByHostname
<1>5. CASE HostsDelete(p)
  BY <1>5, AsksDelete, AsksRefused, Looked, TableNames DEF HostsDelete, Found, GetByHostname
<1>6. CASE AliasAdd(p)
  BY <1>6, CreatesBare, AsksRefused, HostLooked, Looked, TableNames DEF AliasAdd, Found
<1>7. CASE AliasRemove(p)
  BY <1>7, AsksDelete, AsksRefused, Looked, TableNames DEF AliasRemove, Found, AliasByName
<1> QED
  BY <1>1, <1>2, <1>3, <1>4, <1>5, <1>6, <1>7

LEMMA CliVault ==
  ASSUME Good(d), NEW p,
         ServerRemove(p) \/ ServerPasswd(p) \/ VaultSetCmd(p) \/ VaultDeleteCmd(p) \/ PromptPassword(p)
  PROVE  Asks(p)
<1>1. CASE ServerRemove(p)
  BY <1>1, AsksOther, AsksRefused, HostLooked, Looked, TableNames DEF ServerRemove, Found
<1>2. CASE ServerPasswd(p)
  BY <1>2, AsksSet, AsksRefused, HostLooked, Looked, TableNames DEF ServerPasswd, Found, SetThens, Fits
<1>3. CASE VaultSetCmd(p)
  <2>1. PICK n \in Names, w \in Pwds : Calls(p, Sets(0, Row(n, 0), w, "vault only"))
    BY <1>3 DEF VaultSetCmd
  <2>2. PICK zero \in Nat, row \in Rows : zero = 0 /\ row = Row(n, 0) /\ row.name \in Names
    BY Zero, RowIs
  <2>3. Calls(p, Sets(zero, row, w, "vault only"))
    BY <2>1, <2>2, Zenon
  <2>4. "vault only" \in SetThens
    BY DEF SetThens
  <2> QED
    BY <2>2, <2>3, <2>4, AsksSet DEF Fits
<1>4. CASE VaultDeleteCmd(p)
  BY <1>4, Zero, RowIs, AsksOther, Looked, TableNames DEF VaultDeleteCmd
<1>5. CASE PromptPassword(p)
  BY <1>5, AsksSet, AsksRefused, HostLooked, Looked, TableNames DEF PromptPassword, Found, SetThens, Fits
<1> QED
  BY <1>1, <1>2, <1>3, <1>4, <1>5

LEMMA WebTunnelsUpdate ==
  ASSUME Good(d), NEW p, updateTunnel(p) \/ updateAppServer(p)
  PROVE  Asks(p)
<1>1. CASE updateTunnel(p)
  <2>1. \/ Refuses(p)
        \/ \E i \in Live(d, "tunnels") : \E n \in Names \cup {None}, s \in {0} \cup Known("servers") :
             Calls(p, Updates("tunnels", i,
               Row(Other(n, At("tunnels", i).name), NewRef(s, At("tunnels", i).ref)), <<>>))
    BY <1>1, Looked, TableNames DEF updateTunnel, Found
  <2>2. ASSUME NEW i \in Live(d, "tunnels"), NEW n \in Names \cup {None}, NEW s \in {0} \cup Known("servers"),
               Calls(p, Updates("tunnels", i,
                 Row(Other(n, At("tunnels", i).name), NewRef(s, At("tunnels", i).ref)), <<>>))
        PROVE  Asks(p)
    <3>1. i \in Nat /\ s \in Nat /\ At("tunnels", i).name \in Names /\ At("tunnels", i).ref \in Nat
      BY Looked, TableNames
    <3>2. Other(n, At("tunnels", i).name) \in Names /\ NewRef(s, At("tunnels", i).ref) \in Nat
      BY <3>1 DEF Other, NewRef
    <3> QED
      BY <2>2, <3>1, <3>2, Updatables, UpdatesRowBare
  <2> QED
    BY <2>1, <2>2, AsksRefused
<1>2. CASE updateAppServer(p)
  <2>1. \/ Refuses(p)
        \/ \E i \in Live(d, "app_servers") : \E n \in Names \cup {None}, s \in {0} \cup Known("servers") :
             Calls(p, Updates("app_servers", i,
               Row(Other(n, At("app_servers", i).name), NewRef(s, At("app_servers", i).ref)), <<>>))
    BY <1>2, Looked, TableNames DEF updateAppServer, Found
  <2>2. ASSUME NEW i \in Live(d, "app_servers"), NEW n \in Names \cup {None}, NEW s \in {0} \cup Known("servers"),
               Calls(p, Updates("app_servers", i,
                 Row(Other(n, At("app_servers", i).name), NewRef(s, At("app_servers", i).ref)), <<>>))
        PROVE  Asks(p)
    <3>1. i \in Nat /\ s \in Nat /\ At("app_servers", i).name \in Names /\ At("app_servers", i).ref \in Nat
      BY Looked, TableNames
    <3>2. Other(n, At("app_servers", i).name) \in Names /\ NewRef(s, At("app_servers", i).ref) \in Nat
      BY <3>1 DEF Other, NewRef
    <3> QED
      BY <2>2, <3>1, <3>2, Updatables, UpdatesRowBare
  <2> QED
    BY <2>1, <2>2, AsksRefused
<1> QED
  BY <1>1, <1>2

LEMMA WebProfilesUpdate ==
  ASSUME Good(d), NEW p, updateProfile(p)
  PROVE  Asks(p)
<1>1. \/ Refuses(p)
      \/ \E i \in Live(d, "profiles") : \E n \in Names \cup {None}, r \in {0} \cup Known("gateways") :
           Calls(p, Updates("profiles", i, Row(Other(n, At("profiles", i).name), 0),
                            IF r = 0 THEN Kids("profiles", i) ELSE Route(r)))
  BY Looked, TableNames DEF updateProfile, Found
<1>2. ASSUME NEW i \in Live(d, "profiles"), NEW n \in Names \cup {None}, NEW r \in {0} \cup Known("gateways"),
             Calls(p, Updates("profiles", i, Row(Other(n, At("profiles", i).name), 0),
                              IF r = 0 THEN Kids("profiles", i) ELSE Route(r)))
      PROVE  Asks(p)
  <2>1. i \in Nat /\ r \in Nat /\ At("profiles", i).name \in Names
    BY Looked, TableNames
  <2>2. Other(n, At("profiles", i).name) \in Names
    BY <2>1 DEF Other
  <2>3. PICK kids \in Seq(Nat) : kids = IF r = 0 THEN Kids("profiles", i) ELSE Route(r)
    BY <2>1, KidsAre, RouteIs DEF Parents
  <2>4. PICK zero \in Nat : zero = 0
    BY Zero
  <2>5. Calls(p, Updates("profiles", i, Row(Other(n, At("profiles", i).name), zero), kids))
    BY <1>2, <2>3, <2>4, Zenon
  <2> QED
    BY <2>1, <2>2, <2>5, Updatables, UpdatesRow
<1> QED
  BY <1>1, <1>2, AsksRefused

LEMMA UpdatesAsRead ==
  ASSUME Good(d), NEW p, NEW t \in Updatable, NEW i \in Live(d, t), NEW kids \in Seq(Nat),
         Calls(p, Updates(t, i, At(t, i), kids))
  PROVE  Asks(p)
<1>1. i \in Nat /\ At(t, i) \in Rows /\ At(t, i).name \in Names
  BY Looked DEF Updatable
<1> QED
  BY <1>1, AsksUpdate DEF Updatable

LEMMA CliClusters ==
  ASSUME Good(d), NEW p, ClusterAdd(p) \/ ClusterRemove(p)
  PROVE  Asks(p)
<1>1. CASE ClusterAdd(p)
  BY <1>1, Zero, Hops, AsksCreate, AsksRefused, Looked, TableNames DEF ClusterAdd, Found
<1>2. CASE ClusterRemove(p)
  <2>1. \/ Refuses(p)
        \/ \E i \in Live(d, "clusters") : Calls(p, Deletes("clusters", i))
        \/ \E i \in Live(d, "clusters"), s \in Live(d, "servers") :
             /\ s \in ToSet(Kids("clusters", i))
             /\ Calls(p, Updates("clusters", i, At("clusters", i), Drop(Kids("clusters", i), s)))
    BY <1>2, Looked, HostLooked, TableNames DEF ClusterRemove, Found, ClusterByName
  <2>2. ASSUME NEW i \in Live(d, "clusters"), NEW s \in Live(d, "servers"),
               Calls(p, Updates("clusters", i, At("clusters", i), Drop(Kids("clusters", i), s)))
        PROVE  Asks(p)
    <3>1. PICK q \in Seq(Nat) : q = Kids("clusters", i)
      BY KidsAre DEF Parents
    <3>2. PICK kept \in Seq(Nat \ {s}) : kept = Drop(q, s)
      BY DropType
    <3>3. kept \in Seq(Nat)
      OBVIOUS
    <3>4. Calls(p, Updates("clusters", i, At("clusters", i), kept))
      BY <2>2, <3>1, <3>2, Zenon
    <3> QED
      BY <3>3, <3>4, Updatables, UpdatesAsRead
  <2>3. ASSUME NEW i \in Live(d, "clusters"), Calls(p, Deletes("clusters", i))
        PROVE  Asks(p)
    BY <2>3, AsksDelete, Looked, TableNames
  <2> QED
    BY <2>1, <2>2, <2>3, AsksRefused
<1> QED
  BY <1>1, <1>2

LEMMA CliProfiles ==
  ASSUME Good(d), NEW p, ProfileAdd(p) \/ ProfileEdit(p) \/ ProfileRemove(p) \/ ProfileUse(p)
  PROVE  Asks(p)
<1>1. CASE ProfileAdd(p)
  <2>1. \/ Refuses(p)
        \/ \E n \in Names, r \in Nat : Calls(p, Creates("profiles", Row(n, 0), Route(r)))
    BY <1>1, Looked, TableNames DEF ProfileAdd, WithGateway, Found, GatewayByName
  <2>2. ASSUME NEW n \in Names, NEW r \in Nat, Calls(p, Creates("profiles", Row(n, 0), Route(r)))
        PROVE  Asks(p)
    BY <2>2, Zero, RouteIs, TableNames, AsksCreate
  <2> QED
    BY <2>1, <2>2, AsksRefused
<1>2. CASE ProfileEdit(p)
  <2>1. \/ Refuses(p)
        \/ \E i \in Live(d, "profiles") : Calls(p, Updates("profiles", i, At("profiles", i), Kids("profiles", i)))
        \/ \E i \in Live(d, "profiles"), r \in Nat :
             Calls(p, Updates("profiles", i, At("profiles", i), Route(r)))
    BY <1>2, Looked, TableNames DEF ProfileEdit, WithGateway, Found, GatewayByName, ProfileByName
  <2>2. ASSUME NEW i \in Live(d, "profiles"),
               Calls(p, Updates("profiles", i, At("profiles", i), Kids("profiles", i)))
        PROVE  Asks(p)
    <3>1. Kids("profiles", i) \in Seq(Nat)
      BY KidsAre DEF Parents
    <3> QED
      BY <2>2, <3>1, Updatables, UpdatesAsRead
  <2>3. ASSUME NEW i \in Live(d, "profiles"), NEW r \in Nat,
               Calls(p, Updates("profiles", i, At("profiles", i), Route(r)))
        PROVE  Asks(p)
    <3>1. Route(r) \in Seq(Nat)
      BY RouteIs
    <3> QED
      BY <2>3, <3>1, Updatables, UpdatesAsRead
  <2> QED
    BY <2>1, <2>2, <2>3, AsksRefused
<1>3. CASE ProfileRemove(p)
  BY <1>3, AsksDelete, AsksRefused, Looked, TableNames DEF ProfileRemove, Found, ProfileByName
<1>4. CASE ProfileUse(p)
  BY <1>4, Zero, AsksActivate, AsksRefused, Looked, TableNames DEF ProfileUse, Found, ProfileByName
<1> QED
  BY <1>1, <1>2, <1>3, <1>4

LEMMA CliTunnelEdit ==
  ASSUME Good(d), NEW p, TunnelEdit(p)
  PROVE  Asks(p)
<1>1. \/ Refuses(p)
      \/ \E i \in Live(d, "tunnels") : Calls(p, Updates("tunnels", i, At("tunnels", i), <<>>))
      \/ \E i \in Live(d, "tunnels"), s \in Live(d, "servers") :
           Calls(p, Updates("tunnels", i, [At("tunnels", i) EXCEPT !.ref = s], <<>>))
  BY Looked, HostLooked, TableNames DEF TunnelEdit, Found, TunnelByName
<1>2. ASSUME NEW i \in Live(d, "tunnels"), Calls(p, Updates("tunnels", i, At("tunnels", i), <<>>))
      PROVE  Asks(p)
  BY <1>2, UpdatesBare, Updatables, Looked, TableNames
<1>3. ASSUME NEW i \in Live(d, "tunnels"), NEW s \in Live(d, "servers"),
             Calls(p, Updates("tunnels", i, [At("tunnels", i) EXCEPT !.ref = s], <<>>))
      PROVE  Asks(p)
  <2>1. s \in Nat /\ i \in Nat /\ At("tunnels", i) \in Rows /\ At("tunnels", i).name \in Names
    BY Looked, TableNames
  <2>2. PICK row \in Rows : row = [At("tunnels", i) EXCEPT !.ref = s] /\ row.name \in Names
    BY <2>1, RefEdit
  <2>3. Calls(p, Updates("tunnels", i, row, <<>>))
    BY <1>3, <2>2, Zenon
  <2> QED
    BY <2>1, <2>2, <2>3, UpdatesBare, Updatables
<1> QED
  BY <1>1, <1>2, <1>3, AsksRefused

LEMMA CliMemory ==
  ASSUME Good(d), NEW p, MemoryAdd(p) \/ MemoryDel(p)
  PROVE  Asks(p)
<1>1. CASE MemoryAdd(p)
  <2>1. Refuses(p) \/ \E s \in Live(d, "servers") : Calls(p, Creates("notes", Row(None, s), <<>>))
    BY <1>1, Looked, TableNames DEF MemoryAdd, Found
  <2>2. ASSUME NEW s \in Live(d, "servers"), Calls(p, Creates("notes", Row(None, s), <<>>))
        PROVE  Asks(p)
    <3>1. s \in Nat
      BY Looked, TableNames
    <3>2. PICK e \in Seq(Nat) : e = <<>>
      BY NoKids
    <3>3. PICK n \in Names \cup {None} : n = None
      OBVIOUS
    <3>4. Calls(p, Creates("notes", Row(n, s), e))
      BY <2>2, <3>2, <3>3, Zenon
    <3> QED
      BY <3>1, <3>4, AsksCreate, TableNames
  <2> QED
    BY <2>1, <2>2, AsksRefused
<1>2. CASE MemoryDel(p)
  BY <1>2, AsksDelete, AsksRefused, Looked, TableNames DEF MemoryDel, Found
<1> QED
  BY <1>1, <1>2

LEMMA CliPolicies ==
  ASSUME Good(d), NEW p,
         ServerPolicySet(p) \/ ServerPolicyClear(p) \/ ServerPromptSet(p) \/ ServerPromptClear(p)
  PROVE  Asks(p)
<1>1. ASSUME NEW to \in {None, "own"}, SetsPolicy(p, to)
      PROVE  Asks(p)
  <2>1. \/ Refuses(p)
        \/ \E i \in Live(d, "servers") :
             Calls(p, Updates("servers", i, [At("servers", i) EXCEPT !.policy = to], <<>>))
    BY <1>1, Looked, TableNames DEF SetsPolicy, Found
  <2>2. ASSUME NEW i \in Live(d, "servers"),
               Calls(p, Updates("servers", i, [At("servers", i) EXCEPT !.policy = to], <<>>))
        PROVE  Asks(p)
    <3>1. i \in Nat /\ At("servers", i) \in Rows /\ At("servers", i).name \in Names
      BY Looked, TableNames
    <3>2. PICK row \in Rows : /\ row = [At("servers", i) EXCEPT !.policy = to] /\ row.name \in Names
                              /\ row.name = At("servers", i).name
      BY <3>1, PolicyEdit
    <3>3. Calls(p, Updates("servers", i, row, <<>>))
      BY <2>2, <3>2, Zenon
    <3> QED
      BY <3>1, <3>2, <3>3, UpdatesBare, Updatables
  <2> QED
    BY <2>1, <2>2, AsksRefused
<1>2. CASE SetsPrompt(p)
  BY <1>2, UpdatesBare, AsksRefused, Updatables, Looked, TableNames DEF SetsPrompt, Found
<1> QED
  BY <1>1, <1>2 DEF ServerPolicySet, ServerPolicyClear, ServerPromptSet, ServerPromptClear

LEMMA CliServerAdd ==
  ASSUME Good(d), NEW p, ServerAdd(p)
  PROVE  Asks(p)
<1>1. \/ Refuses(p)
      \/ \E n \in Names, r \in Nat, w \in Pwds \cup {None} :
           Calls(p, Then(Given(Creates("servers", Row(n, r), <<>>), w), "set and mask"))
  BY Looked, TableNames DEF ServerAdd, WithGateway, Found, GatewayByName
<1>2. ASSUME NEW n \in Names, NEW r \in Nat, NEW w \in Pwds \cup {None},
             Calls(p, Then(Given(Creates("servers", Row(n, r), <<>>), w), "set and mask"))
      PROVE  Asks(p)
  <2>1. PICK e \in Seq(Nat) : e = <<>>
    BY NoKids
  <2>2. Calls(p, Then(Given(Creates("servers", Row(n, r), e), w), "set and mask"))
    BY <1>2, <2>1, Zenon
  <2> QED
    BY <2>2, AsksCreate, TableNames
<1> QED
  BY <1>1, <1>2, AsksRefused

\* A request changes nothing but its own client.
Requested(p) == (\E g : Ready(p, g)) /\ Asks(p)

LEMMA WebAsks ==
  ASSUME Good(d), NEW p, Web(p)
  PROVE  Requested(p)
<1>1. ASSUME createServer(p) \/ updateServer(p) \/ deleteServer(p)
      PROVE  Requested(p)
  <2>1. \E g : Ready(p, g)
    BY <1>1 DEF createServer, updateServer, deleteServer
  <2> QED
    BY <1>1, <2>1, WebServers DEF Requested
<1>2. ASSUME createGateway(p) \/ updateGateway(p) \/ deleteGateway(p)
      PROVE  Requested(p)
  <2>1. \E g : Ready(p, g)
    BY <1>2 DEF createGateway, updateGateway, deleteGateway
  <2> QED
    BY <1>2, <2>1, WebGateways DEF Requested
<1>3. ASSUME createCluster(p) \/ updateCluster(p) \/ deleteCluster(p)
      PROVE  Requested(p)
  <2>1. \E g : Ready(p, g)
    BY <1>3 DEF createCluster, updateCluster, deleteCluster
  <2> QED
    BY <1>3, <2>1, WebClusters DEF Requested
<1>4. ASSUME createHost(p) \/ updateHost(p) \/ deleteHost(p)
      PROVE  Requested(p)
  <2>1. \E g : Ready(p, g)
    BY <1>4 DEF createHost, updateHost, deleteHost
  <2> QED
    BY <1>4, <2>1, WebHosts DEF Requested
<1>5. ASSUME createTunnel(p) \/ deleteTunnel(p) \/ startTunnel(p) \/ stopTunnel(p)
      PROVE  Requested(p)
  <2>1. \E g : Ready(p, g)
    BY <1>5 DEF createTunnel, deleteTunnel, startTunnel, stopTunnel
  <2> QED
    BY <1>5, <2>1, WebTunnels DEF Requested
<1>6. ASSUME updateTunnel(p) \/ updateAppServer(p)
      PROVE  Requested(p)
  <2>1. \E g : Ready(p, g)
    BY <1>6 DEF updateTunnel, updateAppServer
  <2> QED
    BY <1>6, <2>1, WebTunnelsUpdate DEF Requested
<1>7. ASSUME createProfile(p) \/ deleteProfile(p) \/ activateProfile(p) \/ deactivateProfile(p)
      PROVE  Requested(p)
  <2>1. \E g : Ready(p, g)
    BY <1>7 DEF createProfile, deleteProfile, activateProfile, deactivateProfile
  <2> QED
    BY <1>7, <2>1, WebProfiles DEF Requested
<1>8. ASSUME updateProfile(p)
      PROVE  Requested(p)
  <2>1. \E g : Ready(p, g)
    BY <1>8 DEF updateProfile
  <2> QED
    BY <1>8, <2>1, WebProfilesUpdate DEF Requested
<1>9. ASSUME createAppServer(p) \/ deleteAppServer(p)
      PROVE  Requested(p)
  <2>1. \E g : Ready(p, g)
    BY <1>9 DEF createAppServer, deleteAppServer
  <2> QED
    BY <1>9, <2>1, WebAppServers DEF Requested
<1> QED
  BY <1>1, <1>2, <1>3, <1>4, <1>5, <1>6, <1>7, <1>8, <1>9 DEF Web

LEMMA CliAsks ==
  ASSUME Good(d), NEW p, Cli(p)
  PROVE  Requested(p)
<1>1. ASSUME GatewayAdd(p) \/ GatewayRemove(p)
      PROVE  Requested(p)
  <2>1. \E g : Ready(p, g)
    BY <1>1 DEF GatewayAdd, GatewayRemove
  <2> QED
    BY <1>1, <2>1, CliGateways DEF Requested
<1>2. ASSUME ClusterAdd(p) \/ ClusterRemove(p)
      PROVE  Requested(p)
  <2>1. \E g : Ready(p, g)
    BY <1>2 DEF ClusterAdd, ClusterRemove
  <2> QED
    BY <1>2, <2>1, CliClusters DEF Requested
<1>3. ASSUME ProfileAdd(p) \/ ProfileEdit(p) \/ ProfileRemove(p) \/ ProfileUse(p)
      PROVE  Requested(p)
  <2>1. \E g : Ready(p, g)
    BY <1>3 DEF ProfileAdd, ProfileEdit, ProfileRemove, ProfileUse
  <2> QED
    BY <1>3, <2>1, CliProfiles DEF Requested
<1>4. ASSUME TunnelAdd(p) \/ TunnelRm(p) \/ TunnelStart(p) \/ TunnelStop(p)
      PROVE  Requested(p)
  <2>1. \E g : Ready(p, g)
    BY <1>4 DEF TunnelAdd, TunnelRm, TunnelStart, TunnelStop
  <2> QED
    BY <1>4, <2>1, CliTunnels DEF Requested
<1>5. ASSUME TunnelEdit(p)
      PROVE  Requested(p)
  <2>1. \E g : Ready(p, g)
    BY <1>5 DEF TunnelEdit
  <2> QED
    BY <1>5, <2>1, CliTunnelEdit DEF Requested
<1>6. ASSUME \/ AppServerAdd(p) \/ AppServerRemove(p) \/ AliasAdd(p) \/ AliasRemove(p)
             \/ HostsAdd(p) \/ HostsUpdate(p) \/ HostsDelete(p)
      PROVE  Requested(p)
  <2>1. \E g : Ready(p, g)
    BY <1>6 DEF AppServerAdd, AppServerRemove, AliasAdd, AliasRemove, HostsAdd, HostsUpdate, HostsDelete
  <2> QED
    BY <1>6, <2>1, CliLists DEF Requested
<1>7. ASSUME MemoryAdd(p) \/ MemoryDel(p)
      PROVE  Requested(p)
  <2>1. \E g : Ready(p, g)
    BY <1>7 DEF MemoryAdd, MemoryDel
  <2> QED
    BY <1>7, <2>1, CliMemory DEF Requested
<1>8. ASSUME ServerPolicySet(p) \/ ServerPolicyClear(p) \/ ServerPromptSet(p) \/ ServerPromptClear(p)
      PROVE  Requested(p)
  <2>1. \E g : Ready(p, g)
    BY <1>8 DEF ServerPolicySet, ServerPolicyClear, ServerPromptSet, ServerPromptClear, SetsPolicy, SetsPrompt
  <2> QED
    BY <1>8, <2>1, CliPolicies DEF Requested
<1>9. ASSUME ServerAdd(p)
      PROVE  Requested(p)
  <2>1. \E g : Ready(p, g)
    BY <1>9 DEF ServerAdd
  <2> QED
    BY <1>9, <2>1, CliServerAdd DEF Requested
<1>10. ASSUME ServerRemove(p) \/ ServerPasswd(p) \/ VaultSetCmd(p) \/ VaultDeleteCmd(p) \/ PromptPassword(p)
      PROVE  Requested(p)
  <2>1. \E g : Ready(p, g)
    BY <1>10 DEF ServerRemove, ServerPasswd, VaultSetCmd, VaultDeleteCmd, PromptPassword
  <2> QED
    BY <1>10, <2>1, CliVault DEF Requested
<1> QED
  BY <1>1, <1>2, <1>3, <1>4, <1>5, <1>6, <1>7, <1>8, <1>9, <1>10 DEF Cli

----------------------------------------------------------------------------
\* The steps: what follows a call is a call as CallOK describes it.

LEMMA ReadCallOK ==
  ASSUME Good(d), NEW c, CallOK(c)
  PROVE  CallOK(ReadCall(c)) /\ ReadCall(c).op = "read"
<1>1. c.table \in Tables /\ c.id \in Nat /\ c.row.name \in Names \cup {None}
  BY CallFields DEF Rows
<1>n. d.next[c.table] \in Nat
  BY <1>1 DEF Good, Wellformed
<1>2. PICK id \in Nat : id = IF c.op = "create" THEN NewId(d, c.table) ELSE c.id
  BY <1>1, <1>n DEF NewId
<1>3. PICK row \in Rows : row = Row(c.row.name, 0)
  BY <1>1, RowIs
<1>4. PICK e \in Seq(Nat) : e = <<>>
  BY NoKids
<1>5. PICK x : x = Call("read", c.table, id, row, e)
  OBVIOUS
<1>6. /\ x \in Callable /\ x.op = "read" /\ x.table = c.table /\ x.then = "done"
  BY <1>1, <1>5, CallIs DEF Ops
<1>7. PICK y : y = Wrote(x)
  OBVIOUS
<1>8. /\ y \in Callable /\ y.op = "read" /\ y.table = c.table /\ y.then = "done"
  BY <1>6, <1>7, WroteIs
<1>9. y = ReadCall(c)
  BY <1>2, <1>3, <1>4, <1>5, <1>7, Zenon DEF ReadCall
<1> QED
  BY <1>8, <1>9 DEF CallOK

LEMMA ContinuesOK ==
  ASSUME Good(d), NEW c, CallOK(c), c.op \in Writing
  PROVE  CallOK(Continues(c)) /\ Continues(c) # Refused
<1>1. CASE c.then = "set and mask" /\ c.pwd # None
  <2>0. d.next["servers"] \in Nat
    BY TableNames DEF Good, Wellformed
  <2>1. PICK id \in Nat : id = NewId(d, "servers")
    BY <2>0 DEF NewId
  <2>2. "set" \in Ops /\ "mask" \in Thens /\ c \in Callable
    BY DEF Ops, Thens, CallOK
  <2>3. PICK x : x = Follows(c, "set", "mask")
    OBVIOUS
  <2>4. x \in Callable /\ x.op = "set" /\ x.table = c.table /\ x.row = c.row /\ x.then = "mask"
    BY <2>2, <2>3, FollowsIs
  <2>5. PICK y : y = Wrote(x)
    OBVIOUS
  <2>6. y \in Callable /\ y.op = "set" /\ y.table = c.table /\ y.row = c.row /\ y.then = "mask"
    BY <2>4, <2>5, WroteIs
  <2>7. PICK z : z = On(y, id)
    OBVIOUS
  <2>8. z \in Callable /\ z.op = "set" /\ z.table = c.table /\ z.row = c.row /\ z.then = "mask"
    BY <2>6, <2>7, OnIs
  <2>9. c.table = "servers" /\ c.row.name \in Names
    BY <1>1 DEF CallOK
  <2>10. CallOK(z) /\ z # Refused
    BY <2>8, <2>9, RestsOK DEF CallOK
  <2>11. Continues(c) = z
    BY <1>1, <2>1, <2>3, <2>5, <2>7, Zenon DEF Continues
  <2> QED
    BY <2>10, <2>11
<1>2. CASE ~(c.then = "set and mask" /\ c.pwd # None) /\ ReadAgain(c)
  <2>1. CallOK(ReadCall(c)) /\ ReadCall(c).op = "read"
    BY ReadCallOK
  <2>2. Continues(c) = ReadCall(c)
    BY <1>2, Zenon DEF Continues
  <2> QED
    BY <2>1, <2>2, RestsOK
<1>3. CASE ~(c.then = "set and mask" /\ c.pwd # None) /\ ~ReadAgain(c)
  <2>1. Continues(c) = Idle
    BY <1>3, Zenon DEF Continues
  <2> QED
    BY <2>1, RestsOK
<1> QED
  BY <1>1, <1>2, <1>3

LEMMA StoredOrOK ==
  ASSUME NEW c, CallOK(c), c.op \in {"set", "save", "add"}, c.then \in SetThens, NEW ok \in BOOLEAN
  PROVE  /\ CallOK(StoredOr(c, ok))
         /\ StoredOr(c, ok) = Refused => ~ok /\ (c.wrote => c.op = "add")
         /\ ok => StoredOr(c, ok).then = "done"
<1>1. /\ c \in Callable /\ c.row.name \in Names /\ c.table = "servers"
      /\ c.wrote => c.then = "mask" \/ c.op = "add"
  BY DEF CallOK
<1>2. "mask" \in Ops /\ "update" \in Ops /\ "done" \in Thens
  BY DEF Ops, Thens
<1>3. CASE c.then = "vault only"
  <2>1. StoredOr(c, ok) = IF ok THEN Idle ELSE Refused
    BY <1>3, Zenon DEF StoredOr
  <2> QED
    BY <1>1, <1>3, <2>1, RestsOK
<1>4. CASE c.then # "vault only" /\ ok
  <2>1. PICK x : x = Follows(c, "mask", "done")
    OBVIOUS
  <2>2. x \in Callable /\ x.op = "mask" /\ x.table = "servers" /\ x.row = c.row /\ x.then = "done"
    BY <1>1, <1>2, <2>1, FollowsIs
  <2>3. PICK y : y = Wrote(x)
    OBVIOUS
  <2>4. y \in Callable /\ y.op = "mask" /\ y.table = "servers" /\ y.row = c.row /\ y.then = "done"
    BY <2>2, <2>3, WroteIs
  <2>5. CallOK(y) /\ y # Refused
    BY <2>4, RestsOK DEF CallOK
  <2>6. StoredOr(c, ok) = y
    BY <1>4, <2>1, <2>3, Zenon DEF StoredOr
  <2> QED
    BY <2>4, <2>5, <2>6
<1>5. CASE c.then = "mask or update" /\ ~ok
  <2>1. PICK x : x = Follows(c, "update", "done")
    OBVIOUS
  <2>2. /\ x \in Callable /\ x.op = "update" /\ x.table = "servers" /\ x.row = c.row /\ x.then = "done"
        /\ x.wrote = c.wrote
    BY <1>1, <1>2, <2>1, FollowsIs
  <2>3. CallOK(x) /\ x # Refused
    BY <1>1, <1>5, <2>2, RestsOK DEF CallOK
  <2>4. StoredOr(c, ok) = x
    BY <1>5, <2>1 DEF StoredOr
  <2> QED
    BY <1>5, <2>3, <2>4
<1>6. CASE c.then = "mask" /\ ~ok
  <2>1. StoredOr(c, ok) = Idle
    BY <1>6 DEF StoredOr
  <2> QED
    BY <2>1, RestsOK
<1> QED
  BY <1>3, <1>4, <1>5, <1>6 DEF SetThens

LEMMA AfterForgetOK ==
  ASSUME NEW c, CallOK(c), c.op \in {"forget", "save", "stop"}, c.then \in {"delete", "done"}
  PROVE  CallOK(AfterForget(c)) /\ AfterForget(c) # Refused /\ AfterForget(c).then = "done"
<1>1. c \in Callable /\ ~c.wrote
  BY DEF CallOK
<1>2. CASE c.then = "delete"
  <2>1. "delete" \in Ops /\ "done" \in Thens
    BY DEF Ops, Thens
  <2>2. PICK x : x = Follows(c, "delete", "done")
    OBVIOUS
  <2>3. x \in Callable /\ x.op = "delete" /\ x.then = "done" /\ x.wrote = c.wrote
    BY <1>1, <2>1, <2>2, FollowsIs
  <2>4. PICK w \in Pwds \cup {None} : w = None
    OBVIOUS
  <2>5. PICK y : y = Given(x, w)
    OBVIOUS
  <2>6. y \in Callable /\ y.op = "delete" /\ y.then = "done" /\ y.wrote = x.wrote
    BY <2>3, <2>5, GivenIs
  <2>7. CallOK(y) /\ y # Refused
    BY <1>1, <2>3, <2>6, RestsOK DEF CallOK
  <2>8. AfterForget(c) = y
    BY <1>2, <2>2, <2>4, <2>5, Zenon DEF AfterForget
  <2> QED
    BY <2>6, <2>7, <2>8
<1>3. CASE c.then # "delete"
  <2>1. AfterForget(c) = Idle
    BY <1>3, Zenon DEF AfterForget
  <2> QED
    BY <2>1, RestsOK
<1> QED
  BY <1>2, <1>3

LEMMA SavesOK ==
  ASSUME NEW c, CallOK(c), c.op \in {"set", "forget"}, NEW m \in [Names -> Pwds \cup {None}]
  PROVE  CallOK(Saves(c, m)) /\ Saves(c, m) # Refused
<1>1. /\ c \in Callable /\ c.row.name \in Names /\ c.table = "servers"
      /\ c.then \in SetThens \cup {"delete", "done"} /\ (c.wrote => c.then = "mask")
  BY DEF CallOK, SetThens
<1>2. "save" \in Ops
  BY DEF Ops
<1>3. PICK x : x = Does(c, "save")
  OBVIOUS
<1>4. /\ x \in Callable /\ x.op = "save" /\ x.table = "servers" /\ x.row = c.row /\ x.then = c.then
      /\ x.wrote = c.wrote
  BY <1>1, <1>2, <1>3, DoesIs
<1>5. PICK y : y = Maps(x, m)
  OBVIOUS
<1>6. /\ y \in Callable /\ y.op = "save" /\ y.table = "servers" /\ y.row = c.row /\ y.then = c.then
      /\ y.wrote = c.wrote
  BY <1>4, <1>5, MapsIs
<1>7. CallOK(y) /\ y # Refused
  BY <1>1, <1>6, RestsOK DEF CallOK, SetThens
<1> QED
  BY <1>3, <1>5, <1>7 DEF Saves

LEMMA AddCallOK ==
  ASSUME NEW c, CallOK(c), c.op = "set"
  PROVE  LET x == Does(c, "add") IN
         /\ CallOK(x) /\ x # Refused /\ CallOK(Wrote(x)) /\ Wrote(x) # Refused
<1>1. /\ c \in Callable /\ c.row.name \in Names /\ c.table = "servers" /\ c.then \in SetThens
  BY DEF CallOK, SetThens
<1>2. "add" \in Ops
  BY DEF Ops
<1>3. PICK x : x = Does(c, "add")
  OBVIOUS
<1>4. /\ x \in Callable /\ x.op = "add" /\ x.table = "servers" /\ x.row = c.row /\ x.then = c.then
  BY <1>1, <1>2, <1>3, DoesIs
<1>5. PICK y : y = Wrote(x)
  OBVIOUS
<1>6. /\ y \in Callable /\ y.op = "add" /\ y.table = "servers" /\ y.row = c.row /\ y.then = c.then
  BY <1>4, <1>5, WroteIs
<1>7. CallOK(x) /\ x # Refused
  BY <1>1, <1>4, RestsOK DEF CallOK, SetThens
<1>8. CallOK(y) /\ y # Refused
  BY <1>1, <1>6, RestsOK DEF CallOK, SetThens
<1> QED
  BY <1>3, <1>5, <1>7, <1>8

\* The map that was saved is put away.
LEMMA MapsOK ==
  ASSUME NEW c, CallOK(c)
  PROVE  CallOK(Maps(c, NoMap)) /\ (Maps(c, NoMap) = Refused => c.then = "refused")
<1>1. PICK m \in [Names -> Pwds \cup {None}] : m = NoMap
  BY DEF NoMap
<1>2. PICK y : y = Maps(c, m)
  OBVIOUS
<1>3. /\ y \in Callable /\ y.op = c.op /\ y.table = c.table /\ y.row = c.row /\ y.then = c.then
      /\ y.wrote = c.wrote
  <2>1. c \in Callable
    BY DEF CallOK
  <2> QED
    BY <1>2, <2>1, MapsIs
<1>4. CallOK(y)
  BY <1>3 DEF CallOK
<1>5. y = Refused => c.then = "refused"
  BY <1>3, RestsOK
<1> QED
  BY <1>1, <1>2, <1>4, <1>5

----------------------------------------------------------------------------
\* What a step of a client does.

Map == [Names -> Pwds \cup {None}]
\* What a step does to each variable, and whether its client may have been refused.
Took(p) ==
  /\ world' = world
  /\ Good(d') /\ IdsKept(d.rows, d.next, d'.rows, d'.next)
  /\ ForeignKeys[world] = Clients /\ RefsIn(d) => RefsIn(d')
  /\ store' \in [Stores -> Map] /\ running' \subseteq Names
  /\ left' \in [Clients -> Nat] /\ \A q \in Clients : left'[q] <= left[q]
  /\ \E c : /\ CallOK(c) /\ client' = [client EXCEPT ![p] = c]
            /\ c = Refused /\ client[p].op # "idle" =>
                 d' = d /\ store' = store /\ (client[p].wrote => Half(client[p]))
\* IInv, with "at most one is active" said without counting.
Fine ==
  /\ Good(d) /\ (ForeignKeys[world] = Clients => RefsIn(d))
  /\ store \in [Stores -> Map] /\ running \subseteq Names
  /\ world \in Worlds /\ left \in [Clients -> Nat] /\ \A p \in Clients : left[p] \in 0..Quota[world][p]
  /\ client = [p \in Clients |-> client[p]] /\ \A p \in Clients : CallOK(client[p])

LEMMA DbStays ==
  ASSUME Good(d), d' = d
  PROVE  /\ Good(d') /\ IdsKept(d.rows, d.next, d'.rows, d'.next)
         /\ ForeignKeys[world] = Clients /\ RefsIn(d) => RefsIn(d')
<1>1. Goes(TRUE, d, Done(d))
  BY StaysGo
<1> QED
  BY <1>1 DEF Goes, Done

LEMMA DbGoes ==
  ASSUME NEW k, NEW r, Goes(k, d, r), d' = r.db, ForeignKeys[world] = Clients => k
  PROVE  /\ Good(d') /\ IdsKept(d.rows, d.next, d'.rows, d'.next)
         /\ ForeignKeys[world] = Clients /\ RefsIn(d) => RefsIn(d')
BY DEF Goes

LEMMA RequestTook ==
  ASSUME Fine, NEW p \in Clients, Requested(p)
  PROVE  Took(p)
<1>1. /\ client[p].op = "idle" /\ left[p] > 0 /\ left' = [left EXCEPT ![p] = @ - 1]
      /\ UNCHANGED <<world, d, store, running, said>>
  BY DEF Requested, Ready
<1>2. left' \in [Clients -> Nat] /\ \A q \in Clients : left'[q] <= left[q]
  BY <1>1 DEF Fine
<1>3. \E c : CallOK(c) /\ client' = [client EXCEPT ![p] = c]
  BY DEF Requested, Asks
<1> QED
  BY <1>1, <1>2, <1>3, DbStays DEF Took, Fine

LEMMA StatementTook ==
  ASSUME Fine, NEW p \in Clients, Statement(p)
  PROVE  Took(p)
<1>1. PICK c : c = client[p]
  OBVIOUS
<1>2. PICK k \in BOOLEAN : k = (p \in ForeignKeys[world])
  <2>1. (p \in ForeignKeys[world]) \in BOOLEAN
    OBVIOUS
  <2> QED
    BY <2>1, Zenon
<1>3. PICK r : r = Do(k, c)
  OBVIOUS
<1>4. /\ c.op \in Writing /\ d' = r.db
      /\ client' = [client EXCEPT ![p] = IF r.ok THEN Continues(c) ELSE Refused]
      /\ UNCHANGED <<world, store, running, left>>
  BY <1>1, <1>2, <1>3 DEF Statement, Busy, Writing
<1>5. CallOK(c)
  BY <1>1 DEF Fine
<1>6. Goes(k, d, r)
  BY <1>3, <1>4, <1>5, DoGoes DEF Fine
<1>7. ForeignKeys[world] = Clients => k
  BY <1>2
<1>8. /\ Good(d') /\ IdsKept(d.rows, d.next, d'.rows, d'.next)
      /\ ForeignKeys[world] = Clients /\ RefsIn(d) => RefsIn(d')
  BY <1>4, <1>6, <1>7, DbGoes
<1>9. r.ok \in BOOLEAN /\ (~r.ok => d' = d)
  BY <1>4, <1>6 DEF Goes
<1>10. ~r.ok /\ c.wrote => Half(c)
  BY <1>3, <1>4, <1>5, DoMask DEF CallOK, Writing, Fine, Half
<1>11. PICK c2 : c2 = IF r.ok THEN Continues(c) ELSE Refused
  OBVIOUS
<1>12. CallOK(c2) /\ (c2 = Refused => ~r.ok)
  BY <1>4, <1>5, <1>11, ContinuesOK, RestsOK DEF Fine
<1> QED
  BY <1>1, <1>4, <1>8, <1>9, <1>10, <1>11, <1>12 DEF Took, Fine

LEMMA WithColumnGoes ==
  ASSUME Good(d), NEW n, NEW w \in Pwds \cup {None, Hidden}, d' = WithColumn(n, w)
  PROVE  /\ Good(d') /\ IdsKept(d.rows, d.next, d'.rows, d'.next)
         /\ ForeignKeys[world] = Clients /\ RefsIn(d) => RefsIn(d')
<1> DEFINE S == {i \in DOMAIN d.rows["servers"] : d.rows["servers"][i].name = n}
           new == [d EXCEPT !.rows["servers"] =
                    [i \in DOMAIN @ |-> IF i \in S THEN [@[i] EXCEPT !.pwd = w] ELSE @[i]]]
<1>1. WithColumn(n, w) = new
  BY DEF WithColumn
<1> HIDE DEF S
<1>2. Goes(TRUE, d, Done(new))
  BY ColumnGoes
<1> HIDE DEF new
<1>3. d' = Done(new).db
  BY <1>1 DEF Done
<1> QED
  BY <1>2, <1>3, DbGoes

LEMMA ChainSetTook ==
  ASSUME Fine, NEW p \in Clients, ChainSet(p)
  PROVE  Took(p)
<1>1. PICK c : c = client[p]
  OBVIOUS
<1>2. /\ CallOK(c) /\ c.op = "set" /\ c.then \in SetThens /\ c.pwd \in Pwds \cup {None}
      /\ UNCHANGED <<world, running, left>>
  BY <1>1, CallFields DEF ChainSet, Busy, Fine, CallOK, SetThens
<1>3. PICK n : n = c.row.name
  OBVIOUS
<1>4. \/ client' = [client EXCEPT ![p] = StoredOr(c, FALSE)] /\ UNCHANGED <<d, store>>
      \/ /\ store' = [store EXCEPT !["keychain"][n] = c.pwd]
         /\ client' = [client EXCEPT ![p] = StoredOr(c, TRUE)] /\ UNCHANGED d
      \/ /\ client' = [client EXCEPT ![p] = Saves(c, [store["age"] EXCEPT ![n] = c.pwd])]
         /\ UNCHANGED <<d, store>>
      \/ /\ d' = WithColumn(n, c.pwd)
         /\ client' = [client EXCEPT ![p] = StoredOr(c, TRUE)] /\ UNCHANGED store
      \/ client' = [client EXCEPT ![p] = Does(c, "add")] /\ UNCHANGED <<d, store>>
      \/ /\ store' = [store EXCEPT !["keychain"][n] = None]
         /\ client' = [client EXCEPT ![p] = Wrote(Does(c, "add"))] /\ UNCHANGED d
  BY <1>1, <1>3 DEF ChainSet
<1>5. left' \in [Clients -> Nat] /\ \A q \in Clients : left'[q] <= left[q]
  BY <1>2 DEF Fine
<1>6. CASE client' = [client EXCEPT ![p] = StoredOr(c, FALSE)] /\ UNCHANGED <<d, store>>
  <2>1. PICK c2 : c2 = StoredOr(c, FALSE)
    OBVIOUS
  <2>2. CallOK(c2) /\ (c2 = Refused => ~c.wrote)
    BY <1>2, <2>1, StoredOrOK
  <2> QED
    BY <1>1, <1>2, <1>5, <1>6, <2>1, <2>2, DbStays DEF Took, Fine
<1>7. PICK c3 : c3 = StoredOr(c, TRUE)
  OBVIOUS
<1>8. CallOK(c3) /\ c3 # Refused
  BY <1>2, <1>7, StoredOrOK
<1>9. CASE /\ store' = [store EXCEPT !["keychain"][n] = c.pwd]
           /\ client' = [client EXCEPT ![p] = StoredOr(c, TRUE)] /\ UNCHANGED d
  <2>1. store' \in [Stores -> Map]
    BY <1>2, <1>9 DEF Fine, Map
  <2> QED
    BY <1>1, <1>2, <1>5, <1>7, <1>8, <1>9, <2>1, DbStays DEF Took, Fine
<1>10. CASE /\ client' = [client EXCEPT ![p] = Saves(c, [store["age"] EXCEPT ![n] = c.pwd])]
            /\ UNCHANGED <<d, store>>
  <2>1. PICK m \in Map : m = [store["age"] EXCEPT ![n] = c.pwd]
    BY <1>2 DEF Fine, Map, Stores, Backends
  <2>2. PICK c2 : c2 = Saves(c, m)
    OBVIOUS
  <2>3. CallOK(c2) /\ c2 # Refused
    BY <1>2, <2>2, SavesOK DEF Map
  <2> QED
    BY <1>1, <1>2, <1>5, <1>10, <2>1, <2>2, <2>3, DbStays DEF Took, Fine
<1>11. CASE /\ d' = WithColumn(n, c.pwd)
            /\ client' = [client EXCEPT ![p] = StoredOr(c, TRUE)] /\ UNCHANGED store
  <2>1. /\ Good(d') /\ IdsKept(d.rows, d.next, d'.rows, d'.next)
        /\ ForeignKeys[world] = Clients /\ RefsIn(d) => RefsIn(d')
    BY <1>2, <1>11, WithColumnGoes DEF Fine
  <2> QED
    BY <1>1, <1>2, <1>5, <1>7, <1>8, <1>11, <2>1 DEF Took, Fine
<1>12. PICK c4, c5 : c4 = Does(c, "add") /\ c5 = Wrote(c4)
  OBVIOUS
<1>13. CallOK(c4) /\ CallOK(c5) /\ c4 # Refused /\ c5 # Refused
  BY <1>2, <1>12, AddCallOK
<1>14. CASE client' = [client EXCEPT ![p] = Does(c, "add")] /\ UNCHANGED <<d, store>>
  BY <1>1, <1>2, <1>5, <1>12, <1>13, <1>14, DbStays DEF Took, Fine
<1>15. CASE /\ store' = [store EXCEPT !["keychain"][n] = None]
            /\ client' = [client EXCEPT ![p] = Wrote(Does(c, "add"))] /\ UNCHANGED d
  <2>1. store' \in [Stores -> Map]
    BY <1>15 DEF Fine, Map
  <2> QED
    BY <1>1, <1>2, <1>5, <1>12, <1>13, <1>15, <2>1, DbStays DEF Took, Fine
<1> QED
  BY <1>4, <1>6, <1>9, <1>10, <1>11, <1>14, <1>15

LEMMA KeychainAddTook ==
  ASSUME Fine, NEW p \in Clients, KeychainAdd(p)
  PROVE  Took(p)
<1>1. PICK c : c = client[p]
  OBVIOUS
<1>2. /\ CallOK(c) /\ c.op = "add" /\ c.then \in SetThens /\ c.pwd \in Pwds \cup {None}
      /\ UNCHANGED <<world, d, running, left>>
  BY <1>1, CallFields DEF KeychainAdd, Busy, Fine, CallOK, SetThens
<1>3. PICK n : n = c.row.name
  OBVIOUS
<1>4. left' \in [Clients -> Nat] /\ \A q \in Clients : left'[q] <= left[q]
  BY <1>2 DEF Fine
<1>5. CASE client' = [client EXCEPT ![p] = StoredOr(c, FALSE)] /\ UNCHANGED store
  <2>1. PICK c2 : c2 = StoredOr(c, FALSE)
    OBVIOUS
  <2>2. CallOK(c2) /\ Half(c)
    BY <1>2, <2>1, StoredOrOK DEF Half
  <2> QED
    BY <1>1, <1>2, <1>4, <1>5, <2>1, <2>2, DbStays DEF Took, Fine
<1>6. CASE /\ store' = [store EXCEPT !["keychain"][n] = c.pwd]
           /\ client' = [client EXCEPT ![p] = StoredOr(c, TRUE)]
  <2>1. PICK c2 : c2 = StoredOr(c, TRUE)
    OBVIOUS
  <2>2. CallOK(c2) /\ c2 # Refused
    BY <1>2, <2>1, StoredOrOK
  <2>3. store' \in [Stores -> Map]
    BY <1>2, <1>6 DEF Fine, Map
  <2> QED
    BY <1>1, <1>2, <1>4, <1>6, <2>1, <2>2, <2>3, DbStays DEF Took, Fine
<1> QED
  BY <1>1, <1>3, <1>5, <1>6 DEF KeychainAdd

LEMMA ReadsBackTook ==
  ASSUME Fine, NEW p \in Clients, ReadsBack(p)
  PROVE  Took(p)
<1>1. /\ client[p].op = "read" /\ UNCHANGED <<world, d, store, running, left>>
      /\ \/ client' = [client EXCEPT ![p] = Idle]
         \/ client' = [client EXCEPT ![p] = Refused]
  BY DEF ReadsBack, Busy, Calls, Refuses
<1>2. left' \in [Clients -> Nat] /\ \A q \in Clients : left'[q] <= left[q]
  BY <1>1 DEF Fine
<1>3. Half(client[p])
  BY <1>1 DEF Half
<1> QED
  BY <1>1, <1>2, <1>3, RestsOK, DbStays DEF Took, Fine

LEMMA ChainDeleteTook ==
  ASSUME Fine, NEW p \in Clients, ChainDelete(p)
  PROVE  Took(p)
<1>1. PICK c : c = client[p]
  OBVIOUS
<1>2. /\ CallOK(c) /\ c.op = "forget" /\ c.then \in {"delete", "done"}
      /\ UNCHANGED <<world, running, left>>
  BY <1>1 DEF ChainDelete, Busy, Fine, CallOK
<1>3. PICK n : n = c.row.name
  OBVIOUS
<1>4. \/ client' = [client EXCEPT ![p] = AfterForget(c)] /\ UNCHANGED <<d, store>>
      \/ /\ store' = [store EXCEPT !["keychain"][n] = None]
         /\ client' = [client EXCEPT ![p] = AfterForget(c)] /\ UNCHANGED d
      \/ /\ client' = [client EXCEPT ![p] = Saves(c, [store["age"] EXCEPT ![n] = None])]
         /\ UNCHANGED <<d, store>>
      \/ /\ d' = WithColumn(n, Hidden)
         /\ client' = [client EXCEPT ![p] = AfterForget(c)] /\ UNCHANGED store
  BY <1>1, <1>3 DEF ChainDelete
<1>5. left' \in [Clients -> Nat] /\ \A q \in Clients : left'[q] <= left[q]
  BY <1>2 DEF Fine
<1>6. PICK c3 : c3 = AfterForget(c)
  OBVIOUS
<1>7. CallOK(c3) /\ c3 # Refused
  BY <1>2, <1>6, AfterForgetOK
<1>8. CASE client' = [client EXCEPT ![p] = AfterForget(c)] /\ UNCHANGED <<d, store>>
  BY <1>1, <1>2, <1>5, <1>6, <1>7, <1>8, DbStays DEF Took, Fine
<1>9. CASE /\ store' = [store EXCEPT !["keychain"][n] = None]
           /\ client' = [client EXCEPT ![p] = AfterForget(c)] /\ UNCHANGED d
  <2>1. store' \in [Stores -> Map]
    BY <1>9 DEF Fine, Map
  <2> QED
    BY <1>1, <1>2, <1>5, <1>6, <1>7, <1>9, <2>1, DbStays DEF Took, Fine
<1>10. CASE /\ client' = [client EXCEPT ![p] = Saves(c, [store["age"] EXCEPT ![n] = None])]
            /\ UNCHANGED <<d, store>>
  <2>1. PICK m \in Map : m = [store["age"] EXCEPT ![n] = None]
    BY DEF Fine, Map, Stores, Backends
  <2>2. PICK c2 : c2 = Saves(c, m)
    OBVIOUS
  <2>3. CallOK(c2) /\ c2 # Refused
    BY <1>2, <2>2, SavesOK DEF Map
  <2> QED
    BY <1>1, <1>2, <1>5, <1>10, <2>1, <2>2, <2>3, DbStays DEF Took, Fine
<1>11. CASE /\ d' = WithColumn(n, Hidden)
            /\ client' = [client EXCEPT ![p] = AfterForget(c)] /\ UNCHANGED store
  <2>1. /\ Good(d') /\ IdsKept(d.rows, d.next, d'.rows, d'.next)
        /\ ForeignKeys[world] = Clients /\ RefsIn(d) => RefsIn(d')
    BY <1>11, WithColumnGoes DEF Fine
  <2> QED
    BY <1>1, <1>2, <1>5, <1>6, <1>7, <1>11, <2>1 DEF Took, Fine
<1> QED
  BY <1>4, <1>8, <1>9, <1>10, <1>11

LEMMA AgeSaveTook ==
  ASSUME Fine, NEW p \in Clients, AgeSave(p)
  PROVE  Took(p)
<1>1. PICK c : c = client[p]
  OBVIOUS
<1>2. /\ CallOK(c) /\ c.op = "save" /\ c.map \in Map
      /\ c.then \in SetThens \cup {"delete", "done"}
      /\ UNCHANGED <<world, d, running, left>>
  BY <1>1, CallFields DEF AgeSave, Busy, Fine, CallOK, SetThens, Map
<1>3. PICK x : x = IF c.then \in {"delete", "done"} THEN AfterForget(c) ELSE StoredOr(c, TRUE)
  OBVIOUS
<1>4. /\ store' = [store EXCEPT !["age"] = c.map]
      /\ client' = [client EXCEPT ![p] = Maps(x, NoMap)]
  BY <1>1, <1>3 DEF AgeSave
<1>5. CallOK(x) /\ x.then = "done"
  <2>1. CASE c.then \in {"delete", "done"}
    <3>1. x = AfterForget(c)
      BY <1>3, <2>1, Zenon
    <3> QED
      BY <1>2, <2>1, <3>1, AfterForgetOK
  <2>2. CASE c.then \in SetThens
    <3>1. x = StoredOr(c, TRUE)
      BY <1>3, <2>2 DEF SetThens
    <3> QED
      BY <1>2, <2>2, <3>1, StoredOrOK
  <2> QED
    BY <1>2, <2>1, <2>2
<1>6. PICK c2 : c2 = Maps(x, NoMap)
  OBVIOUS
<1>7. CallOK(c2) /\ c2 # Refused
  BY <1>5, <1>6, MapsOK
<1>8. store' \in [Stores -> Map]
  BY <1>2, <1>4 DEF Fine
<1>9. left' \in [Clients -> Nat] /\ \A q \in Clients : left'[q] <= left[q]
  BY <1>2 DEF Fine
<1> QED
  BY <1>2, <1>4, <1>6, <1>7, <1>8, <1>9, DbStays DEF Took, Fine

LEMMA TunnelsTook ==
  ASSUME Fine, NEW p \in Clients, TunnelStarts(p) \/ TunnelStops(p) \/ Dies(p)
  PROVE  Took(p)
<1>1. PICK c : c = client[p]
  OBVIOUS
<1>2. CallOK(c) /\ UNCHANGED <<world, d, store, left>>
  BY <1>1 DEF Fine, TunnelStarts, TunnelStops, Dies
<1>3. left' \in [Clients -> Nat] /\ \A q \in Clients : left'[q] <= left[q]
  BY <1>2 DEF Fine
<1>4. CASE TunnelStarts(p)
  <2>1. c.row.name \in Names /\ ~c.wrote
    BY <1>1, <1>2, <1>4 DEF TunnelStarts, Busy, CallOK
  <2>2. \/ client' = [client EXCEPT ![p] = Refused] /\ running' = running
        \/ client' = [client EXCEPT ![p] = Idle] /\ running' = running \cup {c.row.name}
    BY <1>1, <1>4 DEF TunnelStarts, Refuses
  <2> QED
    BY <1>1, <1>2, <1>3, <2>1, <2>2, RestsOK, DbStays DEF Took, Fine
<1>5. CASE TunnelStops(p)
  <2>1. c.op = "stop" /\ ~c.wrote
    BY <1>1, <1>2, <1>5 DEF TunnelStops, Busy, CallOK
  <2>2. running' \subseteq running
    BY <1>5 DEF TunnelStops
  <2>3. \/ c.then = "delete" /\ client' = [client EXCEPT ![p] = AfterForget(c)]
        \/ client' = [client EXCEPT ![p] = Refused]
        \/ client' = [client EXCEPT ![p] = Idle]
    BY <1>1, <1>5 DEF TunnelStops
  <2>4. c.then = "delete" => CallOK(AfterForget(c))
    BY <1>2, <2>1, AfterForgetOK
  <2> QED
    BY <1>1, <1>2, <1>3, <2>1, <2>2, <2>3, <2>4, RestsOK, DbStays DEF Took, Fine
<1>6. CASE Dies(p)
  BY <1>2, <1>3, <1>6, RestsOK, DbStays DEF Dies, Took, Fine
<1> QED
  BY <1>4, <1>5, <1>6

LEMMA ClientTook ==
  ASSUME Fine, NEW p \in Clients, Web(p) \/ Cli(p) \/ Step(p) \/ Dies(p)
  PROVE  Took(p)
<1>1. Good(d)
  BY DEF Fine
<1> QED
  BY <1>1, WebAsks, CliAsks, RequestTook, StatementTook, ReadsBackTook, ChainSetTook, KeychainAddTook,
     ChainDeleteTook, AgeSaveTook, TunnelsTook DEF Step

LEMMA TookFine ==
  ASSUME Fine, NEW p \in Clients, Took(p)
  PROVE  Fine'
<1>1. /\ world' \in Worlds /\ Good(d') /\ (ForeignKeys[world'] = Clients => RefsIn(d'))
      /\ store' \in [Stores -> Map] /\ running' \subseteq Names
  BY DEF Fine, Took
<1>2. left' \in [Clients -> Nat] /\ \A q \in Clients : left'[q] \in 0..Quota[world'][q]
  <2>1. Quota[world] \in [Clients -> Nat]
    BY RegistryAssumption DEF Fine
  <2>2. ASSUME NEW q \in Clients
        PROVE  left'[q] \in 0..Quota[world][q]
    BY <2>1 DEF Fine, Took
  <2> QED
    BY <2>2 DEF Took
<1>3. client' = [q \in Clients |-> client'[q]] /\ \A q \in Clients : CallOK(client'[q])
  BY DEF Fine, Took
<1> QED
  BY <1>1, <1>2, <1>3 DEF Fine

----------------------------------------------------------------------------
\* The theorems.

LEMMA AtMostOne ==
  ASSUME NEW S, IsFiniteSet(S)
  PROVE  Cardinality(S) <= 1 <=> \A i, j \in S : i = j
<1>1. Cardinality(S) \in Nat
  BY FS_CardinalityType
<1>2. ASSUME Cardinality(S) <= 1, NEW i \in S, NEW j \in S, i # j
      PROVE  FALSE
  <2>1. Cardinality({i}) = 1 /\ IsFiniteSet({i})
    BY FS_Singleton
  <2>2. j \notin {i}
    BY <1>2
  <2>3. Cardinality({i} \cup {j}) = Cardinality({i}) + 1
    BY <2>1, <2>2, FS_AddElement
  <2>4. Cardinality({i} \cup {j}) <= Cardinality(S)
    BY FS_Subset
  <2> QED
    BY <1>1, <1>2, <2>1, <2>3, <2>4
<1>3. ASSUME \A i, j \in S : i = j
      PROVE  Cardinality(S) <= 1
  <2>1. CASE S = {}
    BY <2>1, FS_EmptySet
  <2>2. CASE S # {}
    <3>1. PICK i : S = {i}
      BY <1>3, <2>2
    <3> QED
      BY <3>1, FS_Singleton
  <2> QED
    BY <2>1, <2>2
<1> QED
  BY <1>2, <1>3

LEMMA OneIs ==
  ASSUME NEW db, Wellformed(db)
  PROVE  OneActive(db) <=> One(db.rows["profiles"])
<1> DEFINE S == {i \in Live(db, "profiles") : db.rows["profiles"][i].active}
<1>1. S \subseteq 1..db.next["profiles"] /\ db.next["profiles"] \in Nat
  BY DEF Wellformed, Tables
<1>2. IsFiniteSet(S)
  <2>1. PICK n \in Nat : n = db.next["profiles"]
    BY <1>1
  <2>2. IsFiniteSet(1..n)
    BY FS_Interval
  <2> QED
    BY <1>1, <2>1, <2>2, FS_Subset
<1>3. One(db.rows["profiles"]) <=> \A i, j \in S : i = j
  BY DEF One, Live
<1>4. OneActive(db) <=> Cardinality(S) <= 1
  BY DEF OneActive
<1> HIDE DEF S
<1> QED
  BY <1>2, <1>3, <1>4, AtMostOne

LEMMA FineIs == IInv <=> Fine
<1>1. ASSUME Wellformed(d)
      PROVE  OneActive(d) <=> One(d.rows["profiles"])
  BY <1>1, OneIs
<1> QED
  BY <1>1 DEF IInv, Fine, TablesAgree, TypeOK, ReferencesHold, Good, Map

LEMMA FineStarts ==
  ASSUME Init
  PROVE  Fine
<1>1. PICK w \in Worlds :
        /\ world = w /\ d = Start[w] /\ left = Quota[w]
        /\ store = [b \in Stores |-> NoMap]
        /\ running = {}
        /\ client = [p \in Clients |-> Idle]
  BY DEF Init
<1>2. Good(d) /\ (ForeignKeys[world] = Clients => RefsIn(d))
  BY <1>1, StartAssumption, OneIs DEF Good
<1>3. left \in [Clients -> Nat] /\ \A p \in Clients : left[p] \in 0..Quota[world][p]
  BY <1>1, RegistryAssumption
<1>4. store \in [Stores -> Map]
  BY <1>1 DEF Map, NoMap
<1> QED
  BY <1>1, <1>2, <1>3, <1>4, RestsOK DEF Fine

LEMMA FineSteps ==
  ASSUME Fine, [Next]_vars
  PROVE  Fine'
<1>1. CASE \E p \in Clients : Web(p) \/ Cli(p) \/ Step(p) \/ Dies(p)
  BY <1>1, ClientTook, TookFine
<1>2. CASE \E n \in Names : TunnelRunEnds(n)
  BY <1>2 DEF TunnelRunEnds, Fine
<1>3. CASE UNCHANGED vars
  BY <1>3 DEF vars, Fine
<1> QED
  BY <1>1, <1>2, <1>3 DEF Next

\* The steps of Web API handlers, commands, the vault and tmux keep the invariant,
\* whoever runs between two calls of another and wherever one is killed.
THEOREM Inductive == Spec => []IInv
<1>1. Init => Fine
  BY FineStarts
<1>2. Fine /\ [Next]_vars => Fine'
  BY FineSteps
<1>3. Fine => IInv
  BY FineIs
<1> QED
  BY <1>1, <1>2, <1>3, PTL DEF Spec

\* As long as every process enforces foreign keys, no row, hop, member or profile
\* gateway references a row that is gone; whoever edits, at most one profile is
\* active and every column holds what it may.
THEOREM Agree == Spec => []TablesAgree
<1>1. IInv => TablesAgree
  BY DEF IInv
<1> QED
  BY <1>1, Inductive, PTL

\* The call that refuses a request changes neither the database nor the vault, and no
\* earlier call has, but for the two Half names: the re-read of what was committed,
\* and a keychain that dropped the old password and did not take the new one.
THEOREM RefusalsAreClean == Spec => RefusedChangesNothing
<1> DEFINE Clean == \A p \in Clients : client[p].op # "idle" /\ client'[p] = Refused
                     => d' = d /\ store' = store /\ (client[p].wrote => Half(client[p]))
<1>1. ASSUME Fine, [Next]_vars
      PROVE  [Clean]_vars
  <2>1. ASSUME NEW p \in Clients, Web(p) \/ Cli(p) \/ Step(p) \/ Dies(p),
               NEW q \in Clients, client[q].op # "idle", client'[q] = Refused
        PROVE  d' = d /\ store' = store /\ (client[q].wrote => Half(client[q]))
    <3>1. PICK c : /\ client' = [client EXCEPT ![p] = c]
                   /\ c = Refused /\ client[p].op # "idle" =>
                        d' = d /\ store' = store /\ (client[p].wrote => Half(client[p]))
      BY <1>1, <2>1, ClientTook DEF Took
    <3>2. client = [r \in Clients |-> client[r]]
      BY <1>1 DEF Fine
    <3> QED
      BY <2>1, <3>1, <3>2, RestsOK
  <2>2. ASSUME UNCHANGED client, NEW q \in Clients, client[q].op # "idle", client'[q] = Refused
        PROVE  FALSE
    BY <2>2, RestsOK
  <2>3. ASSUME NEW n \in Names, TunnelRunEnds(n)
        PROVE  Clean
    BY <2>2, <2>3 DEF TunnelRunEnds
  <2> QED
    BY <1>1, <2>1, <2>3 DEF Next
<1>2. Spec => []Fine
  BY Inductive, FineIs, PTL
<1> QED
  BY <1>1, <1>2, PTL DEF Spec, RefusedChangesNothing

\* The number of a row that was deleted is not given out again, so a reference that
\* was left behind never comes to mean another row.
THEOREM IdsStay == Spec => IdsAreNotReused
<1> DEFINE Stay == \A t \in Tables : Live(d, t)' \cap (1..d.next[t]) \subseteq Live(d, t)
<1>1. ASSUME Fine, [Next]_vars
      PROVE  [Stay]_vars
  <2>1. ASSUME NEW p \in Clients, Web(p) \/ Cli(p) \/ Step(p) \/ Dies(p)
        PROVE  Stay
    <3>1. IdsKept(d.rows, d.next, d'.rows, d'.next)
      BY <1>1, <2>1, ClientTook DEF Took
    <3> QED
      BY <3>1 DEF IdsKept, Live
  <2>2. ASSUME NEW n \in Names, TunnelRunEnds(n)
        PROVE  Stay
    BY <2>2 DEF TunnelRunEnds, Live
  <2> QED
    BY <1>1, <2>1, <2>2 DEF Next
<1>2. Spec => []Fine
  BY Inductive, FineIs, PTL
<1> QED
  BY <1>1, <1>2, PTL DEF Spec, IdsAreNotReused

----------------------------------------------------------------------------
\* The password last given. A password is looked up in what each backend has for the
\* name; one column of the table of servers stands for the database.

ColumnIn(rows, n) ==
  LET S == {i \in DOMAIN rows : rows[i].name = n} IN
  IF S = {} THEN None
  ELSE LET pwd == rows[CHOOSE i \in S : TRUE].pwd IN IF pwd = Hidden THEN None ELSE pwd
Has(rows, st, n) == [b \in Backends |-> IF b = "plaintext" THEN ColumnIn(rows, n) ELSE st[b][n]]
FirstOf(ch, e) ==
  LET has == {j \in DOMAIN ch : e[ch[j]] # None} IN
  IF has = {} THEN None ELSE e[ch[CHOOSE j \in has : \A l \in has : j <= l]]
KeptIn(ch, e, v) ==
  IF Head(ch) = "age" THEN v = IF e["age"] # None THEN e["age"] ELSE e["plaintext"]
  ELSE \E j \in DOMAIN ch : v = e[ch[j]]
Differ(rows) == \A i, j \in DOMAIN rows : rows[i].name = rows[j].name => i = j
Safe(ch, rows, st, sd) == \A n \in Names : sd[n] \notin {None, Gone} => KeptIn(ch, Has(rows, st, n), sd[n])
\* Pending and Undisturbed of a table of servers, the stores and what was said.
Points(rows, c) == c.id \in DOMAIN rows /\ rows[c.id].name = c.row.name
Awaits(ch, rows, st, sd, c) ==
  /\ c.op = "update" /\ c.table = "servers" => Points(rows, c) /\ (c.pwd # None => Head(ch) = "keychain")
  /\ c.op \in {"set", "add"} =>
       c.pwd # None /\ (c.id = 0 <=> c.then = "vault only") /\ (c.id # 0 => Points(rows, c))
  /\ c.op = "add" => Head(ch) = "keychain"
  /\ c.op = "save" =>
       /\ c.map = [st["age"] EXCEPT ![c.row.name] = IF c.then \in {"delete", "done"} THEN None ELSE c.pwd]
       /\ c.then \notin {"delete", "done"} =>
            /\ Head(ch) = "age" /\ c.pwd # None
            /\ (c.id = 0 <=> c.then = "vault only") /\ (c.id # 0 => Points(rows, c))
  /\ c.op = "mask" => /\ Points(rows, c) /\ sd[c.row.name] # None
                      /\ st[Head(ch)][c.row.name] = sd[c.row.name]
Lone(ch, rows, st, sd, cl, quota) ==
  /\ sd \in [Names -> Pwds \cup {None, Gone}]
  /\ \A p \in Clients : cl[p].op # "idle" => quota[p] > 0
  /\ Differ(rows) /\ Safe(ch, rows, st, sd)
  /\ \A p \in Clients : Awaits(ch, rows, st, sd, cl[p])

LEMMA FrontsAre ==
  ASSUME NEW ch \in Fronts
  PROVE  /\ ch \in Seq(Backends) /\ ch # <<>> /\ Head(ch) \in Stores /\ Head(ch) = ch[1] /\ 1 \in DOMAIN ch
         /\ \/ ch = <<"keychain", "plaintext">>
            \/ ch = <<"age", "plaintext">>
            \/ ch = <<"keychain", "age", "plaintext">>
         /\ \A j \in DOMAIN ch : ch[j] \in Backends
<1>1. ASSUME ch = <<"keychain", "plaintext">>
      PROVE  /\ ch \in Seq(Backends) /\ ch # <<>> /\ Head(ch) \in Stores /\ Head(ch) = ch[1]
             /\ 1 \in DOMAIN ch /\ \A j \in DOMAIN ch : ch[j] \in Backends
  <2>1. DOMAIN ch = 1..2 /\ \A j \in 1..2 : ch[j] \in Backends
    BY <1>1 DEF Backends
  <2>2. ch \in Seq(Backends) /\ ch # <<>>
    BY <1>1 DEF Backends
  <2> QED
    BY <1>1, <2>1, <2>2 DEF Stores, Backends
<1>2. ASSUME ch = <<"age", "plaintext">>
      PROVE  /\ ch \in Seq(Backends) /\ ch # <<>> /\ Head(ch) \in Stores /\ Head(ch) = ch[1]
             /\ 1 \in DOMAIN ch /\ \A j \in DOMAIN ch : ch[j] \in Backends
  <2>1. DOMAIN ch = 1..2 /\ \A j \in 1..2 : ch[j] \in Backends
    BY <1>2 DEF Backends
  <2>2. ch \in Seq(Backends) /\ ch # <<>>
    BY <1>2 DEF Backends
  <2> QED
    BY <1>2, <2>1, <2>2 DEF Stores, Backends
<1>3. ASSUME ch = <<"keychain", "age", "plaintext">>
      PROVE  /\ ch \in Seq(Backends) /\ ch # <<>> /\ Head(ch) \in Stores /\ Head(ch) = ch[1]
             /\ 1 \in DOMAIN ch /\ \A j \in DOMAIN ch : ch[j] \in Backends
  <2>1. DOMAIN ch = 1..3 /\ \A j \in 1..3 : ch[j] \in Backends
    BY <1>3 DEF Backends
  <2>2. ch \in Seq(Backends) /\ ch # <<>>
    BY <1>3 DEF Backends
  <2> QED
    BY <1>3, <2>1, <2>2 DEF Stores, Backends
<1> QED
  BY <1>1, <1>2, <1>3 DEF Fronts

\* The first that has a password is found, whichever it is.
LEMMA FirstIs ==
  ASSUME NEW ch \in Fronts, NEW e
  PROVE  /\ \A j \in DOMAIN ch : e[ch[j]] # None /\ (\A l \in DOMAIN ch : l < j => e[ch[l]] = None)
              => FirstOf(ch, e) = e[ch[j]]
         /\ (\A j \in DOMAIN ch : e[ch[j]] = None) => FirstOf(ch, e) = None
<1> DEFINE has == {j \in DOMAIN ch : e[ch[j]] # None}
           first == CHOOSE j \in has : \A l \in has : j <= l
<1>1. DOMAIN ch \subseteq Nat
  BY FrontsAre
<1>2. ASSUME NEW j \in DOMAIN ch, e[ch[j]] # None, \A l \in DOMAIN ch : l < j => e[ch[l]] = None
      PROVE  FirstOf(ch, e) = e[ch[j]]
  <2>1. j \in has /\ \A l \in has : j <= l
    BY <1>1, <1>2
  <2>2. first \in has /\ \A l \in has : first <= l
    BY <2>1
  <2>3. first = j
    BY <1>1, <2>1, <2>2
  <2>4. FirstOf(ch, e) = e[ch[first]]
    BY <2>1 DEF FirstOf
  <2> QED
    BY <2>3, <2>4
<1>3. ASSUME \A j \in DOMAIN ch : e[ch[j]] = None
      PROVE  FirstOf(ch, e) = None
  BY <1>3 DEF FirstOf
<1> QED
  BY <1>2, <1>3

LEMMA NoneIs ==
  ASSUME NEW ch \in Fronts, NEW e, FirstOf(ch, e) = None
  PROVE  \A j \in DOMAIN ch : e[ch[j]] = None
<1> DEFINE has == {j \in DOMAIN ch : e[ch[j]] # None}
<1>1. has \subseteq Nat
  BY FrontsAre
<1>2. ASSUME has # {}
      PROVE  FALSE
  <2>1. PICK j \in has : \A l \in has : j <= l
    BY <1>1, <1>2, Least
  <2>2. \A l \in DOMAIN ch : l < j => e[ch[l]] = None
    BY <1>1, <2>1, FrontsAre
  <2> QED
    BY <2>1, <2>2, FirstIs
<1> QED
  BY <1>2

\* What Kept means, chain by chain.
LEMMA KeptMeans ==
  ASSUME NEW ch \in Fronts, NEW e, NEW v, v # None
  PROVE  \/ FirstOf(ch, e) = v
         \/ Head(ch) = "keychain" /\ v \in {e[ch[j]] : j \in DOMAIN ch}
         <=> KeptIn(ch, e, v)
<1>1. CASE ch = <<"age", "plaintext">>
  <2>1. DOMAIN ch = {1, 2} /\ ch[1] = "age" /\ ch[2] = "plaintext" /\ Head(ch) = "age"
    BY <1>1
  <2>2. FirstOf(ch, e) = IF e["age"] # None THEN e["age"] ELSE e["plaintext"]
    <3>1. CASE e["age"] # None
      BY <2>1, <3>1, FirstIs
    <3>2. CASE e["age"] = None /\ e["plaintext"] # None
      BY <2>1, <3>2, FirstIs
    <3>3. CASE e["age"] = None /\ e["plaintext"] = None
      BY <2>1, <3>3, FirstIs
    <3> QED
      BY <3>1, <3>2, <3>3
  <2> QED
    BY <2>1, <2>2 DEF KeptIn
<1>2. CASE ch = <<"keychain", "plaintext">>
  <2>1. DOMAIN ch = {1, 2} /\ ch[1] = "keychain" /\ ch[2] = "plaintext" /\ Head(ch) = "keychain"
    BY <1>2
  <2>2. FirstOf(ch, e) = IF e["keychain"] # None THEN e["keychain"] ELSE e["plaintext"]
    <3>1. CASE e["keychain"] # None
      BY <2>1, <3>1, FirstIs
    <3>2. CASE e["keychain"] = None /\ e["plaintext"] # None
      BY <2>1, <3>2, FirstIs
    <3>3. CASE e["keychain"] = None /\ e["plaintext"] = None
      BY <2>1, <3>3, FirstIs
    <3> QED
      BY <3>1, <3>2, <3>3
  <2> QED
    BY <2>1, <2>2 DEF KeptIn
<1>3. CASE ch = <<"keychain", "age", "plaintext">>
  <2>1. /\ DOMAIN ch = {1, 2, 3} /\ ch[1] = "keychain" /\ ch[2] = "age" /\ ch[3] = "plaintext"
        /\ Head(ch) = "keychain"
    BY <1>3
  <2>2. FirstOf(ch, e) = IF e["keychain"] # None THEN e["keychain"]
                         ELSE IF e["age"] # None THEN e["age"] ELSE e["plaintext"]
    <3>1. CASE e["keychain"] # None
      BY <2>1, <3>1, FirstIs
    <3>2. CASE e["keychain"] = None /\ e["age"] # None
      BY <2>1, <3>2, FirstIs
    <3>3. CASE e["keychain"] = None /\ e["age"] = None /\ e["plaintext"] # None
      BY <2>1, <3>3, FirstIs
    <3>4. CASE e["keychain"] = None /\ e["age"] = None /\ e["plaintext"] = None
      BY <2>1, <3>4, FirstIs
    <3> QED
      BY <3>1, <3>2, <3>3, <3>4
  <2> QED
    BY <2>1, <2>2 DEF KeptIn
<1> QED
  BY <1>1, <1>2, <1>3, FrontsAre

\* The state's password of a name, before and after a step.
LEMMA EffectiveIs ==
  ASSUME Guarded, NEW n
  PROVE  /\ Effective(n) = FirstOf(Chain[world], Has(d.rows["servers"], store, n))
         /\ \A j \in DOMAIN Chain[world] :
              Entry(Chain[world][j], n) = Has(d.rows["servers"], store, n)[Chain[world][j]]
<1> DEFINE ch == Chain[world]
           e == Has(d.rows["servers"], store, n)
<1>1. Column(n) = ColumnIn(d.rows["servers"], n)
  BY DEF Column, ColumnIn, GetByName, Live, At
<1>2. \A j \in DOMAIN ch : ch[j] \in Backends
  BY FrontsAre DEF Guarded
<1>3. ASSUME NEW j \in DOMAIN ch
      PROVE  Entry(ch[j], n) = e[ch[j]]
  BY <1>1, <1>2, <1>3 DEF Entry, Has
<1> DEFINE held == {j \in DOMAIN ch : Entry(ch[j], n) # None}
           has == {j \in DOMAIN ch : e[ch[j]] # None}
           first == CHOOSE j \in has : \A l \in has : j <= l
           lead == CHOOSE j \in held : \A l \in held : j <= l
<1>4. Effective(n) = IF held = {} THEN None ELSE Entry(ch[lead], n)
  BY DEF Effective, ChainGet
<1>5. FirstOf(ch, e) = IF has = {} THEN None ELSE e[ch[first]]
  BY DEF FirstOf
<1>6. has \subseteq DOMAIN ch /\ DOMAIN ch \subseteq Nat
  BY FrontsAre DEF Guarded
<1> HIDE DEF e
<1>7. held = has
  BY <1>3
<1>8. first = lead
  BY <1>7
<1>9. has # {} => first \in DOMAIN ch
  <2> HIDE DEF has
  <2>1. has # {} => \E j \in has : \A l \in has : j <= l
    BY <1>6, Least
  <2> QED
    BY <1>6, <2>1
<1> HIDE DEF held, has, first, lead
<1>10. Effective(n) = FirstOf(ch, e)
  BY <1>3, <1>4, <1>5, <1>7, <1>8, <1>9
<1> QED
  BY <1>3, <1>10 DEF e

LEMMA KeptIs ==
  ASSUME Guarded, NEW n, said[n] \notin {None, Gone}
  PROVE  Kept(n) <=> KeptIn(Chain[world], Has(d.rows["servers"], store, n), said[n])
<1> DEFINE ch == Chain[world]
           e == Has(d.rows["servers"], store, n)
<1>1. Effective(n) = FirstOf(ch, e) /\ \A j \in DOMAIN ch : Entry(ch[j], n) = e[ch[j]]
  BY EffectiveIs
<1> HIDE DEF e
<1>2. {Entry(ch[j], n) : j \in DOMAIN ch} = {e[ch[j]] : j \in DOMAIN ch}
  BY <1>1
<1>3. Kept(n) <=> \/ FirstOf(ch, e) = said[n]
                  \/ Head(ch) = "keychain" /\ said[n] \in {e[ch[j]] : j \in DOMAIN ch}
  BY <1>1, <1>2 DEF Kept
<1>4. ch \in Fronts
  BY DEF Guarded
<1> HIDE DEF ch
<1>5. Kept(n) <=> KeptIn(ch, e, said[n])
  BY <1>3, <1>4, KeptMeans
<1> QED
  BY <1>5 DEF e, ch

LEMMA UndisturbedIs ==
  Guarded => (Undisturbed <=> Lone(Chain[world], d.rows["servers"], store, said, client, Quota[world]))
<1> SUFFICES ASSUME Guarded
             PROVE  Undisturbed <=> Lone(Chain[world], d.rows["servers"], store, said, client, Quota[world])
  OBVIOUS
<1> DEFINE ch == Chain[world]
           rows == d.rows["servers"]
<1>0. /\ \A n \in Names : said[n] = Gone => Kept(n)
      /\ Gone # None
  BY DEF Kept, Gone, None
<1>1. (\A n \in Names : said[n] # None => Kept(n)) <=> Safe(ch, rows, store, said)
  BY <1>0, KeptIs DEF Safe
<1>2. (\A i, j \in Live(d, "servers") : At("servers", i).name = At("servers", j).name => i = j) <=> Differ(rows)
  BY DEF Differ, Live, At
<1>3. Head(ch) # "plaintext"
  BY FrontsAre DEF Guarded, Stores
<1>4. \A p : Pending(client[p]) <=> Awaits(ch, rows, store, said, client[p])
  BY <1>3 DEF Pending, Awaits, Stands, Points, FirstHas, Entry, Live, At
<1> QED
  BY <1>1, <1>2, <1>4 DEF Undisturbed, Lone

LEMMA UndisturbedNext ==
  Guarded' => (Undisturbed' <=> Lone(Chain[world'], d'.rows["servers"], store', said', client', Quota[world']))
<1>1. (Guarded => (Undisturbed <=> Lone(Chain[world], d.rows["servers"], store, said, client, Quota[world])))'
  BY UndisturbedIs, PTL
<1> QED
  BY <1>1

----------------------------------------------------------------------------
\* What an edit of the table does to the columns.

LEMMA ColumnHere ==
  ASSUME NEW rows, Differ(rows), NEW i \in DOMAIN rows
  PROVE  ColumnIn(rows, rows[i].name) = IF rows[i].pwd = Hidden THEN None ELSE rows[i].pwd
<1> DEFINE S == {j \in DOMAIN rows : rows[j].name = rows[i].name}
<1>1. S = {i}
  BY DEF Differ
<1>2. (CHOOSE j \in S : TRUE) = i
  BY <1>1
<1> QED
  BY <1>1, <1>2 DEF ColumnIn

LEMMA ColumnGone ==
  ASSUME NEW rows, NEW n, \A i \in DOMAIN rows : rows[i].name # n
  PROVE  ColumnIn(rows, n) = None
BY DEF ColumnIn

\* The columns of a name are the same where the rows of that name are.
LEMMA ColumnSame ==
  ASSUME NEW rows, NEW rows2, Differ(rows), Differ(rows2), NEW n,
         \A i : i \in DOMAIN rows /\ rows[i].name = n <=> i \in DOMAIN rows2 /\ rows2[i].name = n,
         \A i \in DOMAIN rows : rows[i].name = n => rows2[i].pwd = rows[i].pwd
  PROVE  ColumnIn(rows2, n) = ColumnIn(rows, n)
<1>1. CASE \E i \in DOMAIN rows : rows[i].name = n
  <2>1. PICK i \in DOMAIN rows : rows[i].name = n
    BY <1>1
  <2>2. i \in DOMAIN rows2 /\ rows2[i].name = n /\ rows2[i].pwd = rows[i].pwd
    BY <2>1
  <2> QED
    BY <2>1, <2>2, ColumnHere
<1>2. CASE ~\E i \in DOMAIN rows : rows[i].name = n
  BY <1>2, ColumnGone
<1> QED
  BY <1>1, <1>2

LEMMA HasSame ==
  ASSUME NEW rows, NEW rows2, NEW st, NEW n, ColumnIn(rows2, n) = ColumnIn(rows, n)
  PROVE  Has(rows2, st, n) = Has(rows, st, n)
BY DEF Has

LEMMA SafeAfter ==
  ASSUME NEW ch, NEW rows, NEW st, NEW sd, Safe(ch, rows, st, sd), NEW rows2, NEW st2, NEW sd2,
         \A n \in Names : \/ sd2[n] \in {None, Gone} \/ KeptIn(ch, Has(rows2, st2, n), sd2[n])
                          \/ sd2[n] = sd[n] /\ Has(rows2, st2, n) = Has(rows, st, n)
  PROVE  Safe(ch, rows2, st2, sd2)
BY DEF Safe

\* Numbers, names and passwords as they were.
Alike(rows, rows2) ==
  /\ DOMAIN rows2 = DOMAIN rows
  /\ \A i \in DOMAIN rows : rows2[i].name = rows[i].name /\ rows2[i].pwd = rows[i].pwd
LEMMA AlikeSafe ==
  ASSUME NEW ch, NEW rows, NEW st, NEW sd, NEW rows2, Differ(rows), Safe(ch, rows, st, sd), Alike(rows, rows2)
  PROVE  Differ(rows2) /\ Safe(ch, rows2, st, sd) /\ \A c : Points(rows, c) => Points(rows2, c)
<1>1. Differ(rows2)
  BY DEF Differ, Alike
<1>2. ASSUME NEW n
      PROVE  Has(rows2, st, n) = Has(rows, st, n)
  <2>1. ColumnIn(rows2, n) = ColumnIn(rows, n)
    BY <1>1, ColumnSame DEF Alike
  <2> QED
    BY <2>1, HasSame
<1> QED
  BY <1>1, <1>2, SafeAfter DEF Points, Alike

\* A step of the one person: the others are idle.
LEMMA LoneMoves ==
  ASSUME NEW ch, NEW rows, NEW st, NEW sd, NEW cl, NEW quota, Lone(ch, rows, st, sd, cl, quota),
         cl = [q \in Clients |-> cl[q]],
         NEW p \in Clients, quota[p] > 0, \A q \in Clients : quota[p] > 0 /\ quota[q] > 0 => p = q,
         NEW c, NEW rows2, NEW st2, NEW sd2, sd2 \in [Names -> Pwds \cup {None, Gone}],
         Differ(rows2), Safe(ch, rows2, st2, sd2), Awaits(ch, rows2, st2, sd2, c)
  PROVE  Lone(ch, rows2, st2, sd2, [cl EXCEPT ![p] = c], quota)
<1> DEFINE cl2 == [cl EXCEPT ![p] = c]
<1>1. cl2[p] = c /\ \A q \in Clients \ {p} : cl2[q] = cl[q] /\ cl[q].op = "idle"
  BY DEF Lone
<1> HIDE DEF cl2
<1>2. \A q \in Clients \ {p} : Awaits(ch, rows2, st2, sd2, cl2[q])
  BY <1>1 DEF Awaits
<1>3. \A q \in Clients : cl2[q].op # "idle" => quota[q] > 0
  BY <1>1
<1>4. Lone(ch, rows2, st2, sd2, cl2, quota)
  BY <1>1, <1>2, <1>3 DEF Lone
<1> QED
  BY <1>4 DEF cl2

----------------------------------------------------------------------------
\* What a statement does to the table of servers. On another table it leaves them as
\* they were, but for the gateway they go through.

Same(db, r) == r.db.rows["servers"] = db.rows["servers"]

LEMMA AddedSame ==
  ASSUME NEW db, Good(db), NEW t \in Tables \ {"servers"}, NEW row
  PROVE  Added(db, t, row).rows["servers"] = db.rows["servers"]
<1> DEFINE A == db.rows
           B == db.kids
           C == db.next
<1>1. A = [u \in Tables |-> A[u]]
  BY HasParts DEF Good, Shaped, Parts
<1>2. Added(db, t, row).rows = [A EXCEPT ![t] = With(A[t], NewId(db, t), row)]
  BY DEF Added
<1> HIDE DEF A
<1>3. [A EXCEPT ![t] = With(A[t], NewId(db, t), row)]["servers"] = A["servers"]
  BY <1>1, TableNames
<1> QED
  BY <1>2, <1>3 DEF A

LEMMA KidsSame ==
  ASSUME NEW db, NEW A, NEW B, NEW C, db = Db(A, B, C), NEW t, NEW id, NEW kids
  PROVE  WithKids(db, t, id, kids).rows = A
<1>1. [Db(A, B, C) EXCEPT !.kids[t] = With(@, id, kids)].rows = A
  BY DEF Db
<1> QED
  BY <1>1 DEF WithKids

LEMMA InsertSame ==
  ASSUME NEW k, NEW db, Good(db), NEW t \in Tables \ {"servers"}, NEW row, NEW kids
  PROVE  Same(db, Insert(k, db, t, row)) /\ Same(db, InsertWith(k, db, t, row, kids))
<1>1. Added(db, t, row).rows["servers"] = db.rows["servers"]
  BY AddedSame
<1> DEFINE A == Added(db, t, row).rows
           B == Added(db, t, row).kids
           C == Added(db, t, row).next
<1>2. Added(db, t, row) = Db(A, B, C)
  BY DEF Added, Db
<1>3. WithKids(Added(db, t, row), t, NewId(db, t), kids).rows["servers"] = db.rows["servers"]
  <2> HIDE DEF A, B, C
  <2>1. WithKids(Added(db, t, row), t, NewId(db, t), kids).rows = A
    BY <1>2, KidsSame
  <2> QED
    BY <1>1, <2>1 DEF A
<1>4. Same(db, Insert(k, db, t, row))
  BY <1>1 DEF Insert, Done, Fails, Same
<1>5. Same(db, InsertWith(k, db, t, row, kids))
  BY <1>3 DEF InsertWith, Done, Fails, Same
<1> QED
  BY <1>4, <1>5

LEMMA PutSame ==
  ASSUME NEW db, Good(db), NEW t \in Tables \ {"servers"}, NEW id, NEW row
  PROVE  [db EXCEPT !.rows[t][id] = row].rows["servers"] = db.rows["servers"]
<1> DEFINE A == db.rows
           B == db.kids
           C == db.next
<1>1. db = Db(A, B, C) /\ A = [u \in Tables |-> A[u]]
  BY HasParts DEF Good, Shaped, Parts
<1> HIDE DEF A, B, C
<1>2. [Db(A, B, C) EXCEPT !.rows[t][id] = row].rows = [A EXCEPT ![t][id] = row]
  BY DEF Db
<1>3. [A EXCEPT ![t][id] = row]["servers"] = A["servers"]
  BY <1>1, TableNames
<1> QED
  BY <1>1, <1>2, <1>3 DEF A

LEMMA SaveSame ==
  ASSUME NEW k, NEW db, Good(db), NEW t \in Tables \ {"servers"}, NEW id, NEW row
  PROVE  Same(db, Save(k, db, t, id, row))
<1>1. [db EXCEPT !.rows[t][id] = row].rows["servers"] = db.rows["servers"]
  BY PutSame
<1> QED
  BY <1>1 DEF Save, Done, Fails, Same

LEMMA SaveWithSame ==
  ASSUME NEW k, NEW db, Good(db), NEW t \in Tables \ {"servers"}, NEW id, NEW row, NEW kids
  PROVE  Same(db, SaveWith(k, db, t, id, row, kids))
<1> DEFINE A == db.rows
           B == db.kids
           C == db.next
           saved == Save(k, db, t, id, row).db
<1>1. db = Db(A, B, C)
  BY HasParts DEF Good
<1>2. saved = Db(saved.rows, saved.kids, saved.next)
  <2>1. saved \in {db, [db EXCEPT !.rows[t][id] = row]}
    BY DEF Save, Done, Fails
  <2> HIDE DEF A, B, C, saved
  <2>2. [Db(A, B, C) EXCEPT !.rows[t][id] = row] = Db([A EXCEPT ![t][id] = row], B, C)
    BY DEF Db
  <2>3. PICK A2 : saved = Db(A2, B, C)
    BY <1>1, <2>1, <2>2
  <2> QED
    BY <2>3 DEF Db
<1>3. Same(db, Save(k, db, t, id, row))
  BY SaveSame
<1>4. WithKids(saved, t, id, kids).rows = saved.rows
  BY <1>2, KidsSame
<1>5. SaveWith(k, db, t, id, row, kids) \in {Done(WithKids(saved, t, id, kids)), Fails(db)}
  BY DEF SaveWith
<1> QED
  BY <1>3, <1>4, <1>5 DEF Same, Done, Fails

LEMMA DeleteAlike ==
  ASSUME NEW k, NEW db, Good(db), NEW t \in Tables \ {"servers"}, NEW id
  PROVE  Alike(db.rows["servers"], Delete(k, db, t, id).db.rows["servers"])
<1> DEFINE A == db.rows
           B == db.kids
           C == db.next
           rows == A["servers"]
<1>1. db = Db(A, B, C) /\ A = [u \in Tables |-> A[u]] /\ TableOK("servers", rows, C["servers"])
  BY HasParts, TableNames DEF Good, Shaped, Parts
<1>2. Cascade(db, t, id).rows["servers"] = RowsAfter(rows, "servers", t, id)
  BY TableNames DEF Cascade
<1>3. Alike(rows, RowsAfter(rows, "servers", t, id))
  <2>1. CASE t = "gateways"
    <3> DEFINE g == [i \in DOMAIN rows |-> IF rows[i].ref = id THEN [rows[i] EXCEPT !.ref = 0] ELSE rows[i]]
    <3>1. RowsAfter(rows, "servers", t, id) = g
      BY <2>1 DEF RowsAfter, Owned
    <3>2. ASSUME NEW i \in DOMAIN rows
          PROVE  g[i].name = rows[i].name /\ g[i].pwd = rows[i].pwd
      <4>1. rows[i] \in Rows
        BY <1>1 DEF TableOK
      <4> HIDE DEF rows
      <4> QED
        BY <4>1 DEF Rows
    <3> QED
      BY <3>1, <3>2 DEF Alike
  <2>2. CASE t # "gateways"
    BY <2>2 DEF RowsAfter, Alike, Owned
  <2> QED
    BY <2>1, <2>2
<1>4. DeleteAlone(db, t, id).rows["servers"] = rows
  <2> HIDE DEF A, B, C
  <2>1. [Db(A, B, C) EXCEPT !.rows[t] = Without(@, {id})].rows = [A EXCEPT ![t] = Without(@, {id})]
    BY DEF Db
  <2>2. [A EXCEPT ![t] = Without(@, {id})]["servers"] = A["servers"]
    BY <1>1, TableNames
  <2> QED
    BY <1>1, <2>1, <2>2 DEF DeleteAlone
<1> HIDE DEF A, B, C
<1>5. Alike(rows, rows)
  BY DEF Alike
<1>6. Alike(rows, Delete(k, db, t, id).db.rows["servers"])
  BY <1>2, <1>3, <1>4, <1>5 DEF Delete, Done
<1> QED
  BY <1>6 DEF A

LEMMA ActivateSame ==
  ASSUME Good(d), NEW k, NEW c
  PROVE  Same(d, SetActive(k, c))
<1> DEFINE A == d.rows
           B == d.kids
           C == d.next
           new(f) == [i \in DOMAIN f |-> [f[i] EXCEPT !.active = i = c.id]]
<1>1. d = Db(A, B, C) /\ A = [u \in Tables |-> A[u]]
  BY HasParts DEF Good, Shaped, Parts
<1>2. Activated(c.id).rows["servers"] = A["servers"]
  <2>1. Activated(c.id) = [d EXCEPT !.rows["profiles"] = new(@)]
    BY DEF Activated
  <2> HIDE DEF A, B, C, new
  <2>2. [Db(A, B, C) EXCEPT !.rows["profiles"] = new(@)].rows = [A EXCEPT !["profiles"] = new(@)]
    BY DEF Db
  <2>3. [A EXCEPT !["profiles"] = new(@)]["servers"] = A["servers"]
    BY <1>1, TableNames
  <2> QED
    BY <1>1, <2>1, <2>2, <2>3
<1> QED
  BY <1>2 DEF SetActive, Done, Fails, Same

LEMMA OthersAlike ==
  ASSUME NEW k \in BOOLEAN, Good(d), NEW c, CallOK(c), c.op \in Writing \ {"mask"},
         c.op = "activate" \/ c.table # "servers"
  PROVE  Alike(d.rows["servers"], Do(k, c).db.rows["servers"])
<1> DEFINE t == c.table
           r == Do(k, c)
<1>1. t \in Tables
  BY CallFields
<1>2. ASSUME Same(d, r)
      PROVE  Alike(d.rows["servers"], r.db.rows["servers"])
  BY <1>2 DEF Same, Alike
<1>3. CASE c.op = "create" /\ t # "servers"
  <2>1. \E row, kids : r = Insert(k, d, t, row) \/ r = InsertWith(k, d, t, row, kids)
    BY <1>1, <1>3 DEF Do, Tables, GatewayCreate, ClusterCreate, ProfileCreate, TunnelCreate,
                      AppServerCreate, AliasCreate, HostCreate, AgentMemoryAdd
  <2> HIDE DEF r
  <2>2. Same(d, r)
    BY <1>1, <1>3, <2>1, InsertSame
  <2> QED
    BY <1>2, <2>2 DEF r
<1>4. CASE c.op = "update" /\ t # "servers"
  <2>0. t \notin {"aliases", "notes"}
    BY <1>4 DEF CallOK
  <2>1. \/ r = Done(d)
        \/ \E row, kids : \/ r = Save(k, d, t, c.id, row) \/ r = SaveWith(k, d, t, c.id, row, kids)
    BY <1>1, <1>4, <2>0 DEF Do, Tables, GatewayUpdate, ClusterUpdate, ProfileUpdate, TunnelUpdate,
                            AppServerUpdate, HostUpdate
  <2> HIDE DEF r
  <2>2. Same(d, r)
    BY <1>1, <1>4, <2>1, SaveSame, SaveWithSame DEF Same, Done
  <2> QED
    BY <1>2, <2>2 DEF r
<1>5. CASE c.op = "delete" /\ t # "servers"
  <2>1. r = Delete(k, d, t, c.id)
    BY <1>1, <1>5 DEF Do, Tables, GatewayDelete, ClusterDelete, ProfileDelete, TunnelDelete,
                      AppServerDelete, AliasDelete, HostDelete, AgentMemoryDelete
  <2> QED
    BY <1>1, <1>5, <2>1, DeleteAlike
<1>6. CASE c.op = "activate"
  <2>1. r = SetActive(k, c)
    BY <1>6 DEF Do
  <2> QED
    BY <1>2, <2>1, ActivateSame
<1> QED
  BY <1>3, <1>4, <1>5, <1>6 DEF Writing

\* A new server is a row of its own, under a name that no other has.
LEMMA ServerAdded ==
  ASSUME NEW k \in BOOLEAN, Good(d), NEW c, CallOK(c), c.op = "create", c.table = "servers",
         NEW r, r = Do(k, c)
  PROVE  \/ ~r.ok /\ r.db = d
         \/ /\ r.ok /\ \A i \in DOMAIN d.rows["servers"] : d.rows["servers"][i].name # c.row.name
            /\ NewId(d, "servers") \notin DOMAIN d.rows["servers"] /\ NewId(d, "servers") # 0
            /\ \E row : /\ row.name = c.row.name /\ row.pwd = c.pwd
                        /\ r.db.rows["servers"] = With(d.rows["servers"], NewId(d, "servers"), row)
<1> DEFINE row == [c.row EXCEPT !.pwd = c.pwd]
           A == d.rows
           id == NewId(d, "servers")
<1>1. A = [u \in Tables |-> A[u]] /\ TableOK("servers", A["servers"], d.next["servers"])
  BY HasParts, TableNames DEF Good, Shaped, Parts
<1>2. row.name = c.row.name /\ row.pwd = c.pwd
  <2>1. c.row \in Rows
    BY CallFields
  <2> QED
    BY <2>1 DEF Rows
<1>3. r = Insert(k, d, "servers", row)
  BY DEF Do, ServerCreate
<1> HIDE DEF row
<1>4. id \notin DOMAIN A["servers"] /\ id # 0
  <2>1. PICK last, rows : last = d.next["servers"] /\ rows = A["servers"]
    OBVIOUS
  <2>2. last \in Nat /\ DOMAIN rows \subseteq 1..last
    BY <1>1, <2>1 DEF TableOK
  <2>3. id = last + 1
    BY <2>1 DEF NewId
  <2> HIDE DEF id, A
  <2> QED
    BY <2>1, <2>2, <2>3
<1>5. CASE Unique(d, "servers", row.name, 0) /\ (k => RefHolds(d, "servers", row))
  <2>1. r = Done(Added(d, "servers", row))
    BY <1>3, <1>5 DEF Insert
  <2>2. \A i \in DOMAIN A["servers"] : A["servers"][i].name # row.name
    <3>1. 0 \notin DOMAIN A["servers"]
      BY <1>1 DEF TableOK
    <3> QED
      BY <1>5, <3>1 DEF Unique, Live
  <2>3. Added(d, "servers", row).rows = [A EXCEPT !["servers"] = With(A["servers"], id, row)]
    BY DEF Added
  <2> HIDE DEF A, id
  <2>4. Added(d, "servers", row).rows["servers"] = With(A["servers"], id, row)
    BY <1>1, <2>3, TableNames
  <2>5. r.ok /\ r.db.rows["servers"] = With(A["servers"], id, row)
    BY <2>1, <2>4 DEF Done
  <2> QED
    BY <1>2, <1>4, <2>2, <2>5 DEF A, id
<1>6. CASE ~(Unique(d, "servers", row.name, 0) /\ (k => RefHolds(d, "servers", row)))
  BY <1>3, <1>6 DEF Insert, Fails
<1> QED
  BY <1>5, <1>6

\* The row of a call after it: under the same name, with a password that fits.
SavedAs(c, rows, rows2) ==
  \E row : /\ row.name = c.row.name
           /\ c.pwd # None => row.pwd = c.pwd
           /\ c.pwd = None => row.pwd = rows[c.id].pwd
           /\ rows2 = [rows EXCEPT ![c.id] = row]
MaskedAs(c, rows, rows2) ==
  \E row : row.name = c.row.name /\ row.pwd = Hidden /\ rows2 = [rows EXCEPT ![c.id] = row]
LEMMA ServerSaved ==
  ASSUME NEW k \in BOOLEAN, Good(d), NEW c, CallOK(c), c.op = "update", c.table = "servers",
         Points(d.rows["servers"], c), NEW r, r = Do(k, c)
  PROVE  \/ ~r.ok /\ r.db = d
         \/ r.ok /\ SavedAs(c, d.rows["servers"], r.db.rows["servers"])
<1> DEFINE w == IF c.pwd # None THEN c.pwd ELSE d.rows["servers"][c.id].pwd
           row == [c.row EXCEPT !.pwd = w]
           A == d.rows
           B == d.kids
           C == d.next
<1>1. d = Db(A, B, C) /\ A = [u \in Tables |-> A[u]]
  BY HasParts DEF Good, Shaped, Parts
<1>2. c.id \in Live(d, "servers")
  BY DEF Points, Live
<1>3. r = Save(k, d, "servers", c.id, row)
  BY <1>2 DEF Do, ServerUpdate
<1>4. row.name = c.row.name /\ row.pwd = w
  <2>1. c.row \in Rows
    BY CallFields
  <2> HIDE DEF w
  <2> QED
    BY <2>1 DEF Rows
<1>n. PICK new : new = [d EXCEPT !.rows["servers"][c.id] = row]
  OBVIOUS
<1>5. new.rows["servers"] = [A["servers"] EXCEPT ![c.id] = row]
  <2> HIDE DEF A, B, C, row, w
  <2>1. [Db(A, B, C) EXCEPT !.rows["servers"][c.id] = row].rows = [A EXCEPT !["servers"][c.id] = row]
    BY DEF Db
  <2>2. [A EXCEPT !["servers"][c.id] = row]["servers"] = [A["servers"] EXCEPT ![c.id] = row]
    BY <1>1, TableNames
  <2> QED
    BY <1>1, <1>n, <2>1, <2>2
<1>6. r \in {Done(new), Fails(d)}
  BY <1>2, <1>3, <1>n DEF Save
<1> HIDE DEF row
<1>7. CASE r = Fails(d)
  BY <1>7 DEF Fails
<1>8. CASE r = Done(new)
  <2>1. r.ok /\ r.db.rows["servers"] = [d.rows["servers"] EXCEPT ![c.id] = row]
    BY <1>5, <1>8 DEF Done
  <2>2. (c.pwd # None => row.pwd = c.pwd) /\ (c.pwd = None => row.pwd = d.rows["servers"][c.id].pwd)
    BY <1>4
  <2> QED
    BY <1>4, <2>1, <2>2, Zenon DEF SavedAs
<1> QED
  BY <1>6, <1>7, <1>8

LEMMA ServerDeleted ==
  ASSUME NEW k \in BOOLEAN, Good(d), NEW c, CallOK(c), c.op = "delete", c.table = "servers",
         NEW r, r = Do(k, c)
  PROVE  r.ok /\ r.db.rows["servers"] = Without(d.rows["servers"], {c.id})
<1> DEFINE A == d.rows
           B == d.kids
           C == d.next
<1>1. d = Db(A, B, C) /\ A = [u \in Tables |-> A[u]]
  BY HasParts DEF Good, Shaped, Parts
<1>2. r = Delete(k, d, "servers", c.id)
  BY DEF Do, ServerDelete
<1>3. Cascade(d, "servers", c.id).rows["servers"] = Without(A["servers"], {c.id})
  <2>1. Cascade(d, "servers", c.id).rows["servers"] = RowsAfter(A["servers"], "servers", "servers", c.id)
    BY TableNames DEF Cascade
  <2>2. ASSUME NEW rows
        PROVE  RowsAfter(rows, "servers", "servers", c.id) = Without(rows, {c.id})
    <3>1. PICK u : u = "servers"
      OBVIOUS
    <3>2. RowsAfter(rows, u, u, c.id) = Without(rows, {c.id})
      BY <3>1 DEF RowsAfter, Owned
    <3> QED
      BY <3>1, <3>2
  <2> QED
    BY <2>1, <2>2
<1>4. DeleteAlone(d, "servers", c.id).rows["servers"] = Without(A["servers"], {c.id})
  <2> HIDE DEF A, B, C
  <2>1. [Db(A, B, C) EXCEPT !.rows["servers"] = Without(@, {c.id})].rows
        = [A EXCEPT !["servers"] = Without(@, {c.id})]
    BY DEF Db
  <2>2. [A EXCEPT !["servers"] = Without(@, {c.id})]["servers"] = Without(A["servers"], {c.id})
    BY <1>1, TableNames
  <2> QED
    BY <1>1, <2>1, <2>2 DEF DeleteAlone
<1> QED
  BY <1>2, <1>3, <1>4 DEF Delete, Done

LEMMA ServerMasked ==
  ASSUME NEW k \in BOOLEAN, Good(d), NEW c, CallOK(c), c.op = "mask",
         Points(d.rows["servers"], c), NEW r, r = Do(k, c)
  PROVE  r.ok /\ MaskedAs(c, d.rows["servers"], r.db.rows["servers"])
<1> DEFINE A == d.rows
           B == d.kids
           C == d.next
           rows == A["servers"]
           row == [rows[c.id] EXCEPT !.pwd = Hidden]
<1>1. d = Db(A, B, C) /\ A = [u \in Tables |-> A[u]]
  BY HasParts DEF Good, Shaped, Parts
<1>2. c.id \in Live(d, "servers")
  BY DEF Points, Live
<1>3. r = Done([d EXCEPT !.rows["servers"][c.id].pwd = Hidden])
  BY <1>2 DEF Do, ClearPassword
<1>4. row.name = c.row.name /\ row.pwd = Hidden
  <2>1. rows[c.id] \in Rows /\ rows[c.id].name = c.row.name
    BY <1>2, RowHere, TableNames DEF Points
  <2> HIDE DEF rows
  <2> QED
    BY <2>1 DEF Rows
<1>n. PICK new : new = [d EXCEPT !.rows["servers"][c.id].pwd = Hidden]
  OBVIOUS
<1>5. new.rows["servers"] = [rows EXCEPT ![c.id] = row]
  <2> HIDE DEF A, B, C
  <2>1. [Db(A, B, C) EXCEPT !.rows["servers"][c.id].pwd = Hidden].rows = [A EXCEPT !["servers"][c.id].pwd = Hidden]
    BY DEF Db
  <2>2. [A EXCEPT !["servers"][c.id].pwd = Hidden]["servers"] = [A["servers"] EXCEPT ![c.id].pwd = Hidden]
    BY <1>1, TableNames
  <2> QED
    BY <1>1, <1>n, <2>1, <2>2
<1> HIDE DEF row, rows
<1>6. r.ok /\ r.db.rows["servers"] = [rows EXCEPT ![c.id] = row]
  <2>1. r = Done(new)
    BY <1>3, <1>n, Zenon
  <2> QED
    BY <1>5, <2>1 DEF Done
<1> QED
  BY <1>4, <1>6 DEF rows, MaskedAs

----------------------------------------------------------------------------
\* The password of every other name is where it was.

LEMMA KeptGrows ==
  ASSUME NEW ch \in Fronts, NEW e, NEW e2, NEW v, v # None, KeptIn(ch, e, v),
         \A b \in Stores : e2[b] = e[b], e["plaintext"] = None
  PROVE  KeptIn(ch, e2, v)
<1>1. \A j \in DOMAIN ch : ch[j] \in Stores \cup {"plaintext"}
  BY FrontsAre DEF Stores
<1>2. CASE Head(ch) = "age"
  BY <1>2 DEF KeptIn, Stores, Backends
<1>3. CASE Head(ch) # "age"
  BY <1>1, <1>3 DEF KeptIn
<1> QED
  BY <1>2, <1>3

LEMMA KeptFront ==
  ASSUME NEW ch \in Fronts, NEW e, NEW v, v # None, e[Head(ch)] = v
  PROVE  KeptIn(ch, e, v)
BY FrontsAre DEF KeptIn

LEMMA KeptColumn ==
  ASSUME NEW ch \in Fronts, NEW e, NEW v, e["plaintext"] = v, Head(ch) = "keychain" \/ e["age"] = None
  PROVE  KeptIn(ch, e, v)
<1>1. \E j \in DOMAIN ch : ch[j] = "plaintext"
  <2>1. ASSUME ch = <<"keychain", "age", "plaintext">> PROVE 3 \in DOMAIN ch /\ ch[3] = "plaintext"
    BY <2>1
  <2>2. ASSUME ch = <<"keychain", "plaintext">> \/ ch = <<"age", "plaintext">>
        PROVE 2 \in DOMAIN ch /\ ch[2] = "plaintext"
    BY <2>2
  <2> QED
    BY <2>1, <2>2, FrontsAre
<1>2. CASE Head(ch) = "age"
  BY <1>2 DEF KeptIn
<1>3. CASE Head(ch) # "age"
  BY <1>1, <1>3 DEF KeptIn
<1> QED
  BY <1>2, <1>3

\* The rows, the stores and what was said of every name but one.
RowsBut(n, rows, rows2) ==
  \A i : \A m \in Names \ {n} :
    /\ i \in DOMAIN rows /\ rows[i].name = m <=> i \in DOMAIN rows2 /\ rows2[i].name = m
    /\ i \in DOMAIN rows /\ rows[i].name = m => rows2[i].pwd = rows[i].pwd
StoresBut(n, st, st2) == \A b \in Stores : \A m \in Names \ {n} : st2[b][m] = st[b][m]
SaidBut(n, sd, sd2) == \A m \in Names \ {n} : sd2[m] = sd[m]
LEMMA SafeBut ==
  ASSUME NEW ch, NEW rows, NEW st, NEW sd, Safe(ch, rows, st, sd), Differ(rows),
         NEW rows2, NEW st2, NEW sd2, Differ(rows2), NEW n,
         RowsBut(n, rows, rows2), StoresBut(n, st, st2), SaidBut(n, sd, sd2),
         n \in Names /\ sd2[n] \notin {None, Gone} => KeptIn(ch, Has(rows2, st2, n), sd2[n])
  PROVE  Safe(ch, rows2, st2, sd2)
<1>1. ASSUME NEW m \in Names \ {n}
      PROVE  Has(rows2, st2, m) = Has(rows, st, m)
  <2>1. ColumnIn(rows2, m) = ColumnIn(rows, m)
    BY ColumnSame DEF RowsBut
  <2>2. \A b \in Backends : b # "plaintext" => st2[b][m] = st[b][m]
    BY DEF Stores, StoresBut
  <2> QED
    BY <2>1, <2>2 DEF Has
<1>2. ASSUME NEW m \in Names, sd2[m] \notin {None, Gone}
      PROVE  KeptIn(ch, Has(rows2, st2, m), sd2[m])
  BY <1>1, <1>2 DEF Safe, SaidBut
<1> QED
  BY <1>2 DEF Safe

LEMMA SafeAdded ==
  ASSUME NEW ch \in Fronts, NEW rows, NEW st, NEW sd \in [Names -> Pwds \cup {None, Gone}],
         Safe(ch, rows, st, sd), Differ(rows),
         NEW id, id \notin DOMAIN rows, NEW row, row.name \in Names, row.pwd \in Pwds \cup {None},
         \A i \in DOMAIN rows : rows[i].name # row.name,
         NEW sd2, sd2 = IF FirstOf(ch, Has(rows, st, row.name)) = None
                        THEN [sd EXCEPT ![row.name] = row.pwd] ELSE sd
  PROVE  /\ Differ(With(rows, id, row)) /\ Safe(ch, With(rows, id, row), st, sd2)
         /\ sd2 \in [Names -> Pwds \cup {None, Gone}]
<1> DEFINE n == row.name
           rows2 == With(rows, id, row)
           e == Has(rows, st, n)
           e2 == Has(rows2, st, n)
<1>1. DOMAIN rows2 = DOMAIN rows \cup {id} /\ rows2[id] = row /\ \A i \in DOMAIN rows : rows2[i] = rows[i]
  BY DEF With
<1> HIDE DEF rows2
<1>2. Differ(rows2)
  BY <1>1 DEF Differ
<1>3. ColumnIn(rows, n) = None
  BY ColumnGone
<1>4. ColumnIn(rows2, n) = row.pwd
  <2>1. ColumnIn(rows2, rows2[id].name) = IF rows2[id].pwd = Hidden THEN None ELSE rows2[id].pwd
    BY <1>1, <1>2, ColumnHere
  <2> QED
    BY <1>1, <2>1, RegistryAssumption
<1>5. e["plaintext"] = None /\ e2["plaintext"] = row.pwd /\ \A b \in Stores : e2[b] = e[b]
  BY <1>3, <1>4 DEF Has, Stores, Backends
<1> HIDE DEF e, e2
<1>6. sd2 \in [Names -> Pwds \cup {None, Gone}] /\ SaidBut(n, sd, sd2) /\ StoresBut(n, st, st)
  BY DEF SaidBut, StoresBut
<1>7. sd2[n] \notin {None, Gone} => KeptIn(ch, e2, sd2[n])
  <2>1. CASE FirstOf(ch, e) = None
    <3>1. sd2[n] = row.pwd
      BY <2>1 DEF e
    <3>2. \A j \in DOMAIN ch : e[ch[j]] = None
      BY <2>1, NoneIs
    <3>3. Head(ch) = "age" => e["age"] = None
      BY <3>2, FrontsAre
    <3>4. Head(ch) = "keychain" \/ e2["age"] = None
      BY <1>5, <3>3, FrontsAre DEF Stores, Backends
    <3> QED
      BY <1>5, <3>1, <3>4, KeptColumn
  <2>2. CASE FirstOf(ch, e) # None
    <3>1. sd2[n] = sd[n]
      BY <2>2 DEF e
    <3>2. sd[n] \notin {None, Gone} => KeptIn(ch, e, sd[n])
      BY DEF Safe, e
    <3> QED
      BY <1>5, <3>1, <3>2, KeptGrows
  <2> QED
    BY <2>1, <2>2
<1>8. RowsBut(n, rows, rows2)
  BY <1>1 DEF RowsBut
<1>9. Safe(ch, rows2, st, sd2)
  BY <1>2, <1>6, <1>7, <1>8, SafeBut DEF e2
<1> QED
  BY <1>2, <1>6, <1>9 DEF rows2

LEMMA SafePut ==
  ASSUME NEW ch \in Fronts, NEW rows, rows = [i \in DOMAIN rows |-> rows[i]], NEW st,
         NEW sd \in [Names -> Pwds \cup {None, Gone}], Safe(ch, rows, st, sd), Differ(rows),
         NEW id \in DOMAIN rows, NEW row, row.name = rows[id].name, NEW sd2,
         \A m \in Names \ {row.name} : sd2[m] = sd[m],
         \/ sd2 = sd /\ row.pwd = rows[id].pwd
         \/ sd2 = sd /\ row.pwd = Hidden /\ sd[row.name] # None /\ st[Head(ch)][row.name] = sd[row.name]
         \/ sd2[row.name] = row.pwd /\ row.pwd \in Pwds /\ Head(ch) = "keychain"
  PROVE  /\ Differ([rows EXCEPT ![id] = row]) /\ Safe(ch, [rows EXCEPT ![id] = row], st, sd2)
         /\ \A c : Points(rows, c) => Points([rows EXCEPT ![id] = row], c)
<1> DEFINE n == row.name
           rows2 == [rows EXCEPT ![id] = row]
           e2 == Has(rows2, st, n)
<1>1. DOMAIN rows2 = DOMAIN rows /\ rows2[id] = row /\ \A i \in DOMAIN rows \ {id} : rows2[i] = rows[i]
  OBVIOUS
<1> HIDE DEF rows2
<1>2. Differ(rows2) /\ \A c : Points(rows, c) => Points(rows2, c)
  BY <1>1 DEF Differ, Points
<1>3. CASE sd2 = sd /\ row.pwd = rows[id].pwd
  <2>1. Alike(rows, rows2)
    BY <1>1, <1>3 DEF Alike
  <2> QED
    BY <1>2, <1>3, <2>1, AlikeSafe DEF rows2
<1>4. ASSUME KeptIn(ch, e2, sd2[n])
      PROVE  Safe(ch, rows2, st, sd2)
  <2>1. RowsBut(n, rows, rows2) /\ StoresBut(n, st, st) /\ SaidBut(n, sd, sd2)
    BY <1>1 DEF RowsBut, StoresBut, SaidBut
  <2> QED
    BY <1>2, <1>4, <2>1, SafeBut DEF e2
<1>5. CASE sd2 = sd /\ row.pwd = Hidden /\ sd[n] # None /\ st[Head(ch)][n] = sd[n]
  <2>1. e2[Head(ch)] = st[Head(ch)][n]
    BY FrontsAre DEF Has, Stores
  <2> QED
    BY <1>2, <1>4, <1>5, <2>1, KeptFront DEF rows2
<1>6. CASE sd2[n] = row.pwd /\ row.pwd \in Pwds /\ Head(ch) = "keychain"
  <2>1. ColumnIn(rows2, rows2[id].name) = IF rows2[id].pwd = Hidden THEN None ELSE rows2[id].pwd
    BY <1>1, <1>2, ColumnHere
  <2>2. e2["plaintext"] = row.pwd
    BY <1>1, <1>6, <2>1, RegistryAssumption DEF Has, Backends
  <2>3. KeptIn(ch, e2, sd2[n])
    BY <1>6, <2>2, KeptColumn
  <2> QED
    BY <1>2, <1>4, <2>3 DEF rows2
<1> QED
  BY <1>3, <1>5, <1>6

LEMMA SafeWithout ==
  ASSUME NEW ch \in Fronts, NEW rows, NEW st, NEW sd, Safe(ch, rows, st, sd), Differ(rows), NEW id,
         NEW sd2, \A m \in Names : (id \in DOMAIN rows /\ m = rows[id].name) \/ sd2[m] = sd[m],
         id \in DOMAIN rows => sd2[rows[id].name] = None
  PROVE  Differ(Without(rows, {id})) /\ Safe(ch, Without(rows, {id}), st, sd2)
<1> DEFINE rows2 == Without(rows, {id})
<1>1. DOMAIN rows2 = DOMAIN rows \ {id} /\ \A i \in DOMAIN rows2 : rows2[i] = rows[i]
  BY DEF Without, Restrict
<1> HIDE DEF rows2
<1>2. Differ(rows2)
  BY <1>1 DEF Differ
<1>3. CASE id \in DOMAIN rows
  <2>1. PICK n : n = rows[id].name
    OBVIOUS
  <2>2. RowsBut(n, rows, rows2) /\ StoresBut(n, st, st)
    BY <1>1, <2>1 DEF RowsBut, StoresBut
  <2>3. sd2[n] = None /\ SaidBut(n, sd, sd2)
    BY <1>3, <2>1 DEF SaidBut
  <2>4. Safe(ch, rows2, st, sd2)
    BY <1>2, <2>2, <2>3, SafeBut
  <2> QED
    BY <1>2, <2>4 DEF rows2
<1>4. CASE id \notin DOMAIN rows
  <2>1. Alike(rows, rows2)
    BY <1>1, <1>4 DEF Alike
  <2>2. Safe(ch, rows2, st, sd)
    BY <2>1, AlikeSafe
  <2>3. Safe(ch, rows2, st, sd2)
    BY <1>4, <2>2 DEF Safe
  <2> QED
    BY <1>2, <2>3 DEF rows2
<1> QED
  BY <1>3, <1>4

----------------------------------------------------------------------------
\* What follows a call: of which row and with which password.

LEMMA RestsAwait ==
  ASSUME NEW ch, NEW rows, NEW st, NEW sd, NEW c,
         c.op \in {"idle", "create", "delete", "activate", "forget", "start", "stop", "read"}
  PROVE  Awaits(ch, rows, st, sd, c)
BY DEF Awaits

LEMMA StoredOrIs ==
  ASSUME NEW c, CallOK(c), c.then \in SetThens, NEW ok \in BOOLEAN, NEW y, y = StoredOr(c, ok)
  PROVE  \/ y \in {Idle, Refused}
         \/ ok /\ c.then # "vault only" /\ y.op = "mask" /\ y.id = c.id /\ y.row = c.row
         \/ /\ ~ok /\ c.then # "vault only" /\ y.op = "update" /\ y.id = c.id /\ y.row = c.row /\ y.pwd = c.pwd
<1>1. c \in Callable /\ "mask" \in Ops /\ "update" \in Ops /\ "done" \in Thens
  BY DEF CallOK, Ops, Thens
<1>2. PICK x : x = Follows(c, "mask", "done")
  OBVIOUS
<1>3. x \in Callable /\ x.op = "mask" /\ x.id = c.id /\ x.row = c.row
  BY <1>1, <1>2, FollowsIs
<1>4. PICK z : z = Wrote(x)
  OBVIOUS
<1>5. z.op = "mask" /\ z.id = c.id /\ z.row = c.row
  BY <1>3, <1>4, WroteIs
<1>6. PICK u : u = Follows(c, "update", "done")
  OBVIOUS
<1>7. u.op = "update" /\ u.id = c.id /\ u.row = c.row /\ u.pwd = c.pwd
  BY <1>1, <1>6, FollowsIs
<1>8. \/ y \in {Idle, Refused}
      \/ ok /\ c.then # "vault only" /\ y = z
      \/ ~ok /\ c.then # "vault only" /\ y = u
  BY <1>2, <1>4, <1>6 DEF StoredOr
<1> QED
  BY <1>5, <1>7, <1>8

LEMMA AfterForgetIs ==
  ASSUME NEW c, CallOK(c)
  PROVE  AfterForget(c).op \in {"idle", "delete"}
<1>1. CASE c.then = "delete"
  <2>1. "delete" \in Ops /\ "done" \in Thens /\ c \in Callable
    BY DEF Ops, Thens, CallOK
  <2>2. PICK x : x = Follows(c, "delete", "done")
    OBVIOUS
  <2>3. x \in Callable /\ x.op = "delete"
    BY <2>1, <2>2, FollowsIs
  <2>4. PICK w \in Pwds \cup {None} : w = None
    OBVIOUS
  <2>5. PICK y : y = Given(x, w)
    OBVIOUS
  <2>6. y.op = "delete"
    BY <2>3, <2>5, GivenIs
  <2>7. AfterForget(c) = y
    BY <1>1, <2>2, <2>4, <2>5, Zenon DEF AfterForget
  <2> QED
    BY <2>6, <2>7
<1>2. CASE c.then # "delete"
  <2>1. AfterForget(c) = Idle
    BY <1>2, Zenon DEF AfterForget
  <2> QED
    BY <2>1, RestsOK
<1> QED
  BY <1>1, <1>2

LEMMA SavesIs ==
  ASSUME NEW c, CallOK(c), NEW m \in Map, NEW y, y = Saves(c, m)
  PROVE  /\ y.op = "save" /\ y.id = c.id /\ y.row = c.row /\ y.pwd = c.pwd /\ y.then = c.then
         /\ y.map = m
<1>1. "save" \in Ops /\ c \in Callable
  BY DEF Ops, CallOK
<1>2. PICK x : x = Does(c, "save")
  OBVIOUS
<1>3. /\ x \in Callable /\ x.op = "save" /\ x.id = c.id /\ x.row = c.row /\ x.pwd = c.pwd
      /\ x.then = c.then
  BY <1>1, <1>2, DoesIs
<1>4. y = Maps(x, m)
  BY <1>2 DEF Saves
<1> QED
  BY <1>3, <1>4, MapsIs DEF Map

LEMMA ContinuesIs ==
  ASSUME Good(d), NEW c, CallOK(c), NEW y, y = Continues(c)
  PROVE  \/ y.op \in {"idle", "read"}
         \/ /\ c.op = "create" /\ c.table = "servers" /\ c.pwd # None
            /\ y.op = "set" /\ y.then = "mask" /\ y.id = NewId(d, "servers") /\ y.row = c.row
            /\ y.pwd = c.pwd
<1>1. CASE c.then = "set and mask" /\ c.pwd # None
  <2>1. PICK id \in Nat : id = NewId(d, "servers")
    <3>1. d.next["servers"] \in Nat
      BY TableNames DEF Good, Wellformed
    <3> QED
      BY <3>1 DEF NewId
  <2>2. "set" \in Ops /\ "mask" \in Thens /\ c \in Callable
    BY DEF Ops, Thens, CallOK
  <2>3. PICK x : x = Follows(c, "set", "mask")
    OBVIOUS
  <2>4. x \in Callable /\ x.op = "set" /\ x.row = c.row /\ x.then = "mask" /\ x.pwd = c.pwd
    BY <2>2, <2>3, FollowsIs
  <2>5. PICK z : z = Wrote(x)
    OBVIOUS
  <2>6. z \in Callable /\ z.op = "set" /\ z.row = c.row /\ z.then = "mask" /\ z.pwd = c.pwd
    BY <2>4, <2>5, WroteIs
  <2>7. y = On(z, id)
    BY <1>1, <2>1, <2>3, <2>5, Zenon DEF Continues
  <2>8. y.op = "set" /\ y.row = c.row /\ y.then = "mask" /\ y.pwd = c.pwd /\ y.id = id
    BY <2>6, <2>7, OnIs
  <2>9. c.op = "create" /\ c.table = "servers"
    BY <1>1 DEF CallOK
  <2> QED
    BY <1>1, <2>1, <2>8, <2>9
<1>2. CASE ~(c.then = "set and mask" /\ c.pwd # None)
  <2>1. y \in {ReadCall(c), Idle}
    BY <1>2, Zenon DEF Continues
  <2> QED
    BY <2>1, ReadCallOK, RestsOK
<1> QED
  BY <1>1, <1>2

----------------------------------------------------------------------------
\* The steps of the one person.

LEMMA Facts ==
  ASSUME Fine, Guarded, Undisturbed
  PROVE  /\ Chain[world] \in Fronts /\ said \in [Names -> Pwds \cup {None, Gone}]
         /\ Differ(d.rows["servers"]) /\ Safe(Chain[world], d.rows["servers"], store, said)
         /\ \A p \in Clients : /\ Awaits(Chain[world], d.rows["servers"], store, said, client[p])
                               /\ client[p].op # "idle" => Quota[world][p] > 0
         /\ d.rows["servers"] = [i \in DOMAIN d.rows["servers"] |-> d.rows["servers"][i]]
         /\ \A i \in DOMAIN d.rows["servers"] : /\ d.rows["servers"][i] \in Rows
                                                /\ d.rows["servers"][i].name \in Names
<1>1. Lone(Chain[world], d.rows["servers"], store, said, client, Quota[world])
  BY UndisturbedIs
<1>2. TableOK("servers", d.rows["servers"], d.next["servers"])
  BY HasParts, TableNames DEF Fine, Good, Shaped
<1> QED
  BY <1>1, <1>2 DEF Lone, Guarded, TableOK

LEMMA Alter ==
  ASSUME Fine, Guarded, Undisturbed, NEW p \in Clients, UNCHANGED world, Quota[world][p] > 0,
         NEW c, client' = [client EXCEPT ![p] = c], said' \in [Names -> Pwds \cup {None, Gone}],
         Differ(d'.rows["servers"]), Safe(Chain[world], d'.rows["servers"], store', said'),
         Awaits(Chain[world], d'.rows["servers"], store', said', c)
  PROVE  Undisturbed'
<1>1. Lone(Chain[world], d.rows["servers"], store, said, client, Quota[world])
  BY UndisturbedIs
<1>2. client = [q \in Clients |-> client[q]]
  BY DEF Fine
<1>3. \A q \in Clients : Quota[world][p] > 0 /\ Quota[world][q] > 0 => p = q
  BY DEF Guarded, OnePerson
<1>4. Lone(Chain[world], d'.rows["servers"], store', said', [client EXCEPT ![p] = c], Quota[world])
  BY <1>1, <1>2, <1>3, LoneMoves
<1>5. Lone(Chain[world'], d'.rows["servers"], store', said', client', Quota[world'])
  BY <1>4
<1>6. Guarded'
  BY DEF Guarded, Alone, OnePerson
<1> QED
  BY <1>5, <1>6, UndisturbedNext

\* A step that leaves the servers, the stores and what was said alone.
LEMMA AlterCall ==
  ASSUME Fine, Guarded, Undisturbed, NEW p \in Clients, UNCHANGED <<world, store, said>>,
         Alike(d.rows["servers"], d'.rows["servers"]), Quota[world][p] > 0,
         NEW c, client' = [client EXCEPT ![p] = c],
         Awaits(Chain[world], d'.rows["servers"], store, said, c)
  PROVE  Undisturbed'
<1>1. Differ(d'.rows["servers"]) /\ Safe(Chain[world], d'.rows["servers"], store, said)
  BY Facts, AlikeSafe
<1> QED
  BY <1>1, Facts, Alter

LEMMA RequestUndisturbed ==
  ASSUME Fine, Guarded, Undisturbed, NEW p \in Clients, Requested(p)
  PROVE  Undisturbed'
<1>1. left[p] > 0 /\ UNCHANGED <<world, d, store, said>>
  BY DEF Requested, Ready
<1>2. PICK c : Aimed(c) /\ client' = [client EXCEPT ![p] = c]
  BY DEF Requested, Asks
<1>3. Quota[world][p] > 0
  <2>1. Quota[world][p] \in Nat /\ left[p] \in 0..Quota[world][p]
    BY RegistryAssumption DEF Fine
  <2> QED
    BY <1>1, <2>1
<1>4. Awaits(Chain[world], d'.rows["servers"], store, said, c)
  BY <1>1, <1>2 DEF Aimed, Awaits, Stands, Points, Live, At, Guarded, Alone
<1>5. Alike(d.rows["servers"], d'.rows["servers"])
  BY <1>1 DEF Alike
<1> QED
  BY <1>1, <1>2, <1>3, <1>4, <1>5, AlterCall

----------------------------------------------------------------------------
LEMMA CallHere ==
  ASSUME Fine, Guarded, Undisturbed, NEW p \in Clients, NEW c, c = client[p], c.op # "idle"
  PROVE  /\ CallOK(c) /\ c \in Callable /\ Quota[world][p] > 0
         /\ Awaits(Chain[world], d.rows["servers"], store, said, c)
<1>1. CallOK(c)
  BY DEF Fine
<1>2. Quota[world][p] > 0 /\ Awaits(Chain[world], d.rows["servers"], store, said, c)
  <2>1. \A q \in Clients : /\ Awaits(Chain[world], d.rows["servers"], store, said, client[q])
                           /\ client[q].op # "idle" => Quota[world][q] > 0
    BY Facts
  <2> QED
    BY <2>1
<1> QED
  BY <1>1, <1>2 DEF CallOK

LEMMA StatementUndisturbed ==
  ASSUME Fine, Guarded, Undisturbed, NEW p \in Clients, Statement(p)
  PROVE  Undisturbed'
<1> DEFINE ch == Chain[world]
           rows == d.rows["servers"]
<1>1. PICK c : c = client[p]
  OBVIOUS
<1>2. PICK k \in BOOLEAN : k = (p \in ForeignKeys[world])
  <2>1. (p \in ForeignKeys[world]) \in BOOLEAN
    OBVIOUS
  <2> QED
    BY <2>1, Zenon
<1>3. PICK r : r = Do(k, c)
  OBVIOUS
<1>4. PICK c2 : c2 = IF r.ok THEN Continues(c) ELSE Refused
  OBVIOUS
<1>5. PICK n : n = c.row.name
  OBVIOUS
<1>6. /\ c.op \in Writing /\ d' = r.db
      /\ client' = [client EXCEPT ![p] = c2]
      /\ UNCHANGED <<world, store, running, left>>
  BY <1>1, <1>2, <1>3, <1>4 DEF Statement, Busy, Writing
<1>7. /\ CallOK(c) /\ c \in Callable /\ Quota[world][p] > 0 /\ Awaits(ch, rows, store, said, c)
  BY <1>1, <1>6, CallHere DEF Writing
<1>8. IF r.ok /\ c.table = "servers" /\ (c.op = "create" => Effective(n) = None)
         /\ (c.op = "create" \/ (c.op = "update" /\ c.pwd # None))
      THEN Says(n, c.pwd)
      ELSE IF c.op = "delete" /\ c.table = "servers" /\ c.id \in Live(d, "servers")
      THEN Says(At("servers", c.id).name, None)
      ELSE UNCHANGED said
  BY <1>1, <1>2, <1>3, <1>5 DEF Statement
<1>9. /\ ch \in Fronts /\ said \in [Names -> Pwds \cup {None, Gone}] /\ Differ(rows)
      /\ Safe(ch, rows, store, said) /\ rows = [i \in DOMAIN rows |-> rows[i]] /\ Good(d)
      /\ \A i \in DOMAIN rows : rows[i] \in Rows /\ rows[i].name \in Names
  BY Facts DEF Fine
<1>10. \/ c2.op \in {"idle", "read"}
       \/ /\ r.ok /\ c.op = "create" /\ c.table = "servers" /\ c.pwd # None
          /\ c2.op = "set" /\ c2.then = "mask" /\ c2.id = NewId(d, "servers") /\ c2.row = c.row
          /\ c2.pwd = c.pwd
  BY <1>4, <1>7, <1>9, ContinuesIs, RestsOK
<1>11. ASSUME NEW rows2, NEW sd2, c2.op \in {"idle", "read"}
       PROVE  Awaits(ch, rows2, store, sd2, c2)
  BY <1>11, RestsAwait
<1>12. ASSUME Alike(rows, d'.rows["servers"]), said' = said, c2.op \in {"idle", "read"}
       PROVE  Undisturbed'
  <2>1. Awaits(Chain[world], d'.rows["servers"], store, said, c2)
    BY <1>11, <1>12
  <2>2. UNCHANGED <<world, store, said>>
    BY <1>6, <1>12
  <2> QED
    BY <1>6, <1>7, <1>12, <2>1, <2>2, AlterCall
<1>13. ASSUME said' \in [Names -> Pwds \cup {None, Gone}], Differ(d'.rows["servers"]),
              Safe(ch, d'.rows["servers"], store, said'), Awaits(ch, d'.rows["servers"], store, said', c2)
       PROVE  Undisturbed'
  BY <1>6, <1>7, <1>13, Alter
<1>14. CASE c.op # "mask" /\ (c.op = "activate" \/ c.table # "servers")
  <2>1. Alike(rows, d'.rows["servers"])
    BY <1>3, <1>6, <1>7, <1>9, <1>14, OthersAlike
  <2>2. said' = said
    BY <1>8, <1>14
  <2>3. c2.op \in {"idle", "read"}
    BY <1>10, <1>14
  <2> QED
    BY <1>12, <2>1, <2>2, <2>3
<1>15. ASSUME ~r.ok, r.db = d, c.op # "delete"
       PROVE  Undisturbed'
  <2>1. Alike(rows, d'.rows["servers"])
    BY <1>6, <1>15 DEF Alike
  <2>2. said' = said
    BY <1>8, <1>15
  <2>3. c2.op \in {"idle", "read"}
    BY <1>4, <1>15, RestsOK
  <2> QED
    BY <1>12, <2>1, <2>2, <2>3
<1>16. CASE c.op = "create" /\ c.table = "servers"
  <2> DEFINE id == NewId(d, "servers")
  <2>1. \/ ~r.ok /\ r.db = d
        \/ /\ r.ok /\ \A i \in DOMAIN rows : rows[i].name # n
           /\ id \notin DOMAIN rows /\ id # 0
           /\ \E row : row.name = n /\ row.pwd = c.pwd /\ r.db.rows["servers"] = With(rows, id, row)
    BY <1>3, <1>5, <1>7, <1>9, <1>16, ServerAdded
  <2>2. CASE ~r.ok /\ r.db = d
    BY <1>15, <1>16, <2>2
  <2>3. CASE r.ok
    <3>1. PICK row : row.name = n /\ row.pwd = c.pwd /\ r.db.rows["servers"] = With(rows, id, row)
      BY <2>1, <2>3
    <3>2. n \in Names /\ c.pwd \in Pwds \cup {None}
      BY <1>5, <1>7, <1>16 DEF CallOK, Callable
    <3>3. said' = IF FirstOf(ch, Has(rows, store, n)) = None THEN [said EXCEPT ![n] = c.pwd] ELSE said
      BY <1>8, <1>16, <2>3, <3>2, EffectiveIs DEF Says
    <3>4. /\ Differ(With(rows, id, row)) /\ Safe(ch, With(rows, id, row), store, said')
          /\ said' \in [Names -> Pwds \cup {None, Gone}]
      <4> HIDE DEF ch, rows, id
      <4> QED
        BY <1>9, <2>1, <2>3, <3>1, <3>2, <3>3, SafeAdded
    <3>5. Awaits(ch, With(rows, id, row), store, said', c2)
      <4>1. CASE c2.op \in {"idle", "read"}
        BY <1>11, <4>1
      <4>2. CASE /\ c2.op = "set" /\ c2.then = "mask" /\ c2.id = id /\ c2.row = c.row
                 /\ c2.pwd = c.pwd /\ c.pwd # None
        <5>1. Points(With(rows, id, row), c2)
          <6> HIDE DEF rows, id
          <6> QED
            BY <1>5, <3>1, <4>2 DEF Points, With
        <5> HIDE DEF rows, id, ch
        <5> QED
          BY <2>1, <2>3, <4>2, <5>1 DEF Awaits
      <4> QED
        BY <1>10, <4>1, <4>2
    <3> QED
      BY <1>6, <1>13, <3>1, <3>4, <3>5
  <2> QED
    BY <2>1, <2>2, <2>3
<1>17. CASE c.op = "update" /\ c.table = "servers"
  <2>1. Points(rows, c) /\ (c.pwd # None => Head(ch) = "keychain")
    BY <1>7, <1>17 DEF Awaits
  <2>2. \/ ~r.ok /\ r.db = d
        \/ r.ok /\ SavedAs(c, rows, r.db.rows["servers"])
    BY <1>3, <1>7, <1>9, <1>17, <2>1, ServerSaved
  <2>3. CASE ~r.ok /\ r.db = d
    BY <1>15, <1>17, <2>3
  <2>4. CASE r.ok
    <3>1. PICK row : /\ row.name = n /\ (c.pwd # None => row.pwd = c.pwd)
                     /\ (c.pwd = None => row.pwd = rows[c.id].pwd)
                     /\ r.db.rows["servers"] = [rows EXCEPT ![c.id] = row]
      BY <1>5, <2>2, <2>4 DEF SavedAs
    <3>2. n \in Names /\ c.pwd \in Pwds \cup {None} /\ c.id \in DOMAIN rows /\ rows[c.id].name = n
      BY <1>5, <1>7, <1>17, <2>1 DEF CallOK, Callable, Points
    <3>3. said' = IF c.pwd # None THEN [said EXCEPT ![n] = c.pwd] ELSE said
      BY <1>8, <1>17, <2>4, <3>2 DEF Says
    <3>4. said' \in [Names -> Pwds \cup {None, Gone}] /\ \A m \in Names \ {row.name} : said'[m] = said[m]
      BY <1>9, <3>1, <3>2, <3>3
    <3>5. \/ said' = said /\ row.pwd = rows[c.id].pwd
          \/ said'[row.name] = row.pwd /\ row.pwd \in Pwds /\ Head(ch) = "keychain"
      BY <1>9, <2>1, <3>1, <3>2, <3>3
    <3>6. Differ([rows EXCEPT ![c.id] = row]) /\ Safe(ch, [rows EXCEPT ![c.id] = row], store, said')
      <4> HIDE DEF rows, ch
      <4> QED
        BY <1>9, <3>1, <3>2, <3>4, <3>5, SafePut
    <3>7. c2.op \in {"idle", "read"}
      BY <1>10, <1>17
    <3> QED
      BY <1>6, <1>11, <1>13, <3>1, <3>4, <3>6, <3>7
  <2> QED
    BY <2>2, <2>3, <2>4
<1>18. CASE c.op = "delete" /\ c.table = "servers"
  <2>1. r.ok /\ r.db.rows["servers"] = Without(rows, {c.id})
    BY <1>3, <1>7, <1>9, <1>18, ServerDeleted
  <2>2. said' = IF c.id \in DOMAIN rows THEN [said EXCEPT ![rows[c.id].name] = None] ELSE said
    BY <1>8, <1>9, <1>18 DEF Says, Live, At
  <2>3. /\ said' \in [Names -> Pwds \cup {None, Gone}]
        /\ c.id \in DOMAIN rows => said'[rows[c.id].name] = None
        /\ \A m \in Names : (c.id \in DOMAIN rows /\ m = rows[c.id].name) \/ said'[m] = said[m]
    <3> HIDE DEF rows
    <3> QED
      BY <1>9, <2>2
  <2>4. Differ(Without(rows, {c.id})) /\ Safe(ch, Without(rows, {c.id}), store, said')
    <3> HIDE DEF rows, ch
    <3> QED
      BY <1>9, <2>3, SafeWithout
  <2>5. c2.op \in {"idle", "read"}
    BY <1>10, <1>18
  <2> QED
    BY <1>6, <1>11, <1>13, <2>1, <2>3, <2>4, <2>5
<1>19. CASE c.op = "mask"
  <2>1. Points(rows, c) /\ said[n] # None /\ store[Head(ch)][n] = said[n]
    BY <1>5, <1>7, <1>19 DEF Awaits
  <2>2. r.ok /\ MaskedAs(c, rows, r.db.rows["servers"])
    BY <1>3, <1>7, <1>9, <1>19, <2>1, ServerMasked
  <2>3. PICK row : row.name = n /\ row.pwd = Hidden /\ r.db.rows["servers"] = [rows EXCEPT ![c.id] = row]
    BY <1>5, <2>2 DEF MaskedAs
  <2>4. said' = said
    BY <1>8, <1>19
  <2>5. c.id \in DOMAIN rows /\ rows[c.id].name = n
    BY <1>5, <2>1 DEF Points
  <2>6. Differ([rows EXCEPT ![c.id] = row]) /\ Safe(ch, [rows EXCEPT ![c.id] = row], store, said')
    <3> HIDE DEF rows, ch
    <3> QED
      BY <1>9, <2>1, <2>3, <2>4, <2>5, SafePut
  <2>7. c2.op \in {"idle", "read"}
    BY <1>10, <1>19
  <2> QED
    BY <1>6, <1>9, <1>11, <1>13, <2>3, <2>4, <2>6, <2>7
<1> QED
  BY <1>6, <1>14, <1>16, <1>17, <1>18, <1>19 DEF Writing

----------------------------------------------------------------------------
LEMMA BackendsAre ==
  ASSUME Chain[world] \in Fronts, NEW c
  PROVE  BackendsOf(c) # <<>> /\ Head(BackendsOf(c)) = Head(Chain[world]) /\ Head(Chain[world]) \in Stores
<1> DEFINE ch == Chain[world]
<1>1. Head(ch) \in Stores /\ ch # <<>> /\ ch \in Seq(Backends) /\ Head(ch) = ch[1]
  BY FrontsAre
<1>2. Len(ch) \in Nat /\ Len(ch) > 1
  <2>1. CASE ch = <<"keychain", "plaintext">> \/ ch = <<"age", "plaintext">>
    BY <2>1
  <2>2. CASE ch = <<"keychain", "age", "plaintext">>
    BY <2>2
  <2> QED
    BY <2>1, <2>2, FrontsAre
<1>3. BackendsOf(c) = IF c.id = 0 THEN SubSeq(ch, 1, Len(ch) - 1) ELSE ch
  BY DEF BackendsOf, Front
<1> HIDE DEF ch
<1>4. SubSeq(ch, 1, Len(ch) - 1) # <<>> /\ Head(SubSeq(ch, 1, Len(ch) - 1)) = ch[1]
  <2>1. PICK k \in Int : k = Len(ch) - 1 /\ 1 <= k
    BY <1>2
  <2>2. \A i \in 1..k : ch[i] \in Backends
    BY <1>1, <1>2, <2>1
  <2>3. PICK s : s = SubSeq(ch, 1, k)
    OBVIOUS
  <2>4. s \in Seq(Backends) /\ Len(s) = k - 1 + 1 /\ \A i \in 1..(k - 1 + 1) : s[i] = ch[1 + i - 1]
    BY <2>1, <2>2, <2>3, SubSeqProperties
  <2>5. s # <<>> /\ Head(s) = s[1] /\ s[1] = ch[1]
    BY <2>1, <2>4
  <2> QED
    BY <2>1, <2>3, <2>5
<1> QED
  BY <1>1, <1>3, <1>4 DEF ch

\* A new password in a store, or none.
Put(st, b, n, w) == [st EXCEPT ![b] = [st[b] EXCEPT ![n] = w]]
LEMMA StorePut ==
  ASSUME NEW st \in [Stores -> Map], NEW b \in Stores, NEW n \in Names, NEW w,
         NEW st2, st2 = Put(st, b, n, w)
  PROVE  StoresBut(n, st, st2) /\ st2[b][n] = w
BY DEF StoresBut, Map, Put

Told(sd, n, w) == [sd EXCEPT ![n] = w]
Sound(ch, rows, st, sd) ==
  /\ ch \in Fronts /\ st \in [Stores -> Map] /\ sd \in [Names -> Pwds \cup {None, Gone}]
  /\ Safe(ch, rows, st, sd) /\ Differ(rows)
LEMMA SafeStored ==
  ASSUME NEW ch, NEW rows, NEW st, NEW sd, Sound(ch, rows, st, sd), NEW b \in Stores, NEW n \in Names,
         NEW w \in Pwds \cup {None}, NEW st2, st2 = Put(st, b, n, w),
         NEW sd2, sd2 = Told(sd, n, w), w = None \/ b = Head(ch)
  PROVE  /\ Safe(ch, rows, st2, sd2) /\ sd2 \in [Names -> Pwds \cup {None, Gone}] /\ sd2[n] = w
         /\ st2[b][n] = w
<1> USE DEF Sound
<1>1. StoresBut(n, st, st2) /\ st2[b][n] = w
  BY StorePut
<1>2. sd2 \in [Names -> Pwds \cup {None, Gone}] /\ sd2[n] = w /\ SaidBut(n, sd, sd2)
  BY DEF SaidBut, Told
<1>3. RowsBut(n, rows, rows)
  BY DEF RowsBut
<1>4. w # None => KeptIn(ch, Has(rows, st2, n), w)
  <2>1. w # None => Has(rows, st2, n)[Head(ch)] = w
    BY <1>1, FrontsAre DEF Has, Stores
  <2> QED
    BY <2>1, KeptFront
<1> QED
  BY <1>1, <1>2, <1>3, <1>4, SafeBut

LEMMA SoundStored ==
  ASSUME NEW ch, NEW rows, NEW st, NEW sd, Sound(ch, rows, st, sd), NEW b \in Stores, NEW n \in Names,
         NEW w \in Pwds \cup {None}, w = None \/ b = Head(ch)
  PROVE  Sound(ch, rows, Put(st, b, n, w), Told(sd, n, w)) /\ Told(sd, n, w)[n] = w /\ Put(st, b, n, w)[b][n] = w
<1>1. PICK st2, sd2 : st2 = Put(st, b, n, w) /\ sd2 = Told(sd, n, w)
  OBVIOUS
<1>2. /\ Safe(ch, rows, st2, sd2) /\ sd2 \in [Names -> Pwds \cup {None, Gone}] /\ sd2[n] = w
      /\ st2[b][n] = w
  BY <1>1, SafeStored
<1>3. st2 \in [Stores -> Map]
  BY <1>1 DEF Sound, Put, Map
<1> QED
  BY <1>1, <1>2, <1>3 DEF Sound

\* The keychain takes the new password, or not.
LEMMA KeychainRefuses ==
  ASSUME Fine, Guarded, Undisturbed, NEW p \in Clients, NEW c, c = client[p], c.op \in {"set", "add"},
         Head(Chain[world]) = "keychain", client' = [client EXCEPT ![p] = StoredOr(c, FALSE)],
         UNCHANGED <<world, d, store, said>>
  PROVE  Undisturbed'
<1> DEFINE ch == Chain[world]
           rows == d.rows["servers"]
<1>1. /\ CallOK(c) /\ Quota[world][p] > 0 /\ Awaits(ch, rows, store, said, c)
  BY CallHere
<1>2. c.then \in SetThens
  BY <1>1 DEF CallOK, SetThens
<1>3. (c.id = 0 <=> c.then = "vault only") /\ (c.id # 0 => Points(rows, c))
  BY <1>1 DEF Awaits
<1>4. PICK c2 : c2 = StoredOr(c, FALSE)
  OBVIOUS
<1>5. \/ c2 \in {Idle, Refused}
      \/ c.then # "vault only" /\ c2.op = "update" /\ c2.id = c.id /\ c2.row = c.row /\ c2.pwd = c.pwd
  BY <1>1, <1>2, <1>4, StoredOrIs
<1>6. Awaits(ch, rows, store, said, c2)
  <2>1. CASE c2 \in {Idle, Refused}
    BY <2>1, RestsOK, RestsAwait
  <2>2. CASE c.then # "vault only" /\ c2.op = "update" /\ c2.id = c.id /\ c2.row = c.row
    <3>1. Points(rows, c2)
      BY <1>3, <2>2 DEF Points
    <3>2. Head(ch) = "keychain"
      OBVIOUS
    <3> HIDE DEF rows, ch
    <3> QED
      BY <2>2, <3>1, <3>2 DEF Awaits
  <2> QED
    BY <1>5, <2>1, <2>2
<1>7. Alike(rows, d'.rows["servers"])
  BY DEF Alike
<1> QED
  BY <1>1, <1>4, <1>6, <1>7, AlterCall

LEMMA KeychainStores ==
  ASSUME Fine, Guarded, Undisturbed, NEW p \in Clients, NEW c, c = client[p], c.op \in {"set", "add"},
         NEW n, n = c.row.name, Head(Chain[world]) = "keychain",
         store' = Put(store, "keychain", n, c.pwd),
         client' = [client EXCEPT ![p] = StoredOr(c, TRUE)],
         Says(n, c.pwd), UNCHANGED <<world, d>>
  PROVE  Undisturbed'
<1> DEFINE ch == Chain[world]
           rows == d.rows["servers"]
<1>1. /\ CallOK(c) /\ Quota[world][p] > 0 /\ Awaits(ch, rows, store, said, c)
  BY CallHere
<1>2. n \in Names /\ c.then \in SetThens /\ c.pwd \in Pwds \cup {None}
  BY <1>1, CallFields DEF CallOK, SetThens
<1>3. c.pwd # None /\ (c.id = 0 <=> c.then = "vault only") /\ (c.id # 0 => Points(rows, c))
  BY <1>1 DEF Awaits
<1>4. /\ ch \in Fronts /\ said \in [Names -> Pwds \cup {None, Gone}] /\ Differ(rows)
      /\ Safe(ch, rows, store, said) /\ store \in [Stores -> Map]
  BY Facts DEF Fine
<1>5. said' = [said EXCEPT ![n] = c.pwd]
  BY <1>2 DEF Says
<1>6. /\ Safe(ch, rows, store', said') /\ said' \in [Names -> Pwds \cup {None, Gone}] /\ said'[n] = c.pwd
      /\ store'["keychain"][n] = c.pwd
  <2>1. "keychain" \in Stores
    BY DEF Stores, Backends
  <2>2. PICK w \in Pwds \cup {None}, b \in Stores : w = c.pwd /\ b = "keychain"
    BY <1>2, <2>1
  <2>3. store' = Put(store, b, n, w) /\ said' = Told(said, n, w) /\ (w = None \/ b = Head(ch))
    BY <1>5, <2>2 DEF Told
  <2>4. Sound(ch, rows, store', said') /\ said'[n] = w /\ store'[b][n] = w
    <3>1. Sound(ch, rows, store, said)
      BY <1>4 DEF Sound
    <3> QED
      BY <1>2, <2>3, <3>1, SoundStored
  <2> QED
    BY <2>2, <2>4 DEF Sound
<1>7. PICK c2 : c2 = StoredOr(c, TRUE)
  OBVIOUS
<1>8. \/ c2 \in {Idle, Refused}
      \/ c.then # "vault only" /\ c2.op = "mask" /\ c2.id = c.id /\ c2.row = c.row
  BY <1>1, <1>2, <1>7, StoredOrIs
<1>9. Awaits(ch, rows, store', said', c2)
  <2>1. CASE c2 \in {Idle, Refused}
    BY <2>1, RestsOK, RestsAwait
  <2>2. CASE c.then # "vault only" /\ c2.op = "mask" /\ c2.id = c.id /\ c2.row = c.row
    <3>1. Points(rows, c2)
      BY <1>3, <2>2 DEF Points
    <3>2. Head(ch) = "keychain"
      OBVIOUS
    <3> HIDE DEF rows, ch
    <3> QED
      BY <1>3, <1>6, <2>2, <3>1, <3>2 DEF Awaits
  <2> QED
    BY <1>8, <2>1, <2>2
<1> QED
  BY <1>1, <1>4, <1>6, <1>7, <1>9, Alter

\* A keychain drops what it holds: of a password that was the last given nothing more
\* is claimed, any other is where it was.
LEMMA DropSafe ==
  ASSUME NEW ch, NEW rows, NEW st, NEW sd, Sound(ch, rows, st, sd), Head(ch) = "keychain",
         NEW b \in Stores, b = "keychain", NEW n \in Names, NEW w \in Pwds \cup {None},
         NEW sd2, sd2 = IF sd[n] = st[b][n] THEN Told(sd, n, Gone) ELSE sd
  PROVE  Safe(ch, rows, Put(st, b, n, w), sd2) /\ sd2 \in [Names -> Pwds \cup {None, Gone}]
<1> USE DEF Sound
<1>1. PICK st2 : st2 = Put(st, b, n, w)
  OBVIOUS
<1>2. StoresBut(n, st, st2) /\ \A s \in Stores \ {b} : st2[s][n] = st[s][n]
  BY <1>1 DEF StoresBut, Map, Put
<1>3. sd2 \in [Names -> Pwds \cup {None, Gone}] /\ SaidBut(n, sd, sd2)
  BY DEF SaidBut, Told
<1>4. RowsBut(n, rows, rows)
  BY DEF RowsBut
<1>5. sd2[n] \notin {None, Gone} => KeptIn(ch, Has(rows, st2, n), sd2[n])
  <2>1. SUFFICES ASSUME sd2[n] \notin {None, Gone}
                 PROVE  KeptIn(ch, Has(rows, st2, n), sd2[n])
    OBVIOUS
  <2>2. sd2[n] = sd[n] /\ sd[n] # st[b][n]
    BY <2>1 DEF Told
  <2> DEFINE e == Has(rows, st, n)
             e2 == Has(rows, st2, n)
  <2>3. KeptIn(ch, e, sd[n])
    BY <2>1, <2>2 DEF Safe
  <2>4. e["keychain"] = st[b][n] /\ \A x \in Backends \ {"keychain"} : e2[x] = e[x]
    BY <1>2 DEF Has, Stores, Backends
  <2>5. \A j \in DOMAIN ch : ch[j] \in Backends
    BY FrontsAre
  <2> HIDE DEF e, e2
  <2>6. PICK j \in DOMAIN ch : sd[n] = e[ch[j]]
    BY <2>3 DEF KeptIn
  <2>7. sd[n] = e2[ch[j]]
    BY <2>2, <2>4, <2>5, <2>6
  <2>8. KeptIn(ch, e2, sd2[n])
    BY <2>2, <2>7 DEF KeptIn
  <2> QED
    BY <2>8 DEF e2
<1> QED
  BY <1>1, <1>2, <1>3, <1>4, <1>5, SafeBut

LEMMA AddCallIs ==
  ASSUME NEW c, CallOK(c), NEW y, y \in {Does(c, "add"), Wrote(Does(c, "add"))}
  PROVE  y.op = "add" /\ y.id = c.id /\ y.row = c.row /\ y.pwd = c.pwd /\ y.then = c.then
<1>1. "add" \in Ops /\ c \in Callable
  BY DEF Ops, CallOK
<1>2. PICK x : x = Does(c, "add")
  OBVIOUS
<1>3. /\ x \in Callable /\ x.op = "add" /\ x.id = c.id /\ x.row = c.row /\ x.pwd = c.pwd
      /\ x.then = c.then
  BY <1>1, <1>2, DoesIs
<1>4. PICK z : z = Wrote(x)
  OBVIOUS
<1>5. z.op = "add" /\ z.id = c.id /\ z.row = c.row /\ z.pwd = c.pwd /\ z.then = c.then
  BY <1>3, <1>4, WroteIs
<1>6. y \in {x, z}
  BY <1>2, <1>4
<1> QED
  BY <1>3, <1>5, <1>6

LEMMA ChainSetUndisturbed ==
  ASSUME Fine, Guarded, Undisturbed, NEW p \in Clients, ChainSet(p)
  PROVE  Undisturbed'
<1> DEFINE ch == Chain[world]
           rows == d.rows["servers"]
<1>1. PICK c : c = client[p]
  OBVIOUS
<1>2. PICK n : n = c.row.name
  OBVIOUS
<1>3. c.op = "set" /\ UNCHANGED <<world, running, left>>
  BY <1>1 DEF ChainSet, Busy
<1>4. /\ CallOK(c) /\ Quota[world][p] > 0 /\ Awaits(ch, rows, store, said, c)
  BY <1>1, <1>3, CallHere
<1>5. /\ n \in Names /\ c.then \in SetThens /\ c.pwd \in Pwds \cup {None}
  BY <1>2, <1>3, <1>4, CallFields DEF CallOK, SetThens
<1>6. c.pwd # None /\ (c.id = 0 <=> c.then = "vault only") /\ (c.id # 0 => Points(rows, c))
  BY <1>3, <1>4 DEF Awaits
<1>7. /\ ch \in Fronts /\ said \in [Names -> Pwds \cup {None, Gone}] /\ Differ(rows)
      /\ Safe(ch, rows, store, said) /\ store \in [Stores -> Map]
  BY Facts DEF Fine
<1>8. BackendsOf(c) # <<>> /\ Head(BackendsOf(c)) = Head(ch) /\ Head(ch) \in Stores
  BY <1>7, BackendsAre
<1>9. \/ /\ Head(ch) = "keychain"
         /\ client' = [client EXCEPT ![p] = StoredOr(c, FALSE)]
         /\ UNCHANGED <<d, store, said>>
      \/ /\ Head(ch) = "keychain"
         /\ store' = Put(store, "keychain", n, c.pwd)
         /\ client' = [client EXCEPT ![p] = StoredOr(c, TRUE)]
         /\ Says(n, c.pwd) /\ UNCHANGED d
      \/ /\ Head(ch) = "age"
         /\ client' = [client EXCEPT ![p] = Saves(c, [store["age"] EXCEPT ![n] = c.pwd])]
         /\ UNCHANGED <<d, store, said>>
      \/ /\ Head(ch) = "keychain"
         /\ client' = [client EXCEPT ![p] = Does(c, "add")]
         /\ UNCHANGED <<d, store, said>>
      \/ /\ Head(ch) = "keychain"
         /\ store' = Put(store, "keychain", n, None)
         /\ client' = [client EXCEPT ![p] = Wrote(Does(c, "add"))]
         /\ IF said[n] = store["keychain"][n] THEN Says(n, Gone) ELSE UNCHANGED said
         /\ UNCHANGED d
  <2>1. Head(ch) # "plaintext"
    BY <1>8 DEF Stores
  <2> HIDE DEF ch
  <2> QED
    BY <1>1, <1>2, <1>8, <2>1 DEF ChainSet, Put
<1>10. CASE /\ Head(ch) = "keychain"
            /\ client' = [client EXCEPT ![p] = StoredOr(c, FALSE)]
            /\ UNCHANGED <<d, store, said>>
  BY <1>1, <1>3, <1>10, KeychainRefuses
<1>11. CASE /\ Head(ch) = "keychain"
            /\ store' = Put(store, "keychain", n, c.pwd)
            /\ client' = [client EXCEPT ![p] = StoredOr(c, TRUE)]
            /\ Says(n, c.pwd) /\ UNCHANGED d
  BY <1>1, <1>2, <1>3, <1>11, KeychainStores
<1>12. CASE /\ Head(ch) = "age"
            /\ client' = [client EXCEPT ![p] = Saves(c, [store["age"] EXCEPT ![n] = c.pwd])]
            /\ UNCHANGED <<d, store, said>>
  <2>1. PICK m \in Map : m = [store["age"] EXCEPT ![n] = c.pwd]
    BY <1>5, <1>7 DEF Map, Stores, Backends
  <2>2. PICK c2 : c2 = Saves(c, m)
    OBVIOUS
  <2>3. /\ c2.op = "save" /\ c2.id = c.id /\ c2.row = c.row /\ c2.pwd = c.pwd /\ c2.then = c.then
        /\ c2.map = m
    BY <1>4, <2>2, SavesIs
  <2>4. c.id # 0 => Points(rows, c2)
    BY <1>6, <2>3 DEF Points
  <2>5. c.then \notin {"delete", "done"}
    BY <1>5 DEF SetThens
  <2>6. Awaits(ch, rows, store, said, c2)
    <3> HIDE DEF rows, ch
    <3> QED
      BY <1>2, <1>6, <1>12, <2>1, <2>3, <2>4, <2>5 DEF Awaits
  <2>7. Alike(rows, d'.rows["servers"])
    BY <1>12 DEF Alike
  <2> QED
    BY <1>3, <1>4, <1>12, <2>1, <2>2, <2>6, <2>7, AlterCall
<1>13. ASSUME Head(ch) = "keychain", NEW c2 \in {Does(c, "add"), Wrote(Does(c, "add"))}, NEW st2, NEW sd2
       PROVE  Awaits(ch, rows, st2, sd2, c2)
  <2>1. c2.op = "add" /\ c2.id = c.id /\ c2.row = c.row /\ c2.pwd = c.pwd /\ c2.then = c.then
    BY <1>4, <1>13, AddCallIs
  <2>2. c.id # 0 => Points(rows, c2)
    BY <1>6, <2>1 DEF Points
  <2>3. Head(ch) = "keychain"
    BY <1>13
  <2> HIDE DEF rows, ch
  <2> QED
    BY <1>6, <2>1, <2>2, <2>3 DEF Awaits
<1>14. CASE /\ Head(ch) = "keychain"
            /\ client' = [client EXCEPT ![p] = Does(c, "add")]
            /\ UNCHANGED <<d, store, said>>
  <2>1. PICK c2 : c2 = Does(c, "add")
    OBVIOUS
  <2>2. Awaits(ch, rows, store, said, c2)
    BY <1>13, <1>14, <2>1
  <2>3. Alike(rows, d'.rows["servers"])
    BY <1>14 DEF Alike
  <2> QED
    BY <1>3, <1>4, <1>14, <2>1, <2>2, <2>3, AlterCall
<1>15. CASE /\ Head(ch) = "keychain"
            /\ store' = Put(store, "keychain", n, None)
            /\ client' = [client EXCEPT ![p] = Wrote(Does(c, "add"))]
            /\ IF said[n] = store["keychain"][n] THEN Says(n, Gone) ELSE UNCHANGED said
            /\ UNCHANGED d
  <2>1. PICK c2 : c2 = Wrote(Does(c, "add"))
    OBVIOUS
  <2>2. Awaits(ch, rows, store', said', c2)
    BY <1>13, <1>15, <2>1
  <2>3. PICK w \in Pwds \cup {None}, b \in Stores : w = None /\ b = "keychain"
    BY DEF Stores, Backends
  <2>4. said' = IF said[n] = store[b][n] THEN Told(said, n, Gone) ELSE said
    BY <1>5, <1>15, <2>3 DEF Says, Told
  <2>5. Sound(ch, rows, store, said)
    BY <1>7 DEF Sound
  <2>6. Safe(ch, rows, store', said') /\ said' \in [Names -> Pwds \cup {None, Gone}]
    <3>1. store' = Put(store, b, n, w) /\ Head(ch) = "keychain"
      BY <1>15, <2>3
    <3> HIDE DEF rows, ch
    <3> QED
      BY <1>5, <2>3, <2>4, <2>5, <3>1, DropSafe
  <2>7. d' = d
    BY <1>15
  <2> QED
    BY <1>3, <1>4, <1>7, <1>15, <2>1, <2>2, <2>6, <2>7, Alter
<1> QED
  BY <1>9, <1>10, <1>11, <1>12, <1>14, <1>15

LEMMA KeychainAddUndisturbed ==
  ASSUME Fine, Guarded, Undisturbed, NEW p \in Clients, KeychainAdd(p)
  PROVE  Undisturbed'
<1>1. PICK c : c = client[p]
  OBVIOUS
<1>2. PICK n : n = c.row.name
  OBVIOUS
<1>3. c.op = "add" /\ UNCHANGED <<world, d>>
  BY <1>1 DEF KeychainAdd, Busy
<1>4. Head(Chain[world]) = "keychain"
  <2>1. Awaits(Chain[world], d.rows["servers"], store, said, c)
    BY <1>1, <1>3, CallHere
  <2> QED
    BY <1>3, <2>1 DEF Awaits
<1>5. \/ client' = [client EXCEPT ![p] = StoredOr(c, FALSE)] /\ UNCHANGED <<store, said>>
      \/ /\ store' = Put(store, "keychain", n, c.pwd)
         /\ client' = [client EXCEPT ![p] = StoredOr(c, TRUE)]
         /\ Says(n, c.pwd)
  BY <1>1, <1>2 DEF KeychainAdd, Put
<1>6. CASE client' = [client EXCEPT ![p] = StoredOr(c, FALSE)] /\ UNCHANGED <<store, said>>
  BY <1>1, <1>3, <1>4, <1>6, KeychainRefuses
<1>7. CASE /\ store' = Put(store, "keychain", n, c.pwd)
           /\ client' = [client EXCEPT ![p] = StoredOr(c, TRUE)]
           /\ Says(n, c.pwd)
  BY <1>1, <1>2, <1>3, <1>4, <1>7, KeychainStores
<1> QED
  BY <1>5, <1>6, <1>7

LEMMA ReadsBackUndisturbed ==
  ASSUME Fine, Guarded, Undisturbed, NEW p \in Clients, ReadsBack(p)
  PROVE  Undisturbed'
<1>1. client[p].op = "read" /\ UNCHANGED <<world, d, store, said>>
  BY DEF ReadsBack, Busy
<1>2. Quota[world][p] > 0
  BY <1>1, CallHere
<1>3. PICK c2 : c2 \in {Idle, Refused} /\ client' = [client EXCEPT ![p] = c2]
  BY DEF ReadsBack, Calls, Refuses
<1>4. Awaits(Chain[world], d'.rows["servers"], store, said, c2)
  BY <1>3, RestsOK, RestsAwait
<1>5. Alike(d.rows["servers"], d'.rows["servers"])
  BY <1>1 DEF Alike
<1> QED
  BY <1>1, <1>2, <1>3, <1>4, <1>5, AlterCall

----------------------------------------------------------------------------
LEMMA ColumnPut ==
  ASSUME NEW rows, \A i \in DOMAIN rows : rows[i] \in Rows, Differ(rows), NEW n, NEW w,
         NEW rows2, rows2 = [i \in DOMAIN rows |-> IF rows[i].name = n THEN [rows[i] EXCEPT !.pwd = w] ELSE rows[i]]
  PROVE  Differ(rows2) /\ RowsBut(n, rows, rows2)
<1>1. ASSUME NEW i \in DOMAIN rows
      PROVE  rows2[i].name = rows[i].name /\ (rows[i].name # n => rows2[i] = rows[i])
  BY <1>1 DEF Rows
<1>2. DOMAIN rows2 = DOMAIN rows
  OBVIOUS
<1> QED
  BY <1>1, <1>2 DEF Differ, RowsBut

LEMMA ColumnOf ==
  ASSUME Good(d), NEW n, NEW w, d' = WithColumn(n, w)
  PROVE  d'.rows["servers"] =
           [i \in DOMAIN d.rows["servers"] |->
              IF d.rows["servers"][i].name = n THEN [d.rows["servers"][i] EXCEPT !.pwd = w]
              ELSE d.rows["servers"][i]]
<1> DEFINE A == d.rows
           B == d.kids
           C == d.next
           put(f) == [i \in DOMAIN f |-> IF f[i].name = n THEN [f[i] EXCEPT !.pwd = w] ELSE f[i]]
<1>1. d = Db(A, B, C) /\ A = [u \in Tables |-> A[u]]
  BY HasParts DEF Good, Shaped, Parts
<1>2. d' = [d EXCEPT !.rows["servers"] = put(@)]
  BY DEF WithColumn
<1> HIDE DEF A, B, C, put
<1>3. [Db(A, B, C) EXCEPT !.rows["servers"] = put(@)].rows = [A EXCEPT !["servers"] = put(@)]
  BY DEF Db
<1>4. [A EXCEPT !["servers"] = put(@)]["servers"] = put(A["servers"])
  BY <1>1, TableNames
<1>5. d'.rows["servers"] = put(A["servers"])
  BY <1>1, <1>2, <1>3, <1>4
<1> QED
  BY <1>5 DEF A, put

LEMMA ChainDeleteUndisturbed ==
  ASSUME Fine, Guarded, Undisturbed, NEW p \in Clients, ChainDelete(p)
  PROVE  Undisturbed'
<1> DEFINE ch == Chain[world]
           rows == d.rows["servers"]
<1>1. PICK c : c = client[p]
  OBVIOUS
<1>2. PICK n : n = c.row.name
  OBVIOUS
<1>3. /\ c.op = "forget" /\ UNCHANGED <<world, running, left>>
      /\ \/ client' = [client EXCEPT ![p] = AfterForget(c)] /\ UNCHANGED <<d, store, said>>
         \/ /\ store' = [store EXCEPT !["keychain"][n] = None]
            /\ client' = [client EXCEPT ![p] = AfterForget(c)] /\ Says(n, None) /\ UNCHANGED d
         \/ /\ client' = [client EXCEPT ![p] = Saves(c, [store["age"] EXCEPT ![n] = None])]
            /\ UNCHANGED <<d, store, said>>
         \/ /\ d' = WithColumn(n, Hidden)
            /\ client' = [client EXCEPT ![p] = AfterForget(c)] /\ Says(n, None) /\ UNCHANGED store
  BY <1>1, <1>2 DEF ChainDelete, Busy
<1>4. CallOK(c) /\ Quota[world][p] > 0
  BY <1>1, <1>3, CallHere
<1>5. n \in Names /\ c.then \in {"delete", "done"}
  BY <1>2, <1>3, <1>4, CallFields DEF CallOK
<1>6. /\ ch \in Fronts /\ said \in [Names -> Pwds \cup {None, Gone}] /\ Differ(rows)
      /\ Safe(ch, rows, store, said) /\ store \in [Stores -> Map]
      /\ Good(d) /\ \A i \in DOMAIN rows : rows[i] \in Rows
  BY Facts DEF Fine
<1>7. PICK c3 : c3 = AfterForget(c)
  OBVIOUS
<1>8. ASSUME NEW rows2, NEW st2, NEW sd2
      PROVE  Awaits(ch, rows2, st2, sd2, c3)
  <2>1. c3.op \in {"idle", "delete"}
    BY <1>4, <1>7, AfterForgetIs
  <2> QED
    BY <2>1, RestsAwait
<1>9. Says(n, None) => said' = [said EXCEPT ![n] = None]
  BY <1>5 DEF Says
<1>10. CASE client' = [client EXCEPT ![p] = AfterForget(c)] /\ UNCHANGED <<d, store, said>>
  <2>1. Alike(rows, d'.rows["servers"])
    BY <1>10 DEF Alike
  <2> QED
    BY <1>3, <1>4, <1>7, <1>8, <1>10, <2>1, AlterCall
<1>11. CASE /\ store' = [store EXCEPT !["keychain"][n] = None]
            /\ client' = [client EXCEPT ![p] = AfterForget(c)] /\ Says(n, None) /\ UNCHANGED d
  <2>1. PICK w \in Pwds \cup {None}, b \in Stores : w = None /\ b = "keychain"
    BY DEF Stores, Backends
  <2>2. store' = Put(store, b, n, w) /\ said' = Told(said, n, w)
    BY <1>9, <1>11, <2>1 DEF Put, Told
  <2>3. Safe(ch, rows, store', said') /\ said' \in [Names -> Pwds \cup {None, Gone}]
    <3>1. Sound(ch, rows, store, said)
      BY <1>6 DEF Sound
    <3>2. Sound(ch, rows, store', said')
      BY <1>5, <2>1, <2>2, <3>1, SoundStored
    <3> QED
      BY <3>2 DEF Sound
  <2>4. d' = d
    BY <1>11
  <2> QED
    BY <1>3, <1>4, <1>6, <1>7, <1>8, <1>11, <2>3, <2>4, Alter
<1>12. CASE /\ client' = [client EXCEPT ![p] = Saves(c, [store["age"] EXCEPT ![n] = None])]
            /\ UNCHANGED <<d, store, said>>
  <2>1. PICK m \in Map : m = [store["age"] EXCEPT ![n] = None]
    BY <1>5, <1>6 DEF Map, Stores, Backends
  <2>2. PICK c2 : c2 = Saves(c, m)
    OBVIOUS
  <2>3. c2.op = "save" /\ c2.id = c.id /\ c2.row = c.row /\ c2.then = c.then /\ c2.map = m
    BY <1>4, <2>2, SavesIs
  <2>4. Awaits(ch, rows, store, said, c2)
    <3> HIDE DEF rows, ch
    <3> QED
      BY <1>2, <1>5, <2>1, <2>3 DEF Awaits
  <2>5. Alike(rows, d'.rows["servers"])
    BY <1>12 DEF Alike
  <2> QED
    BY <1>3, <1>4, <1>12, <2>1, <2>2, <2>4, <2>5, AlterCall
<1>13. CASE /\ d' = WithColumn(n, Hidden)
            /\ client' = [client EXCEPT ![p] = AfterForget(c)] /\ Says(n, None) /\ UNCHANGED store
  <2>1. PICK rows2 : rows2 = d'.rows["servers"]
    OBVIOUS
  <2>2. Differ(rows2) /\ RowsBut(n, rows, rows2)
    <3>1. rows2 = [i \in DOMAIN rows |-> IF rows[i].name = n THEN [rows[i] EXCEPT !.pwd = Hidden] ELSE rows[i]]
      BY <1>6, <1>13, <2>1, ColumnOf
    <3> HIDE DEF rows
    <3> QED
      BY <1>6, <3>1, ColumnPut
  <2>3. said' \in [Names -> Pwds \cup {None, Gone}] /\ SaidBut(n, said, said') /\ said'[n] = None
    BY <1>5, <1>6, <1>9, <1>13 DEF SaidBut
  <2>4. StoresBut(n, store, store')
    BY <1>13 DEF StoresBut
  <2>5. Safe(ch, rows2, store', said')
    <3> HIDE DEF rows, ch
    <3> QED
      BY <1>6, <2>2, <2>3, <2>4, SafeBut
  <2> QED
    BY <1>3, <1>4, <1>7, <1>8, <1>13, <2>1, <2>2, <2>3, <2>5, Alter
<1> QED
  BY <1>3, <1>10, <1>11, <1>12, <1>13

LEMMA AgeSaveUndisturbed ==
  ASSUME Fine, Guarded, Undisturbed, NEW p \in Clients, AgeSave(p)
  PROVE  Undisturbed'
<1> DEFINE ch == Chain[world]
           rows == d.rows["servers"]
<1>1. PICK c : c = client[p]
  OBVIOUS
<1>2. PICK n : n = c.row.name
  OBVIOUS
<1>3. PICK x : x = IF c.then \in {"delete", "done"} THEN AfterForget(c) ELSE StoredOr(c, TRUE)
  OBVIOUS
<1>4. PICK c2 : c2 = Maps(x, NoMap)
  OBVIOUS
<1>5. /\ c.op = "save" /\ UNCHANGED <<world, d, running, left>>
      /\ store' = [store EXCEPT !["age"] = c.map] /\ Says(n, c.map[n])
      /\ client' = [client EXCEPT ![p] = c2]
  BY <1>1, <1>2, <1>3, <1>4 DEF AgeSave, Busy
<1>6. CallOK(c) /\ Quota[world][p] > 0 /\ Awaits(ch, rows, store, said, c)
  BY <1>1, <1>5, CallHere
<1>7. PICK w : w = IF c.then \in {"delete", "done"} THEN None ELSE c.pwd
  OBVIOUS
<1>8. /\ c.map = [store["age"] EXCEPT ![n] = w]
      /\ c.then \notin {"delete", "done"} =>
           /\ Head(ch) = "age" /\ c.pwd # None
           /\ (c.id = 0 <=> c.then = "vault only") /\ (c.id # 0 => Points(rows, c))
  BY <1>2, <1>5, <1>6, <1>7 DEF Awaits
<1>9. n \in Names /\ w \in Pwds \cup {None} /\ c.then \in SetThens \cup {"delete", "done"}
  BY <1>2, <1>5, <1>6, <1>7, CallFields DEF CallOK, SetThens
<1>10. /\ ch \in Fronts /\ said \in [Names -> Pwds \cup {None, Gone}] /\ Differ(rows)
       /\ Safe(ch, rows, store, said) /\ store \in [Stores -> Map]
  BY Facts DEF Fine
<1>11. PICK b \in Stores : b = "age"
  BY DEF Stores, Backends
<1>12. store["age"] \in Map /\ c.map[n] = w
  BY <1>8, <1>9, <1>10, <1>11 DEF Map
<1>13. store' = Put(store, b, n, w) /\ said' = Told(said, n, w)
  BY <1>5, <1>8, <1>9, <1>11, <1>12 DEF Put, Says, Told
<1>14. w = None \/ b = Head(ch)
  BY <1>7, <1>8, <1>11
<1>15. /\ Safe(ch, rows, store', said') /\ said' \in [Names -> Pwds \cup {None, Gone}] /\ said'[n] = w
       /\ store'[b][n] = w
  <2>1. Sound(ch, rows, store, said)
    BY <1>10 DEF Sound
  <2>2. Sound(ch, rows, store', said') /\ said'[n] = w /\ store'[b][n] = w
    BY <1>9, <1>13, <1>14, <2>1, SoundStored
  <2> QED
    BY <2>2 DEF Sound
<1>16. CASE c.then \in {"delete", "done"}
  <2>1. x = AfterForget(c)
    BY <1>3, <1>16, Zenon
  <2>2. CallOK(x) /\ x.op \in {"idle", "delete"}
    BY <1>5, <1>6, <1>16, <2>1, AfterForgetIs, AfterForgetOK
  <2>3. c2.op \in {"idle", "delete"}
    <3>1. NoMap \in [Names -> Pwds \cup {None}] /\ x \in Callable
      BY <2>2 DEF NoMap, CallOK
    <3> QED
      BY <1>4, <2>2, <3>1, MapsIs
  <2>4. Awaits(ch, rows, store', said', c2)
    BY <2>3, RestsAwait
  <2> QED
    BY <1>5, <1>6, <1>10, <1>15, <2>4, Alter
<1>17. CASE c.then \in SetThens
  <2>1. x = StoredOr(c, TRUE) /\ c.then \notin {"delete", "done"}
    BY <1>3, <1>17 DEF SetThens
  <2>2. CallOK(x)
    BY <1>5, <1>6, <1>17, <2>1, StoredOrOK
  <2>3. \/ x \in {Idle, Refused}
        \/ c.then # "vault only" /\ x.op = "mask" /\ x.id = c.id /\ x.row = c.row
    BY <1>6, <1>17, <2>1, StoredOrIs
  <2>4. c2.op = x.op /\ c2.id = x.id /\ c2.row = x.row
    <3>1. NoMap \in [Names -> Pwds \cup {None}] /\ x \in Callable
      BY <2>2 DEF NoMap, CallOK
    <3> QED
      BY <1>4, <3>1, MapsIs
  <2>5. Awaits(ch, rows, store', said', c2)
    <3>1. CASE x \in {Idle, Refused}
      BY <2>4, <3>1, RestsOK, RestsAwait
    <3>2. CASE c.then # "vault only" /\ x.op = "mask" /\ x.id = c.id /\ x.row = c.row
      <4>1. Points(rows, c2)
        BY <1>8, <2>1, <2>4, <3>2 DEF Points
      <4>2. w # None /\ Head(ch) = b
        BY <1>7, <1>8, <1>11, <2>1
      <4> HIDE DEF rows, ch
      <4> QED
        BY <1>2, <1>15, <2>4, <3>2, <4>1, <4>2 DEF Awaits
    <3> QED
      BY <2>3, <3>1, <3>2
  <2> QED
    BY <1>5, <1>6, <1>10, <1>15, <2>5, Alter
<1> QED
  BY <1>9, <1>16, <1>17

----------------------------------------------------------------------------
LEMMA RestsUndisturbed ==
  ASSUME Fine, Guarded, Undisturbed, NEW p \in Clients, TunnelStarts(p) \/ TunnelStops(p) \/ Dies(p)
  PROVE  Undisturbed'
<1>1. PICK c : c = client[p]
  OBVIOUS
<1>2. c.op # "idle" /\ UNCHANGED <<world, d, store, left, said>>
  BY <1>1 DEF TunnelStarts, TunnelStops, Dies, Busy
<1>3. CallOK(c) /\ Quota[world][p] > 0
  BY <1>1, <1>2, CallHere
<1>4. PICK c2 : c2 \in {Idle, Refused, AfterForget(c)} /\ client' = [client EXCEPT ![p] = c2]
  BY <1>1 DEF TunnelStarts, TunnelStops, Dies, Refuses
<1>5. c2.op \in {"idle", "delete"}
  BY <1>3, <1>4, RestsOK, AfterForgetIs
<1>6. Awaits(Chain[world], d'.rows["servers"], store, said, c2)
  BY <1>5, RestsAwait
<1>7. Alike(d.rows["servers"], d'.rows["servers"])
  BY <1>2 DEF Alike
<1> QED
  BY <1>2, <1>3, <1>4, <1>6, <1>7, AlterCall

LEMMA PasswordStarts ==
  ASSUME Init, Guarded
  PROVE  Undisturbed
<1> DEFINE rows == d.rows["servers"]
<1>1. PICK w \in Worlds : world = w /\ d = Start[w] /\ client = [p \in Clients |-> Idle] /\ said = NoMap
  BY DEF Init
<1>2. NamesDiffer(d)
  BY <1>1, StartAssumption
<1>3. Differ(rows)
  BY <1>2 DEF NamesDiffer, Unique, Differ, Live, Tables
<1>4. said \in [Names -> Pwds \cup {None, Gone}] /\ \A n \in Names : said[n] = None
  BY <1>1 DEF NoMap
<1>5. Safe(Chain[world], rows, store, said)
  BY <1>4 DEF Safe
<1>6. \A p \in Clients : client[p].op = "idle"
  BY <1>1, RestsOK
<1>7. \A p \in Clients : Awaits(Chain[world], rows, store, said, client[p])
  BY <1>6, RestsAwait
<1>8. Lone(Chain[world], rows, store, said, client, Quota[world])
  BY <1>3, <1>4, <1>5, <1>6, <1>7 DEF Lone
<1> QED
  BY <1>8, UndisturbedIs

LEMMA PasswordSteps ==
  ASSUME Fine, PasswordInv, [Next]_vars
  PROVE  PasswordInv'
<1>1. world' = world
  <2>1. CASE \E p \in Clients : Web(p) \/ Cli(p) \/ Step(p) \/ Dies(p)
    BY <2>1, ClientTook DEF Took
  <2>2. CASE \E n \in Names : TunnelRunEnds(n)
    BY <2>2 DEF TunnelRunEnds
  <2> QED
    BY <2>1, <2>2 DEF Next, vars
<1>2. Guarded' => Guarded
  BY <1>1 DEF Guarded, Alone, OnePerson
<1>3. ASSUME Guarded
      PROVE  Undisturbed'
  <2>0. Undisturbed
    BY <1>3 DEF PasswordInv
  <2>1. CASE \E p \in Clients : Web(p) \/ Cli(p) \/ Step(p) \/ Dies(p)
    <3>1. PICK p \in Clients : Web(p) \/ Cli(p) \/ Step(p) \/ Dies(p)
      BY <2>1
    <3>2. CASE Web(p) \/ Cli(p)
      BY <1>3, <2>0, <3>2, WebAsks, CliAsks, RequestUndisturbed DEF Fine
    <3>3. CASE Step(p) \/ Dies(p)
      BY <1>3, <2>0, <3>3, StatementUndisturbed, ReadsBackUndisturbed, ChainSetUndisturbed,
         KeychainAddUndisturbed, ChainDeleteUndisturbed,
         AgeSaveUndisturbed, RestsUndisturbed DEF Step
    <3> QED
      BY <3>1, <3>2, <3>3
  <2>2. CASE UNCHANGED <<world, d, store, client, left, said>>
    <3>1. Lone(Chain[world], d.rows["servers"], store, said, client, Quota[world])
      BY <1>3, <2>0, UndisturbedIs
    <3>2. Lone(Chain[world'], d'.rows["servers"], store', said', client', Quota[world'])
      BY <2>2, <3>1
    <3>3. Guarded'
      BY <1>1, <1>3 DEF Guarded, Alone, OnePerson
    <3> QED
      BY <3>2, <3>3, UndisturbedNext
  <2> QED
    BY <2>1, <2>2 DEF Next, vars, TunnelRunEnds
<1> QED
  BY <1>2, <1>3 DEF PasswordInv

\* What the commands of one person leave pending between two calls, and that the
\* password last given is kept meanwhile: the invariant behind PasswordsStay.
THEOREM PasswordsPend == Spec => []PasswordInv
<1>1. Init => PasswordInv
  BY PasswordStarts DEF PasswordInv
<1>2. Fine /\ PasswordInv /\ [Next]_vars => PasswordInv'
  BY PasswordSteps
<1>3. Spec => []Fine
  BY Inductive, FineIs, PTL
<1> QED
  BY <1>1, <1>2, <1>3, PTL DEF Spec

\* One person who edits by the commands of the CLI, and a vault in front of the
\* column: at every moment one may be killed at, a connection uses the password last
\* given for a server, or, if the vault may refuse, a backend still has it, but for a
\* password that a keychain of macOS or Windows has dropped for the next one.
THEOREM PasswordsStay == Spec => [](OnePerson /\ Chain[world] \in Fronts => PasswordKept)
<1>1. ASSUME Fine, PasswordInv, OnePerson, Chain[world] \in Fronts
      PROVE  PasswordKept
  <2>1. ASSUME Alone, NEW i \in Live(d, "servers"), NEW n, n = d.rows["servers"][i].name, said[n] # None
        PROVE  Kept(n)
    <3>1. Guarded
      BY <1>1, <2>1 DEF Guarded
    <3>2. n \in Names
      BY <1>1, <2>1, TableNames DEF Fine, Good, Wellformed
    <3> QED
      BY <1>1, <2>1, <3>1, <3>2 DEF PasswordInv, Undisturbed
  <2> QED
    BY <2>1 DEF PasswordKept
<1>2. Spec => []Fine
  BY Inductive, FineIs, PTL
<1> QED
  BY <1>1, <1>2, PasswordsPend, PTL
=============================================================================
